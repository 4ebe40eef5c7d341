----------------------------- MODULE MCDelivery -----------------------------
(***************************************************************************)
(* Two sites with one event each under one event_id, of which one device   *)
(* is registered late; the gateway can hold one event.  One site with two  *)
(* events for the order of the topic.                                      *)
(***************************************************************************)
EXTENDS Delivery, TLC

CONSTANTS a, b
TwoSites == {<<a, 1>>, <<b, 1>>}
TwoIds == (<<a, 1>> :> "x") @@ (<<b, 1>> :> "x")
LateSite == {<<b, 1>>}
OneSite == {<<a, 1>>, <<a, 2>>}
OneSiteIds == (<<a, 1>> :> "x") @@ (<<a, 2>> :> "y")
=============================================================================
