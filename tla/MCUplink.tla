------------------------------ MODULE MCUplink ------------------------------
(***************************************************************************)
(* One site with two events, of which the gateway can hold one; one site   *)
(* with three; and two sites with one event each.                          *)
(***************************************************************************)
EXTENDS Uplink, TLC

CONSTANTS a, b
OneSite == {<<a, 1>>, <<a, 2>>}
OneIds == (<<a, 1>> :> "x") @@ (<<a, 2>> :> "y")
ThreeEvents == OneSite \cup {<<a, 3>>}
ThreeIds == OneIds @@ (<<a, 3>> :> "z")
TwoSites == {<<a, 1>>, <<b, 1>>}
TwoIds == (<<a, 1>> :> "x") @@ (<<b, 1>> :> "y")
=============================================================================
