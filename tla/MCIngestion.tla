---------------------------- MODULE MCIngestion ----------------------------
(***************************************************************************)
(* Five events: two under one event_id, one malformed, one of a device not *)
(* yet registered, one the database cannot store.                          *)
(***************************************************************************)
EXTENDS Ingestion, TLC

CONSTANTS first, twin, broken, early, huge
MCEvents == {first, twin, broken, early, huge}
MCId == (first :> "x") @@ (twin :> "x") @@ (broken :> "y")
        @@ (early :> "z") @@ (huge :> "w")
=============================================================================
