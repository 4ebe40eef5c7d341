---------------------------- MODULE MCIncidents ----------------------------
(***************************************************************************)
(* Two candidates that may be linked, or three in a row, where the middle  *)
(* one joins the outer two into one group as long as it is live.           *)
(***************************************************************************)
EXTENDS Incidents
CONSTANTS x, y, z
TwoCandidates == {x, y}
TwoNear == {{x, y}}
ThreeCandidates == {x, y, z}
ThreeNear == {{x, y}, {y, z}}
=============================================================================
