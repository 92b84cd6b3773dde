----------------------------- MODULE MCOverlay ------------------------------
(***************************************************************************)
(* Instance of Overlay for TLC: a readable file of the image, a path under *)
(* the prefix the image does not have, and a path outside the prefix.      *)
(***************************************************************************)
EXTENDS Overlay, TLC

CONSTANTS lower, upper, outside

MCImageBits == lower :> {"r"}
MCUpper     == lower :> RealStates @@ upper :> {"absent", "file"} @@ outside :> {"denied"}
=============================================================================
