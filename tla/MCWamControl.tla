----------------------------- MODULE MCWamControl -----------------------------
(***************************************************************************)
(* The stub choice point and four more frames: enough for a clause with an  *)
(* environment to call one that leaves a choice point above it, for that    *)
(* clause to be cut, deallocated or retried underneath, and for an          *)
(* environment that is out of reach to be kept by a choice point.           *)
(***************************************************************************)
EXTENDS WamControl
==============================================================================
