-------------------------------- MODULE MCWam --------------------------------
(***************************************************************************)
(* The stub choice point and three more frames, the query's variable and    *)
(* one more heap cell, two trail entries: a clause with an environment can  *)
(* leave a choice point below or above its callee's environment, bind its   *)
(* own and its caller's variable on either side of it, cut it and return.   *)
(***************************************************************************)
EXTENDS Wam
==============================================================================
