----------------------------- MODULE MCShipEngine -----------------------------
(***************************************************************************)
(* ShipEngine alone for TLC, with runs that change code: what it accepts     *)
(* once it has stopped a run.                                                *)
(***************************************************************************)
EXTENDS ShipEngine

CONSTANTS code, push

CodeStarts == {[lane |-> "hotfix", kind |-> "code-changing"],
               [lane |-> "full-sprint", kind |-> Unset]}

===============================================================================
