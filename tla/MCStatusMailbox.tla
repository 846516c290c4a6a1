---------------------------- MODULE MCStatusMailbox ----------------------------
(***************************************************************************)
(* The instance TLC checks: a DAC code and a lock flag of two values each, *)
(* and a holdover status that differs from the reset word.                 *)
(***************************************************************************)
EXTENDS StatusMailbox

MCField == {"active_dac", "locked"}
MCValue == {0, 1}
MCHoldover == [f \in MCField |-> IF f = "active_dac" THEN 1 ELSE 0]
===============================================================================
