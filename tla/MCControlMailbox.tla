--------------------------- MODULE MCControlMailbox ---------------------------
(***************************************************************************)
(* The instance TLC checks: two fields of two values each, enough for a    *)
(* word to be torn between them.                                           *)
(***************************************************************************)
EXTENDS ControlMailbox

MCField == {"manual_mode", "manual_dac"}
MCValue == {0, 1}
===============================================================================
