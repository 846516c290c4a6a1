------------------------------ MODULE MCDacPath ------------------------------
(***************************************************************************)
(* Two codes, frames of two bits and a divider of two: a frame takes nine  *)
(* edges, and the control word needs four to cross, so that the active code *)
(* can change, and change back, within a frame.                            *)
(***************************************************************************)
EXTENDS DacPath

MCField == {"manual_mode", "manual_dac"}
MCValue == {0, 1}
===============================================================================
