------------------------------- MODULE MCModemPower -------------------------------
(***************************************************************************)
(* ModemPower in every profile, with a failure that a caller may take for  *)
(* a deferral.                                                             *)
(***************************************************************************)
EXTENDS ModemPower
=============================================================================
