------------------------------- MODULE MCModemStart -------------------------------
(***************************************************************************)
(* ModemStart in the profile that powers the modem on, with two callers of *)
(* first_start.                                                            *)
(***************************************************************************)
EXTENDS ModemStart
=============================================================================
