----------------------------- MODULE MCCamsvDirect -----------------------------
(***************************************************************************)
(* One direct owner under arbitrary callers: the completion groups 0 and   *)
(* 1, the submitted sequence and a stale one, and two distinct faults so   *)
(* that a first error can be told from a later one.                        *)
(***************************************************************************)
EXTENDS CamsvDirect

MCSequences == 0..1
MCGroups == 0..1
=============================================================================
