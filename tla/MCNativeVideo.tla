----------------------------- MODULE MCNativeVideo -----------------------------
(***************************************************************************)
(* Two frames in succession (sequences 0 and 1; each is a stale sequence   *)
(* to the other), the DONE and ERR lines and one provider fault.           *)
(***************************************************************************)
EXTENDS NativeVideo

MCGroups == {0}
MCSequences == 0..1
=============================================================================
