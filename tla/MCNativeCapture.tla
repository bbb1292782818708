---------------------------- MODULE MCNativeCapture ----------------------------
(***************************************************************************)
(* One capture: all four CAMSV lines and the receiver interrupt,           *)
(* one group (the recipe takes no other grouping), the submitted sequence  *)
(* and a stale one, and one provider fault.                                *)
(***************************************************************************)
EXTENDS NativeCapture

MCGroups == {0}
MCSequences == 0..1
=============================================================================
