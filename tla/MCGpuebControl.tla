------------------------------- MODULE MCGpuebControl -------------------------------
(***************************************************************************)
(* GpuebControl with the parent's task and one reset consumer, one channel *)
(* and one message each way.                                               *)
(***************************************************************************)
EXTENDS GpuebControl

MCReplies == {"freq"}
=============================================================================
