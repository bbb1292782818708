-------------------------------- MODULE MCGpuebReset --------------------------------
(***************************************************************************)
(* GpuebReset with one channel that is answered and one that carries       *)
(* events, two posts, two sends and two tasks: enough for an                *)
(* answer that arrives in a transaction or a callback, a second request    *)
(* before the first is consumed, and two drains at once.                   *)
(***************************************************************************)
EXTENDS GpuebReset, TLC

CONSTANTS a, b

MCReplies == {"freq"}
MCSymmetry == Permutations(Callers)
=============================================================================
