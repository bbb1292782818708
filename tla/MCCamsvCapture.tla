---------------------------- MODULE MCCamsvCapture ----------------------------
(***************************************************************************)
(* One transaction of the vb2 pair: two tags, three groups so that the     *)
(* tags may share a group, use two, and leave a group empty, and one older *)
(* frame's sequence number beside the zero-initialised one.                *)
(***************************************************************************)
EXTENDS CamsvCapture

MCSequences == 0..2
MCGroups == 0..2
=============================================================================
