--------------------------------- MODULE GpuebSram ---------------------------------
(***************************************************************************)
(* The sole owner of the GPUEB SRAM (gpu/sram-owner): one claim on the     *)
(* whole SRAM, two exclusive typed windows leased from it, and a           *)
(* quarantine nothing leaves.  Every operation runs under sram->lock;      *)
(* a transaction holds it from its first to its last access.               *)
(***************************************************************************)
EXTENDS Naturals, FiniteSets

OK == "ok"

VARIABLES
    phase,    \* core.phase
    clients   \* core.clients

sramVars == <<phase, clients>>

Windows == {"gpr", "mbox"}
Phases == {"new", "owned", "quarantined", "closed"}

SramTypeOK == phase \in Phases /\ clients \subseteq Windows

(***************************************************************************)
(* mt6878_gpueb_sram_create: the claim and the mapping are made and the    *)
(* core opened, or nothing is kept.                                        *)
(***************************************************************************)
SramCreate ==
    /\ phase = "new"
    /\ phase' = "owned" /\ clients' = {}

(***************************************************************************)
(* mt6878_gpueb_sram_check_parent, for the parent the SRAM was created by. *)
(***************************************************************************)
CheckParent == IF phase = "owned" THEN OK ELSE "ESHUTDOWN"

(***************************************************************************)
(* gpueb_sram_window_range for every window: what a transaction asks       *)
(* before it reads or writes.                                              *)
(***************************************************************************)
WindowRange ==
    IF phase # "owned" THEN "ESHUTDOWN"
    ELSE IF clients # Windows THEN "ENOENT" ELSE OK

(***************************************************************************)
(* mt6878_gpueb_sram_unknown_start: whatever the firmware may have begun,  *)
(* the memory is not given back.                                           *)
(***************************************************************************)
Quarantined == IF phase = "owned" THEN "quarantined" ELSE phase

(***************************************************************************)
(* gpueb_sram_claim_window.                                                *)
(***************************************************************************)
ClaimAllowed(window) == phase = "owned" /\ window \notin clients

(***************************************************************************)
(* mt6878_gpueb_sram_destroy.                                              *)
(***************************************************************************)
SramDestroy ==
    /\ phase = "owned" /\ clients = {}
    /\ phase' = "closed"
    /\ UNCHANGED clients
=============================================================================
