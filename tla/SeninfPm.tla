---------------------------------- MODULE SeninfPm ----------------------------------
(***************************************************************************)
(* Runtime PM of the SENINF receiver (camera-native-capture/               *)
(* mt6878-seninf-pm.c): resume takes the exclusive rate, two power         *)
(* domains, the CAM gates, the core-voltage vote and the CSI clock, and    *)
(* moves the CSI mux to its PLL; suspend, and a failed resume, give back   *)
(* what the ledger holds, in another order, and stop at the first failure. *)
(*                                                                         *)
(* Each step is one call to a provider.  p->lock is held from the first to *)
(* the last step, so place doubles as the lock.                            *)
(***************************************************************************)
EXTENDS Naturals, Sequences, SequencesExt

VARIABLES
    ledger,   \* domain_refs, clock_refs, voltage_vote, parent_changed, rate_owned
    pmError,  \* p->first_error # 0
    place,    \* "idle", "resume", "unwind" (release after fail), "suspend"
    next,     \* index of the next call of the running order
    mux,      \* parent of the CSI mux
    old,      \* p->old_parent
    asked,    \* the parent the other consumers of the clock tree gave the mux
    rpm       \* status of the PM core: "suspended", "active"

pmVars == <<ledger, pmError, place, next, mux, old, asked, rpm>>

CONSTANT Parents  \* the parents other consumers may choose

ASSUME ParentsAssumption == Parents # {} /\ "pll" \notin Parents

Gates == {"cam0", "cam1", "cam2", "camtm"}
Domains == {"domain0", "domain1"}

\* Mutation: the old parent is read before the exclusive rate is taken.
ResumeReadsFirst == <<"old_parent", "rate", "domain0", "domain1", "cam0", "cam1", "cam2", "camtm",
                      "vote", "voltage", "csi", "parent", "check">>

\* Mutation: the vote is dropped before the CSI clock.
ReleaseVoteFirst == <<"vote", "csi", "parent", "rate", "camtm", "cam2", "cam1", "cam0",
                      "domain1", "domain0">>

(***************************************************************************)
(* The orders of mt6878_seninf_pm_resume and of release.  "voltage" reads  *)
(* the vote back and "check" the rate.                                     *)
(***************************************************************************)
ResumeOrder == <<"rate", "old_parent", "domain0", "domain1", "cam0", "cam1", "cam2", "camtm",
                 "vote", "voltage", "csi", "parent", "check">>
ReleaseOrder == <<"csi", "parent", "rate", "camtm", "cam2", "cam1", "cam0",
                  "vote", "domain1", "domain0">>

Refs == Range(ReleaseOrder)

PmInit ==
    /\ ledger = {} /\ pmError = FALSE
    /\ place = "idle" /\ next = 1
    /\ mux \in Parents /\ old = mux /\ asked = mux
    /\ rpm = "suspended"

-----------------------------------------------------------------------------
(***************************************************************************)
(* The admission test of resume.                                           *)
(***************************************************************************)
ResumeAllowed ==
    rpm = "suspended" /\ ~pmError /\ ledger \cap (Refs \ {"parent"}) = {}

ResumeBegins ==
    /\ place = "idle" /\ ResumeAllowed
    /\ place' = "resume" /\ next' = 1
    /\ UNCHANGED <<ledger, pmError, mux, old, asked, rpm>>

(***************************************************************************)
(* The reference a call of resume enters in the ledger, if it takes one.   *)
(***************************************************************************)
Recorded(ref) == {ref} \cap Refs

(***************************************************************************)
(* One call of resume.  The exclusive rate is refused without a latched    *)
(* error; any later failure is latched and unwound.                        *)
(***************************************************************************)
ResumeCall ==
    /\ place = "resume" /\ next <= Len(ResumeOrder)
    /\ LET ref == ResumeOrder[next] IN
         \/ /\ ledger' = ledger \cup Recorded(ref)
            /\ mux' = IF ref = "parent" THEN "pll" ELSE mux
            /\ old' = IF ref = "old_parent" THEN mux ELSE old
            /\ next' = next + 1
            /\ UNCHANGED <<pmError, place>>
         \/ /\ place' = IF ref = "rate" THEN "idle" ELSE "unwind"
            /\ pmError' = (ref # "rate")
            /\ next' = 1
            /\ UNCHANGED <<ledger, mux, old>>
    /\ UNCHANGED <<asked, rpm>>

ResumeEnds ==
    /\ place = "resume" /\ next = Len(ResumeOrder) + 1
    /\ place' = "idle" /\ next' = 1
    /\ rpm' = "active"
    /\ UNCHANGED <<ledger, pmError, mux, old, asked>>

(***************************************************************************)
(* mt6878_seninf_pm_suspend.  The PM core calls it once the usage count is *)
(* zero; the receiver refuses while a controller is allocated (native-pm), *)
(* which calls nothing here.                                               *)
(***************************************************************************)
SuspendBegins ==
    /\ place = "idle" /\ rpm = "active"
    /\ place' = "suspend" /\ next' = 1
    /\ UNCHANGED <<ledger, pmError, mux, old, asked, rpm>>

(***************************************************************************)
(* One call of release succeeds: the mux is put back only if it still has  *)
(* the parent resume gave it.                                              *)
(***************************************************************************)
GivesBack(ref) ==
    /\ ref = "parent" /\ ref \in ledger => mux = "pll"
    /\ ledger' = ledger \ {ref}
    /\ mux' = IF ref = "parent" /\ ref \in ledger THEN old ELSE mux

(***************************************************************************)
(* release: one reference after the other.                                 *)
(***************************************************************************)
ReleaseCall ==
    /\ place \in {"unwind", "suspend"} /\ next <= Len(ReleaseOrder)
    /\ GivesBack(ReleaseOrder[next])
    /\ next' = next + 1
    /\ UNCHANGED <<pmError, place, old, asked, rpm>>

\* Mutation: a failed suspend is returned and not latched.
ReleaseFailsUnlatched ==
    /\ place \in {"unwind", "suspend"} /\ next <= Len(ReleaseOrder)
    /\ ReleaseOrder[next] \in ledger \cap ({"parent", "vote"} \cup Domains)
    /\ place' = "idle" /\ next' = 1
    /\ UNCHANGED <<ledger, pmError, mux, old, asked, rpm>>

(***************************************************************************)
(* Clock calls cannot fail; the reparenting, the vote and the domains can. *)
(* The failure is latched and keeps what is left in the ledger.            *)
(***************************************************************************)
ReleaseFails ==
    /\ place \in {"unwind", "suspend"} /\ next <= Len(ReleaseOrder)
    /\ ReleaseOrder[next] \in ledger \cap ({"parent", "vote"} \cup Domains)
    /\ pmError' = TRUE
    /\ place' = "idle" /\ next' = 1
    /\ UNCHANGED <<ledger, mux, old, asked, rpm>>

ReleaseEnds ==
    /\ place \in {"unwind", "suspend"} /\ next = Len(ReleaseOrder) + 1
    /\ rpm' = "suspended"
    /\ place' = "idle" /\ next' = 1
    /\ UNCHANGED <<ledger, pmError, mux, old, asked>>

(***************************************************************************)
(* Another consumer of the clock tree moves the mux (external).  The clock *)
(* framework refuses it while the rate is held exclusively.                *)
(***************************************************************************)
ForeignParent ==
    /\ "rate" \notin ledger
    /\ asked' \in Parents /\ mux' = asked'
    /\ UNCHANGED <<ledger, pmError, place, next, old, rpm>>

PmNext ==
    \/ ResumeBegins \/ ResumeCall \/ ResumeEnds
    \/ SuspendBegins \/ ReleaseCall \/ ReleaseFails \/ ReleaseEnds
    \/ ForeignParent

PmSpec == PmInit /\ [][PmNext]_pmVars

-----------------------------------------------------------------------------
(***************************************************************************)
(* The CSI clock runs, and the mux is on the PLL, only with the exclusive  *)
(* rate, the gates, the voltage vote and both domains held: through every  *)
(* failed resume and every release that stops half way ("Keep base clocks, *)
(* domains and voltage vote").                                             *)
(***************************************************************************)
CsiIsSupplied ==
    "csi" \in ledger \/ mux = "pll" => Gates \cup Domains \cup {"rate", "vote"} \subseteq ledger

(***************************************************************************)
(* Whenever the receiver does not own the mux, it has the parent the other *)
(* consumers last gave it: release never puts back a stale parent.         *)
(***************************************************************************)
MuxRestored == "parent" \notin ledger => mux = asked

(***************************************************************************)
(* Between calls the ledger is what the PM core believes, unless an error  *)
(* says otherwise: nothing held when suspended, everything when active.    *)
(***************************************************************************)
LedgerMatchesPm ==
    place = "idle" /\ ~pmError => ledger = IF rpm = "active" THEN Refs ELSE {}

=============================================================================
