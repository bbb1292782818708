------------------------------- MODULE GpuebControl -------------------------------
(***************************************************************************)
(* The bound GPUEB parent (gpu/bound-parent-draft/mt6878-gpueb-control.c): *)
(* one transaction that takes the parent's device mutex, claims the SRAM,  *)
(* resumes MFG0 (gpu/mfg0-supplier-draft), registers the reset provider    *)
(* (gpu/reset-provider-draft) over a GpuebReset scope, and hands the power *)
(* reference over to it.  A failure after the resume keeps everything.     *)
(***************************************************************************)
EXTENDS GpuebReset

CONSTANT Parent  \* the task that makes the transaction

ASSUME ParentAssumption == Parent \in Callers

VARIABLES
    step,      \* of mt6878_gpueb_control_prepare
    result,    \* *result is set: the owner object stays reachable
    power,     \* the MFG0 scope: "held" (its pins), "usage", "error"
    resumed,   \* scope->attempted, kept when the scope is gone
    devLock,   \* the parent's device mutex: "free", "control", "other"
    failure,   \* control->first_error # 0
    provider,  \* "none", "registered", "retained"
    plock,     \* holder of provider->lock
    pop,       \* what it does: "none", "assert", "stop"
    perror,    \* provider->first_error # 0
    asserted   \* provider->asserted

providerVars == <<provider, plock, pop, perror, asserted>>
parentVars == <<step, result, power, resumed, devLock, failure>>
controlVars == <<resetVars, parentVars, providerVars>>

Steps == {"idle", "claim", "resume", "register", "publish", "cleanup", "finish", "done", "failed"}

(***************************************************************************)
(* The variables have their types.                                         *)
(***************************************************************************)
ControlTypeOK ==
    /\ ResetTypeOK
    /\ step \in Steps /\ result \in BOOLEAN
    /\ power \subseteq {"held", "usage", "error"} /\ resumed \in BOOLEAN
    /\ devLock \in {"free", "control", "other"} /\ failure \in BOOLEAN
    /\ provider \in {"none", "registered", "retained"}
    /\ plock \in Callers \cup {"free"} /\ pop \in {"none", "assert", "stop"}
    /\ perror \in BOOLEAN /\ asserted \in BOOLEAN

ControlInit ==
    /\ ScopeInit /\ phase = "new"
    /\ step = "idle" /\ result = FALSE /\ power = {} /\ resumed = FALSE
    /\ devLock = "free" /\ failure = FALSE
    /\ provider = "none" /\ plock = "free" /\ pop = "none"
    /\ perror = FALSE /\ asserted = FALSE

-----------------------------------------------------------------------------
(***************************************************************************)
(* mt6878_gpueb_mfg0_prepare: the device mutex is tried, never waited for. *)
(* A refusal leaves nothing behind.                                        *)
(***************************************************************************)
Mfg0Prepare ==
    /\ step = "idle" /\ ~result
    /\ devLock = "free"
    /\ devLock' = "control" /\ power' = {"held"}
    /\ step' = "claim"
    /\ UNCHANGED <<resetVars, result, resumed, failure, providerVars>>

(***************************************************************************)
(* A failed validation or claim: mt6878_gpueb_mfg0_finish undoes the       *)
(* preparation, before any power write.                                    *)
(***************************************************************************)
ClaimFails ==
    /\ step = "claim"
    /\ power' = {} /\ devLock' = "free"
    /\ step' = "idle"
    /\ UNCHANGED <<resetVars, result, resumed, failure, providerVars>>

\* Mutation: the owner is published by the end of a successful bring-up.
ClaimUnpublished ==
    /\ step = "claim" /\ SramCreate
    /\ step' = "resume"
    /\ UNCHANGED <<scopeVars, thread, sending, calls, hwVars, seenVars,
                   result, power, resumed, devLock, failure, providerVars>>

(***************************************************************************)
(* The SRAM is claimed and the owner published before the first resume.    *)
(***************************************************************************)
ClaimSram ==
    /\ step = "claim" /\ SramCreate
    /\ result' = TRUE
    /\ step' = "resume"
    /\ UNCHANGED <<scopeVars, thread, sending, calls, hwVars, seenVars,
                   power, resumed, devLock, failure, providerVars>>

\* Mutation: the failing task keeps the device mutex.
QuarantineLocked ==
    /\ power' = power \cup {"error"}
    /\ UNCHANGED devLock

(***************************************************************************)
(* mt6878_gpueb_mfg0_quarantine keeps the references, not the mutex.       *)
(***************************************************************************)
Mfg0Quarantine ==
    /\ power' = power \cup {"error"}
    /\ devLock' = IF "error" \in power THEN devLock ELSE "free"

(***************************************************************************)
(* mt6878_gpueb_mfg0_resume: pm_runtime_get_sync keeps its usage count     *)
(* when it fails, and so does a parent that is not active afterwards.      *)
(***************************************************************************)
Mfg0Resume ==
    /\ step = "resume"
    /\ resumed' = TRUE
    /\ power' = power \cup {"usage"}
    /\ step' = "register"
    /\ UNCHANGED <<resetVars, result, devLock, failure, providerVars>>

\* Mutation: a failed resume gives its usage count back.
ResumeUsageDropped == {"held", "error"}

(***************************************************************************)
(* What the MFG0 scope holds after a failed resume.                        *)
(***************************************************************************)
ResumeUsageKept == {"held", "usage", "error"}

(***************************************************************************)
(* A failed resume quarantines the MFG0 scope; retain_failure then finds   *)
(* its error and quarantines the SRAM.                                     *)
(***************************************************************************)
ResumeFails ==
    /\ step = "resume"
    /\ resumed' = TRUE /\ failure' = TRUE
    /\ power' = ResumeUsageKept /\ devLock' = "free"
    /\ phase' = Quarantined
    /\ step' = "failed"
    /\ UNCHANGED <<clients, scopeVars, thread, sending, calls, hwVars, seenVars, result,
                   providerVars>>

(***************************************************************************)
(* retain_failure.                                                         *)
(***************************************************************************)
RetainFailure ==
    /\ failure' = TRUE
    /\ phase' = Quarantined
    /\ Mfg0Quarantine
    /\ step' = "failed"

(***************************************************************************)
(* mt6878_gpueb_reset_provider_register up to the scope.                   *)
(***************************************************************************)
RegisterScope ==
    /\ step = "register" /\ Prepare
    /\ step' = "publish"
    /\ UNCHANGED <<result, power, resumed, devLock, failure, providerVars>>

RegisterFails ==
    /\ step = "register" /\ RetainFailure
    /\ UNCHANGED <<clients, scopeVars, thread, sending, calls, hwVars, seenVars, result, resumed,
                   providerVars>>

(***************************************************************************)
(* reset_controller_register publishes the provider, or its scope is       *)
(* destroyed again.                                                        *)
(***************************************************************************)
ProviderPublish ==
    /\ step = "publish"
    /\ provider' = "registered"
    /\ step' = "finish"
    /\ UNCHANGED <<resetVars, result, power, resumed, devLock, failure,
                   plock, pop, perror, asserted>>

PublishFails ==
    /\ step = "publish" /\ CallBegins(Parent, "destroy")
    /\ step' = "cleanup"
    /\ UNCHANGED <<result, power, resumed, devLock, failure, providerVars>>

(***************************************************************************)
(* The destruction returned: a scope it kept is retained and the SRAM      *)
(* quarantined, as retain_failure does in either case.                     *)
(***************************************************************************)
CleanupEnds ==
    /\ step = "cleanup" /\ calls[Parent] = NoCall
    /\ provider' = IF life = "freed" THEN "none" ELSE "retained"
    /\ RetainFailure
    /\ UNCHANGED <<clients, scopeVars, thread, sending, calls, hwVars, seenVars, result, resumed,
                   plock, pop, perror, asserted>>

(***************************************************************************)
(* mt6878_gpueb_mfg0_finish: the transaction's usage count is dropped      *)
(* without idling; the scope holds its own.                                *)
(***************************************************************************)
Mfg0Finish ==
    /\ step = "finish"
    /\ power' = {} /\ devLock' = "free"
    /\ step' = "done"
    /\ UNCHANGED <<resetVars, result, resumed, failure, providerVars>>

-----------------------------------------------------------------------------
(***************************************************************************)
(* mt6878_gpueb_control_bind_channel: only after the hand-over, through    *)
(* the provider's lock.                                                    *)
(***************************************************************************)
ControlBind(c) ==
    /\ ~failure /\ provider = "registered" /\ power = {}
    /\ plock = "free" /\ ~perror /\ ~asserted
    /\ BindChannel(c)
    /\ UNCHANGED <<parentVars, providerVars>>

\* Mutation: the SRAM is left to the reset.
AssertLeavesSram == phase

(***************************************************************************)
(* assert_owned quarantines the SRAM before the first possible write.      *)
(***************************************************************************)
AssertQuarantines == Quarantined

(***************************************************************************)
(* provider_assert and mt6878_gpueb_reset_provider_stop up to the first    *)
(* call into the scope.                                                    *)
(***************************************************************************)
ProviderBegins(c, op) ==
    /\ provider = "registered" /\ plock = "free" /\ calls[c] = NoCall
    /\ ~perror /\ (op = "assert" => ~asserted)
    /\ plock' = c /\ pop' = op
    /\ phase' = IF asserted THEN phase ELSE AssertQuarantines
    /\ UNCHANGED <<clients, scopeVars, thread, sending, calls, hwVars, seenVars, parentVars,
                   provider, perror, asserted>>

(***************************************************************************)
(* The holder of provider->lock calls hold, and stop then drain_irq.       *)
(***************************************************************************)
ProviderCalls(c) ==
    /\ plock = c
    /\ CallBegins(c, IF asserted THEN "drain" ELSE "hold")
    /\ UNCHANGED <<parentVars, providerVars>>

\* Mutation: a failed hold leaves without dropping provider->lock.
ProviderReturnsLocked(c) ==
    LET held == calls[c].op = "hold" /\ firstError' = OK
        ends == calls[c].op # "hold" \/ (held /\ pop = "assert")
    IN  /\ asserted' = (asserted \/ held)
        /\ perror' = ~held
        /\ plock' = IF ends THEN "free" ELSE plock
        /\ pop' = IF ends THEN "none" ELSE pop
        /\ UNCHANGED provider

(***************************************************************************)
(* What the return of hold or drain_irq does to the provider.  stop fails  *)
(* by intent, so that nobody takes the firmware for stopped.               *)
(***************************************************************************)
ProviderReturns(c) ==
    LET held == calls[c].op = "hold" /\ firstError' = OK
        ends == ~held \/ pop = "assert"
    IN  /\ asserted' = (asserted \/ held)
        /\ perror' = ~held
        /\ plock' = IF ends THEN "free" ELSE plock
        /\ pop' = IF ends THEN "none" ELSE pop
        /\ UNCHANGED provider

(***************************************************************************)
(* A step of a lifecycle call, with its return into the provider.          *)
(***************************************************************************)
ControlCallStep(c) ==
    /\ CallStep(c)
    /\ IF plock = c /\ calls'[c] = NoCall THEN ProviderReturns(c) ELSE UNCHANGED providerVars
    /\ UNCHANGED parentVars

(***************************************************************************)
(* External: the driver core takes the parent's device mutex, for instance *)
(* to remove it, and drops it.                                             *)
(***************************************************************************)
OtherLocks ==
    /\ devLock \in {"free", "other"}
    /\ devLock' = IF devLock = "free" THEN "other" ELSE "free"
    /\ UNCHANGED <<resetVars, step, result, power, resumed, failure, providerVars>>

-----------------------------------------------------------------------------
PrepareStep ==
    \/ Mfg0Prepare \/ ClaimFails \/ ClaimSram \/ Mfg0Resume \/ ResumeFails
    \/ RegisterScope \/ RegisterFails \/ ProviderPublish \/ PublishFails \/ CleanupEnds
    \/ Mfg0Finish

ScopeStep ==
    /\ \/ DispatchAcquire \/ IrqWakes \/ RxStep \/ TxCommit \/ Activate \/ LineForced
       \/ FirmwareDies
       \/ \E c \in Channels : \/ TrySend(c) \/ TrySendFaults(c)
                              \/ FirmwarePosts(c) \/ FirmwareTakes(c)
       \/ \E d \in Channels \cup {"parent"} : DriverLost(d)
       \/ step = "done" /\ CallBegins(Parent, "release")
    /\ UNCHANGED <<parentVars, providerVars>>

ControlNext ==
    \/ PrepareStep \/ ScopeStep \/ OtherLocks
    \/ \E c \in Channels : ControlBind(c)
    \/ \E c \in Callers : ControlCallStep(c) \/ ProviderCalls(c)
    \/ \E c \in Callers \ {Parent}, op \in {"assert", "stop"} : ProviderBegins(c, op)

(***************************************************************************)
(* A transaction, a thread and a call that may go on do.                   *)
(***************************************************************************)
ControlFairness ==
    /\ WF_controlVars(PrepareStep /\ step # "idle")
    /\ WF_controlVars(RxStep /\ UNCHANGED <<parentVars, providerVars>>)
    /\ WF_controlVars(TxCommit /\ UNCHANGED <<parentVars, providerVars>>)
    /\ \A c \in Callers : WF_controlVars(ControlCallStep(c) \/ ProviderCalls(c))

ControlSpec == ControlInit /\ [][ControlNext]_controlVars /\ ControlFairness

-----------------------------------------------------------------------------
(***************************************************************************)
(* From the first resume on the parent's usage count never returns to      *)
(* zero: it is the MFG0 scope's until the reset scope holds its own, and   *)
(* a failure on the way keeps it.                                          *)
(***************************************************************************)
PowerIsHeld == resumed => "usage" \in power \/ "pm" \in pins

(***************************************************************************)
(* control_prepare never returns with the parent's device mutex held, and  *)
(* holds it throughout: a removal cannot run inside the transaction and    *)
(* is not locked out by a failed one.                                      *)
(***************************************************************************)
MutexBracketsPrepare == (devLock = "control") <=> step \notin {"idle", "done", "failed"}

(***************************************************************************)
(* A failure after the resume leaves an owner that can be found, with its  *)
(* power reference and the SRAM out of use (retain_failure).               *)
(***************************************************************************)
FailureIsRetained ==
    step = "failed" => result /\ failure /\ phase = "quarantined" /\ {"held", "usage"} \subseteq power

(***************************************************************************)
(* The reset is written only over a quarantined SRAM: no firmware memory   *)
(* is disposed of on a reset's word (assert_owned).                        *)
(***************************************************************************)
ResetOverQuarantine == "reset" \in flags => phase = "quarantined"

(***************************************************************************)
(* Bring-up, assert and stop come back, although the provider's lock is    *)
(* held while the interrupt drains.                                        *)
(***************************************************************************)
ControlReturns ==
    /\ step # "idle" ~> step \in {"idle", "done", "failed"}
    /\ plock # "free" ~> plock = "free"
=============================================================================
