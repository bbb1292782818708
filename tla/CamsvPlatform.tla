------------------------------ MODULE CamsvPlatform ------------------------------
(***************************************************************************)
(* The CAMSV platform consumer (camera-direct-platform): the threaded IRQ  *)
(* handlers, the power reference, arming, and the asynchronous stop work   *)
(* that drains the interrupts before the direct owner's reset.             *)
(*                                                                         *)
(* A handler's body runs under direct.lock and is one step; the            *)
(* stop_async it may owe afterwards, outside the lock, is another.  The    *)
(* stop work holds platform.lifecycle from its first step to its last;     *)
(* arming and the stream-on hold it too, as the flag "lifecycle", and the  *)
(* handlers, which do not take it, run between their steps.                *)
(***************************************************************************)
EXTENDS SeninfController

CONSTANT
    Lines  \* CAMSV interrupt lines: "done", "err", "sof", "cq"

ASSUME LinesAssumption == Lines \subseteq {"done", "err", "sof", "cq"}

VARIABLES
    platform,   \* flags of struct mt6878_camsv_platform
    irqOn,      \* CAMSV lines enabled in the interrupt controller
    irqThread,  \* per line and for the receiver: "idle", or "stopping"
    worker,     \* the stop work's place
    stopError   \* stop_error # 0

platformVars == <<platform, irqOn, irqThread, worker, stopError>>

PlatformFlags == {"powered", "enabled", "drained", "requested",
                  "stop_requested", "stopped", "retired", "lifecycle"}
Threads == Lines \cup {"receiver"}
WorkerPlaces == {"idle", "scheduled", "disabling", "receiver", "source", "stop", "failed"}

(***************************************************************************)
(* The platform's variables have their types.                              *)
(***************************************************************************)
PlatformTypeOK ==
    /\ platform \subseteq PlatformFlags
    /\ irqOn \subseteq Lines
    /\ irqThread \in [Threads -> {"idle", "stopping"}]
    /\ worker \in WorkerPlaces
    /\ stopError \in BOOLEAN

PlatformInit ==
    /\ platform = {"requested"}  \* mt6878_camsv_platform_bind took four IRQs
    /\ irqOn = {}
    /\ irqThread = [t \in Threads |-> "idle"]
    /\ worker = "idle" /\ stopError = FALSE

(***************************************************************************)
(* platform.lifecycle is held neither by the stop work nor by a caller.    *)
(***************************************************************************)
LifecycleFree == worker \in {"idle", "scheduled"} /\ "lifecycle" \notin platform

(***************************************************************************)
(* All interrupts are off and none of their handlers runs.                 *)
(***************************************************************************)
LinesOff == irqOn = {} /\ "irq_enabled" \notin ctrl /\ \A t \in Threads : irqThread[t] = "idle"

-----------------------------------------------------------------------------
(***************************************************************************)
(* hardware_verify: RESOURCES and IRQ.                                     *)
(***************************************************************************)
ResourcesGate == "powered" \in platform /\ "retired" \notin platform /\ "cq" \in owner
IrqGate == ResourcesGate /\ "requested" \in platform /\ "drained" \notin platform

\* Mutation: the request is noted but the work is not queued.
StopAsyncUnqueued == platform' = platform \cup {"stop_requested"} /\ UNCHANGED worker

(***************************************************************************)
(* mt6878_camsv_platform_stop_async: the first request schedules the work. *)
(***************************************************************************)
StopAsync ==
    IF "stop_requested" \in platform
      THEN UNCHANGED <<platform, worker>>
      ELSE platform' = platform \cup {"stop_requested"} /\ worker' = "scheduled"

(***************************************************************************)
(* platform_irq.  A handler that finds an error or the completed frame     *)
(* only stops.  DONE line: neither a stale nor a repeated completion stops *)
(* the capture, and ESTALE from a verifier is latched without a stop.      *)
(***************************************************************************)
Handles(t, stop) ==
    /\ irqThread[t] = "idle"
    /\ irqThread' = [irqThread EXCEPT ![t] = IF stop THEN "stopping" ELSE "idle"]

SettledIrq(l) ==
    /\ directError # OK \/ "observed" \in owner
    /\ Handles(l, TRUE)
    /\ UNCHANGED directVars

DoneIrq ==
    /\ directError = OK /\ "observed" \notin owner
    /\ \E status \in SUBSET Groups, seq \in Sequences,
          ret \in DirectReturns \cup {"complete"}, error \in DirectReturns :
          LET stop == ret \notin {OK, "ESTALE", "EALREADY"} IN
          /\ DoneRead(status, seq)
          /\ DirectDone(status, seq, IrqGate, ret, error)
          /\ directError' = IF stop /\ ret # "complete" THEN FirstError(error, ret) ELSE error
          /\ Handles("done", stop)

(***************************************************************************)
(* The other lines: a refused owner stops; ERR with a status and SOF with  *)
(* foreign group tags latch and stop; CQ only reads.                       *)
(***************************************************************************)
OtherIrq(l) ==
    /\ directError = OK /\ "observed" \notin owner
    /\ \/ /\ \E error \in Faults \cup {"ESTALE"} : DirectLatch(error)
          /\ Handles(l, TRUE)
       \/ /\ IrqGate /\ l \in {"err", "sof"}
          /\ DirectLatch(IF l = "err" THEN "EIO" ELSE "ESTALE")
          /\ Handles(l, TRUE)
       \/ /\ IrqGate
          /\ UNCHANGED directError
          /\ Handles(l, FALSE)
    /\ UNCHANGED <<captureVars, owner>>

PlatformIrq(l) ==
    /\ l \in irqOn
    /\ SettledIrq(l) \/ (l = "done" /\ DoneIrq) \/ (l # "done" /\ OtherIrq(l))
    /\ UNCHANGED <<controllerVars, platform, irqOn, worker, stopError>>

(***************************************************************************)
(* receiver_irq: every receiver event is an error that stops the capture.  *)
(***************************************************************************)
ReceiverIrq ==
    /\ "irq_enabled" \in ctrl
    /\ \E error \in Faults \cup {"EIO"} : DirectLatch(error)
    /\ Handles("receiver", TRUE)
    /\ UNCHANGED <<captureVars, owner, controllerVars, platform, irqOn, worker, stopError>>

(***************************************************************************)
(* The stop_async that ends a handler which decided to stop.               *)
(***************************************************************************)
IrqStops(t) ==
    /\ irqThread[t] = "stopping"
    /\ irqThread' = [irqThread EXCEPT ![t] = "idle"]
    /\ StopAsync
    /\ UNCHANGED <<seninfVars, irqOn, stopError>>

-----------------------------------------------------------------------------
(***************************************************************************)
(* mt6878_camsv_platform_power_get: PM references and clocks, unwound on   *)
(* failure.                                                                *)
(***************************************************************************)
PowerGet(ret) ==
    /\ LifecycleFree
    /\ \/ ret \in Faults /\ UNCHANGED platform
       \/ /\ platform \cap {"retired", "powered", "stop_requested"} = {}
          /\ ret = OK
          /\ platform' = platform \cup {"powered"}

(***************************************************************************)
(* mt6878_camsv_platform_arm: with the stop flag clear and the owners      *)
(* verified it keeps lifecycle and enables the lines one by one, in the    *)
(* order of their index.  A line's handler may run, and request the stop,  *)
(* before the next line is enabled.                                        *)
(***************************************************************************)
ArmBegins(routeGate, ret) ==
    /\ LifecycleFree
    /\ \/ ret \in Faults /\ UNCHANGED platform
       \/ /\ platform \cap {"enabled", "drained", "stop_requested"} = {}
          /\ {"powered", "requested"} \subseteq platform
          /\ IrqGate /\ routeGate
          /\ ret = OK
          /\ platform' = platform \cup {"lifecycle"}

LineIndex == [done |-> 0, err |-> 1, sof |-> 2, cq |-> 3]

ArmEnablesLine ==
    \E l \in Lines \ irqOn :
       /\ \A k \in Lines \ irqOn : LineIndex[l] <= LineIndex[k]
       /\ irqOn' = irqOn \cup {l}
       /\ platform' = IF irqOn' = Lines THEN (platform \cup {"enabled"}) \ {"lifecycle"}
                      ELSE platform \cup {"enabled"}

-----------------------------------------------------------------------------
\* Mutation: the stop work does not take lifecycle.
WorkBeginsUnlocked ==
    /\ worker = "scheduled"
    /\ worker' = "disabling"
    /\ UNCHANGED <<seninfVars, platform, irqOn, irqThread, stopError>>

(***************************************************************************)
(* platform_stop_work, first part: disable_irq masks each line in turn and *)
(* waits for its running handler, without direct.lock.                     *)
(***************************************************************************)
WorkBegins ==
    /\ worker = "scheduled" /\ LifecycleFree
    /\ worker' = "disabling"
    /\ UNCHANGED <<seninfVars, platform, irqOn, irqThread, stopError>>

\* Mutation: disable_irq_nosync does not wait for the running handler.
MaskedLinesNoSync == TRUE

MaskedLinesIdle == \A l \in Lines \ irqOn : irqThread[l] = "idle"

WorkDisablesLine(l) ==
    /\ worker = "disabling"
    /\ l \in irqOn /\ MaskedLinesIdle
    /\ irqOn' = irqOn \ {l}
    /\ UNCHANGED <<seninfVars, platform, irqThread, worker, stopError>>

WorkDrained ==
    /\ worker = "disabling" /\ irqOn = {} /\ MaskedLinesIdle
    /\ platform' = (platform \ {"enabled"}) \cup {"drained"}
    /\ worker' = IF "powered" \in platform /\ "hw_attempted" \in tx
                   THEN "receiver" ELSE "stop"
    /\ UNCHANGED <<seninfVars, irqOn, irqThread, stopError>>

\* Mutations: a failed receiver stop is dropped; its path keeps lifecycle.
WorkStopsSilently(gate) ==
    /\ worker \in {"stop", "failed"}
    /\ IF worker = "failed" THEN UNCHANGED <<directVars, stopError>>
       ELSE \E ret \in DirectReturns : DirectStop(gate, ret) /\ stopError' = (ret # OK)
    /\ platform' = platform \cup {"stopped"}
    /\ worker' = "idle"
    /\ UNCHANGED <<controllerVars, irqOn, irqThread>>
WorkStopsLocked(gate) ==
    /\ worker \in {"stop", "failed"}
    /\ IF worker = "failed"
         THEN (\E error \in Faults : DirectLatch(error)) /\ stopError' = TRUE
              /\ UNCHANGED <<captureVars, owner, worker>>
         ELSE (\E ret \in DirectReturns : DirectStop(gate, ret) /\ stopError' = (ret # OK))
              /\ worker' = "idle"
    /\ platform' = platform \cup {"stopped"}
    /\ UNCHANGED <<controllerVars, irqOn, irqThread>>

(***************************************************************************)
(* Its last part, under direct.lock and reset_lock: a failed receiver stop *)
(* is latched and replaces the direct stop; then stopped completes.        *)
(***************************************************************************)
WorkStops(gate) ==
    /\ worker \in {"stop", "failed"}
    /\ \/ /\ worker = "failed"
          /\ \E error \in Faults : DirectLatch(error)
          /\ stopError' = TRUE
          /\ UNCHANGED <<captureVars, owner>>
       \/ /\ worker = "stop"
          /\ \E ret \in DirectReturns : DirectStop(gate, ret) /\ stopError' = (ret # OK)
    /\ platform' = platform \cup {"stopped"}
    /\ worker' = "idle"
    /\ UNCHANGED <<controllerVars, irqOn, irqThread>>

(***************************************************************************)
(* mt6878_camsv_platform_retire once stopped and flushed.  The PM puts may *)
(* fail; that is recorded in stop_error and the reference is gone anyway.  *)
(***************************************************************************)
PlatformRetire(ret) ==
    \/ /\ "retired" \in platform \/ ~DmaDischarged
       /\ ret = "EBUSY"
       /\ UNCHANGED <<platform, stopError>>
    \/ /\ "retired" \notin platform /\ DmaDischarged
       /\ platform' = (platform \ {"powered", "requested"}) \cup {"retired"}
       /\ \/ UNCHANGED stopError
          \/ "powered" \in platform /\ stopError' = TRUE
       /\ ret = IF stopError' THEN "EINVAL" ELSE OK

=============================================================================
