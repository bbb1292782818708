------------------------------- MODULE CaptureEpoch -------------------------------
(***************************************************************************)
(* Repeated capture (camera-repeat-capture): one epoch per frame, each     *)
(* submitted, retired with a receipt and replaced by a successor, with the *)
(* joint reset of CAM_MAIN and SMI and the cold preparation of the first   *)
(* frame (camera-joint-reset).  The patches epoch-owner, epoch-stop-lock   *)
(* and epoch-final-retire are applied to the native capture owner.         *)
(*                                                                         *)
(* One control thread calls the epoch operations.  Operations that hold    *)
(* locks no other running actor needs are one step: nothing but the        *)
(* interrupts and the stop work runs beside the control thread, and both   *)
(* are off during a joint reset, a route retirement and a rearm.           *)
(***************************************************************************)
EXTENDS NativeCapture

VARIABLES
    epoch,       \* flags of the current struct mt6878_capture_epoch
    epochError,  \* e->first_error # 0
    sequence,    \* e->layout.sequence
    cold,        \* the first frame's lease and struct mt6878_camera_cold_reset
    control      \* place of the control thread in the epoch operations

epochVars == <<epoch, epochError, sequence, cold, control>>

EpochFlags == {"allocated", "warm", "entered", "retirement_attempted", "frame_done",
               "reset_completed", "retired"}
ColdFlags == {"lease", "attempted", "irq_drained", "sensor_cleaned", "allocated", "disconnected"}
ControlPlaces == {"idle", "submit", "wait", "timeout", "abort", "joint", "route", "next", "failed"}

(***************************************************************************)
(* The epoch's variables have their types.                                 *)
(***************************************************************************)
EpochTypeOK ==
    /\ ControllerTypeOK /\ PlatformTypeOK
    /\ native \subseteq NativeFlags /\ nativeError \in BOOLEAN
    /\ frame \in FramePlaces /\ retire \in RetirePlaces
    /\ epoch \subseteq EpochFlags /\ epochError \in BOOLEAN
    /\ sequence \in Sequences
    /\ cold \subseteq ColdFlags
    /\ control \in ControlPlaces

EpochInit ==
    /\ Init
    /\ epoch = {} /\ epochError = FALSE
    /\ sequence = 0
    /\ cold = {}
    /\ control = "idle"

-----------------------------------------------------------------------------
(***************************************************************************)
(* joint_preflight, the cold_verify and gate(STOPPED) it calls included:   *)
(* nothing streams, no line is on, no DMA attempt is unretired.            *)
(***************************************************************************)
JointPreflight(isCold) ==
    /\ {"bound", "receiver_ref", "smi_ref"} \subseteq native /\ ~nativeError
    /\ {"powered", "requested"} \subseteq platform
    /\ platform \cap {"enabled", "retired"} = {}
    /\ stream = {}
    /\ irqOn = {} /\ "irq_enabled" \notin ctrl
    /\ DmaDischarged
    /\ isCold \/ (Drained /\ "allocated" \in ctrl /\ StoppedGate(ReceiverPower, Drained))

(***************************************************************************)
(* joint_finish: any failure after a reset began, and any failed lease     *)
(* cleanup, leaves the reset incomplete for good.  The caller latches the  *)
(* native error, still under n->lock.                                      *)
(***************************************************************************)
JointFinish(ret) ==
    native' = IF ret = OK THEN native \cup {"reset_attempted", "reset_completed"}
              ELSE (native \cup {"reset_attempted"}) \ {"reset_completed"}

\* Mutation: the clamp is not removed after the pulse.
JointPulseClamped(ret) == clamp' = "on"

(***************************************************************************)
(* The reset proper: SMI clamp, SCQ reset, CAM_MAIN pulse, unclamp.  A     *)
(* failure keeps the clamp if it is held.                                  *)
(***************************************************************************)
JointPulse(ret) == clamp' \in IF ret = OK THEN {"off"} ELSE {clamp, "on"}

(***************************************************************************)
(* joint_run for a retirement, lease included.  A refusal by the lease,    *)
(* the binding or the preflight attempts nothing, though its cleanup of    *)
(* the lease may fail; after a complete pulse that cleanup may fail too.   *)
(***************************************************************************)
JointRun(ret) ==
    \/ /\ ret \in Faults
       /\ UNCHANGED native \/ JointFinish(ret)
       /\ UNCHANGED clamp
    \/ /\ JointPreflight(FALSE)
       /\ ret \in Faults \cup {OK}
       /\ JointPulse(ret)
       /\ JointFinish(ret)

(***************************************************************************)
(* How far mt6878_camera_cold_prepare gets before a failure.               *)
(***************************************************************************)
ColdProgress ==
    LET drained == {"irq_drained", "attempted"}
        cleaned == drained \cup {"sensor_cleaned"}
    IN {{}, drained, cleaned, cleaned \cup {"allocated"}}

ColdComplete == {"irq_drained", "attempted", "sensor_cleaned", "allocated", "disconnected"}

-----------------------------------------------------------------------------
(***************************************************************************)
(* mt6878_capture_epoch_alloc: only on a capture nothing was tried on.     *)
(***************************************************************************)
EpochAllocated(ret) ==
    \/ /\ ret \in Faults
       /\ UNCHANGED epoch
    \/ /\ ~nativeError /\ "bound" \in native /\ epoch = {}
       /\ native \cap {"reset_attempted", "receiver_ref", "smi_ref"} = {}
       /\ directError = OK /\ "attempted" \notin tx
       /\ "encoded" \notin owner /\ "cq" \in owner
       /\ platform \cap {"retired", "stop_requested"} = {}
       /\ ret = OK
       /\ epoch' = {"allocated"}

(***************************************************************************)
(* mt6878_capture_epoch_submit enters mt6878_camera_cold_frame, once the   *)
(* CAM_MAIN lease is obtained, or epoch_warm_submit.                       *)
(***************************************************************************)
WarmAllowed ==
    /\ {"bound", "receiver_ref", "smi_ref", "reset_completed"} \subseteq native /\ ~nativeError
    /\ "powered" \in platform /\ "retired" \notin platform

ColdAllowed ==
    /\ "bound" \in native /\ ~nativeError
    /\ "attempted" \notin tx /\ "receiver_ref" \notin native

SubmitBegins ==
    /\ control = "submit" /\ NativeLockFree /\ "entered" \notin epoch
    /\ epoch' = epoch \cup {"entered"}
    /\ \/ /\ "warm" \in epoch /\ WarmAllowed
          /\ frame' = "prepare"
          /\ UNCHANGED <<epochError, cold, control>>
       \/ /\ "warm" \notin epoch /\ ColdAllowed
          /\ frame' = "smi"
          /\ cold' = cold \cup {"lease"}
          /\ UNCHANGED <<epochError, control>>
       \/ /\ "warm" \notin epoch \/ ~WarmAllowed  \* the lease or an owner is refused
          /\ epochError' = TRUE
          /\ control' = "failed"
          /\ UNCHANGED <<frame, cold>>
    /\ UNCHANGED <<seninfVars, platformVars, native, nativeError, retire, sequence>>

(***************************************************************************)
(* The steps of cold_frame and warm_submit that are those of               *)
(* mt6878_native_capture_frame, after the SMI reference.                   *)
(***************************************************************************)
SharedFrameStep ==
    /\ control = "submit"
    /\ \/ FrameGetsPower \/ FrameGetsReceiver \/ FramePrepares \/ FrameArms
       \/ FrameEnablesLine \/ FrameChecksStop \/ FrameStreams \/ FrameFails
    /\ epochError' = (epochError \/ frame' = "fail")
    /\ control' = IF frame' = "idle" THEN "wait" ELSE control
    /\ UNCHANGED <<epoch, sequence, cold>>

(***************************************************************************)
(* A refused SMI reference latches nothing in the native owner unless the  *)
(* cleanup of the lease fails too.                                         *)
(***************************************************************************)
ColdGetsSmi ==
    /\ control = "submit" /\ frame = "smi"
    /\ \/ /\ frame' = "power" /\ native' = native \cup {"smi_ref"}
          /\ UNCHANGED <<nativeError, epochError, cold, control>>
       \/ /\ frame' = "idle" /\ control' = "failed"
          /\ epochError' = TRUE
          /\ cold' = cold \ {"lease"}
          /\ \/ UNCHANGED <<native, nativeError>>
             \/ nativeError' = TRUE /\ \E ret \in Faults : JointFinish(ret)
    /\ UNCHANGED <<seninfVars, platformVars, retire, epoch, sequence>>

(***************************************************************************)
(* joint_run with the supplied lease: cold_prepare, the reset, the lease,  *)
(* cold_release.                                                           *)
(***************************************************************************)
ColdPrepareFails ==
    \E flags \in ColdProgress, ret \in Faults :
       /\ cold' = flags
       /\ sensorOn' = (sensorOn /\ "sensor_cleaned" \notin flags)
       /\ JointFinish(ret) \/ ("attempted" \notin flags /\ UNCHANGED native)
       /\ frame' = "fail"
       /\ UNCHANGED clamp

ColdPrepareSucceeds ==
    /\ "allocated" \notin ctrl /\ "requested" \in ctrl
    /\ route \cap {"phy_attempted", "attempted"} = {} /\ "attempted" \notin tx
    /\ JointPreflight(TRUE)
    /\ sensorOn' = FALSE
    /\ \E ret \in Faults \cup {OK} :
          /\ cold' = IF ret = OK THEN ColdComplete \ {"allocated"} ELSE ColdComplete
          /\ JointPulse(ret)
          /\ JointFinish(ret)
          /\ FrameGoes("prepare", ret)

ColdResets ==
    /\ control = "submit" /\ frame = "reset"
    /\ ColdPrepareFails \/ ColdPrepareSucceeds
    /\ epochError' = (frame' = "fail")
    /\ UNCHANGED <<txVars, engine, finished, pair, buffers, owner, directError, ctrl, route,
                   seninfErrors, stream, platformVars, nativeError, retire,
                   epoch, sequence, control>>

(***************************************************************************)
(* mt6878_camsv_direct_submit with the epoch's layout.                     *)
(***************************************************************************)
EpochSubmitsFrame ==
    /\ control = "submit" /\ frame = "submit"
    /\ \E j \in Jobs, ret \in DirectReturns :
          /\ j.sequence = sequence /\ RecipeInputs(j)
          /\ DirectSubmit(j, IrqGate /\ RouteGate(ReceiverPower), ret)
          /\ FrameGoes("arm", ret)
    /\ epochError' = (epochError \/ frame' = "fail")
    /\ UNCHANGED <<controllerVars, platformVars, native, nativeError, retire,
                   epoch, sequence, cold, control>>

(***************************************************************************)
(* The end of a failed submission: stop_async, then a lease still held is  *)
(* retired.                                                                *)
(***************************************************************************)
EpochSubmitStops ==
    /\ control = "submit" /\ frame = "stop"
    /\ StopAsync
    /\ frame' = "idle" /\ control' = "failed"
    /\ cold' = cold \ {"lease"}
    /\ \/ UNCHANGED native
       \/ "lease" \in cold /\ \E ret \in Faults : JointFinish(ret)
    /\ UNCHANGED <<seninfVars, irqOn, irqThread, stopError, nativeError, retire, epoch, epochError, sequence>>

-----------------------------------------------------------------------------
(***************************************************************************)
(* mt6878_capture_epoch_retire.  It waits for the interrupt-driven stop    *)
(* and never asks for it; a timeout is latched in every owner before the   *)
(* abort is scheduled.                                                     *)
(***************************************************************************)
EpochTimesOut ==
    /\ control = "wait" /\ "stopped" \notin platform
    /\ epoch' = epoch \cup {"retirement_attempted"}
    /\ control' = "timeout"
    /\ UNCHANGED <<seninfVars, platformVars, nativeVars, epochError, sequence, cold>>

\* Mutation: the timeout is kept in the epoch and not in the direct owner.
EpochForgetsTimeout ==
    /\ control = "timeout"
    /\ nativeError' = TRUE /\ epochError' = TRUE
    /\ control' = "abort"
    /\ UNCHANGED <<seninfVars, platformVars, native, frame, retire, epoch, sequence, cold>>

EpochLatchesTimeout ==
    /\ control = "timeout"
    /\ \E error \in Faults : DirectLatch(error)
    /\ nativeError' = TRUE /\ epochError' = TRUE
    /\ control' = "abort"
    /\ UNCHANGED <<captureVars, owner, controllerVars, platformVars, native, frame, retire,
                   epoch, sequence, cold>>

EpochAborts ==
    /\ control = "abort"
    /\ StopAsync
    /\ control' = "failed"
    /\ UNCHANGED <<seninfVars, irqOn, irqThread, stopError, nativeVars,
                   epoch, epochError, sequence, cold>>

(***************************************************************************)
(* epoch_done: the reset succeeded after the whole frame was observed and  *)
(* both buffers were returned, and no error was latched.                   *)
(***************************************************************************)
EpochDone ==
    /\ directError = OK /\ txError = OK
    /\ "observed" \in owner /\ completeTags = Tags
    /\ pair = {"completed"}
    /\ {"hw_attempted", "off_attempted", "quiesced"} \subseteq tx /\ "submitted" \notin tx

(***************************************************************************)
(* EpochFails is the fail label: the native owner keeps the error.         *)
(***************************************************************************)
EpochFails ==
    /\ epochError' = TRUE /\ nativeError' = TRUE
    /\ control' = "failed"

EpochReceipt ==
    /\ control = "wait" /\ "stopped" \in platform /\ worker = "idle"
    /\ IF EpochDone /\ ~nativeError /\ ~stopError
         THEN /\ epoch' = epoch \cup {"retirement_attempted", "frame_done"}
              /\ control' = "joint"
              /\ UNCHANGED <<epochError, nativeError>>
         ELSE /\ epoch' = epoch \cup {"retirement_attempted"}
              /\ EpochFails
    /\ UNCHANGED <<seninfVars, platformVars, native, frame, retire, sequence, cold>>

EpochJointResets ==
    /\ control = "joint"
    /\ \E ret \in DirectReturns :
          /\ JointRun(ret)
          /\ IF ret = OK
               THEN /\ epoch' = epoch \cup {"reset_completed"}
                    /\ control' = "route"
                    /\ UNCHANGED <<epochError, nativeError>>
               ELSE EpochFails /\ UNCHANGED epoch
    /\ UNCHANGED <<txVars, engine, finished, pair, buffers, owner, directError,
                   controllerVars, platformVars, frame, retire, sequence, cold>>

(***************************************************************************)
(* The rest of the retirement, under all locks and with the six lines off  *)
(* and synchronized: PHY off, then reservations and CQ are given up.       *)
(***************************************************************************)
EpochRetiresRoute ==
    /\ control = "route"
    /\ \/ /\ {"requested", "irq_drained"} \subseteq ctrl /\ {"requested", "drained"} \subseteq platform
          /\ "bound" \in native /\ ~nativeError /\ LinesOff /\ EpochDone
          /\ \E ret \in DirectReturns :
                /\ RouteRetire(ReceiverPower, Drained, ret)
                /\ IF /\ ret = OK /\ "allocated" \in ctrl
                      /\ "phy_configured" \notin route' /\ "phy_off_attempted" \in route'
                      /\ seninfErrors \cap {"route", "controller"} = {}
                     THEN /\ ctrl' = ctrl \ {"allocated"}
                          /\ owner' = owner \ {"cq"}
                          /\ epoch' = epoch \cup {"retired"}
                          /\ control' = "next"
                          /\ UNCHANGED <<epochError, nativeError>>
                     ELSE EpochFails /\ UNCHANGED <<ctrl, owner, epoch>>
       \/ /\ EpochFails  \* an interrupt line is not off, or an owner is gone
          /\ UNCHANGED <<ctrl, route, seninfErrors, owner, epoch>>
    /\ UNCHANGED <<captureVars, directError, stream, sensorOn, platformVars, native,
                   frame, retire, sequence, cold>>

-----------------------------------------------------------------------------
(***************************************************************************)
(* mt6878_capture_epoch_next: with the receipt and every owner off, a new  *)
(* CQ and fresh transactions; the old epoch is detached and freed.  A      *)
(* refusal under the locks, an exhausted sequence and a failed CQ          *)
(* allocation are latched in the native owner; no memory for the record,   *)
(* or a receipt that is none, fails before the locks and is not.           *)
(***************************************************************************)
ReceiptHeld == "retired" \in epoch /\ ~epochError

NextAllowed ==
    /\ ReceiptHeld /\ {"frame_done", "reset_completed"} \subseteq epoch
    /\ {"bound", "receiver_ref", "smi_ref"} \subseteq native /\ ~nativeError
    /\ {"powered", "requested", "stopped", "stop_requested"} \subseteq platform
    /\ platform \cap {"enabled", "retired"} = {}
    /\ ~stopError /\ directError = OK /\ seninfErrors = {}
    /\ "requested" \in ctrl /\ ctrl \cap {"allocated", "irq_enabled"} = {}
    /\ {"phy_off_attempted", "disconnected"} \subseteq route /\ "phy_configured" \notin route
    /\ "cq" \notin owner
    /\ irqOn = {}

EpochNext ==
    /\ control = "next"
    /\ \/ /\ NextAllowed /\ sequence + 1 \in Sequences
          /\ sequence' = sequence + 1
          /\ epoch' = {"allocated", "warm"}
          /\ route' = {} /\ ctrl' = ctrl \ {"tsrec_disabled", "irq_drained"}
          /\ tx' = {} /\ txError' = OK /\ completeTags' = {}
          /\ job' = [sequence |-> 0, groups |-> [g \in Groups |-> {}]]
          /\ pair' = {} /\ owner' = {"cq"}
          /\ platform' = platform \ {"stopped", "drained", "stop_requested"}
          /\ control' = "idle"
          /\ UNCHANGED <<epochError, nativeError>>
       \/ /\ \/ ReceiptHeld /\ nativeError' = TRUE
             \/ UNCHANGED nativeError
          /\ control' = "failed"
          /\ UNCHANGED <<txVars, pair, owner, ctrl, route, platform, epoch, epochError, sequence>>
    /\ UNCHANGED <<hwVars, buffers, directError, seninfErrors, stream, sensorOn,
                   irqOn, irqThread, worker, stopError, native, frame, retire, cold>>

(***************************************************************************)
(* mt6878_capture_epoch_free of the last epoch, after the full retirement. *)
(***************************************************************************)
EpochFreed ==
    /\ native \cap {"bound", "receiver_ref", "smi_ref"} = {}
    /\ "cq" \notin owner /\ "requested" \notin platform /\ "requested" \notin ctrl
    /\ "retired" \in platform
    /\ epoch' = {}

EpochStep ==
    \/ SubmitBegins \/ SharedFrameStep \/ ColdGetsSmi \/ ColdResets
    \/ EpochSubmitsFrame \/ EpochSubmitStops
    \/ EpochTimesOut \/ EpochLatchesTimeout \/ EpochAborts
    \/ EpochReceipt \/ EpochJointResets \/ EpochRetiresRoute \/ EpochNext

=============================================================================
