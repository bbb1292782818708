------------------------------ MODULE NativeCapture ------------------------------
(***************************************************************************)
(* The native capture owner (camera-native-capture): one frame through     *)
(* power, CAM_MAIN reset, route preparation, submission, arming and        *)
(* stream-on, and the retirement that gives everything back.  It composes  *)
(* the direct owner, the SENINF controller and the platform consumer with  *)
(* the patches native-bind, native-pm, epoch-stop-lock and                 *)
(* epoch-final-retire applied.                                             *)
(*                                                                         *)
(* Actors: the frame and retire callers (they share n->lock), the IRQ      *)
(* threads, the stop work and the hardware.  A caller's step ends where    *)
(* the code drops a lock another actor can take.                           *)
(***************************************************************************)
EXTENDS CamsvPlatform

VARIABLES
    native,       \* flags of struct mt6878_native_capture
    nativeError,  \* n->first_error # 0
    frame,        \* place of mt6878_native_capture_frame
    retire        \* place of mt6878_native_capture_retire

nativeVars == <<native, nativeError, frame, retire>>
vars == <<seninfVars, platformVars, nativeVars>>

NativeFlags == {"bound", "smi_ref", "receiver_ref", "reset_attempted", "reset_completed",
                "abort_attempted", "abort_error"}
FramePlaces == {"idle", "smi", "power", "receiver", "reset", "prepare", "submit", "arm",
                "enabling", "stream", "streaming", "fail", "stop"}
RetirePlaces == {"idle", "wait", "drain", "source", "release", "put", "platform", "smi", "direct"}

(***************************************************************************)
(* Every variable of the composed capture has its type.                    *)
(***************************************************************************)
TypeOK ==
    /\ ControllerTypeOK
    /\ PlatformTypeOK
    /\ native \subseteq NativeFlags
    /\ nativeError \in BOOLEAN
    /\ frame \in FramePlaces
    /\ retire \in RetirePlaces

Init ==
    /\ DirectInit /\ ControllerInit /\ PlatformInit
    /\ native = {"bound"}  \* mt6878_native_capture_probe succeeded
    /\ nativeError = FALSE
    /\ frame = "idle" /\ retire = "idle"

NativeLockFree == frame = "idle" /\ retire = "idle"
ReceiverPower == "receiver_ref" \in native /\ "powered" \in platform
Drained == "drained" \in platform

-----------------------------------------------------------------------------
(***************************************************************************)
(* mt6878_native_capture_receiver_stop, first part.  A streaming receiver  *)
(* is disabled through V4L2; one whose stream-on failed gets a single      *)
(* abort.  Either begins with the drain.                                   *)
(***************************************************************************)
Streaming == "receiver" \in stream
MayDrain == Streaming \/ "abort_attempted" \notin native

ReceiverStopDrain(ret) ==
    \/ /\ ~MayDrain
       /\ ret = "EALREADY"
       /\ UNCHANGED <<controllerVars, native>>
    \/ /\ MayDrain
       /\ ControllerDrain(irqThread["receiver"] = "idle", ret)
       /\ native' = IF Streaming THEN native
                    ELSE native \cup {"abort_attempted"}
                         \cup (IF ret = OK THEN {} ELSE {"abort_error"})

(***************************************************************************)
(* Second part: sensor stop and disconnect.  The controller remembers a    *)
(* failed disable, the native owner a failed abort.                        *)
(***************************************************************************)
ReceiverStopSource(ret) ==
    /\ SourceOff(ReceiverPower, ret)
    /\ native' = IF Streaming \/ ret = OK THEN native ELSE native \cup {"abort_error"}

(***************************************************************************)
(* The stop work's receiver stop, between its drain and its direct stop.   *)
(***************************************************************************)
WorkMasksReceiver ==
    /\ worker = "receiver" /\ MayDrain /\ ControllerMasksIrq
    /\ UNCHANGED <<directVars, platformVars, nativeVars>>

WorkDrainsReceiver ==
    /\ worker = "receiver"
    /\ \E ret \in DirectReturns :
          /\ ReceiverStopDrain(ret)
          /\ worker' = IF ret = OK THEN "source" ELSE "failed"
    /\ UNCHANGED <<directVars, platform, irqOn, irqThread, stopError, nativeError, frame, retire>>

WorkStopsSource ==
    /\ worker = "source"
    /\ \E ret \in DirectReturns :
          /\ ReceiverStopSource(ret)
          /\ worker' = IF ret = OK THEN "stop" ELSE "failed"
    /\ UNCHANGED <<directVars, platform, irqOn, irqThread, stopError, nativeError, frame, retire>>

-----------------------------------------------------------------------------
(***************************************************************************)
(* mt6878_native_capture_frame.  FrameGoes(p) moves to p on success and to *)
(* the fail label otherwise.                                               *)
(***************************************************************************)
FrameGoes(next, ret) == frame' = IF ret = OK THEN next ELSE "fail"

FrameBegins ==
    /\ NativeLockFree /\ "bound" \in native
    /\ ~nativeError /\ "attempted" \notin tx /\ "receiver_ref" \notin native
    /\ frame' = "smi"
    /\ UNCHANGED <<seninfVars, platformVars, native, nativeError, retire>>

(***************************************************************************)
(* A failed SMI reference is returned without an error being latched.      *)
(***************************************************************************)
FrameGetsSmi ==
    /\ frame = "smi"
    /\ \/ frame' = "idle" /\ UNCHANGED native
       \/ frame' = "power" /\ native' = native \cup {"smi_ref"}
    /\ UNCHANGED <<seninfVars, platformVars, nativeError, retire>>

FrameGetsPower ==
    /\ frame = "power"
    /\ \E ret \in DirectReturns : PowerGet(ret) /\ FrameGoes("receiver", ret)
    /\ UNCHANGED <<seninfVars, irqOn, irqThread, worker, stopError, native, nativeError, retire>>

FrameGetsReceiver ==
    /\ frame = "receiver"
    /\ \/ frame' = "fail" /\ UNCHANGED native
       \/ frame' = "reset" /\ native' = native \cup {"receiver_ref"}
    /\ UNCHANGED <<seninfVars, platformVars, nativeError, retire>>

(***************************************************************************)
(* mt6878_camsv_native_cam_main_reset under reset_lock: a failure after    *)
(* the clamp was taken keeps it.                                           *)
(***************************************************************************)
FrameResetsCamMain ==
    /\ frame = "reset"
    /\ \/ /\ frame' = "fail"
          /\ clamp' \in IF ResourcesGate /\ "enabled" \notin platform THEN {clamp, "on"} ELSE {clamp}
          /\ native' = native \cup {"reset_attempted"}
       \/ /\ ResourcesGate /\ "enabled" \notin platform /\ "hw_attempted" \notin tx
          /\ frame' = "prepare"
          /\ clamp' = "off"
          /\ native' = native \cup {"reset_attempted", "reset_completed"}
    /\ UNCHANGED <<txVars, engine, finished, pair, buffers, owner, directError,
                   controllerVars, platformVars, nativeError, retire>>

FramePrepares ==
    /\ frame = "prepare"
    /\ \E ret \in DirectReturns :
          ControllerPrepare(ReceiverPower, ret) /\ FrameGoes("submit", ret)
    /\ UNCHANGED <<directVars, platformVars, native, nativeError, retire>>

FrameSubmits ==
    /\ frame = "submit"
    /\ \E j \in Jobs, ret \in DirectReturns :
          /\ DirectSubmit(j, IrqGate /\ RouteGate(ReceiverPower), ret)
          /\ FrameGoes("arm", ret)
    /\ UNCHANGED <<controllerVars, platformVars, native, nativeError, retire>>

FrameArms ==
    /\ frame = "arm"
    /\ \E ret \in DirectReturns :
          ArmBegins(RouteGate(ReceiverPower), ret) /\ FrameGoes("enabling", ret)
    /\ UNCHANGED <<seninfVars, irqOn, irqThread, worker, stopError, native, nativeError, retire>>

FrameEnablesLine ==
    /\ frame = "enabling"
    /\ ArmEnablesLine
    /\ frame' = IF irqOn' = Lines THEN "stream" ELSE "enabling"
    /\ UNCHANGED <<seninfVars, irqThread, worker, stopError, native, nativeError, retire>>

(***************************************************************************)
(* Stream-on under platform.lifecycle.  The stop flag is read first; a     *)
(* handler may set it between that and the locked part of the stream-on.   *)
(***************************************************************************)
FrameChecksStop ==
    /\ frame = "stream" /\ LifecycleFree
    /\ \/ /\ "stop_requested" \in platform
          /\ frame' = "fail"
          /\ UNCHANGED platform
       \/ /\ "stop_requested" \notin platform
          /\ frame' = "streaming"
          /\ platform' = platform \cup {"lifecycle"}
    /\ UNCHANGED <<seninfVars, irqOn, irqThread, worker, stopError, native, nativeError, retire>>

FrameStreams ==
    /\ frame = "streaming"
    /\ \E ret \in DirectReturns : ControllerEnable(ret) /\ FrameGoes("idle", ret)
    /\ platform' = platform \ {"lifecycle"}
    /\ UNCHANGED <<directVars, irqOn, irqThread, worker, stopError, native, nativeError, retire>>

FrameFails ==
    /\ frame = "fail"
    /\ nativeError' = TRUE
    /\ \E error \in Faults : DirectLatch(error)
    /\ frame' = "stop"
    /\ UNCHANGED <<captureVars, owner, controllerVars, platformVars, native, retire>>

FrameStops ==
    /\ frame = "stop"
    /\ StopAsync
    /\ frame' = "idle"
    /\ UNCHANGED <<seninfVars, irqOn, irqThread, stopError, native, nativeError, retire>>

-----------------------------------------------------------------------------
(***************************************************************************)
(* mt6878_native_capture_retire.  RetireGoes(p) moves to p on success and  *)
(* returns the error otherwise, with n->lock released and the rest held.   *)
(***************************************************************************)
RetireGoes(next, ret) == retire' = IF ret = OK THEN next ELSE "idle"

\* Mutation: an incomplete CAM_MAIN reset is retired like any other.
RetireBeginsAnyway ==
    /\ NativeLockFree /\ "bound" \in native
    /\ StopAsync
    /\ retire' = "wait"
    /\ UNCHANGED <<seninfVars, irqOn, irqThread, stopError, native, nativeError, frame>>

RetireBegins ==
    /\ NativeLockFree /\ "bound" \in native
    /\ "reset_attempted" \in native => "reset_completed" \in native
    /\ StopAsync
    /\ retire' = "wait"
    /\ UNCHANGED <<seninfVars, irqOn, irqThread, stopError, native, nativeError, frame>>

(***************************************************************************)
(* An incomplete CAM_MAIN reset is never retired: the clamp and every      *)
(* reference stay.                                                         *)
(***************************************************************************)
RetireRefused ==
    /\ NativeLockFree /\ "bound" \in native
    /\ "reset_attempted" \in native /\ "reset_completed" \notin native
    /\ UNCHANGED vars

RetireTimesOut ==
    /\ retire = "wait" /\ "stopped" \notin platform
    /\ retire' = "idle"
    /\ UNCHANGED <<seninfVars, platformVars, native, nativeError, frame>>

(***************************************************************************)
(* Stopped and flushed: refused while the DMA may be live; then a receiver *)
(* the stop work did not touch is stopped here.                            *)
(***************************************************************************)
RetireFlushes ==
    /\ retire = "wait" /\ "stopped" \in platform /\ worker = "idle"
    /\ retire' = CASE ~DmaDischarged -> "idle"
                   [] DmaDischarged /\ "allocated" \in ctrl /\ "disconnected" \notin route -> "drain"
                   [] OTHER -> "release"
    /\ UNCHANGED <<seninfVars, platformVars, native, nativeError, frame>>

(***************************************************************************)
(* The same receiver stop; here nothing was streamed, so no line is on.    *)
(***************************************************************************)
RetireDrainsReceiver ==
    /\ retire = "drain"
    /\ \E ret \in DirectReturns : ReceiverStopDrain(ret) /\ RetireGoes("source", ret)
    /\ UNCHANGED <<directVars, platformVars, nativeError, frame>>

RetireStopsSource ==
    /\ retire = "source"
    /\ \E ret \in DirectReturns : ReceiverStopSource(ret) /\ RetireGoes("release", ret)
    /\ UNCHANGED <<directVars, platformVars, nativeError, frame>>

(***************************************************************************)
(* release_receiver.  Without an allocation only the IRQ registrations are *)
(* left, or the route and PHY of earlier epochs that are proved off.       *)
(***************************************************************************)
ReceiverUnused ==
    /\ "requested" \in ctrl /\ "irq_enabled" \notin ctrl
    /\ "phy_attempted" \in route =>
          /\ {"phy_off_attempted", "source_stopped"} \subseteq route
          /\ "phy_configured" \notin route /\ "phy" \notin seninfErrors
          /\ "irq_drained" \in ctrl
    /\ "attempted" \in route => "disconnected" \in route
    /\ DmaDischarged

RetireReleasesReceiver ==
    /\ retire = "release"
    /\ \/ /\ "allocated" \in ctrl
          /\ \E ret \in DirectReturns :
                ControllerRelease(ReceiverPower, Drained, ret) /\ RetireGoes("put", ret)
       \/ /\ "allocated" \notin ctrl
          /\ IF ReceiverUnused
               THEN ctrl' = ctrl \ {"requested"} /\ retire' = "put"
               ELSE retire' = "idle" /\ UNCHANGED ctrl
          /\ UNCHANGED <<route, seninfErrors, stream, sensorOn>>
    /\ UNCHANGED <<directVars, platformVars, native, nativeError, frame>>

(***************************************************************************)
(* A failed PM put restores the reference it consumed.                     *)
(***************************************************************************)
RetirePutsReceiver ==
    /\ retire = "put"
    /\ \/ "receiver_ref" \in native /\ retire' = "idle" /\ UNCHANGED native
       \/ retire' = "platform" /\ native' = native \ {"receiver_ref"}
    /\ UNCHANGED <<seninfVars, platformVars, nativeError, frame>>

RetirePlatform ==
    /\ retire = "platform"
    /\ \E ret \in DirectReturns :
          /\ PlatformRetire(ret)
          /\ IF ret # OK /\ "retired" \notin platform'
               THEN retire' = "idle" /\ UNCHANGED nativeError
               ELSE retire' = "smi" /\ nativeError' = (nativeError \/ ret # OK)
    /\ UNCHANGED <<seninfVars, irqOn, irqThread, worker, native, frame>>

RetirePutsSmi ==
    /\ retire = "smi"
    /\ \/ "smi_ref" \in native /\ retire' = "idle" /\ UNCHANGED native
       \/ retire' = "direct" /\ native' = native \ {"smi_ref"}
    /\ UNCHANGED <<seninfVars, platformVars, nativeError, frame>>

RetireReleasesDirect ==
    /\ retire = "direct"
    /\ \E ret \in DirectReturns :
          /\ DirectRelease(ret)
          /\ native' = IF ret = OK THEN native \ {"bound"} ELSE native
    /\ retire' = "idle"
    /\ UNCHANGED <<captureVars, directError, controllerVars, platformVars, nativeError, frame>>

-----------------------------------------------------------------------------
IrqStep ==
    /\ \/ \E l \in Lines : PlatformIrq(l)
       \/ ReceiverIrq
       \/ \E t \in Threads : IrqStops(t)
    /\ UNCHANGED nativeVars

WorkStep ==
    \/ /\ \/ WorkBegins
          \/ \E l \in Lines : WorkDisablesLine(l)
          \/ WorkDrained
          \/ WorkStops(ResourcesGate /\ StoppedGate(ReceiverPower, Drained))
       /\ UNCHANGED nativeVars
    \/ WorkMasksReceiver
    \/ WorkDrainsReceiver
    \/ WorkStopsSource

FrameStep ==
    \/ FrameGetsSmi \/ FrameGetsPower \/ FrameGetsReceiver \/ FrameResetsCamMain
    \/ FramePrepares \/ FrameSubmits \/ FrameArms \/ FrameEnablesLine
    \/ FrameChecksStop \/ FrameStreams \/ FrameFails \/ FrameStops

RetireStep ==
    \/ RetireTimesOut \/ RetireFlushes \/ RetireDrainsReceiver \/ RetireStopsSource
    \/ RetireReleasesReceiver \/ RetirePutsReceiver \/ RetirePlatform
    \/ RetirePutsSmi \/ RetireReleasesDirect

(***************************************************************************)
(* The engine can only finish what the sensor sends (external).            *)
(***************************************************************************)
EngineRuns ==
    /\ sensorOn
    /\ EngineFinishesGroup
    /\ UNCHANGED <<owner, directError, controllerVars, platformVars, nativeVars>>

(***************************************************************************)
(* The capture is gone; its storage belongs to the parent.                 *)
(***************************************************************************)
Unbound == "bound" \notin native /\ UNCHANGED vars

Next ==
    \/ FrameBegins \/ FrameStep
    \/ RetireBegins \/ RetireRefused \/ RetireStep
    \/ IrqStep \/ WorkStep \/ EngineRuns
    \/ Unbound

(***************************************************************************)
(* Callers run to completion once called, started handlers and scheduled   *)
(* work run; nothing says that an interrupt, a frame or a retirement comes.*)
(***************************************************************************)
Fairness ==
    /\ WF_vars(FrameStep)
    /\ WF_vars(RetireStep)
    /\ WF_vars(WorkStep)
    /\ \A t \in Threads : WF_vars(IrqStops(t) /\ UNCHANGED nativeVars)

Spec == Init /\ [][Next]_vars /\ Fairness

-----------------------------------------------------------------------------
(***************************************************************************)
(* Power, clock and SMI references are held as long as the engine or the   *)
(* sensor may be live, through every failed stop and partial retirement.   *)
(***************************************************************************)
PowerCoversHardware ==
    engine = "running" \/ sensorOn =>
        "powered" \in platform /\ {"receiver_ref", "smi_ref"} \subseteq native

(***************************************************************************)
(* While a handler or the stop work can still run, the owners it uses are  *)
(* alive: the platform is not retired and the CQ owner not released.       *)
(***************************************************************************)
HandlersHaveOwners ==
    irqOn # {} \/ worker # "idle" \/ (\E t \in Threads : irqThread[t] # "idle") =>
        {"bound"} \subseteq native /\ "cq" \in owner /\ "retired" \notin platform

(***************************************************************************)
(* A stop that left the DMA undischarged is never silent: the stop work    *)
(* reports it and the direct owner holds an error.                         *)
(***************************************************************************)
UndischargedIsReported ==
    "stopped" \in platform /\ ~DmaDischarged => stopError /\ directError # OK

(***************************************************************************)
(* The one-shot DMA reset is spent only when no interrupt handler runs or  *)
(* can run, and the sensor and the route are off.                          *)
(***************************************************************************)
ResetAfterDrain ==
    [][ "off_attempted" \notin tx /\ "off_attempted" \in tx' =>
          /\ irqOn = {} /\ "irq_enabled" \notin ctrl
          /\ \A t \in Threads : irqThread[t] = "idle"
          /\ ~sensorOn /\ "disconnected" \in route ]_vars

(***************************************************************************)
(* stop_requested is set without lifecycle, so a stop may come inside the  *)
(* arm loop or after the stream-on has read the flag.  Even then neither   *)
(* the engine nor the sensor is started, because a handler latches its     *)
(* error before it requests the stop; and a line is still enabled only     *)
(* while the stop work waits for lifecycle, so the work finds it.          *)
(***************************************************************************)
NothingStartsAfterStop ==
    [][ "stop_requested" \in platform =>
          /\ engine' = "running" => engine = "running"
          /\ sensorOn' => sensorOn
          /\ irqOn' \subseteq irqOn \/ worker = "scheduled" ]_vars

(***************************************************************************)
(* The comment at the end of receiver_stop: the abort of a failed stream-on*)
(* relies on direct.first_error already holding that failure.              *)
(***************************************************************************)
AbortFindsFirstError ==
    "abort_attempted" \in native /\ "source_attempted" \in route => directError # OK

(***************************************************************************)
(* Every requested stop ends with the buffers of a held pair returned or   *)
(* an error reported, whatever handlers and callers do meanwhile.          *)
(***************************************************************************)
StopReturnsBuffers ==
    "stop_requested" \in platform /\ "held" \in pair ~>
        "stopped" \in platform /\ (buffers # "active" \/ stopError)

=============================================================================
