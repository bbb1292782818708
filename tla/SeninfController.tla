---------------------------- MODULE SeninfController ----------------------------
(***************************************************************************)
(* The SENINF receiver controller (camera-seninf-controller), the route    *)
(* it programs (camera-seninf-route) and the PHY transaction below it      *)
(* (camera-seninf/mt6878-seninf-phy.h), on top of the direct CAMSV owner   *)
(* whose transaction its gates read.                                       *)
(*                                                                         *)
(* The values of the four first_error fields steer nothing but the errno   *)
(* returned, so seninfErrors is the set of owners that have one, and the   *)
(* errno of a refusal stands for all of its refusals.  sensorOn            *)
(* is the sensor itself: it may emit a frame from the first stream-on      *)
(* attempt until a sensor stop has succeeded.                              *)
(***************************************************************************)
EXTENDS CamsvDirect

VARIABLES
    ctrl,          \* flags of struct mt6878_seninf_controller
    route,         \* flags of struct mt6878_seninf_route and its transactions
    seninfErrors,  \* first_error set: controller, route, PHY bus, route bus
    stream,        \* V4L2 subdevs whose stream is marked enabled
    sensorOn       \* the sensor may be emitting

controllerVars == <<ctrl, route, seninfErrors, stream, sensorOn>>
seninfVars == <<directVars, controllerVars>>

CtrlFlags == {"requested", "allocated", "irq_enabled", "irq_drained", "tsrec_disabled"}
RouteFlags == {"phy_attempted", "phy_configured", "phy_off_attempted", "attempted",
               "configured", "disconnect_attempted", "disconnected",
               "source_attempted", "source_stopped"}
SeninfOwners == {"controller", "route", "phy", "bus"}

(***************************************************************************)
(* The controller's variables have their types.                            *)
(***************************************************************************)
ControllerTypeOK ==
    /\ DirectTypeOK
    /\ ctrl \subseteq CtrlFlags
    /\ route \subseteq RouteFlags
    /\ seninfErrors \subseteq SeninfOwners
    /\ stream \subseteq {"receiver", "sensor"}
    /\ sensorOn \in BOOLEAN

ControllerInit ==
    /\ ctrl = {"requested"}  \* mt6878_seninf_controller_bind took both IRQs
    /\ route = {} /\ seninfErrors = {}
    /\ stream = {} /\ sensorOn = FALSE

(***************************************************************************)
(* remember(c, ret).                                                       *)
(***************************************************************************)
Remember(errors, ret) == IF ret = OK THEN errors ELSE errors \cup {"controller"}

-----------------------------------------------------------------------------
(***************************************************************************)
(* mt6878_seninf_controller_gate, ROUTE and STOPPED.  power: the receiver  *)
(* is runtime active and the platform powered; drained: platform.drained.  *)
(***************************************************************************)
RouteGate(power) ==
    /\ {"requested", "allocated"} \subseteq ctrl
    /\ power
    /\ seninfErrors = {}
    /\ {"phy_configured", "configured", "source_stopped"} \subseteq route
    /\ route \cap {"disconnected", "source_attempted"} = {}

StoppedGate(power, drained) ==
    /\ {"requested", "allocated", "irq_drained", "tsrec_disabled"} \subseteq ctrl
    /\ power
    /\ drained
    /\ {"source_stopped", "disconnected"} \subseteq route

\* Mutation: the DMA is assumed off.
DmaAssumedOff == TRUE

(***************************************************************************)
(* DMA never started, or proved quiescent.                                 *)
(***************************************************************************)
DmaDischarged == "hw_attempted" \in tx => "quiesced" \in tx

(***************************************************************************)
(* check(RECEIVER_OFF) and verify(PHY_QUIESCED), as native-pm.patch has    *)
(* them.                                                                   *)
(***************************************************************************)
PhyQuiesced(power, drained) == StoppedGate(power, drained) /\ DmaDischarged

-----------------------------------------------------------------------------
(***************************************************************************)
(* How far mt6878_seninf_controller_prepare and route_prepare can get      *)
(* before a failure: the flags set and the owners that latch it.  The last *)
(* MMIO-free refusals latch only the controller.                           *)
(***************************************************************************)
PrepareFailures ==
    LET At(flags, owners) == [flags |-> flags, owners |-> owners \cup {"controller"}]
        phy == {"source_stopped", "phy_attempted", "phy_configured"}
    IN {At({}, {}),                                   \* power, preflight, TSREC
        At({"tsrec"}, {}),                            \* link, format, mapping
        At({"tsrec"}, {"route"}),                     \* sensor s_power(0)
        At({"tsrec", "source_stopped"}, {"route"}),   \* calibration, owners
        At({"tsrec", "source_stopped", "phy_attempted"}, {"route", "phy"}),
        At({"tsrec"} \cup phy, {"route"}),            \* MUX_SETUP check
        At({"tsrec"} \cup phy \cup {"attempted"}, {"route", "bus"})}

Prepared == {"source_stopped", "phy_attempted", "phy_configured", "attempted", "configured"}

(***************************************************************************)
(* mt6878_seninf_controller_prepare.  Once allocated, the reservations     *)
(* stay after any failure.                                                 *)
(***************************************************************************)
ControllerPrepare(power, ret) ==
    /\ \/ /\ "requested" \notin ctrl \/ "allocated" \in ctrl \/ "controller" \in seninfErrors
          /\ ret = "EBUSY"
          /\ UNCHANGED <<ctrl, route, seninfErrors, sensorOn>>
       \/ /\ "requested" \in ctrl /\ "allocated" \notin ctrl /\ "controller" \notin seninfErrors
          /\ \/ /\ ret \in Faults  \* mt6878_route_validate: reservations dropped
                /\ UNCHANGED <<ctrl, route, seninfErrors, sensorOn>>
             \/ \E f \in PrepareFailures :
                   /\ ret \in Faults
                   /\ f.flags # {} => power
                   /\ ctrl' = ctrl \cup {"allocated"}
                              \cup (IF "tsrec" \in f.flags THEN {"tsrec_disabled"} ELSE {})
                   /\ route' = route \cup (f.flags \ {"tsrec"})
                   /\ seninfErrors' = seninfErrors \cup f.owners
                   /\ sensorOn' = (sensorOn /\ "source_stopped" \notin f.flags)
             \/ /\ power
                /\ ret = OK
                /\ ctrl' = ctrl \cup {"allocated", "tsrec_disabled"}
                /\ route' = route \cup Prepared
                /\ sensorOn' = FALSE
                /\ UNCHANGED seninfErrors
    /\ UNCHANGED stream

(***************************************************************************)
(* mt6878_seninf_route_matches, and the checks of enable.                  *)
(***************************************************************************)
RouteMatches ==
    {"phy_configured", "configured"} \subseteq route /\ seninfErrors \subseteq {"controller"}

EnableAllowed ==
    /\ RouteMatches /\ "controller" \notin seninfErrors
    /\ "submitted" \in tx /\ "off_attempted" \notin tx
    /\ txError = OK /\ directError = OK
    /\ "source_attempted" \notin route

(***************************************************************************)
(* v4l2_subdev_enable_streams on the receiver, with its callback           *)
(* mt6878_seninf_controller_enable.  A failed attempt leaves source_stopped*)
(* false and no stream marked, though the sensor may run.                  *)
(***************************************************************************)
ControllerEnable(ret) ==
    /\ \/ /\ ~EnableAllowed
          /\ ret \in Faults
          /\ UNCHANGED <<ctrl, route, stream, sensorOn>>
       \/ /\ EnableAllowed
          /\ ret \in Faults \cup {OK}
          /\ ctrl' = ctrl \cup {"irq_enabled"}
          /\ route' = (route \cup {"source_attempted"}) \ {"source_stopped"}
          /\ IF ret = OK
               THEN stream' = {"receiver", "sensor"} /\ sensorOn' = TRUE
               ELSE sensorOn' \in BOOLEAN /\ UNCHANGED stream
    /\ seninfErrors' = Remember(seninfErrors, ret)

(***************************************************************************)
(* mt6878_seninf_controller_drain: disable_irq masks the line and waits    *)
(* for its thread (idle), then events are masked, sampled, acknowledged.   *)
(***************************************************************************)
ControllerMasksIrq ==
    /\ "irq_enabled" \in ctrl
    /\ ctrl' = ctrl \ {"irq_enabled"}
    /\ UNCHANGED <<route, seninfErrors, stream, sensorOn>>

ControllerDrain(idle, ret) ==
    /\ "irq_enabled" \notin ctrl /\ idle
    /\ \/ /\ "allocated" \notin ctrl
          /\ ret = "EINVAL"
          /\ UNCHANGED <<ctrl, seninfErrors>>
       \/ /\ "allocated" \in ctrl
          /\ \/ ret \in Faults /\ UNCHANGED ctrl
             \/ ret = OK /\ ctrl' = ctrl \cup {"irq_drained"}
          /\ seninfErrors' = Remember(seninfErrors, ret)
    /\ UNCHANGED <<route, stream, sensorOn>>

(***************************************************************************)
(* mt6878_route_disconnect after a successful sensor stop: flags is route  *)
(* with source_stopped set, errors the owners with an error on return.     *)
(* One attempt; its failure stays in bus.                                  *)
(***************************************************************************)
RouteDisconnect(flags, power, ret, errors) ==
    \/ /\ \/ "attempted" \notin flags
          \/ flags \cap {"disconnected", "disconnect_attempted"} # {}
          \/ ~power \/ "phy_configured" \notin flags
       /\ ret = "EINVAL" /\ errors = seninfErrors
       /\ route' = flags
    \/ /\ "attempted" \in flags
       /\ flags \cap {"disconnected", "disconnect_attempted"} = {}
       /\ power /\ "phy_configured" \in flags
       /\ \/ /\ ret \in Faults /\ errors = seninfErrors \cup {"bus"}
             /\ route' = flags \cup {"disconnect_attempted"}
          \/ /\ ret = OK /\ errors = seninfErrors
             /\ route' = (flags \cup {"disconnect_attempted", "disconnected"}) \ {"configured"}

\* Mutation: the sensor's answer to its stop is not looked at.
SourceOffUnchecked(power, ret) ==
    /\ \E errors \in {seninfErrors, seninfErrors \cup {"bus"}} :
          /\ RouteDisconnect(route \cup {"source_stopped"}, power, ret, errors)
          /\ stream' = IF ret = OK THEN {} ELSE stream \ {"sensor"}
          /\ sensorOn' \in {FALSE, sensorOn}
          /\ seninfErrors' = IF "receiver" \in stream THEN Remember(errors, ret) ELSE errors
    /\ UNCHANGED ctrl

(***************************************************************************)
(* The sensor stop and disconnect under core and direct locks, of disable  *)
(* (the receiver is marked streaming: its error is remembered) and of the  *)
(* native abort.  A sensor no longer marked streaming makes the disable of *)
(* a marked receiver fail (EALREADY).                                      *)
(***************************************************************************)
SourceOff(power, ret) ==
    /\ \E errors \in {seninfErrors, seninfErrors \cup {"bus"}} :
          /\ \/ /\ ret \in Faults  \* the sensor did not stop: no off proof
                /\ errors = seninfErrors
                /\ UNCHANGED <<route, stream, sensorOn>>
             \/ /\ "receiver" \in stream => "sensor" \in stream
                /\ RouteDisconnect(route \cup {"source_stopped"}, power, ret, errors)
                /\ stream' = IF ret = OK THEN {} ELSE stream \ {"sensor"}
                /\ sensorOn' = FALSE
          /\ seninfErrors' = IF "receiver" \in stream THEN Remember(errors, ret) ELSE errors
    /\ UNCHANGED ctrl

(***************************************************************************)
(* mt6878_phy_off: one attempt, refused and latched unless everything is   *)
(* quiescent; an earlier PHY bus error is returned even then.              *)
(***************************************************************************)
PhyOff(power, drained, ret) ==
    \/ /\ "phy_off_attempted" \in route
       /\ ret \in Faults
       /\ UNCHANGED <<route, seninfErrors>>
    \/ /\ "phy_off_attempted" \notin route
       /\ \/ /\ ret \in Faults
             /\ route' = route \cup {"phy_off_attempted"}
             /\ seninfErrors' = seninfErrors \cup {"phy", "route"}
          \/ /\ PhyQuiesced(power, drained)
             /\ ret \in IF "phy" \in seninfErrors THEN Faults ELSE {OK}
             /\ route' = (route \cup {"phy_off_attempted"}) \ {"phy_configured"}
             /\ seninfErrors' = IF ret = OK THEN seninfErrors
                                ELSE seninfErrors \cup {"route"}

(***************************************************************************)
(* mt6878_seninf_route_retire.                                             *)
(***************************************************************************)
RouteRetire(power, drained, ret) ==
    \/ /\ \/ ~power \/ "source_stopped" \notin route \/ ~DmaDischarged
          \/ "attempted" \in route /\ "disconnected" \notin route
       /\ ret = "EBUSY"
       /\ UNCHANGED <<route, seninfErrors>>
    \/ /\ power /\ "source_stopped" \in route /\ DmaDischarged
       /\ "attempted" \in route => "disconnected" \in route
       /\ IF "phy_attempted" \in route
            THEN PhyOff(power, drained, ret)
            ELSE ret = OK /\ UNCHANGED <<route, seninfErrors>>

(***************************************************************************)
(* mt6878_seninf_controller_release: IRQs and reservations go only with a  *)
(* retired route.                                                          *)
(***************************************************************************)
ControllerRelease(power, drained, ret) ==
    /\ RouteRetire(power, drained, ret)
    /\ ctrl' = IF ret = OK THEN ctrl \ {"requested", "allocated"} ELSE ctrl
    /\ UNCHANGED <<stream, sensorOn>>

=============================================================================
