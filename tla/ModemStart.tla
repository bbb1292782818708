------------------------------- MODULE ModemStart -------------------------------
(***************************************************************************)
(* The first start of the modem on top of ModemPower: the CCIF and DPMAIF  *)
(* providers (native-hif-owner.h), the probe and the one registration of   *)
(* the CCCI device (register_prepare.h), and the START command of the FSM  *)
(* thread (ccci_tetris_native_start.c) that releases the modem once.  The  *)
(* driver core, callers of first_start and the FSM meet at the device      *)
(* locks, which the drivers only ever try.                                 *)
(***************************************************************************)
EXTENDS ModemPower, Sequences

CONSTANTS
    Callers,   \* tasks that call ccci_tetris_native_first_start
    MaxQueue   \* bound on the commands queued to the FSM thread

ASSUME CallersAssumption == {"free", "core", "fsm"} \cap Callers = {}
ASSUME MaxQueueAssumption == MaxQueue \in Nat \ {0}

VARIABLES
    lock,      \* holder of each device lock
    hif,       \* native_hif and its driver: claimed, sealed, drv
    hifError,  \* native_hif_error
    started,   \* providers whose start callback has run
    probe,     \* last outcome of the CCCI driver's probe
    reg,       \* registration: flags and error
    native,    \* native_start: md is set, first_error, step
    call,      \* step of each caller of first_start
    fsm,       \* the FSM thread: pc, queue, and READY reached
    released   \* number of POWER/0 calls

hifVars == <<hif, hifError, started>>
startVars == <<powerVars, lock, hifVars, probe, reg, native, call, fsm, released>>

Hifs == {"ccif", "dpmaif"}
Devices == Hifs \cup {"ccci"}

StartInit ==
    /\ PowerInit
    /\ lock = [d \in Devices |-> "free"]
    /\ hif = [h \in Hifs |-> [claimed |-> FALSE, sealed |-> FALSE, drv |-> "unbound"]]
    /\ hifError = OK /\ started = {} /\ probe = "none"
    /\ reg = [flags |-> {}, error |-> OK]
    /\ native = [md |-> FALSE, error |-> OK, step |-> 0]
    /\ call = [c \in Callers |-> "idle"]
    /\ fsm = [pc |-> "parked", queue |-> <<>>, ready |-> FALSE]
    /\ released = 0

-----------------------------------------------------------------------------
(***************************************************************************)
(* mt6878_md_native_on_locked before it reads the hardware, and its reads. *)
(***************************************************************************)
NativeOn ==
    /\ owner.attached /\ owner.error = OK
    /\ owner.state = "attached_on" /\ tail = "on"

NativeAdmit == NativeOn /\ Passes(AdoptOn) /\ "gated" \notin md

\* A register or a rail that does not read as expected is latched in the owner.
AdmitFails == NativeOn /\ \E e \in Errnos : owner' = AdoptFault(owner, e)

\* native_fault, which hands the error to mt6878_md_native_on_latch.
NativeFault(e) ==
    LET first == IF native.error = OK THEN e ELSE native.error
    IN  /\ native' = [native EXCEPT !.error = first]
        /\ owner' = IF native.md /\ owner.attached THEN AdoptFault(owner, first) ELSE owner
        /\ UNCHANGED <<profile, md, retained, tail, run, supplier>>

\* ccci_tetris_registration_quarantine
Quarantined(r, e) ==
    [flags |-> r.flags \ {"done"}, error |-> IF r.error = OK THEN e ELSE r.error]

-----------------------------------------------------------------------------
(***************************************************************************)
(* ccci_tetris_hif_claim, first in a provider's probe.                     *)
(***************************************************************************)
HifClaim(h) ==
    /\ hif[h].drv = "unbound" /\ lock[h] = "free"
    /\ hifError = OK
    /\ \/ /\ ~hif[h].claimed
          /\ hif' = [hif EXCEPT ![h].claimed = TRUE, ![h].drv = "probing"]
          /\ lock' = [lock EXCEPT ![h] = "core"]
          /\ UNCHANGED hifError
       \/ /\ \E e \in Errnos : hifError' = IF hif[h].claimed THEN "EALREADY" ELSE e
          /\ UNCHANGED <<hif, lock>>
    /\ UNCHANGED <<powerVars, started, probe, reg, native, call, fsm, released>>

(***************************************************************************)
(* The provider's own initialisation (external) and, at its end,           *)
(* ccci_tetris_hif_register: the claim stays whatever happens.             *)
(***************************************************************************)
HifProbeEnds(h, drv) ==
    /\ lock' = [lock EXCEPT ![h] = "free"]
    /\ hif' = [hif EXCEPT ![h].drv = drv, ![h].sealed = @ \/ drv = "bound"]

HifRegister(h) ==
    /\ hif[h].drv = "probing"
    /\ \/ hifError = OK /\ HifProbeEnds(h, "bound") /\ UNCHANGED hifError
       \/ HifProbeEnds(h, "unbound") /\ UNCHANGED hifError
       \/ /\ HifProbeEnds(h, "unbound")
          /\ \E e \in Errnos : hifError' = IF hifError = OK THEN e ELSE hifError
    /\ UNCHANGED <<powerVars, started, probe, reg, native, call, fsm, released>>

\* External: the driver core unbinds a provider; the device link to a bound
\* CCCI device makes it unbind that one first.
HifRemove(h) ==
    /\ hif[h].drv = "bound" /\ lock[h] = "free" /\ consumer # "bound"
    /\ hif' = [hif EXCEPT ![h].drv = "unbound"]
    /\ UNCHANGED <<powerVars, lock, hifError, started, probe, reg, native, call, fsm, released>>

-----------------------------------------------------------------------------
(***************************************************************************)
(* The supplier and the attachment of ModemPower; the driver core holds    *)
(* the device lock from the attachment to the end of the probe.            *)
(***************************************************************************)
Probing(c) == c \in {"attached", "powered"}

PowerStep ==
    /\ SupplierStep \/ (lock["ccci"] = "free" /\ Attach) \/ PowerOn
    /\ lock' = IF Probing(consumer) = Probing(consumer') THEN lock
               ELSE [lock EXCEPT !["ccci"] = IF Probing(consumer') THEN "core" ELSE "free"]
    /\ UNCHANGED <<hifVars, probe, reg, native, call, fsm, released>>

CoreUnlocks == lock' = [lock EXCEPT !["ccci"] = "free"]

(***************************************************************************)
(* tetris_ccci_dependencies: a provider whose device does not exist yet    *)
(* (tetris_ccci_supplier), or that is not bound and registered, defers the *)
(* probe, and the driver core takes the device out of its domain.          *)
(***************************************************************************)
ProbeDefers ==
    /\ consumer = "powered"
    /\ \E h \in Hifs : ~hif[h].sealed \/ hif[h].drv # "bound"
    /\ probe' = "deferred"
    /\ Detach(owner) /\ CoreUnlocks
    /\ UNCHANGED <<hifVars, reg, native, call, fsm, released>>

(***************************************************************************)
(* tetris_common_prepare with ccci_tetris_native_probe as its last step.   *)
(***************************************************************************)
CommonPrepare ==
    /\ consumer = "powered"
    /\ \A h \in Hifs : hif[h].sealed /\ hif[h].drv = "bound"
    /\ CoreUnlocks
    /\ \/ /\ "attempted" \notin reg.flags
          /\ ~native.md /\ native.error = OK /\ NativeAdmit
          /\ reg' = [reg EXCEPT !.flags = @ \cup {"attempted", "prepared"}]
          /\ native' = [native EXCEPT !.md = TRUE]
          /\ consumer' = "bound" /\ probe' = "done"
          /\ UNCHANGED <<profile, ownerVars>>
       \/ /\ "attempted" \notin reg.flags
          /\ \E e \in Errnos :
               /\ reg' = Quarantined([reg EXCEPT !.flags = @ \cup {"attempted"}], e)
               /\ Detach(owner) \/ Detach(AdoptFault(owner, e))
          /\ probe' = "failed"
          /\ UNCHANGED native
    /\ UNCHANGED <<hifVars, call, fsm, released>>

\* The probe's errors that do not defer it: the descriptor, a provider the device
\* tree lacks or has twice, the hardware info, and a preparation that is not the first.
ProbeFails ==
    /\ consumer = "powered"
    /\ probe' = "failed"
    /\ Detach(owner) /\ CoreUnlocks
    /\ UNCHANGED <<hifVars, reg, native, call, fsm, released>>

\* External: the driver core unbinds the CCCI device.
CcciRemove ==
    /\ lock["ccci"] = "free"
    /\ ConsumerRemoved
    /\ UNCHANGED <<lock, hifVars, probe, reg, native, call, fsm, released>>

-----------------------------------------------------------------------------
(***************************************************************************)
(* ccci_tetris_register_prepared, first in first_start: a busy device      *)
(* returns EBUSY to the caller and leaves no trace.                        *)
(***************************************************************************)
FirstStart(c) ==
    /\ call[c] = "idle" /\ lock["ccci"] = "free"
    /\ call' = [call EXCEPT ![c] = "commit"]
    /\ lock' = [lock EXCEPT !["ccci"] = c]
    /\ UNCHANGED <<powerVars, hifVars, probe, reg, native, fsm, released>>

Committable ==
    /\ "prepared" \in reg.flags /\ consumer = "bound"
    /\ "commit" \notin reg.flags

(***************************************************************************)
(* Its commit, once: an error after the first publication quarantines the  *)
(* registration; success wakes the FSM thread.                             *)
(***************************************************************************)
RegisterPrepared(c) ==
    /\ call[c] = "commit"
    /\ lock' = [lock EXCEPT !["ccci"] = "free"]
    /\ LET tried == [reg EXCEPT !.flags = @ \cup {"commit"}]
       IN  \/ /\ Committable /\ NativeAdmit
              /\ reg' = [tried EXCEPT !.flags = @ \cup {"done"}]
              /\ call' = [call EXCEPT ![c] = "queue"]
              /\ fsm' = [fsm EXCEPT !.pc = "idle"]
              /\ UNCHANGED powerVars
           \/ /\ Committable /\ NativeAdmit
              /\ \E e \in Errnos : reg' = Quarantined(tried, e)
              /\ call' = [call EXCEPT ![c] = "idle"]
              /\ UNCHANGED <<powerVars, fsm>>
           \/ /\ Committable /\ AdmitFails
              /\ call' = [call EXCEPT ![c] = "idle"]
              /\ UNCHANGED <<profile, md, retained, tail, run, supplier, consumer, reg, fsm>>
           \/ /\ ~(Committable /\ NativeAdmit)
              /\ call' = [call EXCEPT ![c] = "idle"]
              /\ UNCHANGED <<powerVars, reg, fsm>>
    /\ UNCHANGED <<hifVars, probe, native, released>>

\* ccci_tetris_owner_entry
OwnerEntry ==
    IF native.error # OK THEN native.error
    ELSE IF ~native.md \/ "done" \notin reg.flags THEN "ENODEV"
    ELSE IF native.step # 0 THEN "EALREADY"
    ELSE OK

(***************************************************************************)
(* ccci_tetris_native_queue_start, the end of first_start: the entry check *)
(* takes and drops native_start_lock, so that others step in before the    *)
(* append.  An error of either is latched in first_start; a check that     *)
(* fails goes on failing, so that it and the latch are one step.           *)
(***************************************************************************)
QueueFails(c, e) ==
    /\ call' = [call EXCEPT ![c] = "idle"]
    /\ NativeFault(e)
    /\ UNCHANGED <<fsm, consumer>>

QueueEntry(c) ==
    /\ call[c] = "queue"
    /\ \/ /\ OwnerEntry = OK
          /\ call' = [call EXCEPT ![c] = "append"]
          /\ UNCHANGED <<powerVars, native, fsm>>
       \/ OwnerEntry # OK /\ QueueFails(c, OwnerEntry)
    /\ UNCHANGED <<lock, hifVars, probe, reg, released>>

QueueStart(c) ==
    /\ call[c] = "append"
    /\ \/ /\ fsm' = [fsm EXCEPT !.queue = Append(@, "START")]
          /\ call' = [call EXCEPT ![c] = "idle"]
          /\ UNCHANGED <<powerVars, native>>
       \/ \E e \in Errnos : QueueFails(c, e)
    /\ UNCHANGED <<lock, hifVars, probe, reg, released>>

-----------------------------------------------------------------------------
(***************************************************************************)
(* The FSM thread takes a command.  A STOP only quarantines the            *)
(* registration; a START passes owner_entry or latches its error.          *)
(***************************************************************************)
Takes(command, pc) ==
    /\ fsm.pc = "idle" /\ fsm.queue # <<>> /\ Head(fsm.queue) = command
    /\ fsm' = [fsm EXCEPT !.queue = Tail(@), !.pc = pc]

RoutineStop ==
    /\ Takes("STOP", "idle")
    /\ reg' = Quarantined(reg, "EOPNOTSUPP")
    /\ UNCHANGED <<powerVars, lock, hifVars, probe, native, call, released>>

RoutineStart ==
    /\ \/ /\ OwnerEntry = OK /\ Takes("START", "trylock")
          /\ UNCHANGED <<powerVars, native>>
       \/ /\ OwnerEntry # OK /\ Takes("START", "idle")
          /\ NativeFault(OwnerEntry) /\ UNCHANGED consumer
    /\ UNCHANGED <<lock, hifVars, probe, reg, call, released>>

\* Locks of the FSM thread, all of them dropped when owner_start returns.
Unlocked == [d \in Devices |-> IF lock[d] = "fsm" THEN "free" ELSE lock[d]]

\* Mutation: the unwinding starts at the device whose lock was not obtained.
UnlockedTooMany(d) ==
    [x \in Devices |-> IF x = d \/ lock[x] = "fsm" THEN "free" ELSE lock[x]]

\* ccci_tetris_hif_lock, its unwind label: what is left when d was busy.
Unwound(d) == Unlocked

\* Mutation: a START that finds the device busy is finished and not recorded.
StartDropped(e) ==
    IF e = "EBUSY" /\ fsm.pc = "trylock" THEN UNCHANGED <<ownerVars, profile, native>>
    ELSE NativeFault(e)

\* The fail path of fsm_routine_start latches what owner_start returned.
StartFault(e) == NativeFault(e)

StartFails(e, locks) ==
    /\ StartFault(e)
    /\ lock' = locks
    /\ fsm' = [fsm EXCEPT !.pc = "idle"]
    /\ UNCHANGED <<consumer, hif, probe, reg, call>>

Advance(from, to) ==
    /\ fsm.pc = from
    /\ fsm' = [fsm EXCEPT !.pc = to]
    /\ UNCHANGED <<powerVars, hif, probe, reg, call>>

\* Mutation: START runs without the lock of the CCCI device.
TryDevice(d, from, to) ==
    /\ Advance(from, to)
    /\ lock' = IF d = "ccci" THEN lock ELSE [lock EXCEPT ![d] = "fsm"]
    /\ (d # "ccci" => lock[d] = "free")

(***************************************************************************)
(* device_trylock on the CCCI device, then on each claimed provider.       *)
(***************************************************************************)
TryLock(d, from, to) ==
    /\ Advance(from, to)
    /\ lock[d] = "free" /\ (d \in Hifs => hif[d].claimed)
    /\ lock' = [lock EXCEPT ![d] = "fsm"]

LockStep(d, from, to) ==
    /\ \/ TryLock(d, from, to) /\ UNCHANGED native
       \/ /\ fsm.pc = from /\ ~(lock[d] = "free" /\ (d \in Hifs => hif[d].claimed))
          /\ StartFails("EBUSY", Unwound(d))
    /\ UNCHANGED <<hifError, started, released>>

(***************************************************************************)
(* owner_start under its locks: identity and admission twice around the    *)
(* runtime-PM reference, and the bounded BROM poll.                        *)
(***************************************************************************)
VerifyStep ==
    /\ fsm.pc = "verify"
    /\ LET admitted == native.error = OK /\ consumer = "bound" /\ "done" \in reg.flags
       IN  \/ /\ admitted /\ NativeAdmit
              /\ native' = [native EXCEPT !.step = 3]
              /\ Advance("verify", "lock_ccif") /\ UNCHANGED lock
           \/ /\ ~admitted /\ StartFails("ENODEV", Unlocked)
           \/ /\ admitted /\ \E e \in Errnos : StartFails(e, Unlocked)
    /\ UNCHANGED <<hifError, started, released>>

\* ccci_tetris_hif_lock once it has both locks.
SealedStep ==
    /\ fsm.pc = "sealed"
    /\ IF hifError = OK /\ \A h \in Hifs : hif[h].sealed /\ hif[h].drv = "bound"
       THEN Advance("sealed", "wdt") /\ UNCHANGED <<native, lock>>
       ELSE StartFails(IF hifError = OK THEN "ESTALE" ELSE hifError, Unlocked)
    /\ UNCHANGED <<hifError, started, released>>

(***************************************************************************)
(* The watchdog request, and the HS1 announcement with the last admission. *)
(* native.step matters only while there is no error.                       *)
(***************************************************************************)
CallStep(from, to, admitted, step) ==
    /\ fsm.pc = from
    /\ \/ /\ admitted
          /\ Advance(from, to)
          /\ native' = [native EXCEPT !.step = step]
          /\ UNCHANGED lock
       \/ \E e \in Errnos : StartFails(e, Unlocked)
    /\ UNCHANGED <<hifError, started, released>>

\* ccci_tetris_hif_start: one provider after the other.
HifStart(h, from, to) ==
    /\ fsm.pc = from
    /\ started' = started \cup {h}
    /\ \/ Advance(from, to) /\ UNCHANGED <<native, lock, hifError>>
       \/ \E e \in Errnos : hifError' = e /\ StartFails(e, Unlocked)
    /\ UNCHANGED released

(***************************************************************************)
(* POWER/0 and its answer; success leaves the wait for the handshake.      *)
(***************************************************************************)
Power0 ==
    /\ fsm.pc = "power0"
    /\ released' = released + 1
    /\ \/ /\ Advance("power0", "handshake")
          /\ native' = [native EXCEPT !.step = 8]
          /\ lock' = Unlocked
       \/ \E e \in Errnos : StartFails(e, Unlocked)
    /\ UNCHANGED <<hifError, started>>

\* HS1 and HS2 arrive, or the wait times out, is stopped by force, or leaves by the
\* vendor's other exit, which latches EIO.
Handshake ==
    /\ fsm.pc = "handshake"
    /\ \/ /\ fsm' = [fsm EXCEPT !.pc = "idle", !.ready = TRUE]
          /\ UNCHANGED <<powerVars, lock, hif, probe, reg, native, call>>
       \/ \E e \in {"ETIMEDOUT", "ECANCELED", "EIO"} : StartFails(e, lock)
    /\ UNCHANGED <<hifError, started, released>>

FsmStep ==
    \/ RoutineStop
    \/ RoutineStart
    \/ LockStep("ccci", "trylock", "verify")
    \/ VerifyStep
    \/ LockStep("ccif", "lock_ccif", "lock_dpmaif")
    \/ LockStep("dpmaif", "lock_dpmaif", "sealed")
    \/ SealedStep
    \/ CallStep("wdt", "hif_ccif", TRUE, 5)
    \/ HifStart("ccif", "hif_ccif", "hif_dpmaif")
    \/ HifStart("dpmaif", "hif_dpmaif", "hs1")
    \/ CallStep("hs1", "power0", NativeAdmit, 7)
    \/ Power0
    \/ Handshake

\* External: the rest of the vendor stack asks for a stop.
StopQueued ==
    /\ fsm.pc # "parked" /\ Len(fsm.queue) < MaxQueue
    /\ fsm' = [fsm EXCEPT !.queue = Append(@, "STOP")]
    /\ UNCHANGED <<powerVars, lock, hifVars, probe, reg, native, call, released>>

-----------------------------------------------------------------------------
CallStepOf(c) == RegisterPrepared(c) \/ QueueEntry(c) \/ QueueStart(c)

StartNext ==
    \/ \E h \in Hifs : HifClaim(h) \/ HifRegister(h) \/ HifRemove(h)
    \/ PowerStep \/ ProbeDefers \/ CommonPrepare \/ ProbeFails \/ CcciRemove
    \/ \E c \in Callers : FirstStart(c) \/ CallStepOf(c)
    \/ FsmStep \/ StopQueued

(***************************************************************************)
(* A woken kernel thread and a call that has begun go on: no step of them  *)
(* waits for a lock, and the BROM poll and the handshake are bounded.      *)
(***************************************************************************)
StartFairness == WF_startVars(FsmStep) /\ \A c \in Callers : WF_startVars(CallStepOf(c))

StartSpec == StartInit /\ [][StartNext]_startVars /\ StartFairness

-----------------------------------------------------------------------------
(***************************************************************************)
(* POWER/0 is called at most once, on a powered modem whose owner and      *)
(* start have no error, with the CCCI device bound and registered, both    *)
(* providers bound, sealed and started, and with all three device locks,   *)
(* so that no probe or removal runs meanwhile.                             *)
(***************************************************************************)
Releasable ==
    /\ released = 0 /\ native.error = OK /\ owner.error = OK
    /\ md = BootOn /\ owner.state = "attached_on"
    /\ consumer = "bound" /\ "done" \in reg.flags
    /\ \A d \in Devices : lock[d] = "fsm"
    /\ \A h \in Hifs : hif[h].sealed /\ hif[h].drv = "bound" /\ h \in started

ReleaseIsSound == [][released' # released => Releasable]_startVars

(***************************************************************************)
(* Whoever is inside a locked section of a device has its lock: a failed   *)
(* START gives back exactly the locks it took, never the one on which it   *)
(* failed, and an idle FSM holds none.                                     *)
(***************************************************************************)
LocksAreOwned ==
    /\ \A h \in Hifs : hif[h].drv = "probing" <=> lock[h] = "core"
    /\ Probing(consumer) <=> lock["ccci"] = "core"
    /\ \A c \in Callers : call[c] = "commit" <=> lock["ccci"] = c
    /\ fsm.pc \in {"parked", "idle", "trylock", "handshake"} =>
         \A d \in Devices : lock[d] # "fsm"

(***************************************************************************)
(* A first_start that has registered the modem brings it to READY or       *)
(* leaves its error in native_start, also when a STOP came before its      *)
(* START, the START was not queued, or another task held a device lock at  *)
(* the wrong moment.                                                       *)
(***************************************************************************)
StartResolves ==
    (\E c \in Callers : call[c] = "queue") ~> (fsm.ready \/ native.error # OK)

(***************************************************************************)
(* runtime-ports/README.md: "Missing platform/binding/registration defers  *)
(* probing".  A deferred probe can be repeated: the owner has no error.    *)
(***************************************************************************)
DeferralCanRetry == probe = "deferred" => owner.error = OK
=============================================================================
