# Verification of the Tetris hardware owners

The repository is a postmarketOS port for the CMF Phone 1 ("Tetris", MT6878).
Beside packaging and build scripts, its own logic is a set of kernel *owners*
under `src/patches/`: C components that each take one piece of hardware through
a one-shot sequence and give it back only with a proof that it is quiet. They
share a discipline:

- a transaction is attempted once (`attempted`, `commit`, a step counter) and
  never retried after its first hardware write;
- the first error is latched (`first_error`) and refuses every later operation;
- memory, clocks, power and references are kept as long as the hardware may
  still use them, through every failed stop; what cannot be proved quiet is
  quarantined until reboot;
- locks are nested in one documented order, and a provider's device lock comes
  before all of its consumers' locks.

Whether a component keeps this discipline depends on orders of steps no unit
test produces: an interrupt thread against a stop, a failed register in the
middle of a sequence, a late completion of the previous epoch, two tasks at one
device lock. That is what is modelled, checked and proved here.

`PROJECT.json` lists the components, the runs with their properties and mutants,
the source lines behind every definition, the hazards and the theorems.

## 1. Inventory

### Modelled

| Component | State | Operations | Meets | Hard | Correct when |
| --- | --- | --- | --- | --- | --- |
| CAMSV transaction, `camera-camsv` | phase, group, sequence, buffer pair, error | submit, done, stop with bounded reset | engine, vb2 queues, SMI clamp | a DONE for part of the tags; a reset that times out | DONE only for a whole frame, ERROR only after a complete reset |
| Direct owner, `camera-direct` | flags, command queue, pair, first error | encode, submit, done, stop, release, latch | CAMSV transaction, interrupt handlers | an error latched between two steps of a completion | the engine never outlives its memory; first errors stay |
| SENINF controller, `camera-seninf-controller`, `-route`, PHY | route and PHY flags, gates, drain | prepare, enable, drain, disable, release | direct owner, sensor, receiver PM | a program that stops half way; disable before drain | what was touched is discharged or reported |
| Platform consumer, `camera-direct-platform`, `-hardware` | power references, interrupt lines, stop work | power, arm, interrupt threads, stop work, retire | direct owner, controller | a queued thread that runs after the stop | power covers the hardware; every handler has an owner |
| Native capture, `camera-native-capture` | lifecycle, registrations | frame, retire, receiver stop, CAM_MAIN reset under the clamp | all of the above | stop work, DONE thread and frame in any order | the reset comes after the drain, nothing starts after the stop, buffers come back |
| Epochs and joint reset, `camera-repeat-capture`, `camera-joint-reset` | epoch, receipt, sequence | alloc, cold/warm submit, retire, next, free | native capture | a timeout with the interrupt still to come | the next epoch starts from clean hardware |
| Video owner, `camera-native-video` | queues, work, stream and file state | queue, frame work, streamoff, close | epochs, vb2 | streamoff inside any step of the work | both calls end and all buffers return |
| Receiver runtime PM, `mt6878-seninf-pm.c` | ledger of clocks, domains, votes, parent | resume, suspend, unwinding | clk, genpd, regulators, other mux users | any provider call fails, also in the unwinding | the ledger agrees with the PM core; the mux gets its parent back |
| GPUEB SRAM owner, `gpu/sram-owner` | phase, claimed windows | create, claim, quarantine, close | the scopes that claim windows | a claim against a quarantine | windows are exclusive, a quarantine is final |
| GPUEB scope, `gpu/reset-owner-draft` | dispatch handle and pins, line mask, calls, error | bind, acquire, interrupt thread, send, drain, hold, reset, release, destroy | SRAM owner, firmware, clients | a thread queued before the mask runs after the reset; a message posted between copy and ACK | no access without ownership, no message lost, a freed scope is quiet |
| GPUEB provider, MFG0 and bound parent | bring-up step, usage counts, provider lock | bring-up, channel binding, assert, stop | scope, runtime PM, SRAM | a failure at any step; drain under the provider's lock | the power is held, failures are retained, calls return |
| Modem power owner, `modem/md-pm-integration` | retained owner, state, real-boot tail, domain registers | adopt, first OFF, inhibited restart, post-off gate, attach, power-on, detach, publication fault | genpd, regulators, secure calls, CCCI device | a register fails half way; the domain cannot be published | open buses lead to a powered modem; half-way hardware is latched and frozen |
| Modem first start, `native-start`, `runtime-prepare`, `runtime-ports` | HIF claims, registration, one start, device locks | claim, register, CCCI probe, commit, START to POWER/0, STOP | driver core, FSM thread, callers | three device locks that are only tried | one release, in the right state; a registered start ends |

How they interact. In the camera path the video owner drives epochs, an epoch
drives the native owner, which runs controller, platform consumer and direct
owner under `e->lock -> n->lock -> platform.lifecycle -> controller ->
direct.lock`; the interrupt threads enter at the platform consumer and queue
the stop work, which runs upwards. In the GPU path the bound parent owns the
reset provider, MFG0 and the scope; the firmware and the clients meet the scope
at the mailbox. In the modem path the power domain's supplier, the HIF drivers,
the CCCI driver and the FSM thread meet at device locks and at two sticky errors.

### Not modelled

Planned (section 2): SMI clamp provider and CAM_MAIN lease; camera pipeline
owner; CCD command queue, recipe, session, worker, bus and composer; SENINF
graph; IMX882 stream; CAMISP supplies, streams, DMA binding; GPUEB MMIO scope,
boot owner, adoption, DRAM and flat handoff; modem PMIC supplier, startup scope,
bootstrap and shared-memory drafts; GNSS session, download, frame worker and
receiver; the sensor-proxy backend; registration and unregistration of the
video owner.

Left out for good: certificate and image parsing (byte strings and cryptography,
out of reach of a small state space); GNSS tables and the ABI headers (no state
over time); the identity, sensor-list and display patches (a few lines in
drivers that are not in the repository); packages, CI and scripts (straight-line
build tools).

## 2. Plan

Order: what touches memory or shared hardware first, then what composes it.

1. done: CAMSV transaction, direct owner with its proof, controller, platform,
   native owner, epochs, video; receiver PM; GPUEB scope with its proof and its
   parent; modem power and first start.
2. `SmiClamp`, `CamMainLease`: the two providers `NativeCapture` uses through
   their results today. Property: the clamp is released only by its owner and
   after every port read back.
3. `PipelineOwner` and the CCD session, worker and bus: mapping, publish, the
   callback gate; refinement of a worker by its bus. `CqEncoder` as a function,
   compared with a reference over bounded recipes.
4. CAMISP supplies (ordered acquisition and unwinding, like `SeninfPm`) and the
   sensor's stream state; video registration and unregistration.
5. the rest of the GPU path: adoption and flat handoff before `GpuebControl`.
6. modem bootstrap, HIF resources and PMIC supplier; GNSS session, download
   and frame worker; sensor proxy.
7. proofs: safety of `ModemPower` and of `ModemStart`'s locks, the controller's
   invariants, `PowerCoversHardware` and `LoanKept` for the composed owner.

Abstract specifications worth stating: `FrameLoan` (stated; direct and video
implement it), a one-shot transaction with a sticky error that the owners
implement, an exclusive lease for the SMI and CAM_MAIN providers.

## 3. Modules

    CamsvCapture -> CamsvDirect -> SeninfController -> CamsvPlatform
                                   -> NativeCapture -> CaptureEpoch -> NativeVideo
    FrameLoan        implemented by CamsvDirect and by NativeVideo
    SeninfPm         on its own
    GpuebSram -> GpuebReset -> GpuebControl
    ModemPower -> ModemStart
    CamsvDirectProofs, GpuebResetProofs

An arrow is EXTENDS: the module on the right adds the next component's variables
and actions around those of the left, the way the code's structs nest. `MC*`
modules give the constants their values.

Conventions. Zero/one fields of a struct are names in a set of flags. Errnos are
strings, `"ok"` is zero. An early return is an arm of an IF chain in the code's
order; a section under one lock that nobody can look into is one action, a
section that waits, polls, drops a lock or is interrupted is several. A register
program that may stop at any point is a sequence of steps (`ModemPower`,
`SeninfPm`) or one step that may fail with or without its effect where the
order inside is not observable (`SeninfController`). A register write fails with
or without effect. Parameters, addresses, voltages, device-tree comparisons and
evidence are reduced to "the check passed or not". Operators introduced by
"Mutation:" are the wrong variants used to test the properties; nothing in the
specifications refers to them.

`CamsvCapture`: the pair of buffers, the tags written, submit/done/stop with the
bounded reset; the engine is an action of its own that writes tags while it is
live. `CamsvDirect`: the one-shot owner around it; `submit`, `done` and `stop` run
under the queue mutex from beginning to end, so each is one step; an error that
another owner latches is a step of its own. `SeninfController`: flags for route and PHY, discharge
of what was touched. `CamsvPlatform`: one thread per interrupt line, the stop
work, power references. `arm` is several steps, since interrupts come in as soon as
the first line is enabled: its checks, then one step per line; `lifecycle` is a flag,
held by `arm` and by the stream-on, and keeps the stop work out. A handler does not
take it, so `stop_requested` may be set between any two of these steps.
`NativeCapture`: frame and retire as programs, one step per call that can fail; the
frame reads `stop_requested` and streams on in two steps under `lifecycle`.
`CaptureEpoch`: cold and warm submission, receipts, joint reset; only a successor
asked for with a receipt in hand latches its failure in the native owner.
`NativeVideo`: queues and frame work; each node has its own streamoff, which takes
the registration mutex, retires the owner if the other one has not, and then
stops its own queue. A streamoff that would change nothing is left out. The
initial states are those after the allocation and the bind; the resource checks of
probe and bind are not modelled.

`SeninfPm`: `ResumeOrder` and `ReleaseOrder` are the provider calls in the code's
order; another consumer may move the shared mux.

`GpuebSram`, `GpuebReset`, `GpuebControl`: the interrupt thread, the sender and
each caller have a program counter; the firmware posts and answers at any time.
The header asks the parent to serialise acquire, release and destroy, and so
does the model. `dispatch_active` has no setter in the repository: `Activate` is
external. A stray interrupt enable that one mask balances is `LineForced`.

`ModemPower`: the four register programs, and one action per callback around
them. `profile` is what device tree and configuration select. A FLIGHT call that
returns zero proves nothing about the policy, so it changes no register.
`ModemStart`: device locks are explicit; the driver core, the FSM thread and the
callers of `first_start` take them. The entry check of `first_start` and the append
of its START are two steps, and the append may fail. System suspend, and
with it `lock_system_sleep`, is left out. Unbinding a driver is an external action
of the driver core.

## 4. Runs

| Run | States | Question |
| --- | --- | --- |
| `capture` | 1,477 | is DONE a whole frame, and ERROR a finished reset, for every interleaving of engine, DONE and stop |
| `direct` | 242 | does the owner hold memory and errors right, and does it implement the loan |
| `native` | 67,829 | stop, frame, interrupts and reset in any order |
| `video` | 142,904 | epochs behind the queues, timeouts, streamoff at any moment |
| `receiver_pm` | 446 | a failure of any provider call of resume, suspend and unwinding |
| `gpueb_scope` | 900,458 | threads, senders, firmware, drain, reset, destroy |
| `gpueb_control` | 42,943 | bring-up with a failure at any step; assert and stop over a live scope |
| `modem_power` | 134 | a failure at any register of every profile |
| `modem_start` | 10,539 | probes, removals, two callers, STOP, and the one start |
| `failed_stream_on` | violation | the comment at the end of `receiver_stop` |
| `deferred_probe` | violation | "defers probing" of `runtime-ports/README.md` |

What the properties say. *Camera*: `DoneIsWholeFrame`, `ErrorAfterReset`,
`EngineOwnsMemory` (a live engine has its command queue and its pair),
`DoneIsQuiescedFrame`, `LoanKept` (implements `FrameLoan`), `UndischargedIsReported`
(a stop that left the DMA undischarged is reported and latched), `ResetAfterDrain`,
`NothingStartsAfterStop` (behind a requested stop neither engine nor sensor starts,
and a line that is enabled is one the stop work has still to mask),
`StopReturnsBuffers`, `PowerCoversHardware`, `HandlersHaveOwners`, `RetiredIsQuiet`
(a retired owner has nothing on, holds no reference and has the lent pair back; a
node keeps at most a buffer the hardware never had, until its own streamoff),
`SuccessorIsClean` (no epoch is installed over an error or a path that is not
silent), `LateDoneIsError` (a completion after the timeout is not a frame),
`PhyOffIsLast` (the PHY goes off behind sensor, engine, lines and stop work),
`FrameWorkResolves`, `OffReturns` (every streamoff that began returns, also two at
once). *Receiver PM*:
`CsiIsSupplied` (the clock runs and the mux is on the
PLL only with rate, gates, vote and domains held), `MuxRestored`,
`LedgerMatchesPm`. *GPU*: `AccessIsOwned`, `ResetIsQuiet`, `ExposedIsRetained`,
`FaultIsContained`, `NothingDiscarded`, `OneRequestAtATime`, `FreedIsQuiet`,
`PowerIsHeld`, `MutexBracketsPrepare`, `FailureIsRetained`,
`ResetOverQuarantine`, `ControlReturns`. *Modem*: `OpenBusIsPowered` at every
prefix of the OFF and ON sequences, `HalfwayIsLatched`, `FaultFreezes` (no write
after the first error), `ReleaseIsSound` (POWER/0 once, all locks held, nothing
missing), `LocksAreOwned`, `StartResolves` (a registered start reaches READY or
leaves its error).

Each property has a mutant in `PROJECT.json`: a plausible slip in a mapped
definition (a dropped guard, a swapped order, a lost latch) that violates it.

Bounds. The tags are the two of a vb2 pair, `raw` and `pdaf`. The transaction's run
has three groups, so that the tags share one, use two, or leave one empty, and
stale sequence numbers beside the submitted one; the direct run keeps two of each
and has two errnos, to tell a first error from a later one. The native and the
video run have one group, the only grouping the recipe takes, and one provider
fault. The native run has all four CAMSV lines and the receiver's; the video run
keeps DONE and ERR, since SOF and CQ add no outcome beyond ERR's latch and stop.
The modem power run has `EPROBE_DEFER` because a caller could take it for a
harmless result. The mailbox has a channel with answers and one without;
two posts and two sends reach the message that arrives between copy and ACK and
the second request over an unanswered first. The parent's run has one channel
and one of each, since the scope's own run covers the rest. Two callers of
`first_start` are one that starts and one that disturbs; two queued commands put
STOP before or after START. The callers of the scope are
interchangeable, so `gpueb_scope`, which checks invariants only, uses symmetry; no
other run does.

Deadlock is checked except where a terminal state is intended: a receiver with a
failed clean-up, a retained or freed scope, a modem that failed or runs.

Fairness is weak fairness of kernel threads and works that were woken or queued,
and of calls that have begun: `FrameStep`, `RetireStep`, `WorkStep`, the frame
work, `OffStep`, interrupt threads that were raised, the parent's bring-up, the
mailbox thread, the provider's calls, the FSM thread, `first_start` callers. The
scheduler justifies it, and the polls in them have time limits. Steps of the modem's
start never wait for a device lock: they try it and fail. There is none for hardware,
firmware, clients, or the decision to call an operation: frames may never
arrive, and then the epoch's timeout ends the wait.

### Findings

- `failed_stream_on`. The comment at `mt6878-native-capture.c:100` says that the
  direct owner's first error keeps a failed stream-on. It is latched only at the
  `fail` label, after `platform.lifecycle` was dropped; a whole frame before
  that lets the abort find no error, and the pair returns DONE. Memory stays owned.
- `deferred_probe`. `runtime-ports/README.md:16` says that a missing provider
  defers probing. With the real-boot domain, attachment and power-on precede the
  driver's probe; the deferral makes the driver core detach the device, which
  retires the owner for the rest of the boot, so the repeated probe is refused.

### Observations

Behaviour a reader may stumble over; none contradicts the code's statements.

- A verifier's ESTALE in the DONE handler is latched without scheduling the stop;
  the next interrupt or the epoch's timeout ends the capture.
- After a failed receiver PM put the retirement cannot be repeated; a preparation
  that fails between its allocation and the route attempt stays quarantined.
- The receiver's resume does not test `parent_changed`; this is sound because
  the first error is set whenever something was retained.
- `platform_retire` only records errors of its PM puts.
- A firmware message posted between a request's check and its commit is taken
  for the answer: the protocol carries no tag.
- `epoch_next` refuses the last sequence number and so never wraps.
- A second caller of `first_start`, refused in the end, can hold the device lock
  just when START tries it. START then fails with EBUSY for the rest of the boot;
  `StartResolves` shows that the failure is recorded.

## 5. Proofs

`CamsvDirectProofs` proves, for every set of tags, groups, sequence numbers and
errnos allowed by `CamsvAssumption`, that the direct owner is type correct, that
it holds its memory while the engine is live, that DONE is a quiesced frame, that
first errors stay, and that the owner implements `FrameLoan`. The inductive invariant `DirectInv` is
`DirectTypeOK /\ UntouchedInv /\ LentInv /\ QuiescedInv /\ CompletionInv`: nothing
is held before the first hardware write; from that write to a successful reset the
pair and the command queue are held and the buffers not returned; a transaction
marked quiesced has an idle engine, no clamp and a returned pair; and observed tags
were written in this frame. The memory property is not inductive alone: the code
frees the queue on its flags, not on the engine's state, and the other conjuncts
say what the flags mean for the engine. The refinement maps each action to a
step of the loan or to a stutter, under the same invariant.

`GpuebResetProofs` proves the seven properties of the GPUEB scope and its types
for every set of channels and callers and every bound (`GpuebAssumption`).
`ResetInv` is `ResetTypeOK /\ LockInv /\ LifeInv /\ FlagsInv /\ CallInv /\ ThreadInv
/\ RequestInv /\ NothingDiscarded /\ FreedInv`: a held lock belongs to the transaction
that shows in the thread or the sender, in an active scope without an error; pins
and windows follow from the scope's life and handle, and a freed scope has put its
clients; a call past the drain's mask
works on a closed scope, one past its wait beside an idle thread, and a destruction
is alone; captured messages stay pending until the ACK; requests and answers
alternate. `ResetIsQuiet` rests on the lock, flag and call parts together: the reset
is written by a call past its wait, and a closed scope admits no transaction.

Each proof has one step per action, and below it one per conjunct the action can
disturb. Only model-checked: liveness (the prover has no fairness or ENABLED
reasoning), the composed camera owners, the GPU parent, the receiver PM (whose
only parameter is the set of foreign parents) and the modem.
