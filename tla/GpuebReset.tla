-------------------------------- MODULE GpuebReset --------------------------------
(***************************************************************************)
(* The reset, interrupt and mailbox scope of the GPUEB (gpu/               *)
(* reset-owner-draft/mt6878-gpueb-reset.c): clients bind the mailbox       *)
(* channels, a dispatch handle seals them, a threaded interrupt copies and *)
(* acknowledges what the firmware posts and calls the clients outside the  *)
(* locks, clients send, and lifecycle calls drain the interrupt before     *)
(* they reset, release or destroy.                                         *)
(*                                                                         *)
(* lock is scope->lock; a step that takes and drops it is one action, a    *)
(* mailbox transaction that the firmware can overlap is two, and both      *)
(* mutexes (scope->lock and the SRAM's) are held between them.             *)
(*                                                                         *)
(* The callers respect what the header asks of them: acquire, release and  *)
(* a destruction past its owner check are serialised, and nothing else     *)
(* runs beside the latter.                                                 *)
(***************************************************************************)
EXTENDS GpuebSram, Functions

CONSTANTS
    Channels,   \* mailbox channels
    Replies,    \* the channels with recv_opt: the firmware answers each send
    Callers,    \* tasks that make lifecycle calls
    MaxPosts,   \* bound on the messages the firmware posts
    MaxSends    \* bound on the sends

ASSUME GpuebAssumption ==
    /\ Replies \subseteq Channels /\ "parent" \notin Channels /\ Channels # {}
    /\ "none" \notin Channels
    /\ MaxPosts \in Nat /\ MaxSends \in Nat

VARIABLES
    life,        \* of the scope: "none", "prepared", "freed"
    lock,        \* who holds scope->lock between two steps: "free", "rx", "tx"
    flags,       \* "quiesced", "active", "used" (dispatch_*), "reset"
                 \* (reset_written), "contained" (irq_contained)
    owner,       \* dispatch_owner is set
    firstError,  \* scope->first_error
    registered,  \* channels with a client, whose device and module are pinned
    inflight,    \* tx_inflight
    pins,        \* references the scope and the handle hold
    thread,      \* the interrupt thread: where, what it captured
    sending,     \* channel whose slot is being written
    calls,       \* lifecycle calls in progress
    line,        \* the interrupt line is enabled
    recv,        \* mbox0_recv
    send,        \* mbox0_send
    ready,       \* GPR2 holds BOOTREADY
    lost         \* drivers that went away: channels and "parent"

VARIABLES
    posted,      \* messages the firmware posted on each channel
    delivered,   \* callbacks made for each channel
    submitted,   \* doorbells rung on each channel
    exposed      \* the line was enabled for an active dispatch

Total(count) == FoldFunction(+, 0, count)

hwVars == <<line, recv, send, ready, lost>>
seenVars == <<posted, delivered, submitted, exposed>>
scopeVars == <<life, lock, flags, owner, firstError, registered, inflight, pins>>
resetVars == <<sramVars, scopeVars, thread, sending, calls, hwVars, seenVars>>

ScopePins == {"module", "pm", "parent", "banks", "irq"}
HandlePins == {"handle_module", "handle_pm", "handle_parent"}
Flags == {"quiesced", "active", "used", "reset", "contained"}
Errors == {"ESHUTDOWN", "ENODEV", "ENOENT", "EHOSTDOWN", "EPROTO", "EIO"}
Ops == {"release", "hold", "drain", "destroy"}
Places == {"drain", "sync", "drained", "finish", "free"}
NoCall == [op |-> "none", at |-> "idle", ret |-> OK]
Idle == [at |-> "idle", pending |-> {}, replies |-> {}]

(***************************************************************************)
(* The variables have their types.                                         *)
(***************************************************************************)
ResetTypeOK ==
    /\ SramTypeOK
    /\ life \in {"none", "prepared", "freed"}
    /\ lock \in {"free", "rx", "tx"}
    /\ flags \subseteq Flags
    /\ owner \in BOOLEAN
    /\ firstError \in Errors \cup {OK}
    /\ registered \subseteq Channels /\ inflight \subseteq Replies
    /\ pins \subseteq ScopePins \cup HandlePins
    /\ thread \in [at : {"idle", "woken", "snapshot", "callbacks"},
                   pending : SUBSET Channels, replies : SUBSET Replies]
    /\ sending \in Channels \cup {"none"}
    /\ calls \in [Callers -> [op : Ops \cup {"none"}, at : Places \cup {"idle"},
                              ret : Errors \cup {OK}]]
    /\ line \in BOOLEAN /\ ready \in BOOLEAN
    /\ recv \subseteq Channels /\ send \subseteq Channels
    /\ lost \subseteq Channels \cup {"parent"}
    /\ posted \in [Channels -> Nat] /\ delivered \in [Channels -> Nat]
    /\ submitted \in [Channels -> Nat]
    /\ exposed \in BOOLEAN

ScopeInit ==
    /\ clients = {}
    /\ life = "none" /\ lock = "free" /\ flags = {} /\ owner = FALSE
    /\ firstError = OK /\ registered = {} /\ inflight = {} /\ pins = {}
    /\ thread = Idle /\ sending = "none"
    /\ calls = [c \in Callers |-> NoCall]
    /\ line = FALSE /\ recv = {} /\ send = {} /\ ready = TRUE /\ lost = {}
    /\ posted = [c \in Channels |-> 0] /\ delivered = posted /\ submitted = posted
    /\ exposed = FALSE

(***************************************************************************)
(* The scope is prepared on an SRAM that its parent owns.                  *)
(***************************************************************************)
ResetInit == phase = "owned" /\ ScopeInit

-----------------------------------------------------------------------------
(***************************************************************************)
(* dispatch_identity: the parent and every bound client have their driver. *)
(***************************************************************************)
DispatchIdentity == IF lost \cap (registered \cup {"parent"}) = {} THEN OK ELSE "ENODEV"

Latched(error) == IF firstError = OK THEN error ELSE firstError

(***************************************************************************)
(* mask_irq_once, with the other flags becoming f.                         *)
(***************************************************************************)
MaskIrqOnce(f) ==
    /\ flags' = f \cup {"contained"}
    /\ line' = FALSE

\* Mutation: the SRAM of a faulty firmware stays in use.
ContainLineOnly(f, error) ==
    /\ firstError' = Latched(error)
    /\ MaskIrqOnce(f)
    /\ lock' = "free"
    /\ UNCHANGED phase

(***************************************************************************)
(* contain_irq: latch, mask and quarantine, then drop scope->lock.         *)
(***************************************************************************)
ContainIrq(f, error) ==
    /\ firstError' = Latched(error)
    /\ MaskIrqOnce(f)
    /\ phase' = Quarantined
    /\ lock' = "free"

(***************************************************************************)
(* No call that frees the scope is past its owner check.                   *)
(***************************************************************************)
Usable ==
    /\ life = "prepared" /\ lock = "free"
    /\ \A c \in Callers : calls[c].op # "destroy"

-----------------------------------------------------------------------------
(***************************************************************************)
(* mt6878_gpueb_reset_prepare: every resource is taken, or what was taken  *)
(* is given back before anything was written.                              *)
(***************************************************************************)
Prepare ==
    /\ life = "none" /\ CheckParent = OK
    /\ \A w \in Windows : ClaimAllowed(w)
    /\ clients' = Windows
    /\ life' = "prepared" /\ pins' = ScopePins
    /\ UNCHANGED <<phase, lock, flags, owner, firstError, registered, inflight, thread, sending,
                   calls, hwVars, seenVars>>

(***************************************************************************)
(* mt6878_gpueb_reset_bind_channel, of a client with its driver.           *)
(***************************************************************************)
BindChannel(c) ==
    /\ Usable /\ firstError = OK
    /\ flags \cap {"quiesced", "reset"} = {} /\ ~owner
    /\ c \notin registered \cup lost
    /\ registered' = registered \cup {c}
    /\ UNCHANGED <<sramVars, life, lock, flags, owner, firstError, inflight, pins, thread, sending,
                   calls, hwVars, seenVars>>

\* Mutation: the handle does not wait for every consumer.
AcquireAnyConsumers ==
    /\ firstError = OK
    /\ flags \cap {"quiesced", "reset", "active", "contained"} = {} /\ ~owner
    /\ DispatchIdentity = OK /\ CheckParent = OK
    /\ ~line

(***************************************************************************)
(* The tests of mt6878_gpueb_reset_dispatch_acquire.                       *)
(***************************************************************************)
AcquireAllowed ==
    /\ firstError = OK
    /\ flags \cap {"quiesced", "reset", "active", "contained"} = {} /\ ~owner
    /\ registered = Channels
    /\ DispatchIdentity = OK /\ CheckParent = OK
    /\ ~line

DispatchAcquire ==
    /\ Usable /\ AcquireAllowed
    /\ \A c \in Callers : calls[c].op # "release"
    /\ owner' = TRUE
    /\ pins' = pins \cup HandlePins
    /\ UNCHANGED <<sramVars, life, lock, flags, firstError, registered, inflight, thread, sending,
                   calls, hwVars, seenVars>>

-----------------------------------------------------------------------------
(***************************************************************************)
(* The line wakes the thread, with or without a message: level-triggered,  *)
(* and IRQF_ONESHOT keeps it masked until the thread is done.              *)
(***************************************************************************)
IrqWakes ==
    /\ line /\ thread.at = "idle"
    /\ thread' = [thread EXCEPT !.at = "woken"]
    /\ UNCHANGED <<sramVars, scopeVars, sending, calls, hwVars, seenVars>>

(***************************************************************************)
(* What mailbox_irq_thread and snapshot_mailbox find before the copy, once *)
(* the scope is known to be active.                                        *)
(***************************************************************************)
RxFinds ==
    IF "reset" \in flags THEN "ESHUTDOWN"
    ELSE IF DispatchIdentity # OK THEN DispatchIdentity
    ELSE IF WindowRange # OK THEN WindowRange
    ELSE IF ~ready THEN "EHOSTDOWN"
    ELSE IF recv \subseteq registered /\ recv \cap Replies \subseteq inflight THEN OK
    ELSE "EPROTO"

RxOpen == "quiesced" \notin flags /\ "active" \in flags /\ owner

(***************************************************************************)
(* A thread that was queued before the mask, or woken by a line nobody     *)
(* owns, reads and acknowledges nothing.                                   *)
(***************************************************************************)
ThreadDeclines ==
    /\ thread.at = "woken" /\ lock = "free"
    /\ firstError = OK /\ ~RxOpen
    /\ thread' = Idle
    /\ IF "quiesced" \in flags THEN UNCHANGED <<flags, line>> ELSE MaskIrqOnce(flags)
    /\ UNCHANGED <<sramVars, life, lock, owner, firstError, registered, inflight, pins, sending,
                   calls, recv, send, ready, lost, seenVars>>

(***************************************************************************)
(* Use is recorded before the transaction, so a fault in it keeps it.      *)
(***************************************************************************)
ThreadFaults ==
    /\ thread.at = "woken" /\ lock = "free"
    /\ firstError # OK \/ (RxOpen /\ RxFinds # OK)
    /\ ContainIrq(IF firstError = OK /\ "reset" \notin flags /\ DispatchIdentity = OK
                     THEN flags \cup {"used"} ELSE flags,
                  RxFinds)
    /\ thread' = Idle
    /\ UNCHANGED <<clients, life, owner, registered, inflight, pins, sending, calls,
                   recv, send, ready, lost, seenVars>>

(***************************************************************************)
(* snapshot_mailbox copies every pending payload.                          *)
(***************************************************************************)
ThreadSnapshots ==
    /\ thread.at = "woken" /\ lock = "free"
    /\ firstError = OK /\ RxOpen /\ RxFinds = OK
    /\ flags' = flags \cup {"used"}
    /\ \/ /\ recv = {}
          /\ thread' = Idle
          /\ UNCHANGED lock
       \/ /\ recv # {}
          /\ thread' = [at |-> "snapshot", pending |-> recv, replies |-> recv \cap Replies]
          /\ lock' = "rx"
    /\ UNCHANGED <<sramVars, life, owner, firstError, registered, inflight, pins, sending, calls,
                   hwVars, seenVars>>

\* Mutation: everything pending by now is cleared, not what was copied.
AckEverything == {}

(***************************************************************************)
(* The write of the captured mask to mbox0_clr.                            *)
(***************************************************************************)
AckCaptured == recv \ thread.pending

(***************************************************************************)
(* The end of snapshot_mailbox: BOOTREADY again, then the ACK.             *)
(***************************************************************************)
ThreadAcks ==
    /\ thread.at = "snapshot"
    /\ \/ /\ ready
          /\ recv' = AckCaptured
          /\ lock' = "free"
          /\ thread' = [thread EXCEPT !.at = "callbacks"]
          /\ UNCHANGED <<phase, flags, firstError, line>>
       \/ /\ ~ready
          /\ ContainIrq(flags, "EHOSTDOWN")
          /\ thread' = Idle
          /\ UNCHANGED recv
    /\ UNCHANGED <<clients, life, owner, registered, inflight, pins, sending, calls,
                   send, ready, lost, seenVars>>

(***************************************************************************)
(* The callbacks run outside both locks, on the copies.                    *)
(***************************************************************************)
ThreadDelivers(c) ==
    /\ thread.at = "callbacks" /\ c \in thread.pending
    /\ thread' = [thread EXCEPT !.pending = @ \ {c}]
    /\ delivered' = [delivered EXCEPT ![c] = @ + 1]
    /\ UNCHANGED <<sramVars, scopeVars, sending, calls, hwVars, posted, submitted, exposed>>

ThreadRetires ==
    /\ thread.at = "callbacks" /\ thread.pending = {} /\ lock = "free"
    /\ inflight' = inflight \ thread.replies
    /\ thread' = Idle
    /\ UNCHANGED <<sramVars, life, lock, flags, owner, firstError, registered, pins, sending, calls,
                   hwVars, seenVars>>

-----------------------------------------------------------------------------
\* Mutation: a send does not look at the answers in flight.
TxFindsIdle(c) ==
    IF lost \cap {"parent", c} # {} THEN "ENODEV"
    ELSE IF ~owner \/ "active" \notin flags \/ ~line \/ "contained" \in flags THEN "busy"
    ELSE IF DispatchIdentity # OK THEN DispatchIdentity
    ELSE IF WindowRange # OK THEN WindowRange
    ELSE IF ~ready THEN "EHOSTDOWN"
    ELSE IF c \in send THEN "busy"
    ELSE IF c \in Replies \cap recv THEN "EPROTO" ELSE OK

(***************************************************************************)
(* What mt6878_gpueb_reset_trysend and tx_before find for channel c:       *)
(* "busy" for a refusal that changes nothing.                              *)
(***************************************************************************)
TxFinds(c) ==
    IF lost \cap {"parent", c} # {} THEN "ENODEV"
    ELSE IF ~owner \/ "active" \notin flags \/ ~line \/ "contained" \in flags THEN "busy"
    ELSE IF DispatchIdentity # OK THEN DispatchIdentity
    ELSE IF c \in inflight THEN "busy"
    ELSE IF WindowRange # OK THEN WindowRange
    ELSE IF ~ready THEN "EHOSTDOWN"
    ELSE IF c \in send THEN "busy"
    ELSE IF c \in Replies \cap recv THEN "EPROTO" ELSE OK

TrySendOpen(c) ==
    /\ Usable /\ firstError = OK
    /\ flags \cap {"quiesced", "reset"} = {}
    /\ c \in registered

(***************************************************************************)
(* tx_before accepts: use is recorded before the first write of the slot.  *)
(***************************************************************************)
TrySend(c) ==
    /\ TrySendOpen(c) /\ TxFinds(c) = OK
    /\ Total(submitted) < MaxSends
    /\ flags' = flags \cup {"used"}
    /\ lock' = "tx" /\ sending' = c
    /\ UNCHANGED <<sramVars, life, owner, firstError, registered, inflight, pins, thread, calls,
                   hwVars, seenVars>>

\* Mutation: a busy channel is a fault of the firmware.
BusyIsFault(found) == found # OK

(***************************************************************************)
(* trysend contains every error but -EBUSY and the refusals before it.     *)
(***************************************************************************)
TxIsFault(found) == found \notin {OK, "busy"}

TrySendFaults(c) ==
    /\ TrySendOpen(c) /\ TxIsFault(TxFinds(c))
    /\ ContainIrq(flags, TxFinds(c))
    /\ UNCHANGED <<clients, life, owner, registered, inflight, pins, thread, sending, calls,
                   recv, send, ready, lost, seenVars>>

(***************************************************************************)
(* A send on a channel with recv_opt is in flight until it is answered.    *)
(***************************************************************************)
Awaited(c) == {c} \cap Replies

(***************************************************************************)
(* tx_commit: BOOTREADY again, then the doorbell.                          *)
(***************************************************************************)
TxCommit ==
    /\ lock = "tx"
    /\ sending' = "none"
    /\ \/ /\ ready
          /\ inflight' = inflight \cup Awaited(sending)
          /\ send' = send \cup {sending}
          /\ submitted' = [submitted EXCEPT ![sending] = @ + 1]
          /\ lock' = "free"
          /\ UNCHANGED <<phase, flags, firstError, line>>
       \/ /\ ~ready
          /\ ContainIrq(flags, "EHOSTDOWN")
          /\ UNCHANGED <<inflight, send, submitted>>
    /\ UNCHANGED <<clients, life, owner, registered, pins, thread, calls, recv, ready, lost,
                   posted, delivered, exposed>>

-----------------------------------------------------------------------------
(***************************************************************************)
(* The lifecycle calls.  A release is serialised with acquire and destroy; *)
(* a destruction that finds a handle returns and changes nothing, one that *)
(* does not is alone.                                                      *)
(***************************************************************************)
CallAllowed(c, op) ==
    /\ Usable /\ calls[c] = NoCall
    /\ op = "release" => owner /\ \A d \in Callers : calls[d].op # "release"
    /\ op = "destroy" => ~owner /\ \A d \in Callers : calls[d] = NoCall

CallBegins(c, op) ==
    /\ CallAllowed(c, op)
    /\ calls' = [calls EXCEPT ![c] = [op |-> op, at |-> "drain", ret |-> OK]]
    /\ UNCHANGED <<sramVars, scopeVars, thread, sending, hwVars, seenVars>>

At(c, place) == calls' = [calls EXCEPT ![c].at = place]
Returns(c) == calls' = [calls EXCEPT ![c] = NoCall]

\* Mutation: an active epoch is closed without a record of it.
DrainForgets == (flags \ {"active"}) \cup {"quiesced"}

(***************************************************************************)
(* drain_irq closes the dispatch and records an active epoch as used.      *)
(***************************************************************************)
DrainCloses ==
    (flags \ {"active"}) \cup {"quiesced"} \cup (IF "active" \in flags THEN {"used"} ELSE {})

(***************************************************************************)
(* mt6878_gpueb_reset_drain_irq up to its wait, made without scope->lock.  *)
(***************************************************************************)
DrainMasks(c) ==
    /\ calls[c].at = "drain" /\ lock = "free"
    /\ MaskIrqOnce(DrainCloses)
    /\ At(c, "sync")
    /\ UNCHANGED <<sramVars, life, lock, owner, firstError, registered, inflight, pins, thread,
                   sending, recv, send, ready, lost, seenVars>>

\* Mutation: the mask is taken for the end of the thread.
SynchronizeMasked == ~line

(***************************************************************************)
(* synchronize_irq waits for the whole thread, callbacks included.         *)
(***************************************************************************)
SynchronizeIrq == thread.at = "idle"

DrainSync(c) ==
    /\ calls[c].at = "sync" /\ SynchronizeIrq
    /\ At(c, "drained")
    /\ UNCHANGED <<sramVars, scopeVars, thread, sending, hwVars, seenVars>>

(***************************************************************************)
(* The rest of drain_irq.  A release goes on whatever was found, a hold or *)
(* a destruction only without an error.                                    *)
(***************************************************************************)
DrainEnds(c) ==
    /\ calls[c].at = "drained" /\ lock = "free"
    /\ phase' = IF firstError = OK THEN phase ELSE Quarantined
    /\ IF calls[c].op = "release" \/ (calls[c].op # "drain" /\ firstError = OK)
         THEN calls' = [calls EXCEPT ![c].at = "finish", ![c].ret = firstError]
         ELSE Returns(c)
    /\ UNCHANGED <<clients, scopeVars, thread, sending, hwVars, seenVars>>

(***************************************************************************)
(* The errno mt6878_gpueb_reset_dispatch_release ends its checks with.     *)
(***************************************************************************)
ReleaseFinds(ret) ==
    IF ret # OK THEN ret
    ELSE IF DispatchIdentity # OK THEN DispatchIdentity
    ELSE IF flags \cap {"used", "reset"} = {} THEN CheckParent ELSE OK

(***************************************************************************)
(* Firmware may still act: Linux cannot give the references back.          *)
(***************************************************************************)
MustKeep == flags \cap {"used", "reset"} # {}

(***************************************************************************)
(* The end of dispatch_release: a used, reset or faulty scope keeps the    *)
(* handle and quarantines the SRAM.                                        *)
(***************************************************************************)
ReleaseEnds(c) ==
    /\ calls[c].op = "release" /\ calls[c].at = "finish" /\ lock = "free"
    /\ Returns(c)
    /\ LET ret == ReleaseFinds(calls[c].ret) IN
         /\ firstError' = IF ret = OK THEN firstError ELSE Latched(ret)
         /\ \/ /\ ret # OK \/ MustKeep
               /\ phase' = Quarantined
               /\ UNCHANGED <<owner, pins>>
            \/ /\ ret = OK /\ ~MustKeep
               /\ owner' = FALSE
               /\ pins' = pins \ HandlePins
               /\ UNCHANGED phase
    /\ UNCHANGED <<clients, life, lock, flags, registered, inflight, thread, sending, hwVars,
                   seenVars>>

(***************************************************************************)
(* The end of mt6878_gpueb_reset_hold.  The write is recorded before it is *)
(* made; a readback that is not zero is the scope's error.                 *)
(***************************************************************************)
HoldEnds(c) ==
    /\ calls[c].op = "hold" /\ calls[c].at = "finish" /\ lock = "free"
    /\ Returns(c)
    /\ \/ /\ firstError # OK
          /\ phase' = Quarantined
          /\ UNCHANGED <<flags, firstError>>
       \/ /\ firstError = OK /\ "reset" \in flags  \* EALREADY
          /\ UNCHANGED <<phase, flags, firstError>>
       \/ /\ firstError = OK /\ "reset" \notin flags
          /\ flags' = flags \cup {"reset"}
          /\ firstError' \in {OK, "EIO"}
          /\ phase' = IF firstError' = OK THEN phase ELSE Quarantined
    /\ UNCHANGED <<clients, life, lock, owner, registered, inflight, pins, thread, sending, hwVars,
                   seenVars>>

\* Mutation: a scope that wrote the reset is freed like any other.
DestroyKeepsFaulty == firstError # OK

(***************************************************************************)
(* mt6878_gpueb_reset_destroy keeps a scope that faulted or was reset.     *)
(***************************************************************************)
DestroyRefuses == firstError # OK \/ "reset" \in flags

DestroyEnds(c) ==
    /\ calls[c].op = "destroy" /\ calls[c].at = "finish" /\ lock = "free"
    /\ \/ /\ DestroyRefuses
          /\ phase' = IF firstError = OK THEN phase ELSE Quarantined
          /\ Returns(c)
       \/ /\ ~DestroyRefuses
          /\ At(c, "free")
          /\ UNCHANGED phase
    /\ UNCHANGED <<clients, scopeVars, thread, sending, hwVars, seenVars>>

(***************************************************************************)
(* free_irq waits for the thread; then the device and the module of every  *)
(* client are put, and every reference of the scope is dropped.            *)
(***************************************************************************)
DestroyFrees(c) ==
    /\ calls[c].at = "free" /\ thread.at = "idle"
    /\ life' = "freed"
    /\ registered' = {}
    /\ pins' = pins \ ScopePins
    /\ clients' = clients \ Windows
    /\ Returns(c)
    /\ UNCHANGED <<phase, lock, flags, owner, firstError, inflight, thread, sending,
                   hwVars, seenVars>>

-----------------------------------------------------------------------------
(***************************************************************************)
(* External: the cold-start owner that will activate a sealed dispatch     *)
(* (the code has no setter yet; its fixture sets the flag on a handle).    *)
(***************************************************************************)
Activate ==
    /\ Usable /\ owner /\ firstError = OK
    /\ flags \cap {"quiesced", "reset", "contained", "active"} = {}
    /\ flags' = flags \cup {"active"}
    /\ line' = TRUE /\ exposed' = TRUE
    /\ UNCHANGED <<sramVars, life, lock, owner, firstError, registered, inflight, pins, thread,
                   sending, calls, recv, send, ready, lost, posted, delivered, submitted>>

(***************************************************************************)
(* External: somebody enables the line without owning it, once: its enable *)
(* is balanced by the mask of mask_irq_once.                               *)
(***************************************************************************)
LineForced ==
    /\ life = "prepared" /\ "contained" \notin flags /\ ~line
    /\ line' = TRUE
    /\ UNCHANGED <<sramVars, scopeVars, thread, sending, calls, recv, send, ready, lost, seenVars>>

(***************************************************************************)
(* External: the firmware posts a message, asked for or not, takes one, or *)
(* goes down.                                                              *)
(***************************************************************************)
FirmwarePosts(c) ==
    /\ life = "prepared" /\ c \notin recv /\ Total(posted) < MaxPosts
    /\ recv' = recv \cup {c}
    /\ posted' = [posted EXCEPT ![c] = @ + 1]
    /\ UNCHANGED <<sramVars, scopeVars, thread, sending, calls, line, send, ready, lost,
                   delivered, submitted, exposed>>

FirmwareTakes(c) ==
    /\ c \in send
    /\ send' = send \ {c}
    /\ UNCHANGED <<sramVars, scopeVars, thread, sending, calls, line, recv, ready, lost, seenVars>>

FirmwareDies ==
    /\ life = "prepared" /\ ready
    /\ ready' = FALSE
    /\ UNCHANGED <<sramVars, scopeVars, thread, sending, calls, line, recv, send, lost, seenVars>>

(***************************************************************************)
(* External: a driver is unbound by force; the SRAM's parent destroys it,  *)
(* or quarantines it outside any transaction.                              *)
(***************************************************************************)
DriverLost(d) ==
    /\ life = "prepared" /\ lost = {}
    /\ lost' = {d}
    /\ UNCHANGED <<sramVars, scopeVars, thread, sending, calls, line, recv, send, ready, seenVars>>

OtherDestroysSram ==
    /\ SramDestroy
    /\ UNCHANGED <<scopeVars, thread, sending, calls, hwVars, seenVars>>

UnknownStart ==
    /\ life = "prepared" /\ phase = "owned" /\ lock = "free"
    /\ phase' = Quarantined
    /\ UNCHANGED <<clients, scopeVars, thread, sending, calls, hwVars, seenVars>>

-----------------------------------------------------------------------------
RxStep ==
    \/ ThreadDeclines \/ ThreadFaults \/ ThreadSnapshots \/ ThreadAcks \/ ThreadRetires
    \/ \E c \in Channels : ThreadDelivers(c)

CallStep(c) ==
    \/ DrainMasks(c) \/ DrainSync(c) \/ DrainEnds(c)
    \/ ReleaseEnds(c) \/ HoldEnds(c) \/ DestroyEnds(c) \/ DestroyFrees(c)

ResetNext ==
    \/ Prepare \/ DispatchAcquire \/ IrqWakes \/ RxStep \/ TxCommit
    \/ \E c \in Channels : BindChannel(c) \/ TrySend(c) \/ TrySendFaults(c)
    \/ \E c \in Callers : CallStep(c) \/ \E op \in Ops : CallBegins(c, op)
    \/ Activate \/ LineForced \/ FirmwareDies \/ UnknownStart \/ OtherDestroysSram
    \/ \E c \in Channels : FirmwarePosts(c) \/ FirmwareTakes(c)
    \/ \E d \in Channels \cup {"parent"} : DriverLost(d)

ResetSpec == ResetInit /\ [][ResetNext]_resetVars

-----------------------------------------------------------------------------
InTransaction == thread.at = "snapshot" \/ lock = "tx"

(***************************************************************************)
(* Every acknowledgement and every doorbell is made by a scope whose       *)
(* handle is held, with all channels bound, the parent powered, the SRAM   *)
(* owned and no error latched (mailbox_irq_thread, trysend).               *)
(***************************************************************************)
AccessIsOwned ==
    InTransaction =>
        /\ owner /\ registered = Channels
        /\ {"pm", "handle_pm"} \subseteq pins
        /\ phase = "owned" /\ clients = Windows
        /\ firstError = OK

(***************************************************************************)
(* Once hold wrote the reset, the interrupt thread and the senders leave   *)
(* the mailbox alone, and no callback is running: drain_irq comes first    *)
(* and nothing reopens.                                                    *)
(***************************************************************************)
ResetIsQuiet == "reset" \in flags => ~InTransaction /\ thread.at # "callbacks" /\ ~line

(***************************************************************************)
(* A scope that was exposed to the firmware is never taken apart: whatever *)
(* release, hold and destroy do, the handle, every reference and every     *)
(* client's pins stay (dispatch_release, destroy).                         *)
(***************************************************************************)
ExposedIsRetained ==
    exposed =>
        /\ life = "prepared" /\ owner /\ registered = Channels
        /\ pins = ScopePins \cup HandlePins

(***************************************************************************)
(* A latched error leaves the line masked and the SRAM quarantined, on     *)
(* every path that latches one.                                            *)
(***************************************************************************)
FaultIsContained ==
    firstError # OK => "contained" \in flags /\ ~line /\ phase = "quarantined"

(***************************************************************************)
(* Every message the firmware posted is pending in mbox0_recv, captured by *)
(* the thread, or was delivered, once: the ACK clears what was copied and  *)
(* nothing else.                                                           *)
(***************************************************************************)
NothingDiscarded ==
    \A c \in Channels :
        posted[c] = delivered[c] + (IF c \in recv THEN 1 ELSE 0)
                      + (IF thread.at = "callbacks" /\ c \in thread.pending THEN 1 ELSE 0)

(***************************************************************************)
(* On a channel with answers a request is sent only after the answer to    *)
(* the one before was consumed, and no answer is delivered that no request *)
(* asked for (tx_inflight).                                                *)
(***************************************************************************)
OneRequestAtATime ==
    \A c \in Replies : submitted[c] - delivered[c] \in {0, 1}

(***************************************************************************)
(* A freed scope is out of use: no thread, no call, no reference, no       *)
(* pinned client, no window, and it had neither faulted nor reset the      *)
(* firmware.                                                               *)
(***************************************************************************)
FreedIsQuiet ==
    life = "freed" =>
        /\ thread.at = "idle" /\ lock = "free" /\ ~line
        /\ \A c \in Callers : calls[c] = NoCall
        /\ pins = {} /\ registered = {} /\ clients = {} /\ ~owner
        /\ firstError = OK /\ "reset" \notin flags

=============================================================================
