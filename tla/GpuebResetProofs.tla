----------------------------- MODULE GpuebResetProofs -----------------------------
(***************************************************************************)
(* Proofs about the GPUEB scope, for every set of channels, of channels    *)
(* with answers and of callers, and every bound.  The inductive invariant  *)
(* ResetInv is the conjunction of the parts defined first.                 *)
(***************************************************************************)
EXTENDS GpuebReset, TLAPS

-----------------------------------------------------------------------------
(***************************************************************************)
(* scope->lock is held between two steps by the transaction that shows in  *)
(* thread or sending, of an owned and active scope without an error.       *)
(***************************************************************************)
LockInv ==
    /\ lock = "rx" <=> thread.at = "snapshot"
    /\ lock = "tx" <=> sending # "none"
    /\ lock # "free" => /\ "active" \in flags /\ firstError = OK
                        /\ phase = "owned" /\ life = "prepared"

(***************************************************************************)
(* What the scope holds is said by its life and its handle.                *)
(***************************************************************************)
LifeInv ==
    /\ pins = (IF life = "prepared" THEN ScopePins ELSE {}) \cup (IF owner THEN HandlePins ELSE {})
    /\ clients = IF life = "prepared" THEN Windows ELSE {}
    /\ owner => life = "prepared" /\ registered = Channels
    /\ life = "prepared" => phase \in {"owned", "quarantined"}
    /\ line => life = "prepared"
    /\ thread.at # "idle" => life = "prepared"
    /\ life = "none" => flags = {}

(***************************************************************************)
(* What the flags say of each other, of the line and of the handle.        *)
(***************************************************************************)
FlagsInv ==
    /\ "active" \in flags => owner /\ "quiesced" \notin flags
    /\ "contained" \in flags => ~line
    /\ "quiesced" \in flags => "contained" \in flags
    /\ "reset" \in flags => "quiesced" \in flags /\ thread.at = "idle"
    /\ firstError # OK => "contained" \in flags /\ phase = "quarantined" /\ life = "prepared"
    /\ exposed => owner /\ ("active" \in flags \/ "used" \in flags)

(***************************************************************************)
(* A call that passed the mask of drain_irq works on a closed scope, one   *)
(* that passed its wait beside no thread; a destruction is alone.          *)
(***************************************************************************)
CallInv ==
    \A c \in Callers :
        /\ calls[c].op = "none" <=> calls[c].at = "idle"
        /\ calls[c].op = "none" => calls[c] = NoCall
        /\ calls[c].op # "none" => life = "prepared"
        /\ calls[c].at \in {"sync", "drained", "finish", "free"} => "quiesced" \in flags
        /\ calls[c].at \in {"drained", "finish", "free"} => thread.at = "idle"
        /\ calls[c].op = "destroy" =>
              ~owner /\ \A d \in Callers \ {c} : calls[d].op = "none"
        /\ calls[c].at = "free" =>
              calls[c].op = "destroy" /\ firstError = OK /\ "reset" \notin flags

(***************************************************************************)
(* The captured messages are pending until the ACK, and their answers are  *)
(* in flight until the callbacks are over.                                 *)
(***************************************************************************)
ThreadInv ==
    /\ thread.at = "snapshot" => thread.pending \subseteq recv
    /\ thread.at \in {"snapshot", "callbacks"} =>
          /\ thread.pending \cap Replies \subseteq thread.replies
          /\ thread.replies \subseteq inflight
    /\ thread.at = "snapshot" => thread.replies \subseteq thread.pending
    /\ thread.at \in {"idle", "woken"} => thread.replies = {} /\ thread.pending = {}
    /\ sending \notin inflight

(***************************************************************************)
(* Channel c waits for an answer that was not delivered.                   *)
(***************************************************************************)
Unanswered(c) ==
    /\ c \in inflight
    /\ ~(thread.at = "callbacks" /\ c \in thread.replies /\ c \notin thread.pending)

(***************************************************************************)
(* Requests and answers alternate on a channel with answers.               *)
(***************************************************************************)
RequestInv ==
    \A c \in Replies : submitted[c] = delivered[c] + (IF Unanswered(c) THEN 1 ELSE 0)

(***************************************************************************)
(* A freed scope has no client and had neither faulted nor reset.          *)
(***************************************************************************)
FreedInv ==
    life = "freed" => registered = {} /\ firstError = OK /\ "reset" \notin flags

(***************************************************************************)
(* The inductive invariant.                                                *)
(***************************************************************************)
ResetInv ==
    /\ ResetTypeOK /\ LockInv /\ LifeInv /\ FlagsInv /\ CallInv
    /\ ThreadInv /\ RequestInv /\ NothingDiscarded /\ FreedInv

-----------------------------------------------------------------------------
USE GpuebAssumption DEF ResetInv, sramVars, scopeVars, hwVars, seenVars, OK, NoCall

(***************************************************************************)
(* A scope is prepared on an owned SRAM without clients.                   *)
(***************************************************************************)
LEMMA StepPrepare ==
    ASSUME ResetInv, Prepare
    PROVE  ResetInv'
<1> USE DEF Prepare, CheckParent
<1>1. ResetTypeOK'
  BY DEF ResetTypeOK, SramTypeOK, Flags, Ops, Places, Errors, Phases, Windows, ScopePins,
         HandlePins
<1>2. (ThreadInv /\ RequestInv /\ NothingDiscarded)'
  BY DEF ThreadInv, RequestInv, NothingDiscarded, Unanswered
<1>3. LockInv'
  BY DEF LockInv, ResetTypeOK, SramTypeOK, LifeInv, FlagsInv, CallInv, Windows
<1>4. LifeInv'
  BY DEF LifeInv, LockInv, FlagsInv, CallInv, ResetTypeOK, ScopePins, HandlePins, Windows
<1>5. FlagsInv'
  BY DEF FlagsInv, LockInv, LifeInv, CallInv, ResetTypeOK, Windows
<1>6. CallInv'
  BY DEF CallInv, LockInv, LifeInv, FlagsInv, ResetTypeOK, Ops, Places
<1>7. FreedInv'
  BY DEF FreedInv, LifeInv, FlagsInv, CallInv, LockInv
<1> QED
  BY <1>1, <1>2, <1>3, <1>4, <1>5, <1>6, <1>7

(***************************************************************************)
(* A channel is bound before there is a handle.                            *)
(***************************************************************************)
LEMMA StepBindChannel ==
    ASSUME ResetInv, NEW c \in Channels, BindChannel(c)
    PROVE  ResetInv'
<1> USE DEF BindChannel, Usable
<1>1. ResetTypeOK'
  BY DEF ResetTypeOK, SramTypeOK, Flags, Ops, Places, Errors, Phases, Windows, ScopePins,
         HandlePins
<1>2. (LockInv /\ FlagsInv /\ CallInv /\ ThreadInv /\ RequestInv /\ NothingDiscarded
       /\ FreedInv)'
  BY DEF LockInv, FlagsInv, CallInv, ThreadInv, RequestInv, NothingDiscarded,
         FreedInv, Unanswered
<1>3. LifeInv'
  BY DEF LifeInv, LockInv, FlagsInv, CallInv, ResetTypeOK, ScopePins, HandlePins, Windows
<1> QED
  BY <1>1, <1>2, <1>3

(***************************************************************************)
(* A handle is taken of a scope with all its channels.                     *)
(***************************************************************************)
LEMMA StepDispatchAcquire ==
    ASSUME ResetInv, DispatchAcquire
    PROVE  ResetInv'
<1> USE DEF DispatchAcquire, Usable, AcquireAllowed
<1>1. ResetTypeOK'
  BY DEF ResetTypeOK, SramTypeOK, Flags, Ops, Places, Errors, Phases, Windows, ScopePins,
         HandlePins
<1>2. (LockInv /\ ThreadInv /\ RequestInv /\ NothingDiscarded /\ FreedInv)'
  BY DEF LockInv, ThreadInv, RequestInv, NothingDiscarded, FreedInv, Unanswered
<1>3. LifeInv'
  BY DEF LifeInv, LockInv, FlagsInv, CallInv, ResetTypeOK, ScopePins, HandlePins, Windows
<1>4. FlagsInv'
  BY DEF FlagsInv, LockInv, LifeInv, CallInv, ResetTypeOK, Windows
<1>5. CallInv'
  BY DEF CallInv, LockInv, LifeInv, FlagsInv, ResetTypeOK, Ops, Places
<1> QED
  BY <1>1, <1>2, <1>3, <1>4, <1>5

(***************************************************************************)
(* The line is on, so the scope is neither contained nor drained.          *)
(***************************************************************************)
LEMMA StepIrqWakes ==
    ASSUME ResetInv, IrqWakes
    PROVE  ResetInv'
<1> USE DEF IrqWakes
<1>1. ResetTypeOK'
  BY DEF ResetTypeOK, SramTypeOK, Flags, Ops, Places, Errors, Phases, Windows, ScopePins,
         HandlePins
<1>2. FreedInv'
  BY DEF FreedInv
<1>3. LockInv'
  BY DEF LockInv, ResetTypeOK, SramTypeOK, LifeInv, FlagsInv, CallInv, Windows
<1>4. LifeInv'
  BY DEF LifeInv, LockInv, FlagsInv, CallInv, ResetTypeOK, ScopePins, HandlePins, Windows
<1>5. FlagsInv'
  BY DEF FlagsInv, LockInv, LifeInv, CallInv, ResetTypeOK, Windows
<1>6. CallInv'
  BY DEF CallInv, LockInv, LifeInv, FlagsInv, ResetTypeOK, Ops, Places
<1>7. ThreadInv'
  BY DEF ThreadInv, LockInv, ResetTypeOK
<1>8. RequestInv'
  BY DEF RequestInv, Unanswered, ThreadInv, ResetTypeOK, LockInv
<1>9. NothingDiscarded'
  BY DEF NothingDiscarded, ThreadInv, LockInv, ResetTypeOK
<1> QED
  BY <1>1, <1>2, <1>3, <1>4, <1>5, <1>6, <1>7, <1>8, <1>9

(***************************************************************************)
(* A thread that finds the scope closed goes, and masks a stray line.      *)
(***************************************************************************)
LEMMA StepThreadDeclines ==
    ASSUME ResetInv, ThreadDeclines
    PROVE  ResetInv'
<1> USE DEF ThreadDeclines, MaskIrqOnce, Idle
<1>1. ResetTypeOK'
  <2>1. flags' \subseteq Flags
    BY DEF ResetTypeOK, Flags
  <2>2. thread' \in [at : {"idle", "woken", "snapshot", "callbacks"},
                     pending : SUBSET Channels, replies : SUBSET Replies]
    BY DEF ResetTypeOK
  <2>3. line' \in BOOLEAN
    BY Zenon DEF ResetTypeOK
  <2>4. UNCHANGED <<phase, clients, life, lock, owner, firstError, registered,
                   inflight, pins, sending, calls, recv, send, ready, lost, posted,
                   delivered, submitted, exposed>>
    OBVIOUS
  <2> HIDE DEF ThreadDeclines, MaskIrqOnce, Idle
  <2> QED
    BY <2>1, <2>2, <2>3, <2>4 DEF ResetTypeOK, SramTypeOK
<1>2. LockInv'
  BY DEF LockInv, ResetTypeOK, SramTypeOK, LifeInv, FlagsInv, CallInv, Windows
<1>3. LifeInv'
  BY DEF LifeInv, LockInv, FlagsInv, CallInv, ResetTypeOK, ScopePins, HandlePins, Windows
<1>4. FlagsInv'
  BY DEF FlagsInv, LockInv, LifeInv, CallInv, ResetTypeOK, Windows
<1>5. CallInv'
  BY DEF CallInv, LockInv, LifeInv, FlagsInv, ResetTypeOK, Ops, Places
<1>6. ThreadInv'
  BY DEF ThreadInv, LockInv, ResetTypeOK
<1>7. RequestInv'
  BY DEF RequestInv, Unanswered, ThreadInv, ResetTypeOK, LockInv
<1>8. NothingDiscarded'
  BY DEF NothingDiscarded, ThreadInv, LockInv, ResetTypeOK
<1>9. FreedInv'
  BY DEF FreedInv, LifeInv, FlagsInv, CallInv, LockInv
<1> QED
  BY <1>1, <1>2, <1>3, <1>4, <1>5, <1>6, <1>7, <1>8, <1>9

(***************************************************************************)
(* A fault of the thread masks and quarantines.                            *)
(***************************************************************************)
LEMMA StepThreadFaults ==
    ASSUME ResetInv, ThreadFaults
    PROVE  ResetInv'
<1> USE DEF ThreadFaults, ContainIrq, MaskIrqOnce, Latched, Quarantined, Idle,
            RxFinds, RxOpen, WindowRange, DispatchIdentity
<1>1. ResetTypeOK'
  <2>1. phase' \in Phases
    BY DEF ResetTypeOK, SramTypeOK, Phases
  <2>2. lock' \in {"free", "rx", "tx"}
    BY DEF ResetTypeOK
  <2>3. flags' \subseteq Flags
    BY DEF ResetTypeOK, Flags
  <2>4. firstError' \in Errors \cup {OK}
    BY DEF ResetTypeOK, Errors
  <2>5. thread' \in [at : {"idle", "woken", "snapshot", "callbacks"},
                     pending : SUBSET Channels, replies : SUBSET Replies]
    BY DEF ResetTypeOK
  <2>6. line' \in BOOLEAN
    BY Zenon DEF ResetTypeOK
  <2>7. UNCHANGED <<clients, life, owner, registered, inflight, pins, sending, calls,
                   recv, send, ready, lost, posted, delivered, submitted, exposed>>
    OBVIOUS
  <2> HIDE DEF ThreadFaults, ContainIrq, MaskIrqOnce, Latched, Quarantined, Idle,
               RxFinds, RxOpen, WindowRange, DispatchIdentity
  <2> QED
    BY <2>1, <2>2, <2>3, <2>4, <2>5, <2>6, <2>7 DEF ResetTypeOK, SramTypeOK
<1>2. LockInv'
  BY DEF LockInv, ResetTypeOK, SramTypeOK, LifeInv, FlagsInv, CallInv, Windows
<1>3. LifeInv'
  BY DEF LifeInv, LockInv, FlagsInv, CallInv, ResetTypeOK, ScopePins, HandlePins, Windows
<1>4. FlagsInv'
  BY DEF FlagsInv, LockInv, LifeInv, CallInv, ResetTypeOK, Windows
<1>5. CallInv'
  BY DEF CallInv, LockInv, LifeInv, FlagsInv, ResetTypeOK, Ops, Places
<1>6. ThreadInv'
  BY DEF ThreadInv, LockInv, ResetTypeOK
<1>7. RequestInv'
  BY DEF RequestInv, Unanswered, ThreadInv, ResetTypeOK, LockInv
<1>8. NothingDiscarded'
  BY DEF NothingDiscarded, ThreadInv, LockInv, ResetTypeOK
<1>9. FreedInv'
  BY DEF FreedInv, LifeInv, FlagsInv, CallInv, LockInv
<1> QED
  BY <1>1, <1>2, <1>3, <1>4, <1>5, <1>6, <1>7, <1>8, <1>9

(***************************************************************************)
(* The captured answers are in flight: RxFinds refused the others.         *)
(***************************************************************************)
LEMMA StepThreadSnapshots ==
    ASSUME ResetInv, ThreadSnapshots
    PROVE  ResetInv'
<1> USE DEF ThreadSnapshots, RxOpen, RxFinds, Idle, WindowRange
<1>1. ResetTypeOK'
  BY DEF ResetTypeOK, SramTypeOK, Flags, Ops, Places, Errors, Phases, Windows, ScopePins,
         HandlePins
<1>2. LockInv'
  BY DEF LockInv, ResetTypeOK, SramTypeOK, LifeInv, FlagsInv, CallInv, Windows
<1>3. LifeInv'
  BY DEF LifeInv, LockInv, FlagsInv, CallInv, ResetTypeOK, ScopePins, HandlePins, Windows
<1>4. FlagsInv'
  BY DEF FlagsInv, LockInv, LifeInv, CallInv, ResetTypeOK, Windows
<1>5. CallInv'
  BY DEF CallInv, LockInv, LifeInv, FlagsInv, ResetTypeOK, Ops, Places
<1>6. ThreadInv'
  BY DEF ThreadInv, LockInv, ResetTypeOK
<1>7. RequestInv'
  BY DEF RequestInv, Unanswered, ThreadInv, ResetTypeOK, LockInv
<1>8. NothingDiscarded'
  BY DEF NothingDiscarded, ThreadInv, LockInv, ResetTypeOK
<1>9. FreedInv'
  BY DEF FreedInv, LifeInv, FlagsInv, CallInv, LockInv
<1> QED
  BY <1>1, <1>2, <1>3, <1>4, <1>5, <1>6, <1>7, <1>8, <1>9

(***************************************************************************)
(* The ACK moves messages from the mailbox to the thread.                  *)
(***************************************************************************)
LEMMA StepThreadAcks ==
    ASSUME ResetInv, ThreadAcks
    PROVE  ResetInv'
<1> USE DEF ThreadAcks, ContainIrq, MaskIrqOnce, Latched, Quarantined, Idle,
            AckCaptured
<1>1. ResetTypeOK'
  <2>1. phase' \in Phases
    BY DEF ResetTypeOK, SramTypeOK, Phases
  <2>2. lock' \in {"free", "rx", "tx"}
    BY DEF ResetTypeOK
  <2>3. flags' \subseteq Flags
    BY DEF ResetTypeOK, Flags
  <2>4. firstError' \in Errors \cup {OK}
    BY DEF ResetTypeOK, Errors
  <2>5. thread' \in [at : {"idle", "woken", "snapshot", "callbacks"},
                     pending : SUBSET Channels, replies : SUBSET Replies]
    BY DEF ResetTypeOK
  <2>6. line' \in BOOLEAN
    BY Zenon DEF ResetTypeOK
  <2>7. recv' \subseteq Channels
    BY DEF ResetTypeOK
  <2>8. UNCHANGED <<clients, life, owner, registered, inflight, pins, sending, calls,
                   send, ready, lost, posted, delivered, submitted, exposed>>
    OBVIOUS
  <2> HIDE DEF ThreadAcks, ContainIrq, MaskIrqOnce, Latched, Quarantined, Idle,
               AckCaptured
  <2> QED
    BY <2>1, <2>2, <2>3, <2>4, <2>5, <2>6, <2>7, <2>8 DEF ResetTypeOK, SramTypeOK
<1>2. LockInv'
  BY DEF LockInv, ResetTypeOK, SramTypeOK, LifeInv, FlagsInv, CallInv, Windows
<1>3. LifeInv'
  BY DEF LifeInv, LockInv, FlagsInv, CallInv, ResetTypeOK, ScopePins, HandlePins, Windows
<1>4. FlagsInv'
  BY DEF FlagsInv, LockInv, LifeInv, CallInv, ResetTypeOK, Windows
<1>5. CallInv'
  BY DEF CallInv, LockInv, LifeInv, FlagsInv, ResetTypeOK, Ops, Places
<1>6. ThreadInv'
  BY DEF ThreadInv, LockInv, ResetTypeOK
<1>7. RequestInv'
  BY DEF RequestInv, Unanswered, ThreadInv, ResetTypeOK, LockInv
<1>8. NothingDiscarded'
  BY DEF NothingDiscarded, ThreadInv, LockInv, ResetTypeOK
<1>9. FreedInv'
  BY DEF FreedInv, LifeInv, FlagsInv, CallInv, LockInv
<1> QED
  BY <1>1, <1>2, <1>3, <1>4, <1>5, <1>6, <1>7, <1>8, <1>9

(***************************************************************************)
(* A callback moves one message from the thread to its client.             *)
(***************************************************************************)
LEMMA StepThreadDelivers ==
    ASSUME ResetInv, NEW c \in Channels, ThreadDelivers(c)
    PROVE  ResetInv'
<1> USE DEF ThreadDelivers
<1>1. ResetTypeOK'
  BY DEF ResetTypeOK, SramTypeOK, Flags, Ops, Places, Errors, Phases, Windows, ScopePins,
         HandlePins
<1>2. FreedInv'
  BY DEF FreedInv
<1>3. LockInv'
  BY DEF LockInv, ResetTypeOK, SramTypeOK, LifeInv, FlagsInv, CallInv, Windows
<1>4. LifeInv'
  BY DEF LifeInv, LockInv, FlagsInv, CallInv, ResetTypeOK, ScopePins, HandlePins, Windows
<1>5. FlagsInv'
  BY DEF FlagsInv, LockInv, LifeInv, CallInv, ResetTypeOK, Windows
<1>6. CallInv'
  BY DEF CallInv, LockInv, LifeInv, FlagsInv, ResetTypeOK, Ops, Places
<1>7. ThreadInv'
  BY DEF ThreadInv, LockInv, ResetTypeOK
<1>8. RequestInv'
  BY DEF RequestInv, Unanswered, ThreadInv, ResetTypeOK, LockInv
<1>9. NothingDiscarded'
  BY DEF NothingDiscarded, ThreadInv, LockInv, ResetTypeOK
<1> QED
  BY <1>1, <1>2, <1>3, <1>4, <1>5, <1>6, <1>7, <1>8, <1>9

(***************************************************************************)
(* Every answer of the snapshot was delivered by now.                      *)
(***************************************************************************)
LEMMA StepThreadRetires ==
    ASSUME ResetInv, ThreadRetires
    PROVE  ResetInv'
<1> USE DEF ThreadRetires, Idle
<1>1. ResetTypeOK'
  BY DEF ResetTypeOK, SramTypeOK, Flags, Ops, Places, Errors, Phases, Windows, ScopePins,
         HandlePins
<1>2. FreedInv'
  BY DEF FreedInv
<1>3. LockInv'
  BY DEF LockInv, ResetTypeOK, SramTypeOK, LifeInv, FlagsInv, CallInv, Windows
<1>4. LifeInv'
  BY DEF LifeInv, LockInv, FlagsInv, CallInv, ResetTypeOK, ScopePins, HandlePins, Windows
<1>5. FlagsInv'
  BY DEF FlagsInv, LockInv, LifeInv, CallInv, ResetTypeOK, Windows
<1>6. CallInv'
  BY DEF CallInv, LockInv, LifeInv, FlagsInv, ResetTypeOK, Ops, Places
<1>7. ThreadInv'
  BY DEF ThreadInv, LockInv, ResetTypeOK
<1>8. RequestInv'
  BY DEF RequestInv, Unanswered, ThreadInv, ResetTypeOK, LockInv
<1>9. NothingDiscarded'
  BY DEF NothingDiscarded, ThreadInv, LockInv, ResetTypeOK
<1> QED
  BY <1>1, <1>2, <1>3, <1>4, <1>5, <1>6, <1>7, <1>8, <1>9

(***************************************************************************)
(* A send begins on a channel that waits for nothing.                      *)
(***************************************************************************)
LEMMA StepTrySend ==
    ASSUME ResetInv, NEW c \in Channels, TrySend(c)
    PROVE  ResetInv'
<1> USE DEF TrySend, TrySendOpen, TxFinds, WindowRange, Usable
<1>1. ResetTypeOK'
  BY DEF ResetTypeOK, SramTypeOK, Flags, Ops, Places, Errors, Phases, Windows, ScopePins,
         HandlePins
<1>2. (RequestInv /\ NothingDiscarded)'
  BY DEF RequestInv, NothingDiscarded, Unanswered
<1>3. LockInv'
  BY DEF LockInv, ResetTypeOK, SramTypeOK, LifeInv, FlagsInv, CallInv, Windows
<1>4. LifeInv'
  BY DEF LifeInv, LockInv, FlagsInv, CallInv, ResetTypeOK, ScopePins, HandlePins, Windows
<1>5. FlagsInv'
  BY DEF FlagsInv, LockInv, LifeInv, CallInv, ResetTypeOK, Windows
<1>6. CallInv'
  BY DEF CallInv, LockInv, LifeInv, FlagsInv, ResetTypeOK, Ops, Places
<1>7. ThreadInv'
  BY DEF ThreadInv, LockInv, ResetTypeOK
<1>8. FreedInv'
  BY DEF FreedInv, LifeInv, FlagsInv, CallInv, LockInv
<1> QED
  BY <1>1, <1>2, <1>3, <1>4, <1>5, <1>6, <1>7, <1>8

(***************************************************************************)
(* A fault of a sender masks and quarantines.                              *)
(***************************************************************************)
LEMMA StepTrySendFaults ==
    ASSUME ResetInv, NEW c \in Channels, TrySendFaults(c)
    PROVE  ResetInv'
<1> USE DEF TrySendFaults, TrySendOpen, TxFinds, TxIsFault, WindowRange, Usable,
            DispatchIdentity, ContainIrq, MaskIrqOnce, Latched, Quarantined
<1>1. ResetTypeOK'
  <2>1. phase' \in Phases
    BY DEF ResetTypeOK, SramTypeOK, Phases
  <2>2. lock' \in {"free", "rx", "tx"}
    BY DEF ResetTypeOK
  <2>3. flags' \subseteq Flags
    BY DEF ResetTypeOK, Flags
  <2>4. firstError' \in Errors \cup {OK}
    BY DEF ResetTypeOK, Errors
  <2>5. line' \in BOOLEAN
    BY Zenon DEF ResetTypeOK
  <2>6. UNCHANGED <<clients, life, owner, registered, inflight, pins, thread,
                   sending, calls, recv, send, ready, lost, posted, delivered,
                   submitted, exposed>>
    OBVIOUS
  <2> HIDE DEF TrySendFaults, TrySendOpen, TxFinds, TxIsFault, WindowRange, Usable,
               DispatchIdentity, ContainIrq, MaskIrqOnce, Latched, Quarantined
  <2> QED
    BY <2>1, <2>2, <2>3, <2>4, <2>5, <2>6 DEF ResetTypeOK, SramTypeOK
<1>2. (ThreadInv /\ RequestInv /\ NothingDiscarded)'
  BY DEF ThreadInv, RequestInv, NothingDiscarded, Unanswered
<1>3. LockInv'
  BY DEF LockInv, ResetTypeOK, SramTypeOK, LifeInv, FlagsInv, CallInv, Windows
<1>4. LifeInv'
  BY DEF LifeInv, LockInv, FlagsInv, CallInv, ResetTypeOK, ScopePins, HandlePins, Windows
<1>5. FlagsInv'
  BY DEF FlagsInv, LockInv, LifeInv, CallInv, ResetTypeOK, Windows
<1>6. CallInv'
  BY DEF CallInv, LockInv, LifeInv, FlagsInv, ResetTypeOK, Ops, Places
<1>7. FreedInv'
  BY DEF FreedInv, LifeInv, FlagsInv, CallInv, LockInv
<1> QED
  BY <1>1, <1>2, <1>3, <1>4, <1>5, <1>6, <1>7

(***************************************************************************)
(* The doorbell opens one request.                                         *)
(***************************************************************************)
LEMMA StepTxCommit ==
    ASSUME ResetInv, TxCommit
    PROVE  ResetInv'
<1> USE DEF TxCommit, Awaited, ContainIrq, MaskIrqOnce, Latched, Quarantined
<1>1. ResetTypeOK'
  <2>1. sending \in Channels
    BY DEF ResetTypeOK, LockInv
  <2>2. phase' \in Phases
    BY <2>1 DEF ResetTypeOK, SramTypeOK, Phases
  <2>3. lock' \in {"free", "rx", "tx"}
    BY <2>1 DEF ResetTypeOK
  <2>4. flags' \subseteq Flags
    BY <2>1, Zenon DEF ResetTypeOK, Flags
  <2>5. firstError' \in Errors \cup {OK}
    BY <2>1 DEF ResetTypeOK, Errors
  <2>6. inflight' \subseteq Replies
    BY <2>1 DEF ResetTypeOK
  <2>7. sending' \in Channels \cup {"none"}
    BY <2>1 DEF ResetTypeOK
  <2>8. line' \in BOOLEAN
    BY <2>1, Zenon DEF ResetTypeOK
  <2>9. send' \subseteq Channels
    BY <2>1 DEF ResetTypeOK
  <2>10. submitted' \in [Channels -> Nat]
    BY <2>1 DEF ResetTypeOK
  <2>11. UNCHANGED <<clients, life, owner, registered, pins, thread, calls, recv,
                   ready, lost, posted, delivered, exposed>>
    OBVIOUS
  <2> HIDE DEF TxCommit, Awaited, ContainIrq, MaskIrqOnce, Latched, Quarantined
  <2> QED
    BY <2>2, <2>3, <2>4, <2>5, <2>6, <2>7, <2>8, <2>9, <2>10, <2>11 DEF ResetTypeOK, SramTypeOK
<1>2. NothingDiscarded'
  BY DEF NothingDiscarded
<1>3. LockInv'
  BY DEF LockInv, ResetTypeOK, SramTypeOK, LifeInv, FlagsInv, CallInv, Windows
<1>4. LifeInv'
  BY DEF LifeInv, LockInv, FlagsInv, CallInv, ResetTypeOK, ScopePins, HandlePins, Windows
<1>5. FlagsInv'
  BY DEF FlagsInv, LockInv, LifeInv, CallInv, ResetTypeOK, Windows
<1>6. CallInv'
  BY DEF CallInv, LockInv, LifeInv, FlagsInv, ResetTypeOK, Ops, Places
<1>7. ThreadInv'
  BY DEF ThreadInv, LockInv, ResetTypeOK
<1>8. RequestInv'
  BY DEF RequestInv, Unanswered, ThreadInv, ResetTypeOK, LockInv
<1>9. FreedInv'
  BY DEF FreedInv, LifeInv, FlagsInv, CallInv, LockInv
<1> QED
  BY <1>1, <1>2, <1>3, <1>4, <1>5, <1>6, <1>7, <1>8, <1>9

(***************************************************************************)
(* A destruction begins alone and without a handle.                        *)
(***************************************************************************)
LEMMA StepCallBegins ==
    ASSUME ResetInv, NEW c \in Callers, NEW op \in Ops, CallBegins(c, op)
    PROVE  ResetInv'
<1> USE DEF CallBegins, CallAllowed, Usable
<1>1. ResetTypeOK'
  BY DEF ResetTypeOK, SramTypeOK, Flags, Ops, Places, Errors, Phases, Windows, ScopePins,
         HandlePins
<1>2. (LockInv /\ LifeInv /\ FlagsInv /\ ThreadInv /\ RequestInv /\ NothingDiscarded
       /\ FreedInv)'
  BY DEF LockInv, LifeInv, FlagsInv, ThreadInv, RequestInv, NothingDiscarded,
         FreedInv, Unanswered
<1>3. CallInv'
  BY DEF CallInv, LockInv, LifeInv, FlagsInv, ResetTypeOK, Ops, Places
<1> QED
  BY <1>1, <1>2, <1>3

(***************************************************************************)
(* The drain closes the scope and remembers an active epoch.               *)
(***************************************************************************)
LEMMA StepDrainMasks ==
    ASSUME ResetInv, NEW c \in Callers, DrainMasks(c)
    PROVE  ResetInv'
<1> USE DEF DrainMasks, MaskIrqOnce, DrainCloses, At
<1>1. ResetTypeOK'
  <2>1. flags' \subseteq Flags
    BY DEF ResetTypeOK, Flags
  <2>2. calls' \in [Callers -> [op : Ops \cup {"none"}, at : Places \cup {"idle"},
                                ret : Errors \cup {OK}]]
    BY DEF ResetTypeOK, Ops, Places, Errors
  <2>3. line' \in BOOLEAN
    BY Zenon DEF ResetTypeOK
  <2>4. UNCHANGED <<phase, clients, life, lock, owner, firstError, registered,
                   inflight, pins, thread, sending, recv, send, ready, lost, posted,
                   delivered, submitted, exposed>>
    OBVIOUS
  <2> HIDE DEF DrainMasks, MaskIrqOnce, DrainCloses, At
  <2> QED
    BY <2>1, <2>2, <2>3, <2>4 DEF ResetTypeOK, SramTypeOK
<1>2. (ThreadInv /\ RequestInv /\ NothingDiscarded)'
  BY DEF ThreadInv, RequestInv, NothingDiscarded, Unanswered
<1>3. LockInv'
  BY DEF LockInv, ResetTypeOK, SramTypeOK, LifeInv, FlagsInv, CallInv, Windows
<1>4. LifeInv'
  BY DEF LifeInv, LockInv, FlagsInv, CallInv, ResetTypeOK, ScopePins, HandlePins, Windows
<1>5. FlagsInv'
  BY DEF FlagsInv, LockInv, LifeInv, CallInv, ResetTypeOK, Windows
<1>6. CallInv'
  BY DEF CallInv, LockInv, LifeInv, FlagsInv, ResetTypeOK, Ops, Places
<1>7. FreedInv'
  BY DEF FreedInv, LifeInv, FlagsInv, CallInv, LockInv
<1> QED
  BY <1>1, <1>2, <1>3, <1>4, <1>5, <1>6, <1>7

(***************************************************************************)
(* The wait ends without a thread, and no line can wake one.               *)
(***************************************************************************)
LEMMA StepDrainSync ==
    ASSUME ResetInv, NEW c \in Callers, DrainSync(c)
    PROVE  ResetInv'
<1> USE DEF DrainSync, SynchronizeIrq, At
<1>1. ResetTypeOK'
  BY DEF ResetTypeOK, SramTypeOK, Flags, Ops, Places, Errors, Phases, Windows, ScopePins,
         HandlePins
<1>2. (LockInv /\ LifeInv /\ FlagsInv /\ ThreadInv /\ RequestInv /\ NothingDiscarded
       /\ FreedInv)'
  BY DEF LockInv, LifeInv, FlagsInv, ThreadInv, RequestInv, NothingDiscarded,
         FreedInv, Unanswered
<1>3. CallInv'
  BY DEF CallInv, LockInv, LifeInv, FlagsInv, ResetTypeOK, Ops, Places
<1> QED
  BY <1>1, <1>2, <1>3

(***************************************************************************)
(* A latched error was contained when it was latched.                      *)
(***************************************************************************)
LEMMA StepDrainEnds ==
    ASSUME ResetInv, NEW c \in Callers, DrainEnds(c)
    PROVE  ResetInv'
<1> USE DEF DrainEnds, Quarantined, Returns
<1>1. ResetTypeOK'
  BY DEF ResetTypeOK, SramTypeOK, Flags, Ops, Places, Errors, Phases, Windows, ScopePins,
         HandlePins
<1>2. (ThreadInv /\ RequestInv /\ NothingDiscarded /\ FreedInv)'
  BY DEF ThreadInv, RequestInv, NothingDiscarded, FreedInv, Unanswered
<1>3. LockInv'
  BY DEF LockInv, ResetTypeOK, SramTypeOK, LifeInv, FlagsInv, CallInv, Windows
<1>4. LifeInv'
  BY DEF LifeInv, LockInv, FlagsInv, CallInv, ResetTypeOK, ScopePins, HandlePins, Windows
<1>5. FlagsInv'
  BY DEF FlagsInv, LockInv, LifeInv, CallInv, ResetTypeOK, Windows
<1>6. CallInv'
  BY DEF CallInv, LockInv, LifeInv, FlagsInv, ResetTypeOK, Ops, Places
<1> QED
  BY <1>1, <1>2, <1>3, <1>4, <1>5, <1>6

(***************************************************************************)
(* An exposed scope was active or used, and after the drain it is used.    *)
(***************************************************************************)
LEMMA StepReleaseEnds ==
    ASSUME ResetInv, NEW c \in Callers, ReleaseEnds(c)
    PROVE  ResetInv'
<1> USE DEF ReleaseEnds, Returns, ReleaseFinds, DispatchIdentity, CheckParent,
            Latched, MustKeep, Quarantined
<1>1. ResetTypeOK'
  <2>1. ReleaseFinds(calls[c].ret) \in Errors \cup {OK}
    BY DEF ResetTypeOK, Errors
  <2>2. phase' \in Phases
    BY <2>1 DEF ResetTypeOK, SramTypeOK, Phases
  <2>3. owner' \in BOOLEAN
    BY <2>1, Zenon DEF ResetTypeOK
  <2>4. firstError' \in Errors \cup {OK}
    BY <2>1 DEF ResetTypeOK, Errors
  <2>5. pins' \subseteq ScopePins \cup HandlePins
    BY <2>1 DEF ResetTypeOK
  <2>6. calls' \in [Callers -> [op : Ops \cup {"none"}, at : Places \cup {"idle"},
                                ret : Errors \cup {OK}]]
    BY <2>1 DEF ResetTypeOK, Ops, Places, Errors
  <2>7. UNCHANGED <<clients, life, lock, flags, registered, inflight, thread,
                   sending, line, recv, send, ready, lost, posted, delivered,
                   submitted, exposed>>
    OBVIOUS
  <2> HIDE DEF ReleaseEnds, Returns, ReleaseFinds, DispatchIdentity, CheckParent,
               Latched, MustKeep, Quarantined
  <2> QED
    BY <2>2, <2>3, <2>4, <2>5, <2>6, <2>7 DEF ResetTypeOK, SramTypeOK
<1>2. (ThreadInv /\ RequestInv /\ NothingDiscarded)'
  BY DEF ThreadInv, RequestInv, NothingDiscarded, Unanswered
<1>3. LockInv'
  BY DEF LockInv, ResetTypeOK, SramTypeOK, LifeInv, FlagsInv, CallInv, Windows
<1>4. LifeInv'
  <2>1. life = "prepared" /\ phase' \in {"owned", "quarantined"}
    BY DEF LifeInv, CallInv, ResetTypeOK
  <2>2. CASE UNCHANGED <<owner, pins>>
    BY <2>1, <2>2 DEF LifeInv
  <2>3. CASE owner' = FALSE /\ pins' = pins \ HandlePins
    BY <2>1, <2>3 DEF LifeInv, ScopePins, HandlePins
  <2> QED
    BY <2>2, <2>3
<1>5. FlagsInv'
  BY DEF FlagsInv, LockInv, LifeInv, CallInv, ResetTypeOK, Windows
<1>6. CallInv'
  BY DEF CallInv, LockInv, LifeInv, FlagsInv, ResetTypeOK, Ops, Places
<1>7. FreedInv'
  BY DEF FreedInv, LifeInv, FlagsInv, CallInv, LockInv
<1> QED
  BY <1>1, <1>2, <1>3, <1>4, <1>5, <1>6, <1>7

(***************************************************************************)
(* The reset is written on a drained scope.                                *)
(***************************************************************************)
LEMMA StepHoldEnds ==
    ASSUME ResetInv, NEW c \in Callers, HoldEnds(c)
    PROVE  ResetInv'
<1> USE DEF HoldEnds, Returns, Quarantined
<1>1. ResetTypeOK'
  <2>1. phase' \in Phases
    BY DEF ResetTypeOK, SramTypeOK, Phases
  <2>2. flags' \subseteq Flags
    BY Zenon DEF ResetTypeOK, Flags
  <2>3. firstError' \in Errors \cup {OK}
    BY DEF ResetTypeOK, Errors
  <2>4. calls' \in [Callers -> [op : Ops \cup {"none"}, at : Places \cup {"idle"},
                                ret : Errors \cup {OK}]]
    BY DEF ResetTypeOK, Ops, Places, Errors
  <2>5. UNCHANGED <<clients, life, lock, owner, registered, inflight, pins, thread,
                   sending, line, recv, send, ready, lost, posted, delivered,
                   submitted, exposed>>
    OBVIOUS
  <2> HIDE DEF HoldEnds, Returns, Quarantined
  <2> QED
    BY <2>1, <2>2, <2>3, <2>4, <2>5 DEF ResetTypeOK, SramTypeOK
<1>2. (ThreadInv /\ RequestInv /\ NothingDiscarded)'
  BY DEF ThreadInv, RequestInv, NothingDiscarded, Unanswered
<1>3. LockInv'
  BY DEF LockInv, ResetTypeOK, SramTypeOK, LifeInv, FlagsInv, CallInv, Windows
<1>4. LifeInv'
  BY DEF LifeInv, LockInv, FlagsInv, CallInv, ResetTypeOK, ScopePins, HandlePins, Windows
<1>5. FlagsInv'
  BY DEF FlagsInv, LockInv, LifeInv, CallInv, ResetTypeOK, Windows
<1>6. CallInv'
  BY DEF CallInv, LockInv, LifeInv, FlagsInv, ResetTypeOK, Ops, Places
<1>7. FreedInv'
  BY DEF FreedInv, LifeInv, FlagsInv, CallInv, LockInv
<1> QED
  BY <1>1, <1>2, <1>3, <1>4, <1>5, <1>6, <1>7

(***************************************************************************)
(* A faulty or reset scope is kept.                                        *)
(***************************************************************************)
LEMMA StepDestroyEnds ==
    ASSUME ResetInv, NEW c \in Callers, DestroyEnds(c)
    PROVE  ResetInv'
<1> USE DEF DestroyEnds, DestroyRefuses, Returns, At, Quarantined
<1>1. ResetTypeOK'
  BY DEF ResetTypeOK, SramTypeOK, Flags, Ops, Places, Errors, Phases, Windows, ScopePins,
         HandlePins
<1>2. (ThreadInv /\ RequestInv /\ NothingDiscarded /\ FreedInv)'
  BY DEF ThreadInv, RequestInv, NothingDiscarded, FreedInv, Unanswered
<1>3. LockInv'
  BY DEF LockInv, ResetTypeOK, SramTypeOK, LifeInv, FlagsInv, CallInv, Windows
<1>4. LifeInv'
  BY DEF LifeInv, LockInv, FlagsInv, CallInv, ResetTypeOK, ScopePins, HandlePins, Windows
<1>5. FlagsInv'
  BY DEF FlagsInv, LockInv, LifeInv, CallInv, ResetTypeOK, Windows
<1>6. CallInv'
  BY DEF CallInv, LockInv, LifeInv, FlagsInv, ResetTypeOK, Ops, Places
<1> QED
  BY <1>1, <1>2, <1>3, <1>4, <1>5, <1>6

(***************************************************************************)
(* The freed scope is drained, alone and without a handle.                 *)
(***************************************************************************)
LEMMA StepDestroyFrees ==
    ASSUME ResetInv, NEW c \in Callers, DestroyFrees(c)
    PROVE  ResetInv'
<1> USE DEF DestroyFrees, Returns
<1>1. ResetTypeOK'
  BY DEF ResetTypeOK, SramTypeOK, Flags, Ops, Places, Errors, Phases, Windows, ScopePins,
         HandlePins
<1>2. (ThreadInv /\ RequestInv /\ NothingDiscarded)'
  BY DEF ThreadInv, RequestInv, NothingDiscarded, Unanswered
<1>3. LockInv'
  BY DEF LockInv, ResetTypeOK, SramTypeOK, LifeInv, FlagsInv, CallInv, Windows
<1>4. LifeInv'
  BY DEF LifeInv, LockInv, FlagsInv, CallInv, ResetTypeOK, ScopePins, HandlePins, Windows
<1>5. FlagsInv'
  BY DEF FlagsInv, LockInv, LifeInv, CallInv, ResetTypeOK, Windows
<1>6. CallInv'
  BY DEF CallInv, LockInv, LifeInv, FlagsInv, ResetTypeOK, Ops, Places
<1>7. FreedInv'
  BY DEF FreedInv, LifeInv, FlagsInv, CallInv, LockInv
<1> QED
  BY <1>1, <1>2, <1>3, <1>4, <1>5, <1>6, <1>7

(***************************************************************************)
(* Only a sealed and open scope is activated.                              *)
(***************************************************************************)
LEMMA StepActivate ==
    ASSUME ResetInv, Activate
    PROVE  ResetInv'
<1> USE DEF Activate, Usable
<1>1. ResetTypeOK'
  BY DEF ResetTypeOK, SramTypeOK, Flags, Ops, Places, Errors, Phases, Windows, ScopePins,
         HandlePins
<1>2. (ThreadInv /\ RequestInv /\ NothingDiscarded)'
  BY DEF ThreadInv, RequestInv, NothingDiscarded, Unanswered
<1>3. LockInv'
  BY DEF LockInv, ResetTypeOK, SramTypeOK, LifeInv, FlagsInv, CallInv, Windows
<1>4. LifeInv'
  BY DEF LifeInv, LockInv, FlagsInv, CallInv, ResetTypeOK, ScopePins, HandlePins, Windows
<1>5. FlagsInv'
  BY DEF FlagsInv, LockInv, LifeInv, CallInv, ResetTypeOK, Windows
<1>6. CallInv'
  BY DEF CallInv, LockInv, LifeInv, FlagsInv, ResetTypeOK, Ops, Places
<1>7. FreedInv'
  BY DEF FreedInv, LifeInv, FlagsInv, CallInv, LockInv
<1> QED
  BY <1>1, <1>2, <1>3, <1>4, <1>5, <1>6, <1>7

(***************************************************************************)
(* A stray enable of the line comes before any mask.                       *)
(***************************************************************************)
LEMMA StepLineForced ==
    ASSUME ResetInv, LineForced
    PROVE  ResetInv'
<1> USE DEF LineForced
<1>1. ResetTypeOK'
  BY DEF ResetTypeOK, SramTypeOK, Flags, Ops, Places, Errors, Phases, Windows, ScopePins,
         HandlePins
<1>2. (LockInv /\ CallInv /\ ThreadInv /\ RequestInv /\ NothingDiscarded /\ FreedInv)'
  BY DEF LockInv, CallInv, ThreadInv, RequestInv, NothingDiscarded, FreedInv,
         Unanswered
<1>3. LifeInv'
  BY DEF LifeInv, LockInv, FlagsInv, CallInv, ResetTypeOK, ScopePins, HandlePins, Windows
<1>4. FlagsInv'
  BY DEF FlagsInv, LockInv, LifeInv, CallInv, ResetTypeOK, Windows
<1> QED
  BY <1>1, <1>2, <1>3, <1>4

(***************************************************************************)
(* A post is pending.                                                      *)
(***************************************************************************)
LEMMA StepFirmwarePosts ==
    ASSUME ResetInv, NEW c \in Channels, FirmwarePosts(c)
    PROVE  ResetInv'
<1> USE DEF FirmwarePosts
<1>1. ResetTypeOK'
  BY DEF ResetTypeOK, SramTypeOK, Flags, Ops, Places, Errors, Phases, Windows, ScopePins,
         HandlePins
<1>2. (LockInv /\ LifeInv /\ FlagsInv /\ CallInv /\ RequestInv /\ FreedInv)'
  BY DEF LockInv, LifeInv, FlagsInv, CallInv, RequestInv, FreedInv, Unanswered
<1>3. ThreadInv'
  BY DEF ThreadInv, LockInv, ResetTypeOK
<1>4. NothingDiscarded'
  BY DEF NothingDiscarded, ThreadInv, LockInv, ResetTypeOK
<1> QED
  BY <1>1, <1>2, <1>3, <1>4

(***************************************************************************)
(* The firmware takes a request.                                           *)
(***************************************************************************)
LEMMA StepFirmwareTakes ==
    ASSUME ResetInv, NEW c \in Channels, FirmwareTakes(c)
    PROVE  ResetInv'
<1> USE DEF FirmwareTakes
<1>1. ResetTypeOK'
  BY DEF ResetTypeOK, SramTypeOK, Flags, Ops, Places, Errors, Phases, Windows, ScopePins,
         HandlePins
<1>2. (LockInv /\ LifeInv /\ FlagsInv /\ CallInv /\ ThreadInv /\ RequestInv /\
       NothingDiscarded /\ FreedInv)'
  BY DEF LockInv, LifeInv, FlagsInv, CallInv, ThreadInv, RequestInv,
         NothingDiscarded, FreedInv, Unanswered
<1> QED
  BY <1>1, <1>2

(***************************************************************************)
(* BOOTREADY is no part of the invariant.                                  *)
(***************************************************************************)
LEMMA StepFirmwareDies ==
    ASSUME ResetInv, FirmwareDies
    PROVE  ResetInv'
<1> USE DEF FirmwareDies
<1>1. ResetTypeOK'
  <2>1. ready' \in BOOLEAN
    BY Zenon DEF ResetTypeOK
  <2>2. UNCHANGED <<phase, clients, life, lock, flags, owner, firstError, registered,
                   inflight, pins, thread, sending, calls, line, recv, send, lost,
                   posted, delivered, submitted, exposed>>
    OBVIOUS
  <2> HIDE DEF FirmwareDies
  <2> QED
    BY <2>1, <2>2 DEF ResetTypeOK, SramTypeOK
<1>2. (LockInv /\ LifeInv /\ FlagsInv /\ CallInv /\ ThreadInv /\ RequestInv /\
       NothingDiscarded /\ FreedInv)'
  BY DEF LockInv, LifeInv, FlagsInv, CallInv, ThreadInv, RequestInv,
         NothingDiscarded, FreedInv, Unanswered
<1> QED
  BY <1>1, <1>2

(***************************************************************************)
(* Neither are the drivers.                                                *)
(***************************************************************************)
LEMMA StepDriverLost ==
    ASSUME ResetInv, NEW d \in Channels \cup {"parent"}, DriverLost(d)
    PROVE  ResetInv'
<1> USE DEF DriverLost
<1>1. ResetTypeOK'
  BY DEF ResetTypeOK, SramTypeOK, Flags, Ops, Places, Errors, Phases, Windows, ScopePins,
         HandlePins
<1>2. (LockInv /\ LifeInv /\ FlagsInv /\ CallInv /\ ThreadInv /\ RequestInv /\
       NothingDiscarded /\ FreedInv)'
  BY DEF LockInv, LifeInv, FlagsInv, CallInv, ThreadInv, RequestInv,
         NothingDiscarded, FreedInv, Unanswered
<1> QED
  BY <1>1, <1>2

(***************************************************************************)
(* The SRAM of a prepared scope has clients.                               *)
(***************************************************************************)
LEMMA StepOtherDestroysSram ==
    ASSUME ResetInv, OtherDestroysSram
    PROVE  ResetInv'
<1> USE DEF OtherDestroysSram, SramDestroy
<1>1. ResetTypeOK'
  BY DEF ResetTypeOK, SramTypeOK, Flags, Ops, Places, Errors, Phases, Windows, ScopePins,
         HandlePins
<1>2. (CallInv /\ ThreadInv /\ RequestInv /\ NothingDiscarded /\ FreedInv)'
  BY DEF CallInv, ThreadInv, RequestInv, NothingDiscarded, FreedInv, Unanswered
<1>3. LockInv'
  BY DEF LockInv, ResetTypeOK, SramTypeOK, LifeInv, FlagsInv, CallInv, Windows
<1>4. LifeInv'
  BY DEF LifeInv, LockInv, FlagsInv, CallInv, ResetTypeOK, ScopePins, HandlePins, Windows
<1>5. FlagsInv'
  BY DEF FlagsInv, LockInv, LifeInv, CallInv, ResetTypeOK, Windows
<1> QED
  BY <1>1, <1>2, <1>3, <1>4, <1>5

(***************************************************************************)
(* A quarantine outside any transaction.                                   *)
(***************************************************************************)
LEMMA StepUnknownStart ==
    ASSUME ResetInv, UnknownStart
    PROVE  ResetInv'
<1> USE DEF UnknownStart, Quarantined
<1>1. ResetTypeOK'
  BY DEF ResetTypeOK, SramTypeOK, Flags, Ops, Places, Errors, Phases, Windows, ScopePins,
         HandlePins
<1>2. (CallInv /\ ThreadInv /\ RequestInv /\ NothingDiscarded /\ FreedInv)'
  BY DEF CallInv, ThreadInv, RequestInv, NothingDiscarded, FreedInv, Unanswered
<1>3. LockInv'
  BY DEF LockInv, ResetTypeOK, SramTypeOK, LifeInv, FlagsInv, CallInv, Windows
<1>4. LifeInv'
  BY DEF LifeInv, LockInv, FlagsInv, CallInv, ResetTypeOK, ScopePins, HandlePins, Windows
<1>5. FlagsInv'
  BY DEF FlagsInv, LockInv, LifeInv, CallInv, ResetTypeOK, Windows
<1> QED
  BY <1>1, <1>2, <1>3, <1>4, <1>5

-----------------------------------------------------------------------------
(***************************************************************************)
(* The state the parent prepares the scope in satisfies the invariant.     *)
(***************************************************************************)
LEMMA InitInv == ResetInit => ResetInv
<1> SUFFICES ASSUME ResetInit PROVE ResetInv
  OBVIOUS
<1> USE DEF ResetInit, ScopeInit, Idle
<1>1. ResetTypeOK
  BY DEF ResetTypeOK, SramTypeOK, Phases, Windows, Errors, Places, Ops
<1>2. LockInv /\ LifeInv /\ FlagsInv /\ FreedInv /\ ThreadInv
  BY DEF LockInv, LifeInv, FlagsInv, FreedInv, ThreadInv
<1>3. CallInv
  BY DEF CallInv
<1>4. RequestInv /\ NothingDiscarded
  BY DEF RequestInv, Unanswered, NothingDiscarded
<1> QED
  BY <1>1, <1>2, <1>3, <1>4

(***************************************************************************)
(* Every step of the thread keeps the invariant.                           *)
(***************************************************************************)
LEMMA StepRx ==
    ASSUME ResetInv, RxStep
    PROVE  ResetInv'
<1> HIDE DEF ResetInv
<1> QED
  BY StepThreadDeclines, StepThreadFaults, StepThreadSnapshots, StepThreadAcks, StepThreadRetires,
     StepThreadDelivers
     DEF RxStep

(***************************************************************************)
(* Every step of a lifecycle call keeps the invariant.                     *)
(***************************************************************************)
LEMMA StepCall ==
    ASSUME ResetInv, NEW c \in Callers, CallStep(c)
    PROVE  ResetInv'
<1> HIDE DEF ResetInv
<1> QED
  BY StepDrainMasks, StepDrainSync, StepDrainEnds, StepReleaseEnds, StepHoldEnds, StepDestroyEnds,
     StepDestroyFrees
     DEF CallStep

(***************************************************************************)
(* The invariant is inductive.                                             *)
(***************************************************************************)
LEMMA NextInv == ResetInv /\ [ResetNext]_resetVars => ResetInv'
<1> SUFFICES ASSUME ResetInv, [ResetNext]_resetVars PROVE ResetInv'
  OBVIOUS
<1>1. CASE UNCHANGED resetVars
  <2> USE <1>1 DEF resetVars
  <2>1. ResetTypeOK'
    BY DEF ResetTypeOK, SramTypeOK
  <2>2. (LockInv /\ LifeInv /\ FlagsInv /\ FreedInv)'
    BY DEF LockInv, LifeInv, FlagsInv, FreedInv
  <2>3. (CallInv /\ ThreadInv)'
    BY DEF CallInv, ThreadInv
  <2>4. (RequestInv /\ NothingDiscarded)'
    BY DEF RequestInv, Unanswered, NothingDiscarded
  <2> QED
    BY <2>1, <2>2, <2>3, <2>4
<1>2. CASE ResetNext
  <2> HIDE DEF ResetInv
  <2>1. CASE Prepare \/ DispatchAcquire \/ IrqWakes \/ RxStep \/ TxCommit
    BY <2>1, StepPrepare, StepDispatchAcquire, StepIrqWakes, StepRx, StepTxCommit
  <2>2. CASE \E c \in Channels : BindChannel(c) \/ TrySend(c) \/ TrySendFaults(c)
    BY <2>2, StepBindChannel, StepTrySend, StepTrySendFaults
  <2>3. CASE \E c \in Callers : CallStep(c) \/ \E op \in Ops : CallBegins(c, op)
    BY <2>3, StepCall, StepCallBegins
  <2>4. CASE Activate \/ LineForced \/ FirmwareDies \/ UnknownStart \/ OtherDestroysSram
    BY <2>4, StepActivate, StepLineForced, StepFirmwareDies, StepUnknownStart,
       StepOtherDestroysSram
  <2>5. CASE \E c \in Channels : FirmwarePosts(c) \/ FirmwareTakes(c)
    BY <2>5, StepFirmwarePosts, StepFirmwareTakes
  <2>6. CASE \E d \in Channels \cup {"parent"} : DriverLost(d)
    BY <2>6, StepDriverLost
  <2> QED
    BY <1>2, <2>1, <2>2, <2>3, <2>4, <2>5, <2>6 DEF ResetNext
<1> QED
  BY <1>1, <1>2

(***************************************************************************)
(* The invariant holds in every state of the scope.                        *)
(***************************************************************************)
LEMMA InvHolds == ResetSpec => []ResetInv
<1> HIDE DEF ResetInv
<1> QED
  BY InitInv, NextInv, PTL DEF ResetSpec

-----------------------------------------------------------------------------
(***************************************************************************)
(* The scope is type correct.                                              *)
(***************************************************************************)
THEOREM ResetTyped == ResetSpec => []ResetTypeOK
<1>1. ResetInv => ResetTypeOK
  OBVIOUS
<1> QED
  BY <1>1, InvHolds, PTL

(***************************************************************************)
(* Acknowledgements and doorbells are made by a sealed, powered and        *)
(* healthy scope only.                                                     *)
(***************************************************************************)
THEOREM AccessOwned == ResetSpec => []AccessIsOwned
<1>1. ResetInv => AccessIsOwned
  BY DEF AccessIsOwned, InTransaction, LockInv, LifeInv, FlagsInv, ScopePins, HandlePins
<1> QED
  BY <1>1, InvHolds, PTL

(***************************************************************************)
(* After the reset write nobody touches the mailbox.                       *)
(***************************************************************************)
THEOREM ResetQuiet == ResetSpec => []ResetIsQuiet
<1>1. ResetInv => ResetIsQuiet
  BY DEF ResetIsQuiet, InTransaction, LockInv, FlagsInv
<1> QED
  BY <1>1, InvHolds, PTL

(***************************************************************************)
(* An exposed scope keeps its handle and every reference.                  *)
(***************************************************************************)
THEOREM ExposedRetained == ResetSpec => []ExposedIsRetained
<1>1. ResetInv => ExposedIsRetained
  BY DEF ExposedIsRetained, LifeInv, FlagsInv
<1> QED
  BY <1>1, InvHolds, PTL

(***************************************************************************)
(* A latched error is contained.                                           *)
(***************************************************************************)
THEOREM FaultContained == ResetSpec => []FaultIsContained
<1>1. ResetInv => FaultIsContained
  BY DEF FaultIsContained, FlagsInv
<1> QED
  BY <1>1, InvHolds, PTL

(***************************************************************************)
(* No message of the firmware is lost or delivered twice.                  *)
(***************************************************************************)
THEOREM MessagesKept == ResetSpec => []NothingDiscarded
<1>1. ResetInv => NothingDiscarded
  OBVIOUS
<1> QED
  BY <1>1, InvHolds, PTL

(***************************************************************************)
(* A channel with answers has one request at a time.                       *)
(***************************************************************************)
THEOREM OneRequest == ResetSpec => []OneRequestAtATime
<1>1. ResetInv => OneRequestAtATime
  BY DEF OneRequestAtATime, RequestInv, ResetTypeOK
<1> QED
  BY <1>1, InvHolds, PTL

(***************************************************************************)
(* A freed scope is out of use.                                            *)
(***************************************************************************)
THEOREM FreedQuiet == ResetSpec => []FreedIsQuiet
<1>1. ResetInv => FreedIsQuiet
  BY DEF FreedIsQuiet, FreedInv, LifeInv, LockInv, CallInv, ResetTypeOK
<1> QED
  BY <1>1, InvHolds, PTL
=============================================================================
