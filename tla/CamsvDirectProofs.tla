----------------------------- MODULE CamsvDirectProofs -----------------------------
(***************************************************************************)
(* Proofs about the direct CAMSV owner, for every set of tags, groups,     *)
(* sequences and faults.  The inductive invariant DirectInv ties the flags *)
(* of the transaction to the engine, to the pair and to the CQ.            *)
(***************************************************************************)
EXTENDS CamsvDirect, TLAPS

(***************************************************************************)
(* A transaction that has not reached the hardware holds nothing.          *)
(***************************************************************************)
UntouchedInv ==
    "hw_attempted" \notin tx =>
        /\ engine = "idle" /\ pair = {} /\ buffers = "active"
        /\ tx \cap {"submitted", "quiesced"} = {}

(***************************************************************************)
(* Lent: the pair is held, the buffers are not returned, the CQ is there.  *)
(***************************************************************************)
LentInv ==
    Lent => /\ "attempted" \in tx
            /\ "cq" \in owner /\ pair = {"held"} /\ buffers = "active"

(***************************************************************************)
(* A quiesced transaction is over: engine reset, clamp gone, pair returned.*)
(***************************************************************************)
QuiescedInv ==
    "quiesced" \in tx =>
        /\ {"attempted", "hw_attempted", "off_attempted"} \subseteq tx
        /\ "submitted" \notin tx
        /\ engine = "idle" /\ clamp = "off" /\ pair = {"completed"}

(***************************************************************************)
(* Observed tags were written for this frame; DONE needs all of them.      *)
(***************************************************************************)
CompletionInv ==
    /\ completeTags \subseteq finished
    /\ "attempted" \notin tx => completeTags = {}
    /\ buffers = "done" => "quiesced" \in tx /\ finished = Tags /\ txError = OK

(***************************************************************************)
(* The inductive invariant.                                                *)
(***************************************************************************)
DirectInv ==
    DirectTypeOK /\ UntouchedInv /\ LentInv /\ QuiescedInv /\ CompletionInv

-----------------------------------------------------------------------------
(***************************************************************************)
(* The tags of any set of DONE groups are tags of the frame.               *)
(***************************************************************************)
LEMMA GroupTagsTyped ==
    ASSUME job \in Jobs, NEW status \in SUBSET Groups
    PROVE  GroupsToTags(status) \in SUBSET Tags
  BY DEF GroupsToTags, Jobs, GroupTags

(***************************************************************************)
(* What a DONE interrupt reads for the submitted sequence has been written.*)
(***************************************************************************)
LEMMA DoneReadWritten ==
    ASSUME NEW status \in SUBSET Groups, NEW seq, DoneRead(status, seq), seq = job.sequence
    PROVE  GroupsToTags(status) \subseteq finished
  BY DEF GroupsToTags, DoneRead

(***************************************************************************)
(* Latching an error keeps the type of first_error.                        *)
(***************************************************************************)
LEMMA FirstErrorTyped ==
    ASSUME NEW error \in DirectReturns, NEW ret \in DirectReturns
    PROVE  FirstError(error, ret) \in DirectReturns
  BY DEF FirstError

(***************************************************************************)
(* direct_init leaves an owner that satisfies the invariant.               *)
(***************************************************************************)
LEMMA InitInv == DirectInit => DirectInv
<1> SUFFICES ASSUME DirectInit PROVE DirectInv
  OBVIOUS
<1> USE DEF DirectInit, CaptureInit
<1>1. DirectTypeOK
  BY CamsvAssumption DEF DirectTypeOK, CaptureTypeOK, OwnerFlags, TxFlags, PairFlags, Jobs, GroupTags
<1>2. UntouchedInv /\ LentInv /\ QuiescedInv /\ CompletionInv
  BY DEF UntouchedInv, LentInv, Lent, QuiescedInv, CompletionInv
<1> QED
  BY <1>1, <1>2 DEF DirectInv

(***************************************************************************)
(* direct_submit keeps the invariant: refused, refused before the hardware,*)
(* failed after it, or started.                                            *)
(***************************************************************************)
LEMMA SubmitInv == DirectInv /\ Submit => DirectInv'
<1> SUFFICES ASSUME DirectInv,
                    NEW j \in Jobs, NEW gate \in BOOLEAN, NEW ret \in DirectReturns,
                    DirectSubmit(j, gate, ret)
             PROVE  DirectInv'
  BY DEF Submit
<1> USE DEF DirectInv, DirectTypeOK, CaptureTypeOK
<1>1. CASE UNCHANGED <<txVars, engine, finished, pair>>
  <2>1. owner' \subseteq OwnerFlags /\ ("cq" \in owner => "cq" \in owner')
    BY <1>1 DEF DirectSubmit, OwnerFlags
  <2>2. directError' \in DirectReturns /\ UNCHANGED <<clamp, buffers>>
    BY <1>1 DEF DirectSubmit, DirectReturns
  <2> QED
    BY <1>1, <2>1, <2>2
    DEF UntouchedInv, LentInv, Lent, QuiescedInv, CompletionInv, txVars, DirectReturns
<1>2. CASE ~UNCHANGED <<txVars, engine, finished, pair>>
  <2>1. /\ directError' = ret /\ owner' = owner \cup {"encoded"} /\ "cq" \in owner
        /\ UNCHANGED <<clamp, buffers>>
        /\ pair = {} /\ "attempted" \notin tx /\ CamsvValid(j)
        /\ CamsvSubmit(j, gate, ret)
        /\ pair' = IF ret # OK /\ "hw_attempted" \notin tx' THEN {} ELSE {"held"}
    BY <1>2 DEF DirectSubmit, Vb2Submit
  <2>2. "hw_attempted" \notin tx
    BY <2>1 DEF LentInv, Lent, QuiescedInv
  <2>3. CASE txError # OK \/ tx \cap {"attempted", "off_attempted"} # {}
    <3>1. ret # OK /\ UNCHANGED <<txVars, engine, finished>>
      BY <2>1, <2>3, CamsvAssumption DEF CamsvSubmit, Errnos
    <3> QED
      BY <1>2, <2>1, <2>2, <3>1 DEF txVars
  <2>4. CASE txError = OK /\ tx \cap {"attempted", "off_attempted"} = {}
    <3>1. /\ job' = j /\ finished' = {} /\ txError' = ret /\ UNCHANGED completeTags
          /\ \/ ret \in Faults /\ tx' = tx \cup {"attempted"} /\ UNCHANGED engine
             \/ StartEngine(ret)
      BY <2>1, <2>4 DEF CamsvSubmit
    <3>2. completeTags = {}
      BY <2>1 DEF CompletionInv
    <3>3. CASE ret \in Faults /\ tx' = tx \cup {"attempted"} /\ UNCHANGED engine
      <4>1. ret # OK /\ pair' = {}
        BY <2>1, <2>2, <3>3, CamsvAssumption DEF Errnos
      <4> QED
        BY <2>1, <2>2, <3>1, <3>2, <3>3, <4>1
        DEF UntouchedInv, LentInv, Lent, QuiescedInv, CompletionInv, TxFlags, PairFlags,
            OwnerFlags, DirectReturns
    <3>4. CASE StartEngine(ret)
      <4>1. /\ tx' \subseteq TxFlags /\ {"attempted", "hw_attempted"} \subseteq tx'
            /\ "quiesced" \in tx' => "quiesced" \in tx
            /\ engine' \in {"idle", "running"}
        BY <3>4 DEF StartEngine, TxFlags
      <4>2. pair' = {"held"} /\ "quiesced" \notin tx' /\ buffers' = "active"
        BY <2>1, <2>2, <4>1 DEF QuiescedInv, UntouchedInv
      <4> QED
        BY <2>1, <3>1, <3>2, <4>1, <4>2
        DEF UntouchedInv, LentInv, Lent, QuiescedInv, CompletionInv, PairFlags, OwnerFlags,
            DirectReturns
    <3> QED
      BY <3>1, <3>3, <3>4
  <2> QED
    BY <2>3, <2>4
<1> QED
  BY <1>1, <1>2

(***************************************************************************)
(* direct_done keeps the invariant: it only adds tags that were written.   *)
(***************************************************************************)
LEMMA DoneInv == DirectInv /\ Done => DirectInv'
<1> SUFFICES ASSUME DirectInv,
                    NEW status \in SUBSET Groups, NEW seq \in Sequences, NEW gate \in BOOLEAN,
                    NEW ret \in DirectReturns \cup {"complete"}, NEW error \in DirectReturns,
                    DoneRead(status, seq),
                    DirectDone(status, seq, gate, ret, error),
                    directError' = error
             PROVE  DirectInv'
  BY DEF Done
<1> USE DEF DirectInv, DirectTypeOK, CaptureTypeOK
<1>1. UNCHANGED <<tx, txError, job, engine, finished, clamp, pair, buffers>> /\ "cq" \in owner
  BY DEF DirectDone, hwVars
<1>2. owner' \subseteq OwnerFlags /\ ("cq" \in owner => "cq" \in owner')
  BY DEF DirectDone, OwnerFlags
<1>3. CASE UNCHANGED completeTags
  BY <1>1, <1>2, <1>3
  DEF UntouchedInv, LentInv, Lent, QuiescedInv, CompletionInv, DirectReturns
<1>4. CASE ~UNCHANGED completeTags
  <2>1. /\ seq = job.sequence /\ "submitted" \in tx
        /\ completeTags' = completeTags \cup GroupsToTags(status)
    BY <1>4 DEF DirectDone, CamsvDone
  <2>2. GroupsToTags(status) \in SUBSET Tags /\ GroupsToTags(status) \subseteq finished
    BY <2>1, GroupTagsTyped, DoneReadWritten
  <2>3. "attempted" \in tx
    BY <2>1 DEF UntouchedInv, LentInv, Lent, QuiescedInv
  <2> QED
    BY <1>1, <1>2, <2>1, <2>2, <2>3
    DEF UntouchedInv, LentInv, Lent, QuiescedInv, CompletionInv, DirectReturns
<1> QED
  BY <1>3, <1>4

(***************************************************************************)
(* What the reset transaction does to a lent, not yet quiesced transaction:*)
(* either quiesced with everything reset, or still lent.                   *)
(***************************************************************************)
LEMMA StopEffect ==
    ASSUME DirectInv, NEW gate \in BOOLEAN, NEW r \in DirectReturns,
           "hw_attempted" \in tx, "quiesced" \notin tx,
           CamsvStop(gate, r)
    PROVE  /\ tx' \subseteq TxFlags /\ txError' \in DirectReturns
           /\ {"attempted", "hw_attempted"} \subseteq tx'
           /\ engine' \in {"idle", "running"} /\ clamp' \in {"off", "on"}
           /\ txError # OK => txError' = txError
           /\ "quiesced" \in tx' =>
                 /\ "off_attempted" \in tx' /\ "submitted" \notin tx'
                 /\ engine' = "idle" /\ clamp' = "off" /\ r = txError'
<1> USE DEF DirectInv, DirectTypeOK, CaptureTypeOK, DirectReturns
<1>1. "attempted" \in tx
  BY DEF LentInv, Lent
<1>2. CASE "off_attempted" \in tx
  BY <1>1, <1>2 DEF CamsvStop
<1>3. CASE "off_attempted" \notin tx
  <2>1. PICK q \in Faults \cup {OK} :
           /\ \/ /\ q # OK
                 /\ tx' = tx \cup {"off_attempted"}
                 /\ clamp' \in {clamp, "on"}
                 /\ UNCHANGED engine
              \/ gate /\ ResetEngine(q)
           /\ txError' = FirstError(txError, q)
           /\ r = txError'
    BY <1>1, <1>3 DEF CamsvStop
  <2>2. txError' \in DirectReturns /\ (txError # OK => txError' = txError)
    BY <2>1 DEF FirstError, Errnos
  <2>3. CASE tx' = tx \cup {"off_attempted"} /\ clamp' \in {clamp, "on"} /\ UNCHANGED engine
    BY <1>1, <2>1, <2>2, <2>3 DEF TxFlags
  <2>4. CASE ResetEngine(q)
    BY <1>1, <2>1, <2>2, <2>4 DEF ResetEngine, TxFlags
  <2> QED
    BY <2>1, <2>3, <2>4
<1> QED
  BY <1>2, <1>3

(***************************************************************************)
(* direct_stop keeps the invariant: the pair leaves only with quiesced.    *)
(***************************************************************************)
LEMMA StopInv == DirectInv /\ Stop => DirectInv'
<1> SUFFICES ASSUME DirectInv, NEW gate \in BOOLEAN, NEW ret \in DirectReturns,
                    DirectStop(gate, ret)
             PROVE  DirectInv'
  BY DEF Stop
<1> USE DEF DirectInv, DirectTypeOK, CaptureTypeOK, DirectReturns
<1>1. "cq" \in owner /\ UNCHANGED <<owner, completeTags, job, finished>>
  BY DEF DirectStop
<1>2. CASE "hw_attempted" \notin tx \/ "quiesced" \in tx
  BY <1>1, <1>2
  DEF DirectStop, UntouchedInv, LentInv, Lent, QuiescedInv, CompletionInv
<1>3. CASE "hw_attempted" \in tx /\ "quiesced" \notin tx
  <2>1. PICK r \in Errnos \cup {OK} :
           /\ \/ /\ r \in Faults
                 /\ UNCHANGED <<tx, txError, engine, clamp, pair, buffers>>
              \/ /\ gate
                 /\ CamsvStop(gate, r)
                 /\ IF "quiesced" \in tx' /\ pair = {"held"}
                      THEN CompletePair(r)
                      ELSE UNCHANGED <<pair, buffers>>
           /\ directError' = FirstError(directError, r)
    BY <1>3 DEF DirectStop
  <2>2. directError' \in DirectReturns
    BY <2>1, FirstErrorTyped
  <2>3. pair = {"held"} /\ buffers = "active" /\ "attempted" \in tx
    BY <1>3 DEF LentInv, Lent
  <2>4. CASE UNCHANGED <<tx, txError, engine, clamp, pair, buffers>>
    BY <1>1, <2>2, <2>4 DEF UntouchedInv, LentInv, Lent, QuiescedInv, CompletionInv
  <2>5. CASE CamsvStop(gate, r) /\ "quiesced" \in tx' /\ CompletePair(r)
    <3>1. /\ pair' = {"completed"} /\ buffers' \in {"done", "error"}
          /\ buffers' = "done" => r = OK /\ completeTags = Tags
      BY <2>5 DEF CompletePair
    <3>2. /\ tx' \subseteq TxFlags /\ txError' \in DirectReturns
          /\ {"attempted", "hw_attempted", "off_attempted"} \subseteq tx'
          /\ "submitted" \notin tx'
          /\ engine' = "idle" /\ clamp' = "off" /\ r = txError'
      BY <1>3, <2>1, <2>5, StopEffect
    <3>3. buffers' = "done" => finished' = Tags /\ txError' = OK
      BY <1>1, <3>1, <3>2 DEF CompletionInv
    <3> QED
      BY <1>1, <2>2, <2>5, <3>1, <3>2, <3>3
      DEF UntouchedInv, LentInv, Lent, QuiescedInv, CompletionInv, PairFlags
  <2>6. CASE CamsvStop(gate, r) /\ "quiesced" \notin tx' /\ UNCHANGED <<pair, buffers>>
    <3>1. /\ tx' \subseteq TxFlags /\ txError' \in DirectReturns
          /\ {"attempted", "hw_attempted"} \subseteq tx'
          /\ engine' \in {"idle", "running"} /\ clamp' \in {"off", "on"}
      BY <1>3, <2>1, <2>6, StopEffect
    <3> QED
      BY <1>1, <2>2, <2>3, <2>6, <3>1
      DEF UntouchedInv, LentInv, Lent, QuiescedInv, CompletionInv
  <2> QED
    BY <2>1, <2>3, <2>4, <2>5, <2>6
<1> QED
  BY <1>2, <1>3

(***************************************************************************)
(* direct_release keeps the invariant: it refuses what is lent.            *)
(***************************************************************************)
LEMMA ReleaseInv == DirectInv /\ Release => DirectInv'
<1> SUFFICES ASSUME DirectInv, Release PROVE DirectInv'
  OBVIOUS
<1>1. /\ UNCHANGED <<captureVars, directError>>
      /\ owner' \subseteq owner /\ (Lent => owner' = owner)
  BY DEF Release, DirectRelease, Lent
<1> QED
  BY <1>1
  DEF DirectInv, DirectTypeOK, CaptureTypeOK, captureVars, txVars, hwVars,
      UntouchedInv, LentInv, Lent, QuiescedInv, CompletionInv

(***************************************************************************)
(* An error latched from outside touches nothing else.                     *)
(***************************************************************************)
LEMMA LatchInv == DirectInv /\ Latch => DirectInv'
<1> SUFFICES ASSUME DirectInv, Latch PROVE DirectInv'
  OBVIOUS
<1>1. directError' \in DirectReturns
  BY FirstErrorTyped DEF Latch, DirectLatch, DirectReturns, Errnos, DirectInv, DirectTypeOK
<1>2. UNCHANGED <<captureVars, owner>>
  BY DEF Latch
<1> QED
  BY <1>1, <1>2
  DEF DirectInv, DirectTypeOK, CaptureTypeOK, captureVars, txVars, hwVars, DirectReturns,
      UntouchedInv, LentInv, Lent, QuiescedInv, CompletionInv

(***************************************************************************)
(* The engine only adds written tags, and only while it runs.              *)
(***************************************************************************)
LEMMA EngineInv == DirectInv /\ EngineStep => DirectInv'
<1> SUFFICES ASSUME DirectInv, EngineStep PROVE DirectInv'
  OBVIOUS
<1> USE DEF DirectInv, DirectTypeOK, CaptureTypeOK
<1>1. PICK g \in Groups : finished' = finished \cup job.groups[g]
  BY DEF EngineStep, EngineFinishesGroup
<1>2. engine = "running" /\ UNCHANGED <<txVars, engine, clamp, pair, buffers, owner, directError>>
  BY DEF EngineStep, EngineFinishesGroup
<1>3. finished' \subseteq Tags /\ finished \subseteq finished'
  BY <1>1 DEF Jobs, GroupTags
<1>4. "quiesced" \notin tx /\ buffers # "done"
  BY <1>2 DEF QuiescedInv, CompletionInv
<1> QED
  BY <1>2, <1>3, <1>4
  DEF txVars, UntouchedInv, LentInv, Lent, QuiescedInv, CompletionInv

(***************************************************************************)
(* Every step keeps the invariant.                                         *)
(***************************************************************************)
LEMMA NextInv == DirectInv /\ [DirectNext]_directVars => DirectInv'
<1>1. DirectInv /\ UNCHANGED directVars => DirectInv'
  BY DEF DirectInv, DirectTypeOK, CaptureTypeOK, directVars, captureVars, txVars, hwVars,
         UntouchedInv, LentInv, Lent, QuiescedInv, CompletionInv
<1> QED
  BY <1>1, SubmitInv, DoneInv, StopInv, ReleaseInv, LatchInv, EngineInv DEF DirectNext

-----------------------------------------------------------------------------
(***************************************************************************)
(* DirectInv holds in every state of the direct owner, whatever the order  *)
(* of submit, done, stop and release and whatever the verifiers say.       *)
(***************************************************************************)
THEOREM DirectInvariant == DirectSpec => []DirectInv
  BY InitInv, NextInv, PTL DEF DirectSpec

(***************************************************************************)
(* The variables of the direct owner keep their types.                     *)
(***************************************************************************)
THEOREM DirectTyped == DirectSpec => []DirectTypeOK
<1>1. DirectInv => DirectTypeOK
  BY DEF DirectInv
<1> QED
  BY <1>1, DirectInvariant, PTL

(***************************************************************************)
(* No call order frees or returns memory under a running engine.           *)
(***************************************************************************)
THEOREM MemoryOwned == DirectSpec => []EngineOwnsMemory
<1>1. DirectInv => EngineOwnsMemory
  BY DEF DirectInv, UntouchedInv, LentInv, Lent, QuiescedInv, EngineOwnsMemory
<1> QED
  BY <1>1, DirectInvariant, PTL

(***************************************************************************)
(* A DONE frame was completely written and its engine reset.               *)
(***************************************************************************)
THEOREM DoneQuiesced == DirectSpec => []DoneIsQuiescedFrame
<1>1. DirectInv => DoneIsQuiescedFrame
  BY DEF DirectInv, QuiescedInv, CompletionInv, DoneIsQuiescedFrame
<1> QED
  BY <1>1, DirectInvariant, PTL

(***************************************************************************)
(* The first causal errors of the owner and of its transaction are kept.   *)
(***************************************************************************)
THEOREM ErrorsKept == DirectSpec => FirstErrorsKept
<1> DEFINE A == /\ directError # OK => directError' = directError
                /\ txError # OK => txError' = txError
<1>1. DirectInv /\ [DirectNext]_directVars => [A]_directVars
  <2> SUFFICES ASSUME DirectInv, DirectNext PROVE A
    OBVIOUS
  <2>1. CASE Submit
    BY <2>1 DEF Submit, DirectSubmit, Vb2Submit, CamsvSubmit, txVars
  <2>2. CASE Done
    BY <2>2 DEF Done, DirectDone
  <2>3. CASE Stop
    <3>1. PICK gate \in BOOLEAN, ret \in DirectReturns : DirectStop(gate, ret)
      BY <2>3 DEF Stop
    <3>2. directError # OK => directError' = directError
      BY <3>1 DEF DirectStop, FirstError
    <3>3. txError # OK => txError' = txError
      BY <3>1, StopEffect DEF DirectStop, DirectReturns
    <3> QED
      BY <3>2, <3>3
  <2>4. CASE Release \/ Latch \/ EngineStep
    BY <2>4 DEF Release, Latch, DirectLatch, FirstError, EngineStep, EngineFinishesGroup,
                captureVars, txVars
  <2> QED
    BY <2>1, <2>2, <2>3, <2>4 DEF DirectNext
<1> QED
  BY <1>1, DirectInvariant, PTL DEF DirectSpec, FirstErrorsKept

-----------------------------------------------------------------------------
(***************************************************************************)
(* Every step of the direct owner is a step of FrameLoan or invisible to   *)
(* it: a submission lends, a successful reset reclaims, a release frees.   *)
(***************************************************************************)
LEMMA LoanStep == DirectInv /\ [DirectNext]_directVars => [Loan!LoanNext]_(Loan!loanVars)
<1> SUFFICES ASSUME DirectInv, [DirectNext]_directVars
             PROVE  Loan!LoanNext \/ UNCHANGED Loan!loanVars
  OBVIOUS
<1> USE DEF DirectInv
<1>1. CASE Submit
  <2>1. PICK j \in Jobs, gate \in BOOLEAN, ret \in DirectReturns : DirectSubmit(j, gate, ret)
    BY <1>1 DEF Submit
  <2>2. UNCHANGED buffers /\ "cq" \in owner /\ "cq" \in owner'
    BY <2>1 DEF DirectSubmit
  <2>3. CASE UNCHANGED <<tx, finished>>
    BY <2>2, <2>3 DEF Loan!loanVars, Lent
  <2>4. CASE ~UNCHANGED <<tx, finished>>
    <3>1. "attempted" \notin tx /\ finished' = {} /\ ("quiesced" \in tx' => "quiesced" \in tx)
      BY <2>1, <2>4 DEF DirectSubmit, Vb2Submit, CamsvSubmit, StartEngine, txVars
    <3>2. ~Lent /\ "hw_attempted" \notin tx /\ "quiesced" \notin tx
      BY <3>1 DEF LentInv, Lent, QuiescedInv
    <3>3. finished' # Tags
      BY <3>1, CamsvAssumption
    <3>4. CASE "hw_attempted" \in tx'
      <4>1. Lent' /\ buffers = "active"
        BY <3>1, <3>2, <3>4 DEF Lent, UntouchedInv
      <4>2. Loan!Lend
        BY <2>2, <3>2, <3>3, <4>1 DEF Loan!Lend
      <4> QED
        BY <4>2 DEF Loan!LoanNext
    <3>5. CASE "hw_attempted" \notin tx'
      BY <2>2, <3>2, <3>5 DEF Loan!loanVars, Lent
    <3> QED
      BY <3>4, <3>5
  <2> QED
    BY <2>3, <2>4
<1>2. CASE Done
  <2>1. UNCHANGED <<tx, finished, buffers>> /\ ("cq" \in owner <=> "cq" \in owner')
    BY <1>2 DEF Done, DirectDone, hwVars
  <2> QED
    BY <2>1 DEF Loan!loanVars, Lent
<1>3. CASE Stop
  <2>1. PICK gate \in BOOLEAN, ret \in DirectReturns : DirectStop(gate, ret)
    BY <1>3 DEF Stop
  <2>2. "cq" \in owner /\ UNCHANGED <<owner, completeTags, finished>>
    BY <2>1 DEF DirectStop
  <2>3. CASE UNCHANGED <<tx, buffers>>
    BY <2>2, <2>3 DEF Loan!loanVars, Lent
  <2>4. CASE ~UNCHANGED <<tx, buffers>>
    <3>1. Lent /\ pair = {"held"} /\ buffers = "active"
      BY <2>1, <2>4 DEF DirectStop, Lent, LentInv
    <3>2. PICK r \in Errnos \cup {OK} :
             /\ CamsvStop(gate, r)
             /\ IF "quiesced" \in tx' THEN CompletePair(r) ELSE UNCHANGED <<pair, buffers>>
      BY <2>1, <2>4, <3>1 DEF DirectStop, Lent
    <3>3. "hw_attempted" \in tx'
      BY <3>1, <3>2, StopEffect DEF Lent, DirectReturns
    <3>4. CASE "quiesced" \notin tx'
      BY <2>2, <3>1, <3>2, <3>3, <3>4 DEF Loan!loanVars, Lent
    <3>5. CASE "quiesced" \in tx'
      <4>1. buffers' \in {"done", "error"} /\ (buffers' = "done" => finished = Tags)
        BY <3>2, <3>5 DEF CompletePair, CompletionInv, DirectTypeOK, CaptureTypeOK
      <4>2. Loan!Reclaim
        BY <2>2, <3>1, <3>5, <4>1 DEF Loan!Reclaim, Lent
      <4> QED
        BY <4>2 DEF Loan!LoanNext
    <3> QED
      BY <3>4, <3>5
  <2> QED
    BY <2>3, <2>4
<1>4. CASE Release
  <2>1. UNCHANGED captureVars /\ "cq" \in owner /\ (Lent => owner' = owner)
    BY <1>4 DEF Release, DirectRelease, Lent
  <2>2. UNCHANGED <<tx, finished, buffers>>
    BY <2>1 DEF captureVars, txVars, hwVars
  <2>3. CASE "cq" \in owner'
    BY <2>1, <2>2, <2>3 DEF Loan!loanVars, Lent
  <2>4. CASE "cq" \notin owner'
    <3>1. Loan!FreeCq
      BY <2>1, <2>2, <2>4 DEF Loan!FreeCq, Lent
    <3> QED
      BY <3>1 DEF Loan!LoanNext
  <2> QED
    BY <2>3, <2>4
<1>5. CASE Latch \/ UNCHANGED directVars
  BY <1>5 DEF Latch, directVars, captureVars, txVars, hwVars, Loan!loanVars, Lent
<1>6. CASE EngineStep
  <2>1. engine = "running" /\ UNCHANGED <<tx, buffers, owner>> /\ finished \subseteq finished'
    BY <1>6 DEF EngineStep, EngineFinishesGroup, txVars
  <2>2. Lent /\ Lent'
    BY <2>1 DEF Lent, UntouchedInv, QuiescedInv
  <2>3. CASE (finished' = Tags) = (finished = Tags)
    BY <2>1, <2>2, <2>3 DEF Loan!loanVars
  <2>4. CASE (finished' = Tags) # (finished = Tags)
    <3>1. finished' = Tags
      BY <2>1, <2>4, EngineInv, <1>6 DEF DirectTypeOK, CaptureTypeOK
    <3>2. Loan!WriteFrame
      BY <2>1, <2>2, <3>1 DEF Loan!WriteFrame
    <3> QED
      BY <3>2 DEF Loan!LoanNext
  <2> QED
    BY <2>3, <2>4
<1> QED
  BY <1>1, <1>2, <1>3, <1>4, <1>5, <1>6 DEF DirectNext

(***************************************************************************)
(* The direct owner implements FrameLoan.                                  *)
(***************************************************************************)
THEOREM DirectImplementsLoan == DirectSpec => LoanKept
<1>1. DirectInit => Loan!LoanInit
  BY DEF DirectInit, CaptureInit, Loan!LoanInit, Lent
<1> QED
  BY <1>1, LoanStep, DirectInvariant, PTL DEF DirectSpec, LoanKept, Loan!LoanSpec

=============================================================================
