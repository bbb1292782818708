------------------------------- MODULE CamsvDirect -------------------------------
(***************************************************************************)
(* The direct CAMSV owner (camera-direct/mt6878-camsv-direct.c): it holds  *)
(* the coherent CQ buffer, encodes the frame's CQ, submits the vb2 pair    *)
(* and returns the pair only from its stop, after the reset transaction.   *)
(* Every operation runs under owner->lock, so each is one step.            *)
(*                                                                         *)
(* DirectSpec lets any caller invoke the operations in any order and lets  *)
(* any verifier accept or refuse at any time.                              *)
(***************************************************************************)
EXTENDS CamsvCapture

VARIABLES
    owner,        \* "cq" (cq_cpu), "encoded" (encoder.finished),
                  \* "observed" (completion_observed)
    directError   \* owner->first_error

directVars == <<captureVars, owner, directError>>

OwnerFlags == {"cq", "encoded", "observed"}

(***************************************************************************)
(* The direct owner's variables have their types.                          *)
(***************************************************************************)
DirectTypeOK ==
    /\ CaptureTypeOK
    /\ owner \subseteq OwnerFlags
    /\ directError \in Errnos \cup {OK}

DirectInit ==
    /\ CaptureInit
    /\ owner = {"cq"}  \* mt6878_camsv_direct_init allocated the CQ
    /\ directError = OK

(***************************************************************************)
(* mt6878_camsv_recipe_inputs accepts one grouping: all tags in group 0.   *)
(***************************************************************************)
RecipeInputs(j) == j.groups = [g \in Groups |-> IF g = 0 THEN Tags ELSE {}]

-----------------------------------------------------------------------------
(***************************************************************************)
(* mt6878_camsv_direct_submit.  A failure to prepare the CQ is latched     *)
(* without a submission; the encoded CQ is never encoded again.            *)
(***************************************************************************)
DirectSubmit(j, gate, ret) ==
    /\ "cq" \in owner
    /\ \/ /\ directError # OK
          /\ ret = directError
          /\ UNCHANGED <<owner, directError, txVars, engine, finished, pair>>
       \/ /\ directError = OK
          /\ "attempted" \in tx \/ "encoded" \in owner \/ "held" \in pair
          /\ ret = "EALREADY"
          /\ UNCHANGED <<owner, directError, txVars, engine, finished, pair>>
       \/ /\ directError = OK
          /\ "attempted" \notin tx /\ "encoded" \notin owner /\ "held" \notin pair
          /\ \/ /\ ret \in Faults
                /\ UNCHANGED <<owner, txVars, engine, finished, pair>>
             \/ /\ RecipeInputs(j)
                /\ owner' = owner \cup {"encoded"}
                /\ Vb2Submit(j, gate, ret)
          /\ directError' = ret
    /\ UNCHANGED <<clamp, buffers>>

(***************************************************************************)
(* mt6878_camsv_direct_done.  gate: the RESOURCES and IRQ owners can       *)
(* verify now.  A verification failure, ESTALE for a changed IOMMU domain  *)
(* included, is latched; a stale or repeated completion is not.  error is  *)
(* owner->first_error on return.                                           *)
(***************************************************************************)
DirectDone(status, seq, gate, ret, error) ==
    /\ "cq" \in owner
    /\ \/ /\ directError # OK
          /\ ret = directError /\ error = directError
          /\ UNCHANGED <<owner, completeTags>>
       \/ /\ directError = OK /\ "observed" \in owner
          /\ ret = "EALREADY" /\ error = OK
          /\ UNCHANGED <<owner, completeTags>>
       \/ /\ directError = OK /\ "observed" \notin owner
          /\ "submitted" \notin tx \/ pair # {"held"}
          /\ ret = "EINVAL" /\ error = OK
          /\ UNCHANGED <<owner, completeTags>>
       \/ /\ directError = OK /\ "observed" \notin owner
          /\ "submitted" \in tx /\ pair = {"held"}
          /\ \/ /\ ret \in Faults \cup {"ESTALE"} /\ error = ret
                /\ UNCHANGED <<owner, completeTags>>
             \/ /\ gate
                /\ CamsvDone(status, seq, ret) /\ error = OK
                /\ owner' = IF ret = "complete" THEN owner \cup {"observed"} ELSE owner
    /\ UNCHANGED <<tx, txError, job, hwVars, pair, buffers>>

\* Mutation: DONE without the whole frame observed.
CompleteUnobserved(r) ==
    /\ pair' = {"completed"}
    /\ buffers' = IF r = OK /\ directError = OK THEN "done" ELSE "error"

(***************************************************************************)
(* complete_pair, called once the reset of this stop has succeeded: DONE   *)
(* needs the full frame observed and no error before or during the stop.   *)
(***************************************************************************)
CompletePair(r) ==
    LET frameDone == "observed" \in owner /\ completeTags = Tags IN
    /\ pair' = {"completed"}
    /\ buffers' = IF r = OK /\ directError = OK /\ frameDone THEN "done" ELSE "error"

(***************************************************************************)
(* mt6878_camsv_direct_stop.  A STOPPED refusal before camsv_stop does not *)
(* consume its one-shot reset.                                             *)
(***************************************************************************)
DirectStop(gate, ret) ==
    /\ "cq" \in owner
    /\ \/ /\ "hw_attempted" \notin tx \/ "quiesced" \in tx
          /\ ret = directError
          /\ UNCHANGED <<directError, tx, txError, engine, clamp, pair, buffers>>
       \/ /\ "hw_attempted" \in tx /\ "quiesced" \notin tx
          /\ \E r \in Errnos \cup {OK} :
                /\ \/ /\ r \in Faults
                      /\ UNCHANGED <<tx, txError, engine, clamp, pair, buffers>>
                   \/ /\ gate
                      /\ CamsvStop(gate, r)
                      /\ IF "quiesced" \in tx' /\ pair = {"held"}
                           THEN CompletePair(r)
                           ELSE UNCHANGED <<pair, buffers>>
                /\ directError' = FirstError(directError, r)
          /\ ret = directError'
    /\ UNCHANGED <<owner, completeTags, job, finished>>

\* Mutation: the CQ is freed without the proof of quiescence.
ReleaseUnproved(ret) == ret = OK /\ owner' = owner \ {"cq"}

(***************************************************************************)
(* mt6878_camsv_direct_release frees the CQ unless the DMA may be live.    *)
(***************************************************************************)
DirectRelease(ret) ==
    \/ /\ "hw_attempted" \in tx /\ "quiesced" \notin tx
       /\ ret = "EBUSY"
       /\ UNCHANGED owner
    \/ /\ "hw_attempted" \notin tx \/ "quiesced" \in tx
       /\ ret = OK
       /\ owner' = owner \ {"cq"}

(***************************************************************************)
(* An IRQ thread or the frame's error path latches direct->first_error.    *)
(***************************************************************************)
DirectLatch(error) == directError' = FirstError(directError, error)

-----------------------------------------------------------------------------
DirectReturns == Errnos \cup {OK}

Submit == \E j \in Jobs, gate \in BOOLEAN, ret \in DirectReturns :
              DirectSubmit(j, gate, ret)

Done == \E status \in SUBSET Groups, seq \in Sequences, gate \in BOOLEAN,
           ret \in DirectReturns \cup {"complete"}, error \in DirectReturns :
              /\ DoneRead(status, seq)
              /\ DirectDone(status, seq, gate, ret, error)
              /\ directError' = error

Stop == \E gate \in BOOLEAN, ret \in DirectReturns : DirectStop(gate, ret)

Release == /\ "cq" \in owner
           /\ \E ret \in DirectReturns : DirectRelease(ret)
           /\ UNCHANGED <<captureVars, directError>>

Latch == /\ \E error \in Faults : DirectLatch(error)
         /\ UNCHANGED <<captureVars, owner>>

EngineStep == EngineFinishesGroup /\ UNCHANGED <<owner, directError>>

DirectNext == Submit \/ Done \/ Stop \/ Release \/ Latch \/ EngineStep

DirectSpec == DirectInit /\ [][DirectNext]_directVars

-----------------------------------------------------------------------------
(***************************************************************************)
(* While the engine may access memory, the CQ is allocated and both vb2    *)
(* buffers are in the pair and not returned: no call order, no refused or  *)
(* failed stop and no failed submission frees memory under live DMA.       *)
(***************************************************************************)
EngineOwnsMemory ==
    engine = "running" =>
        "cq" \in owner /\ pair = {"held"} /\ buffers = "active"

(***************************************************************************)
(* A frame handed to user space as DONE was completely written for its own *)
(* sequence, with no transaction error, by an engine since reset.          *)
(***************************************************************************)
DoneIsQuiescedFrame ==
    buffers = "done" =>
        finished = Tags /\ txError = OK /\ engine = "idle" /\ clamp = "off"

(***************************************************************************)
(* first_error keeps the first causal error of the owner and of its        *)
(* transaction through every later failure.                                *)
(***************************************************************************)
FirstErrorsKept ==
    [][ /\ directError # OK => directError' = directError
        /\ txError # OK => txError' = txError ]_directVars

(***************************************************************************)
(* The direct owner implements FrameLoan: the pair and the CQ are lent     *)
(* from the first hardware write of a submission to the end of a reset     *)
(* that succeeded.                                                         *)
(***************************************************************************)
Lent == "hw_attempted" \in tx /\ "quiesced" \notin tx

Loan == INSTANCE FrameLoan WITH
            loan <- IF Lent THEN "hardware" ELSE "driver",
            whole <- Lent /\ finished = Tags,
            cq <- "cq" \in owner

(***************************************************************************)
(* Every behaviour is one of FrameLoan: buffers come back once, DONE only  *)
(* with the whole frame written in this loan, and no memory is freed or    *)
(* queued again under the hardware.                                        *)
(***************************************************************************)
LoanKept == Loan!LoanSpec

=============================================================================
