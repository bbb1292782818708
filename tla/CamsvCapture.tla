------------------------------ MODULE CamsvCapture ------------------------------
(***************************************************************************)
(* The CAMSV frame transaction (camera-camsv/mt6878-camsv-capture.h) and   *)
(* the pair of vb2 buffers it writes to (camera-camsv/mt6878-camsv-vb2.c). *)
(*                                                                         *)
(* C flags that are 0 or 1 are names in a flag set: "submitted" \in tx is  *)
(* tx->submitted != 0.  Errno values are strings and OK stands for 0.      *)
(*                                                                         *)
(* engine, finished and clamp are the hardware as the code drives it: the  *)
(* CQ/DMA engine, the tags it has completely written for the submitted     *)
(* frame, and the SMI common 31 clamp.                                     *)
(***************************************************************************)
EXTENDS Naturals, FiniteSets

CONSTANTS
    Tags,       \* the RAW tag and the PDAF tag of the frame
    Groups,     \* the hardware's completion groups
    Sequences,  \* frame sequence numbers (FH_SPARE)
    Faults      \* errnos that providers, verifiers and MMIO may return

OK == "ok"

(***************************************************************************)
(* The errnos the code itself returns, and the providers' faults.           *)
(***************************************************************************)
Errnos == {"EINVAL", "EALREADY", "ESTALE", "EBUSY", "EIO"} \cup Faults

ASSUME CamsvAssumption ==
    /\ Tags # {} /\ IsFiniteSet(Tags)
    /\ 0 \in Sequences
    /\ Faults # {}
    /\ OK \notin Errnos

VARIABLES
    tx,            \* flags of struct mt6878_camsv_transaction
    txError,       \* tx->first_error
    completeTags,  \* tx->complete_tags
    job,           \* tx->job: its sequence and its group_tags
    engine,        \* "idle" or "running"
    finished,      \* tags the engine has written for job.sequence
    clamp,         \* "off" or "on"
    pair,          \* flags of struct mt6878_camsv_vb2_pair
    buffers        \* vb2 state of the two buffers

txVars == <<tx, txError, completeTags, job>>
hwVars == <<engine, finished, clamp>>
captureVars == <<txVars, hwVars, pair, buffers>>

TxFlags == {"attempted", "submitted", "off_attempted", "hw_attempted", "quiesced"}
PairFlags == {"held", "completed"}
GroupTags == [Groups -> SUBSET Tags]
Jobs == [sequence : Sequences, groups : GroupTags]

(***************************************************************************)
(* All capture variables have their types.                                 *)
(***************************************************************************)
CaptureTypeOK ==
    /\ tx \subseteq TxFlags
    /\ txError \in Errnos \cup {OK}
    /\ completeTags \subseteq Tags
    /\ job \in Jobs
    /\ engine \in {"idle", "running"}
    /\ finished \subseteq Tags
    /\ clamp \in {"off", "on"}
    /\ pair \subseteq PairFlags
    /\ buffers \in {"active", "done", "error"}

\* The pair and its transaction start zeroed; vb2 has handed over two ACTIVE buffers.
CaptureInit ==
    /\ tx = {} /\ txError = OK /\ completeTags = {}
    /\ job = [sequence |-> 0, groups |-> [g \in Groups |-> {}]]
    /\ engine = "idle" /\ finished = {} /\ clamp = "off"
    /\ pair = {} /\ buffers = "active"

(***************************************************************************)
(* Every owner keeps its first causal error; ret = 0 leaves it alone.      *)
(***************************************************************************)
FirstError(error, ret) == IF error = OK THEN ret ELSE error

-----------------------------------------------------------------------------
(***************************************************************************)
(* mt6878_camsv_validate: the groups partition the two tags.               *)
(***************************************************************************)
CamsvValid(j) ==
    /\ \A g, h \in Groups : g # h => j.groups[g] \cap j.groups[h] = {}
    /\ UNION {j.groups[g] : g \in Groups} = Tags

(***************************************************************************)
(* The MMIO of mt6878_camsv_submit after hw_attempted: a failure before    *)
(* the CQ START write leaves the engine idle, one after it does not.       *)
(***************************************************************************)
StartEngine(ret) ==
    \/ /\ ret \in Faults
       /\ engine' \in {engine, "running"}
       /\ tx' = tx \cup {"attempted", "hw_attempted"}
    \/ /\ ret = OK
       /\ engine' = "running"
       /\ tx' = tx \cup {"attempted", "hw_attempted", "submitted"}

(***************************************************************************)
(* mt6878_camsv_submit.  gate: every hardware owner (resources, IOMMU,     *)
(* route, IRQ, composer) can verify the job now.                           *)
(***************************************************************************)
CamsvSubmit(j, gate, ret) ==
    \/ /\ txError # OK
       /\ ret = txError
       /\ UNCHANGED <<txVars, engine, finished>>
    \/ /\ txError = OK
       /\ tx \cap {"attempted", "off_attempted"} # {}
       /\ ret = "EALREADY"
       /\ UNCHANGED <<txVars, engine, finished>>
    \/ /\ txError = OK
       /\ tx \cap {"attempted", "off_attempted"} = {}
       /\ \/ /\ ~CamsvValid(j)
             /\ ret = "EINVAL"
             /\ UNCHANGED <<tx, job, engine, finished>>
          \/ /\ CamsvValid(j)
             /\ job' = j
             /\ finished' = {}
             /\ \/ /\ ret \in Faults  \* an owner refused: no MMIO
                   /\ tx' = tx \cup {"attempted"}
                   /\ UNCHANGED engine
                \/ gate /\ StartEngine(ret)
       /\ txError' = ret
       /\ UNCHANGED completeTags

\* Mutations: a tag of another path is kept; any group taken for the frame.
GroupsWithStray(status) == UNION {job.groups[g] : g \in status} \cup {"stray"}
AnyGroupIsFrame(status) == IF status = {} THEN {} ELSE Tags

(***************************************************************************)
(* mt6878_camsv_done: status is the set of groups whose DONE bit is read,  *)
(* seq the inner FH_SPARE.  1 is returned for the completing interrupt.    *)
(***************************************************************************)
GroupsToTags(status) == UNION {job.groups[g] : g \in status}

CamsvDone(status, seq, ret) ==
    LET tags == GroupsToTags(status) IN
    \/ /\ "submitted" \notin tx \/ "off_attempted" \in tx \/ txError # OK
       /\ ret = "EINVAL"
       /\ UNCHANGED completeTags
    \/ /\ "submitted" \in tx /\ "off_attempted" \notin tx /\ txError = OK
       /\ \/ /\ seq # job.sequence
             /\ ret = "ESTALE"
             /\ UNCHANGED completeTags
          \/ /\ seq = job.sequence /\ tags = {}
             /\ ret = OK
             /\ UNCHANGED completeTags
          \/ /\ seq = job.sequence /\ tags # {} /\ tags \subseteq completeTags
             /\ ret = "EALREADY"
             /\ UNCHANGED completeTags
          \/ /\ seq = job.sequence /\ ~(tags \subseteq completeTags)
             /\ completeTags' = completeTags \cup tags
             /\ ret = IF completeTags' = Tags THEN "complete" ELSE OK

\* Mutation: quiesced is set although a reset pulse timed out.
ResetUnchecked(ret) ==
    /\ ret \in Faults \cup {OK}
    /\ engine' \in IF ret = OK THEN {"idle"} ELSE {engine, "idle"}
    /\ clamp' = "off"
    /\ tx' = (tx \cup {"off_attempted", "quiesced"}) \ {"submitted"}

(***************************************************************************)
(* The reset pulses of mt6878_camsv_stop once the clamp is on.  A failure  *)
(* leaves the clamp on, the DMA engine reset or not.                       *)
(***************************************************************************)
ResetEngine(ret) ==
    \/ /\ ret \in Faults
       /\ engine' \in {engine, "idle"}
       /\ clamp' = "on"
       /\ tx' = tx \cup {"off_attempted"}
    \/ /\ ret = OK
       /\ engine' = "idle"
       /\ clamp' = "off"
       /\ tx' = (tx \cup {"off_attempted", "quiesced"}) \ {"submitted"}

(***************************************************************************)
(* mt6878_camsv_stop: one bounded reset attempt per transaction.  gate:    *)
(* the STOPPED owner proves source, route and IRQ quiescence now.          *)
(***************************************************************************)
CamsvStop(gate, ret) ==
    \/ /\ "attempted" \notin tx
       /\ ret = "EINVAL"
       /\ UNCHANGED <<tx, txError, engine, clamp>>
    \/ /\ "attempted" \in tx /\ "off_attempted" \in tx
       /\ ret = FirstError(txError, "EALREADY")
       /\ UNCHANGED <<tx, txError, engine, clamp>>
    \/ /\ "attempted" \in tx /\ "off_attempted" \notin tx
       /\ \E r \in Faults \cup {OK} :
             /\ \/ /\ r # OK  \* STOPPED refused, or the clamp not obtained
                   /\ tx' = tx \cup {"off_attempted"}
                   /\ clamp' \in {clamp, "on"}
                   /\ UNCHANGED engine
                \/ gate /\ ResetEngine(r)
             /\ txError' = FirstError(txError, r)
             /\ ret = txError'

-----------------------------------------------------------------------------
(***************************************************************************)
(* mt6878_camsv_vb2_submit: the pair is held across a submission that may  *)
(* have reached the hardware, and dropped only if no MMIO happened.  The   *)
(* first disjunct is its refusals: pair in use, invalid job, or buffers    *)
(* that do not map for the verified DMA owner.                             *)
(***************************************************************************)
Vb2Submit(j, gate, ret) ==
    \/ /\ ret = "EINVAL"
       /\ UNCHANGED <<txVars, engine, finished, pair>>
    \/ /\ pair = {} /\ "attempted" \notin tx /\ CamsvValid(j)
       /\ CamsvSubmit(j, gate, ret)
       /\ pair' = IF ret # OK /\ "hw_attempted" \notin tx' THEN {} ELSE {"held"}

(***************************************************************************)
(* mt6878_camsv_vb2_done: the completing interrupt returns both buffers.   *)
(***************************************************************************)
Vb2Done(status, seq) ==
    /\ pair = {"held"}
    /\ \E ret \in Errnos \cup {OK, "complete"} :
          /\ CamsvDone(status, seq, ret)
          /\ pair' = IF ret = "complete" THEN pair \cup {"completed"} ELSE pair
          /\ buffers' = IF ret = "complete" THEN "done" ELSE buffers
    /\ UNCHANGED <<tx, txError, job, hwVars>>

(***************************************************************************)
(* mt6878_camsv_vb2_stop: incomplete buffers go back only after the reset. *)
(***************************************************************************)
Vb2Stop(gate) ==
    /\ "held" \in pair
    /\ \E ret \in Errnos \cup {OK} : CamsvStop(gate, ret)
    /\ IF "quiesced" \in tx' /\ "completed" \notin pair
         THEN pair' = pair \cup {"completed"} /\ buffers' = "error"
         ELSE UNCHANGED <<pair, buffers>>
    /\ UNCHANGED <<completeTags, job, finished>>

-----------------------------------------------------------------------------
(***************************************************************************)
(* The engine writes one whole group of the submitted frame (external).    *)
(***************************************************************************)
EngineFinishesGroup ==
    /\ engine = "running"
    /\ \E g \in Groups :
          /\ ~(job.groups[g] \subseteq finished)
          /\ finished' = finished \cup job.groups[g]
    /\ UNCHANGED <<txVars, engine, clamp, pair, buffers>>

(***************************************************************************)
(* What a DONE interrupt may read (external): for the submitted sequence   *)
(* only groups that are written, for another frame's sequence anything.    *)
(***************************************************************************)
DoneRead(status, seq) ==
    seq = job.sequence => \A g \in status : job.groups[g] \subseteq finished

CaptureNext ==
    \/ \E j \in Jobs, gate \in BOOLEAN, ret \in Errnos \cup {OK} :
          Vb2Submit(j, gate, ret) /\ UNCHANGED <<clamp, buffers>>
    \/ \E status \in SUBSET Groups, seq \in Sequences :
          DoneRead(status, seq) /\ Vb2Done(status, seq)
    \/ \E gate \in BOOLEAN : Vb2Stop(gate)
    \/ EngineFinishesGroup

CaptureSpec == CaptureInit /\ [][CaptureNext]_captureVars

-----------------------------------------------------------------------------
(***************************************************************************)
(* vb2_done hands the buffers to user space as DONE while the engine still *)
(* runs; by then every tag of this very frame has been written, however    *)
(* the groups split the tags and whatever older frames' interrupts said.   *)
(***************************************************************************)
DoneIsWholeFrame == buffers = "done" => finished = Tags

(***************************************************************************)
(* vb2_stop hands back incomplete buffers as ERROR only after a reset that *)
(* succeeded to the end: engine idle and the shared clamp released.        *)
(***************************************************************************)
ErrorAfterReset == buffers = "error" => engine = "idle" /\ clamp = "off"

=============================================================================
