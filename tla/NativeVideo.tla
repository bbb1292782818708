------------------------------- MODULE NativeVideo -------------------------------
(***************************************************************************)
(* The native video owner (camera-native-video with video-cold.patch and   *)
(* epoch-video.patch): the RAW and PDAF queues, the frame work that runs   *)
(* one epoch per queued pair, and the streamoff or close that retires the  *)
(* capture, over the repeated capture of CaptureEpoch.                     *)
(*                                                                         *)
(* buffers is the vb2 state of the pair last queued; a node's buffer is    *)
(* pending once vb2 has called buffer_queue, i.e. queued and streaming.    *)
(* The two nodes are switched off separately.  A close differs from a      *)
(* streamoff only in holding the registration mutex to its end.            *)
(***************************************************************************)
EXTENDS CaptureEpoch

VARIABLES
    video,      \* flags of struct mt6878_native_video
    streaming,  \* nodes with node->streaming set
    pending,    \* nodes with node->pending set
    work,       \* frame_work: "idle", "scheduled", "running"
    off         \* per node: place of the streamoff or close of its owner

videoVars == <<video, streaming, pending, work, off>>
allVars == <<vars, epochVars, videoVars>>

Nodes == {"raw", "pdaf"}
VideoFlags == {"used", "stopping", "retired", "quarantined", "first_error"}
OffPlaces == {"idle", "registration", "cancel", "retire", "retiring", "streamoff"}

(***************************************************************************)
(* The whole video owner's variables have their types.                     *)
(***************************************************************************)
VideoTypeOK ==
    /\ EpochTypeOK
    /\ video \subseteq VideoFlags
    /\ streaming \subseteq Nodes /\ pending \subseteq Nodes
    /\ work \in {"idle", "scheduled", "running"}
    /\ off \in [Nodes -> OffPlaces]

(***************************************************************************)
(* The registered owner: zeroed by kzalloc, frame_work initialised.        *)
(***************************************************************************)
VideoInit ==
    /\ EpochInit
    /\ video = {} /\ streaming = {} /\ pending = {}
    /\ work = "idle" /\ off = [n \in Nodes |-> "idle"]

-----------------------------------------------------------------------------
(***************************************************************************)
(* QBUF on a streaming node or the STREAMON after it (the queue starts     *)
(* with its first buffer): buffer_queue, start_streaming and maybe_frame,  *)
(* which schedules the pair.  Both are refused while stopping or used.     *)
(***************************************************************************)
QueueOpen == video \cap {"stopping", "used"} = {}

QueueBuffer(n) ==
    /\ QueueOpen /\ n \notin pending
    /\ pending' = pending \cup {n} /\ streaming' = streaming \cup {n}
    /\ buffers' = "active"
    /\ IF pending' = Nodes
         THEN video' = video \cup {"used"} /\ work' = "scheduled"
         ELSE UNCHANGED <<video, work>>
    /\ UNCHANGED <<txVars, hwVars, pair, owner, directError, controllerVars, platformVars,
                   nativeVars, epochVars, off>>

\* Mutation: vb2_buffer_done without looking at the buffer's state.
ReturnPendingAll(nodes) ==
    /\ pending' = pending \ nodes
    /\ buffers' = IF pending # {} /\ pending' = {} THEN "error" ELSE buffers

(***************************************************************************)
(* return_pending of the given nodes only returns what is still ACTIVE.    *)
(* The pair counts as returned with its last buffer.                       *)
(***************************************************************************)
ReturnPending(nodes) ==
    /\ pending' = pending \ nodes
    /\ buffers' = IF pending # {} /\ pending' = {} /\ buffers = "active"
                  THEN "error" ELSE buffers

(***************************************************************************)
(* frame_work up to the epoch operations: nothing when stopping, the pair  *)
(* back when the preflight fails, an epoch if there is none.               *)
(***************************************************************************)
FrameWorkBegins ==
    /\ work = "scheduled"
    /\ \/ /\ "stopping" \in video
          /\ work' = "idle"
          /\ UNCHANGED <<video, pending, buffers, epoch, epochError, control>>
       \/ /\ "stopping" \notin video
          /\ video' = video \cup {"first_error"}
          /\ ReturnPending(Nodes)
          /\ work' = "idle"
          /\ UNCHANGED <<epoch, epochError, control>>
       \/ /\ "stopping" \notin video /\ "cq" \in owner
          /\ work' = "running"
          /\ \E ret \in DirectReturns :
                /\ IF epoch = {} THEN EpochAllocated(ret) ELSE ret = OK /\ UNCHANGED epoch
                /\ control' = IF ret = OK THEN "submit" ELSE "failed"
          /\ UNCHANGED <<video, pending, buffers, epochError>>
    /\ UNCHANGED <<txVars, hwVars, pair, owner, directError, controllerVars, platformVars,
                   nativeVars, sequence, cold, streaming, off>>

(***************************************************************************)
(* The epoch operations, which frame_work calls in turn.                   *)
(***************************************************************************)
FrameWorkRuns ==
    /\ work = "running"
    /\ EpochStep
    /\ UNCHANGED videoVars

(***************************************************************************)
(* frame_result: the pair is detached after a rearm, unless stopping; an   *)
(* error is kept and put on both queues.                                   *)
(***************************************************************************)
FrameWorkEnds ==
    /\ work = "running" /\ control \in {"idle", "failed"}
    /\ work' = "idle" /\ control' = "idle"
    /\ CASE control = "failed" ->
              video' = video \cup {"first_error"} /\ UNCHANGED pending
         [] control = "idle" /\ "stopping" \notin video ->
              video' = video \ {"used"} /\ pending' = {}
         [] OTHER -> UNCHANGED <<video, pending>>
    /\ UNCHANGED <<seninfVars, platformVars, nativeVars, epoch, epochError, sequence, cold,
                   streaming, off>>

-----------------------------------------------------------------------------
(***************************************************************************)
(* stream_off and video_release, called by the owner of node n's queue.    *)
(* stopping is set at once; retire() runs under the registration mutex.    *)
(* Left out are the calls that change nothing: on a quarantined owner, and *)
(* on a node already off of a retired one.                                 *)
(***************************************************************************)
OffBegins(n) ==
    /\ off[n] = "idle"
    /\ "quarantined" \notin video
    /\ "retired" \in video => n \in streaming
    /\ video' = video \cup {"stopping"}
    /\ off' = [off EXCEPT ![n] = "registration"]
    /\ UNCHANGED <<vars, epochVars, streaming, pending, work>>

(***************************************************************************)
(* retire() of an owner the other node has retired succeeds at once; that  *)
(* of a quarantined one returns EBUSY and nothing of the queue is touched. *)
(***************************************************************************)
RegistrationFree == \A n \in Nodes : off[n] \notin {"cancel", "retire", "retiring"}

OffLocks(n) ==
    /\ off[n] = "registration" /\ RegistrationFree
    /\ off' = [off EXCEPT ![n] = CASE "retired" \in video -> "streamoff"
                                   [] "quarantined" \in video -> "idle"
                                   [] OTHER -> "cancel"]
    /\ UNCHANGED <<vars, epochVars, video, streaming, pending, work>>

OffCancelsWork(n) ==
    /\ off[n] = "cancel" /\ work # "running"
    /\ work' = "idle"
    /\ off' = [off EXCEPT ![n] = "retire"]
    /\ UNCHANGED <<vars, epochVars, video, streaming, pending>>

OffRetires(n) ==
    /\ off[n] = "retire"
    /\ RetireBegins \/ RetireRefused
    /\ off' = [off EXCEPT ![n] = "retiring"]
    /\ UNCHANGED <<epochVars, video, streaming, pending, work>>

OffRetireStep(n) ==
    /\ off[n] = "retiring"
    /\ RetireStep
    /\ UNCHANGED <<epochVars, videoVars>>

(***************************************************************************)
(* Its result.  A failure quarantines the owner: queues, leases and        *)
(* buffers stay as they are.                                               *)
(***************************************************************************)
OffEnds(n) ==
    /\ off[n] = "retiring" /\ NativeLockFree
    /\ \/ /\ "bound" \notin native
          /\ IF epoch = {} THEN UNCHANGED epoch ELSE EpochFreed
          /\ video' = video \cup {"retired"}
          /\ off' = [off EXCEPT ![n] = "streamoff"]
       \/ /\ "bound" \in native
          /\ video' = video \cup {"quarantined"}
          /\ off' = [off EXCEPT ![n] = "idle"]
          /\ UNCHANGED epoch
    /\ UNCHANGED <<vars, epochError, sequence, cold, control, streaming, pending, work>>

(***************************************************************************)
(* vb2 streamoff calls stop_streaming on this node's queue only.           *)
(***************************************************************************)
OffStopsStreaming(n) ==
    /\ off[n] = "streamoff"
    /\ streaming' = streaming \ {n}
    /\ ReturnPending({n})
    /\ off' = [off EXCEPT ![n] = "idle"]
    /\ UNCHANGED <<txVars, hwVars, pair, owner, directError, controllerVars, platformVars,
                   nativeVars, epochVars, video, work>>

OffStep(n) ==
    \/ OffLocks(n) \/ OffCancelsWork(n) \/ OffRetires(n) \/ OffRetireStep(n)
    \/ OffEnds(n) \/ OffStopsStreaming(n)

-----------------------------------------------------------------------------
InterruptStep == IrqStep /\ UNCHANGED <<epochVars, videoVars>>
StopWorkStep == WorkStep /\ UNCHANGED <<epochVars, videoVars>>
HardwareStep == EngineRuns /\ UNCHANGED <<epochVars, videoVars>>

(***************************************************************************)
(* Nothing is left to do for a retired or quarantined owner.               *)
(***************************************************************************)
VideoEnded ==
    /\ video \cap {"retired", "quarantined"} # {} /\ \A n \in Nodes : off[n] = "idle"
    /\ UNCHANGED allVars

VideoNext ==
    \/ \E n \in Nodes : QueueBuffer(n) \/ OffBegins(n) \/ OffStep(n)
    \/ FrameWorkBegins \/ FrameWorkRuns \/ FrameWorkEnds
    \/ InterruptStep \/ StopWorkStep \/ HardwareStep
    \/ VideoEnded

(***************************************************************************)
(* Scheduled works and called operations proceed, waits with a timeout     *)
(* included; nothing says that a buffer is queued, that a frame completes, *)
(* that an interrupt comes or that a stream is switched off.               *)
(***************************************************************************)
VideoFairness ==
    /\ WF_allVars(FrameWorkBegins \/ FrameWorkRuns \/ FrameWorkEnds)
    /\ WF_allVars(\E n \in Nodes : OffStep(n))
    /\ WF_allVars(StopWorkStep)
    /\ \A t \in Threads :
          WF_allVars(IrqStops(t) /\ UNCHANGED <<nativeVars, epochVars, videoVars>>)

VideoSpec == VideoInit /\ [][VideoNext]_allVars /\ VideoFairness

-----------------------------------------------------------------------------
(***************************************************************************)
(* epoch_next installs a successor only after the frame before it reached  *)
(* user space as DONE, with no owner holding an error and with the whole   *)
(* path silent: engine, clamp, sensor, PHY, lines, handlers and stop work. *)
(***************************************************************************)
SuccessorIsClean ==
    [][ sequence' # sequence =>
          /\ buffers = "done" /\ engine = "idle" /\ clamp = "off" /\ ~sensorOn
          /\ "phy_configured" \notin route /\ LinesOff /\ worker = "idle"
          /\ directError = OK /\ seninfErrors = {} /\ ~stopError /\ ~nativeError' ]_allVars

(***************************************************************************)
(* Once the epoch's retirement has latched an error, the timeout of its    *)
(* wait among them, no later DONE interrupt, stop work, frame work or      *)
(* streamoff returns the frame as DONE.                                    *)
(***************************************************************************)
LateDoneIsError ==
    [][ "retirement_attempted" \in epoch /\ epochError
          => (buffers' = "done" => buffers = "done") ]_allVars

(***************************************************************************)
(* Once retire() has succeeded nothing is on and nothing is held, and the  *)
(* pair the hardware was lent is back.  What a node may still hold is a    *)
(* buffer the hardware never got, and only until its own streamoff.        *)
(***************************************************************************)
RetiredIsQuiet ==
    "retired" \in video =>
        /\ engine = "idle" /\ ~sensorOn /\ clamp = "off" /\ LinesOff
        /\ "powered" \notin platform /\ native \cap {"bound", "smi_ref", "receiver_ref"} = {}
        /\ "cq" \notin owner /\ epoch = {}
        /\ "hw_attempted" \in tx => buffers # "active"
        /\ pending \subseteq streaming

(***************************************************************************)
(* Every scheduled pair is resolved: the frame work ends.                  *)
(***************************************************************************)
FrameWorkResolves == work = "scheduled" ~> work = "idle"

(***************************************************************************)
(* The streamoffs of both nodes return, whatever the interrupts and the    *)
(* works are doing and however the two calls overlap.                      *)
(***************************************************************************)
OffReturns == (\E n \in Nodes : off[n] # "idle") ~> (\A n \in Nodes : off[n] = "idle")

(***************************************************************************)
(* The PHY goes off last, in the retirement of an epoch and in the final   *)
(* release alike: the sensor no longer drives the lanes, CAMSV no longer   *)
(* writes, and no handler or stop work is left to use the receiver.        *)
(***************************************************************************)
PhyOffIsLast ==
    [][ "phy_configured" \in route /\ "phy_configured" \notin route' =>
          ~sensorOn /\ engine = "idle" /\ LinesOff /\ worker = "idle" ]_allVars

=============================================================================
