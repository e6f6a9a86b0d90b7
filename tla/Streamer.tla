------------------------------ MODULE Streamer ------------------------------
(***************************************************************************)
(* The HTTP streamer (daemon/streamer.cpp).  While PTP is locked a capture *)
(* thread reads the sound device chunk by chunk; the audio of every sink   *)
(* is collected in tmp_streams_, encoded at the end of a file and put in   *)
(* one of files_num_ slots used as a ring.  HTTP threads read the slots,   *)
(* one request at a time or as a live stream, and add and remove sinks at  *)
(* any moment; the session worker starts and stops the capture with the    *)
(* PTP status.                                                             *)
(*                                                                         *)
(* Audio is abstracted to what matters of it: whether it is of the sink    *)
(* that has the id now and of the capture that runs now.                   *)
(***************************************************************************)
EXTENDS Integers, FiniteSetsExt

CONSTANTS
  Sinks,         \* sink ids
  FilesNum,      \* files_num_
  FileChunks     \* chunks in a file: buffer_samples_ / chunk_samples_

\* Config::parse forces the number of files into 4..16.
ASSUME FilesAssumption == FilesNum \in 4..16
ASSUME ChunksAssumption == FileChunks \in Nat \ {0}

VARIABLES
  present,   \* the sinks the session manager has
  running,   \* running_
  pc,        \* where the thread that runs the capture is
  copied,    \* sink -> whether the copy of get_sinks() in use has it, and
             \* whether it was removed since
  held,      \* sink -> total_sink_samples_ as read by the += of save_files
  todo,      \* sink -> what its task of close_files has still to do
  fileId,    \* file_id_
  offset,    \* buffer_offset_, in chunks
  total,     \* total_sink_samples_, in chunks, counted no further than Enough
  tmp,       \* tmp_streams_: how many chunks of this sink and no other
  codec,     \* faac_: the sinks that have an encoder
  output,    \* output_streams_: whose audio is in the slot
  spoiled,   \* history: sinks served by what a removed one left behind
  missed,    \* history: the slots that an encoder's failure left as they were
  live       \* a liveInfos_ entry and the thread that serves it

ring == <<fileId, offset>>
vars == <<present, running, pc, copied, held, todo, fileId, offset, total, tmp,
          codec, output, spoiled, missed, live>>

Files == 0..(FilesNum - 1)

\* Samples a sink must have before its files are offered, in chunks.
Enough == FileChunks * (FilesNum - 1)

\* A tmp_streams_ that also holds chunks of a removed sink.
Mixed == FileChunks + 1

NotLive == [on |-> FALSE]

Init ==
  /\ present = {}
  /\ running = FALSE
  /\ pc = "idle"
  /\ copied = [s \in Sinks |-> "no"]
  /\ held = [s \in Sinks |-> 0]
  /\ todo = [s \in Sinks |-> "none"]
  /\ fileId = 0
  /\ offset = 0
  /\ total = [s \in Sinks |-> 0]
  /\ tmp = [s \in Sinks |-> 0]
  /\ codec = {}
  /\ output = [s \in Sinks |-> [f \in Files |-> "other"]]
  /\ spoiled = {}
  /\ missed = [s \in Sinks |-> {}]
  /\ live = NotLive

-----------------------------------------------------------------------------
(* Sinks, as the session manager keeps them and tells the streamer.        *)

\* on_sink_add does nothing.
AddSink(s) ==
  /\ s \notin present
  /\ present' = present \cup {s}
  /\ UNCHANGED <<running, pc, copied, held, todo, ring, total, tmp, codec,
                 output, spoiled, missed, live>>

\* Mutant: the count outlives the sink.
RemoveSinkKeepsTotal(s) ==
  /\ s \in present
  /\ present' = present \ {s}
  /\ codec' = codec \ {s}
  /\ tmp' = [tmp EXCEPT ![s] = IF @ = 0 THEN 0 ELSE Mixed]
  /\ output' = [output EXCEPT ![s] = [f \in Files |-> "other"]]
  /\ copied' = [copied EXCEPT ![s] = IF @ = "yes" THEN "gone" ELSE @]
  /\ todo' = [todo EXCEPT ![s] = IF @ = "write" THEN "late" ELSE @]
  /\ spoiled' = spoiled \ {s} /\ missed' = [missed EXCEPT ![s] = {}]
  /\ UNCHANGED <<running, pc, held, ring, total, live>>

\* on_sink_remove closes the encoder and forgets how much was captured; the
\* audio collected and the slots stay, and are another sink's from now on.  (The
\* next sink with this id starts clean unless a copy of the sinks is in use.)
RemoveSink(s) ==
  /\ s \in present
  /\ present' = present \ {s}
  /\ codec' = codec \ {s}
  /\ total' = [total EXCEPT ![s] = 0]
  /\ tmp' = [tmp EXCEPT ![s] = IF @ = 0 THEN 0 ELSE Mixed]
  /\ output' = [output EXCEPT ![s] = [f \in Files |-> "other"]]
  /\ copied' = [copied EXCEPT ![s] = IF @ = "yes" THEN "gone" ELSE @]
  /\ todo' = [todo EXCEPT ![s] = IF @ = "write" THEN "late" ELSE @]
  /\ spoiled' = spoiled \ {s} /\ missed' = [missed EXCEPT ![s] = {}]
  /\ UNCHANGED <<running, pc, held, ring, live>>

-----------------------------------------------------------------------------
(* Start and stop, on the session worker (on_ptp_status_change).           *)

\* start_capture: the counts and the ring start again; the slots stay, with
\* the audio of the capture before.  An encoder that a removed sink left behind
\* is still there.
StartCapture ==
  /\ ~running
  /\ pc = "idle"
  /\ running' = TRUE
  /\ total' = [s \in Sinks |-> 0]
  /\ fileId' = 0
  /\ offset' = 0
  /\ pc' = "open"
  /\ output' = [s \in Sinks |-> [f \in Files |-> "other"]]
  /\ spoiled' = spoiled \cap codec /\ missed' = [s \in Sinks |-> {}]
  /\ UNCHANGED <<present, copied, held, todo, tmp, codec, live>>

\* stop_capture clears the flag and waits for the thread to end (open_files is
\* also the last step of start_capture, on the thread that would stop it) ...
StopCapture ==
  /\ running
  /\ pc \notin {"open", "setup"}
  /\ running' = FALSE
  /\ UNCHANGED <<present, pc, copied, held, todo, ring, total, tmp, codec,
                 output, spoiled, missed, live>>

\* ... and then closes the encoders of the sinks there are.
Stopped ==
  /\ ~running
  /\ pc = "ended"
  /\ pc' = "idle"
  /\ codec' = codec \ present
  /\ UNCHANGED <<present, running, copied, held, todo, ring, total, tmp, output,
                 spoiled, missed, live>>

-----------------------------------------------------------------------------
(* The capture thread.                                                     *)

Copy == [s \in Sinks |-> IF s \in present THEN "yes" ELSE "no"]
NoCopy == [s \in Sinks |-> "no"]

\* open_files: the copy of the sinks, and their tmp_streams_ emptied.
OpenFiles ==
  /\ pc = "open"
  /\ pc' = "setup"
  /\ copied' = Copy
  /\ tmp' = [s \in Sinks |-> IF s \in present THEN 0 ELSE tmp[s]]
  /\ UNCHANGED <<present, running, held, todo, ring, total, codec, output,
                 spoiled, missed, live>>

\* open_files: an encoder for each sink of the copy that has none, if it can
\* be opened; without one the file will not be written.  A sink removed since
\* the copy was made gets an encoder all the same, and the next sink with its id
\* finds it.
SetupCodec(failed) ==
  LET in == {s \in Sinks : copied[s] # "no"} IN
  /\ pc = "setup"
  /\ failed \subseteq in \ codec
  /\ pc' = "read"
  /\ codec' = codec \cup (in \ failed)
  /\ spoiled' = spoiled \cup {s \in Sinks : copied[s] = "gone"}
  /\ missed' = [s \in Sinks |-> IF s \in failed THEN missed[s] \cup {fileId}
                                                ELSE missed[s]]
  /\ copied' = NoCopy
  /\ UNCHANGED <<present, running, held, todo, ring, total, tmp, output, live>>

\* pcm_read returned a chunk.  save_files copies the sinks and reads the
\* counts it is about to increase.
ReadChunk ==
  /\ pc = "read"
  /\ running
  /\ pc' = "save"
  /\ copied' = Copy
  /\ held' = total
  /\ UNCHANGED <<present, running, todo, ring, total, tmp, codec, output,
                 spoiled, missed, live>>

\* save_files: counts and audio of the sinks in the copy.  The count of a
\* sink removed in between comes back.
SaveFiles ==
  LET in == {s \in Sinks : copied[s] # "no"} IN
  /\ pc = "save"
  /\ total' = [s \in Sinks |-> IF s \in in THEN Min({held[s] + 1, Enough})
                                           ELSE total[s]]
  /\ tmp' = [s \in Sinks |-> CASE copied[s] = "yes"  -> Min({tmp[s] + 1, Mixed})
                               [] copied[s] = "gone" -> Mixed
                               [] copied[s] = "no"   -> tmp[s]]
  /\ spoiled' = spoiled \cup {s \in Sinks : copied[s] = "gone"}
  /\ copied' = NoCopy
  /\ held' = [s \in Sinks |-> 0]
  /\ offset' = offset + 1
  /\ pc' = IF offset' = FileChunks THEN "close" ELSE "read"
  /\ UNCHANGED <<present, running, todo, fileId, codec, output, missed, live>>

\* close_files: one task for each sink there is.
CloseFiles ==
  /\ pc = "close"
  /\ pc' = "closing"
  /\ todo' = [s \in Sinks |-> IF s \in present THEN "encode" ELSE "none"]
  /\ UNCHANGED <<present, running, copied, held, ring, total, tmp, codec, output,
                 spoiled, missed, live>>

\* A task encodes the file, or leaves at once when there is no encoder.
Encode(s) ==
  /\ todo[s] = "encode"
  /\ todo' = [todo EXCEPT ![s] = IF s \in codec THEN "write" ELSE "none"]
  /\ UNCHANGED <<present, running, pc, copied, held, ring, total, tmp, codec,
                 output, spoiled, missed, live>>

\* faacEncEncode fails: the task ends and the slot keeps its old audio.
EncodeFails(s) ==
  /\ todo[s] = "encode"
  /\ s \in codec
  /\ todo' = [todo EXCEPT ![s] = "none"]
  /\ missed' = [missed EXCEPT ![s] = @ \cup {fileId}]
  /\ UNCHANGED <<present, running, pc, copied, held, ring, total, tmp, codec,
                 output, spoiled, live>>

\* The slot is overwritten with the file: whole, in part another sink's, or
\* that of a sink removed since it was encoded.
WriteOutput(s) ==
  /\ todo[s] \in {"write", "late"}
  /\ todo' = [todo EXCEPT ![s] = "none"]
  /\ output' = [output EXCEPT ![s][fileId] =
       IF todo[s] = "write" /\ tmp[s] = FileChunks THEN "own" ELSE "other"]
  /\ missed' = [missed EXCEPT ![s] = @ \ {fileId}]
  /\ UNCHANGED <<present, running, pc, copied, held, ring, total, tmp, codec,
                 spoiled, live>>

\* Mutant: the ring is one slot longer than it is.
NextFilePastEnd ==
  /\ pc = "closing"
  /\ \A s \in Sinks : todo[s] = "none"
  /\ fileId' = (fileId + 1) % (FilesNum + 1)
  /\ offset' = 0
  /\ pc' = "open"
  /\ UNCHANGED <<present, running, copied, held, todo, total, tmp, codec, output,
                 spoiled, missed, live>>

\* All tasks are joined: the next file.
NextFile ==
  /\ pc = "closing"
  /\ \A s \in Sinks : todo[s] = "none"
  /\ fileId' = (fileId + 1) % FilesNum
  /\ offset' = 0
  /\ pc' = "open"
  /\ UNCHANGED <<present, running, copied, held, todo, total, tmp, codec, output,
                 spoiled, missed, live>>

\* The loop ends because it was told to, or (ReadFails) because pcm_read
\* failed for good: running_ then stays set.
LoopEnds ==
  /\ pc = "read"
  /\ ~running
  /\ pc' = "ended"
  /\ UNCHANGED <<present, running, copied, held, todo, ring, total, tmp, codec,
                 output, spoiled, missed, live>>

ReadFails ==
  /\ pc = "read"
  /\ running
  /\ pc' = "ended"
  /\ UNCHANGED <<present, running, copied, held, todo, ring, total, tmp, codec,
                 output, spoiled, missed, live>>

-----------------------------------------------------------------------------
(* HTTP readers.                                                           *)

\* The checks get_info, get_stream and live_stream_init share.
Ready(s) == s \in present /\ running /\ total[s] >= Enough

\* The slots that are sure to be written when the checks pass: all but the file
\* being captured and the oldest one and, while a file is being closed, the
\* second oldest.  A sink that comes in the middle of a file has no encoder for
\* it, yet its chunks are counted: the count is reached up to one file early.
Written(current) ==
  LET first == IF offset = FileChunks THEN 3 ELSE 2
  IN  {(current + i) % FilesNum : i \in first..(FilesNum - 1)}

\* get_info and get_stream: where a player is told to start.
StartFile(current) == (current + FilesNum \div 2) % FilesNum

\* live_stream_init: where a live stream starts.
LiveFile(current) == (current + 1) % FilesNum

\* live_stream_init: from the oldest slot on.  One live stream (a bound): they
\* do not touch one another.
LiveInit(s) ==
  /\ ~live.on
  /\ Ready(s)
  /\ live' = [on |-> TRUE, sink |-> s, file |-> LiveFile(fileId), unwritable |-> 0]
  /\ UNCHANGED <<present, running, pc, copied, held, todo, ring, total, tmp,
                 codec, output, spoiled, missed>>

\* live_stream_wait, once its file is not the one being captured.
LiveSend ==
  /\ live.on
  /\ live.file # fileId
  /\ live' = [live EXCEPT !.file = (@ + 1) % FilesNum, !.unwritable = 0]
  /\ UNCHANGED <<present, running, pc, copied, held, todo, ring, total, tmp,
                 codec, output, spoiled, missed>>

\* Mutant: the count starts again and the stream is never given up.
LiveBlockedResets ==
  /\ live.on
  /\ live.file # fileId
  /\ live' = [live EXCEPT !.unwritable = (@ + 1) % (FilesNum \div 2)]
  /\ UNCHANGED <<present, running, pc, copied, held, todo, ring, total, tmp,
                 codec, output, spoiled, missed>>

\* The client takes no data: the stream is given up after half a ring.
LiveBlocked ==
  /\ live.on
  /\ live.file # fileId
  /\ live' = IF live.unwritable + 1 >= FilesNum \div 2
             THEN NotLive
             ELSE [live EXCEPT !.unwritable = @ + 1]
  /\ UNCHANGED <<present, running, pc, copied, held, todo, ring, total, tmp,
                 codec, output, spoiled, missed>>

-----------------------------------------------------------------------------
CaptureStep ==
  \/ OpenFiles \/ ReadChunk \/ SaveFiles \/ CloseFiles
  \/ \E failed \in SUBSET Sinks : SetupCodec(failed)
  \/ NextFile \/ LoopEnds
  \/ \E s \in Sinks : Encode(s) \/ WriteOutput(s)

LiveStep == LiveSend \/ LiveBlocked

Next ==
  \/ \E s \in Sinks :
       AddSink(s) \/ RemoveSink(s) \/ EncodeFails(s) \/ LiveInit(s)
  \/ StartCapture \/ StopCapture \/ Stopped
  \/ CaptureStep \/ ReadFails
  \/ LiveStep

\* The capture thread runs and the device delivers.  A live thread looks at
\* file_id_ every second, a file lasts about a second or more and FilesNum - 1
\* files pass before the same one is captured again: strong fairness.
Fairness == WF_vars(CaptureStep) /\ SF_vars(LiveStep)

Spec == Init /\ [][Next]_vars /\ Fairness

-----------------------------------------------------------------------------
\* Every index stays inside the ring, no count leaves its range, and the copy
\* of the sinks is in use only where the capture thread uses one.
TypeOK ==
  /\ present \subseteq Sinks
  /\ running \in BOOLEAN
  /\ pc \in {"idle", "open", "setup", "read", "save", "close", "closing", "ended"}
  /\ copied \in [Sinks -> {"no", "yes", "gone"}]
  /\ held \in [Sinks -> 0..Enough]
  /\ todo \in [Sinks -> {"none", "encode", "write", "late"}]
  /\ fileId \in Files
  /\ offset \in 0..FileChunks
  /\ total \in [Sinks -> 0..Enough]
  /\ tmp \in [Sinks -> 0..Mixed]
  /\ codec \subseteq Sinks
  /\ output \in [Sinks -> [Files -> {"own", "other"}]]
  /\ spoiled \subseteq Sinks
  /\ missed \in [Sinks -> SUBSET Files]
  /\ live \in {NotLive} \cup [on: {TRUE}, sink: Sinks, file: Files,
                              unwritable: 0..(FilesNum \div 2 - 1)]
  /\ pc \notin {"setup", "save"} => copied = NoCopy
  /\ pc # "closing" => \A s \in Sinks : todo[s] = "none"

Holds(s, f) == output[s][f] = "own" \/ f \in missed[s]

\* When get_stream and get_info let a request through, all slots but the file
\* being captured and the oldest (and the second oldest in the moment a file is
\* closed) hold a whole file of the sink that has the id now, captured since the
\* last start: never what a removed sink, or the capture before the last PTP
\* unlock, left in the slot.  Excepted are the one slot whose file the encoder
\* failed to make and, until it is removed or the capture starts again, a sink
\* that inherits the count or the encoder of one that was removed while the
\* capture thread held its copy of the sinks.
ServedFresh ==
  \A s \in Sinks \ spoiled :
    Ready(s) => \A f \in Written(fileId) : Holds(s, f)

\* A live stream is never stuck on a file: as long as the capture goes on it
\* sends the file and moves to the next, or is ended because the client takes
\* nothing.
LiveServed ==
  \A f \in Files :
    (live.on /\ live.file = f) ~>
      (~live.on \/ live.file # f \/ ~running \/ pc = "ended")
=============================================================================
