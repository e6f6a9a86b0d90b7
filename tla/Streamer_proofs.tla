-------------------------- MODULE Streamer_proofs --------------------------
(* What a request is sent to, for any number of sinks, any ring of files   *)
(* and any length of a file.                                               *)
EXTENDS Streamer, TLAPS

-----------------------------------------------------------------------------
(* The inductive invariant.                                                *)

(* The slot i files before the one being captured.                         *)
Slot(f, i) == IF f >= i THEN f - i ELSE f - i + FilesNum

(* How far the file being captured is where the capture thread is.         *)
Phase ==
  /\ pc \in {"open", "setup"} => offset = 0
  /\ pc \in {"read", "save"} => offset < FileChunks
  /\ pc \in {"close", "closing"} => offset = FileChunks

(* A copy of the sinks is right about a sink that is still there, and so   *)
(* is the count read before an increase.                                   *)
CopyRight(s) ==
  copied[s] = "yes" => s \in present /\ (pc = "save" => held[s] = total[s])

(* Nothing is counted for a sink that is not there.                        *)
NothingCounted(s) == s \notin present => total[s] = 0

(* The file being captured can be encoded, or is known to be missed.       *)
Encoding(s) == s \in codec \/ fileId \in missed[s]

(* A sink that was counted is in the copy.  One that was counted before    *)
(* the file being captured was opened has all of the file collected and an *)
(* encoder for it ...                                                      *)
Collected(s) ==
  /\ pc \in {"setup", "save"} /\ total[s] > 0 => copied[s] = "yes"
  /\ pc = "setup" /\ total[s] > 0 => tmp[s] = 0
  /\ pc \in {"read", "save", "close", "closing"} /\ total[s] > offset =>
       tmp[s] = offset
  /\ pc \in {"read", "save", "close"} /\ total[s] > offset => Encoding(s)

(* ... so that its task of close_files writes it to the slot.              *)
Closed(s) ==
  pc = "closing" /\ total[s] > offset =>
    \/ todo[s] = "encode" /\ Encoding(s)
    \/ todo[s] = "write"
    \/ todo[s] = "none" /\ Holds(s, fileId)

(* The slot i files back is the sink's own when so much is counted that    *)
(* the sink was counted before that file was opened.                       *)
Slots(s) ==
  \A i \in 1..(FilesNum - 2) :
    total[s] > offset + FileChunks * i => Holds(s, Slot(fileId, i))

(* All but the first except a sink that serves what a removed one left.    *)
SinkInv(s) ==
  /\ CopyRight(s)
  /\ s \notin spoiled => NothingCounted(s) /\ Collected(s) /\ Closed(s) /\ Slots(s)

IInv == TypeOK /\ Phase /\ \A s \in Sinks : SinkInv(s)

-----------------------------------------------------------------------------
(* Arithmetic of the ring and of the counts.                               *)

(* The smaller of two numbers.                                             *)
LEMMA MinTwo ==
  ASSUME NEW a \in Nat, NEW b \in Nat
  PROVE  Min({a, b}) = IF a <= b THEN a ELSE b
  <1> DEFINE m == IF a <= b THEN a ELSE b
  <1>1. m \in {a, b} /\ \A y \in {a, b} : m <= y
    OBVIOUS
  <1>2. \A x \in {a, b} : (\A y \in {a, b} : x <= y) => x = m
    OBVIOUS
  <1> QED
    BY <1>1, <1>2 DEF Min

(* The next file of the ring.                                              *)
LEMMA Successor ==
  ASSUME NEW f \in Files
  PROVE  (f + 1) % FilesNum = IF f + 1 = FilesNum THEN 0 ELSE f + 1
  BY FilesAssumption DEF Files

(* A file has chunks, and i + 1 files have as many more than i.            *)
LEMMA Products ==
  /\ FileChunks \in Nat /\ FileChunks >= 1 /\ FilesNum \in 4..16
  /\ Enough \in Nat /\ Enough >= FileChunks + FileChunks + FileChunks
  /\ Mixed \in Nat /\ Mixed = FileChunks + 1
  /\ \A i \in Nat : FileChunks * i \in Nat
  /\ \A i \in Nat : FileChunks * (i + 1) = FileChunks * i + FileChunks
  /\ \A i \in 1..(FilesNum - 3) : FileChunks * i + FileChunks + FileChunks <= Enough
  /\ \A i \in 1..(FilesNum - 2) : FileChunks * i + FileChunks <= Enough
  <1>1. FileChunks \in Nat /\ FileChunks >= 1 /\ FilesNum \in 4..16
    BY FilesAssumption, ChunksAssumption
  <1>2. \A i \in Nat : FileChunks * i \in Nat
    BY <1>1
  <1>3. \A i \in Nat : FileChunks * (i + 1) = FileChunks * i + FileChunks
    BY <1>1
  <1>4. \A i, j \in Nat : i <= j => FileChunks * i <= FileChunks * j
    BY <1>1
  <1>5. Enough = FileChunks * (FilesNum - 1) /\ FilesNum - 1 \in Nat
    BY <1>1 DEF Enough
  <1>6. \A i \in 1..(FilesNum - 3) : FileChunks * i + FileChunks + FileChunks <= Enough
    <2> SUFFICES ASSUME NEW i \in 1..(FilesNum - 3)
                 PROVE  FileChunks * i + FileChunks + FileChunks <= Enough
      OBVIOUS
    <2>1. i \in Nat /\ i + 1 \in Nat /\ (i + 1) + 1 \in Nat /\ (i + 1) + 1 <= FilesNum - 1
      BY <1>1
    <2>2. FileChunks * ((i + 1) + 1) = FileChunks * i + FileChunks + FileChunks
      BY <1>1, <1>2, <1>3, <2>1
    <2> QED
      BY <1>4, <1>5, <2>1, <2>2
  <1>8. \A i \in 1..(FilesNum - 2) : FileChunks * i + FileChunks <= Enough
    <2> SUFFICES ASSUME NEW i \in 1..(FilesNum - 2)
                 PROVE  FileChunks * i + FileChunks <= Enough
      OBVIOUS
    <2>1. i \in Nat /\ i + 1 \in Nat /\ i + 1 <= FilesNum - 1
      BY <1>1
    <2>2. FileChunks * (i + 1) = FileChunks * i + FileChunks
      BY <1>3, <2>1
    <2> QED
      BY <1>4, <1>5, <2>1, <2>2
  <1>7. Enough >= FileChunks + FileChunks + FileChunks
    <2>1. 1 \in 1..(FilesNum - 3)
      BY <1>1
    <2>2. FileChunks * 1 = FileChunks
      BY <1>1
    <2> QED
      BY <1>6, <2>1, <2>2
  <1> QED
    BY <1>1, <1>2, <1>3, <1>5, <1>6, <1>7, <1>8 DEF Mixed

(* Less than a file counted before the one being captured.                 *)
LEMMA TooFew ==
  ASSUME NEW t \in Nat, NEW o \in Nat, t <= o
  PROVE  /\ ~(t > o)
         /\ \A i \in 1..(FilesNum - 2) : ~(t > o + FileChunks * i)
  <1>1. \A i \in 1..(FilesNum - 2) : FileChunks * i \in Nat
    BY Products
  <1> QED
    BY <1>1

(* Going back in the ring from a file: never to the file itself, one step  *)
(* less from the next file, and to every file a request is sent to.        *)
LEMMA Ring ==
  ASSUME NEW f \in Files
  PROVE  /\ (f + 1) % FilesNum \in Files
         /\ \A i \in 1..(FilesNum - 2) : Slot(f, i) \in Files \ {f}
         /\ Slot((f + 1) % FilesNum, 1) = f
         /\ \A i \in 1..(FilesNum - 2) :
              i # 1 => Slot((f + 1) % FilesNum, i) = Slot(f, i - 1)
         /\ \A g \in Written(f) : \E i \in 1..(FilesNum - 2) :
              g = Slot(f, i) /\ (offset = FileChunks => i <= FilesNum - 3)
  <1>0. FilesNum \in 4..16 /\ f \in 0..(FilesNum - 1) /\ Files = 0..(FilesNum - 1)
    BY FilesAssumption DEF Files
  <1> DEFINE n == (f + 1) % FilesNum
  <1>1. n = IF f + 1 = FilesNum THEN 0 ELSE f + 1
    BY Successor
  <1>4. n \in Files
    BY <1>0, <1>1
  <1>5. \A i \in 1..(FilesNum - 2) : Slot(f, i) \in Files \ {f}
    BY <1>0 DEF Slot
  <1>6. Slot(n, 1) = f
    BY <1>0, <1>1 DEF Slot
  <1>7. \A i \in 1..(FilesNum - 2) : i # 1 => Slot(n, i) = Slot(f, i - 1)
    BY <1>0, <1>1 DEF Slot
  <1>8. ASSUME NEW g \in Written(f)
        PROVE  \E i \in 1..(FilesNum - 2) :
                 g = Slot(f, i) /\ (offset = FileChunks => i <= FilesNum - 3)
    <2>1. PICK j \in (IF offset = FileChunks THEN 3 ELSE 2)..(FilesNum - 1) :
            g = (f + j) % FilesNum
      BY DEF Written
    <2>2. /\ j \in 2..(FilesNum - 1) /\ (offset = FileChunks => j >= 3)
          /\ (f + j) % FilesNum = IF f + j < FilesNum THEN f + j ELSE f + j - FilesNum
      BY <1>0, <2>1
    <2>3. /\ FilesNum - j \in 1..(FilesNum - 2)
          /\ offset = FileChunks => FilesNum - j <= FilesNum - 3
      BY <1>0, <2>2
    <2>4. g = Slot(f, FilesNum - j)
      BY <1>0, <2>1, <2>2 DEF Slot
    <2> QED
      BY <2>3, <2>4
  <1> QED
    BY <1>4, <1>5, <1>6, <1>7, <1>8

-----------------------------------------------------------------------------
(* Nothing is captured and no sink is known initially.                     *)
LEMMA InitIInv == Init => IInv
  <1> SUFFICES ASSUME Init PROVE IInv
    OBVIOUS
  <1>1. TypeOK
    <2>1. /\ 0 \in 0..Enough /\ 0 \in 0..Mixed /\ 0 \in 0..FileChunks /\ 0 \in Files
      BY Products DEF Files
    <2>2. output \in [Sinks -> [Files -> {"own", "other"}]]
      BY DEF Init
    <2> QED
      BY <2>1, <2>2 DEF Init, TypeOK, NoCopy
  <1>2. \A s \in Sinks : Slots(s)
    BY Products DEF Init, Slots
  <1>3. Phase
    BY DEF Init, Phase
  <1>4. ASSUME NEW s \in Sinks
        PROVE  SinkInv(s)
    <2>1. pc = "idle" /\ copied[s] = "no" /\ total[s] = 0
      BY DEF Init
    <2> QED
      BY <1>2, <2>1 DEF SinkInv, CopyRight, NothingCounted, Encoding, Collected, Closed
  <1> QED
    BY <1>1, <1>3, <1>4 DEF IInv

(* The value of the types at a sink.                                       *)
LEMMA SinkTypes ==
  ASSUME TypeOK, NEW s \in Sinks
  PROVE  /\ copied[s] \in {"no", "yes", "gone"}
         /\ todo[s] \in {"none", "encode", "write", "late"}
         /\ held[s] \in Nat /\ held[s] <= Enough
         /\ total[s] \in Nat /\ total[s] <= Enough
         /\ tmp[s] \in Nat /\ tmp[s] <= Mixed
         /\ offset \in Nat /\ offset <= FileChunks
         /\ fileId \in Files /\ output[s] \in [Files -> {"own", "other"}]
         /\ pc \notin {"setup", "save"} => copied[s] = "no"
         /\ pc # "closing" => todo[s] = "none"
  BY Products DEF TypeOK, NoCopy

(* A step that touches no variable of a sink's but running and live, and   *)
(* perhaps makes the sink present or excepts it.                           *)
LEMMA SinkFrame ==
  ASSUME NEW s \in Sinks, SinkInv(s),
         UNCHANGED <<pc, fileId, offset>>,
         copied'[s] = copied[s], held'[s] = held[s], todo'[s] = todo[s],
         total'[s] = total[s], tmp'[s] = tmp[s], output'[s] = output[s],
         s \in present => s \in present', s \in codec => s \in codec',
         s \in spoiled => s \in spoiled', missed[s] \subseteq missed'[s]
  PROVE  SinkInv(s)'
  BY DEF SinkInv, CopyRight, NothingCounted, Encoding, Collected, Closed, Slots, Holds

(* A step outside closing that leaves the slots and the counts alone.      *)
LEMMA SlotsFrame ==
  ASSUME NEW s \in Sinks, Slots(s), UNCHANGED <<fileId, offset>>,
         total'[s] = total[s], output'[s] = output[s], missed[s] \subseteq missed'[s]
  PROVE  Slots(s)'
  BY DEF Slots, Holds

(* A step of a live stream, or of nothing at all.                          *)
LEMMA LiveOnly ==
  ASSUME IInv, TypeOK',
         UNCHANGED <<present, pc, copied, held, todo, ring, total, tmp, codec,
                     output, spoiled, missed>>
  PROVE  IInv'
  <1>1. Phase'
    BY DEF IInv, Phase, ring
  <1>2. \A s \in Sinks : SinkInv(s)'
    BY SinkFrame DEF IInv, ring
  <1> QED
    BY <1>1, <1>2 DEF IInv

(* A sink comes: nothing was counted for it.                               *)
LEMMA AddSinkStep ==
  ASSUME IInv, NEW r \in Sinks, AddSink(r)
  PROVE  IInv'
  <1>1. TypeOK'
    BY DEF IInv, TypeOK, AddSink, ring, Files, Enough, Mixed, NoCopy
  <1>2. Phase'
    BY DEF IInv, Phase, AddSink, ring
  <1>3. \A s \in Sinks : SinkInv(s)'
    BY SinkFrame DEF IInv, AddSink, ring
  <1> QED
    BY <1>1, <1>2, <1>3 DEF IInv

(* A sink goes, with all that was counted for it.                          *)
LEMMA RemoveSinkStep ==
  ASSUME IInv, NEW r \in Sinks, RemoveSink(r)
  PROVE  IInv'
  <1>1. /\ present' = present \ {r} /\ codec' = codec \ {r}
        /\ total' = [total EXCEPT ![r] = 0]
        /\ tmp' = [tmp EXCEPT ![r] = IF @ = 0 THEN 0 ELSE Mixed]
        /\ output' = [output EXCEPT ![r] = [f \in Files |-> "other"]]
        /\ copied' = [copied EXCEPT ![r] = IF @ = "yes" THEN "gone" ELSE @]
        /\ todo' = [todo EXCEPT ![r] = IF @ = "write" THEN "late" ELSE @]
        /\ spoiled' = spoiled \ {r} /\ missed' = [missed EXCEPT ![r] = {}]
        /\ UNCHANGED <<running, pc, held, fileId, offset, live>>
    BY DEF RemoveSink, ring
  <1>2. TypeOK'
    <2>1. /\ copied' \in [Sinks -> {"no", "yes", "gone"}]
          /\ todo' \in [Sinks -> {"none", "encode", "write", "late"}]
          /\ total' \in [Sinks -> 0..Enough] /\ tmp' \in [Sinks -> 0..Mixed]
          /\ output' \in [Sinks -> [Files -> {"own", "other"}]]
          /\ present' \subseteq Sinks /\ codec' \subseteq Sinks
          /\ spoiled' \subseteq Sinks /\ missed' \in [Sinks -> SUBSET Files]
      BY <1>1, Products DEF IInv, TypeOK
    <2>2. /\ pc' \notin {"setup", "save"} => copied' = NoCopy'
          /\ pc' # "closing" => \A s \in Sinks : todo'[s] = "none"
      BY <1>1 DEF IInv, TypeOK, NoCopy
    <2> QED
      BY <1>1, <2>1, <2>2 DEF IInv, TypeOK, Files, Enough, Mixed
  <1>3. Phase'
    BY <1>1 DEF IInv, Phase
  <1>4. ASSUME NEW s \in Sinks
        PROVE  SinkInv(s)'
    <2>1. CASE s = r
      <3>1. total'[s] = 0 /\ s \notin present' /\ copied'[s] # "yes"
        BY <1>1, <2>1 DEF IInv, TypeOK
      <3>2. offset' \in Nat
        BY <1>2, Products DEF TypeOK
      <3>3. ~(total'[s] > 0) /\ ~(total'[s] > offset')
        BY <3>1, <3>2
      <3>4. Slots(s)'
        BY <3>1, <3>2, TooFew DEF Slots
      <3> QED
        BY <3>1, <3>3, <3>4
           DEF SinkInv, CopyRight, NothingCounted, Encoding, Collected, Closed
    <2>2. CASE s # r
      <3>1. /\ s \in present => s \in present'
            /\ s \in codec => s \in codec'
            /\ total'[s] = total[s] /\ tmp'[s] = tmp[s] /\ output'[s] = output[s]
            /\ copied'[s] = copied[s] /\ todo'[s] = todo[s]
            /\ missed'[s] = missed[s] /\ (s \in spoiled => s \in spoiled')
        BY <1>1, <2>2 DEF IInv, TypeOK
      <3> QED
        BY <1>1, <3>1, SinkFrame DEF IInv
    <2> QED
      BY <2>1, <2>2
  <1> QED
    BY <1>2, <1>3, <1>4 DEF IInv

(* A capture starts: no count, whatever the slots hold.                    *)
LEMMA StartCaptureStep ==
  ASSUME IInv, StartCapture
  PROVE  IInv'
  <1>1. TypeOK'
    <2>1. /\ 0 \in 0..Enough /\ 0 \in 0..FileChunks /\ 0 \in Files
      BY Products DEF Files
    <2>2. output' \in [Sinks -> [Files -> {"own", "other"}]]
      BY DEF StartCapture
    <2>3. total' \in [Sinks -> 0..Enough] /\ fileId' \in Files /\ offset' \in 0..FileChunks
      BY <2>1 DEF StartCapture
    <2>4. copied' = NoCopy
      BY DEF IInv, TypeOK, StartCapture
    <2> QED
      BY <2>2, <2>3, <2>4 DEF IInv, TypeOK, StartCapture, Files, NoCopy, Enough, Mixed
  <1>2. Phase'
    BY DEF Phase, StartCapture
  <1>3. \A s \in Sinks : Slots(s)'
    BY Products DEF Slots, StartCapture
  <1>4. ASSUME NEW s \in Sinks
        PROVE  SinkInv(s)'
    <2>1. pc' = "open" /\ copied'[s] = "no" /\ total'[s] = 0
      BY SinkTypes DEF IInv, StartCapture
    <2> QED
      BY <1>3, <2>1 DEF SinkInv, CopyRight, NothingCounted, Encoding, Collected, Closed
  <1> QED
    BY <1>1, <1>2, <1>4 DEF IInv

(* The loop ends, and then the encoders are closed: nothing is said of a   *)
(* sink but its count and its slots.                                       *)
LEMMA EndStep ==
  ASSUME IInv, LoopEnds \/ ReadFails \/ Stopped
  PROVE  IInv'
  <1>0. /\ UNCHANGED <<present, copied, held, todo, fileId, offset, total, tmp,
                       output, spoiled, missed, live>>
        /\ running' \in BOOLEAN /\ codec' \subseteq Sinks
        /\ pc' \in {"ended", "idle"} /\ pc \in {"read", "ended"}
    BY DEF IInv, TypeOK, LoopEnds, ReadFails, Stopped, ring
  <1>1. TypeOK'
    BY <1>0 DEF IInv, TypeOK, NoCopy, Files, Enough, Mixed
  <1>2. Phase'
    BY <1>0 DEF Phase
  <1>3. ASSUME NEW s \in Sinks
        PROVE  SinkInv(s)'
    <2>1. SinkInv(s) /\ copied[s] = "no" /\ (Slots(s) => Slots(s)')
      BY <1>0, SinkTypes, SlotsFrame DEF IInv
    <2> QED
      BY <1>0, <2>1 DEF SinkInv, CopyRight, NothingCounted, Encoding, Collected, Closed
  <1> QED
    BY <1>1, <1>2, <1>3 DEF IInv

(* A file is opened: a sink that was counted is there, so it is copied and *)
(* its collected audio is emptied.                                         *)
LEMMA OpenFilesStep ==
  ASSUME IInv, OpenFiles
  PROVE  IInv'
  <1>0. /\ pc = "open" /\ pc' = "setup" /\ copied' = Copy
        /\ tmp' = [s \in Sinks |-> IF s \in present THEN 0 ELSE tmp[s]]
        /\ UNCHANGED <<present, running, held, todo, fileId, offset, total, codec,
                       output, spoiled, missed, live>>
    BY DEF OpenFiles, ring
  <1>1. TypeOK'
    <2>1. tmp' \in [Sinks -> 0..Mixed]
      BY <1>0, Products DEF IInv, TypeOK
    <2>2. copied' \in [Sinks -> {"no", "yes", "gone"}]
      BY <1>0 DEF Copy
    <2> QED
      BY <1>0, <2>1, <2>2 DEF IInv, TypeOK, Files, Enough, Mixed
  <1>2. Phase'
    BY <1>0 DEF IInv, Phase
  <1>3. ASSUME NEW s \in Sinks
        PROVE  SinkInv(s)'
    <2>1. SinkInv(s) /\ total[s] \in Nat /\ (Slots(s) => Slots(s)')
      BY <1>0, SinkTypes, SlotsFrame DEF IInv
    <2>2. /\ s \in present => copied'[s] = "yes" /\ tmp'[s] = 0
          /\ s \notin present => copied'[s] = "no"
      BY <1>0 DEF Copy
    <2> QED
      BY <1>0, <2>1, <2>2 DEF SinkInv, CopyRight, NothingCounted, Encoding, Collected, Closed
  <1> QED
    BY <1>1, <1>2, <1>3 DEF IInv

(* The encoders of the copied sinks are opened; where that fails the file  *)
(* will be missed.                                                         *)
LEMMA SetupCodecStep ==
  ASSUME IInv, NEW failed \in SUBSET Sinks, SetupCodec(failed)
  PROVE  IInv'
  <1> DEFINE in == {s \in Sinks : copied[s] # "no"}
  <1>0. /\ pc = "setup" /\ pc' = "read" /\ copied' = NoCopy
        /\ codec' = codec \cup (in \ failed)
        /\ spoiled' = spoiled \cup {s \in Sinks : copied[s] = "gone"}
        /\ missed' = [s \in Sinks |-> IF s \in failed THEN missed[s] \cup {fileId}
                                                      ELSE missed[s]]
        /\ UNCHANGED <<present, running, held, todo, fileId, offset, total, tmp,
                       output, live>>
    BY DEF SetupCodec, ring
  <1>1. TypeOK'
    <2>1. /\ codec' \subseteq Sinks /\ spoiled' \subseteq Sinks
          /\ missed' \in [Sinks -> SUBSET Files]
      BY <1>0 DEF IInv, TypeOK
    <2>2. copied' \in [Sinks -> {"no", "yes", "gone"}]
      BY <1>0 DEF NoCopy
    <2> QED
      BY <1>0, <2>1, <2>2 DEF IInv, TypeOK, NoCopy, Files, Enough, Mixed
  <1>2. Phase' /\ offset = 0
    BY <1>0, Products DEF IInv, Phase
  <1>3. ASSUME NEW s \in Sinks
        PROVE  SinkInv(s)'
    <2>0. missed[s] \subseteq missed'[s]
      BY <1>0
    <2>1. SinkInv(s) /\ (Slots(s) => Slots(s)')
      BY <1>0, <2>0, SinkTypes, SlotsFrame DEF IInv
    <2>2. copied'[s] = "no"
      BY <1>0 DEF NoCopy
    <2>3. copied[s] = "yes" => Encoding(s)'
      BY <1>0 DEF Encoding
    <2>4. s \notin spoiled' => s \notin spoiled
      BY <1>0
    <2> QED
      BY <1>0, <1>2, <2>1, <2>2, <2>3, <2>4
         DEF SinkInv, CopyRight, NothingCounted, Encoding, Collected, Closed
  <1> QED
    BY <1>1, <1>2, <1>3 DEF IInv

(* The counts are read before they are increased.                          *)
LEMMA ReadChunkStep ==
  ASSUME IInv, ReadChunk
  PROVE  IInv'
  <1>0. /\ pc = "read" /\ pc' = "save" /\ copied' = Copy /\ held' = total
        /\ UNCHANGED <<present, running, todo, fileId, offset, total, tmp, codec,
                       output, spoiled, missed, live>>
    BY DEF ReadChunk, ring
  <1>1. TypeOK'
    <2>1. copied' \in [Sinks -> {"no", "yes", "gone"}]
      BY <1>0 DEF Copy
    <2> QED
      BY <1>0, <2>1 DEF IInv, TypeOK, Files, Enough, Mixed
  <1>2. Phase'
    BY <1>0 DEF IInv, Phase
  <1>3. ASSUME NEW s \in Sinks
        PROVE  SinkInv(s)'
    <2>1. SinkInv(s) /\ total[s] \in Nat /\ (Slots(s) => Slots(s)')
      BY <1>0, SinkTypes, SlotsFrame DEF IInv
    <2>2. /\ s \in present => copied'[s] = "yes"
          /\ s \notin present => copied'[s] = "no"
      BY <1>0 DEF Copy
    <2> QED
      BY <1>0, <2>1, <2>2 DEF SinkInv, CopyRight, NothingCounted, Encoding, Collected, Closed
  <1> QED
    BY <1>1, <1>2, <1>3 DEF IInv

(* The tasks of a finished file: one for every sink that was counted.      *)
LEMMA CloseFilesStep ==
  ASSUME IInv, CloseFiles
  PROVE  IInv'
  <1>0. /\ pc = "close" /\ pc' = "closing"
        /\ todo' = [s \in Sinks |-> IF s \in present THEN "encode" ELSE "none"]
        /\ UNCHANGED <<present, running, copied, held, fileId, offset, total, tmp,
                       codec, output, spoiled, missed, live>>
    BY DEF CloseFiles, ring
  <1>1. TypeOK'
    <2>1. todo' \in [Sinks -> {"none", "encode", "write", "late"}]
      BY <1>0
    <2> QED
      BY <1>0, <2>1 DEF IInv, TypeOK, NoCopy, Files, Enough, Mixed
  <1>2. Phase'
    BY <1>0 DEF IInv, Phase
  <1>3. ASSUME NEW s \in Sinks
        PROVE  SinkInv(s)'
    <2>1. /\ SinkInv(s) /\ total[s] \in Nat /\ offset \in Nat
          /\ copied[s] = "no" /\ (Slots(s) => Slots(s)')
      BY <1>0, SinkTypes, SlotsFrame DEF IInv
    <2>2. s \in present => todo'[s] = "encode"
      BY <1>0
    <2> QED
      BY <1>0, <2>1, <2>2 DEF SinkInv, CopyRight, NothingCounted, Encoding, Collected, Closed
  <1> QED
    BY <1>1, <1>2, <1>3 DEF IInv

(* A task encodes, for a sink with the whole file has an encoder, or the   *)
(* file is missed.                                                         *)
LEMMA EncodeStep ==
  ASSUME IInv, NEW r \in Sinks, Encode(r) \/ EncodeFails(r)
  PROVE  IInv'
  <1>0. /\ todo[r] = "encode"
        /\ \/ r \in codec /\ todo' = [todo EXCEPT ![r] = "write"]
           \/ r \notin codec /\ todo' = [todo EXCEPT ![r] = "none"]
           \/ /\ todo' = [todo EXCEPT ![r] = "none"]
              /\ missed' = [missed EXCEPT ![r] = @ \cup {fileId}]
        /\ missed' = missed \/ missed' = [missed EXCEPT ![r] = @ \cup {fileId}]
        /\ UNCHANGED <<present, running, pc, copied, held, fileId, offset, total,
                       tmp, codec, output, spoiled, live>>
    BY DEF Encode, EncodeFails, ring
  <1>1. TypeOK'
    <2>1. todo' \in [Sinks -> {"none", "encode", "write", "late"}]
      BY <1>0 DEF IInv, TypeOK
    <2>2. pc = "closing"
      BY <1>0 DEF IInv, TypeOK
    <2>3. missed' \in [Sinks -> SUBSET Files]
      <3>1. missed \in [Sinks -> SUBSET Files] /\ fileId \in Files
        BY DEF IInv, TypeOK
      <3>2. missed[r] \cup {fileId} \in SUBSET Files
        BY <3>1
      <3> QED
        BY <1>0, <3>1, <3>2
    <2> QED
      BY <1>0, <2>1, <2>2, <2>3 DEF IInv, TypeOK, NoCopy, Files, Enough, Mixed
  <1>2. Phase'
    BY <1>0 DEF IInv, Phase
  <1>3. ASSUME NEW s \in Sinks
        PROVE  SinkInv(s)'
    <2>0. missed[s] \subseteq missed'[s]
      BY <1>0 DEF IInv, TypeOK
    <2>1. SinkInv(s) /\ (Slots(s) => Slots(s)')
      BY <1>0, <2>0, SlotsFrame DEF IInv
    <2>2. CASE s = r
      <3>1. \/ todo'[r] = "write"
            \/ todo'[r] = "none" /\ (r \notin codec \/ fileId \in missed'[r])
        BY <1>0 DEF IInv, TypeOK
      <3>2. pc = "closing"
        BY <1>0 DEF IInv, TypeOK
      <3> QED
        BY <1>0, <2>0, <2>1, <2>2, <3>1, <3>2
           DEF SinkInv, CopyRight, NothingCounted, Encoding, Collected, Closed, Holds
    <2>3. CASE s # r
      <3>1. todo'[s] = todo[s]
        BY <1>0, <2>3 DEF IInv, TypeOK
      <3> QED
        BY <1>0, <2>0, <2>1, <3>1, SinkFrame
    <2> QED
      BY <2>2, <2>3
  <1> QED
    BY <1>1, <1>2, <1>3 DEF IInv

(* A chunk is collected and counted.  A sink whose count passes the length *)
(* of the file so far had passed it before, so it has all of it.           *)
LEMMA SaveFilesStep ==
  ASSUME IInv, SaveFiles
  PROVE  IInv'
  <1> DEFINE in == {s \in Sinks : copied[s] # "no"}
  <1>0. /\ pc = "save"
        /\ total' = [s \in Sinks |-> IF s \in in THEN Min({held[s] + 1, Enough})
                                                  ELSE total[s]]
        /\ tmp' = [s \in Sinks |-> CASE copied[s] = "yes"  -> Min({tmp[s] + 1, Mixed})
                                      [] copied[s] = "gone" -> Mixed
                                      [] copied[s] = "no"   -> tmp[s]]
        /\ spoiled' = spoiled \cup {s \in Sinks : copied[s] = "gone"}
        /\ copied' = NoCopy /\ held' = [s \in Sinks |-> 0]
        /\ offset' = offset + 1
        /\ pc' = IF offset' = FileChunks THEN "close" ELSE "read"
        /\ UNCHANGED <<present, running, todo, fileId, codec, output, missed, live>>
    BY DEF SaveFiles
  <1>1. /\ offset \in Nat /\ offset < FileChunks /\ FileChunks \in Nat
        /\ Enough \in Nat /\ Mixed = FileChunks + 1 /\ Mixed \in Nat
    BY <1>0, Products DEF IInv, TypeOK, Phase
  <1>2. ASSUME NEW s \in Sinks
        PROVE  /\ total'[s] = IF copied[s] # "no"
                              THEN (IF held[s] + 1 <= Enough THEN held[s] + 1 ELSE Enough)
                              ELSE total[s]
               /\ copied[s] = "yes" =>
                    tmp'[s] = IF tmp[s] + 1 <= Mixed THEN tmp[s] + 1 ELSE Mixed
               /\ copied[s] = "gone" => tmp'[s] = Mixed
               /\ copied[s] = "no" => tmp'[s] = tmp[s]
    <2>1. /\ held[s] + 1 \in Nat /\ tmp[s] + 1 \in Nat
      BY SinkTypes DEF IInv
    <2>2. /\ Min({held[s] + 1, Enough}) = IF held[s] + 1 <= Enough THEN held[s] + 1
                                                                   ELSE Enough
          /\ Min({tmp[s] + 1, Mixed}) = IF tmp[s] + 1 <= Mixed THEN tmp[s] + 1 ELSE Mixed
      BY <1>1, <2>1, MinTwo
    <2>3. total'[s] = IF copied[s] # "no" THEN Min({held[s] + 1, Enough}) ELSE total[s]
      BY <1>0
    <2>4. /\ copied[s] = "yes" => tmp'[s] = Min({tmp[s] + 1, Mixed})
          /\ copied[s] = "gone" => tmp'[s] = Mixed
          /\ copied[s] = "no" => tmp'[s] = tmp[s]
      BY <1>0
    <2> QED
      BY <2>2, <2>3, <2>4
  <1>3. TypeOK'
    <2>1. ASSUME NEW s \in Sinks
          PROVE  total'[s] \in 0..Enough /\ tmp'[s] \in 0..Mixed
      BY <1>1, <1>2, SinkTypes DEF IInv
    <2>2. total' \in [Sinks -> 0..Enough] /\ tmp' \in [Sinks -> 0..Mixed]
      BY <1>0, <2>1
    <2>3. /\ copied' \in [Sinks -> {"no", "yes", "gone"}]
          /\ held' \in [Sinks -> 0..Enough]
          /\ offset' \in 0..FileChunks /\ spoiled' \subseteq Sinks
      BY <1>0, <1>1 DEF IInv, TypeOK, NoCopy
    <2> QED
      BY <1>0, <2>2, <2>3 DEF IInv, TypeOK, NoCopy, Files, Enough, Mixed
  <1>4. Phase'
    BY <1>0, <1>1 DEF Phase
  <1>5. ASSUME NEW s \in Sinks
        PROVE  SinkInv(s)'
    <2>1. /\ SinkInv(s) /\ total[s] \in Nat /\ total[s] <= Enough /\ tmp[s] \in Nat
          /\ copied[s] \in {"no", "yes", "gone"}
      BY SinkTypes DEF IInv
    <2>2. copied'[s] = "no" /\ pc' \in {"close", "read"}
      BY <1>0 DEF NoCopy
    <2>3. ASSUME s \notin spoiled'
          PROVE  NothingCounted(s)' /\ Collected(s)' /\ Closed(s)' /\ Slots(s)'
      <3>1. s \notin spoiled /\ copied[s] # "gone"
        BY <1>0, <2>3
      <3>2. NothingCounted(s) /\ Collected(s) /\ Slots(s) /\ CopyRight(s)
        BY <2>1, <3>1 DEF SinkInv
      <3>3. CASE copied[s] = "yes"
        <4>0. s \in present /\ held[s] = total[s]
          BY <1>0, <3>2, <3>3 DEF CopyRight
        <4>1. /\ s \in present
              /\ total'[s] \in Nat /\ total'[s] <= total[s] + 1
              /\ tmp'[s] = IF tmp[s] + 1 <= Mixed THEN tmp[s] + 1 ELSE Mixed
          BY <1>1, <1>2, <2>1, <3>3, <4>0
        <4>2. total'[s] > offset' => total[s] > offset
          BY <1>0, <1>1, <2>1, <4>1
        <4>3. total[s] > offset => tmp'[s] = offset' /\ Encoding(s)'
          <5>1. total[s] > offset => tmp[s] = offset /\ Encoding(s)
            BY <1>0, <3>2 DEF Collected
          <5>2. Encoding(s) => Encoding(s)'
            BY <1>0 DEF Encoding
          <5> QED
            BY <1>0, <1>1, <2>1, <4>1, <5>1, <5>2
        <4>4. Slots(s)'
          <5> SUFFICES ASSUME NEW i \in 1..(FilesNum - 2),
                              total'[s] > offset' + FileChunks * i
                       PROVE  Holds(s, Slot(fileId, i))'
            BY DEF Slots, Holds, Slot
          <5>1. FileChunks * i \in Nat
            BY Products
          <5>2. total[s] > offset + FileChunks * i
            BY <1>0, <1>1, <2>1, <4>1, <5>1
          <5> QED
            BY <1>0, <3>2, <5>2 DEF Slots, Holds, Slot
        <4> QED
          BY <1>0, <2>2, <4>1, <4>2, <4>3, <4>4 DEF NothingCounted, Collected, Closed
      <3>4. CASE copied[s] = "no"
        <4>1. total[s] = 0 /\ total'[s] = 0 /\ offset' \in Nat
          BY <1>0, <1>1, <1>2, <2>1, <3>2, <3>4 DEF Collected
        <4>2. ~(total'[s] > offset') /\ Slots(s)'
          BY <4>1, TooFew DEF Slots
        <4> QED
          BY <2>2, <4>1, <4>2 DEF NothingCounted, Collected, Closed
      <3> QED
        BY <2>1, <3>1, <3>3, <3>4
    <2> QED
      BY <2>2, <2>3 DEF SinkInv, CopyRight
  <1> QED
    BY <1>3, <1>4, <1>5 DEF IInv

(* A task writes the slot of the file being captured, and no other.        *)
LEMMA WriteOutputStep ==
  ASSUME IInv, NEW r \in Sinks, WriteOutput(r)
  PROVE  IInv'
  <1> DEFINE w == IF todo[r] = "write" /\ tmp[r] = FileChunks THEN "own" ELSE "other"
  <1>0. /\ todo[r] \in {"write", "late"}
        /\ todo' = [todo EXCEPT ![r] = "none"]
        /\ output' = [output EXCEPT ![r][fileId] = w]
        /\ missed' = [missed EXCEPT ![r] = @ \ {fileId}]
        /\ UNCHANGED <<present, running, pc, copied, held, fileId, offset, total,
                       tmp, codec, spoiled, live>>
    BY DEF WriteOutput, ring
  <1>1. /\ pc = "closing" /\ offset = FileChunks /\ fileId \in Files
        /\ todo'[r] = "none" /\ output'[r] = [output[r] EXCEPT ![fileId] = w]
        /\ output[r] \in [Files -> {"own", "other"}]
    BY <1>0 DEF IInv, TypeOK, Phase
  <1>2. TypeOK'
    <2>1. /\ todo' \in [Sinks -> {"none", "encode", "write", "late"}]
      BY <1>0 DEF IInv, TypeOK
    <2>2. output' \in [Sinks -> [Files -> {"own", "other"}]]
      <3>1. [output[r] EXCEPT ![fileId] = w] \in [Files -> {"own", "other"}]
        BY <1>1
      <3>2. output' = [output EXCEPT ![r] = [output[r] EXCEPT ![fileId] = w]]
        BY <1>0
      <3> HIDE DEF w
      <3> QED
        BY <3>1, <3>2 DEF IInv, TypeOK
    <2>3. missed' \in [Sinks -> SUBSET Files]
      BY <1>0 DEF IInv, TypeOK
    <2> QED
      BY <1>0, <1>1, <2>1, <2>2, <2>3 DEF IInv, TypeOK, NoCopy, Files, Enough, Mixed
  <1>3. Phase'
    BY <1>0 DEF IInv, Phase
  <1>4. ASSUME NEW s \in Sinks
        PROVE  SinkInv(s)'
    <2>1. SinkInv(s)
      BY DEF IInv
    <2>2. CASE s # r
      <3>1. todo'[s] = todo[s] /\ output'[s] = output[s] /\ missed'[s] = missed[s]
        BY <1>0, <2>2 DEF IInv, TypeOK
      <3> QED
        BY <1>0, <2>1, <3>1, SinkFrame
    <2>3. CASE s = r
      <3>1. output'[s][fileId] = w
        BY <1>1, <2>3
      <3>2. ASSUME s \notin spoiled, total[s] > offset
            PROVE  output'[s][fileId] = "own"
        <4>1. todo[s] = "write" /\ tmp[s] = offset
          BY <1>0, <1>1, <2>1, <2>3, <3>2 DEF SinkInv, Collected, Closed
        <4> QED
          BY <1>1, <2>3, <3>1, <4>1
      <3>3. ASSUME NEW i \in 1..(FilesNum - 2), Holds(s, Slot(fileId, i))
            PROVE  Holds(s, Slot(fileId, i))'
        <4>1. Slot(fileId, i) \in Files \ {fileId} /\ Slot(fileId, i)' = Slot(fileId, i)
          BY <1>0, <1>1, Ring DEF Slot
        <4>2. output'[s][Slot(fileId, i)] = output[s][Slot(fileId, i)]
          BY <1>1, <2>3, <4>1
        <4>3. Slot(fileId, i) \in missed[s] => Slot(fileId, i) \in missed'[s]
          BY <1>0, <2>3, <4>1 DEF IInv, TypeOK
        <4> QED
          BY <3>3, <4>1, <4>2, <4>3 DEF Holds
      <3>4. Slots(s) => Slots(s)'
        BY <1>0, <3>3 DEF Slots
      <3> QED
        BY <1>0, <1>1, <2>1, <2>3, <3>2, <3>4
           DEF SinkInv, CopyRight, NothingCounted, Collected, Closed, Holds
    <2> QED
      BY <2>2, <2>3
  <1> QED
    BY <1>2, <1>3, <1>4 DEF IInv

(* The next file: the one just written is one file back, and every other   *)
(* is one further back.                                                    *)
LEMMA NextFileStep ==
  ASSUME IInv, NextFile
  PROVE  IInv'
  <1>0. /\ pc = "closing" /\ \A s \in Sinks : todo[s] = "none"
        /\ fileId' = (fileId + 1) % FilesNum /\ offset' = 0 /\ pc' = "open"
        /\ UNCHANGED <<present, running, copied, held, todo, total, tmp, codec,
                       output, spoiled, missed, live>>
    BY DEF NextFile
  <1>1. offset = FileChunks /\ fileId \in Files
    BY <1>0 DEF IInv, TypeOK, Phase
  <1>2. TypeOK'
    <2>1. fileId' \in Files /\ offset' \in 0..FileChunks
      BY <1>0, <1>1, Ring, Products
    <2> QED
      BY <1>0, <2>1 DEF IInv, TypeOK, NoCopy, Files, Enough, Mixed
  <1>3. Phase'
    BY <1>0 DEF Phase
  <1>4. ASSUME NEW s \in Sinks
        PROVE  SinkInv(s)'
    <2>1. SinkInv(s) /\ copied[s] = "no" /\ total[s] \in Nat
      BY <1>0, SinkTypes DEF IInv
    <2>2. ASSUME s \notin spoiled
          PROVE  Slots(s)'
      <3> SUFFICES ASSUME NEW i \in 1..(FilesNum - 2), total[s] > 0 + FileChunks * i
                   PROVE  Holds(s, Slot(fileId', i))
        BY <1>0 DEF Slots, Holds, Slot
      <3>1. CASE i = 1
        <4>1. total[s] > offset
          BY <1>1, <3>1, Products
        <4>2. Holds(s, fileId)
          BY <1>0, <2>1, <2>2, <4>1 DEF SinkInv, Closed
        <4> QED
          BY <1>0, <1>1, <3>1, <4>2, Ring
      <3>2. CASE i # 1
        <4>1. i - 1 \in 1..(FilesNum - 2) /\ i - 1 \in Nat /\ (i - 1) + 1 = i
          BY <3>2, Products
        <4>2. FileChunks * i = FileChunks * (i - 1) + FileChunks /\ FileChunks * (i - 1) \in Nat
          BY <4>1, Products
        <4>3. total[s] > offset + FileChunks * (i - 1)
          BY <1>1, <4>2, Products
        <4>4. Holds(s, Slot(fileId, i - 1))
          BY <2>1, <2>2, <4>1, <4>3 DEF SinkInv, Slots
        <4> QED
          BY <1>0, <1>1, <3>2, <4>4, Ring
      <3> QED
        BY <3>1, <3>2
    <2> QED
      BY <1>0, <2>1, <2>2 DEF SinkInv, CopyRight, NothingCounted, Encoding, Collected, Closed
  <1> QED
    BY <1>2, <1>3, <1>4 DEF IInv

(* The steps of a live stream keep its index inside the ring.              *)
LEMMA LiveStepOK ==
  ASSUME IInv, LiveStep \/ \E s \in Sinks : LiveInit(s)
  PROVE  IInv'
  <1> DEFINE L == [on: {TRUE}, sink: Sinks, file: Files, unwritable: 0..(FilesNum \div 2 - 1)]
  <1>0. UNCHANGED <<present, running, pc, copied, held, todo, ring, total, tmp,
                    codec, output, spoiled, missed>>
    BY DEF LiveStep, LiveSend, LiveBlocked, LiveInit
  <1> DEFINE half == FilesNum \div 2
  <1>1. half \in 2..8
    BY FilesAssumption
  <1>2. fileId \in Files /\ live \in {NotLive} \cup L
    BY DEF IInv, TypeOK
  <1>3. live.on => live \in L
    <2>1. ~NotLive.on
      BY DEF NotLive
    <2> QED
      BY <1>2, <2>1
  <1>4. 0 \in 0..(FilesNum \div 2 - 1)
    <2> HIDE DEF half
    <2>1. 0 \in 0..(half - 1)
      BY <1>1
    <2> QED
      BY <2>1 DEF half
  <1>5. live' \in {NotLive} \cup L
    <2>1. ASSUME NEW s \in Sinks, LiveInit(s)
          PROVE  live' \in L
      <3>1. (fileId + 1) % FilesNum \in Files
        BY <1>2, Ring
      <3> QED
        BY <1>4, <2>1, <3>1 DEF LiveInit, LiveFile
    <2>2. ASSUME LiveSend
          PROVE  live' \in L
      <3>1. live \in L /\ live' = [live EXCEPT !.file = (live.file + 1) % FilesNum,
                                              !.unwritable = 0]
        BY <1>3, <2>2 DEF LiveSend
      <3>2. (live.file + 1) % FilesNum \in Files
        BY <3>1, Ring
      <3> QED
        BY <1>4, <3>1, <3>2
    <2>3. ASSUME LiveBlocked
          PROVE  live' \in {NotLive} \cup L
      <3>1. /\ live \in L /\ live.unwritable \in 0..(FilesNum \div 2 - 1)
            /\ live' = IF live.unwritable + 1 >= FilesNum \div 2
                       THEN NotLive
                       ELSE [live EXCEPT !.unwritable = live.unwritable + 1]
        BY <1>3, <2>3 DEF LiveBlocked
      <3>2. CASE live.unwritable + 1 >= FilesNum \div 2
        BY <3>1, <3>2
      <3>3. CASE ~(live.unwritable + 1 >= FilesNum \div 2)
        <4>1. live.unwritable + 1 \in 0..(half - 1)
          <5>1. live.unwritable \in 0..(half - 1) /\ ~(live.unwritable + 1 >= half)
            BY <3>1, <3>3
          <5> HIDE DEF half
          <5> QED
            BY <1>1, <5>1
        <4> QED
          BY <3>1, <3>3, <4>1
      <3> QED
        BY <3>2, <3>3
    <2> QED
      BY <2>1, <2>2, <2>3 DEF LiveStep
  <1>6. TypeOK'
    BY <1>0, <1>5 DEF IInv, TypeOK, ring, NoCopy, Files, Enough, Mixed
  <1> QED
    BY <1>0, <1>6, LiveOnly

(* No step leaves the invariant.                                           *)
LEMMA NextIInv == IInv /\ [Next]_vars => IInv'
  <1> SUFFICES ASSUME IInv, [Next]_vars PROVE IInv'
    OBVIOUS
  <1>1. CASE UNCHANGED vars
    <2>1. TypeOK'
      BY <1>1 DEF IInv, TypeOK, vars, ring, NoCopy, Files, Enough, Mixed
    <2> QED
      BY <1>1, <2>1, LiveOnly DEF vars, ring
  <1>2. CASE StopCapture
    <2>1. TypeOK'
      BY <1>2 DEF StopCapture, IInv, TypeOK, ring, NoCopy, Files, Enough, Mixed
    <2> QED
      BY <1>2, <2>1, LiveOnly DEF StopCapture
  <1>3. CASE CaptureStep
    BY <1>3, OpenFilesStep, SetupCodecStep, ReadChunkStep, SaveFilesStep,
       CloseFilesStep, EncodeStep, WriteOutputStep, NextFileStep, EndStep
       DEF CaptureStep
  <1>4. ASSUME NEW s \in Sinks,
               AddSink(s) \/ RemoveSink(s) \/ EncodeFails(s)
        PROVE  IInv'
    BY <1>4, AddSinkStep, RemoveSinkStep, EncodeStep
  <1>5. CASE LiveStep \/ \E s \in Sinks : LiveInit(s)
    BY <1>5, LiveStepOK
  <1>6. CASE StartCapture \/ Stopped \/ ReadFails
    BY <1>6, StartCaptureStep, EndStep
  <1> QED
    BY <1>1, <1>2, <1>3, <1>4, <1>5, <1>6 DEF Next

(* The inductive invariant holds in every reachable state.                 *)
LEMMA StreamerInvariant == Spec => []IInv
  BY InitIInv, NextIInv, PTL DEF Spec

-----------------------------------------------------------------------------
(* Every index of the streamer stays inside the ring, no count leaves its  *)
(* range, and a copy of the sinks and a task of close_files exist only     *)
(* where the capture thread uses them: whatever the number of sinks, the   *)
(* length of a file and the files of the ring.                             *)
THEOREM StreamerTypes == Spec => []TypeOK
  <1>1. IInv => TypeOK
    BY DEF IInv
  <1> QED
    BY <1>1, StreamerInvariant, PTL

(* Whatever sinks come and go and whenever PTP is lost and found: when     *)
(* get_stream and get_info let a request through, every slot but the file  *)
(* being captured and the oldest one (and the second oldest while a file   *)
(* is closed) holds a whole file of the sink that has the id now, of the   *)
(* capture that runs now.  Excepted are the slots whose file the encoder   *)
(* failed to make and a sink that serves what a removed one left.          *)
THEOREM ServedFromOwnFiles == Spec => []ServedFresh
  <1>1. IInv => ServedFresh
    <2> SUFFICES ASSUME IInv, NEW s \in Sinks \ spoiled, Ready(s),
                        NEW f \in Written(fileId)
                 PROVE  Holds(s, f)
      BY DEF ServedFresh
    <2>1. /\ Slots(s) /\ fileId \in Files /\ total[s] >= Enough /\ total[s] \in Nat
          /\ offset \in Nat /\ offset <= FileChunks
      BY SinkTypes DEF IInv, SinkInv, Ready
    <2>2. PICK i \in 1..(FilesNum - 2) :
            f = Slot(fileId, i) /\ (offset = FileChunks => i <= FilesNum - 3)
      BY <2>1, Ring
    <2>3. FileChunks * i \in Nat /\ FileChunks * i + FileChunks <= Enough
      BY Products
    <2>4. offset = FileChunks => FileChunks * i + FileChunks + FileChunks <= Enough
      BY <2>2, Products
    <2>5. total[s] > offset + FileChunks * i
      BY <2>1, <2>3, <2>4, Products
    <2> QED
      BY <2>1, <2>2, <2>5 DEF Slots
  <1> QED
    BY <1>1, StreamerInvariant, PTL

(* get_info and get_stream tell a player to start half a ring ahead of the *)
(* file being captured: audio of the sink, except that with four or five   *)
(* files it need not be in the moment a file is closed.                    *)
StartsOwn ==
  \A s \in Sinks \ spoiled :
    Ready(s) /\ (FilesNum >= 6 \/ offset < FileChunks) => Holds(s, StartFile(fileId))

(* start_file_id is one of the slots that are sure to be written, for any  *)
(* number of files the configuration admits.                               *)
THEOREM PlayersStartOwn == Spec => []StartsOwn
  <1>1. ASSUME TypeOK, FilesNum >= 6 \/ offset < FileChunks
        PROVE  StartFile(fileId) \in Written(fileId)
    <2>1. FilesNum \in 4..16
      BY FilesAssumption
    <2>2. FilesNum \div 2 \in 2..(FilesNum - 1) /\ (FilesNum >= 6 => FilesNum \div 2 >= 3)
      BY <2>1
    <2>3. FileChunks \in Nat /\ (offset < FileChunks => offset # FileChunks)
      BY <1>1, ChunksAssumption DEF TypeOK
    <2>4. FilesNum \div 2 \in (IF offset = FileChunks THEN 3 ELSE 2)..(FilesNum - 1)
      BY <1>1, <2>1, <2>2, <2>3
    <2> QED
      BY <2>4 DEF StartFile, Written
  <1>2. TypeOK /\ ServedFresh => StartsOwn
    BY <1>1 DEF ServedFresh, StartsOwn
  <1> QED
    BY <1>2, StreamerTypes, ServedFromOwnFiles, PTL
=============================================================================
