---------------------------- MODULE StreamProofs ----------------------------
(***************************************************************************)
(* What TLAPS proves of the streams of a session: the table, the ids that  *)
(* are used again, CLOSE, the temporary files and the two buffers.         *)
(***************************************************************************)
EXTENDS SessionProofs

(***************************************************************************)
(* What the steps of each goroutine leave alone.                           *)
(***************************************************************************)

LEMMA HandleLeaves ==
  Handle => /\ UNCHANGED <<readerVars, commands, workerVars, outVars,
                           writerVars, tableVars, streamVars, history>>
            /\ handle' = "closed" => wg = 0 /\ handle # "closed"
BY DEF Handle, HandleTerminate, HandleCloseDone, HandleWait

LEMMA ReaderLeaves ==
  Reader => /\ UNCHANGED <<done, workerVars, outVars, writerVars, tableVars,
                           spc, kind, slot, cancel, sdone, sval, fileVars,
                           outHistory>>
            /\ handle' = "closed" => handle = "closed"
BY DEF Reader, ReaderStart, ReaderCheck, ReaderReadsAny, ReaderReads,
   ReaderFails, ReaderEnqueue, ReaderPush, ReaderTerminates, ReaderExits,
   WgAdd, WgDone, WgSame, workerVars, outVars, writerVars, tableVars,
   streamVars, history

LEMMA WorkerLeaves ==
  Worker => /\ UNCHANGED <<done, readerVars, writerVars, sdone, frames, sval,
                           cur, history>>
            /\ \/ RunOpen
               \/ UNCHANGED <<tableVars, spc, kind, slot>>
            /\ \/ RunOpen \/ RunTooMany
               \/ UNCHANGED tmp
            /\ handle' = "closed" => handle = "closed"
BY DEF Worker, WorkerStart, WorkerCheck, WorkerSeesDone, WorkerTakes,
   RunAnswer, RunTerminate, RunOpen, OpenStream, RunTooMany, RunClose,
   WorkerCancels, WorkerAwaits, WorkerReplies, WorkerClosesOut, WorkerExits,
   WgAdd, WgDone, WgSame, streamVars, fileVars

LEMMA WriterLeaves ==
  Writer => /\ UNCHANGED <<done, readerVars, commands, workerVars, tableVars,
                           kind, slot, cancel, sdone, frames, fileVars,
                           inHistory>>
            /\ \/ \E o \in Objs : WriterTakesFrame(o)
               \/ UNCHANGED <<spc, sval>>
            /\ handle' = "closed" => handle = "closed"
BY DEF Writer, WriterStart, WriterCheck, WriterTakesAnswer, WriterDrained,
   WriterFindsNoAnswer, WriterSeesDone, WriterTakesFrame, WriterWrites,
   WriterFails, WriterTerminates, WriterExits, WgAdd, WgDone, WgSame,
   streamVars, history

LEMMA StreamLeavesRest ==
  ASSUME NEW o \in Objs, Stream(o)
  PROVE  /\ UNCHANGED <<done, readerVars, commands, workerVars, outVars,
                        writerVars, slot, history>>
         /\ StreamReleases(o) \/ UNCHANGED <<kind, tableVars>>
         /\ handle' = "closed" => handle = "closed"
BY DEF Stream, StreamStart, StreamSeesDone, StreamCancelled, StreamTimesOut,
   StreamReadsFile, StreamCopies, StreamRenames, StreamListens, StreamTakesFrame,
   StreamUnwinds, StreamSignals, StreamReleases, SendsLast, WritesChunk,
   FinishesFile, StreamGoes, WgAdd, WgDone, WgSame

\* A command that opens a stream gives it a free id and a name that no stream
\* had.
LEMMA RunOpenFacts ==
  ASSUME TypeOK, MessagesInOrder, RunOpen
  PROVE  /\ kcmd.n \in Objs /\ spc[kcmd.n] = "none" /\ kpc = "run"
         /\ \E i \in Slots :
              /\ streams[i] = None /\ streams' = [streams EXCEPT ![i] = kcmd.n]
              /\ slot' = [slot EXCEPT ![kcmd.n] = i]
         /\ spc' = [spc EXCEPT ![kcmd.n] = "new"]
         /\ kind' = [kind EXCEPT ![kcmd.n] = kcmd.op]
         /\ kcmd.op \in {"read", "write", "copy"}
         /\ tmp' = [tmp EXCEPT ![kcmd.n] = IF kcmd.op = "write" THEN "open"
                                                               ELSE @]
         /\ streamCount' = streamCount + 1
         /\ kans' = Answer(kcmd.n, "id", kcmd.n) /\ kpc' = "reply"
         /\ UNCHANGED <<done, readerVars, commands, kcmd, outVars, writerVars,
                        sdone, sval, cur, history, handle>>
BY DEF RunOpen, OpenStream, nextStreamId, FreeSlots, WgSame, MessagesInOrder,
   TypeOK, WorkerTypeOK, Commands

-----------------------------------------------------------------------------
(***************************************************************************)
(* The stream table.                                                       *)
(***************************************************************************)

LiveStreams == {o \in Objs : Live(o)}

LEMMA LiveStreamsFinite == IsFiniteSet(LiveStreams)
<1>1. IsFiniteSet(Objs) BY SizesAssumption, FS_Interval DEF Objs
<1> QED BY <1>1, FS_Subset DEF LiveStreams

LEMMA LiveJoins ==
  ASSUME NEW o \in Objs, o \notin LiveStreams,
         LiveStreams' = LiveStreams \cup {o}
  PROVE  Cardinality(LiveStreams') = Cardinality(LiveStreams) + 1
BY LiveStreamsFinite, FS_AddElement

LEMMA LiveLeaves ==
  ASSUME NEW o \in Objs, o \in LiveStreams, LiveStreams' = LiveStreams \ {o}
  PROVE  Cardinality(LiveStreams') = Cardinality(LiveStreams) - 1
BY LiveStreamsFinite, FS_RemoveElement

LEMMA TableInit == Init => TableMatchesStreams
<1> SUFFICES ASSUME Init PROVE TableMatchesStreams OBVIOUS
<1>1. {o \in Objs : Live(o)} = {} BY DEF Init, Live
<1>2. Cardinality({o \in Objs : Live(o)}) = 0 BY <1>1, FS_EmptySet
<1> QED BY <1>2 DEF Init, TableMatchesStreams, Live

LEMMA TableSame ==
  ASSUME TypeOK, TableMatchesStreams, UNCHANGED <<tableVars, slot>>,
         \A o \in Objs : Live(o)' <=> Live(o)
  PROVE  TableMatchesStreams'
<1>1. {o \in Objs : Live(o)}' = {o \in Objs : Live(o)} BY DEF Live
<1>2. \A i \in Slots : streams[i] # None => streams[i] \in Objs
  BY DEF TypeOK, StreamTypeOK
<1> QED BY <1>1, <1>2 DEF TableMatchesStreams, tableVars, Live

LEMMA TableOpens ==
  ASSUME TypeOK, MessagesInOrder, TableMatchesStreams, RunOpen
  PROVE  TableMatchesStreams'
<1> PICK n \in Objs : n = kcmd.n BY RunOpenFacts
<1>1. PICK i \in Slots : /\ streams[i] = None
                         /\ streams' = [streams EXCEPT ![i] = n]
                         /\ slot' = [slot EXCEPT ![n] = i]
  BY RunOpenFacts
<1>2. n \in Objs /\ spc[n] = "none" /\ spc' = [spc EXCEPT ![n] = "new"]
  BY RunOpenFacts
<1>3. /\ spc \in [Objs -> {"none", "new", "check", "send", "select", "rename", "unwind",
                         "signal", "release", "gone"}]
      /\ slot \in [Objs -> Slots] /\ streams \in [Slots -> Objs \cup {None}]
      /\ streamCount \in Int
  BY DEF TypeOK, StreamTypeOK
<1>4. None \notin Objs BY DEF None, Objs
<1>5. ~Live(n) /\ Live(n)' /\ \A o \in Objs \ {n} : Live(o)' <=> Live(o)
  BY <1>2, <1>3 DEF Live
<1>6. \A o \in Objs : Live(o)' => streams'[slot'[o]] = o
  BY <1>1, <1>2, <1>3, <1>4, <1>5 DEF TableMatchesStreams
<1>7. \A j \in Slots : streams'[j] # None => /\ Live(streams[j])'
                                            /\ slot'[streams'[j]] = j
  BY <1>1, <1>2, <1>3, <1>4, <1>5 DEF TableMatchesStreams
<1>8. Cardinality(LiveStreams') = Cardinality(LiveStreams) + 1
  BY <1>2, <1>5, LiveJoins DEF LiveStreams
<1>9. streamCount' = Cardinality({o \in Objs : Live(o)})'
  BY <1>8, RunOpenFacts DEF LiveStreams, TableMatchesStreams
<1> QED BY <1>6, <1>7, <1>9 DEF TableMatchesStreams

LEMMA TableReleases ==
  ASSUME TypeOK, TableMatchesStreams, NEW n \in Objs, StreamReleases(n)
  PROVE  TableMatchesStreams'
<1>1. /\ spc \in [Objs -> {"none", "new", "check", "send", "select", "rename", "unwind",
                         "signal", "release", "gone"}]
      /\ slot \in [Objs -> Slots] /\ streams \in [Slots -> Objs \cup {None}]
      /\ streamCount \in Int
  BY DEF TypeOK, StreamTypeOK
<1>2. None \notin Objs BY DEF None, Objs
<1>3. /\ spc[n] = "release" /\ spc' = [spc EXCEPT ![n] = "gone"]
      /\ streams' = [streams EXCEPT ![slot[n]] = None]
      /\ streamCount' = streamCount - 1 /\ slot' = slot
  BY DEF StreamReleases, releaseStream
<1>4. Live(n) /\ ~Live(n)' /\ \A o \in Objs \ {n} : Live(o)' <=> Live(o)
  BY <1>1, <1>3 DEF Live
<1>5. streams[slot[n]] = n BY <1>4 DEF TableMatchesStreams
<1>6. \A o \in Objs : Live(o)' => streams'[slot'[o]] = o
  BY <1>1, <1>2, <1>3, <1>4, <1>5 DEF TableMatchesStreams
<1>7. \A j \in Slots : streams'[j] # None => /\ Live(streams[j])'
                                            /\ slot'[streams'[j]] = j
  BY <1>1, <1>2, <1>3, <1>4, <1>5 DEF TableMatchesStreams
<1>8. Cardinality(LiveStreams') = Cardinality(LiveStreams) - 1
  BY <1>4, LiveLeaves DEF LiveStreams
<1>9. streamCount' = Cardinality({o \in Objs : Live(o)})'
  BY <1>3, <1>8 DEF LiveStreams, TableMatchesStreams
<1> QED BY <1>6, <1>7, <1>9 DEF TableMatchesStreams

LEMMA TableStep ==
  TypeOK /\ MessagesInOrder /\ TableMatchesStreams /\ [Next]_vars
     => TableMatchesStreams'
<1> SUFFICES ASSUME TypeOK, MessagesInOrder, TableMatchesStreams, [Next]_vars
             PROVE  TableMatchesStreams'
  OBVIOUS
<1>1. CASE UNCHANGED <<tableVars, slot, spc>>
  BY <1>1, TableSame DEF Live
<1>2. CASE RunOpen BY <1>2, TableOpens
<1>3. ASSUME NEW o \in Objs, Stream(o) \/ WriterTakesFrame(o),
             ~StreamReleases(o)
      PROVE  TableMatchesStreams'
  <2>1. UNCHANGED <<tableVars, slot>>
    BY <1>3, StreamLeavesRest DEF WriterTakesFrame
  <2>2. spc[o] \notin {"none", "gone"} /\ spc'[o] \notin {"none", "new"}
        /\ \A p \in Objs : p # o => spc'[p] = spc[p]
    BY <1>3, StreamMoves
  <2>3. spc'[o] # "gone"
    BY <1>3
    DEF Stream, StreamStart, StreamSeesDone, StreamCancelled, StreamTimesOut,
        StreamReadsFile, StreamCopies, StreamRenames, StreamListens, StreamTakesFrame,
        StreamUnwinds, StreamSignals, SendsLast, WritesChunk, FinishesFile,
        StreamGoes, WriterTakesFrame, TypeOK, StreamTypeOK
  <2> QED BY <2>1, <2>2, <2>3, TableSame DEF Live
<1>4. ASSUME NEW o \in Objs, StreamReleases(o) PROVE TableMatchesStreams'
  BY <1>4, TableReleases
<1> QED
  BY <1>1, <1>2, <1>3, <1>4, HandleLeaves, ReaderLeaves, WorkerLeaves,
     WriterLeaves
  DEF Next, vars, streamVars

\* Whatever order streams end, are cancelled and opened in, the table holds
\* exactly the live streams, each under its own id, and streamCount counts them.
THEOREM TableSafety == Spec => []TableMatchesStreams
<1>1. Init => TableMatchesStreams BY TableInit
<1>2. TypeOK /\ MessagesInOrder /\ TableMatchesStreams /\ [Next]_vars
        => TableMatchesStreams'
  BY TableStep
<1> QED BY <1>1, <1>2, TypeSafety, OrderSafety, PTL DEF Spec

-----------------------------------------------------------------------------
(***************************************************************************)
(* Temporary files and buffers.  Both rest on what only one kind of stream *)
(* does: a read sends a frame and goes on, a write waits for frames and a  *)
(* copy renames its file in a step of its own.                             *)
(***************************************************************************)

ModesFitKinds ==
    \A o \in Objs :
        /\ spc[o] = "send" /\ sval[o] = "chunk" => kind[o] = "read"
        /\ spc[o] = "select" => kind[o] = "write"
        /\ spc[o] = "rename" => kind[o] = "copy"
        /\ spc[o] = "none" => tmp[o] # "leaked"

FilesInv == TempFilesOwned /\ ModesFitKinds

LEMMA FilesInit == Init => FilesInv
BY DEF Init, FilesInv, TempFilesOwned, HasFile, ModesFitKinds

LEMMA FilesOpens ==
  ASSUME TypeOK, MessagesInOrder, FilesInv, RunOpen
  PROVE  FilesInv'
<1> PICK n \in Objs : n = kcmd.n BY RunOpenFacts
<1>1. /\ spc[n] = "none" /\ spc' = [spc EXCEPT ![n] = "new"]
      /\ kind' = [kind EXCEPT ![n] = kcmd.op]
      /\ kcmd.op \in {"read", "write", "copy"}
      /\ tmp' = [tmp EXCEPT ![n] = IF kcmd.op = "write" THEN "open" ELSE @]
      /\ UNCHANGED sval
  BY RunOpenFacts
<1>2. /\ spc \in [Objs -> {"none", "new", "check", "send", "select", "rename", "unwind",
                         "signal", "release", "gone"}]
      /\ kind \in [Objs -> {"read", "write", "copy"}]
      /\ tmp \in [Objs -> {"none", "open", "removed", "stored", "left", "leaked"}]
  BY DEF TypeOK, StreamTypeOK
<1>3. tmp[n] # "open" BY <1>1 DEF FilesInv, TempFilesOwned, HasFile
<1> QED
  BY <1>1, <1>2, <1>3 DEF FilesInv, TempFilesOwned, HasFile, ModesFitKinds

\* What a step of stream o does to its own mode, file and frame.
LEMMA StreamFile ==
  ASSUME TypeOK, FilesInv, NEW o \in Objs, Stream(o) \/ WriterTakesFrame(o)
  PROVE  /\ \A p \in Objs \ {o} : /\ tmp'[p] = tmp[p] /\ kind'[p] = kind[p]
                                  /\ sval'[p] = sval[p]
         /\ tmp'[o] = "open" <=> HasFile(o)'
         /\ tmp'[o] = "leaked" => \/ kind'[o] = "copy" /\ spc'[o] # "rename"
                                 \/ spc'[o] = "gone"
         /\ spc'[o] = "send" /\ sval'[o] = "chunk" => kind'[o] = "read"
         /\ spc'[o] = "select" => kind'[o] = "write"
         /\ spc'[o] = "rename" => kind'[o] = "copy"
<1> USE DEF StreamGoes, TypeOK, StreamTypeOK, FilesInv, TempFilesOwned,
            HasFile, ModesFitKinds
<1>0. /\ spc[o] \in {"none", "new", "check", "send", "select", "rename", "unwind",
                    "signal", "release", "gone"}
      /\ kind[o] \in {"read", "write", "copy"}
      /\ tmp[o] \in {"none", "open", "removed", "stored", "left", "leaked"}
  OBVIOUS
<1>1. CASE StreamStart(o)
  BY <1>0, <1>1 DEF StreamStart, FileBecomes, SendsLast, fileVars
<1>2. CASE StreamSeesDone(o)
  BY <1>0, <1>2 DEF StreamSeesDone, DropFile, FileBecomes
<1>3. CASE StreamCancelled(o)
  BY <1>0, <1>3 DEF StreamCancelled, DropFile, FileBecomes
<1>4. CASE StreamTimesOut(o)
  BY <1>0, <1>4 DEF StreamTimesOut, SendsLast, DropFile, FileBecomes
<1>5. CASE StreamReadsFile(o)
  BY <1>0, <1>5 DEF StreamReadsFile, Uninterrupted
<1>6. CASE StreamCopies(o)
  BY <1>0, <1>6
  DEF StreamCopies, Uninterrupted, SendsLast, FileBecomes, fileVars
<1>13. CASE StreamRenames(o)
  BY <1>0, <1>13 DEF StreamRenames, SendsLast, FileBecomes
<1>7. CASE StreamListens(o)
  BY <1>0, <1>7 DEF StreamListens, Uninterrupted, fileVars
<1>8. CASE StreamTakesFrame(o)
  <2>1. CASE WritesChunk(o)
    BY <1>0, <1>8, <2>1
    DEF StreamTakesFrame, WritesChunk, SendsLast, DropFile, FileBecomes,
        fileVars
  <2>2. CASE FinishesFile(o)
    BY <1>0, <1>8, <2>2
    DEF StreamTakesFrame, FinishesFile, SendsLast, FileBecomes
  <2> QED BY <1>8, <2>1, <2>2 DEF StreamTakesFrame
<1>9. CASE StreamUnwinds(o) BY <1>0, <1>9 DEF StreamUnwinds, fileVars
<1>10. CASE StreamSignals(o) BY <1>0, <1>10 DEF StreamSignals, fileVars
<1>11. CASE StreamReleases(o) BY <1>0, <1>11 DEF StreamReleases
<1>12. CASE WriterTakesFrame(o)
  BY <1>0, <1>12 DEF WriterTakesFrame, fileVars
<1> QED
  BY <1>1, <1>2, <1>3, <1>4, <1>5, <1>6, <1>7, <1>8, <1>9, <1>10, <1>11, <1>12,
     <1>13
  DEF Stream

LEMMA FilesStep ==
  TypeOK /\ MessagesInOrder /\ FilesInv /\ [Next]_vars => FilesInv'
<1> SUFFICES ASSUME TypeOK, MessagesInOrder, FilesInv, [Next]_vars
             PROVE  FilesInv'
  OBVIOUS
<1>1. CASE UNCHANGED <<spc, kind, tmp, sval>>
  BY <1>1 DEF FilesInv, TempFilesOwned, HasFile, ModesFitKinds
<1>2. CASE RunOpen BY <1>2, FilesOpens
<1>3. CASE RunTooMany
  <2>1. kcmd.n \in Objs /\ spc[kcmd.n] = "none"
    BY <1>3 DEF RunTooMany, MessagesInOrder, TypeOK, WorkerTypeOK, Commands
  <2>2. UNCHANGED <<spc, kind, sval>>
        /\ tmp' = [tmp EXCEPT ![kcmd.n] = IF kcmd.op = "write" THEN "left"
                                                              ELSE @]
    BY <1>3 DEF RunTooMany
  <2> QED
    BY <2>1, <2>2
    DEF FilesInv, TempFilesOwned, HasFile, ModesFitKinds, TypeOK, StreamTypeOK
<1>4. ASSUME NEW o \in Objs, Stream(o) \/ WriterTakesFrame(o) PROVE FilesInv'
  BY <1>4, StreamMoves, StreamFile
  DEF FilesInv, TempFilesOwned, HasFile, ModesFitKinds
<1> QED
  BY <1>1, <1>2, <1>3, <1>4, HandleLeaves, ReaderLeaves, WorkerLeaves,
     WriterLeaves
  DEF Next, vars, streamVars, fileVars

LEMMA FilesAlways == Spec => []FilesInv
<1>1. Init => FilesInv BY FilesInit
<1>2. TypeOK /\ MessagesInOrder /\ FilesInv /\ [Next]_vars => FilesInv'
  BY FilesStep
<1> QED BY <1>1, <1>2, TypeSafety, OrderSafety, PTL DEF Spec

\* A stream works on its temporary file exactly as long as the file is open and
\* neither renamed nor removed, whichever way the stream ends, and leaves the
\* file open behind it only as a copy that could not read or write a block.
THEOREM FilesSafety == Spec => []TempFilesOwned
<1>1. FilesInv => TempFilesOwned BY DEF FilesInv
<1> QED BY <1>1, FilesAlways, PTL

\* The block that the writer is sending is in the buffer that its stream
\* filled last.
BufferHeld ==
    \A o \in Objs : Sending(o) =>
        /\ kind[o] = "read" /\ spc[o] \notin {"none", "new", "select"}
        /\ spc[o] = "check" => wval.buf = cur[o]

LEMMA BufferInit == Init => BufferHeld
BY DEF Init, BufferHeld, Sending

LEMMA BufferStream ==
  ASSUME TypeOK, FilesInv, BufferHeld, NEW o \in Objs, Stream(o)
  PROVE  BufferHeld'
<1> USE DEF Stream, StreamStart, StreamSeesDone, StreamCancelled,
            StreamTimesOut, StreamReadsFile, StreamCopies, StreamRenames, StreamListens,
            StreamTakesFrame, StreamUnwinds, StreamSignals, StreamReleases,
            SendsLast, WritesChunk, FinishesFile, DropFile, FileBecomes,
            StreamGoes, fileVars, TypeOK, StreamTypeOK
<1>1. UNCHANGED <<wpc, wval>>
  BY StreamLeavesRest DEF writerVars
<1>2. \A p \in Objs : p # o => spc'[p] = spc[p] BY StreamMoves
<1>3. \A p \in Objs : p # o => cur'[p] = cur[p] OBVIOUS
<1>4. \A p \in Objs : p # o => kind'[p] = kind[p] OBVIOUS
<1>5. kind[o] = "read" => kind'[o] = "read" OBVIOUS
<1>6. kind[o] = "read" =>
        /\ spc'[o] \notin {"none", "new", "select"}
        /\ spc'[o] = "check" => cur'[o] = cur[o] /\ spc[o] \in {"new", "select"}
  BY DEF Uninterrupted
<1> QED BY <1>1, <1>2, <1>3, <1>4, <1>5, <1>6 DEF BufferHeld, Sending

LEMMA BufferStep ==
  TypeOK /\ MessagesInOrder /\ FilesInv /\ BufferHeld /\ [Next]_vars
     => BufferHeld'
<1> SUFFICES ASSUME TypeOK, MessagesInOrder, FilesInv, BufferHeld, [Next]_vars
             PROVE  BufferHeld'
  OBVIOUS
<1>1. CASE UNCHANGED <<wpc, wval, spc, kind, cur>>
  BY <1>1 DEF BufferHeld, Sending
<1>2. CASE RunOpen
  <2> PICK n \in Objs : n = kcmd.n BY <1>2, RunOpenFacts
  <2>1. /\ spc[n] = "none" /\ UNCHANGED <<wpc, wval, cur>>
        /\ \A o \in Objs : o # n => spc'[o] = spc[o] /\ kind'[o] = kind[o]
    BY RunOpenFacts, <1>2 DEF TypeOK, StreamTypeOK, writerVars
  <2> QED BY <2>1 DEF BufferHeld, Sending
<1>3. ASSUME NEW o \in Objs, WriterTakesFrame(o) PROVE BufferHeld'
  <2>1. /\ spc[o] = "send" /\ wval' = Frame(o) /\ UNCHANGED <<kind, cur>>
        /\ sval[o] = "chunk" => spc'[o] = "check"
        /\ sval[o] \in {"chunk", "last"}
    BY <1>3 DEF WriterTakesFrame, fileVars, TypeOK, StreamTypeOK
  <2>2. \A p \in Objs : Sending(p)' => p = o /\ sval[o] = "chunk"
    BY <2>1 DEF Sending, Frame
  <2>3. wval'.buf = cur'[o] BY <2>1 DEF Frame
  <2> QED BY <2>1, <2>2, <2>3 DEF BufferHeld, FilesInv, ModesFitKinds
<1>4. ASSUME Writer, \A o \in Objs : ~WriterTakesFrame(o) PROVE BufferHeld'
  <2>2. CASE WriterTakesAnswer
    <3>1. cmdOut \in Seq(Answers) /\ cmdOut # <<>>
      BY <2>2 DEF WriterTakesAnswer, TypeOK, WorkerTypeOK
    <3>2. wval' \in Answers BY <2>2, <3>1 DEF WriterTakesAnswer
    <3> QED BY <3>2 DEF BufferHeld, Sending, Answers
  <2>3. CASE ~WriterTakesAnswer
    <3>1. wpc' # "write"
      BY <1>4, <2>3
      DEF Writer, WriterStart, WriterCheck, WriterDrained, WriterFindsNoAnswer,
          WriterSeesDone, WriterWrites, WriterFails, WriterTerminates,
          WriterExits
    <3> QED BY <3>1 DEF BufferHeld, Sending
  <2> QED BY <2>2, <2>3
<1>5. ASSUME NEW o \in Objs, Stream(o) PROVE BufferHeld'
  BY <1>5, BufferStream
<1> QED
  BY <1>1, <1>2, <1>3, <1>4, <1>5, HandleLeaves, ReaderLeaves, WorkerLeaves
  DEF Next, vars, streamVars, fileVars, writerVars

LEMMA BufferAlways == Spec => []BufferHeld
<1>1. Init => BufferHeld BY BufferInit
<1>2. TypeOK /\ MessagesInOrder /\ FilesInv /\ BufferHeld /\ [Next]_vars
        => BufferHeld'
  BY BufferStep
<1> QED BY <1>1, <1>2, TypeSafety, OrderSafety, FilesAlways, PTL DEF Spec

LEMMA BufferAction ==
  ASSUME TypeOK, MessagesInOrder, BufferHeld, [Next]_vars,
         NEW o \in Objs, kind[o] = "read", spc[o] = "check", spc'[o] = "send"
  PROVE  ~(Sending(o) /\ wval.buf = cur'[o])
<1>1. CASE StreamReadsFile(o)
  <2>1. cur'[o] = 1 - cur[o] /\ cur[o] \in {0, 1}
    BY <1>1 DEF StreamReadsFile, TypeOK, StreamTypeOK
  <2>2. cur'[o] # cur[o] BY <2>1
  <2> QED BY <2>2 DEF BufferHeld
<1>2. ASSUME NEW p \in Objs, Stream(p) PROVE StreamReadsFile(o)
  <2>1. p = o BY <1>2, StreamMoves
  <2> QED
    BY <1>2, <2>1
    DEF Stream, StreamStart, StreamSeesDone, StreamCancelled, StreamTimesOut,
        StreamCopies, StreamRenames, StreamListens, StreamTakesFrame, StreamUnwinds,
        StreamSignals, StreamReleases, StreamGoes, SendsLast, TypeOK,
        StreamTypeOK, Uninterrupted
<1>3. \A p \in Objs : ~WriterTakesFrame(p)
  BY DEF WriterTakesFrame, TypeOK, StreamTypeOK
<1>4. ~RunOpen BY RunOpenFacts DEF TypeOK, StreamTypeOK
<1>5. spc' # spc OBVIOUS
<1> QED
  BY <1>1, <1>2, <1>3, <1>4, <1>5, HandleLeaves, ReaderLeaves, WorkerLeaves,
     WriterLeaves
  DEF Next, vars, streamVars

\* A read stream never overwrites the block that the writer is sending.
THEOREM BufferSafety == Spec => BuffersIntact
<1>1. TypeOK /\ MessagesInOrder /\ BufferHeld /\ [Next]_vars
        => [\A o \in Objs : kind[o] = "read" /\ spc[o] = "check"
                              /\ spc'[o] = "send"
              => ~(Sending(o) /\ wval.buf = cur'[o])]_vars
  BY BufferAction
<1> QED
  BY <1>1, BufferAlways, TypeSafety, OrderSafety, PTL DEF Spec, BuffersIntact

-----------------------------------------------------------------------------
(***************************************************************************)
(* CLOSE, and ids that are used again.  What an answer tells of a stream   *)
(* is true from the moment the worker has it until the client has it.      *)
(***************************************************************************)

\* Answer m says that its stream is over, or that it was opened.
Told(m) ==
    /\ m.kind = "closed" => m.obj \in Objs /\ sdone[m.obj]
    /\ m.kind = "id" /\ m.obj \in Objs => spc[m.obj] # "none"

AnswersTrue ==
    /\ kpc = "run" => kans.kind \in {"ok", "err"}
    /\ kpc \in {"cancel", "await"} => kans.kind = "closed"
    /\ kpc = "reply" => Told(kans)
    /\ \A i \in 1 .. Len(cmdOut) : Told(cmdOut[i])
    /\ wpc = "write" => Told(wval)
    /\ \A o \in shut : sdone[o]
    /\ \A p \in announced : spc[p] # "none"

\* A stream that has signalled its end only has to release its id.
SignalledEnds == \A o \in Objs : sdone[o] => spc[o] \in {"release", "gone"}

\* The streams were opened in the order of their commands.
OpenedInOrder ==
    \A o \in Objs : spc[o] # "none" =>
        /\ o <= nread
        /\ \A i \in 1 .. Len(commands) : o < commands[i].n
        /\ rpc = "enqueue" => o < rcmd.n
        /\ kpc = "run" => o < kcmd.n

\* An id is taken over from a stream that is gone.
IdsTakenOver ==
    \A o, p \in Objs :
        o < p /\ spc[o] # "none" /\ spc[p] # "none" /\ slot[o] = slot[p]
          => spc[o] = "gone"

\* The frame that the writer holds is not of a stream that the client knows
\* to be closed or replaced.
Outdated(o) == o \in shut \/ \E p \in announced : o < p /\ slot[o] = slot[p]

FrameFresh ==
    wpc = "write" /\ wval \in Frames =>
        spc[wval.obj] # "none" /\ ~Outdated(wval.obj)

QuietInv == /\ AnswersTrue /\ SignalledEnds /\ OpenedInOrder /\ IdsTakenOver
            /\ FrameFresh

LEMMA QuietInit == Init => QuietInv
<1> SUFFICES ASSUME Init PROVE QuietInv OBVIOUS
<1>1. AnswersTrue BY DEF Init, AnswersTrue
<1>2. SignalledEnds BY DEF Init, SignalledEnds
<1>3. OpenedInOrder /\ IdsTakenOver BY DEF Init, OpenedInOrder, IdsTakenOver
<1>4. FrameFresh BY DEF Init, FrameFresh
<1> QED BY <1>1, <1>2, <1>3, <1>4 DEF QuietInv

LEMMA QuietReader ==
  ASSUME TypeOK, QuietInv, Reader
  PROVE  QuietInv'
<1>1. UNCHANGED <<kpc, kans, kcmd, cmdOut, wpc, wval, shut, announced, sdone,
                  spc, slot>>
  BY ReaderLeaves DEF workerVars, outVars, writerVars, outHistory
<1>2. AnswersTrue' /\ SignalledEnds' /\ IdsTakenOver' /\ FrameFresh'
  BY <1>1
  DEF QuietInv, AnswersTrue, Told, SignalledEnds, IdsTakenOver, FrameFresh,
      Outdated
<1>3. CASE ReaderReadsAny
  <2>1. PICK in \in Inputs : ReaderReads(in) BY <1>3 DEF ReaderReadsAny
  <2>2. nread \in Nat /\ nread' = nread + 1
    BY <2>1 DEF ReaderReads, TypeOK, HistoryTypeOK
  <2>3. (rpc' = "enqueue" => rcmd'.n = nread') /\ UNCHANGED commands
    BY <2>1, <2>2 DEF ReaderReads, Rejected
  <2>4. OpenedInOrder'
    BY <1>1, <2>2, <2>3 DEF QuietInv, OpenedInOrder, Objs
  <2> QED BY <1>2, <2>4 DEF QuietInv
<1>4. CASE ReaderEnqueue
  <2>1. commands' = Append(commands, rcmd) /\ rpc = "enqueue"
        /\ rpc' = "check" /\ UNCHANGED nread
    BY <1>4 DEF ReaderEnqueue, history, inHistory
  <2>2. commands \in Seq(Commands) /\ rcmd \in Commands
    BY DEF TypeOK, ReaderTypeOK
  <2>3. /\ Len(commands') = Len(commands) + 1
        /\ \A i \in 1 .. Len(commands) : commands'[i] = commands[i]
        /\ commands'[Len(commands) + 1] = rcmd
    BY <2>1, <2>2
  <2>4. OpenedInOrder'
    BY <1>1, <2>1, <2>2, <2>3 DEF QuietInv, OpenedInOrder
  <2> QED BY <1>2, <2>4 DEF QuietInv
<1>5. CASE UNCHANGED <<commands, nread>> /\ rpc' # "enqueue"
  <2>1. OpenedInOrder' BY <1>1, <1>5 DEF QuietInv, OpenedInOrder
  <2> QED BY <1>2, <2>1 DEF QuietInv
<1> QED
  BY <1>3, <1>4, <1>5
  DEF Reader, ReaderStart, ReaderCheck, ReaderFails, ReaderPush,
      ReaderTerminates, ReaderExits, history, inHistory

LEMMA QuietOpens ==
  ASSUME TypeOK, MessagesInOrder, TableMatchesStreams, QuietInv, RunOpen
  PROVE  QuietInv'
<1> PICK n \in Objs : n = kcmd.n BY RunOpenFacts
<1>1. PICK i \in Slots : streams[i] = None /\ slot' = [slot EXCEPT ![n] = i]
  BY RunOpenFacts
<1>2. /\ spc[n] = "none" /\ kpc = "run" /\ spc' = [spc EXCEPT ![n] = "new"]
      /\ kans' = Answer(n, "id", n) /\ kpc' = "reply"
      /\ UNCHANGED <<rpc, rcmd, commands, kcmd, cmdOut, wpc, wval, sdone, nread,
                     shut, announced>>
  BY RunOpenFacts
  DEF readerVars, outVars, writerVars, history, inHistory, outHistory
<1>3. /\ spc \in [Objs -> {"none", "new", "check", "send", "select", "rename", "unwind",
                         "signal", "release", "gone"}]
      /\ slot \in [Objs -> Slots] /\ announced \subseteq Objs
  BY DEF TypeOK, StreamTypeOK, HistoryTypeOK
<1>4. AnswersTrue'
  BY <1>2, <1>3 DEF QuietInv, AnswersTrue, Told, Answer
<1>5. SignalledEnds' BY <1>2, <1>3 DEF QuietInv, SignalledEnds
<1>6. OpenedInOrder'
  <2>1. \A k \in 1 .. Len(commands) : n < commands[k].n
    BY <1>2 DEF MessagesInOrder
  <2>2. n <= nread /\ (rpc = "enqueue" => n < rcmd.n)
    BY <1>2 DEF MessagesInOrder
  <2> QED BY <1>2, <1>3, <2>1, <2>2 DEF QuietInv, OpenedInOrder
<1>7. IdsTakenOver'
  <2>1. \A o \in Objs : spc[o] # "none" /\ slot[o] = i => spc[o] = "gone"
    <3>1. None \notin Objs BY DEF None, Objs
    <3> QED BY <1>1, <3>1 DEF TableMatchesStreams, Live
  <2>2. \A o \in Objs : spc[o] # "none" => o < n
    BY <1>2 DEF QuietInv, OpenedInOrder
  <2>3. \A o \in Objs : o < n => ~(n < o) BY DEF Objs
  <2> QED BY <1>1, <1>2, <1>3, <2>1, <2>2, <2>3 DEF QuietInv, IdsTakenOver
<1>8. FrameFresh'
  <2>1. \A p \in announced : p # n BY <1>2 DEF QuietInv, AnswersTrue
  <2>2. wval \in Frames => wval.obj \in Objs BY DEF Frames
  <2> QED
    BY <1>1, <1>2, <1>3, <2>1, <2>2 DEF QuietInv, FrameFresh, Outdated
<1> QED BY <1>4, <1>5, <1>6, <1>7, <1>8 DEF QuietInv

LEMMA QuietWorker ==
  ASSUME TypeOK, MessagesInOrder, TableMatchesStreams, QuietInv, Worker
  PROVE  QuietInv'
<1>1. CASE RunOpen BY <1>1, QuietOpens
<1>2. CASE ~RunOpen
  <2>1. UNCHANGED <<rpc, rcmd, wpc, wval, spc, slot, sdone, nread, shut,
                    announced>>
    BY <1>2, WorkerLeaves
    DEF readerVars, writerVars, history, inHistory, outHistory
  <2>2. SignalledEnds' /\ IdsTakenOver' /\ FrameFresh'
    BY <2>1
    DEF QuietInv, SignalledEnds, IdsTakenOver, FrameFresh, Outdated
  <2>3. CASE WorkerTakes
    <3>1. commands # <<>> /\ commands \in Seq(Commands)
          /\ commands' = Tail(commands) /\ kcmd' = Head(commands)
          /\ UNCHANGED cmdOut
      BY <2>3 DEF WorkerTakes, TypeOK, ReaderTypeOK, outVars
    <3>2. /\ Len(commands) \in Nat /\ Len(commands) > 0
          /\ Len(commands') = Len(commands) - 1
          /\ \A i \in 1 .. Len(commands') : commands'[i] = commands[i + 1]
          /\ kcmd' = commands[1]
      BY <3>1
    <3>3. OpenedInOrder' BY <2>1, <3>2 DEF QuietInv, OpenedInOrder
    <3>4. kans'.kind \in {"ok", "err"} /\ kpc' \in {"reply", "run"}
      BY <2>3 DEF WorkerTakes, Answer
    <3>5. AnswersTrue'
      BY <2>1, <3>1, <3>4 DEF QuietInv, AnswersTrue, Told
    <3> QED BY <2>2, <3>3, <3>5 DEF QuietInv
  <2>4. CASE WorkerReplies
    <3>1. cmdOut \in Seq(Answers) /\ kans \in Answers
      BY DEF TypeOK, WorkerTypeOK
    <3>2. cmdOut' = Append(cmdOut, kans) /\ kpc = "reply"
          /\ kpc' \in {"closeout", "check"} /\ UNCHANGED commands
      BY <2>4 DEF WorkerReplies
    <3>3. /\ Len(cmdOut') = Len(cmdOut) + 1 /\ Len(cmdOut) \in Nat
          /\ \A i \in 1 .. Len(cmdOut) : cmdOut'[i] = cmdOut[i]
          /\ cmdOut'[Len(cmdOut) + 1] = kans
      BY <3>1, <3>2
    <3>4. \A i \in 1 .. Len(cmdOut') : Told(cmdOut'[i])
      BY <3>2, <3>3 DEF QuietInv, AnswersTrue
    <3>5. AnswersTrue' BY <2>1, <3>2, <3>4 DEF QuietInv, AnswersTrue, Told
    <3>6. OpenedInOrder' BY <2>1, <3>2 DEF QuietInv, OpenedInOrder
    <3> QED BY <2>2, <3>5, <3>6 DEF QuietInv
  <2>5. CASE ~WorkerTakes /\ ~WorkerReplies
    <3>1. UNCHANGED <<commands, cmdOut>> /\ kpc' # "run"
      BY <1>2, <2>5
      DEF Worker, WorkerStart, WorkerCheck, WorkerSeesDone, RunAnswer,
          RunTerminate, RunTooMany, RunClose, WorkerCancels, WorkerAwaits,
          WorkerClosesOut, WorkerExits, outVars
    <3>2. OpenedInOrder' BY <2>1, <3>1 DEF QuietInv, OpenedInOrder
    <3>3. kpc' \in {"cancel", "await"} => kans'.kind = "closed"
      BY <1>2, <2>5
      DEF Worker, WorkerStart, WorkerCheck, WorkerSeesDone, RunAnswer,
          RunTerminate, RunTooMany, RunClose, WorkerCancels, WorkerAwaits,
          WorkerClosesOut, WorkerExits, Answer, QuietInv, AnswersTrue
    <3>4. kpc' = "reply" => Told(kans)'
      <4>1. CASE RunAnswer \/ RunTerminate \/ RunTooMany
        BY <2>1, <4>1
        DEF RunAnswer, RunTerminate, RunTooMany, Answer, QuietInv, AnswersTrue,
            Told, None, Objs
      <4>2. CASE WorkerAwaits
        <5>1. kans.obj \in Objs /\ kans' = kans /\ sdone[kans.obj]
          BY <4>2 DEF WorkerAwaits, TypeOK, WorkerTypeOK
        <5>2. kans.kind = "closed"
          BY <4>2 DEF WorkerAwaits, QuietInv, AnswersTrue
        <5> QED BY <2>1, <5>1, <5>2 DEF Told
      <4> QED
        BY <1>2, <2>5, <4>1, <4>2
        DEF Worker, WorkerStart, WorkerCheck, WorkerSeesDone, RunClose,
            WorkerCancels, WorkerClosesOut, WorkerExits
    <3>5. AnswersTrue'
      BY <2>1, <3>1, <3>3, <3>4 DEF QuietInv, AnswersTrue, Told
    <3> QED BY <2>2, <3>2, <3>5 DEF QuietInv
  <2> QED BY <2>3, <2>4, <2>5
<1> QED BY <1>1, <1>2

LEMMA QuietFrame ==
  ASSUME TypeOK, QuietInv, NEW o \in Objs, WriterTakesFrame(o)
  PROVE  QuietInv'
<1>1. /\ spc[o] = "send" /\ wval' = Frame(o) /\ wval'.obj = o
      /\ wval'.kind \in {"chunk", "last"} /\ spc'[o] \in {"check", "unwind"}
      /\ \A p \in Objs : p # o => spc'[p] = spc[p]
      /\ UNCHANGED <<kpc, kans, kcmd, cmdOut, shut, announced, sdone, slot,
                     nread, commands, rpc, rcmd>>
  BY DEF WriterTakesFrame, Frame, TypeOK, StreamTypeOK, workerVars, outVars,
     history, inHistory, outHistory, readerVars
<1>2. announced \subseteq Objs BY DEF TypeOK, HistoryTypeOK
<1>3. \A p \in Objs : spc'[p] # "none" <=> spc[p] # "none" BY <1>1
<1>4. AnswersTrue' BY <1>1, <1>2, <1>3 DEF QuietInv, AnswersTrue, Told
<1>5. SignalledEnds' BY <1>1 DEF QuietInv, SignalledEnds
<1>6. OpenedInOrder' BY <1>1, <1>3 DEF QuietInv, OpenedInOrder
<1>7. IdsTakenOver' BY <1>1, <1>3 DEF QuietInv, IdsTakenOver
<1>8. ~Outdated(o)'
  BY <1>1, <1>2
  DEF QuietInv, AnswersTrue, SignalledEnds, IdsTakenOver, Outdated
<1>9. FrameFresh' BY <1>1, <1>8 DEF FrameFresh, Outdated
<1> QED BY <1>4, <1>5, <1>6, <1>7, <1>9 DEF QuietInv

LEMMA QuietWriter ==
  ASSUME TypeOK, QuietInv, Writer, \A o \in Objs : ~WriterTakesFrame(o)
  PROVE  QuietInv'
<1>1. UNCHANGED <<kpc, kans, kcmd, sdone, spc, slot, nread, commands, rpc, rcmd>>
  BY WriterLeaves DEF workerVars, inHistory, readerVars
<1>2. SignalledEnds' /\ OpenedInOrder' /\ IdsTakenOver'
  BY <1>1 DEF QuietInv, SignalledEnds, OpenedInOrder, IdsTakenOver
<1>3. CASE WriterTakesAnswer
  <2>1. cmdOut \in Seq(Answers) /\ cmdOut # <<>>
    BY <1>3 DEF WriterTakesAnswer, TypeOK, WorkerTypeOK
  <2>2. wval' = Head(cmdOut) /\ cmdOut' = Tail(cmdOut)
        /\ UNCHANGED <<shut, announced>>
    BY <1>3 DEF WriterTakesAnswer, history, outHistory
  <2>3. /\ Len(cmdOut) \in Nat /\ Len(cmdOut) > 0
        /\ Len(cmdOut') = Len(cmdOut) - 1
        /\ \A i \in 1 .. Len(cmdOut') : cmdOut'[i] = cmdOut[i + 1]
        /\ wval' = cmdOut[1] /\ wval' \in Answers
    BY <2>1, <2>2
  <2>4. Told(wval') /\ \A i \in 1 .. Len(cmdOut') : Told(cmdOut'[i])
    BY <2>3 DEF QuietInv, AnswersTrue
  <2>5. AnswersTrue'
    BY <1>1, <2>2, <2>4 DEF QuietInv, AnswersTrue, Told
  <2>6. wval' \notin Frames BY <2>3 DEF Answers, Frames, Objs, None
  <2> QED BY <1>2, <2>5, <2>6 DEF QuietInv, FrameFresh
<1>4. CASE WriterWrites
  <2>1. wpc = "write" /\ wpc' = "check" /\ UNCHANGED cmdOut
    BY <1>4 DEF WriterWrites, outVars
  <2>2. /\ \A o \in shut' : o \in shut \/ (wval.kind = "closed" /\ wval.obj = o)
        /\ \A o \in announced' : \/ o \in announced
                                 \/ wval.kind = "id" /\ wval.obj = o /\ o \in Objs
    BY <1>4 DEF WriterWrites
  <2>3. AnswersTrue' BY <1>1, <2>1, <2>2 DEF QuietInv, AnswersTrue, Told
  <2> QED BY <1>2, <2>1, <2>3 DEF QuietInv, FrameFresh
<1>5. CASE ~WriterTakesAnswer /\ ~WriterWrites
  <2>1. UNCHANGED <<cmdOut, shut, announced>> /\ wpc' # "write"
    BY <1>5
    DEF Writer, WriterStart, WriterCheck, WriterDrained, WriterFindsNoAnswer,
        WriterSeesDone, WriterFails, WriterTerminates, WriterExits, outVars,
        history, outHistory
  <2>2. AnswersTrue' BY <1>1, <2>1 DEF QuietInv, AnswersTrue, Told
  <2> QED BY <1>2, <2>1, <2>2 DEF QuietInv, FrameFresh
<1> QED BY <1>3, <1>4, <1>5

LEMMA QuietStream ==
  ASSUME TypeOK, QuietInv, NEW o \in Objs, Stream(o)
  PROVE  QuietInv'
<1>1. UNCHANGED <<rpc, rcmd, kpc, kans, kcmd, cmdOut, wpc, wval, slot, nread,
                  commands, shut, announced>>
  BY StreamLeavesRest
  DEF readerVars, workerVars, outVars, writerVars, history, inHistory,
      outHistory
<1>2. /\ spc[o] \notin {"none", "gone"} /\ spc'[o] # "none"
      /\ \A p \in Objs : p # o => spc'[p] = spc[p]
  BY StreamMoves
<1>3. \A p \in Objs : spc'[p] # "none" <=> spc[p] # "none" BY <1>2
<1>4. \A p \in Objs : /\ sdone[p] => sdone'[p]
                      /\ p # o => sdone'[p] = sdone[p]
  BY DEF Stream, StreamStart, StreamSeesDone, StreamCancelled, StreamTimesOut,
     StreamReadsFile, StreamCopies, StreamRenames, StreamListens, StreamTakesFrame,
     StreamUnwinds, StreamSignals, StreamReleases, TypeOK, StreamTypeOK
<1>5. sdone'[o] => spc'[o] \in {"release", "gone"}
  <2>1. CASE StreamSignals(o) BY <2>1 DEF StreamSignals, StreamGoes, TypeOK, StreamTypeOK
  <2>2. CASE StreamReleases(o) BY <2>2 DEF StreamReleases, TypeOK, StreamTypeOK
  <2>3. CASE ~StreamSignals(o) /\ ~StreamReleases(o)
    <3>1. sdone' = sdone /\ spc[o] # "release"
      BY <2>3
      DEF Stream, StreamStart, StreamSeesDone, StreamCancelled, StreamTimesOut,
          StreamReadsFile, StreamCopies, StreamRenames, StreamListens, StreamTakesFrame,
          StreamUnwinds, Uninterrupted
    <3> QED BY <1>2, <3>1 DEF QuietInv, SignalledEnds
  <2> QED BY <2>1, <2>2, <2>3
<1>6. shut \subseteq Objs /\ announced \subseteq Objs
  BY DEF TypeOK, HistoryTypeOK
<1>7. AnswersTrue'
  BY <1>1, <1>3, <1>4, <1>6 DEF QuietInv, AnswersTrue, Told
<1>8. SignalledEnds' BY <1>2, <1>4, <1>5 DEF QuietInv, SignalledEnds
<1>9. OpenedInOrder' BY <1>1, <1>3 DEF QuietInv, OpenedInOrder
<1>10. IdsTakenOver' BY <1>1, <1>2, <1>3 DEF QuietInv, IdsTakenOver
<1>11. wval \in Frames => wval.obj \in Objs BY DEF Frames
<1>12. FrameFresh'
  BY <1>1, <1>3, <1>11 DEF QuietInv, FrameFresh, Outdated
<1> QED BY <1>7, <1>8, <1>9, <1>10, <1>12 DEF QuietInv

LEMMA QuietStep ==
  TypeOK /\ MessagesInOrder /\ TableMatchesStreams /\ QuietInv /\ [Next]_vars
     => QuietInv'
<1> SUFFICES ASSUME TypeOK, MessagesInOrder, TableMatchesStreams, QuietInv,
                    [Next]_vars
             PROVE  QuietInv'
  OBVIOUS
<1>1. CASE Handle \/ UNCHANGED vars
  <2>1. UNCHANGED <<rpc, rcmd, kpc, kans, kcmd, cmdOut, wpc, wval, spc, slot,
                    sdone, nread, commands, shut, announced>>
    BY <1>1, HandleLeaves
    DEF vars, readerVars, workerVars, outVars, writerVars, streamVars, history,
        inHistory, outHistory
  <2> QED
    BY <2>1
    DEF QuietInv, AnswersTrue, Told, SignalledEnds, OpenedInOrder,
        IdsTakenOver, FrameFresh, Outdated
<1>2. CASE Reader BY <1>2, QuietReader
<1>3. CASE Worker BY <1>3, QuietWorker
<1>4. CASE Writer BY <1>4, QuietWriter, QuietFrame
<1>5. ASSUME NEW o \in Objs, Stream(o) PROVE QuietInv' BY <1>5, QuietStream
<1> QED BY <1>1, <1>2, <1>3, <1>4, <1>5 DEF Next

LEMMA QuietAlways == Spec => []QuietInv
<1>1. Init => QuietInv BY QuietInit
<1>2. TypeOK /\ MessagesInOrder /\ TableMatchesStreams /\ QuietInv
        /\ [Next]_vars => QuietInv'
  BY QuietStep
<1> QED BY <1>1, <1>2, TypeSafety, OrderSafety, TableSafety, PTL DEF Spec

\* Once CLOSE was answered OK the client gets no frame of that stream.
THEOREM ClosedSafety == Spec => []ClosedStreamIsQuiet
<1>1. TypeOK /\ QuietInv => ClosedStreamIsQuiet
  BY DEF TypeOK, HistoryTypeOK, QuietInv, AnswersTrue, SignalledEnds,
     FrameFresh, Outdated, ClosedStreamIsQuiet, MaySend
<1> QED BY <1>1, QuietAlways, TypeSafety, PTL

\* Once an id was announced for a new stream the client gets no frame of an
\* older stream under that id.
THEOREM ReusedSafety == Spec => []ReusedIdIsQuiet
<1>1. TypeOK /\ QuietInv => ReusedIdIsQuiet
  BY DEF TypeOK, HistoryTypeOK, QuietInv, AnswersTrue, IdsTakenOver,
     FrameFresh, Outdated, ReusedIdIsQuiet, MaySend
<1> QED BY <1>1, QuietAlways, TypeSafety, PTL
-----------------------------------------------------------------------------
(***************************************************************************)
(* A destination is replaced only by a stream that still counts.           *)
(***************************************************************************)

\* After the close no write stream waits for a frame and no copy is about to
\* rename its file.
NoStoreClosed ==
    handle = "closed" => \A o \in Objs : spc[o] \notin {"select", "rename"}

LEMMA LateInit == Init => NoStoreClosed
BY DEF Init, NoStoreClosed

LEMMA LateStep ==
  ASSUME TypeOK, MessagesInOrder, WaitCoversGoroutines, NoStoreClosed,
         [Next]_vars
  PROVE  NoStoreClosed'
<1>1. CASE UNCHANGED spc /\ handle' = handle
  BY <1>1 DEF NoStoreClosed
<1>2. CASE Handle
  <2>1. spc' = spc BY <1>2, HandleLeaves DEF streamVars
  <2>2. ASSUME handle' = "closed", NEW o \in Objs
      PROVE  spc[o] \notin {"select", "rename"}
    <3>1. wg = 0 BY <1>2, <2>2, HandleLeaves
    <3>2. /\ Counted(rpc) \in Nat /\ Counted(kpc) \in Nat
          /\ Counted(wpc) \in Nat /\ Cardinality(CountedStreams) \in Nat
      BY CountedStreamsNat DEF Counted
    <3>3. Cardinality(CountedStreams) = 0
      BY <3>1, <3>2 DEF WaitCoversGoroutines, WgCounts
    <3>4. CountedStreams = {} BY <3>3, CountedStreamsFinite, FS_EmptySet
    <3> QED BY <3>4 DEF CountedStreams
  <2> QED BY <2>1, <2>2 DEF NoStoreClosed
<1>3. CASE UNCHANGED spc /\ (handle' = "closed" => handle = "closed")
  BY <1>3 DEF NoStoreClosed
<1>4. CASE RunOpen
  <2> PICK n \in Objs : n = kcmd.n BY <1>4, RunOpenFacts
  <2>1. spc' = [spc EXCEPT ![n] = "new"] /\ handle' = handle
    BY <1>4, RunOpenFacts
  <2> QED BY <2>1 DEF NoStoreClosed, TypeOK, StreamTypeOK
<1>5. ASSUME NEW o \in Objs, Stream(o) \/ WriterTakesFrame(o)
      PROVE  NoStoreClosed'
  <2>1. handle' = "closed" => handle = "closed"
    BY <1>5, StreamLeavesRest DEF WriterTakesFrame, WgSame
  <2>2. \A p \in Objs : p # o => spc'[p] = spc[p] BY <1>5, StreamMoves
  <2>3. handle = "closed" => done BY DEF WaitCoversGoroutines
  <2>4. spc'[o] \in {"select", "rename"} => ~done
    BY <1>5
    DEF Stream, StreamStart, StreamSeesDone, StreamCancelled, StreamTimesOut,
        StreamReadsFile, StreamCopies, StreamRenames, StreamListens, StreamTakesFrame,
        StreamUnwinds, StreamSignals, StreamReleases, SendsLast, WritesChunk,
        FinishesFile, StreamGoes, Uninterrupted, WriterTakesFrame, TypeOK,
        StreamTypeOK
  <2> QED BY <2>1, <2>2, <2>3, <2>4 DEF NoStoreClosed
<1> QED
  BY <1>1, <1>2, <1>3, <1>4, <1>5, ReaderLeaves, WorkerLeaves, WriterLeaves
  DEF Next, vars, streamVars

LEMMA LateAlways == Spec => []NoStoreClosed
<1>1. Init => NoStoreClosed BY LateInit
<1>2. TypeOK /\ MessagesInOrder /\ WaitCoversGoroutines /\ NoStoreClosed
        /\ [Next]_vars => NoStoreClosed'
  BY LateStep
<1> QED BY <1>1, <1>2, TypeSafety, OrderSafety, WaitSafety, PTL DEF Spec

\* Only a stream that has reached the end of its input stores its file.
LEMMA StoresItself ==
  ASSUME TypeOK, MessagesInOrder, FilesInv, [Next]_vars, NEW o \in Objs,
         tmp[o] # "stored", tmp'[o] = "stored"
  PROVE  StreamRenames(o) \/ StreamTakesFrame(o)
<1>1. ~RunOpen BY RunOpenFacts DEF TypeOK, StreamTypeOK
<1>2. ~RunTooMany
  BY DEF RunTooMany, TypeOK, StreamTypeOK, WorkerTypeOK, Commands
<1>3. tmp' # tmp OBVIOUS
<1>4. PICK p \in Objs : Stream(p)
  BY <1>1, <1>2, <1>3, HandleLeaves, ReaderLeaves, WorkerLeaves, WriterLeaves
  DEF Next, vars, streamVars, fileVars
<1>5. p = o BY <1>4, StreamFile
<1> QED
  BY <1>4, <1>5
  DEF Stream, StreamStart, StreamSeesDone, StreamCancelled, StreamTimesOut,
      StreamReadsFile, StreamCopies, StreamListens, StreamUnwinds, StreamSignals,
      StreamReleases, SendsLast, DropFile, FileBecomes, fileVars, TypeOK,
      StreamTypeOK

LEMMA LateAction ==
  ASSUME TypeOK, MessagesInOrder, WaitCoversGoroutines, FilesInv, QuietInv,
         NoStoreClosed, [Next]_vars,
         NEW o \in Objs, tmp[o] # "stored", tmp'[o] = "stored"
  PROVE  /\ handle # "closed" /\ o \notin shut
         /\ \A p \in announced : o < p => slot[o] # slot[p]
<1>1. StreamRenames(o) \/ StreamTakesFrame(o) BY StoresItself
<1>2. spc[o] \in {"select", "rename"}
  BY <1>1 DEF StreamRenames, StreamTakesFrame
<1>3. handle # "closed" BY <1>2 DEF NoStoreClosed
<1>4. o \notin shut BY <1>2 DEF QuietInv, AnswersTrue, SignalledEnds
<1>5. announced \subseteq Objs BY DEF TypeOK, HistoryTypeOK
<1>6. \A p \in announced : o < p => slot[o] # slot[p]
  BY <1>2, <1>5 DEF QuietInv, AnswersTrue, IdsTakenOver
<1> QED BY <1>3, <1>4, <1>6

\* No destination is replaced by a stream whose CLOSE was answered, whose id was
\* announced for another, or whose session has closed its connection.
THEOREM LateSafety == Spec => NothingStoredLate
<1>1. TypeOK /\ MessagesInOrder /\ WaitCoversGoroutines /\ FilesInv /\ QuietInv
        /\ NoStoreClosed /\ [Next]_vars
        => [\A o \in Objs :
              tmp[o] # "stored" /\ tmp'[o] = "stored" =>
                /\ handle # "closed" /\ o \notin shut
                /\ \A p \in announced : o < p => slot[o] # slot[p]]_vars
  BY LateAction
<1> QED
  BY <1>1, TypeSafety, OrderSafety, WaitSafety, FilesAlways, QuietAlways,
     LateAlways, PTL
  DEF Spec, NothingStoredLate
=============================================================================
