--------------------------- MODULE SessionProofs ---------------------------
(***************************************************************************)
(* What TLAPS proves of a session, for every number of messages, every     *)
(* number of stream ids and every capacity of the channels.                *)
(***************************************************************************)
EXTENDS Session, FiniteSetTheorems, TLAPS

LEMMA Defaults ==
  NoCommand \in Commands /\ NoAnswer \in Answers /\ NoAnswer \in Messages
BY SizesAssumption
DEF NoCommand, Commands, AllOps, NoAnswer, Answer, Answers, Messages, Objs,
    Slots, None

LEMMA TypeInit == Init => TypeOK
<1> SUFFICES ASSUME Init PROVE TypeOK OBVIOUS
<1> USE SizesAssumption
<1>b. done \in BOOLEAN /\ outClosed \in BOOLEAN /\ netFailed \in BOOLEAN
  BY Zenon DEF Init
<1>1. HandleTypeOK BY <1>b DEF HandleTypeOK, Init
<1>2. ReaderTypeOK
  BY DEF ReaderTypeOK, Init, NoCommand, Commands, AllOps, Objs, Slots, None
<1>3. WorkerTypeOK
  BY <1>b DEF WorkerTypeOK, Init, NoCommand, NoAnswer, Answer, Commands,
     Answers, AllOps, Objs, Slots, None
<1>4. WriterTypeOK
  BY DEF WriterTypeOK, Init, NoAnswer, Answer, Answers, Messages, Objs, None
<1>5. StreamTypeOK BY DEF StreamTypeOK, Init, Objs, Slots, None
<1>6. HistoryTypeOK BY <1>b DEF HistoryTypeOK, Init, Objs, None
<1> QED BY <1>1, <1>2, <1>3, <1>4, <1>5, <1>6 DEF TypeOK

(***************************************************************************)
(* TypeOK is inductive: one lemma per goroutine, one case per action.      *)
(***************************************************************************)

LEMMA TypeHandle == ASSUME TypeOK, Handle PROVE TypeOK'
<1> USE SizesAssumption
    DEF TypeOK, HandleTypeOK, ReaderTypeOK, WorkerTypeOK, WriterTypeOK,
        StreamTypeOK, HistoryTypeOK, readerVars, workerVars, outVars,
        writerVars, tableVars, streamVars, fileVars, history, inHistory, outHistory
<1>1. CASE HandleTerminate BY <1>1 DEF HandleTerminate
<1>2. CASE HandleCloseDone BY <1>2 DEF HandleCloseDone
<1>3. CASE HandleWait BY <1>3 DEF HandleWait
<1> QED BY <1>1, <1>2, <1>3 DEF Handle

LEMMA TypeReader == ASSUME TypeOK, Reader PROVE TypeOK'
<1> USE SizesAssumption, ClientAssumption
    DEF TypeOK, HandleTypeOK, ReaderTypeOK, WorkerTypeOK, WriterTypeOK,
        StreamTypeOK, HistoryTypeOK, WgSame, WgAdd, WgDone, readerVars,
        workerVars, outVars, writerVars, tableVars, streamVars, fileVars, history,
        inHistory, outHistory
<1>1. CASE ReaderStart BY <1>1 DEF ReaderStart
<1>2. CASE ReaderCheck BY <1>2 DEF ReaderCheck
<1>3. CASE ReaderReadsAny
  <2>1. PICK in \in Inputs : ReaderReads(in) BY <1>3 DEF ReaderReadsAny
  <2>2. in.op \in AllOps /\ in.slot \in Slots BY DEF Inputs
  <2>3. nread + 1 \in Objs /\ nread' = nread + 1
    BY <2>1 DEF ReaderReads, Objs
  <2>4. quitAt' \in Objs \cup {None} BY <2>1, <2>3 DEF ReaderReads
  <2>5. rcmd' \in Commands
    BY <2>1, <2>2, <2>3 DEF ReaderReads, Rejected, Commands
  <2>6. rpc' = "push" => robj' \in Objs /\ rcmd'.op \in {"data", "end"}
    BY <2>1, <2>2 DEF ReaderReads, getStream, None
  <2>7. robj' \in Objs \cup {None}
    BY <2>1, <2>2 DEF ReaderReads, getStream
  <2>8. rpc' \in {"push", "enqueue"} BY <2>1 DEF ReaderReads
  <2>9. HandleTypeOK' BY <2>1 DEF ReaderReads
  <2>10. ReaderTypeOK' BY <2>1, <2>5, <2>6, <2>7, <2>8 DEF ReaderReads
  <2>11. WorkerTypeOK' BY <2>1 DEF ReaderReads
  <2>12. WriterTypeOK' BY <2>1 DEF ReaderReads
  <2>13. StreamTypeOK' BY <2>1 DEF ReaderReads
  <2>14. HistoryTypeOK' BY <2>1, <2>3, <2>4, SMTT(30) DEF ReaderReads, Objs, None
  <2> QED BY <2>9, <2>10, <2>11, <2>12, <2>13, <2>14
<1>4. CASE ReaderFails BY <1>4 DEF ReaderFails
<1>5. CASE ReaderEnqueue BY <1>5, Defaults, SMTT(30) DEF ReaderEnqueue, None
<1>6. CASE ReaderPush BY <1>6, Defaults, SMTT(30) DEF ReaderPush, None
<1>7. CASE ReaderTerminates BY <1>7 DEF ReaderTerminates, SendTerminate
<1>8. CASE ReaderExits BY <1>8 DEF ReaderExits
<1> QED BY <1>1, <1>2, <1>3, <1>4, <1>5, <1>6, <1>7, <1>8 DEF Reader

LEMMA TypeWorker == ASSUME TypeOK, Worker PROVE TypeOK'
<1> USE SizesAssumption, ClientAssumption
    DEF TypeOK, HandleTypeOK, ReaderTypeOK, WorkerTypeOK, WriterTypeOK,
        StreamTypeOK, HistoryTypeOK, WgSame, WgAdd, WgDone, readerVars,
        workerVars, outVars, writerVars, tableVars, streamVars, fileVars, history,
        inHistory, outHistory
<1>1. CASE WorkerStart BY <1>1 DEF WorkerStart
<1>2. CASE WorkerCheck BY <1>2 DEF WorkerCheck
<1>3. CASE WorkerSeesDone BY <1>3 DEF WorkerSeesDone
<1>4. CASE WorkerTakes
  <2>1. kcmd' \in Commands /\ commands' \in Seq(Commands)
        /\ Len(commands') <= CmdCap
    BY <1>4 DEF WorkerTakes
  <2>2. kans' \in Answers
    BY <1>4, <2>1 DEF WorkerTakes, Answer, Answers, Commands
  <2>3. kpc' \in {"reply", "run"} BY <1>4 DEF WorkerTakes
  <2> QED BY <1>4, <2>1, <2>2, <2>3, SMTT(30) DEF WorkerTakes
<1>5. CASE RunAnswer
  <2>1. kans' \in Answers
    BY <1>5 DEF RunAnswer, Answer, Answers, Commands
  <2> QED BY <1>5, <2>1 DEF RunAnswer
<1>6. CASE RunTerminate BY <1>6 DEF RunTerminate, SendTerminate
<1>7. CASE RunOpen
  <2>1. kcmd.n \in Objs BY DEF Commands
  <2>2. kans' \in Answers BY <1>7, <2>1 DEF RunOpen, Answer, Answers
  <2>3. StreamTypeOK' BY <1>7, <2>1, SMTT(30) DEF RunOpen, OpenStream
  <2> QED BY <1>7, <2>2, <2>3, SMTT(30) DEF RunOpen
<1>8. CASE RunTooMany
  <2>1. kans' \in Answers
    BY <1>8 DEF RunTooMany, Answer, Answers, Commands
  <2>2. tmp' \in [Objs -> {"none", "open", "removed", "stored", "left", "leaked"}]
    BY <1>8 DEF RunTooMany
  <2> QED BY <1>8, <2>1, <2>2, SMTT(30) DEF RunTooMany
<1>9. CASE RunClose
  <2>1. getStream(kcmd.slot) \in Objs
    BY <1>9 DEF RunClose, getStream, Commands
  <2>2. kans' \in Answers /\ kans'.obj \in Objs
    BY <1>9, <2>1 DEF RunClose, Answer, Answers, Commands
  <2> QED BY <1>9, <2>2 DEF RunClose
<1>10. CASE WorkerCancels BY <1>10, SMTT(30) DEF WorkerCancels
<1>11. CASE WorkerAwaits BY <1>11, SMTT(30) DEF WorkerAwaits
<1>12. CASE WorkerReplies
  BY <1>12, Defaults, SMTT(30) DEF WorkerReplies
<1>13. CASE WorkerClosesOut BY <1>13 DEF WorkerClosesOut
<1>14. CASE WorkerExits BY <1>14 DEF WorkerExits
<1> QED
  BY <1>1, <1>2, <1>3, <1>4, <1>5, <1>6, <1>7, <1>8, <1>9, <1>10, <1>11,
     <1>12, <1>13, <1>14
  DEF Worker

LEMMA TypeWriter == ASSUME TypeOK, Writer PROVE TypeOK'
<1> USE SizesAssumption
    DEF TypeOK, HandleTypeOK, ReaderTypeOK, WorkerTypeOK, WriterTypeOK,
        StreamTypeOK, HistoryTypeOK, WgSame, WgAdd, WgDone, readerVars,
        workerVars, outVars, writerVars, tableVars, streamVars, fileVars, history,
        inHistory, outHistory
<1>1. CASE WriterStart BY <1>1 DEF WriterStart
<1>2. CASE WriterCheck BY <1>2 DEF WriterCheck
<1>3. CASE WriterTakesAnswer BY <1>3, SMTT(30) DEF WriterTakesAnswer, Messages
<1>4. CASE WriterDrained BY <1>4 DEF WriterDrained
<1>5. CASE WriterFindsNoAnswer BY <1>5 DEF WriterFindsNoAnswer
<1>6. CASE WriterSeesDone BY <1>6 DEF WriterSeesDone
<1>7. ASSUME NEW o \in Objs, WriterTakesFrame(o) PROVE TypeOK'
  <2>1. wval' \in Messages
    BY <1>7 DEF WriterTakesFrame, Frame, Answer, Frames, Messages
  <2> QED BY <1>7, <2>1 DEF WriterTakesFrame
<1>8. CASE WriterWrites
  <2>1. replied' \in 0 .. MaxReads
    BY <1>8 DEF WriterWrites, Answers, Objs
  <2> QED BY <1>8, <2>1, Defaults, SMTT(30) DEF WriterWrites
<1>9. CASE WriterFails BY <1>9, Defaults, SMTT(30) DEF WriterFails
<1>10. CASE WriterTerminates BY <1>10 DEF WriterTerminates, SendTerminate
<1>11. CASE WriterExits BY <1>11 DEF WriterExits
<1> QED
  BY <1>1, <1>2, <1>3, <1>4, <1>5, <1>6, <1>7, <1>8, <1>9, <1>10, <1>11
  DEF Writer

LEMMA TypeStream == ASSUME TypeOK, NEW o \in Objs, Stream(o) PROVE TypeOK'
<1> USE SizesAssumption
    DEF TypeOK, HandleTypeOK, ReaderTypeOK, WorkerTypeOK, WriterTypeOK,
        StreamTypeOK, HistoryTypeOK, WgSame, WgAdd, WgDone, readerVars,
        workerVars, outVars, writerVars, tableVars, streamVars, fileVars, history,
        inHistory, outHistory, StreamGoes
<1>1. CASE StreamStart(o)
  <2>1. CASE /\ StreamGoes(o, "check") /\ UNCHANGED sval
             /\ FileBecomes(o, IF kind[o] = "copy" THEN "open" ELSE tmp[o])
    BY <1>1, <2>1, SMTT(30) DEF StreamStart, FileBecomes
  <2>2. CASE SendsLast(o) /\ UNCHANGED fileVars
    BY <1>1, <2>2, SMTT(30) DEF StreamStart, SendsLast
  <2> QED BY <1>1, <2>1, <2>2 DEF StreamStart
<1>2. CASE StreamSeesDone(o)
  BY <1>2, SMTT(30) DEF StreamSeesDone, DropFile, FileBecomes
<1>3. CASE StreamCancelled(o)
  BY <1>3, SMTT(30) DEF StreamCancelled, DropFile, FileBecomes
<1>4. CASE StreamTimesOut(o)
  BY <1>4, SMTT(30) DEF StreamTimesOut, SendsLast, DropFile, FileBecomes
<1>5. CASE StreamReadsFile(o)
  <2>6. cur[o] = 0 \/ cur[o] = 1 OBVIOUS
  <2>7. 1 - 0 = 1 /\ 1 - 1 = 0 OBVIOUS
  <2>4. 1 - cur[o] \in {0, 1} BY <2>6, <2>7, Zenon
  <2>1. cur' \in [Objs -> {0, 1}] BY <1>5, <2>4 DEF StreamReadsFile
  <2>2. sval' \in [Objs -> {"chunk", "last"}] BY <1>5 DEF StreamReadsFile
  <2>3. spc' \in [Objs -> {"none", "new", "check", "send", "select", "rename", "unwind",
                          "signal", "release", "gone"}]
    BY <1>5 DEF StreamReadsFile
  <2> QED BY <1>5, <2>1, <2>2, <2>3, SMTT(30) DEF StreamReadsFile
<1>6. CASE StreamCopies(o)
  <2>1. CASE StreamGoes(o, "rename") /\ UNCHANGED <<sval, fileVars>>
    BY <1>6, <2>1, SMTT(30) DEF StreamCopies
  <2>2. CASE SendsLast(o) /\ FileBecomes(o, "leaked")
    BY <1>6, <2>2, SMTT(30) DEF StreamCopies, SendsLast, FileBecomes
  <2> QED BY <1>6, <2>1, <2>2 DEF StreamCopies
<1>12. CASE StreamRenames(o)
  <2>1. /\ SendsLast(o)
        /\ tmp' \in [Objs -> {"none", "open", "removed", "stored", "left",
                               "leaked"}]
        /\ UNCHANGED cur
        /\ WgSame /\ UNCHANGED <<tableVars, cancel, sdone, frames>>
    BY <1>12 DEF StreamRenames, FileBecomes
  <2> QED BY <2>1, SMTT(30) DEF SendsLast
<1>7. CASE StreamListens(o) BY <1>7, SMTT(30) DEF StreamListens
<1>8. CASE StreamTakesFrame(o)
  <2>1. frames' \in [Objs -> Seq({"data", "end"})]
        /\ \A p \in Objs : Len(frames'[p]) <= FrameCap
    BY <1>8 DEF StreamTakesFrame
  <2>2. WritesChunk(o) \/ FinishesFile(o) BY <1>8 DEF StreamTakesFrame
  <2>3. /\ spc' \in [Objs -> {"none", "new", "check", "send", "select", "rename",
                              "unwind", "signal", "release", "gone"}]
        /\ sval' \in [Objs -> {"chunk", "last"}]
    BY <2>2 DEF WritesChunk, FinishesFile, SendsLast
  <2>6. /\ tmp' \in [Objs -> {"none", "open", "removed", "stored", "left", "leaked"}]
        /\ UNCHANGED cur
    <3>1. DropFile(o) \/ FileBecomes(o, "stored") \/ FileBecomes(o, "left")
          \/ UNCHANGED fileVars
      BY <2>2 DEF WritesChunk, FinishesFile
    <3>2. tmp[o] \in {"none", "open", "removed", "stored", "left", "leaked"} OBVIOUS
    <3> QED BY <3>1, <3>2 DEF DropFile, FileBecomes
  <2>4. UNCHANGED <<done, terminate, readerVars, commands, workerVars, outVars,
                    writerVars, kind, slot, history>>
    BY <2>2 DEF WritesChunk, FinishesFile, SendsLast
  <2>5. UNCHANGED <<tableVars, cancel, sdone, wg, handle>>
    BY <1>8 DEF StreamTakesFrame
  <2> QED BY <2>1, <2>3, <2>4, <2>5, <2>6, SMTT(30)
<1>9. CASE StreamUnwinds(o) BY <1>9, SMTT(30) DEF StreamUnwinds
<1>10. CASE StreamSignals(o) BY <1>10 DEF StreamSignals
<1>11. CASE StreamReleases(o)
  BY <1>11, SMTT(30) DEF StreamReleases, releaseStream
<1> QED
  BY <1>1, <1>2, <1>3, <1>4, <1>5, <1>6, <1>7, <1>8, <1>9, <1>10, <1>11, <1>12
  DEF Stream

LEMMA TypeStep == TypeOK /\ [Next]_vars => TypeOK'
<1> SUFFICES ASSUME TypeOK, [Next]_vars PROVE TypeOK' OBVIOUS
<1>1. CASE UNCHANGED vars
  BY <1>1 DEF vars, TypeOK, HandleTypeOK, ReaderTypeOK, WorkerTypeOK,
     WriterTypeOK, StreamTypeOK, HistoryTypeOK, readerVars, workerVars,
     outVars, writerVars, tableVars, streamVars, fileVars, history, inHistory,
     outHistory
<1> QED
  BY <1>1, TypeHandle, TypeReader, TypeWorker, TypeWriter, TypeStream
  DEF Next

\* The types of every variable, the capacities of every channel, for every
\* number of messages, ids and buffer sizes.
THEOREM TypeSafety == Spec => []TypeOK
<1>1. Init => TypeOK BY TypeInit
<1>2. TypeOK /\ [Next]_vars => TypeOK' BY TypeStep
<1> QED BY <1>1, <1>2, PTL DEF Spec

-----------------------------------------------------------------------------
(***************************************************************************)
(* Messages keep their order from the reader to the worker, so a command   *)
(* that opens a stream is the first to use its name.                       *)
(***************************************************************************)

LEMMA QueuedNumbers ==
  ASSUME TypeOK
  PROVE  \A i \in 1 .. Len(commands) : commands[i].n \in Objs
<1>1. \A i \in 1 .. Len(commands) : commands[i] \in Commands
  BY DEF TypeOK, ReaderTypeOK
<1> QED BY <1>1 DEF Commands

LEMMA OrderInit == Init => MessagesInOrder
BY SizesAssumption DEF Init, MessagesInOrder

LEMMA OrderReader ==
  ASSUME TypeOK, MessagesInOrder, Reader
  PROVE  MessagesInOrder'
<1> USE SizesAssumption DEF workerVars, streamVars, fileVars, MessagesInOrder
<1>1. CASE ReaderReadsAny
  <2>1. PICK in \in Inputs : ReaderReads(in) BY <1>1 DEF ReaderReadsAny
  <2>2. nread \in Nat /\ nread' = nread + 1 /\ nread' \in Objs
    BY <2>1 DEF ReaderReads, TypeOK, HistoryTypeOK, Objs
  <2>3. rpc' = "enqueue" => rcmd'.n = nread'
    BY <2>1, <2>2 DEF ReaderReads, Rejected
  <2>4. UNCHANGED <<kpc, kcmd, commands, spc>> BY <2>1 DEF ReaderReads
  <2>5. \A i \in 1 .. Len(commands) : commands[i].n \in Nat
    BY QueuedNumbers DEF Objs
  <2>6. kcmd.n \in Nat BY DEF TypeOK, WorkerTypeOK, Commands, Objs
  <2>7. spc[nread'] = "none" /\ \A o \in Objs : o > nread' => spc[o] = "none"
    BY <2>2 DEF Objs
  <2> QED BY <2>2, <2>3, <2>4, <2>5, <2>6, <2>7
<1>2. CASE ReaderEnqueue
  <2>1. commands' = Append(commands, rcmd) /\ rcmd.n = nread
        /\ UNCHANGED <<kpc, kcmd, spc, nread>> /\ rpc' = "check"
    BY <1>2 DEF ReaderEnqueue, history, inHistory
  <2>2. commands \in Seq(Commands) /\ rcmd \in Commands
    BY DEF TypeOK, ReaderTypeOK
  <2>3. nread \in Nat /\ kcmd.n \in Nat
    BY DEF TypeOK, HistoryTypeOK, WorkerTypeOK, Commands, Objs
  <2>4. /\ Len(commands') = Len(commands) + 1
        /\ \A i \in 1 .. Len(commands) : commands'[i] = commands[i]
        /\ commands'[Len(commands) + 1] = rcmd
    BY <2>1, <2>2
  <2> QED BY <1>2, <2>1, <2>2, <2>3, <2>4 DEF ReaderEnqueue
<1>3. CASE UNCHANGED <<commands, spc, kpc, kcmd, nread>> /\ rpc' # "enqueue"
  BY <1>3
<1> QED
  BY <1>1, <1>2, <1>3
  DEF Reader, ReaderStart, ReaderCheck, ReaderFails, ReaderPush,
      ReaderTerminates, ReaderExits, history, inHistory

LEMMA OrderWorker ==
  ASSUME TypeOK, MessagesInOrder, Worker
  PROVE  MessagesInOrder'
<1> USE SizesAssumption DEF readerVars, streamVars, fileVars, history, inHistory,
                            MessagesInOrder
<1>1. CASE WorkerTakes
  <2>1. commands # <<>> /\ commands \in Seq(Commands)
        /\ commands' = Tail(commands) /\ kcmd' = Head(commands)
        /\ UNCHANGED <<rpc, rcmd, spc, nread>>
    BY <1>1 DEF WorkerTakes, TypeOK, ReaderTypeOK
  <2>2. /\ Len(commands) \in Nat /\ Len(commands) > 0
        /\ Len(commands') = Len(commands) - 1
        /\ \A i \in 1 .. Len(commands') : commands'[i] = commands[i + 1]
        /\ kcmd' = commands[1]
    BY <2>1
  <2> QED BY <2>1, <2>2
<1>2. CASE RunOpen
  <2>1. kcmd.n \in Objs BY DEF TypeOK, WorkerTypeOK, Commands
  <2>2. spc' = [spc EXCEPT ![kcmd.n] = "new"] /\ kpc' = "reply"
        /\ UNCHANGED <<commands, rpc, rcmd, nread>> /\ kpc = "run"
    BY <1>2 DEF RunOpen, OpenStream
  <2>3. \A o \in Objs : o # kcmd.n => spc'[o] = spc[o]
    BY <2>1, <2>2 DEF TypeOK, StreamTypeOK
  <2>4. \A i \in 1 .. Len(commands) : commands[i].n \in Objs
    BY QueuedNumbers
  <2>5. nread \in 0 .. MaxReads /\ (rpc = "enqueue" => nread \in Objs)
    BY DEF TypeOK, HistoryTypeOK, ReaderTypeOK, Commands
  <2> QED BY <2>1, <2>2, <2>3, <2>4, <2>5 DEF Objs
<1>3. CASE UNCHANGED <<commands, rpc, rcmd, spc, nread>> /\ kpc' # "run"
  BY <1>3
<1> QED
  BY <1>1, <1>2, <1>3
  DEF Worker, WorkerStart, WorkerCheck, WorkerSeesDone, RunAnswer,
      RunTerminate, RunTooMany, RunClose, WorkerCancels, WorkerAwaits,
      WorkerReplies, WorkerClosesOut, WorkerExits

\* A goroutine of a stream moves only itself, and never back to "none".
LEMMA StreamMoves ==
  ASSUME TypeOK, NEW o \in Objs, Stream(o) \/ WriterTakesFrame(o)
  PROVE  /\ spc[o] \notin {"none", "gone"} /\ spc'[o] \notin {"none", "new"}
         /\ \A p \in Objs : p # o => spc'[p] = spc[p]
         /\ UNCHANGED <<commands, readerVars, kpc, kcmd, nread>>
BY DEF Stream, StreamStart, StreamSeesDone, StreamCancelled, StreamTimesOut,
   StreamReadsFile, StreamCopies, StreamRenames, StreamListens, StreamTakesFrame,
   StreamUnwinds, StreamSignals, StreamReleases, StreamGoes, Uninterrupted,
   SendsLast, WritesChunk, FinishesFile,
   WriterTakesFrame, TypeOK, StreamTypeOK, workerVars, history, inHistory,
   readerVars

LEMMA OrderStream ==
  ASSUME TypeOK, MessagesInOrder, NEW o \in Objs,
         Stream(o) \/ WriterTakesFrame(o)
  PROVE  MessagesInOrder'
<1>1. \A p \in Objs : spc[p] = "none" => spc'[p] = "none" BY StreamMoves
<1>2. UNCHANGED <<commands, rpc, rcmd, kpc, kcmd, nread>>
  BY StreamMoves DEF readerVars
<1>3. \A i \in 1 .. Len(commands) : commands[i].n \in Objs BY QueuedNumbers
<1>4. kcmd.n \in Objs /\ rcmd.n \in Objs
  BY DEF TypeOK, ReaderTypeOK, WorkerTypeOK, Commands
<1> QED BY <1>1, <1>2, <1>3, <1>4 DEF MessagesInOrder

LEMMA OrderRest ==
  ASSUME MessagesInOrder, UNCHANGED <<commands, rpc, rcmd, kpc, kcmd, nread, spc>>
  PROVE  MessagesInOrder'
BY DEF MessagesInOrder

LEMMA OrderStep ==
  TypeOK /\ MessagesInOrder /\ [Next]_vars => MessagesInOrder'
<1> SUFFICES ASSUME TypeOK, MessagesInOrder, [Next]_vars
             PROVE  MessagesInOrder'
  OBVIOUS
<1> USE DEF readerVars, workerVars, streamVars, fileVars, history, inHistory
<1>1. CASE UNCHANGED vars BY <1>1, OrderRest DEF vars
<1>2. CASE Handle
  BY <1>2, OrderRest DEF Handle, HandleTerminate, HandleCloseDone, HandleWait
<1>3. CASE Reader BY <1>3, OrderReader
<1>4. CASE Worker BY <1>4, OrderWorker
<1>5. CASE Writer
  <2>1. ASSUME NEW o \in Objs, WriterTakesFrame(o) PROVE MessagesInOrder'
    BY <2>1, OrderStream
  <2> QED
    BY <1>5, <2>1, OrderRest
    DEF Writer, WriterStart, WriterCheck, WriterTakesAnswer, WriterDrained,
        WriterFindsNoAnswer, WriterSeesDone, WriterWrites, WriterFails,
        WriterTerminates, WriterExits
<1>6. ASSUME NEW o \in Objs, Stream(o) PROVE MessagesInOrder'
  BY <1>6, OrderStream
<1> QED BY <1>1, <1>2, <1>3, <1>4, <1>5, <1>6 DEF Next

-----------------------------------------------------------------------------
(***************************************************************************)
(* The connection outlives its users.  WaitCoversGoroutines is inductive:  *)
(* when Wait returns the counter is zero, so no goroutine is between its   *)
(* Add and its Done.                                                       *)
(***************************************************************************)

LEMMA CountedStreamsFinite == IsFiniteSet(CountedStreams)
<1>1. IsFiniteSet(Objs)
  BY SizesAssumption, FS_Interval DEF Objs
<1> QED BY <1>1, FS_Subset DEF CountedStreams

\* The counter follows CountedStreams when one stream joins or leaves.
LEMMA StreamJoins ==
  ASSUME NEW o \in Objs, o \notin CountedStreams,
         CountedStreams' = CountedStreams \cup {o}
  PROVE  Cardinality(CountedStreams') = Cardinality(CountedStreams) + 1
BY CountedStreamsFinite, FS_AddElement

LEMMA StreamLeaves ==
  ASSUME NEW o \in Objs, o \in CountedStreams,
         CountedStreams' = CountedStreams \ {o}
  PROVE  Cardinality(CountedStreams') = Cardinality(CountedStreams) - 1
BY CountedStreamsFinite, FS_RemoveElement

LEMMA CountedStreamsNat == Cardinality(CountedStreams) \in Nat
BY CountedStreamsFinite, FS_CardinalityType

LEMMA CountInit == Init => WaitCoversGoroutines
<1> SUFFICES ASSUME Init PROVE WaitCoversGoroutines OBVIOUS
<1>1. CountedStreams = {} BY DEF Init, CountedStreams
<1>2. Cardinality(CountedStreams) = 0 BY <1>1, FS_EmptySet
<1>3. WgCounts BY <1>2 DEF Init, WgCounts, Counted
<1>4. handle = "await" BY DEF Init
<1> QED BY <1>3, <1>4 DEF WaitCoversGoroutines

\* A zero counter: nobody is between Add and Done.
LEMMA ZeroCounter ==
  ASSUME WgCounts, wg = 0
  PROVE  {rpc, kpc, wpc} \subseteq {"new", "end"}
<1>1. Counted(rpc) \in {0, 1} /\ Counted(kpc) \in {0, 1} /\ Counted(wpc) \in {0, 1}
  BY DEF Counted
<1>2. Counted(rpc) = 0 /\ Counted(kpc) = 0 /\ Counted(wpc) = 0
  BY <1>1, CountedStreamsNat DEF WgCounts
<1> QED BY <1>2 DEF Counted

LEMMA CountHandle ==
  ASSUME TypeOK, WaitCoversGoroutines, Handle
  PROVE  WaitCoversGoroutines'
<1>1. CountedStreams' = CountedStreams
      /\ UNCHANGED <<rpc, kpc, wpc, wg>>
  BY DEF Handle, HandleTerminate, HandleCloseDone, HandleWait, readerVars,
     workerVars, writerVars, streamVars, fileVars, CountedStreams
<1>2. WgCounts' BY <1>1 DEF WaitCoversGoroutines, WgCounts, Counted
<1>3. handle' \notin {"await", "close"} => done'
  BY DEF Handle, HandleTerminate, HandleCloseDone, HandleWait,
     WaitCoversGoroutines
<1>4. ASSUME handle' = "closed" PROVE {rpc, wpc} \subseteq {"new", "end"}
  <2>1. wg = 0 /\ WgCounts
    BY <1>4 DEF Handle, HandleTerminate, HandleCloseDone, HandleWait,
       WaitCoversGoroutines
  <2> QED BY <2>1, ZeroCounter
<1> QED BY <1>1, <1>2, <1>3, <1>4 DEF WaitCoversGoroutines

LEMMA CountReader ==
  ASSUME TypeOK, WaitCoversGoroutines, Reader
  PROVE  WaitCoversGoroutines'
<1> USE DEF workerVars, writerVars, streamVars, fileVars
<1>1. UNCHANGED <<spc, kpc, wpc, done>>
  BY DEF Reader, ReaderStart, ReaderCheck, ReaderReadsAny, ReaderReads,
     ReaderFails, ReaderEnqueue, ReaderPush, ReaderTerminates, ReaderExits
<1>2. CountedStreams' = CountedStreams BY <1>1 DEF CountedStreams
<1>3. wg' - wg = Counted(rpc') - Counted(rpc) /\ wg' \in Int
  BY DEF Reader, ReaderStart, ReaderCheck, ReaderReadsAny, ReaderReads,
     ReaderFails, ReaderEnqueue, ReaderPush, ReaderTerminates, ReaderExits,
     WgAdd, WgDone, WgSame, Counted, TypeOK, HandleTypeOK
<1>4. WgCounts'
  BY <1>1, <1>2, <1>3, CountedStreamsNat
  DEF WgCounts, WaitCoversGoroutines, Counted, TypeOK, HandleTypeOK
<1>5. handle' = handle \/ (handle = "sleep" /\ handle' = "woken")
  BY DEF Reader, ReaderStart, ReaderCheck, ReaderReadsAny, ReaderReads,
     ReaderFails, ReaderEnqueue, ReaderPush, ReaderTerminates, ReaderExits,
     WgAdd, WgDone, WgSame
<1>6. handle = "closed" => rpc' \in {"new", "check", "exit", "end"}
  BY DEF Reader, ReaderStart, ReaderCheck, ReaderReadsAny, ReaderReads,
     ReaderFails, ReaderEnqueue, ReaderPush, ReaderTerminates, ReaderExits,
     WaitCoversGoroutines
<1> QED BY <1>1, <1>4, <1>5, <1>6 DEF WaitCoversGoroutines

LEMMA CountWorker ==
  ASSUME TypeOK, MessagesInOrder, WaitCoversGoroutines, Worker
  PROVE  WaitCoversGoroutines'
<1> USE DEF readerVars, writerVars, streamVars, fileVars
<1>1. UNCHANGED <<rpc, wpc, done>>
  BY DEF Worker, WorkerStart, WorkerCheck, WorkerSeesDone, WorkerTakes,
     RunAnswer, RunTerminate, RunOpen, RunTooMany, RunClose, WorkerCancels,
     WorkerAwaits, WorkerReplies, WorkerClosesOut, WorkerExits
<1>2. CountedStreams' = CountedStreams
  <2>1. CASE UNCHANGED spc BY <2>1 DEF CountedStreams
  <2>2. CASE RunOpen
    <3>1. kcmd.n \in Objs /\ spc[kcmd.n] = "none"
      BY <2>2 DEF RunOpen, MessagesInOrder, TypeOK, WorkerTypeOK, Commands
    <3>2. spc' = [spc EXCEPT ![kcmd.n] = "new"]
      BY <2>2 DEF RunOpen, OpenStream
    <3> QED BY <3>1, <3>2 DEF CountedStreams, TypeOK, StreamTypeOK
  <2> QED
    BY <2>1, <2>2
    DEF Worker, WorkerStart, WorkerCheck, WorkerSeesDone, WorkerTakes,
        RunAnswer, RunTerminate, RunTooMany, RunClose, WorkerCancels,
        WorkerAwaits, WorkerReplies, WorkerClosesOut, WorkerExits
<1>3. wg' - wg = Counted(kpc') - Counted(kpc) /\ wg' \in Int
  BY DEF Worker, WorkerStart, WorkerCheck, WorkerSeesDone, WorkerTakes,
     RunAnswer, RunTerminate, RunOpen, RunTooMany, RunClose, WorkerCancels,
     WorkerAwaits, WorkerReplies, WorkerClosesOut, WorkerExits,
     WgAdd, WgDone, WgSame, Counted, TypeOK, HandleTypeOK
<1>4. WgCounts'
  BY <1>1, <1>2, <1>3, CountedStreamsNat
  DEF WgCounts, WaitCoversGoroutines, Counted, TypeOK, HandleTypeOK
<1>5. handle' = handle \/ (handle = "sleep" /\ handle' = "woken")
  BY DEF Worker, WorkerStart, WorkerCheck, WorkerSeesDone, WorkerTakes,
     RunAnswer, RunTerminate, RunOpen, RunTooMany, RunClose, WorkerCancels,
     WorkerAwaits, WorkerReplies, WorkerClosesOut, WorkerExits,
     WgAdd, WgDone, WgSame
<1> QED BY <1>1, <1>4, <1>5 DEF WaitCoversGoroutines

\* The steps of the writer but the receive from dataOut.
LEMMA CountWriter ==
  ASSUME TypeOK, WaitCoversGoroutines, Writer,
         \A o \in Objs : ~WriterTakesFrame(o)
  PROVE  WaitCoversGoroutines'
<1> USE DEF readerVars, workerVars, streamVars, fileVars, Writer, WriterStart,
            WriterCheck, WriterTakesAnswer, WriterDrained, WriterFindsNoAnswer,
            WriterSeesDone, WriterWrites, WriterFails, WriterTerminates,
            WriterExits
<1>1. UNCHANGED <<spc, rpc, kpc, done>> OBVIOUS
<1>2. CountedStreams' = CountedStreams BY <1>1 DEF CountedStreams
<1>3. wg' - wg = Counted(wpc') - Counted(wpc) /\ wg' \in Int
  BY DEF WgAdd, WgDone, WgSame, Counted, TypeOK, HandleTypeOK
<1>4. WgCounts'
  BY <1>1, <1>2, <1>3, CountedStreamsNat, SMTT(30)
  DEF WgCounts, WaitCoversGoroutines, Counted, TypeOK, HandleTypeOK
<1>5. handle' = handle \/ (handle = "sleep" /\ handle' = "woken")
  BY DEF WgAdd, WgDone, WgSame
<1>6. handle = "closed" => wpc' \in {"new", "check", "exit", "end"}
  BY DEF WaitCoversGoroutines
<1> QED BY <1>1, <1>4, <1>5, <1>6 DEF WaitCoversGoroutines

LEMMA CountFrame ==
  ASSUME TypeOK, WaitCoversGoroutines, NEW o \in Objs, WriterTakesFrame(o)
  PROVE  WaitCoversGoroutines'
<1> USE DEF WriterTakesFrame, readerVars, workerVars, WgSame
<1>1. CountedStreams' = CountedStreams
  BY DEF CountedStreams, TypeOK, StreamTypeOK
<1>2. UNCHANGED <<rpc, kpc, done, handle, wg>> /\ wpc = "select"
      /\ wpc' = "write"
  OBVIOUS
<1>3. WgCounts' BY <1>1, <1>2 DEF WgCounts, WaitCoversGoroutines, Counted
<1> QED BY <1>2, <1>3 DEF WaitCoversGoroutines

LEMMA CountStream ==
  ASSUME TypeOK, WaitCoversGoroutines, NEW o \in Objs, Stream(o)
  PROVE  WaitCoversGoroutines'
<1> USE DEF readerVars, workerVars, writerVars, StreamGoes
<1>1. UNCHANGED <<rpc, kpc, wpc, done>>
  BY DEF Stream, StreamStart, StreamSeesDone, StreamCancelled, StreamTimesOut,
     StreamReadsFile, StreamCopies, StreamRenames, StreamListens, StreamTakesFrame,
     StreamUnwinds, StreamSignals, StreamReleases, SendsLast, WritesChunk, FinishesFile
<1>2. handle' = handle \/ (handle = "sleep" /\ handle' = "woken")
  BY DEF Stream, StreamStart, StreamSeesDone, StreamCancelled, StreamTimesOut,
     StreamReadsFile, StreamCopies, StreamRenames, StreamListens, StreamTakesFrame,
     StreamUnwinds, StreamSignals, StreamReleases, WgAdd, WgDone, WgSame
<1>3. wg' = wg + Cardinality(CountedStreams') - Cardinality(CountedStreams)
      /\ Cardinality(CountedStreams') \in Nat
  <2>1. CASE StreamStart(o)
    <3>1. spc[o] = "new" /\ spc'[o] \in {"check", "send"} /\ wg' = wg + 1
      BY <2>1 DEF StreamStart, SendsLast, WgAdd, TypeOK, StreamTypeOK
    <3>2. o \notin CountedStreams /\ CountedStreams' = CountedStreams \cup {o}
      BY <3>1, StreamMoves DEF CountedStreams
    <3>3. Cardinality(CountedStreams') = Cardinality(CountedStreams) + 1
      BY <3>2, StreamJoins
    <3>4. wg \in Int BY DEF TypeOK, HandleTypeOK
    <3> QED BY <3>1, <3>3, <3>4, CountedStreamsNat
  <2>2. CASE StreamUnwinds(o)
    <3>1. spc[o] = "unwind" /\ spc'[o] = "signal" /\ wg' = wg - 1
      BY <2>2 DEF StreamUnwinds, WgDone, TypeOK, StreamTypeOK
    <3>2. o \in CountedStreams /\ CountedStreams' = CountedStreams \ {o}
      BY <3>1, StreamMoves DEF CountedStreams
    <3>3. Cardinality(CountedStreams') \in Nat
      BY <3>2, CountedStreamsFinite, FS_RemoveElement, FS_CardinalityType
    <3>4. Cardinality(CountedStreams') = Cardinality(CountedStreams) - 1
      BY <3>2, StreamLeaves
    <3>5. wg \in Int BY DEF TypeOK, HandleTypeOK
    <3> QED BY <3>1, <3>3, <3>4, <3>5, CountedStreamsNat
  <2>3. CASE ~StreamStart(o) /\ ~StreamUnwinds(o)
    <3>1. WgSame
      BY <2>3 DEF Stream, StreamSeesDone, StreamCancelled, StreamTimesOut,
         StreamReadsFile, StreamCopies, StreamRenames, StreamListens, StreamTakesFrame,
         StreamSignals, StreamReleases
    <3>2. o \in CountedStreams <=> o \in CountedStreams'
      BY <2>3 DEF Stream, StreamSeesDone, StreamCancelled, StreamTimesOut,
         StreamReadsFile, StreamCopies, StreamRenames, StreamListens, StreamTakesFrame,
         StreamSignals, StreamReleases, Uninterrupted, CountedStreams, TypeOK,
         StreamTypeOK, SendsLast, WritesChunk, FinishesFile
    <3>3. CountedStreams' = CountedStreams
      BY <3>2, StreamMoves DEF CountedStreams
    <3> QED
      BY <3>1, <3>3, CountedStreamsNat DEF WgSame, TypeOK, HandleTypeOK
  <2> QED BY <2>1, <2>2, <2>3
<1>4. WgCounts'
  BY <1>1, <1>3, CountedStreamsNat
  DEF WgCounts, WaitCoversGoroutines, Counted, TypeOK, HandleTypeOK
<1> QED BY <1>1, <1>2, <1>4 DEF WaitCoversGoroutines

LEMMA CountStep ==
  TypeOK /\ MessagesInOrder /\ WaitCoversGoroutines /\ [Next]_vars
     => WaitCoversGoroutines'
<1> SUFFICES ASSUME TypeOK, MessagesInOrder, WaitCoversGoroutines, [Next]_vars
             PROVE  WaitCoversGoroutines'
  OBVIOUS
<1>1. CASE UNCHANGED vars
  BY <1>1 DEF vars, readerVars, workerVars, writerVars, streamVars, fileVars,
     WaitCoversGoroutines, WgCounts, Counted, CountedStreams
<1>2. CASE Handle BY <1>2, CountHandle
<1>3. CASE Reader BY <1>3, CountReader
<1>4. CASE Worker BY <1>4, CountWorker
<1>5. CASE Writer BY <1>5, CountWriter, CountFrame
<1>6. ASSUME NEW o \in Objs, Stream(o) PROVE WaitCoversGoroutines'
  BY <1>6, CountStream
<1> QED BY <1>1, <1>2, <1>3, <1>4, <1>5, <1>6 DEF Next

\* Messages reach the worker in the order the client sent them.
THEOREM OrderSafety == Spec => []MessagesInOrder
<1>1. Init => TypeOK /\ MessagesInOrder BY TypeInit, OrderInit
<1>2. TypeOK /\ MessagesInOrder /\ [Next]_vars => (TypeOK /\ MessagesInOrder)'
  BY TypeStep, OrderStep
<1> QED BY <1>1, <1>2, PTL DEF Spec

\* waitGroup counts the started goroutines, in every reachable state.
THEOREM WaitSafety == Spec => []WaitCoversGoroutines
<1>1. Init => WaitCoversGoroutines BY CountInit
<1>2. TypeOK /\ MessagesInOrder /\ WaitCoversGoroutines /\ [Next]_vars
        => WaitCoversGoroutines'
  BY CountStep
<1> QED BY <1>1, <1>2, TypeSafety, OrderSafety, PTL DEF Spec

\* session.Handle never closes a connection that the reader or the writer is
\* using, however late their goroutines start.
THEOREM ConnSafety == Spec => []ConnOpenWhileUsed
<1>1. WaitCoversGoroutines => ConnOpenWhileUsed
  BY DEF WaitCoversGoroutines, ConnOpenWhileUsed
<1> QED BY <1>1, WaitSafety, PTL
=============================================================================
