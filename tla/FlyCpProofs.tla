----------------------------- MODULE FlyCpProofs -----------------------------
(***************************************************************************)
(* What TLAPS proves of fly cp at work with a session.                     *)
(***************************************************************************)
EXTENDS FlyCpWire, StreamProofs, WireProofs, FunctionTheorems

-----------------------------------------------------------------------------
(***************************************************************************)
(* The composition is a session: whatever is true of every session is true *)
(* of one that serves fly cp.                                              *)
(***************************************************************************)

\* The client sends what a session can read.
SendsInputs == toServer \in Seq(Inputs)

LEMMA Sent ==
  ASSUME NEW op \in {"ping", "read", "write", "data", "end"}
  PROVE  [op |-> op, slot |-> 0] \in Inputs
BY CpAssumption, SizesAssumption DEF Inputs, Slots

LEMMA SendsInit == CpInit => SendsInputs
BY DEF CpInit, SendsInputs

LEMMA ClientSends ==
  ASSUME Client
  PROVE  /\ UNCHANGED vars
         /\ \/ UNCHANGED toServer
            \/ \E op \in {"ping", "read", "write", "data", "end"} :
                  toServer' = Append(toServer, [op |-> op, slot |-> 0])
BY DEF Client, CpStarts, CpOpens, CpOpened, UploadSends, UploadEnds,
   UploadPolls, UploadHears, DownloadTakes, ClientOnly, Send

\* A step of the composition is a step of the client or one of the session.
LEMMA CpSteps ==
  ASSUME SendsInputs, [CpNext]_allVars
  PROVE  /\ [Next]_vars
         /\ \/ UNCHANGED toServer
            \/ Client
            \/ toServer # <<>> /\ toServer' = Tail(toServer)
<1>1. CASE UNCHANGED allVars BY <1>1 DEF allVars, cpVars, tcpVars
<1>2. CASE Client BY <1>2, ClientSends
<1>3. CASE Running /\ (Quietly(Handle) \/ ServerHangsUp)
  BY <1>3 DEF Quietly, ServerHangsUp, Next, Reader, cpVars, tcpVars
<1>4. CASE Running /\ ServerReader
  <2>1. CASE ServerReads
    <3>1. toServer # <<>> /\ toServer \in Seq(Inputs)
      BY <2>1 DEF ServerReads, SendsInputs
    <3>2. Head(toServer) \in Inputs BY <3>1
    <3>3. ReaderReadsAny BY <2>1, <3>2 DEF ServerReads, ReaderReadsAny
    <3> QED BY <1>4, <2>1, <3>3 DEF ServerReads, Next, Reader
  <2>2. CASE Quietly(ReaderSteps)
    BY <1>4, <2>2 DEF Quietly, ReaderSteps, Next, Reader, cpVars, tcpVars
  <2> QED BY <1>4, <2>1, <2>2 DEF ServerReader
<1>5. CASE Running /\ ServerWorker
  BY <1>5
  DEF ServerWorker, ServerLists, ServerRefuses, Quietly, Next, Worker, cpVars,
      tcpVars
<1>6. CASE Running /\ ServerWriter
  BY <1>6 DEF ServerWriter, ServerWrites, Quietly, Next, Writer, cpVars,
      tcpVars
<1>7. ASSUME NEW o \in Objs, Running, ServerStream(o)
      PROVE  [Next]_vars /\ UNCHANGED toServer
  BY <1>7
  DEF ServerStream, ServerReadsFile, ServerTakesFrame, ServerStops, Quietly,
      Next, Stream, cpVars, tcpVars
<1> QED BY <1>1, <1>2, <1>3, <1>4, <1>5, <1>6, <1>7 DEF CpNext

LEMMA SendsStep == SendsInputs /\ [CpNext]_allVars => SendsInputs'
<1> SUFFICES ASSUME SendsInputs, [CpNext]_allVars PROVE SendsInputs' OBVIOUS
<1>1. CASE UNCHANGED toServer BY <1>1 DEF SendsInputs
<1>2. ASSUME NEW in \in Inputs, toServer' = Append(toServer, in)
      PROVE  SendsInputs'
  BY <1>2 DEF SendsInputs
<1>3. CASE toServer # <<>> /\ toServer' = Tail(toServer)
  BY <1>3 DEF SendsInputs
<1> QED BY <1>1, <1>2, <1>3, CpSteps, ClientSends, Sent

LEMMA SendsAlways == CpSpec => []SendsInputs
<1>1. CpInit => SendsInputs BY SendsInit
<1>2. SendsInputs /\ [CpNext]_allVars => SendsInputs' BY SendsStep
<1> QED BY <1>1, <1>2, PTL DEF CpSpec

\* Every behaviour of fly cp and the session is one of the session, so that all
\* that was proved of a session holds while it serves fly cp.
THEOREM CpIsSession == CpSpec => Spec
<1>1. CpInit => Init BY DEF CpInit
<1>2. SendsInputs /\ [CpNext]_allVars => [Next]_vars BY CpSteps
<1> QED BY <1>1, <1>2, SendsAlways, PTL DEF CpSpec, Spec

-----------------------------------------------------------------------------
(***************************************************************************)
(* What an upload stores.  The client follows one script, and one stream   *)
(* is all that it opens; the frames reach this stream in the order of the  *)
(* script, so that it takes the null frame after all the blocks.           *)
(***************************************************************************)

SentSoFar == nread + Len(toServer)

\* What the client sends as its n-th message.
OpAt(n) ==
    IF n = 2 THEN IF way = "up" THEN "write" ELSE "read"
    ELSE IF n \in 3 .. Blocks + 2 THEN "data"
    ELSE IF n = Blocks + 3 THEN "end" ELSE "ping"

\* How far the client is in its script.
Script ==
    /\ way \in {"up", "down"} /\ blocks \in Nat
    /\ \A i \in 1 .. Len(toServer) :
         toServer[i].op = OpAt(nread + i) /\ toServer[i].slot = 0
    /\ cp = "start" => SentSoFar = 0 /\ blocks = 0
    /\ cp = "stat" => SentSoFar = 1 /\ blocks = 0
    /\ cp = "open" => SentSoFar = 2 /\ blocks = 0
    /\ cp = "send" => way = "up" /\ SentSoFar = 2 + blocks /\ blocks <= Blocks
    /\ cp \in {"poll", "answer"} => way = "up" /\ SentSoFar >= 3 + Blocks
    /\ cp = "recv" => way = "down" /\ SentSoFar = 2
    /\ SentSoFar >= 3 => way = "up"
    /\ way = "up" /\ SentSoFar >= 3 + Blocks => blocks = Blocks

\* A command is what the client sent under its number, or a refused frame.
Scripted(c) == c.op \in {"out", OpAt(c.n)}

CommandsScripted ==
    /\ Scripted(rcmd) /\ Scripted(kcmd)
    /\ \A i \in 1 .. Len(commands) : Scripted(commands[i])
    /\ rpc = "push" => rcmd.n = nread /\ rcmd.op = OpAt(nread)

\* The STREAM was run.
Opened == 2 \in Objs /\ spc[2] # "none"

\* Its answer is on its way to the client.
IdUnderway ==
    \/ kans.kind = "id" \/ wval.kind = "id"
    \/ \E i \in 1 .. Len(cmdOut) : cmdOut[i].kind = "id"
    \/ \E i \in 1 .. Len(toClient) : toClient[i].kind = "id"

\* The second message opens the only stream, under the id 0, and the client
\* goes on only when it has the answer.
OneStream ==
    /\ toClient \in Seq(Messages)
    /\ \A o \in Objs : spc[o] # "none" => o = 2 /\ slot[o] = 0
    /\ IdUnderway => Opened
    /\ cp \in {"send", "poll", "answer", "recv"} \/ SentSoFar >= 3 => Opened

\* The frames that were read so far.
FramesRead == IF nread <= Blocks + 3 THEN nread - 2 ELSE Blocks + 1

\* ... and the one that the reader holds.
FramesHeld == IF rpc = "push" THEN 1 ELSE 0

Looping(o) == spc[o] \in {"new", "check", "select"} /\ kind[o] = "write"

\* A write stream in its loop has all of them: in its file, in its channel, or
\* held by the reader.
Arrives(o) ==
    /\ spc[o] = "none" => frames[o] = <<>>
    /\ spc[o] = "select" => kind[o] = "write"
    /\ Looping(o) =>
         /\ way = "up"
         /\ rpc = "push" => robj = o
         /\ wrote + Len(frames[o]) + FramesHeld = FramesRead
         /\ \A i \in 1 .. Len(frames[o]) : frames[o][i] = OpAt(2 + wrote + i)

FramesArrive ==
    /\ wrote \in Nat
    /\ ~Opened => wrote = 0
    /\ rpc = "push" => Opened /\ robj = 2
    /\ \A o \in Objs : Arrives(o)

StoredWhole ==
    /\ remote \in {"none", "old", "new"}
    /\ remote = "new" => way = "up" /\ SentSoFar >= 3 + Blocks

\* Who moves what, of the composition's state.
LEMMA CpLeaves ==
  ASSUME [CpNext]_allVars
  PROVE  /\ way' = way
         /\ Client \/ UNCHANGED <<cp, blocks>>
         /\ Client \/ ServerReads \/ UNCHANGED <<toServer, nread>>
         /\ Client \/ ServerWrites \/ UNCHANGED toClient
         /\ (\E o \in Objs : ServerTakesFrame(o)) \/ UNCHANGED <<wrote, remote>>
<1>1. CASE UNCHANGED allVars
  BY <1>1 DEF allVars, vars, cpVars, tcpVars, fileState, history, inHistory
<1>2. CASE Client
  BY <1>2, ClientSends
  DEF Client, CpStarts, CpOpens, CpOpened, UploadSends, UploadEnds,
      UploadPolls, UploadHears, DownloadTakes, ClientOnly, fileState
<1>3. CASE Quietly(Handle) \/ ServerHangsUp
  BY <1>3, HandleLeaves
  DEF Quietly, ServerHangsUp, ReaderFails, cpVars, tcpVars, fileState, history,
      inHistory
<1>4. CASE ServerReader
  BY <1>4
  DEF ServerReader, ServerReads, Quietly, ReaderSteps, ReaderStart,
      ReaderCheck, ReaderEnqueue, ReaderPush, ReaderTerminates, ReaderExits,
      cpVars, tcpVars, fileState, history, inHistory
<1>5. CASE ServerWorker
  <2>1. UNCHANGED nread
    BY <1>5, WorkerLeaves
    DEF ServerWorker, ServerLists, ServerRefuses, Quietly, Worker, history,
        inHistory
  <2> QED
    BY <1>5, <2>1
    DEF ServerWorker, ServerLists, ServerRefuses, Quietly, cpVars, tcpVars,
        fileState
<1>6. CASE ServerWriter
  <2>1. UNCHANGED nread
    BY <1>6, WriterLeaves
    DEF ServerWriter, ServerWrites, Quietly, Writer, inHistory
  <2> QED
    BY <1>6, <2>1 DEF ServerWriter, ServerWrites, Quietly, cpVars, tcpVars,
        fileState
<1>7. ASSUME NEW o \in Objs, ServerStream(o)
      PROVE  /\ UNCHANGED <<way, cp, blocks, toServer, nread, toClient>>
             /\ ServerTakesFrame(o) \/ UNCHANGED <<wrote, remote>>
  <2>1. UNCHANGED nread
    BY <1>7, StreamLeavesRest
    DEF ServerStream, ServerReadsFile, ServerTakesFrame, ServerStops, Quietly,
        Stream, history, inHistory
  <2> QED
    BY <1>7, <2>1
    DEF ServerStream, ServerReadsFile, ServerTakesFrame, ServerStops, Quietly,
        cpVars, tcpVars, fileState
<1> QED BY <1>1, <1>2, <1>3, <1>4, <1>5, <1>6, <1>7 DEF CpNext

LEMMA ScriptInit == CpInit => Script
BY CpAssumption DEF CpInit, Init, Script, SentSoFar

LEMMA ScriptClient ==
  ASSUME SendsInputs, TypeOK, Script, Client
  PROVE  Script'
<1> USE CpAssumption DEF Script, SentSoFar, OpAt, ClientOnly, vars, history, inHistory
<1>0. /\ nread' = nread /\ nread \in Nat /\ toServer \in Seq(Inputs)
      /\ way' = way /\ Blocks \in Nat
  BY CpLeaves, ClientSends DEF SendsInputs, TypeOK, HistoryTypeOK, CpNext
<1>s. ASSUME NEW op \in {"ping", "read", "write", "data", "end"}, Send(op),
             op = OpAt(SentSoFar + 1)
      PROVE  /\ SentSoFar' = SentSoFar + 1
             /\ \A i \in 1 .. Len(toServer') :
                  toServer'[i].op = OpAt(nread + i) /\ toServer'[i].slot = 0
  BY <1>0, <1>s DEF Send
<1>1. CASE CpStarts BY <1>0, <1>s, <1>1 DEF CpStarts
<1>2. CASE CpOpens BY <1>0, <1>s, <1>2 DEF CpOpens
<1>3. CASE CpOpened BY <1>0, <1>3 DEF CpOpened
<1>4. CASE UploadSends BY <1>0, <1>s, <1>4 DEF UploadSends
<1>5. CASE UploadEnds BY <1>0, <1>s, <1>5 DEF UploadEnds
<1>6. CASE UploadPolls BY <1>0, <1>s, <1>6 DEF UploadPolls
<1>7. CASE UploadHears BY <1>0, <1>7 DEF UploadHears
<1>8. CASE DownloadTakes BY <1>0, <1>8 DEF DownloadTakes
<1> QED BY <1>1, <1>2, <1>3, <1>4, <1>5, <1>6, <1>7, <1>8 DEF Client

LEMMA ScriptStep ==
  ASSUME SendsInputs, TypeOK, Script, [CpNext]_allVars
  PROVE  Script'
<1>0. nread \in Nat /\ toServer \in Seq(Inputs)
  BY DEF SendsInputs, TypeOK, HistoryTypeOK
<1>1. CASE Client BY <1>1, ScriptClient
<1>2. CASE ServerReads
  <2>1. /\ toServer # <<>> /\ toServer' = Tail(toServer) /\ nread' = nread + 1
        /\ UNCHANGED <<way, cp, blocks>>
    BY <1>2 DEF ServerReads, ReaderReads
  <2>2. SentSoFar' = SentSoFar BY <1>0, <2>1 DEF SentSoFar
  <2> QED BY <1>0, <2>1, <2>2, CpAssumption DEF Script, OpAt
<1>3. CASE UNCHANGED <<way, cp, blocks, toServer, nread>>
  BY <1>3 DEF Script, SentSoFar, OpAt
<1> QED BY <1>1, <1>2, <1>3, CpLeaves

\* Where a command is created, queued, taken and forgotten.
LEMMA CommandMoves ==
  ASSUME [CpNext]_allVars
  PROVE  \/ ServerReads \/ ReaderEnqueue \/ ReaderPush \/ WorkerTakes
         \/ WorkerReplies
         \/ /\ UNCHANGED <<rcmd, commands, kcmd, nread>>
            /\ rpc' = "push" => rpc = "push"
<1>1. CASE UNCHANGED vars
  BY <1>1 DEF vars, readerVars, workerVars, history, inHistory
<1>2. CASE Handle
  BY <1>2, HandleLeaves DEF readerVars, workerVars, history, inHistory
<1>3. CASE ReaderSteps \/ ReaderFails
  BY <1>3
  DEF ReaderSteps, ReaderStart, ReaderCheck, ReaderFails, ReaderTerminates,
      ReaderExits, workerVars, history, inHistory
<1>4. CASE ServerWorker
  BY <1>4
  DEF ServerWorker, ServerLists, ServerRefuses, Quietly, WorkerStart,
      WorkerCheck, WorkerSeesDone, RunAnswer, RunOpen, WorkerExits, readerVars,
      history, inHistory
<1>5. CASE Writer
  BY <1>5, WriterLeaves DEF readerVars, workerVars, inHistory
<1>6. ASSUME NEW o \in Objs, Stream(o)
      PROVE  UNCHANGED <<rcmd, rpc, commands, kcmd, nread>>
  BY <1>6, StreamLeavesRest DEF readerVars, workerVars, history, inHistory
<1>7. CASE ServerWriter
  BY <1>5, <1>7 DEF ServerWriter, ServerWrites, Quietly, Writer
<1>8. ASSUME NEW o \in Objs, ServerStream(o) PROVE Stream(o)
  BY <1>8
  DEF ServerStream, ServerReadsFile, ServerTakesFrame, ServerStops, Quietly,
      Stream
<1> QED
  BY <1>1, <1>2, <1>3, <1>4, <1>6, <1>7, <1>8, ClientSends
  DEF CpNext, allVars, ServerReader, ServerHangsUp, Quietly

LEMMA CommandsStep ==
  ASSUME SendsInputs, TypeOK, Script, CommandsScripted, [CpNext]_allVars
  PROVE  CommandsScripted'
<1> USE DEF CommandsScripted, Scripted, OpAt
<1>0. /\ way' = way /\ nread \in Nat /\ Blocks \in Nat
      /\ commands \in Seq(Commands) /\ rcmd \in Commands /\ kcmd \in Commands
  BY CpLeaves, CpAssumption DEF TypeOK, HistoryTypeOK, ReaderTypeOK,
      WorkerTypeOK
<1>d. NoCommand.op = "out" BY DEF NoCommand
<1>1. CASE ServerReads
  <2>1. toServer # <<>> /\ ReaderReads(Head(toServer))
    BY <1>1 DEF ServerReads
  <2>2. Head(toServer).op = OpAt(nread + 1)
    <3> toServer \in Seq(Inputs) BY DEF SendsInputs
    <3> QED BY <1>0, <2>1 DEF Script
  <2>3. UNCHANGED <<commands, kcmd>> BY <2>1 DEF ReaderReads, workerVars
  <2>4. /\ rcmd'.op \in {"out", Head(toServer).op} /\ rcmd'.n = nread + 1
        /\ nread' = nread + 1
        /\ rpc' = "push" => rcmd'.op = Head(toServer).op
    BY <2>1 DEF ReaderReads, Rejected
  <2> QED BY <1>0, <2>2, <2>3, <2>4
<1>2. CASE ReaderEnqueue
  <2>1. /\ rcmd' = NoCommand /\ rpc' = "check" /\ UNCHANGED kcmd
        /\ commands' = Append(commands, rcmd)
    BY <1>2 DEF ReaderEnqueue, workerVars
  <2> QED BY <1>0, <1>d, <2>1
<1>3. CASE ReaderPush
  <2>1. rcmd' = NoCommand /\ rpc' = "check" /\ UNCHANGED <<commands, kcmd>>
    BY <1>3 DEF ReaderPush, workerVars
  <2> QED BY <1>0, <1>d, <2>1
<1>4. CASE WorkerTakes
  <2>1. /\ commands # <<>> /\ commands' = Tail(commands)
        /\ kcmd' = Head(commands) /\ UNCHANGED <<rpc, rcmd, nread>>
    BY <1>4 DEF WorkerTakes, readerVars, history, inHistory
  <2> QED BY <1>0, <2>1
<1>5. CASE WorkerReplies
  <2>1. kcmd' = NoCommand /\ UNCHANGED <<commands, rpc, rcmd, nread>>
    BY <1>5 DEF WorkerReplies, readerVars, history, inHistory
  <2> QED BY <1>0, <1>d, <2>1
<1>6. CASE /\ UNCHANGED <<rcmd, commands, kcmd, nread>>
           /\ rpc' = "push" => rpc = "push"
  BY <1>0, <1>6
<1> QED BY <1>1, <1>2, <1>3, <1>4, <1>5, <1>6, CommandMoves

LEMMA StreamMovesOnly ==
  ASSUME SendsInputs, [CpNext]_allVars
  PROVE  \/ RunOpen
         \/ \E o \in Objs : (Stream(o) \/ WriterTakesFrame(o)) /\ UNCHANGED slot
         \/ UNCHANGED <<spc, slot>>
<1>1. [Next]_vars BY CpSteps
<1> QED
  BY <1>1, HandleLeaves, ReaderLeaves, WorkerLeaves, WriterLeaves,
     StreamLeavesRest
  DEF Next, vars, streamVars

LEMMA OpensSecond ==
  ASSUME TypeOK, MessagesInOrder, TableMatchesStreams, CommandsScripted,
         OneStream, RunOpen
  PROVE  /\ 2 \in Objs /\ kcmd.n = 2 /\ spc[2] = "none" /\ slot'[2] = 0
         /\ kcmd.op = IF way = "up" THEN "write" ELSE "read"
<1>1. /\ kcmd.n \in Objs /\ spc[kcmd.n] = "none"
      /\ kcmd.op \in {"read", "write", "copy"}
  BY RunOpenFacts
<1>2. kcmd.n = 2 /\ kcmd.op = IF way = "up" THEN "write" ELSE "read"
  BY <1>1 DEF CommandsScripted, Scripted, OpAt
<1>3. \A i \in Slots : streams[i] = None
  <2> SUFFICES ASSUME NEW i \in Slots, streams[i] # None PROVE FALSE OBVIOUS
  <2>1. streams[i] \in Objs BY DEF TypeOK, StreamTypeOK
  <2> QED BY <1>1, <1>2, <2>1 DEF TableMatchesStreams, Live, OneStream
<1>4. 0 \in Slots /\ slot \in [Objs -> Slots] /\ \A i \in Slots : i \in Nat
  BY SizesAssumption DEF Slots, TypeOK, StreamTypeOK
<1>5. PICK i \in Slots : nextStreamId(i) /\ slot' = [slot EXCEPT ![kcmd.n] = i]
  BY DEF RunOpen, OpenStream
<1>6. i = 0 BY <1>3, <1>4, <1>5 DEF nextStreamId, FreeSlots
<1> QED BY <1>1, <1>2, <1>4, <1>5, <1>6

\* Only STREAM sends an id.
LEMMA IdMoves ==
  ASSUME SendsInputs, TypeOK, OneStream, [CpNext]_allVars
  PROVE  /\ toClient' \in Seq(Messages)
         /\ IdUnderway' => IdUnderway \/ RunOpen
<1>0. /\ toClient \in Seq(Messages) /\ cmdOut \in Seq(Answers)
      /\ wval \in Messages
  BY DEF OneStream, TypeOK, WorkerTypeOK, WriterTypeOK
<1>n. NoAnswer.kind = "ok" BY DEF NoAnswer, Answer
<1> USE DEF IdUnderway
<1>1. CASE Client
  <2>1. UNCHANGED <<kans, wval, cmdOut>>
    BY <1>1, ClientSends DEF vars, workerVars, outVars, writerVars
  <2>2. UNCHANGED toClient \/ (toClient # <<>> /\ toClient' = Tail(toClient))
    BY <1>1
    DEF Client, CpStarts, CpOpens, CpOpened, UploadSends, UploadEnds,
        UploadPolls, UploadHears, DownloadTakes, Receive
  <2> QED BY <1>0, <2>1, <2>2
<1>2. CASE ServerWrites
  <2>1. /\ UNCHANGED <<kans, cmdOut>> /\ wval' = NoAnswer
        /\ toClient' = Append(toClient, wval)
    BY <1>2 DEF ServerWrites, WriterWrites, workerVars, outVars
  <2> QED BY <1>0, <1>n, <2>1
<1>3. CASE UNCHANGED toClient /\ UNCHANGED <<kans, wval, cmdOut>>
  BY <1>0, <1>3
<1>4. CASE UNCHANGED toClient /\ ServerWorker
  <2>1. wval' = wval
    BY <1>4, WorkerLeaves
    DEF ServerWorker, ServerLists, ServerRefuses, Quietly, Worker, writerVars
  <2>2. CASE WorkerReplies
    <3>1. cmdOut' = Append(cmdOut, kans) /\ kans' = NoAnswer
      BY <2>2 DEF WorkerReplies
    <3> QED BY <1>0, <1>n, <1>4, <2>1, <3>1
  <2>3. CASE RunOpen BY <1>0, <1>4, <2>3
  <2>4. CASE WorkerTakes
    <3>1. cmdOut' = cmdOut /\ kans'.kind # "id"
      BY <2>4 DEF WorkerTakes, outVars, Answer
    <3> QED BY <1>0, <1>4, <2>1, <3>1
  <2>5. CASE RunAnswer
    <3>1. cmdOut' = cmdOut /\ (kans' = kans \/ kans'.kind # "id")
      BY <2>5 DEF RunAnswer, outVars, Answer
    <3> QED BY <1>0, <1>4, <2>1, <3>1
  <2>6. CASE WorkerStart \/ WorkerCheck \/ WorkerSeesDone \/ WorkerExits
    BY <1>0, <1>4, <2>1, <2>6
    DEF WorkerStart, WorkerCheck, WorkerSeesDone, WorkerExits, outVars
  <2> QED
    BY <1>4, <2>2, <2>3, <2>4, <2>5, <2>6
    DEF ServerWorker, ServerLists, ServerRefuses, Quietly
<1>5. CASE UNCHANGED toClient /\ WriterTakesAnswer
  <2>1. /\ cmdOut # <<>> /\ wval' = Head(cmdOut) /\ cmdOut' = Tail(cmdOut)
        /\ kans' = kans
    BY <1>5 DEF WriterTakesAnswer, workerVars
  <2> QED BY <1>0, <1>5, <2>1
<1>6. ASSUME UNCHANGED toClient, NEW o \in Objs, WriterTakesFrame(o)
      PROVE  /\ toClient' \in Seq(Messages)
             /\ IdUnderway' => IdUnderway \/ RunOpen
  <2>1. wval'.kind # "id" /\ UNCHANGED <<kans, cmdOut>>
    BY <1>6 DEF WriterTakesFrame, Frame, TypeOK, StreamTypeOK, workerVars,
        outVars
  <2> QED BY <1>0, <1>6, <2>1
<1>13. CASE UNCHANGED toClient /\ WriterFails
  <2>1. UNCHANGED <<kans, cmdOut>> /\ wval' = NoAnswer
    BY <1>13 DEF WriterFails, workerVars, outVars
  <2> QED BY <1>0, <1>n, <1>13, <2>1
<1>7. CASE UNCHANGED toClient /\ ServerWriter
  BY <1>2, <1>3, <1>5, <1>6, <1>7, <1>13
  DEF ServerWriter, Quietly, WriterStart, WriterCheck, WriterFindsNoAnswer,
      WriterSeesDone, WriterTerminates, WriterExits, workerVars, outVars
<1>8. UNCHANGED vars => UNCHANGED <<kans, wval, cmdOut>>
  BY DEF vars, workerVars, outVars, writerVars
<1>9. Handle => UNCHANGED <<kans, wval, cmdOut>>
  BY HandleLeaves DEF workerVars, outVars, writerVars
<1>10. Reader => UNCHANGED <<kans, wval, cmdOut>>
  BY ReaderLeaves DEF workerVars, outVars, writerVars
<1>11. ASSUME NEW o \in Objs, ServerStream(o) PROVE UNCHANGED <<kans, wval, cmdOut>>
  BY <1>11, StreamLeavesRest
  DEF ServerStream, ServerReadsFile, ServerTakesFrame, ServerStops, Quietly,
      Stream, workerVars, outVars, writerVars
<1>12. CASE UNCHANGED toClient
  <2>1. CASE ServerReader \/ ServerHangsUp
    <3>1. CASE ServerReads
      BY <1>3, <1>12, <3>1 DEF ServerReads, ReaderReads, workerVars, outVars,
          writerVars
    <3> QED
      BY <1>3, <1>10, <1>12, <2>1, <3>1
      DEF ServerReader, ServerHangsUp, Quietly, ReaderSteps, Reader,
          workerVars,
          outVars, writerVars
  <2> QED
    BY <1>1, <1>3, <1>4, <1>7, <1>8, <1>9, <1>11, <1>12, <2>1
    DEF CpNext, Quietly, allVars, vars, workerVars, outVars, writerVars
<1> QED BY <1>1, <1>2, <1>12, CpLeaves

LEMMA OneStreamStep ==
  ASSUME SendsInputs, TypeOK, MessagesInOrder, TableMatchesStreams, Script,
         CommandsScripted, OneStream, [CpNext]_allVars
  PROVE  OneStream'
<1>t. /\ spc \in [Objs -> {"none", "new", "check", "send", "select", "rename", "unwind",
                         "signal", "release", "gone"}]
      /\ slot \in [Objs -> Slots]
  BY DEF TypeOK, StreamTypeOK
<1>1. /\ \A o \in Objs : spc'[o] # "none" => o = 2 /\ slot'[o] = 0
      /\ Opened \/ RunOpen => Opened'
  <2>1. CASE RunOpen
    <3>1. /\ 2 \in Objs /\ spc' = [spc EXCEPT ![2] = "new"] /\ slot'[2] = 0
      BY <2>1, OpensSecond, RunOpenFacts
    <3> QED BY <1>t, <3>1 DEF OneStream, Opened
  <2>2. ASSUME NEW o \in Objs, Stream(o) \/ WriterTakesFrame(o), UNCHANGED slot
        PROVE  /\ \A p \in Objs : spc'[p] # "none" => p = 2 /\ slot'[p] = 0
               /\ Opened \/ RunOpen => Opened'
    BY <2>1, <2>2, StreamMoves DEF OneStream, Opened
  <2>3. CASE UNCHANGED <<spc, slot>> BY <2>1, <2>3 DEF OneStream, Opened
  <2> QED BY <2>1, <2>2, <2>3, StreamMovesOnly
<1>2. toClient' \in Seq(Messages) /\ (IdUnderway' => Opened')
  BY <1>1, IdMoves DEF OneStream
<1>3. cp' \in {"send", "poll", "answer", "recv"} \/ SentSoFar' >= 3 => Opened'
  <2>1. CASE Client
    <3>1. nread' = nread /\ toServer \in Seq(Inputs) /\ nread \in Nat
      BY <2>1, ClientSends
      DEF vars, history, inHistory, SendsInputs, TypeOK, HistoryTypeOK
    <3>2. CASE cp \in {"start", "stat"}
      <4>1. \/ cp' \in {"stat", "open"} 
            \/ cp' = "failed" /\ UNCHANGED toServer
        BY <2>1, <3>2
        DEF Client, CpStarts, CpOpens, CpOpened, UploadSends, UploadEnds,
            UploadPolls, UploadHears, DownloadTakes
      <4> QED BY <3>1, <3>2, <4>1, ScriptStep DEF Script, SentSoFar
    <3>3. CASE cp = "open"
      <4>1. CpOpened
        BY <2>1, <3>3
        DEF Client, CpStarts, CpOpens, UploadSends, UploadEnds, UploadPolls,
            UploadHears, DownloadTakes
      <4>2. toClient # <<>> /\ UNCHANGED toServer
            /\ (cp' # "failed" => Head(toClient).kind = "id")
        BY <4>1 DEF CpOpened, Receive, Got
      <4>3. cp' # "failed" => IdUnderway
        <5> toClient \in Seq(Messages) BY DEF OneStream
        <5> QED BY <4>2 DEF IdUnderway
      <4> QED BY <1>1, <3>1, <3>3, <4>2, <4>3 DEF OneStream, Script, SentSoFar
    <3>4. CASE cp \notin {"start", "stat", "open"}
      BY <1>1, <2>1, <3>1, <3>4
      DEF Client, CpStarts, CpOpens, CpOpened, UploadSends, UploadEnds,
          UploadPolls, UploadHears, DownloadTakes, OneStream
    <3> QED BY <3>2, <3>3, <3>4
  <2>2. CASE ServerReads
    <3>1. /\ toServer # <<>> /\ toServer' = Tail(toServer) /\ nread' = nread + 1
          /\ UNCHANGED cp
      BY <2>2 DEF ServerReads, ReaderReads
    <3>2. toServer \in Seq(Inputs) /\ nread \in Nat
      BY DEF SendsInputs, TypeOK, HistoryTypeOK
    <3>3. SentSoFar' = SentSoFar BY <3>1, <3>2 DEF SentSoFar
    <3> QED BY <1>1, <3>1, <3>3 DEF OneStream
  <2>3. CASE UNCHANGED <<cp, toServer, nread>>
    BY <1>1, <2>3 DEF OneStream, SentSoFar
  <2> QED BY <2>1, <2>2, <2>3, CpLeaves
<1> QED BY <1>1, <1>2, <1>3 DEF OneStream

\* What a step of a stream, other than one that takes a frame, can do.
LEMMA StreamLoops ==
  ASSUME TypeOK, FilesInv, NEW o \in Objs,
         ServerStream(o) \/ WriterTakesFrame(o)
  PROVE  \/ ServerTakesFrame(o)
         \/ /\ UNCHANGED frames /\ \A p \in Objs \ {o} : kind'[p] = kind[p]
            /\ Looping(o)' => Looping(o)
            /\ spc'[o] = "select" => kind'[o] = "write"
<1> USE DEF StreamGoes, TypeOK, StreamTypeOK, FilesInv, ModesFitKinds, Looping,
            Quietly
<1>1. CASE Quietly(StreamStart(o)) BY <1>1 DEF StreamStart, SendsLast
<1>2. CASE Quietly(StreamListens(o)) BY <1>2 DEF StreamListens, Uninterrupted
<1>3. CASE Quietly(StreamUnwinds(o)) BY <1>3 DEF StreamUnwinds
<1>4. CASE Quietly(StreamSignals(o)) BY <1>4 DEF StreamSignals
<1>5. CASE Quietly(StreamReleases(o)) BY <1>5 DEF StreamReleases
<1>6. CASE ServerReadsFile(o) BY <1>6 DEF ServerReadsFile, StreamReadsFile
<1>7. CASE ServerStops(o)
  BY <1>7 DEF ServerStops, StreamSeesDone, StreamTimesOut, SendsLast
<1>8. CASE WriterTakesFrame(o) BY <1>8 DEF WriterTakesFrame
<1> QED BY <1>1, <1>2, <1>3, <1>4, <1>5, <1>6, <1>7, <1>8 DEF ServerStream

LEMMA FramesStream ==
  ASSUME SendsInputs, TypeOK, FilesInv, OneStream, FramesArrive,
         [CpNext]_allVars, NEW o \in Objs,
         ServerStream(o) \/ (WriterTakesFrame(o) /\ UNCHANGED fileState)
  PROVE  FramesArrive'
<1>0. /\ frames \in [Objs -> Seq({"data", "end"})] /\ nread \in Nat
      /\ kind \in [Objs -> {"read", "write", "copy"}]
      /\ spc \in [Objs -> {"none", "new", "check", "send", "select", "rename", "unwind",
                         "signal", "release", "gone"}]
      /\ wrote \in Nat /\ way' = way /\ Blocks \in Nat
  BY CpLeaves, CpAssumption
  DEF TypeOK, StreamTypeOK, HistoryTypeOK, FramesArrive
<1>s. Stream(o) \/ WriterTakesFrame(o)
  BY DEF ServerStream, ServerReadsFile, ServerTakesFrame, ServerStops, Quietly,
         Stream
<1>1. /\ spc[o] # "none" /\ spc'[o] # "none" /\ UNCHANGED <<rpc, robj, nread>>
      /\ \A p \in Objs : p # o => spc'[p] = spc[p]
  BY <1>s, StreamMoves DEF readerVars
<1>2. o = 2 /\ Opened /\ Opened'
  BY <1>1 DEF OneStream, Opened
<1>3. ASSUME NEW p \in Objs, p # o PROVE spc[p] = "none"
  BY <1>2, <1>3 DEF OneStream
<1>4. CASE ServerTakesFrame(o)
  <2>1. /\ spc[o] = "select" /\ frames[o] # <<>> /\ UNCHANGED kind
        /\ frames' = [frames EXCEPT ![o] = Tail(@)]
        /\ wrote' = IF spc'[o] = "check" THEN wrote + 1 ELSE wrote
        /\ spc'[o] \in {"check", "send", "unwind"}
    BY <1>0, <1>4
    DEF ServerTakesFrame, StreamTakesFrame, WritesChunk, FinishesFile,
        SendsLast, StreamGoes
  <2>2. CASE spc'[o] = "check"
    <3>1. /\ Looping(o) /\ wrote' = wrote + 1 /\ FramesRead' = FramesRead
          /\ frames'[o] = Tail(frames[o]) /\ Len(frames[o]) \in Nat \ {0}
      <4>1. frames[o] \in Seq({"data", "end"}) /\ frames[o] # <<>>
        BY <1>0, <2>1
      <4>2. Len(frames[o]) \in Nat \ {0} BY <4>1
      <4> QED
        BY <1>0, <1>1, <2>1, <2>2, <4>2 DEF FramesArrive, Arrives, Looping,
            FramesRead
    <3>2. /\ Len(frames'[o]) = Len(frames[o]) - 1
          /\ \A i \in 1 .. Len(frames'[o]) : frames'[o][i] = frames[o][i + 1]
      <4>1. frames[o] \in Seq({"data", "end"}) /\ frames[o] # <<>>
        BY <1>0, <2>1
      <4> QED BY <3>1, <4>1
    <3>3. FramesRead \in Int /\ FramesHeld \in Nat /\ FramesHeld' = FramesHeld
      BY <1>0, <1>1 DEF FramesRead, FramesHeld
    <3>4. /\ wrote' + Len(frames'[o]) + FramesHeld' = FramesRead'
          /\ \A i \in 1 .. Len(frames'[o]) :
               frames'[o][i] = OpAt(2 + wrote + (i + 1))
      <4>1. /\ wrote + Len(frames[o]) + FramesHeld = FramesRead
            /\ \A i \in 1 .. Len(frames[o]) :
                 frames[o][i] = OpAt(2 + wrote + i)
        BY <3>1 DEF FramesArrive, Arrives
      <4>2. \A i \in 1 .. Len(frames'[o]) :
              i + 1 \in 1 .. Len(frames[o]) /\ i \in Nat
        BY <1>0, <3>1, <3>2
      <4>3. \A i \in 1 .. Len(frames'[o]) :
              frames'[o][i] = OpAt(2 + wrote + (i + 1))
        BY <3>2, <4>1, <4>2
      <4> QED BY <1>0, <1>1, <3>1, <3>2, <3>3, <4>1, <4>3
    <3>5. \A i \in 1 .. Len(frames'[o]) : frames'[o][i] = (OpAt(2 + wrote + i))'
      <4>1. \A i \in 1 .. Len(frames'[o]) : 2 + wrote + (i + 1) = 2 + wrote' + i
        BY <1>0, <3>1, <3>2
      <4> QED BY <1>0, <3>4, <4>1 DEF OpAt
    <3>6. /\ way' = "up" /\ (rpc' = "push" => robj' = o)
          /\ wrote' \in Nat /\ (rpc' = "push" => robj' = 2)
      BY <1>0, <1>1, <1>2, <3>1 DEF FramesArrive, Arrives
    <3>7. \A p \in Objs : p # o =>
            spc'[p] = "none" /\ frames'[p] = <<>>
      BY <1>0, <1>1, <1>3, <2>1 DEF FramesArrive, Arrives
    <3>8. kind'[o] = "write" BY <2>1, <3>1 DEF Looping
    <3>9. Arrives(o)'
      BY <1>1, <2>2, <3>4, <3>5, <3>6, <3>8 DEF Arrives
    <3>10. \A p \in Objs : p # o => Arrives(p)'
      BY <3>7 DEF Arrives, Looping
    <3> QED BY <1>2, <3>6, <3>9, <3>10 DEF FramesArrive
  <2>3. CASE spc'[o] # "check"
    <3>1. \A p \in Objs : Arrives(p)'
      BY <1>0, <1>1, <1>3, <2>1, <2>3 DEF FramesArrive, Arrives, Looping
    <3> QED BY <1>1, <1>2, <2>1, <2>3, <3>1 DEF FramesArrive
  <2> QED BY <2>2, <2>3
<1>5. CASE /\ UNCHANGED <<frames, wrote>>
           /\ \A p \in Objs \ {o} : kind'[p] = kind[p]
           /\ Looping(o)' => Looping(o)
           /\ spc'[o] = "select" => kind'[o] = "write"
  <2>1. FramesRead' = FramesRead /\ FramesHeld' = FramesHeld
    BY <1>0, <1>1 DEF FramesRead, FramesHeld
  <2>2. Arrives(o)'
    BY <1>0, <1>1, <1>5, <2>1 DEF FramesArrive, Arrives, OpAt
  <2>3. \A p \in Objs : p # o => Arrives(p)'
    BY <1>1, <1>3, <1>5 DEF FramesArrive, Arrives, Looping
  <2> QED BY <1>1, <1>2, <1>5, <2>2, <2>3 DEF FramesArrive
<1>6. CASE UNCHANGED wrote BY <1>4, <1>5, <1>6, StreamLoops
<1>7. ServerTakesFrame(o) \/ UNCHANGED wrote
  BY DEF ServerStream, ServerReadsFile, ServerStops, Quietly, cpVars, fileState
<1> QED BY <1>4, <1>6, <1>7

LEMMA FramesSame ==
  ASSUME FramesArrive, way' = way,
         UNCHANGED <<wrote, frames, spc, kind, robj, nread>>,
         rpc' = "push" <=> rpc = "push"
  PROVE  FramesArrive'
<1>1. FramesRead' = FramesRead /\ FramesHeld' = FramesHeld
  BY DEF FramesRead, FramesHeld
<1>2. ASSUME NEW o \in Objs PROVE Arrives(o)'
  BY <1>1 DEF FramesArrive, Arrives, Looping, OpAt
<1> QED BY <1>2 DEF FramesArrive, Opened

\* The reader looks the stream of a frame up and holds the frame.
LEMMA FramesReads ==
  ASSUME SendsInputs, TypeOK, MessagesInOrder, TableMatchesStreams, Script,
         OneStream, FramesArrive, ServerReads
  PROVE  FramesArrive'
<1> DEFINE in == Head(toServer)
<1>0. /\ frames \in [Objs -> Seq({"data", "end"})] /\ nread \in Nat
      /\ Blocks \in Nat /\ 0 \in Slots /\ toServer \in Seq(Inputs)
  BY CpAssumption, SizesAssumption
  DEF SendsInputs, TypeOK, StreamTypeOK, HistoryTypeOK, Slots
<1>1. toServer # <<>> /\ rpc = "read" BY DEF ServerReads, ReaderReads
<1>2. in.op = OpAt(nread + 1) /\ in.slot = 0
  BY <1>0, <1>1 DEF Script
<1>3. /\ UNCHANGED <<way, wrote, frames, spc, kind>> /\ nread' = nread + 1
  BY DEF ServerReads, ReaderReads, fileState, streamVars
<1>4. \A o \in Objs : Looping(o) =>
        /\ o = 2 /\ way = "up" /\ nread >= 2 /\ getStream(0) = o /\ o # None
  BY <1>0
  DEF OneStream, FramesArrive, Arrives, Looping, MessagesInOrder,
      TableMatchesStreams, Live, getStream, Objs, None
<1>5. \A o \in Objs : Looping(o) =>
        IF nread + 1 <= Blocks + 3 THEN rpc' = "push" /\ robj' = o
                                   ELSE rpc' = "enqueue"
  BY <1>0, <1>2, <1>4 DEF ServerReads, ReaderReads, OpAt, Looping
<1>6. \A o \in Objs : Arrives(o)'
  <2> SUFFICES ASSUME NEW o \in Objs PROVE Arrives(o)' OBVIOUS
  <2>1. CASE Looping(o)
    <3>1. Arrives(o) BY DEF FramesArrive
    <3>2. FramesRead' = FramesRead + FramesHeld'
      BY <1>0, <1>3, <1>4, <1>5, <2>1 DEF FramesRead, FramesHeld
    <3>3. /\ wrote \in Nat /\ Len(frames[o]) \in Nat /\ FramesRead \in Int
          /\ FramesHeld = 0 /\ FramesHeld' \in Nat
      BY <1>0, <1>1 DEF FramesArrive, FramesRead, FramesHeld
    <3>4. /\ wrote' + Len(frames'[o]) + FramesHeld' = FramesRead'
      BY <1>1, <1>3, <2>1, <3>1, <3>2, <3>3 DEF Arrives
    <3> QED BY <1>3, <1>5, <2>1, <3>1, <3>4 DEF Arrives, Looping, OpAt
  <2>2. CASE ~Looping(o)
    BY <1>3, <2>2 DEF FramesArrive, Arrives, Looping
  <2> QED BY <2>1, <2>2
<1>7. rpc' = "push" => Opened /\ robj' = 2
  <2> SUFFICES ASSUME rpc' = "push" PROVE Opened /\ robj' = 2 OBVIOUS
  <2>1. robj' = streams[0] /\ streams[0] # None
    BY <1>0, <1>2 DEF ServerReads, ReaderReads, getStream
  <2>2. streams[0] \in Objs BY <1>0, <2>1 DEF TypeOK, StreamTypeOK
  <2> QED
    BY <1>0, <2>1, <2>2 DEF TableMatchesStreams, Live, OneStream, Opened
<1> QED BY <1>3, <1>6, <1>7 DEF FramesArrive, Opened

\* The frame enters the channel of its stream.
LEMMA FramesPush ==
  ASSUME TypeOK, CommandsScripted, OneStream, FramesArrive, ReaderPush,
         way' = way, UNCHANGED wrote
  PROVE  FramesArrive'
<1>0. /\ frames \in [Objs -> Seq({"data", "end"})] /\ nread \in Nat
      /\ Blocks \in Nat /\ wrote \in Nat
  BY CpAssumption DEF TypeOK, StreamTypeOK, HistoryTypeOK, FramesArrive
<1>1. /\ rpc = "push" /\ rpc' = "check" /\ rcmd.op = OpAt(nread)
      /\ frames' = [frames EXCEPT ![robj] = Append(@, rcmd.op)]
      /\ rcmd.op \in {"data", "end"} /\ robj \in Objs
      /\ UNCHANGED <<spc, kind, nread>>
  BY DEF ReaderPush, CommandsScripted, TypeOK, ReaderTypeOK, history, inHistory
<1>2. ASSUME NEW o \in Objs, Looping(o) PROVE Arrives(o)'
  <2>1. /\ Arrives(o) /\ robj = o /\ nread <= Blocks + 3
        /\ wrote + Len(frames[o]) + 1 = nread - 2
    <3>1. Arrives(o) /\ FramesHeld = 1
      BY <1>1 DEF FramesArrive, FramesHeld
    <3>2. nread <= Blocks + 3 BY <1>0, <1>1 DEF OpAt
    <3> QED BY <1>0, <1>1, <1>2, <3>1, <3>2 DEF Arrives, FramesRead
  <2>2. /\ frames[o] \in Seq({"data", "end"})
        /\ frames'[o] = Append(frames[o], rcmd.op)
    BY <1>0, <1>1, <2>1
  <2>3. /\ Len(frames'[o]) = Len(frames[o]) + 1
        /\ \A i \in 1 .. Len(frames[o]) : frames'[o][i] = frames[o][i]
        /\ frames'[o][Len(frames[o]) + 1] = rcmd.op
    BY <1>1, <2>2
  <2>4. nread = 2 + wrote + (Len(frames[o]) + 1) /\ Len(frames[o]) \in Nat
    BY <1>0, <2>1, <2>2
  <2>5. \A i \in 1 .. Len(frames'[o]) : frames'[o][i] = OpAt(2 + wrote + i)
    <3> SUFFICES ASSUME NEW i \in 1 .. Len(frames'[o])
                 PROVE  frames'[o][i] = OpAt(2 + wrote + i)
      OBVIOUS
    <3>1. i \in 1 .. Len(frames[o]) \/ i = Len(frames[o]) + 1
      BY <2>3, <2>4
    <3> QED BY <1>1, <1>2, <2>1, <2>3, <2>4, <3>1 DEF Arrives
  <2>6. wrote' + Len(frames'[o]) + FramesHeld' = FramesRead'
    BY <1>0, <1>1, <2>1, <2>3, <2>4 DEF FramesRead, FramesHeld
  <2> QED
    BY <1>0, <1>1, <1>2, <2>1, <2>3, <2>4, <2>5, <2>6 DEF Arrives, Looping,
        OpAt
<1>3. ASSUME NEW o \in Objs, ~Looping(o) PROVE Arrives(o)'
  <2>1. Arrives(o) BY DEF FramesArrive
  <2>2. spc[o] # "none" \/ robj # o BY <1>1 DEF FramesArrive, Opened
  <2> QED BY <1>0, <1>1, <1>3, <2>1, <2>2 DEF Arrives, Looping
<1> QED BY <1>0, <1>1, <1>2, <1>3 DEF FramesArrive, Opened

\* The STREAM is run before the first frame can be sent.
LEMMA FramesOpens ==
  ASSUME SendsInputs, TypeOK, MessagesInOrder, TableMatchesStreams,
         CommandsScripted, OneStream, FramesArrive, RunOpen, way' = way,
         UNCHANGED wrote
  PROVE  FramesArrive'
<1>0. /\ frames \in [Objs -> Seq({"data", "end"})] /\ nread \in Nat
      /\ Blocks \in Nat /\ toServer \in Seq(Inputs)
      /\ kind \in [Objs -> {"read", "write", "copy"}]
      /\ spc \in [Objs -> {"none", "new", "check", "send", "select", "rename", "unwind",
                         "signal", "release", "gone"}]
  BY CpAssumption DEF SendsInputs, TypeOK, StreamTypeOK, HistoryTypeOK
<1>1. /\ 2 \in Objs /\ kcmd.n = 2 /\ spc[2] = "none"
      /\ kcmd.op = IF way = "up" THEN "write" ELSE "read"
  BY OpensSecond
<1>2. /\ spc' = [spc EXCEPT ![2] = "new"]
      /\ kind' = [kind EXCEPT ![2] = kcmd.op]
      /\ UNCHANGED <<frames, rpc, robj, nread>>
  BY <1>1, RunOpenFacts DEF readerVars, history, inHistory, RunOpen, OpenStream
<1>3. kind'[2] = kcmd.op /\ spc'[2] = "new" BY <1>0, <1>1, <1>2
<1>4. wrote = 0 /\ frames[2] = <<>> /\ rpc # "push"
  BY <1>1 DEF FramesArrive, Arrives, Opened
<1>5. FramesRead' = 0 /\ FramesHeld' = 0
  <2>1. nread >= 2 BY <1>1 DEF RunOpen, MessagesInOrder
  <2>2. SentSoFar < 3 BY <1>0, <1>1 DEF OneStream, Opened, SentSoFar
  <2> QED BY <1>0, <1>2, <1>4, <2>1, <2>2 DEF FramesRead, FramesHeld, SentSoFar
<1>6. Arrives(2)'
  BY <1>1, <1>2, <1>3, <1>4, <1>5 DEF Arrives, Looping, OpAt
<1>7. ASSUME NEW o \in Objs, o # 2 PROVE Arrives(o)'
  <2>1. spc[o] = "none" BY <1>7 DEF OneStream
  <2> QED BY <1>0, <1>2, <1>7, <2>1 DEF FramesArrive, Arrives, Looping
<1>8. \A o \in Objs : Arrives(o)' BY <1>6, <1>7
<1> QED BY <1>1, <1>2, <1>3, <1>4, <1>8 DEF FramesArrive, Opened

LEMMA FramesStep ==
  ASSUME SendsInputs, TypeOK, MessagesInOrder, TableMatchesStreams, FilesInv,
         Script, CommandsScripted, OneStream, FramesArrive, [CpNext]_allVars
  PROVE  FramesArrive'
<1>0. way' = way BY CpLeaves
<1>1. CASE UNCHANGED <<vars, wrote>>
  BY <1>0, <1>1, FramesSame
  DEF vars, readerVars, streamVars, history, inHistory
<1>2. CASE Client
  <2>1. UNCHANGED <<vars, wrote>>
    BY <1>2, ClientSends
    DEF Client, CpStarts, CpOpens, CpOpened, UploadSends, UploadEnds,
        UploadPolls, UploadHears, DownloadTakes, ClientOnly, fileState
  <2> QED BY <1>1, <2>1
<1>3. CASE Quietly(Handle)
  BY <1>0, <1>3, FramesSame, HandleLeaves
  DEF Quietly, cpVars, fileState, readerVars, streamVars, history, inHistory
<1>4. CASE ServerReads BY <1>4, FramesReads
<1>5. CASE Quietly(ReaderSteps) \/ ServerHangsUp
  <2>1. UNCHANGED wrote BY <1>5 DEF Quietly, ServerHangsUp, cpVars, fileState
  <2>2. CASE ReaderPush BY <1>0, <2>1, <2>2, FramesPush
  <2>3. CASE ReaderStart \/ ReaderCheck \/ ReaderEnqueue \/ ReaderTerminates
             \/ ReaderExits \/ ReaderFails
    BY <1>0, <2>1, <2>3, FramesSame
    DEF ReaderStart, ReaderCheck, ReaderEnqueue, ReaderTerminates, ReaderExits,
        ReaderFails, streamVars, history, inHistory
  <2> QED BY <1>5, <2>2, <2>3 DEF Quietly, ServerHangsUp, ReaderSteps
<1>6. CASE ServerWorker
  <2>1. Worker /\ UNCHANGED wrote
    BY <1>6
    DEF ServerWorker, ServerLists, ServerRefuses, Quietly, Worker, cpVars,
        fileState
  <2>2. CASE RunOpen BY <1>0, <2>1, <2>2, FramesOpens
  <2>3. CASE UNCHANGED <<spc, kind>>
    BY <1>0, <2>1, <2>3, FramesSame, WorkerLeaves
    DEF readerVars, history, inHistory
  <2> QED BY <2>1, <2>2, <2>3, WorkerLeaves
<1>7. CASE ServerWriter
  <2>1. Writer /\ UNCHANGED fileState
    BY <1>7 DEF ServerWriter, ServerWrites, Quietly, Writer, cpVars
  <2>2. ASSUME NEW o \in Objs, WriterTakesFrame(o) PROVE FramesArrive'
    BY <2>1, <2>2, FramesStream
  <2>3. CASE UNCHANGED spc
    BY <1>0, <2>1, <2>3, FramesSame, WriterLeaves
    DEF fileState, readerVars, inHistory
  <2> QED BY <2>1, <2>2, <2>3, WriterLeaves
<1>8. ASSUME NEW o \in Objs, ServerStream(o) PROVE FramesArrive'
  BY <1>8, FramesStream
<1>9. CASE UNCHANGED allVars BY <1>1, <1>9 DEF allVars, cpVars, fileState
<1> QED
  BY <1>2, <1>3, <1>4, <1>5, <1>6, <1>7, <1>8, <1>9 DEF CpNext, ServerReader

\* The null frame finds all the blocks in the temporary file.
LEMMA StoresAll ==
  ASSUME SendsInputs, TypeOK, FilesInv, Script, FramesArrive, StoredWhole,
         NEW o \in Objs, ServerTakesFrame(o)
  PROVE  /\ remote' \in {"none", "old", "new"}
         /\ remote' = "new" => remote = "new" \/ (way = "up" /\ SentSoFar >= 3 + Blocks)
<1>1. CASE tmp'[o] # "stored" BY <1>1 DEF ServerTakesFrame, StoredWhole
<1>2. CASE tmp'[o] = "stored"
  <2>1. spc[o] = "select" /\ frames[o] # <<>> /\ kind[o] = "write"
    BY DEF ServerTakesFrame, StreamTakesFrame, FramesArrive, Arrives
  <2>2. tmp[o] = "open" BY <2>1 DEF FilesInv, TempFilesOwned, HasFile
  <2>3. frames[o] \in Seq({"data", "end"}) /\ tmp \in
          [Objs -> {"none", "open", "removed", "stored", "left", "leaked"}]
    BY DEF TypeOK, StreamTypeOK
  <2>4. Head(frames[o]) # "data"
    BY <1>2, <2>2, <2>3
    DEF ServerTakesFrame, StreamTakesFrame, WritesChunk, DropFile, FileBecomes,
        fileVars
  <2>5. frames[o][1] = "end" /\ Len(frames[o]) \in Nat /\ Len(frames[o]) >= 1
    BY <2>1, <2>3, <2>4
  <2>6. Arrives(o) /\ Looping(o) /\ wrote \in Nat
    BY <2>1 DEF FramesArrive, Looping
  <2>7. OpAt(2 + wrote + 1) = "end" /\ way = "up"
    BY <2>5, <2>6 DEF Arrives
  <2>8. wrote = Blocks BY <2>6, <2>7, CpAssumption DEF OpAt
  <2>9. SentSoFar >= 3 + Blocks
    <3>1. nread \in Nat /\ Len(toServer) \in Nat /\ Blocks \in Nat
      BY CpAssumption DEF TypeOK, HistoryTypeOK, SendsInputs
    <3>2. wrote + Len(frames[o]) + FramesHeld = FramesRead
      BY <2>6 DEF Arrives
    <3>3. FramesHeld \in Nat BY DEF FramesHeld
    <3>4. FramesRead >= Blocks + 1 BY <2>5, <2>8, <3>1, <3>2, <3>3
    <3> QED BY <3>1, <3>4 DEF FramesRead, SentSoFar
  <2> QED BY <1>2, <2>7, <2>8, <2>9 DEF ServerTakesFrame
<1> QED BY <1>1, <1>2

LEMMA StoredStep ==
  ASSUME SendsInputs, TypeOK, FilesInv, Script, FramesArrive, StoredWhole,
         [CpNext]_allVars
  PROVE  StoredWhole'
<1>1. nread \in Nat /\ toServer \in Seq(Inputs) /\ way' = way /\ Blocks \in Nat
  BY CpLeaves, CpAssumption DEF TypeOK, HistoryTypeOK, SendsInputs
<1>2. SentSoFar' >= SentSoFar
  <2>1. CASE UNCHANGED <<toServer, nread>> BY <1>1, <2>1 DEF SentSoFar
  <2>2. CASE Client
    <3>1. nread' = nread BY <2>2, ClientSends DEF vars, history, inHistory
    <3>2. ASSUME NEW op, toServer' = Append(toServer, [op |-> op, slot |-> 0])
          PROVE  Len(toServer') = Len(toServer) + 1
      BY <1>1, <3>2
    <3> QED BY <1>1, <2>1, <2>2, <3>1, <3>2, ClientSends DEF SentSoFar
  <2>3. CASE ServerReads
    <3>1. /\ toServer # <<>> /\ toServer' = Tail(toServer)
          /\ nread' = nread + 1
      BY <2>3 DEF ServerReads, ReaderReads
    <3> QED BY <1>1, <3>1 DEF SentSoFar
  <2> QED BY <2>1, <2>2, <2>3, CpLeaves
<1>3. SentSoFar \in Int /\ SentSoFar' \in Int
  <2>1. nread' \in Nat /\ Len(toServer') \in Nat
    BY CpSteps, TypeStep, SendsStep DEF TypeOK, HistoryTypeOK, SendsInputs
  <2> QED BY <1>1, <2>1 DEF SentSoFar
<1>4. ASSUME NEW o \in Objs, ServerTakesFrame(o) PROVE StoredWhole'
  BY <1>1, <1>2, <1>3, <1>4, StoresAll DEF StoredWhole
<1>5. CASE UNCHANGED remote BY <1>1, <1>2, <1>3, <1>5 DEF StoredWhole
<1> QED BY <1>4, <1>5, CpLeaves

CpInv == Script /\ CommandsScripted /\ OneStream /\ FramesArrive /\ StoredWhole

LEMMA CpInvInit == CpInit => CpInv
<1> SUFFICES ASSUME CpInit PROVE CpInv OBVIOUS
<1>1. Script BY ScriptInit
<1>2. CommandsScripted BY DEF CpInit, Init, CommandsScripted, Scripted, NoCommand
<1>3. SentSoFar = 0 BY DEF CpInit, Init, SentSoFar
<1>4. OneStream
  BY <1>3 DEF CpInit, Init, OneStream, IdUnderway, NoAnswer, Answer
<1>5. FramesArrive
  BY DEF CpInit, Init, FramesArrive, Arrives, Looping
<1>6. StoredWhole BY DEF CpInit, StoredWhole
<1> QED BY <1>1, <1>2, <1>4, <1>5, <1>6 DEF CpInv

\* Whatever disk fails, whenever the client exits or the session ends, and
\* however large the file is: the file on the server is the old one or the whole
\* new one.
THEOREM UploadSafety == CpSpec => []NoPartialUpload
<1>1. CpInit => CpInv BY CpInvInit
<1>2. SendsInputs /\ TypeOK /\ MessagesInOrder /\ TableMatchesStreams /\ FilesInv
        /\ CpInv /\ [CpNext]_allVars => CpInv'
  BY ScriptStep, CommandsStep, OneStreamStep, FramesStep, StoredStep DEF CpInv
<1>3. CpInv => NoPartialUpload
  BY DEF CpInv, StoredWhole, Script, NoPartialUpload
<1> QED
  BY <1>1, <1>2, <1>3, CpIsSession, SendsAlways, TypeSafety, OrderSafety,
     TableSafety, FilesAlways, PTL
  DEF CpSpec

-----------------------------------------------------------------------------
(***************************************************************************)
(* What a client that exits well has done.  An upload: a LIST found a file *)
(* that was there before, or the new one.  A download: every block that    *)
(* the read stream reads is at one place on its way to the client, and the *)
(* last frame is behind all of them.                                       *)
(***************************************************************************)

FoundStored ==
    /\ existed \in BOOLEAN
    /\ remote = "old" => existed
    /\ found # {} => remote = "new" \/ existed

One(b) == IF b THEN 1 ELSE 0

ChunksAt(q) == {i \in 1 .. Len(q) : q[i].kind = "chunk"}
Chunks(q)   == Cardinality(ChunksAt(q))

\* The stream has read a block that the writer did not take.
BlockHeld == 2 \in Objs /\ spc[2] = "send" /\ sval[2] = "chunk"

\* It has sent its last frame.
ReadOver ==
    2 \in Objs /\ spc[2] \in {"unwind", "signal", "release", "gone"}

IsFrame(m) == m.kind \in {"chunk", "last"}

BlocksArrive ==
    /\ readAt \in Nat /\ found \subseteq Objs
    /\ IsFrame(wval) => wpc = "write"
    /\ way = "down" /\ cp \notin Exited =>
         blocks + Chunks(toClient) + One(wval.kind = "chunk") + One(BlockHeld)
           = readAt
    /\ wval.kind = "last" => ReadOver
    /\ \A i \in 1 .. Len(toClient) : toClient[i].kind = "last" =>
         /\ ReadOver /\ wval.kind # "chunk"
         /\ \A j \in i .. Len(toClient) : toClient[j].kind # "chunk"

LEMMA ChunksFinite ==
  ASSUME NEW S, NEW q \in Seq(S)
  PROVE  IsFiniteSet(ChunksAt(q)) /\ Chunks(q) \in Nat
<1>1. Len(q) \in Nat OBVIOUS
<1>2. IsFiniteSet(1 .. Len(q)) BY <1>1, FS_Interval
<1>3. ChunksAt(q) \subseteq 1 .. Len(q) BY DEF ChunksAt
<1> QED BY <1>2, <1>3, FS_Subset, FS_CardinalityType DEF Chunks

LEMMA ChunksAppend ==
  ASSUME NEW S, NEW q \in Seq(S), NEW m \in S
  PROVE  Chunks(Append(q, m)) = Chunks(q) + One(m.kind = "chunk")
<1> DEFINE n == Len(q) + 1
<1>1. /\ Len(Append(q, m)) = n /\ Append(q, m)[n] = m /\ Len(q) \in Nat
      /\ \A i \in 1 .. Len(q) : Append(q, m)[i] = q[i]
  OBVIOUS
<1>2. ChunksAt(Append(q, m)) =
        IF m.kind = "chunk" THEN ChunksAt(q) \cup {n} ELSE ChunksAt(q)
  <2>1. 1 .. n = (1 .. Len(q)) \cup {n} BY <1>1
  <2> QED BY <1>1, <2>1 DEF ChunksAt
<1>3. n \notin ChunksAt(q) BY <1>1 DEF ChunksAt
<1>4. IsFiniteSet(ChunksAt(q)) /\ Chunks(q) \in Nat BY ChunksFinite
<1>5. Cardinality(ChunksAt(q) \cup {n}) = Chunks(q) + 1
  BY <1>3, <1>4, FS_AddElement DEF Chunks
<1> HIDE DEF n
<1> QED BY <1>2, <1>4, <1>5 DEF Chunks, One

LEMMA ChunksTail ==
  ASSUME NEW S, NEW q \in Seq(S), q # <<>>
  PROVE  Chunks(q) = One(Head(q).kind = "chunk") + Chunks(Tail(q))
<1> DEFINE T == ChunksAt(Tail(q))
           U == ChunksAt(q) \ {1}
           f == [i \in T |-> i + 1]
<1>1. /\ Len(Tail(q)) = Len(q) - 1 /\ Len(q) \in Nat \ {0} /\ Head(q) = q[1]
      /\ \A i \in 1 .. Len(q) - 1 : Tail(q)[i] = q[i + 1]
      /\ Tail(q) \in Seq(S)
  OBVIOUS
<1>2. \A i \in Int : i \in T <=> i + 1 \in U BY <1>1 DEF ChunksAt
<1>3. T \subseteq Int /\ U \subseteq Int BY <1>1 DEF ChunksAt
<1>4. f \in Bijection(T, U)
  <2>1. f \in [T -> U] BY <1>2, <1>3
  <2>2. \A i, j \in T : f[i] = f[j] => i = j BY <1>3
  <2>3. \A u \in U : u - 1 \in T /\ f[u - 1] = u
    <3> SUFFICES ASSUME NEW u \in U PROVE u - 1 \in T /\ f[u - 1] = u OBVIOUS
    <3>1. u - 1 \in Int /\ (u - 1) + 1 = u BY <1>3
    <3> QED BY <1>2, <3>1
  <2> QED BY <2>1, <2>2, <2>3, Fun_IsBij
<1>5. IsFiniteSet(T) /\ IsFiniteSet(ChunksAt(q)) BY <1>1, ChunksFinite
<1>6. Cardinality(U) = Chunks(Tail(q))
  BY <1>4, <1>5, FS_Bijection DEF ExistsBijection, Chunks
<1>7. 1 \in ChunksAt(q) <=> Head(q).kind = "chunk" BY <1>1 DEF ChunksAt
<1>8. Chunks(q) \in Nat /\ Chunks(Tail(q)) \in Nat BY <1>1, ChunksFinite
<1>9. Cardinality(U) = IF 1 \in ChunksAt(q) THEN Chunks(q) - 1 ELSE Chunks(q)
  BY <1>5, FS_RemoveElement DEF Chunks
<1> QED BY <1>6, <1>7, <1>8, <1>9 DEF One

\* Who moves what, of the history and of what the two lists above look at.
LEMMA EndLeaves ==
  ASSUME [CpNext]_allVars
  PROVE  /\ existed' = existed
         /\ Client \/ misread' = misread
         /\ ServerLists \/ found' = found
         /\ (\E o \in Objs : ServerReadsFile(o)) \/ readAt' = readAt
         /\ \/ ServerWrites \/ Quietly(WriterTakesAnswer)
            \/ \E o \in Objs : Quietly(WriterTakesFrame(o))
            \/ cp \in Exited /\ Quietly(WriterFails)
            \/ wval' = wval /\ (wpc = "write" => wpc' = "write")
<1>1. CASE UNCHANGED allVars
  BY <1>1 DEF allVars, vars, cpVars, fileState, writerVars
<1>2. CASE Client
  BY <1>2, ClientSends
  DEF Client, CpStarts, CpOpens, CpOpened, UploadSends, UploadEnds,
      UploadPolls, UploadHears, DownloadTakes, ClientOnly, fileState, vars,
      writerVars
<1>3. CASE Quietly(Handle) \/ ServerHangsUp
  BY <1>3, HandleLeaves
  DEF Quietly, ServerHangsUp, ReaderFails, cpVars, fileState, writerVars
<1>4. CASE ServerReader
  BY <1>4
  DEF ServerReader, ServerReads, ReaderReads, Quietly, ReaderSteps,
      ReaderStart, ReaderCheck, ReaderEnqueue, ReaderPush, ReaderTerminates,
      ReaderExits, cpVars, fileState, writerVars
<1>5. CASE ServerWorker
  <2>1. UNCHANGED <<wval, wpc>>
    BY <1>5, WorkerLeaves
    DEF ServerWorker, ServerLists, ServerRefuses, Quietly, Worker, writerVars
  <2> QED
    BY <1>5, <2>1
    DEF ServerWorker, ServerLists, ServerRefuses, Quietly, cpVars, fileState
<1>6. CASE ServerWriter
  BY <1>6
  DEF ServerWriter, ServerWrites, Quietly, WriterStart, WriterCheck,
      WriterFindsNoAnswer, WriterSeesDone, WriterFails, WriterTerminates,
      WriterExits, cpVars, fileState
<1>7. ASSUME NEW o \in Objs, ServerStream(o)
      PROVE  /\ UNCHANGED <<existed, misread, found, wval, wpc>>
             /\ ServerReadsFile(o) \/ readAt' = readAt
  <2>1. UNCHANGED <<wval, wpc>>
    BY <1>7, StreamLeavesRest
    DEF ServerStream, ServerReadsFile, ServerTakesFrame, ServerStops, Quietly,
        Stream, writerVars
  <2> QED
    BY <1>7, <2>1
    DEF ServerStream, ServerReadsFile, ServerTakesFrame, ServerStops, Quietly,
        cpVars, fileState
<1> QED BY <1>1, <1>2, <1>3, <1>4, <1>5, <1>6, <1>7 DEF CpNext

LEMMA FoundInit == CpInit => FoundStored
BY DEF CpInit, FoundStored

LEMMA FoundStep ==
  ASSUME SendsInputs, TypeOK, FilesInv, Script, FramesArrive, StoredWhole,
         FoundStored, [CpNext]_allVars
  PROVE  FoundStored'
<1>1. existed' = existed BY EndLeaves
<1>2. CASE ServerLists
  BY <1>1, <1>2 DEF ServerLists, FoundStored, fileState, StoredWhole
<1>3. ASSUME NEW o \in Objs, ServerTakesFrame(o) PROVE FoundStored'
  <2>1. remote' \in {remote, "new"}
    <3>1. remote' \in {"none", "old", "new"} BY <1>3, StoresAll
    <3> QED BY <1>3, <3>1 DEF ServerTakesFrame
  <2> QED BY <1>1, <1>3, <2>1 DEF ServerTakesFrame, FoundStored
<1>4. CASE UNCHANGED <<found, remote>> BY <1>1, <1>4 DEF FoundStored
<1> QED BY <1>2, <1>3, <1>4, CpLeaves, EndLeaves

LEMMA UploadEndsStep ==
  ASSUME FoundStored, StoredWhole, StoredWhole', Script, UploadEndsStored,
         [CpNext]_allVars
  PROVE  UploadEndsStored'
<1> USE DEF UploadEndsStored
<1>1. existed' = existed /\ way' = way BY CpLeaves, EndLeaves
<1>2. CASE Client
  <2>1. cp # "ok" /\ remote' = remote
    BY <1>2
    DEF Client, CpStarts, CpOpens, CpOpened, UploadSends, UploadEnds,
        UploadPolls, UploadHears, DownloadTakes, ClientOnly, fileState
  <2>2. cp' = "ok" /\ way = "up" => misread' \/ found # {}
    BY <1>2
    DEF Client, CpStarts, CpOpens, CpOpened, UploadSends, UploadEnds,
        UploadPolls, UploadHears, DownloadTakes, Script
  <2> QED BY <1>1, <2>1, <2>2 DEF FoundStored
<1>3. ASSUME NEW o \in Objs, ServerTakesFrame(o), UNCHANGED <<cp, misread>>
      PROVE  UploadEndsStored'
  <2>1. remote' = remote \/ remote' = "new"
    BY <1>3 DEF ServerTakesFrame, StoredWhole
  <2> QED BY <1>1, <1>3, <2>1
<1>4. CASE UNCHANGED <<cp, misread, remote>> BY <1>1, <1>4
<1> QED BY <1>2, <1>3, <1>4, CpLeaves, EndLeaves

LEMMA BlocksInit == CpInit => BlocksArrive
<1> SUFFICES ASSUME CpInit PROVE BlocksArrive OBVIOUS
<1>1. toClient = <<>> /\ wval.kind = "ok" /\ ~BlockHeld
  BY DEF CpInit, Init, NoAnswer, Answer, BlockHeld
<1>2. Chunks(toClient) = 0
  <2>1. ChunksAt(toClient) = {} BY <1>1 DEF ChunksAt
  <2> QED BY <2>1, FS_EmptySet DEF Chunks
<1> QED BY <1>1, <1>2 DEF CpInit, BlocksArrive, IsFrame, One

\* The client takes a message.
LEMMA BlocksClient ==
  ASSUME TypeOK, Script, OneStream, BlocksArrive, Client
  PROVE  BlocksArrive'
<1>0. /\ way' = way /\ UNCHANGED <<vars, readAt, found>>
      /\ blocks \in Nat /\ toClient \in Seq(Messages)
  BY ClientSends
  DEF Client, CpStarts, CpOpens, CpOpened, UploadSends, UploadEnds,
      UploadPolls, UploadHears, DownloadTakes, ClientOnly, fileState, Script,
      OneStream
<1>1. UNCHANGED <<wval, wpc, spc, sval, BlockHeld, ReadOver>>
  BY <1>0 DEF vars, writerVars, streamVars, BlockHeld, ReadOver
<1>2. CASE toClient' = toClient
  <2>1. way = "down" /\ cp' \notin Exited => cp \notin Exited /\ blocks' = blocks
    BY <1>2
    DEF Client, CpStarts, CpOpens, CpOpened, UploadSends, UploadEnds,
        UploadPolls, UploadHears, DownloadTakes, Script, Exited, Receive
  <2> QED BY <1>0, <1>1, <1>2, <2>1 DEF BlocksArrive
<1>3. CASE toClient # <<>> /\ toClient' = Tail(toClient)
  <2>1. /\ toClient' \in Seq(Messages)
        /\ \A i \in 1 .. Len(toClient') :
             toClient'[i] = toClient[i + 1] /\ i + 1 \in 1 .. Len(toClient)
    BY <1>0, <1>3
  <2>2. /\ Chunks(toClient) = One(Got.kind = "chunk") + Chunks(toClient')
        /\ Chunks(toClient') \in Nat
    BY <1>0, <1>3, <2>1, ChunksTail, ChunksFinite DEF Got
  <2>3. /\ way = "down" /\ cp' \notin Exited => cp \notin Exited
        /\ way = "down" /\ cp' \notin Exited =>
              blocks' = blocks + One(Got.kind = "chunk")
    <3>1. CASE CpOpens
      <4>1. way = "down" /\ cp' \notin Exited => Got.n \in found
        BY <3>1 DEF CpOpens, Exited
      <4>2. Got \in Messages BY <1>0, <1>3 DEF Got
      <4>3. Got.n \in found => Got.kind # "chunk"
        BY <4>2 DEF BlocksArrive, Messages, Answers, Frames, Objs, None
      <4> QED BY <1>0, <3>1, <4>1, <4>3 DEF CpOpens, Exited, One
    <3>2. CASE CpOpened BY <1>0, <3>2 DEF CpOpened, Exited, One
    <3>3. CASE UploadHears BY <1>0, <3>3 DEF UploadHears, Script
    <3>4. CASE DownloadTakes BY <1>0, <3>4 DEF DownloadTakes, Exited, One
    <3> QED
      <4>1. toClient' # toClient
        <5>1. Len(toClient') # Len(toClient) BY <1>0, <1>3
        <5> QED BY <5>1
      <4> QED
        BY <3>1, <3>2, <3>3, <3>4, <4>1
        DEF Client, CpStarts, UploadSends, UploadEnds, UploadPolls
  <2>4. \A i \in 1 .. Len(toClient') : toClient'[i].kind = "last" =>
          /\ ReadOver /\ wval.kind # "chunk"
          /\ \A j \in i .. Len(toClient') : toClient'[j].kind # "chunk"
    <3> SUFFICES ASSUME NEW i \in 1 .. Len(toClient'),
                        toClient'[i].kind = "last"
                 PROVE  /\ ReadOver /\ wval.kind # "chunk"
                        /\ \A j \in i .. Len(toClient') :
                             toClient'[j].kind # "chunk"
      OBVIOUS
    <3>1. i + 1 \in 1 .. Len(toClient) /\ toClient[i + 1].kind = "last"
      BY <2>1
    <3>2. \A j \in i .. Len(toClient') : /\ j + 1 \in i + 1 .. Len(toClient)
                                         /\ toClient'[j] = toClient[j + 1]
      BY <1>0, <1>3, <2>1
    <3> QED BY <3>1, <3>2 DEF BlocksArrive
  <2>5. readAt \in Nat /\ One(wval.kind = "chunk") \in Nat /\ One(BlockHeld) \in Nat
        /\ One(Got.kind = "chunk") \in Nat
    BY DEF BlocksArrive, One
  <2>6. way' = "down" /\ cp' \notin Exited =>
          blocks' + Chunks(toClient') + One(wval.kind = "chunk")
            + One(BlockHeld) = readAt
    BY <1>0, <2>2, <2>3, <2>5 DEF BlocksArrive
  <2> QED BY <1>0, <1>1, <2>4, <2>6 DEF BlocksArrive
<1> QED
  BY <1>2, <1>3
  DEF Client, CpStarts, CpOpens, CpOpened, UploadSends, UploadEnds,
      UploadPolls, UploadHears, DownloadTakes, Receive

\* A block goes from the stream to the writer, and from there to the client.
LEMMA BlocksWriter ==
  ASSUME TypeOK, Script, OneStream, BlocksArrive,
         UNCHANGED <<way, cp, blocks, readAt, found>>,
         \/ ServerWrites \/ Quietly(WriterTakesAnswer)
         \/ \E o \in Objs : Quietly(WriterTakesFrame(o))
  PROVE  BlocksArrive'
<1>0. /\ toClient \in Seq(Messages) /\ wval \in Messages /\ blocks \in Nat
      /\ readAt \in Nat /\ Chunks(toClient) \in Nat
  BY ChunksFinite DEF OneStream, TypeOK, WriterTypeOK, Script, BlocksArrive
<1>1. CASE ServerWrites
  <2>1. /\ wval'.kind = "ok" /\ toClient' = Append(toClient, wval)
        /\ UNCHANGED <<BlockHeld, ReadOver>>
    BY <1>1
    DEF ServerWrites, WriterWrites, NoAnswer, Answer, streamVars, BlockHeld,
        ReadOver
  <2>2. Chunks(toClient') = Chunks(toClient) + One(wval.kind = "chunk")
    BY <1>0, <2>1, ChunksAppend
  <2>3. /\ Len(toClient') = Len(toClient) + 1 /\ Len(toClient) \in Nat
        /\ toClient'[Len(toClient) + 1] = wval
        /\ \A i \in 1 .. Len(toClient) : toClient'[i] = toClient[i]
    BY <1>0, <2>1
  <2>4. \A i \in 1 .. Len(toClient') : toClient'[i].kind = "last" =>
          /\ ReadOver
          /\ \A j \in i .. Len(toClient') : toClient'[j].kind # "chunk"
    <3> SUFFICES ASSUME NEW i \in 1 .. Len(toClient'),
                        toClient'[i].kind = "last"
                 PROVE  /\ ReadOver
                        /\ \A j \in i .. Len(toClient') :
                             toClient'[j].kind # "chunk"
      OBVIOUS
    <3>1. CASE i = Len(toClient) + 1
      <4>1. \A j \in i .. Len(toClient') : j = i BY <2>3, <3>1
      <4> QED BY <2>3, <3>1, <4>1 DEF BlocksArrive
    <3>2. CASE i \in 1 .. Len(toClient)
      <4>1. \A j \in i .. Len(toClient') :
              j \in i .. Len(toClient) \/ j = Len(toClient) + 1
        BY <2>3, <3>2
      <4> QED BY <2>3, <3>2, <4>1 DEF BlocksArrive
    <3> QED BY <2>3, <3>1, <3>2
  <2>5. One(wval'.kind = "chunk") = 0 /\ One(wval.kind = "chunk") \in Nat
        /\ One(BlockHeld) \in Nat
    BY <2>1 DEF One
  <2>6. way' = "down" /\ cp' \notin Exited =>
          blocks + Chunks(toClient') + One(wval'.kind = "chunk")
            + One(BlockHeld) = readAt
    BY <1>0, <2>2, <2>5 DEF BlocksArrive
  <2> QED BY <2>1, <2>4, <2>6 DEF BlocksArrive, IsFrame
<1>2. CASE Quietly(WriterTakesAnswer)
  <2>1. /\ wval'.kind \notin {"chunk", "last"} /\ toClient' = toClient
        /\ UNCHANGED <<BlockHeld, ReadOver>>
    <3>1. Head(cmdOut) \in Answers
      BY <1>2 DEF Quietly, WriterTakesAnswer, TypeOK, WorkerTypeOK
    <3> QED
      BY <1>2, <3>1
      DEF Quietly, cpVars, tcpVars, WriterTakesAnswer, Answers, streamVars,
          BlockHeld, ReadOver
  <2>2. wval.kind # "chunk"
    BY <1>2 DEF Quietly, WriterTakesAnswer, BlocksArrive, IsFrame
  <2> QED BY <2>1, <2>2 DEF BlocksArrive, IsFrame
<1>3. ASSUME NEW o \in Objs, Quietly(WriterTakesFrame(o)) PROVE BlocksArrive'
  <2>1. /\ wpc = "select" /\ spc[o] = "send" /\ wval' = Frame(o)
        /\ wpc' = "write" /\ toClient' = toClient
        /\ spc' = [spc EXCEPT ![o] = IF sval[o] = "chunk" THEN "check"
                                                          ELSE "unwind"]
    BY <1>3 DEF Quietly, cpVars, tcpVars, WriterTakesFrame
  <2>2. o = 2 /\ 2 \in Objs BY <2>1 DEF OneStream
  <2>3. wval'.kind = sval[2] /\ sval[2] \in {"chunk", "last"}
    BY <2>1, <2>2 DEF Frame, TypeOK, StreamTypeOK
  <2>4. /\ spc'[2] = IF sval[2] = "chunk" THEN "check" ELSE "unwind"
        /\ BlockHeld <=> sval[2] = "chunk"
    BY <2>1, <2>2 DEF TypeOK, StreamTypeOK, BlockHeld
  <2>5. ~BlockHeld' /\ (sval[2] = "last" => ReadOver')
    BY <2>2, <2>4 DEF BlockHeld, ReadOver
  <2>6. wval.kind # "chunk" BY <2>1 DEF BlocksArrive, IsFrame
  <2>7. \A i \in 1 .. Len(toClient) : toClient[i].kind # "last"
    BY <2>1, <2>2 DEF BlocksArrive, ReadOver
  <2>8. /\ One(BlockHeld') = 0 /\ One(wval.kind = "chunk") = 0
        /\ One(wval'.kind = "chunk") = One(BlockHeld)
        /\ One(BlockHeld) \in Nat
    BY <2>3, <2>4, <2>5, <2>6 DEF One
  <2>9. way' = "down" /\ cp' \notin Exited =>
          blocks + Chunks(toClient) + One(wval'.kind = "chunk")
            + One(BlockHeld') = readAt
    BY <1>0, <2>8 DEF BlocksArrive
  <2> QED BY <2>1, <2>3, <2>5, <2>7, <2>9 DEF BlocksArrive, IsFrame
<1> QED BY <1>1, <1>2, <1>3

\* The stream reads a block, ends, or goes on.
LEMMA BlocksStream ==
  ASSUME TypeOK, OneStream, Script, BlocksArrive, NEW o \in Objs,
         ServerStream(o)
  PROVE  BlocksArrive'
<1>0. /\ UNCHANGED <<way, cp, blocks, found, toClient, wval, wpc>>
      /\ spc[o] # "none" /\ spc \in [Objs -> {"none", "new", "check", "send",
           "select", "rename", "unwind", "signal", "release", "gone"}]
      /\ sval \in [Objs -> {"chunk", "last"}]
      /\ toClient \in Seq(Messages)
  <2>1. Stream(o)
    BY DEF ServerStream, ServerReadsFile, ServerTakesFrame, ServerStops,
           Quietly, Stream
  <2>2. UNCHANGED <<wval, wpc>> BY <2>1, StreamLeavesRest DEF writerVars
  <2>3. spc[o] # "none" BY <2>1, StreamMoves
  <2> QED
    BY <2>2, <2>3
    DEF ServerStream, ServerReadsFile, ServerTakesFrame, ServerStops, Quietly,
        cpVars, tcpVars, TypeOK, StreamTypeOK, OneStream
<1>1. o = 2 /\ 2 \in Objs BY <1>0 DEF OneStream
<1>2. CASE ServerReadsFile(o)
  <2>1. /\ spc[2] = "check" /\ spc' = [spc EXCEPT ![2] = "send"]
        /\ \E k \in {"chunk", "last"} : sval' = [sval EXCEPT ![2] = k]
    BY <1>1, <1>2
    DEF ServerReadsFile, StreamReadsFile, Uninterrupted, StreamGoes
  <2>2. /\ ~BlockHeld /\ ~ReadOver /\ sval'[2] \in {"chunk", "last"}
        /\ BlockHeld' <=> sval'[2] = "chunk"
    BY <1>0, <1>1, <2>1 DEF BlockHeld, ReadOver
  <2>3. readAt' = readAt + One(BlockHeld')
    BY <1>1, <1>2, <2>2 DEF ServerReadsFile, One, BlocksArrive
  <2>4. One(BlockHeld) = 0 /\ One(BlockHeld') \in Nat
        /\ One(wval.kind = "chunk") \in Nat /\ readAt \in Nat /\ blocks \in Nat
        /\ Chunks(toClient) \in Nat
    BY <1>0, <2>2, ChunksFinite DEF One, BlocksArrive, Script
  <2>5. way' = "down" /\ cp' \notin Exited =>
          blocks + Chunks(toClient) + One(wval.kind = "chunk")
            + One(BlockHeld') = readAt'
    BY <1>0, <2>3, <2>4 DEF BlocksArrive
  <2>6. /\ wval.kind # "last"
        /\ \A i \in 1 .. Len(toClient) : toClient[i].kind # "last"
    BY <2>2 DEF BlocksArrive
  <2> QED BY <1>0, <2>3, <2>4, <2>5, <2>6 DEF BlocksArrive
<1>3. CASE ~ServerReadsFile(o)
  <2>1. /\ readAt' = readAt /\ ~BlockHeld /\ ~BlockHeld'
        /\ ReadOver => ReadOver'
    <3> USE <1>0, <1>1 DEF StreamGoes, BlockHeld, ReadOver, Quietly, cpVars,
            fileState
    <3>1. CASE Quietly(StreamStart(o)) BY <3>1 DEF StreamStart, SendsLast
    <3>2. CASE ServerTakesFrame(o)
      BY <3>2
      DEF ServerTakesFrame, StreamTakesFrame, WritesChunk, FinishesFile,
          SendsLast
    <3>3. CASE ServerStops(o)
      BY <3>3 DEF ServerStops, StreamSeesDone, StreamTimesOut, SendsLast
    <3>4. CASE Quietly(StreamListens(o))
      BY <3>4 DEF StreamListens, Uninterrupted
    <3>5. CASE Quietly(StreamUnwinds(o)) BY <3>5 DEF StreamUnwinds
    <3>6. CASE Quietly(StreamSignals(o)) BY <3>6 DEF StreamSignals
    <3>7. CASE Quietly(StreamReleases(o)) BY <3>7 DEF StreamReleases
    <3> QED
      BY <1>3, <3>1, <3>2, <3>3, <3>4, <3>5, <3>6, <3>7 DEF ServerStream
  <2> QED BY <1>0, <2>1 DEF BlocksArrive, One
<1> QED BY <1>2, <1>3

LEMMA BlocksStep ==
  ASSUME SendsInputs, TypeOK, MessagesInOrder, TableMatchesStreams, Script,
         CommandsScripted, OneStream, BlocksArrive, [CpNext]_allVars
  PROVE  BlocksArrive'
<1>1. CASE Client BY <1>1, BlocksClient
<1>2. ASSUME NEW o \in Objs, ServerStream(o) PROVE BlocksArrive'
  BY <1>2, BlocksStream
<1>3. CASE ServerWriter
  <2>1. UNCHANGED <<way, cp, blocks, readAt, found>>
    BY <1>3 DEF ServerWriter, ServerWrites, Quietly, cpVars, fileState
  <2>2. CASE \/ ServerWrites \/ Quietly(WriterTakesAnswer)
             \/ \E o \in Objs : Quietly(WriterTakesFrame(o))
    BY <2>1, <2>2, BlocksWriter
  <2>3. CASE Quietly(WriterStart \/ WriterCheck \/ WriterFindsNoAnswer
                     \/ WriterSeesDone \/ WriterTerminates \/ WriterExits)
    <3>1. UNCHANGED <<wval, toClient, spc, sval, wpc>>
          \/ (UNCHANGED <<wval, toClient, spc, sval>> /\ wpc # "write")
      BY <2>3
      DEF Quietly, cpVars, tcpVars, WriterStart, WriterCheck,
          WriterFindsNoAnswer, WriterSeesDone, WriterTerminates, WriterExits,
          streamVars
    <3> QED BY <2>1, <3>1 DEF BlocksArrive, BlockHeld, ReadOver, IsFrame
  <2>4. CASE cp \in Exited /\ Quietly(WriterFails)
    <3>1. /\ UNCHANGED <<toClient, spc, sval>>
          /\ wval'.kind = "ok" /\ cp \in Exited
      BY <2>4
      DEF Quietly, cpVars, tcpVars, WriterFails, streamVars, NoAnswer, Answer
    <3> QED BY <2>1, <3>1 DEF BlocksArrive, BlockHeld, ReadOver, IsFrame
  <2> QED BY <1>3, <2>2, <2>3, <2>4 DEF ServerWriter, Quietly
<1>4. CASE ServerWorker
  <2>1. UNCHANGED <<way, cp, blocks, readAt, toClient, wval, wpc, sval>>
    BY <1>4, WorkerLeaves
    DEF ServerWorker, ServerLists, ServerRefuses, Quietly, Worker, cpVars,
        tcpVars, fileState, writerVars
  <2>2. found' \subseteq Objs
    BY <1>4
    DEF ServerWorker, ServerLists, ServerRefuses, Quietly, cpVars,
        BlocksArrive, TypeOK, WorkerTypeOK, Commands
  <2>3. CASE RunOpen
    <3>1. 2 \in Objs /\ spc[2] = "none" /\ spc' = [spc EXCEPT ![2] = "new"]
      BY <2>3, OpensSecond, RunOpenFacts
    <3>2. ~BlockHeld /\ ~BlockHeld' /\ ~ReadOver
      BY <3>1 DEF BlockHeld, ReadOver, TypeOK, StreamTypeOK
    <3> QED BY <2>1, <2>2, <3>2 DEF BlocksArrive, One
  <2>4. CASE UNCHANGED spc
    BY <2>1, <2>2, <2>4 DEF BlocksArrive, BlockHeld, ReadOver
  <2> QED
    BY <1>4, <2>3, <2>4, WorkerLeaves
    DEF ServerWorker, ServerLists, ServerRefuses, Quietly, Worker
<1>5. CASE \/ UNCHANGED allVars \/ Quietly(Handle) \/ ServerReader
           \/ ServerHangsUp
  <2>1. UNCHANGED <<way, cp, blocks, readAt, found, toClient>>
    BY <1>5
    DEF allVars, cpVars, tcpVars, fileState, Quietly, ServerReader,
        ServerReads, ServerHangsUp
  <2>2. UNCHANGED <<wval, wpc, spc, sval>>
    BY <1>5, HandleLeaves
    DEF allVars, vars, Quietly, ServerReader, ServerReads, ReaderReads,
        ServerHangsUp, ReaderFails, ReaderSteps, ReaderStart, ReaderCheck,
        ReaderEnqueue, ReaderPush, ReaderTerminates, ReaderExits, writerVars,
        streamVars
  <2> QED BY <2>1, <2>2 DEF BlocksArrive, BlockHeld, ReadOver
<1> QED BY <1>1, <1>2, <1>3, <1>4, <1>5 DEF CpNext

\* The null frame finds that the client has every block.
LEMMA DownloadEndsStep ==
  ASSUME Script, OneStream, BlocksArrive, DownloadIsComplete, [CpNext]_allVars
  PROVE  DownloadIsComplete'
<1> USE DEF DownloadIsComplete
<1>1. CASE UNCHANGED <<cp, blocks>> BY <1>1, CpLeaves
<1>2. CASE Client /\ ~(DownloadTakes /\ Got.kind = "last" /\ cp' = "ok")
  BY <1>2
  DEF Client, CpStarts, CpOpens, CpOpened, UploadSends, UploadEnds,
      UploadPolls, UploadHears, DownloadTakes, Script, ClientOnly
<1>3. CASE DownloadTakes /\ Got.kind = "last" /\ cp' = "ok"
  <2>1. /\ cp = "recv" /\ way = "down" /\ toClient # <<>>
        /\ toClient \in Seq(Messages) /\ readAt = Blocks /\ blocks' = blocks
        /\ blocks \in Nat
    BY <1>3 DEF DownloadTakes, Receive, Script, OneStream
  <2>2. /\ 1 \in 1 .. Len(toClient) /\ toClient[1].kind = "last"
    BY <1>3, <2>1 DEF Got
  <2>3. /\ ReadOver /\ wval.kind # "chunk" /\ ChunksAt(toClient) = {}
    BY <2>2 DEF BlocksArrive, ChunksAt
  <2>4. Chunks(toClient) = 0 /\ ~BlockHeld
    BY <2>3, FS_EmptySet DEF Chunks, ReadOver, BlockHeld
  <2> QED BY <2>1, <2>3, <2>4 DEF BlocksArrive, Exited, One
<1> QED BY <1>1, <1>2, <1>3, CpLeaves

EndInv == FoundStored /\ UploadEndsStored /\ BlocksArrive /\ DownloadIsComplete

LEMMA EndInvInit == CpInit => EndInv
BY FoundInit, BlocksInit
DEF EndInv, CpInit, UploadEndsStored, DownloadIsComplete

LEMMA EndInvStep ==
  ASSUME SendsInputs, TypeOK, MessagesInOrder, TableMatchesStreams, FilesInv,
         CpInv, CpInv', EndInv, [CpNext]_allVars
  PROVE  EndInv'
BY FoundStep, UploadEndsStep, BlocksStep, DownloadEndsStep DEF EndInv, CpInv

LEMMA EndAlways == CpSpec => [](CpInv /\ EndInv)
<1>1. CpInit => CpInv /\ EndInv BY CpInvInit, EndInvInit
<1>2. SendsInputs /\ TypeOK /\ MessagesInOrder /\ TableMatchesStreams /\ FilesInv
        /\ CpInv /\ EndInv /\ [CpNext]_allVars => CpInv' /\ EndInv'
  BY ScriptStep, CommandsStep, OneStreamStep, FramesStep, StoredStep,
     EndInvStep
  DEF CpInv
<1> QED
  BY <1>1, <1>2, CpIsSession, SendsAlways, TypeSafety, OrderSafety,
     TableSafety, FilesAlways, PTL
  DEF CpSpec

\* An upload that ends well is stored, or it asked for a file that was there
\* before, or it took a frame's refusal for the answer: whatever the size of
\* the file, whatever fails, and however often it asks.
THEOREM UploadEndsSafety == CpSpec => []UploadEndsStored
<1>1. CpInv /\ EndInv => UploadEndsStored BY DEF EndInv
<1> QED BY <1>1, EndAlways, PTL

\* A download that ends well has every block of the file, in whatever order the
\* answers and the frames leave the session.
THEOREM DownloadSafety == CpSpec => []DownloadIsComplete
<1>1. CpInv /\ EndInv => DownloadIsComplete BY DEF EndInv
<1> QED BY <1>1, EndAlways, PTL

-----------------------------------------------------------------------------
(***************************************************************************)
(* The composition on the wire.  Every message of fly cp and every answer  *)
(* and frame of the session is one of the values that the format reads     *)
(* back; WireProofs says the rest.                                         *)
(***************************************************************************)

\* The answer that announces a stream says which.
Named(m) == m.kind = "id" => m.obj \in Objs

AnswersNamed ==
    /\ Named(kans) /\ Named(wval)
    /\ \A i \in 1 .. Len(cmdOut) : Named(cmdOut[i])
    /\ \A i \in 1 .. Len(toClient) : Named(toClient[i])

LEMMA NamedInit == CpInit => AnswersNamed
BY DEF CpInit, Init, AnswersNamed, Named, NoAnswer, Answer

LEMMA NamedStep ==
  ASSUME SendsInputs, TypeOK, OneStream, AnswersNamed, [CpNext]_allVars
  PROVE  AnswersNamed'
<1>0. /\ toClient \in Seq(Messages) /\ cmdOut \in Seq(Answers)
      /\ wval \in Messages /\ kcmd \in Commands
  BY DEF OneStream, TypeOK, WorkerTypeOK, WriterTypeOK
<1>n. Named(NoAnswer) BY DEF NoAnswer, Answer, Named
<1>c. /\ UNCHANGED toClient => \A i \in 1 .. Len(toClient') : Named(toClient'[i])
      /\ UNCHANGED cmdOut => \A i \in 1 .. Len(cmdOut') : Named(cmdOut'[i])
      /\ UNCHANGED kans => Named(kans')
      /\ UNCHANGED wval => Named(wval')
  BY DEF AnswersNamed
<1>s. ASSUME UNCHANGED <<kans, wval, cmdOut, toClient>> PROVE AnswersNamed'
  BY <1>s, <1>c DEF AnswersNamed
<1>1. CASE Client
  <2>1. UNCHANGED <<kans, wval, cmdOut>>
    BY <1>1, ClientSends DEF vars, workerVars, outVars, writerVars
  <2>2. CASE toClient # <<>> /\ toClient' = Tail(toClient)
    <3>1. \A i \in 1 .. Len(toClient') :
            toClient'[i] = toClient[i + 1] /\ i + 1 \in 1 .. Len(toClient)
      BY <1>0, <2>2
    <3>2. \A i \in 1 .. Len(toClient') : Named(toClient'[i])
      BY <3>1 DEF AnswersNamed
    <3> QED BY <2>1, <3>2, <1>c DEF AnswersNamed
  <2> QED
    BY <1>1, <1>s, <2>1, <2>2
    DEF Client, CpStarts, CpOpens, CpOpened, UploadSends, UploadEnds,
        UploadPolls, UploadHears, DownloadTakes, Receive
<1>2. CASE ServerWrites
  <2>1. /\ UNCHANGED <<kans, cmdOut>> /\ wval' = NoAnswer
        /\ toClient' = Append(toClient, wval)
    BY <1>2 DEF ServerWrites, WriterWrites, workerVars, outVars
  <2>2. /\ Len(toClient') = Len(toClient) + 1 /\ Len(toClient) \in Nat
        /\ toClient'[Len(toClient) + 1] = wval
        /\ \A i \in 1 .. Len(toClient) : toClient'[i] = toClient[i]
    BY <1>0, <2>1
  <2>3. \A i \in 1 .. Len(toClient') :
          i = Len(toClient) + 1 \/ i \in 1 .. Len(toClient)
    BY <2>2
  <2>4. \A i \in 1 .. Len(toClient') : Named(toClient'[i])
    BY <2>2, <2>3 DEF AnswersNamed
  <2> QED BY <1>c, <1>n, <2>1, <2>4 DEF AnswersNamed
<1>3. CASE UNCHANGED toClient /\ ServerWorker
  <2>1. wval' = wval
    BY <1>3, WorkerLeaves
    DEF ServerWorker, ServerLists, ServerRefuses, Quietly, Worker, writerVars
  <2>2. CASE WorkerReplies
    <3>1. cmdOut' = Append(cmdOut, kans) /\ kans' = NoAnswer
      BY <2>2 DEF WorkerReplies
    <3>2. /\ Len(cmdOut') = Len(cmdOut) + 1 /\ Len(cmdOut) \in Nat
          /\ cmdOut'[Len(cmdOut) + 1] = kans
          /\ \A i \in 1 .. Len(cmdOut) : cmdOut'[i] = cmdOut[i]
      BY <1>0, <3>1 DEF TypeOK, WorkerTypeOK
    <3>3. \A i \in 1 .. Len(cmdOut') :
            i = Len(cmdOut) + 1 \/ i \in 1 .. Len(cmdOut)
      BY <3>2
    <3>4. \A i \in 1 .. Len(cmdOut') : Named(cmdOut'[i])
      BY <3>2, <3>3 DEF AnswersNamed
    <3> QED BY <1>3, <1>c, <1>n, <2>1, <3>1, <3>4 DEF AnswersNamed
  <2>3. CASE UNCHANGED cmdOut /\ Named(kans')
    BY <1>3, <1>c, <2>1, <2>3 DEF AnswersNamed
  <2>4. RunOpen => UNCHANGED cmdOut /\ Named(kans')
    BY <1>0 DEF RunOpen, outVars, Answer, Named, Commands
  <2>5. WorkerTakes => UNCHANGED cmdOut /\ Named(kans')
    BY DEF WorkerTakes, outVars, Answer, Named
  <2>6. RunAnswer => UNCHANGED cmdOut /\ Named(kans')
    BY <1>c DEF RunAnswer, outVars, Answer, Named
  <2>7. WorkerStart \/ WorkerCheck \/ WorkerSeesDone \/ WorkerExits
          => UNCHANGED cmdOut /\ Named(kans')
    BY <1>c
    DEF WorkerStart, WorkerCheck, WorkerSeesDone, WorkerExits, outVars
  <2> QED
    BY <1>3, <2>2, <2>3, <2>4, <2>5, <2>6, <2>7
    DEF ServerWorker, ServerLists, ServerRefuses, Quietly
<1>4. CASE UNCHANGED toClient /\ WriterTakesAnswer
  <2>1. /\ cmdOut # <<>> /\ wval' = Head(cmdOut) /\ cmdOut' = Tail(cmdOut)
        /\ kans' = kans
    BY <1>4 DEF WriterTakesAnswer, workerVars
  <2>2. /\ 1 \in 1 .. Len(cmdOut) /\ wval' = cmdOut[1]
        /\ \A i \in 1 .. Len(cmdOut') :
             cmdOut'[i] = cmdOut[i + 1] /\ i + 1 \in 1 .. Len(cmdOut)
    BY <1>0, <2>1
  <2>3. Named(wval') /\ \A i \in 1 .. Len(cmdOut') : Named(cmdOut'[i])
    BY <2>2 DEF AnswersNamed
  <2> QED BY <1>4, <1>c, <2>1, <2>3 DEF AnswersNamed
<1>5. ASSUME UNCHANGED toClient, NEW o \in Objs, WriterTakesFrame(o)
      PROVE  AnswersNamed'
  <2>1. Named(wval') /\ UNCHANGED <<kans, cmdOut>>
    BY <1>5 DEF WriterTakesFrame, Frame, TypeOK, StreamTypeOK, workerVars,
        outVars, Named
  <2> QED BY <1>5, <1>c, <2>1 DEF AnswersNamed
<1>13. CASE UNCHANGED toClient /\ WriterFails
  <2>1. UNCHANGED <<kans, cmdOut>> /\ wval' = NoAnswer
    BY <1>13 DEF WriterFails, workerVars, outVars
  <2> QED BY <1>13, <1>c, <1>n, <2>1 DEF AnswersNamed
<1>6. CASE UNCHANGED toClient /\ ServerWriter
  BY <1>2, <1>s, <1>4, <1>5, <1>6, <1>13
  DEF ServerWriter, Quietly, WriterStart, WriterCheck, WriterFindsNoAnswer,
      WriterSeesDone, WriterTerminates, WriterExits, workerVars, outVars
<1>7. UNCHANGED allVars => UNCHANGED <<kans, wval, cmdOut, toClient>>
  BY DEF allVars, cpVars, tcpVars, vars, workerVars, outVars, writerVars
<1>8. Handle => UNCHANGED <<kans, wval, cmdOut>>
  BY HandleLeaves DEF workerVars, outVars, writerVars
<1>9. Reader => UNCHANGED <<kans, wval, cmdOut>>
  BY ReaderLeaves DEF workerVars, outVars, writerVars
<1>10. ASSUME NEW o \in Objs, ServerStream(o)
       PROVE  UNCHANGED <<kans, wval, cmdOut>>
  BY <1>10, StreamLeavesRest
  DEF ServerStream, ServerReadsFile, ServerTakesFrame, ServerStops, Quietly,
      Stream, workerVars, outVars, writerVars
<1>11. ServerReads => UNCHANGED <<kans, wval, cmdOut>>
  BY DEF ServerReads, ReaderReads, workerVars, outVars, writerVars
<1>12. CASE UNCHANGED toClient
  <2>1. ServerReader \/ ServerHangsUp => UNCHANGED <<kans, wval, cmdOut>>
    BY <1>9, <1>11 DEF ServerReader, ServerHangsUp, Quietly, ReaderSteps, Reader
  <2>2. Quietly(Handle) => UNCHANGED <<kans, wval, cmdOut>>
    BY <1>8 DEF Quietly
  <2> QED
    BY <1>1, <1>3, <1>6, <1>7, <1>s, <1>10, <1>12, <2>1, <2>2 DEF CpNext
<1> QED BY <1>1, <1>2, <1>12, CpLeaves

\* What is known of the messages that are on their way.
Underway == SendsInputs /\ TypeOK /\ OneStream /\ AnswersNamed

LEMMA UnderwayAlways == CpSpec => []Underway
<1>1. CpInit => AnswersNamed BY NamedInit
<1>2. SendsInputs /\ TypeOK /\ OneStream /\ AnswersNamed /\ [CpNext]_allVars
        => AnswersNamed'
  BY NamedStep
<1>3. CpInv /\ EndInv => OneStream BY DEF CpInv
<1>4. SendsInputs /\ TypeOK /\ OneStream /\ AnswersNamed => Underway
  BY DEF Underway
<1> QED
  BY <1>1, <1>2, <1>3, <1>4, CpIsSession, SendsAlways, TypeSafety, EndAlways, PTL
  DEF CpSpec

\* A text of one byte.
LEMMA Word ==
  ASSUME NEW b \in Byte, NEW c, b # c
  PROVE  <<b>> \in Bytes /\ \A i \in DOMAIN <<b>> : <<b>>[i] # c
<1>1. /\ <<b>> \in Bytes /\ Len(<<b>>) = 1 /\ <<b>>[1] = b BY OneByte
<1>2. DOMAIN <<b>> = 1 .. 1 BY <1>1 DEF Bytes
<1> QED BY <1>1, <1>2

LEMMA Words ==
  \A b \in {"f", "l", "s", "r", "w", "F", "E", "0", "P", "e"} :
     <<b>> \in InLine /\ \A i \in DOMAIN <<b>> : <<b>>[i] # " "
<1> SUFFICES ASSUME NEW b \in {"f", "l", "s", "r", "w", "F", "E", "0", "P", "e"}
             PROVE  <<b>> \in InLine /\ \A i \in DOMAIN <<b>> : <<b>>[i] # " "
  OBVIOUS
<1>1. b \in Byte BY FlyCpWireAssumption, WireAssumption
<1>2. b # Nl /\ b # " " BY DEF Nl
<1>3. \A i \in DOMAIN <<b>> : <<b>>[i] # " " BY <1>1, <1>2, Word, Zenon
<1>4. <<b>> \in InLine BY <1>1, <1>2, Word, Zenon DEF InLine
<1> QED BY <1>3, <1>4, Zenon

LEMMA InLineJoin ==
  ASSUME NEW a \in InLine, NEW c \in InLine PROVE a \o c \in InLine
<1>1. /\ a \in Bytes /\ c \in Bytes
      /\ \A i \in 1 .. Len(a) : a[i] # Nl
      /\ \A i \in 1 .. Len(c) : c[i] # Nl
      /\ Len(a) \in Nat /\ Len(c) \in Nat
  BY DEF InLine, Bytes
<1> DEFINE t == a \o c
<1>2. /\ t \in Bytes /\ Len(t) = Len(a) + Len(c)
      /\ \A i \in 1 .. Len(a) : t[i] = a[i]
      /\ \A i \in 1 .. Len(c) : t[Len(a) + i] = c[i]
  BY <1>1, Concat
<1> HIDE DEF t
<1>3. \A i \in 1 .. Len(t) : t[i] # Nl
  <2> TAKE i \in 1 .. Len(t)
  <2>1. CASE i <= Len(a) BY <2>1, <1>1, <1>2
  <2>2. CASE i > Len(a)
    <3>1. i - Len(a) \in 1 .. Len(c) /\ Len(a) + (i - Len(a)) = i
      BY <2>2, <1>1, <1>2
    <3> QED BY <3>1, <1>1, <1>2
  <2> QED BY <2>1, <2>2, <1>1
<1>4. DOMAIN t = 1 .. Len(t) BY <1>2 DEF Bytes
<1> QED BY <1>2, <1>3, <1>4 DEF InLine, t

LEMMA SimpleMade ==
  /\ Null \in Simple
  /\ \A s \in InLine : String(s) \in Simple
  /\ \A n \in Int : Integer(n) \in Simple
  /\ \A a, m \in InLine : (\A i \in DOMAIN a : a[i] # " ") => Error(a, m) \in Simple
  /\ \A data \in Bytes : Len(data) <= MaxBlobSize => Blob(data) \in Simple
BY DEF Simple, Null, String, Integer, Error, Blob

\* What is sent is a value without values inside, an array or a table of those,
\* or one of them in a tag.
LEMMA SentValues ==
  /\ Simple \subseteq Untagged[Nesting]
  /\ \A vs \in Seq(Simple) :
        Len(vs) <= 4 => Array(vs) \in Untagged[Nesting]
  /\ \A row \in Seq(Simple) :
        row # <<>> /\ Len(row) <= 4 => Table(1, Len(row), row) \in Untagged[Nesting]
  /\ Untagged[Nesting] \subseteq Values
  /\ \A v \in Untagged[Nesting], g \in InLine : Tagged(v, g) \in Values
<1> DEFINE inner == Untagged[Nesting - 1]
<1>1. Nesting \in 0 .. Nesting /\ Nesting > 0 /\ Nesting - 1 \in 0 .. Nesting
  BY FlyCpWireAssumption, WireAssumption
<1>2. /\ Untagged[Nesting] = Simple \cup Compound(inner)
      /\ Simple \subseteq inner /\ Simple \subseteq Untagged[Nesting]
  BY <1>1, UntaggedLevel
<1> HIDE DEF inner
<1>3. \A vs \in Seq(Simple) : vs \in Seq(inner) BY <1>2
<1>4. \A vs \in Seq(inner) : Len(vs) <= 4 => Array(vs) \in Compound(inner)
  BY FlyCpWireAssumption, WireAssumption DEF Compound, Array
<1>5. ASSUME NEW row \in Seq(inner), row # <<>>, Len(row) <= 4
      PROVE  Table(1, Len(row), row) \in Compound(inner)
  <2> DEFINE n == Len(row)
  <2>1. n \in Nat /\ n > 0 /\ n = 1 * n /\ n <= MaxLen
    BY <1>5, EmptySeq, FlyCpWireAssumption, WireAssumption
  <2>2. Len(row) = n OBVIOUS
  <2> HIDE DEF n
  <2>3. /\ Table(1, n, row).rows = 1 /\ Table(1, n, row).cols = n
        /\ Table(1, n, row).cells = row
    BY DEF Table
  <2>4. IsTable(Table(1, n, row)) BY <2>1, <2>2, <2>3 DEF IsTable
  <2>5. Table(1, n, row)
          \in [t : {"table"}, rows : Nat, cols : Nat, cells : Seq(inner)]
    BY <2>1 DEF Table
  <2>6. Table(1, n, row) \in Compound(inner) BY <2>4, <2>5 DEF Compound
  <2> QED BY <2>6 DEF n
<1>6. Untagged[Nesting] \subseteq Values BY DEF Values
<1>7. \A v \in Untagged[Nesting], g \in InLine : Tagged(v, g) \in Values
  BY DEF Values, Tagged
<1> QED BY <1>2, <1>3, <1>4, <1>5, <1>6, <1>7

LEMMA BlockIsBlob == Block \in Bytes /\ Len(Block) <= MaxBlobSize
<1>1. MaxBlobSize \in Nat /\ Nl \in Byte /\ "*" \in Byte
  BY WireAssumption, Literals DEF Sigils
<1>2. Block \in [1 .. MaxBlobSize -> Byte] BY <1>1 DEF Block
<1>3. Block \in Seq(Byte) BY <1>1, <1>2
<1>4. Len(Block) = MaxBlobSize
  <2>1. DOMAIN Block = 1 .. MaxBlobSize BY <1>2
  <2> QED BY <1>1, <1>3, <2>1
<1> QED BY <1>1, <1>3, <1>4 DEF Bytes

LEMMA TagType == ASSUME NEW n \in Int PROVE Tag(n) \in InLine
<1>1. Tag(n) = Decimal(n) BY DEF Tag
<1> QED BY <1>1, DecimalReads

LEMMA ClientValueType == ASSUME NEW in \in Inputs PROVE ClientValue(in) \in Values
<1>1. Tag(in.slot) \in InLine
  <2>1. in.slot \in Int BY SizesAssumption DEF Inputs, Slots
  <2> QED BY <2>1, TagType
<1>2. Blob(Block) \in Simple /\ Null \in Simple BY BlockIsBlob, SimpleMade
<1>3. \A b \in {"f", "l", "s", "r", "w"} : String(<<b>>) \in Simple
  BY Words, SimpleMade
<1>4. ASSUME NEW v \in Simple PROVE Tagged(v, Tag(in.slot)) \in Values
  BY <1>1, SentValues
<1>5. ASSUME NEW vs \in Seq(Simple), Len(vs) <= 4 PROVE Array(vs) \in Values
  BY <1>5, SentValues
<1> DEFINE list == <<String(<<"l">>), String(File)>>
           stream(b) == <<String(<<"s">>), String(<<b>>), String(File)>>
<1>6. /\ list \in Seq(Simple) /\ stream("r") \in Seq(Simple)
      /\ stream("w") \in Seq(Simple)
      /\ Len(list) <= 4 /\ Len(stream("r")) <= 4 /\ Len(stream("w")) <= 4
  BY <1>3 DEF File
<1>7. ClientValue(in) \in {Tagged(Blob(Block), Tag(in.slot)), Tagged(Null, Tag(in.slot)),
                           Array(list), Array(stream("r")), Array(stream("w"))}
  BY DEF ClientValue
<1> HIDE DEF list, stream
<1> QED BY <1>2, <1>4, <1>5, <1>6, <1>7

LEMMA ListingIsValue == Listing \in Values
<1> DEFINE row == <<String(<<"F">>), String(File), Integer(12), String(<<"0">>)>>
<1>1. /\ String(<<"F">>) \in Simple /\ String(File) \in Simple
      /\ Integer(12) \in Simple /\ String(<<"0">>) \in Simple
  <2>1. \A b \in {"F", "f", "0"} : String(<<b>>) \in Simple BY Words, SimpleMade
  <2>2. 12 \in Int OBVIOUS
  <2>3. Integer(12) \in Simple BY <2>2, SimpleMade, Zenon
  <2> QED BY <2>1, <2>3 DEF File
<1>2. row \in Seq(Simple) /\ row # <<>> /\ Len(row) <= 4 BY <1>1
<1>3. Listing = Add(NoRows, row) BY DEF Listing
<1> HIDE DEF row
<1>4. Listing = Table(1, Len(row), row) BY <1>3, AddTable DEF NoRows
<1> QED BY <1>2, <1>4, SentValues

LEMMA ServerValueType ==
  ASSUME TypeOK, NEW m \in Messages, Named(m)
  PROVE  ServerValue(m) \in Values
<1>1. \A o \in Objs : slot[o] \in Int /\ Tag(slot[o]) \in InLine
  <2> TAKE o \in Objs
  <2>1. slot[o] \in Int BY SizesAssumption DEF TypeOK, StreamTypeOK, Slots
  <2> QED BY <2>1, TagType
<1>2. Tag(0) \in InLine
  <2>1. 0 \in Int OBVIOUS
  <2> QED BY <2>1, TagType, Zenon
<1>3. Blob(Block) \in Simple /\ Null \in Simple BY BlockIsBlob, SimpleMade
<1>4. Failure \in Simple BY Words, SimpleMade DEF Failure
<1>5. Simple \subseteq Values BY SentValues
<1>6. \A v \in Simple, g \in InLine : Tagged(v, g) \in Values BY SentValues
<1>7. CASE m.kind \in {"chunk", "last"}
  <2>1. m.obj \in Objs BY <1>7 DEF Messages, Frames, Answers
  <2>2. Tag(slot[m.obj]) \in InLine BY <2>1, <1>1
  <2>3. /\ Tagged(Blob(Block), Tag(slot[m.obj])) \in Values
        /\ Tagged(Null, Tag(slot[m.obj])) \in Values
    BY <2>2, <1>3, <1>6
  <2> QED BY <1>7, <2>3 DEF ServerValue
<1>8. CASE m.kind = "id"
  <2>1. slot[m.obj] \in Int BY <1>8, <1>1 DEF Named
  <2>2. Integer(slot[m.obj]) \in Values BY <2>1, <1>5, SimpleMade
  <2> QED BY <1>8, <2>2 DEF ServerValue
<1>9. CASE m.kind \in {"ok", "err", "closed"}
  <2>1. Tagged(Failure, Tag(0)) \in Values BY <1>2, <1>4, <1>6
  <2> QED BY <1>9, <1>4, <1>5, <2>1, ListingIsValue DEF ServerValue
<1> QED BY <1>7, <1>8, <1>9 DEF Messages, Frames, Answers

\* Whatever is on its way in either direction is read as the messages that were
\* sent, in their order, and none before all of it has arrived: for files of any
\* size, blocks of any size, and every interleaving of the session.
THEOREM ArrivesSafety == CpSpec => []ArrivesAsSent
<1>1. ASSUME Underway PROVE ArrivesAsSent
  <2>1. /\ toServer \in Seq(Inputs) /\ toClient \in Seq(Messages) /\ TypeOK
        /\ \A i \in 1 .. Len(toClient) : Named(toClient[i])
    BY <1>1 DEF Underway, SendsInputs, OneStream, AnswersNamed
  <2>2. ClientValues \in Seq(Values)
    <3>1. \A i \in DOMAIN toServer : ClientValue(toServer[i]) \in Values
      BY <2>1, ClientValueType
    <3>2. DOMAIN toServer = 1 .. Len(toServer) /\ Len(toServer) \in Nat BY <2>1
    <3> QED BY <3>1, <3>2 DEF ClientValues
  <2>3. ServerValues \in Seq(Values)
    <3>1. \A i \in DOMAIN toClient : ServerValue(toClient[i]) \in Values
      BY <2>1, ServerValueType
    <3>2. DOMAIN toClient = 1 .. Len(toClient) /\ Len(toClient) \in Nat BY <2>1
    <3> QED BY <3>1, <3>2 DEF ServerValues
  <2>4. \A vs \in Seq(Values) : ReadsAs(vs) BY AllRead DEF ReadsAs
  <2> QED BY <2>2, <2>3, <2>4 DEF ArrivesAsSent
<1>2. Underway => ArrivesAsSent BY <1>1
<1> QED BY <1>2, UnderwayAlways, PTL

-----------------------------------------------------------------------------
(* What is true of the format is so in every state.                        *)

\* Every value is read back, whatever comes next, at whatever depth values nest
\* and whatever bytes a blob holds.
THEOREM ReadsBackSafety == CpSpec => []ReadsBack
<1>1. ReadsBack
  <2> SUFFICES ASSUME NEW v \in Samples,
                      NEW more \in {<<>>, <<"1">>, <<Nl>>, Text(Null)}
               PROVE  ReadNext(Text(v) \o more) = Read(v, more)
    BY DEF ReadsBack
  <2>1. v \in Values BY FlyCpWireAssumption
  <2>2. Text(Null) \in Bytes
    <3>1. Null \in Values BY SentValues, SimpleMade
    <3> QED BY <3>1, NextReads
  <2>3. <<>> \in Bytes BY NumberEmpty
  <2>4. <<"1">> \in Bytes
    <3>1. "1" \in Byte
      <4>1. Digits[2] = "1" /\ 2 \in 1 .. 10 BY DEF Digits
      <4> QED BY <4>1, Literals
    <3> QED BY <3>1, OneByte
  <2>5. <<Nl>> \in Bytes BY Literals, OneByte
  <2>6. more \in Bytes BY <2>2, <2>3, <2>4, <2>5
  <2> QED BY <2>1, <2>6, NextReads
<1> QED BY <1>1, PTL DEF CpSpec

\* A value that is cut short is noticed, wherever the cut is, and nothing of what
\* arrived is taken for a value.
THEOREM CutSafety == CpSpec => []CutIsNoticed
<1>1. CutIsNoticed
  <2> SUFFICES ASSUME NEW v \in Samples, NEW k \in 0 .. (Len(Text(v)) - 1)
               PROVE  LET r == ReadNext(SubSeq(Text(v), 1, k))
                      IN  r.end \in {"io", "format"} /\ r.rest = <<>>
    BY DEF CutIsNoticed
  <2> DEFINE t == Text(v)
  <2>1. v \in Values BY FlyCpWireAssumption
  <2>2. t \in Bytes /\ \A q \in Cuts(t) : Stops(ReadNext(q)) BY <2>1, NextReads
  <2>3. SubSeq(t, 1, k) \in Cuts(t) BY <2>2, BeginningIsCut
  <2>4. Stops(ReadNext(SubSeq(t, 1, k))) BY <2>2, <2>3
  <2> QED BY <2>4 DEF Stops
<1> QED BY <1>1, PTL DEF CpSpec

\* The answer to malformed input, whatever the input is, is one message for its
\* reader, unless the byte that was not expected is a newline.
THEOREM ComplaintSafety == CpSpec => []ComplaintIsOneMessage
<1>1. ComplaintIsOneMessage
  <2> SUFFICES ASSUME NEW txt \in Arriving
               PROVE  LET r == ReadNext(txt)
                      IN  r.end = "format" =>
                            \/ r.odd = <<Nl>>
                            \/ /\ Complaint(r) \in Values
                               /\ ReadNext(Text(Complaint(r)))
                                    = Read(Complaint(r), <<>>)
    BY DEF ComplaintIsOneMessage
  <2> DEFINE r == ReadNext(txt)
             c == Complaint(r)
             m == <<"e">> \o r.odd
  <2>1. r.odd \in InLine \cup {<<Nl>>}
    BY FlyCpWireAssumption, NextTidy DEF Tidy
  <2>2. ASSUME r.odd \in InLine PROVE c \in Values /\ ReadNext(Text(c)) = Read(c, <<>>)
    <3>1. m \in InLine BY <2>2, Words, InLineJoin
    <3>2. c \in Simple
      <4>1. <<"P">> \in InLine /\ \A i \in DOMAIN <<"P">> : <<"P">>[i] # " "
        BY Words
      <4>2. c = Error(<<"P">>, m) BY DEF Complaint
      <4> HIDE DEF m, c
      <4> QED BY <3>1, <4>1, <4>2, SimpleMade
    <3>3. c \in Values BY <3>2, SentValues
    <3> HIDE DEF c
    <3>4. <<>> \in Bytes BY NumberEmpty
    <3>5. Text(c) \in Bytes /\ ReadNext(Text(c) \o <<>>) = Read(c, <<>>)
      BY <3>3, <3>4, NextReads
    <3>6. Text(c) \o <<>> = Text(c) BY <3>5, ConcatEmptySeq DEF Bytes
    <3> QED BY <3>3, <3>5, <3>6
  <2> QED BY <2>1, <2>2
<1> QED BY <1>1, PTL DEF CpSpec
=============================================================================
