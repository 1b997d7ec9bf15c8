---------------------------- MODULE AnswerProofs ----------------------------
(***************************************************************************)
(* What TLAPS proves of the answers of a session: nothing sent after a     *)
(* QUIT is served, and the reader, the worker, the writer and the channels *)
(* between them implement one first-in first-out pipeline.                 *)
(***************************************************************************)
EXTENDS StreamProofs, SequenceTheorems

-----------------------------------------------------------------------------
(***************************************************************************)
(* QUIT.  The first QUIT is in one place on its way to the worker, behind  *)
(* it is only what was sent later, and the worker takes nothing after it.  *)
(***************************************************************************)

\* The worker has a command that it owes an answer to.
Working == kpc \in {"run", "cancel", "await", "reply"}

\* Message n was received, and not after a QUIT.
Served(n) == n <= nread /\ (quitAt # None => n <= quitAt)

\* Every QUIT on its way was sent when quitAt says, or later.
NoEarlierQuit(c) == c.op = "quit" => quitAt # None /\ quitAt <= c.n

QuitsKnown ==
    /\ quitAt <= nread
    /\ rpc = "enqueue" => NoEarlierQuit(rcmd)
    /\ \A i \in 1 .. Len(commands) : NoEarlierQuit(commands[i])
    /\ kpc = "reply" => NoEarlierQuit(kcmd)
    /\ kpc \in {"run", "cancel", "await"} => kcmd.op # "quit"
    /\ ~Working => kcmd = NoCommand

\* Where the first QUIT is.
QuitQueued ==
    \/ rpc = "enqueue" /\ rcmd.n = quitAt /\ rcmd.op = "quit"
    \/ \E i \in 1 .. Len(commands) :
          commands[i].n = quitAt /\ commands[i].op = "quit"
    \/ kpc = "reply" /\ kcmd.n = quitAt /\ kcmd.op = "quit"
    \/ kpc \in {"closeout", "exit", "end"}

AllServed ==
    /\ Working => Served(kcmd.n) /\ kans.n = kcmd.n
    /\ \A i \in 1 .. Len(cmdOut) : Served(cmdOut[i].n)
    /\ wpc = "write" /\ wval \in Answers => Served(wval.n)
    /\ Served(replied)

\* The answer of the QUIT is the last one in cmdOut, or the writer has it, or
\* the client.
QuitAnswered ==
    /\ quitAt # None
    /\ \/ cmdOut # <<>> /\ cmdOut[Len(cmdOut)].n = quitAt
       \/ /\ cmdOut = <<>>
          /\ \/ wpc = "write" /\ wval \in Answers /\ wval.n = quitAt
             \/ replied = quitAt /\ ~(wpc = "write" /\ wval \in Answers)
             \/ netFailed

OutClosedLast ==
    /\ kpc = "closeout" \/ outClosed => QuitAnswered
    /\ outClosed => kpc \in {"exit", "end"}
    /\ wpc = "term" /\ ~netFailed => quitAt # None /\ replied = quitAt

QuitInv ==
    /\ QuitsKnown /\ AllServed /\ OutClosedLast
    /\ quitAt # None => QuitQueued

LEMMA QuitInit == Init => QuitInv
BY DEF Init, QuitInv, QuitsKnown, AllServed, OutClosedLast, Served, Working,
    None

QuitVars == <<rpc, rcmd, commands, kpc, kcmd, kans, outVars, wpc, wval, history>>

LEMMA QuitSame == ASSUME QuitInv, UNCHANGED QuitVars PROVE QuitInv'
BY DEF QuitVars, outVars, history, inHistory, outHistory, QuitInv, QuitsKnown,
   NoEarlierQuit, AllServed, Served, Working, OutClosedLast, QuitAnswered,
   QuitQueued

LEMMA QuitTypes ==
  ASSUME TypeOK
  PROVE  /\ nread \in Nat /\ quitAt \in Nat /\ replied \in Nat
         /\ rcmd \in Commands /\ kcmd \in Commands /\ rcmd.n \in Nat
         /\ kcmd.n \in Nat /\ kans.n \in Nat /\ kans \in Answers
         /\ commands \in Seq(Commands) /\ cmdOut \in Seq(Answers)
         /\ \A i \in 1 .. Len(commands) : commands[i].n \in Nat
         /\ \A i \in 1 .. Len(cmdOut) : cmdOut[i].n \in Nat
         /\ wval \in Answers => wval.n \in Nat \ {0}
         /\ NoCommand.op = "out"
<1>1. /\ nread \in Nat /\ quitAt \in Nat /\ replied \in Nat
      /\ rcmd \in Commands /\ kcmd \in Commands /\ kans \in Answers
      /\ commands \in Seq(Commands) /\ cmdOut \in Seq(Answers)
  BY DEF TypeOK, HistoryTypeOK, ReaderTypeOK, WorkerTypeOK, Objs, None
<1>2. \A c \in Commands : c.n \in Nat BY DEF Commands, Objs
<1>3. \A a \in Answers : a.n \in Nat \ {0} BY DEF Answers, Objs
<1>4. \A i \in 1 .. Len(commands) : commands[i] \in Commands BY <1>1
<1>5. \A i \in 1 .. Len(cmdOut) : cmdOut[i] \in Answers BY <1>1
<1> QED BY <1>1, <1>2, <1>3, <1>4, <1>5 DEF NoCommand

LEMMA QuitReader ==
  ASSUME TypeOK, MessagesInOrder, QuitInv, Reader
  PROVE  QuitInv'
<1> USE QuitTypes DEF None, NoEarlierQuit, Served, Working
<1>0. /\ UNCHANGED <<kpc, kcmd, kans, cmdOut, outClosed, wpc, wval, replied,
                     netFailed>>
  BY ReaderLeaves DEF workerVars, outVars, writerVars, outHistory
<1>1. CASE ReaderReadsAny
  <2>1. PICK in \in Inputs : ReaderReads(in) BY <1>1 DEF ReaderReadsAny
  <2>2. /\ nread' = nread + 1 /\ rpc = "read" /\ UNCHANGED commands
        /\ quitAt' = IF in.op = "quit" /\ quitAt = None THEN nread + 1
                                                         ELSE quitAt
        /\ rcmd'.n = nread + 1
        /\ rcmd'.op = "quit" <=> in.op = "quit"
        /\ in.op = "quit" => rpc' = "enqueue"
    BY <2>1 DEF ReaderReads, Rejected
  <2>3. QuitsKnown' BY <1>0, <2>2 DEF QuitInv, QuitsKnown
  <2>4. AllServed' BY <1>0, <2>2 DEF QuitInv, AllServed, QuitsKnown
  <2>5. OutClosedLast'
    BY <1>0, <2>2 DEF QuitInv, OutClosedLast, QuitAnswered
  <2>6. (quitAt # None => QuitQueued)'
    BY <1>0, <2>2 DEF QuitInv, QuitQueued
  <2> QED BY <2>3, <2>4, <2>5, <2>6 DEF QuitInv
<1>2. CASE ReaderEnqueue
  <2>1. /\ rpc = "enqueue" /\ commands' = Append(commands, rcmd)
        /\ rpc' = "check" /\ UNCHANGED <<nread, quitAt>>
    BY <1>2 DEF ReaderEnqueue, history, inHistory
  <2>2. /\ Len(commands') = Len(commands) + 1 /\ Len(commands) \in Nat
        /\ \A i \in 1 .. Len(commands) : commands'[i] = commands[i]
        /\ commands'[Len(commands) + 1] = rcmd
    BY <2>1
  <2>3. QuitsKnown' BY <1>0, <2>1, <2>2 DEF QuitInv, QuitsKnown
  <2>4. AllServed' BY <1>0, <2>1 DEF QuitInv, AllServed
  <2>5. OutClosedLast' BY <1>0, <2>1 DEF QuitInv, OutClosedLast, QuitAnswered
  <2>6. (quitAt # None => QuitQueued)'
    BY <1>0, <2>1, <2>2 DEF QuitInv, QuitQueued
  <2> QED BY <2>3, <2>4, <2>5, <2>6 DEF QuitInv
<1>3. CASE /\ UNCHANGED <<commands, nread, quitAt>>
           /\ rpc # "enqueue" /\ rpc' # "enqueue"
  BY <1>0, <1>3
  DEF QuitInv, QuitsKnown, AllServed, OutClosedLast, QuitAnswered, QuitQueued
<1> QED
  BY <1>1, <1>2, <1>3
  DEF Reader, ReaderStart, ReaderCheck, ReaderFails, ReaderPush,
      ReaderTerminates, ReaderExits, history, inHistory

LEMMA QuitWorker ==
  ASSUME TypeOK, MessagesInOrder, QuitInv, Worker
  PROVE  QuitInv'
<1> USE QuitTypes DEF None, NoEarlierQuit, Served, Working
<1>0. /\ UNCHANGED <<rpc, rcmd, wpc, wval, nread, quitAt, replied, netFailed>>
  BY WorkerLeaves DEF readerVars, writerVars, history, inHistory, outHistory
<1>1. CASE WorkerTakes
  <2>1. /\ kpc = "select" /\ commands # <<>> /\ commands' = Tail(commands)
        /\ kcmd' = Head(commands) /\ kans'.n = kcmd'.n
        /\ kpc' = IF kcmd'.op \in {"out", "quit"} THEN "reply" ELSE "run"
        /\ UNCHANGED <<cmdOut, outClosed>>
    BY <1>1 DEF WorkerTakes, Answer, outVars
  <2>2. /\ Len(commands) \in Nat /\ Len(commands) > 0
        /\ Len(commands') = Len(commands) - 1
        /\ \A i \in 1 .. Len(commands') : commands'[i] = commands[i + 1]
        /\ kcmd' = commands[1]
    BY <2>1
  <2>3. kcmd'.n <= nread /\ (quitAt # 0 => kcmd'.n <= quitAt)
    <3>1. kcmd'.n <= nread BY <2>2 DEF MessagesInOrder
    <3>2. CASE quitAt # 0
      <4>1. CASE rpc = "enqueue" /\ rcmd.n = quitAt
        BY <2>2, <4>1 DEF MessagesInOrder
      <4>2. ASSUME NEW i \in 1 .. Len(commands), commands[i].n = quitAt
            PROVE  kcmd'.n <= quitAt
        <5>1. i = 1 \/ 1 < i BY <2>2
        <5> QED BY <2>2, <4>2, <5>1 DEF MessagesInOrder
      <4> QED BY <2>1, <3>1, <3>2, <4>1, <4>2 DEF QuitInv, QuitQueued
    <3> QED BY <3>1, <3>2
  <2>4. QuitsKnown' BY <1>0, <2>1, <2>2 DEF QuitInv, QuitsKnown
  <2>5. AllServed' BY <1>0, <2>1, <2>3 DEF QuitInv, AllServed
  <2>6. OutClosedLast' BY <1>0, <2>1 DEF QuitInv, OutClosedLast, QuitAnswered
  <2>7. (quitAt # None => QuitQueued)'
    <3> SUFFICES ASSUME quitAt # None PROVE QuitQueued' BY <1>0
    <3>1. CASE rpc = "enqueue" /\ rcmd.n = quitAt /\ rcmd.op = "quit"
      BY <1>0, <3>1 DEF QuitQueued
    <3>2. ASSUME NEW i \in 1 .. Len(commands), commands[i].n = quitAt,
                 commands[i].op = "quit"
          PROVE  QuitQueued'
      <4>1. CASE i = 1 BY <1>0, <2>1, <2>2, <3>2, <4>1 DEF QuitQueued
      <4>2. CASE i # 1
        <5>1. i - 1 \in 1 .. Len(commands') BY <2>2, <4>2
        <5>2. (i - 1) + 1 = i OBVIOUS
        <5>3. commands'[i - 1] = commands[i] BY <2>2, <5>1, <5>2
        <5> QED BY <1>0, <3>2, <5>1, <5>3 DEF QuitQueued
      <4> QED BY <4>1, <4>2
    <3> QED BY <2>1, <3>1, <3>2 DEF QuitInv, QuitQueued
  <2> QED BY <2>4, <2>5, <2>6, <2>7 DEF QuitInv
<1>2. CASE WorkerReplies
  <2>1. /\ kpc = "reply" /\ cmdOut' = Append(cmdOut, kans)
        /\ kpc' = IF kcmd.op = "quit" THEN "closeout" ELSE "check"
        /\ kcmd' = NoCommand /\ UNCHANGED <<commands, outClosed>>
    BY <1>2 DEF WorkerReplies
  <2>2. /\ Len(cmdOut') = Len(cmdOut) + 1 /\ Len(cmdOut) \in Nat
        /\ cmdOut' # <<>> /\ cmdOut'[Len(cmdOut')] = kans
        /\ \A i \in 1 .. Len(cmdOut) : cmdOut'[i] = cmdOut[i]
    BY <2>1
  <2>3. QuitsKnown' BY <1>0, <2>1, <2>2 DEF QuitInv, QuitsKnown
  <2>4. kans.n = kcmd.n /\ Served(kcmd.n) BY <2>1 DEF QuitInv, AllServed
  <2>5. AllServed'
    BY <1>0, <2>1, <2>2, <2>4 DEF QuitInv, AllServed
  <2>6. kcmd.op = "quit" => quitAt # None /\ kcmd.n = quitAt
    BY <2>1, <2>4 DEF QuitInv, QuitsKnown
  <2>7. ~outClosed BY <2>1 DEF QuitInv, OutClosedLast
  <2>8. OutClosedLast'
    BY <1>0, <2>1, <2>2, <2>4, <2>6, <2>7
    DEF QuitInv, OutClosedLast, QuitAnswered
  <2>9. (quitAt # None => QuitQueued)'
    BY <1>0, <2>1, <2>2 DEF QuitInv, QuitQueued
  <2> QED BY <2>3, <2>5, <2>8, <2>9 DEF QuitInv
<1>3. CASE WorkerClosesOut
  <2>1. /\ kpc = "closeout" /\ kpc' = "exit" /\ outClosed' = TRUE
        /\ UNCHANGED <<commands, kcmd, kans, cmdOut>>
    BY <1>3 DEF WorkerClosesOut
  <2> QED
    BY <1>0, <2>1
    DEF QuitInv, QuitsKnown, AllServed, OutClosedLast, QuitAnswered, QuitQueued
<1>4. CASE /\ UNCHANGED <<commands, kcmd, kans, cmdOut, outClosed>>
           /\ \/ kpc = "new" /\ kpc' = "check"
              \/ kpc = "check" /\ kpc' \in {"exit", "select"}
              \/ kpc = "select" /\ kpc' = "exit"
              \/ kpc = "exit" /\ kpc' = "end"
  BY <1>0, <1>4
  DEF QuitInv, QuitsKnown, AllServed, OutClosedLast, QuitAnswered, QuitQueued
<1>5. CASE /\ UNCHANGED <<commands, kcmd, cmdOut, outClosed>>
           /\ kans'.n \in {kans.n, kcmd.n}
           /\ kpc \in {"run", "cancel", "await"}
           /\ kpc' \in {"cancel", "await", "reply"}
  BY <1>0, <1>5
  DEF QuitInv, QuitsKnown, AllServed, OutClosedLast, QuitAnswered, QuitQueued
<1> QED
  BY <1>1, <1>2, <1>3, <1>4, <1>5
  DEF Worker, WorkerStart, WorkerCheck, WorkerSeesDone, RunAnswer,
      RunTerminate, RunOpen, RunTooMany, RunClose, WorkerCancels, WorkerAwaits,
      WorkerExits, Answer, outVars

LEMMA QuitWriter ==
  ASSUME TypeOK, QuitInv, Writer
  PROVE  QuitInv'
<1> USE QuitTypes DEF None, NoEarlierQuit, Served, Working
<1>0. UNCHANGED <<rpc, rcmd, commands, kpc, kcmd, kans, nread, quitAt>>
  BY WriterLeaves DEF readerVars, workerVars, inHistory
<1>k. QuitsKnown' /\ (quitAt # None => QuitQueued)'
  BY <1>0 DEF QuitInv, QuitsKnown, QuitQueued
<1>1. CASE WriterTakesAnswer
  <2>1. /\ cmdOut # <<>> /\ wval' = Head(cmdOut) /\ cmdOut' = Tail(cmdOut)
        /\ wpc' = "write" /\ UNCHANGED <<outClosed, replied, netFailed>>
    BY <1>1 DEF WriterTakesAnswer, history, outHistory
  <2>2. /\ Len(cmdOut) \in Nat /\ Len(cmdOut) > 0
        /\ Len(cmdOut') = Len(cmdOut) - 1
        /\ \A i \in 1 .. Len(cmdOut') : cmdOut'[i] = cmdOut[i + 1]
        /\ wval' = cmdOut[1] /\ cmdOut[1] \in Answers
        /\ cmdOut' \in Seq(Answers)
    BY <2>1
  <2>3. AllServed' BY <1>0, <2>1, <2>2 DEF QuitInv, AllServed
  <2>4. QuitAnswered => QuitAnswered'
    <3>1. CASE Len(cmdOut) = 1
      <4>1. cmdOut' = <<>> BY <2>2, <3>1
      <4> QED BY <1>0, <2>1, <2>2, <3>1, <4>1 DEF QuitAnswered
    <3>2. CASE Len(cmdOut) > 1
      <4>1. cmdOut'[Len(cmdOut')] = cmdOut[Len(cmdOut)] /\ cmdOut' # <<>>
        BY <2>2, <3>2
      <4> QED BY <1>0, <2>1, <2>2, <3>2, <4>1 DEF QuitAnswered
    <3> QED BY <2>2, <3>1, <3>2
  <2> QED BY <1>0, <1>k, <2>1, <2>3, <2>4 DEF QuitInv, OutClosedLast
<1>2. CASE WriterWrites
  <2>1. /\ wpc = "write" /\ wpc' = "check" /\ UNCHANGED <<cmdOut, outClosed, netFailed>>
        /\ replied' = IF wval \in Answers THEN wval.n ELSE replied
    BY <1>2 DEF WriterWrites, outVars
  <2>2. AllServed' BY <1>0, <2>1 DEF QuitInv, AllServed
  <2>3. QuitAnswered => QuitAnswered'
    BY <1>0, <2>1 DEF QuitAnswered, QuitInv, AllServed
  <2> QED BY <1>0, <1>k, <2>1, <2>2, <2>3 DEF QuitInv, OutClosedLast
<1>3. CASE WriterFails
  <2>1. /\ wpc = "write" /\ wpc' = "term" /\ netFailed'
        /\ UNCHANGED <<cmdOut, outClosed, replied>>
    BY <1>3 DEF WriterFails, outVars
  <2> QED
    BY <1>0, <1>k, <2>1 DEF QuitInv, AllServed, OutClosedLast, QuitAnswered
<1>4. CASE WriterDrained
  <2>1. /\ wpc # "write" /\ wpc' = "term" /\ cmdOut = <<>> /\ outClosed
        /\ UNCHANGED <<cmdOut, outClosed, replied, netFailed>>
    BY <1>4 DEF WriterDrained, outVars, history, outHistory
  <2> QED
    BY <1>0, <1>k, <2>1 DEF QuitInv, AllServed, OutClosedLast, QuitAnswered
<1>5. ASSUME NEW o \in Objs, WriterTakesFrame(o) PROVE QuitInv'
  <2>1. /\ wpc = "select" /\ wpc' = "write" /\ wval'.n = 0
        /\ UNCHANGED <<cmdOut, outClosed, replied, netFailed>>
    BY <1>5 DEF WriterTakesFrame, Frame, outVars, history, outHistory
  <2>2. wval' \notin Answers BY <2>1 DEF Answers, Objs
  <2> QED
    BY <1>0, <1>k, <2>1, <2>2
    DEF QuitInv, AllServed, OutClosedLast, QuitAnswered
<1>6. CASE /\ UNCHANGED <<cmdOut, outClosed, wval, replied, netFailed>>
           /\ wpc # "write" /\ wpc' \notin {"write", "term"}
  BY <1>0, <1>k, <1>6 DEF QuitInv, AllServed, OutClosedLast, QuitAnswered
<1> QED
  BY <1>1, <1>2, <1>3, <1>4, <1>5, <1>6
  DEF Writer, WriterStart, WriterCheck, WriterFindsNoAnswer, WriterSeesDone,
      WriterTerminates, WriterExits, outVars, history, outHistory

LEMMA QuitStep ==
  TypeOK /\ MessagesInOrder /\ QuitInv /\ [Next]_vars => QuitInv'
<1> SUFFICES ASSUME TypeOK, MessagesInOrder, QuitInv, [Next]_vars
             PROVE  QuitInv'
  OBVIOUS
<1>1. UNCHANGED vars => UNCHANGED QuitVars
  BY DEF vars, QuitVars, readerVars, workerVars, writerVars
<1>2. Handle => UNCHANGED QuitVars
  BY HandleLeaves DEF QuitVars, readerVars, workerVars, writerVars
<1>3. \A o \in Objs : Stream(o) => UNCHANGED QuitVars
  BY StreamLeavesRest DEF QuitVars, readerVars, workerVars, writerVars
<1> QED
  BY <1>1, <1>2, <1>3, QuitSame, QuitReader, QuitWorker, QuitWriter DEF Next

LEMMA QuitAlways == Spec => []QuitInv
<1>1. Init => QuitInv BY QuitInit
<1>2. TypeOK /\ MessagesInOrder /\ QuitInv /\ [Next]_vars => QuitInv'
  BY QuitStep
<1> QED BY <1>1, <1>2, TypeSafety, OrderSafety, PTL DEF Spec

\* Whatever was pipelined behind a QUIT is not served, and a session that ends
\* because of it has sent every answer up to that of the QUIT.
THEOREM QuitSafety == Spec => []QuitIsLast
<1>1. TypeOK /\ QuitInv => QuitIsLast
  BY QuitTypes
  DEF QuitInv, QuitsKnown, AllServed, OutClosedLast, Served, QuitIsLast, None,
      NoCommand
<1> QED BY <1>1, TypeSafety, QuitAlways, PTL

-----------------------------------------------------------------------------
(***************************************************************************)
(* The pipeline.  The messages that are owed an answer are in five places, *)
(* and a step moves the head of one to the end of the next.                *)
(***************************************************************************)

InWriter == IF wpc = "write" /\ wval \in Answers THEN <<wval.n>> ELSE <<>>
InWorker == IF Working THEN <<kcmd.n>> ELSE <<>>
InReader == IF rpc = "enqueue" THEN <<rcmd.n>> ELSE <<>>

\* The writer has stopped.
Stopped == wpc \in {"term", "exit", "end"}

LEMMA OwedParts ==
  Owed = InWriter \o numbers(cmdOut) \o InWorker \o numbers(commands) \o InReader
BY DEF Owed, InWriter, InWorker, InReader, Working

\* numbers(q) maps the operations on q.
LEMMA Numbered == /\ \A c \in Commands : c.n \in Nat
                  /\ \A a \in Answers : a.n \in Nat
BY DEF Commands, Answers, Objs

LEMMA NumbersType ==
  ASSUME NEW S, \A e \in S : e.n \in Nat, NEW q \in Seq(S)
  PROVE  /\ numbers(q) \in Seq(Nat) /\ Len(numbers(q)) = Len(q)
         /\ \A i \in 1 .. Len(q) : numbers(q)[i] = q[i].n
<1>1. Len(q) \in Nat /\ \A i \in 1 .. Len(q) : q[i] \in S BY LenProperties
<1>2. \A i \in 1 .. Len(q) : q[i].n \in Nat BY <1>1
<1>3. numbers(q) \in [1 .. Len(q) -> Nat] BY <1>2 DEF numbers
<1>4. numbers(q) \in Seq(Nat) BY <1>1, <1>3
<1> QED BY <1>1, <1>3, <1>4 DEF numbers

LEMMA NumbersEmpty == numbers(<<>>) = <<>>
BY DEF numbers

LEMMA NumbersAppend ==
  ASSUME NEW S, \A e \in S : e.n \in Nat, NEW q \in Seq(S), NEW e \in S
  PROVE  numbers(Append(q, e)) = numbers(q) \o <<e.n>>
<1> DEFINE all == Append(q, e)
           mapped == Append(numbers(q), e.n)
<1>1. /\ all \in Seq(S) /\ Len(q) \in Nat /\ Len(all) = Len(q) + 1
      /\ \A i \in 1 .. Len(q) : all[i] = q[i]
      /\ all[Len(q) + 1] = e
  BY AppendProperties, LenProperties
<1>2. /\ numbers(q) \in Seq(Nat) /\ Len(numbers(q)) = Len(q)
      /\ \A i \in 1 .. Len(q) : numbers(q)[i] = q[i].n
  BY NumbersType
<1>3. /\ numbers(all) \in Seq(Nat) /\ Len(numbers(all)) = Len(q) + 1
      /\ \A i \in 1 .. Len(q) + 1 : numbers(all)[i] = all[i].n
  <2> HIDE DEF all
  <2> QED BY <1>1, NumbersType
<1>4. /\ mapped \in Seq(Nat) /\ Len(mapped) = Len(q) + 1
      /\ \A i \in 1 .. Len(q) : mapped[i] = numbers(q)[i]
      /\ mapped[Len(q) + 1] = e.n
  BY <1>2, AppendProperties
<1> HIDE DEF all, mapped
<1>5. \A i \in 1 .. Len(q) + 1 : numbers(all)[i] = mapped[i]
  <2> SUFFICES ASSUME NEW i \in 1 .. Len(q) + 1
               PROVE  numbers(all)[i] = mapped[i]
    OBVIOUS
  <2>1. i \in 1 .. Len(q) \/ i = Len(q) + 1 BY <1>1
  <2> QED BY <1>1, <1>2, <1>3, <1>4, <2>1
<1>6. numbers(all) = mapped BY <1>3, <1>4, <1>5, SeqEqual
<1>7. mapped = numbers(q) \o <<e.n>> BY <1>2, AppendIsConcat DEF mapped
<1> QED BY <1>6, <1>7 DEF all

LEMMA NumbersTail ==
  ASSUME NEW S, \A e \in S : e.n \in Nat, NEW q \in Seq(S), q # <<>>
  PROVE  numbers(q) = <<Head(q).n>> \o numbers(Tail(q))
<1> DEFINE rest == Tail(q)
           front == <<Head(q).n>>
           joined == front \o numbers(rest)
<1>1. /\ Head(q) \in S /\ rest \in Seq(S) /\ Len(q) \in Nat /\ Len(q) > 0
      /\ Len(rest) = Len(q) - 1 /\ Head(q) = q[1]
      /\ \A i \in 1 .. Len(rest) : rest[i] = q[i + 1]
  OBVIOUS
<1>2. front \in Seq(Nat) /\ Len(front) = 1 /\ front[1] = q[1].n
  BY <1>1
<1> HIDE DEF rest, front
<1>3. /\ numbers(q) \in Seq(Nat) /\ Len(numbers(q)) = Len(q)
      /\ \A i \in 1 .. Len(q) : numbers(q)[i] = q[i].n
  BY NumbersType
<1>4. /\ numbers(rest) \in Seq(Nat) /\ Len(numbers(rest)) = Len(q) - 1
      /\ \A i \in 1 .. Len(q) - 1 : numbers(rest)[i] = rest[i].n
  BY <1>1, NumbersType
<1>5. /\ joined \in Seq(Nat) /\ Len(joined) = Len(q)
      /\ \A i \in 1 .. Len(q) :
            joined[i] = IF i <= 1 THEN front[i] ELSE numbers(rest)[i - 1]
  <2>1. /\ joined \in Seq(Nat)
        /\ Len(joined) = Len(front) + Len(numbers(rest))
        /\ \A i \in 1 .. Len(front) + Len(numbers(rest)) :
              joined[i] = IF i <= Len(front) THEN front[i]
                          ELSE numbers(rest)[i - Len(front)]
    BY <1>2, <1>4, ConcatProperties
  <2>2. Len(front) + Len(numbers(rest)) = Len(q) BY <1>1, <1>2, <1>4
  <2> QED BY <1>2, <2>1, <2>2
<1> HIDE DEF joined
<1>6. \A i \in 1 .. Len(q) : numbers(q)[i] = joined[i]
  <2> SUFFICES ASSUME NEW i \in 1 .. Len(q) PROVE numbers(q)[i] = joined[i]
    OBVIOUS
  <2>1. CASE i = 1 BY <1>1, <1>2, <1>3, <1>5, <2>1
  <2>2. CASE i > 1
    <3>1. i - 1 \in 1 .. Len(q) - 1 BY <1>1, <2>2
    <3>2. numbers(rest)[i - 1] = q[i].n BY <1>1, <1>4, <3>1
    <3> QED BY <1>1, <1>3, <1>5, <2>2, <3>2
  <2>3. i = 1 \/ i > 1 BY <1>1
  <2> QED BY <2>1, <2>2, <2>3
<1>7. numbers(q) = joined BY <1>3, <1>5, <1>6, SeqEqual
<1> QED BY <1>7 DEF joined, front, rest

LEMMA PartsType ==
  ASSUME TypeOK
  PROVE  /\ InWriter \in Seq(Nat) /\ InWorker \in Seq(Nat)
         /\ InReader \in Seq(Nat) /\ numbers(cmdOut) \in Seq(Nat)
         /\ numbers(commands) \in Seq(Nat)
         /\ InWriter \o numbers(cmdOut) \in Seq(Nat)
         /\ InWriter \o numbers(cmdOut) \o InWorker \in Seq(Nat)
         /\ InWriter \o numbers(cmdOut) \o InWorker \o numbers(commands)
              \in Seq(Nat)
<1>1. /\ InWriter \in Seq(Nat) /\ InWorker \in Seq(Nat)
      /\ InReader \in Seq(Nat)
  BY QuitTypes DEF InWriter, InWorker, InReader
<1>2. numbers(cmdOut) \in Seq(Nat) /\ numbers(commands) \in Seq(Nat)
  BY QuitTypes, NumbersType, Numbered
<1> QED BY <1>1, <1>2

\* The two ways in which a number moves on.
LEMMA MovesBack ==
  ASSUME NEW s \in Seq(Nat), NEW t \in Seq(Nat), NEW n \in Nat
  PROVE  (s \o t) \o <<n>> = (s \o (t \o <<n>>)) \o <<>>
BY ConcatAssociative, ConcatEmptySeq

LEMMA MovesFront ==
  ASSUME NEW s \in Seq(Nat), NEW t \in Seq(Nat), NEW n \in Nat
  PROVE  (s \o <<>>) \o (<<n>> \o t) = (s \o <<n>>) \o t
BY ConcatAssociative, ConcatEmptySeq

\* A step that moves nothing.
LEMMA OwedSame ==
  ASSUME UNCHANGED <<InWriter, cmdOut, InWorker, commands, InReader>>
  PROVE  Owed' = Owed
<1>1. numbers(cmdOut)' = numbers(cmdOut) /\ numbers(commands)' = numbers(commands)
  BY DEF numbers
<1>2. InWriter' = InWriter /\ InWorker' = InWorker /\ InReader' = InReader
  OBVIOUS
<1>3. Owed' = (InWriter \o numbers(cmdOut) \o InWorker \o numbers(commands)
                 \o InReader)'
  BY OwedParts DEF Owed, InWriter, InWorker, InReader, Working
<1> QED BY <1>1, <1>2, <1>3, OwedParts

LEMMA OwedReader ==
  ASSUME TypeOK, MessagesInOrder, Reader
  PROVE  \/ UNCHANGED <<nread, quitAt, Owed>>
         \/ /\ nread < MaxReads /\ nread' = nread + 1
            /\ Owed' \in {Owed, Append(Owed, nread')}
            /\ quitAt' \in {quitAt, IF quitAt = 0 THEN nread' ELSE quitAt}
<1>0. UNCHANGED <<InWriter, cmdOut, InWorker>>
  BY ReaderLeaves
  DEF InWriter, InWorker, Working, workerVars, outVars, writerVars
<1> DEFINE before == InWriter \o numbers(cmdOut) \o InWorker
<1>t. /\ before \in Seq(Nat) /\ numbers(commands) \in Seq(Nat)
      /\ before \o numbers(commands) \in Seq(Nat) /\ nread \in Nat
      /\ commands \in Seq(Commands) /\ rcmd \in Commands /\ rcmd.n \in Nat
  BY PartsType, QuitTypes
<1>o. /\ Owed = (before \o numbers(commands)) \o InReader
      /\ Owed' = (before \o numbers(commands)') \o InReader'
  BY <1>0, OwedParts DEF Owed, InWriter, InWorker, InReader, Working, numbers
<1> HIDE DEF before
<1>1. CASE ReaderReadsAny
  <2>1. PICK in \in Inputs : ReaderReads(in) BY <1>1 DEF ReaderReadsAny
  <2>2. /\ rpc = "read" /\ nread < MaxReads /\ nread' = nread + 1
        /\ rpc' # "enqueue" \/ rcmd'.n = nread'
        /\ UNCHANGED commands
        /\ quitAt' \in {quitAt, IF quitAt = 0 THEN nread' ELSE quitAt}
    BY <2>1 DEF ReaderReads, Rejected, None
  <2>3. InReader = <<>> /\ InReader' \in {<<>>, <<nread'>>}
    BY <2>2 DEF InReader
  <2>4. numbers(commands)' = numbers(commands) BY <2>2 DEF numbers
  <2>5. Owed = before \o numbers(commands)
    BY <1>t, <1>o, <2>3, ConcatEmptySeq
  <2>6. Owed' \in {Owed, Owed \o <<nread'>>}
    BY <1>t, <1>o, <2>3, <2>4, <2>5, ConcatEmptySeq
  <2>7. Owed \o <<nread'>> = Append(Owed, nread')
    BY <1>t, <2>2, <2>5, AppendIsConcat
  <2> QED BY <2>2, <2>6, <2>7
<1>2. CASE ReaderEnqueue
  <2>1. /\ rpc = "enqueue" /\ rpc' = "check"
        /\ commands' = Append(commands, rcmd) /\ UNCHANGED <<nread, quitAt>>
    BY <1>2 DEF ReaderEnqueue, history, inHistory
  <2>2. InReader = <<rcmd.n>> /\ InReader' = <<>> BY <2>1 DEF InReader
  <2>3. numbers(commands)' = numbers(commands) \o <<rcmd.n>>
    <3>1. numbers(commands)' = numbers(Append(commands, rcmd))
      BY <2>1 DEF numbers
    <3> QED BY <1>t, <3>1, NumbersAppend, Numbered
  <2> QED BY <1>t, <1>o, <2>1, <2>2, <2>3, MovesBack
<1>3. CASE /\ UNCHANGED <<commands, nread, quitAt>>
           /\ rpc # "enqueue" /\ rpc' # "enqueue"
  BY <1>0, <1>3, OwedSame DEF InReader
<1> QED
  BY <1>1, <1>2, <1>3
  DEF Reader, ReaderStart, ReaderCheck, ReaderFails, ReaderPush,
      ReaderTerminates, ReaderExits, history, inHistory

LEMMA OwedWorker ==
  ASSUME TypeOK, QuitInv, Worker
  PROVE  UNCHANGED <<nread, quitAt, wpc, Owed>>
<1>0. UNCHANGED <<InWriter, InReader, nread, quitAt, wpc>>
  BY WorkerLeaves
  DEF InWriter, InReader, readerVars, writerVars, history, inHistory
<1>t. /\ InWriter \in Seq(Nat) /\ numbers(cmdOut) \in Seq(Nat)
      /\ numbers(commands) \in Seq(Nat)
      /\ InWriter \o numbers(cmdOut) \in Seq(Nat)
      /\ commands \in Seq(Commands) /\ cmdOut \in Seq(Answers)
      /\ kans \in Answers /\ kans.n \in Nat
  BY PartsType, QuitTypes
<1>o. /\ Owed = InWriter \o numbers(cmdOut) \o InWorker \o numbers(commands)
                  \o InReader
      /\ Owed' = InWriter \o numbers(cmdOut)' \o InWorker' \o numbers(commands)'
                   \o InReader
  BY <1>0, OwedParts DEF Owed, InWriter, InWorker, InReader, Working, numbers
<1>1. CASE WorkerTakes
  <2> DEFINE n == Head(commands).n
  <2>1. /\ commands # <<>> /\ commands' = Tail(commands)
        /\ InWorker = <<>> /\ InWorker' = <<n>>
        /\ UNCHANGED cmdOut
    BY <1>1 DEF WorkerTakes, InWorker, Working, outVars
  <2>2. Head(commands) \in Commands BY <1>t, <2>1
  <2>3. n \in Nat BY <2>2, Numbered
  <2> HIDE DEF n
  <2>4. numbers(commands) = <<n>> \o numbers(Tail(commands))
    BY <1>t, <2>1, NumbersTail, Numbered DEF n
  <2>5. numbers(Tail(commands)) \in Seq(Nat)
    <3>1. Tail(commands) \in Seq(Commands) BY <1>t, <2>1
    <3> QED BY <3>1, NumbersType, Numbered
  <2>6. /\ numbers(cmdOut)' = numbers(cmdOut)
        /\ numbers(commands)' = numbers(Tail(commands))
    BY <2>1 DEF numbers
  <2>7. InWriter \o numbers(cmdOut) \o <<>> \o (<<n>> \o numbers(Tail(commands)))
          = InWriter \o numbers(cmdOut) \o <<n>> \o numbers(Tail(commands))
    BY <1>t, <2>3, <2>5, MovesFront
  <2>8. Owed' = Owed BY <1>o, <2>1, <2>4, <2>6, <2>7
  <2> QED BY <1>0, <2>8
<1>2. CASE WorkerReplies
  <2>1. /\ cmdOut' = Append(cmdOut, kans) /\ UNCHANGED commands
        /\ kans.n = kcmd.n /\ InWorker = <<kcmd.n>> /\ InWorker' = <<>>
    BY <1>2 DEF WorkerReplies, InWorker, Working, QuitInv, AllServed
  <2>2. /\ numbers(cmdOut)' = numbers(cmdOut) \o <<kans.n>>
        /\ numbers(commands)' = numbers(commands)
    <3>1. /\ numbers(cmdOut)' = numbers(Append(cmdOut, kans))
          /\ numbers(commands)' = numbers(commands)
      BY <2>1 DEF numbers
    <3> QED BY <1>t, <3>1, NumbersAppend, Numbered
  <2>3. InWriter \o numbers(cmdOut) \o <<kans.n>>
          = InWriter \o (numbers(cmdOut) \o <<kans.n>>) \o <<>>
    BY <1>t, MovesBack
  <2>4. Owed' = Owed BY <1>o, <2>1, <2>2, <2>3
  <2> QED BY <1>0, <2>4
<1>3. CASE UNCHANGED <<cmdOut, commands, InWorker>>
  BY <1>0, <1>3, OwedSame
<1> QED
  BY <1>1, <1>2, <1>3
  DEF Worker, WorkerStart, WorkerCheck, WorkerSeesDone, RunAnswer,
      RunTerminate, RunOpen, RunTooMany, RunClose, WorkerCancels, WorkerAwaits,
      WorkerClosesOut, WorkerExits, InWorker, Working, outVars

\* The writer has the oldest message.
OldestFirst(n, a, b, c, d) ==
    /\ <<n>> \o a \o b \o c \o d # <<>>
    /\ Head(<<n>> \o a \o b \o c \o d) = n
    /\ Tail(<<n>> \o a \o b \o c \o d) = <<>> \o a \o b \o c \o d

LEMMA WriterHasHead ==
  ASSUME NEW n \in Nat, NEW a \in Seq(Nat), NEW b \in Seq(Nat),
         NEW c \in Seq(Nat), NEW d \in Seq(Nat)
  PROVE  OldestFirst(n, a, b, c, d)
<1> DEFINE rest == a \o b \o c \o d
<1>1. rest \in Seq(Nat) OBVIOUS
<1>2. <<>> \o a = a BY ConcatEmptySeq
<1>3. <<n>> \o a \o b \o c \o d = <<n>> \o rest
  <2>1. <<n>> \in Seq(Nat) /\ a \o b \in Seq(Nat) /\ a \o b \o c \in Seq(Nat)
    OBVIOUS
  <2>2. (<<n>> \o a) \o b = <<n>> \o (a \o b) BY <2>1, ConcatAssociative
  <2>3. (<<n>> \o (a \o b)) \o c = <<n>> \o (a \o b \o c)
    BY <2>1, ConcatAssociative
  <2>4. (<<n>> \o (a \o b \o c)) \o d = <<n>> \o (a \o b \o c \o d)
    BY <2>1, ConcatAssociative
  <2> QED BY <2>2, <2>3, <2>4
<1> HIDE DEF rest
<1>4. <<n>> \o rest # <<>> /\ Head(<<n>> \o rest) = n
  BY <1>1
<1>5. Tail(<<n>> \o rest) = rest
  BY <1>1
<1> QED BY <1>2, <1>3, <1>4, <1>5 DEF rest, OldestFirst

\* The writer answers the oldest message, or stops.
LEMMA OwedWriter ==
  ASSUME TypeOK, QuitInv, Writer
  PROVE  /\ UNCHANGED <<nread, quitAt>>
         /\ \/ UNCHANGED Owed /\ (Stopped => Stopped')
            \/ /\ ~Stopped /\ Owed # <<>> /\ Owed' = Tail(Owed)
               /\ Stopped' \/ (quitAt # 0 => Head(Owed) <= quitAt)
<1>0. UNCHANGED <<commands, InWorker, InReader, nread, quitAt>>
  BY WriterLeaves
  DEF InWorker, InReader, Working, readerVars, workerVars, inHistory
<1>t. /\ InWriter \in Seq(Nat) /\ numbers(cmdOut) \in Seq(Nat)
      /\ numbers(commands) \in Seq(Nat) /\ InWorker \in Seq(Nat)
      /\ InReader \in Seq(Nat) /\ cmdOut \in Seq(Answers)
      /\ wval \in Answers => wval.n \in Nat
  BY PartsType, QuitTypes
<1>o. /\ Owed = InWriter \o numbers(cmdOut) \o InWorker \o numbers(commands)
                  \o InReader
      /\ Owed' = InWriter' \o numbers(cmdOut)' \o InWorker \o numbers(commands)
                   \o InReader
  BY <1>0, OwedParts DEF Owed, InWriter, InWorker, InReader, Working, numbers
<1>1. CASE WriterTakesAnswer
  <2> DEFINE n == Head(cmdOut).n
  <2>1. /\ cmdOut # <<>> /\ cmdOut' = Tail(cmdOut) /\ wval' = Head(cmdOut)
        /\ wpc \in {"poll", "select"} /\ wpc' = "write"
    BY <1>1 DEF WriterTakesAnswer
  <2>2. Head(cmdOut) \in Answers /\ Tail(cmdOut) \in Seq(Answers)
    BY <1>t, <2>1
  <2>3. InWriter = <<>> /\ InWriter' = <<n>> BY <2>1, <2>2 DEF InWriter
  <2>4. n \in Nat BY <2>2, Numbered
  <2> HIDE DEF n
  <2>5. numbers(cmdOut) = <<n>> \o numbers(Tail(cmdOut))
    BY <1>t, <2>1, NumbersTail, Numbered DEF n
  <2>6. numbers(Tail(cmdOut)) \in Seq(Nat) BY <2>2, NumbersType, Numbered
  <2>7. numbers(cmdOut)' = numbers(Tail(cmdOut)) BY <2>1 DEF numbers
  <2>8. <<>> \o (<<n>> \o numbers(Tail(cmdOut)))
          = <<n>> \o numbers(Tail(cmdOut))
    BY <2>4, <2>6, ConcatEmptySeq
  <2>9. Owed' = Owed BY <1>o, <2>3, <2>5, <2>7, <2>8
  <2> QED BY <1>0, <2>1, <2>9 DEF Stopped
<1>2. ASSUME wpc = "write", wpc' # "write", UNCHANGED cmdOut,
             wpc' \in {"check", "term"}
      PROVE  \/ UNCHANGED Owed /\ (Stopped => Stopped')
             \/ /\ ~Stopped /\ Owed # <<>> /\ Owed' = Tail(Owed)
                /\ Stopped' \/ (quitAt # 0 => Head(Owed) <= quitAt)
  <2>1. CASE wval \in Answers
    <3>1. InWriter = <<wval.n>> /\ InWriter' = <<>>
      BY <1>2, <2>1 DEF InWriter
    <3>2. numbers(cmdOut)' = numbers(cmdOut) BY <1>2 DEF numbers
    <3>o. /\ Owed = <<wval.n>> \o numbers(cmdOut) \o InWorker
                      \o numbers(commands) \o InReader
          /\ Owed' = <<>> \o numbers(cmdOut) \o InWorker
                       \o numbers(commands) \o InReader
      BY <1>o, <3>1, <3>2
    <3>h. wval.n \in Nat BY <1>t, <2>1
    <3>3. Owed # <<>> /\ Head(Owed) = wval.n /\ Tail(Owed) = Owed'
      <4> DEFINE n == wval.n
                 a == numbers(cmdOut)
                 c == numbers(commands)
      <4>1. n \in Nat /\ a \in Seq(Nat) /\ c \in Seq(Nat) BY <1>t, <3>h
      <4>2. /\ Owed = <<n>> \o a \o InWorker \o c \o InReader
            /\ Owed' = <<>> \o a \o InWorker \o c \o InReader
        BY <3>o
      <4> HIDE DEF n, a, c
      <4>t. InWorker \in Seq(Nat) /\ InReader \in Seq(Nat) BY <1>t
      <4>3. OldestFirst(n, a, InWorker, c, InReader)
        BY <4>1, <4>t, WriterHasHead
      <4> QED BY <4>2, <4>3 DEF n, OldestFirst
    <3>4. quitAt # 0 => wval.n <= quitAt
      BY <1>2, <2>1 DEF QuitInv, AllServed, Served, None
    <3> QED BY <1>2, <3>3, <3>4 DEF Stopped
  <2>2. CASE wval \notin Answers
    <3>1. UNCHANGED InWriter BY <1>2, <2>2 DEF InWriter
    <3> QED BY <1>0, <1>2, <3>1, OwedSame DEF Stopped
  <2> QED BY <2>1, <2>2
<1>3. CASE WriterWrites \/ WriterFails
  BY <1>0, <1>2, <1>3 DEF WriterWrites, WriterFails, outVars
<1>4. ASSUME NEW o \in Objs, WriterTakesFrame(o)
      PROVE  UNCHANGED Owed /\ (Stopped => Stopped')
  <2>1. /\ wpc = "select" /\ wpc' = "write" /\ wval'.n = 0 /\ UNCHANGED cmdOut
    BY <1>4 DEF WriterTakesFrame, Frame, outVars, None
  <2>2. wval' \notin Answers BY <2>1 DEF Answers, Objs
  <2>3. UNCHANGED InWriter BY <2>1, <2>2 DEF InWriter
  <2> QED BY <1>0, <2>1, <2>3, OwedSame DEF Stopped
<1>5. CASE /\ UNCHANGED cmdOut /\ wpc # "write" /\ wpc' # "write"
           /\ Stopped => Stopped'
  <2>1. UNCHANGED InWriter BY <1>5 DEF InWriter
  <2> QED BY <1>0, <1>5, <2>1, OwedSame
<1> QED
  BY <1>0, <1>1, <1>3, <1>4, <1>5
  DEF Writer, WriterStart, WriterCheck, WriterFindsNoAnswer, WriterDrained,
      WriterSeesDone, WriterTerminates, WriterExits, Stopped, outVars

-----------------------------------------------------------------------------
LEMMA PipelineInit == Init => Pipe!Init
BY NumbersEmpty, ConcatEmptySeq
DEF Init, Pipe!Init, Owed, None

LEMMA PipelineStep ==
  ASSUME TypeOK, MessagesInOrder, QuitInv, [Next]_vars
  PROVE  [Pipe!Next]_Pipe!pipelineVars
<1> USE DEF Pipe!Next, Pipe!Receive, Pipe!Answer, Pipe!Break,
        Pipe!pipelineVars, Stopped
<1>1. CASE UNCHANGED <<QuitVars>>
  <2>1. UNCHANGED <<InWriter, cmdOut, InWorker, commands, InReader>>
    BY <1>1 DEF QuitVars, InWriter, InWorker, InReader, Working, outVars
  <2> QED BY <1>1, <2>1, OwedSame DEF QuitVars, history, inHistory
<1>2. CASE Reader
  <2>1. UNCHANGED wpc BY <1>2, ReaderLeaves DEF writerVars
  <2> QED BY <1>2, <2>1, OwedReader
<1>3. CASE Worker BY <1>3, OwedWorker
<1>4. CASE Writer BY <1>4, OwedWriter
<1>5. UNCHANGED vars => UNCHANGED QuitVars
  BY DEF vars, QuitVars, readerVars, workerVars, writerVars
<1>6. Handle => UNCHANGED QuitVars
  BY HandleLeaves DEF QuitVars, readerVars, workerVars, writerVars
<1>7. \A o \in Objs : Stream(o) => UNCHANGED QuitVars
  BY StreamLeavesRest DEF QuitVars, readerVars, workerVars, writerVars
<1> QED BY <1>1, <1>2, <1>3, <1>4, <1>5, <1>6, <1>7 DEF Next

\* The refinement: the reader, the commands channel, the worker, cmdOut and
\* the writer together answer a client's messages one at a time, in the order
\* they came, none twice and none skipped, whatever the sizes of the channels.
THEOREM AnswerRefinement == Spec => AnswersInOrder
<1>1. Init => Pipe!Init BY PipelineInit
<1>2. TypeOK /\ MessagesInOrder /\ QuitInv /\ [Next]_vars
        => [Pipe!Next]_Pipe!pipelineVars
  BY PipelineStep
<1> QED
  BY <1>1, <1>2, TypeSafety, OrderSafety, QuitAlways, PTL
  DEF Spec, AnswersInOrder, Pipe!Spec
=============================================================================
