------------------------------ MODULE Session ------------------------------
(***************************************************************************)
(* One connection of fly-server (package internal/session): the goroutines *)
(* that session.Handle starts, the Go channels between them, the stream    *)
(* table with its lock, and the goroutines of the open streams.            *)
(*                                                                         *)
(*   client -> reader --commands--> worker --cmdOut--> writer -> client    *)
(*               |                    | opens, closes    ^                 *)
(*               +----frames----> stream goroutine --dataOut               *)
(*                                                                         *)
(* An action is one step between two operations that other goroutines can  *)
(* observe: a channel operation, a critical section of streamLock, a       *)
(* WaitGroup call.  Code that only touches local state or the file of one  *)
(* stream is part of the step before it.  Bytes are left out.              *)
(*                                                                         *)
(* The client's n-th message is input n.  A stream is named by the number  *)
(* of the input that opened it, which tells it from the id (slot) it holds *)
(* for a while and that later streams take over.                           *)
(***************************************************************************)
EXTENDS Integers, Sequences, FiniteSets

CONSTANTS
    MaxReads,    \* bound: how many messages the client sends
    NumSlots,    \* len(S.streams), 16 in the code
    CmdCap,      \* cap(S.commands), 5 in the code
    OutCap,      \* cap(S.cmdOut), 5 in the code
    FrameCap,    \* cap(writeStream.frames), 5 in the code
    CancelCap,   \* cap(cancel) of a stream, 2 in the code
    TermCap,     \* cap(S.terminate), 3 in the code
    Ops,         \* the kinds of messages this client sends
    Faults       \* what the environment may do to the session

AllOps == {"ping", "gone", "quit", "read", "write", "copy", "close",
           "data", "end", "bad"}
AllFaults == {"hangup", "net", "open", "io", "timeout"}

ASSUME SizesAssumption ==
    /\ MaxReads \in Nat \ {0}
    /\ NumSlots \in Nat \ {0}
    /\ CmdCap \in Nat \ {0}
    /\ OutCap \in Nat \ {0}
    /\ FrameCap \in Nat \ {0}
    /\ CancelCap \in Nat \ {0}
    /\ TermCap \in Nat \ {0}

ASSUME ClientAssumption == Ops \subseteq AllOps /\ Faults \subseteq AllFaults

None  == 0
Objs  == 1 .. MaxReads
Slots == 0 .. NumSlots - 1

\* An entry of S.commands: a client's command, or an answer of the reader
\* under the marker OUT.  "slot" is the argument of CLOSE or a frame's tag.
Inputs   == {in \in [op : Ops, slot : Slots] :
               in.op \in {"close", "data", "end"} \/ in.slot = 0}
Commands == [n : Objs, op : AllOps \cup {"out"}, slot : Slots]

\* What the writer sends: an answer to input n, or (n = None) a frame of
\* stream obj.  "id" announces the stream obj, "closed" answers a CLOSE of
\* obj; "last" is the frame after which the stream sends no other.
Answers  == [n : Objs, kind : {"ok", "err", "id", "closed"},
             obj : Objs \cup {None}]
Frames   == [n : {None}, kind : {"chunk", "last"}, obj : Objs, buf : {0, 1}]
Messages == Answers \cup Frames

VARIABLES
    handle,       \* where session.Handle is
    terminate,    \* number of elements in S.terminate
    done,         \* S.done is closed
    wg,           \* the counter of S.waitGroup
    rpc, rcmd, robj, \* reader: where it is, what it is about to send, to whom
    commands,     \* S.commands
    kpc, kcmd, kans, \* worker: where it is, its command and its answer
    cmdOut, outClosed,   \* S.cmdOut
    wpc, wval,    \* writer: where it is and the value it writes
    streams,      \* S.streams
    streamCount,  \* S.streamCount
    spc, kind, slot,  \* per stream: where its goroutine is, its mode and id
    cancel, sdone,    \* per stream: its channels cancel and done
    frames,           \* per write stream: its channel frames
    sval,             \* per stream: the kind of frame it is sending
    tmp,              \* per stream: its temporary file
    cur,              \* per read stream: the buffer it filled last
    \* history, never read by an action's guard (nread bounds the inputs)
    nread,        \* number of inputs read
    quitAt,       \* the first QUIT read, or None
    replied,      \* the last input whose answer was written
    announced,    \* streams whose id was written to the client
    shut,         \* streams whose CLOSE was answered OK
    netFailed     \* a write to the connection failed

readerVars == <<rpc, rcmd, robj>>
workerVars == <<kpc, kcmd, kans>>
writerVars == <<wpc, wval>>
tableVars  == <<streams, streamCount>>
fileVars   == <<tmp, cur>>
streamVars == <<spc, kind, slot, cancel, sdone, frames, sval, fileVars>>
inHistory  == <<nread, quitAt>>
outHistory == <<replied, announced, shut, netFailed>>
history    == <<inHistory, outHistory>>
outVars    == <<cmdOut, outClosed>>

vars == <<handle, terminate, done, wg, readerVars, commands, workerVars,
          outVars, writerVars, tableVars, streamVars, history>>

NoCommand == [n |-> 1, op |-> "out", slot |-> 0]
Answer(n, k, o) == [n |-> n, kind |-> k, obj |-> o]
NoAnswer == Answer(1, "ok", None)
Frame(o) == [n |-> None, kind |-> sval[o], obj |-> o, buf |-> cur[o]]

-----------------------------------------------------------------------------
Init ==
    /\ handle = "await" /\ terminate = 0 /\ done = FALSE /\ wg = 0
    /\ rpc = "new" /\ rcmd = NoCommand /\ robj = None
    /\ commands = <<>>
    /\ kpc = "new" /\ kcmd = NoCommand /\ kans = NoAnswer
    /\ cmdOut = <<>> /\ outClosed = FALSE
    /\ wpc = "new" /\ wval = NoAnswer
    /\ streams = [i \in Slots |-> None] /\ streamCount = 0
    /\ spc = [o \in Objs |-> "none"]
    /\ kind = [o \in Objs |-> "read"]
    /\ slot = [o \in Objs |-> 0]
    /\ cancel = [o \in Objs |-> 0]
    /\ sdone = [o \in Objs |-> FALSE]
    /\ frames = [o \in Objs |-> <<>>]
    /\ sval = [o \in Objs |-> "last"]
    /\ tmp = [o \in Objs |-> "none"]
    /\ cur = [o \in Objs |-> 0]
    /\ nread = 0 /\ quitAt = None
    /\ replied = 0 /\ announced = {} /\ shut = {} /\ netFailed = FALSE

-----------------------------------------------------------------------------
(* session.Handle: wait for one terminate, close done, wait for the        *)
(* goroutines, close the connection.                                       *)

HandleTerminate ==
    /\ handle = "await" /\ terminate > 0
    /\ handle' = "close"
    /\ terminate' = terminate - 1
    /\ UNCHANGED <<done, wg, readerVars, commands, workerVars, outVars, writerVars, tableVars, streamVars, history>>

HandleCloseDone ==
    /\ handle = "close"
    /\ handle' = "wait"
    /\ done' = TRUE
    /\ UNCHANGED <<terminate, wg, readerVars, commands, workerVars, outVars, writerVars, tableVars, streamVars, history>>

\* WaitGroup.Wait returns at once on a zero counter, else it sleeps until a
\* Done makes the counter zero (WgDone wakes it).  Woken, it panics when the
\* counter is not zero any more: the group was reused before Wait returned.
HandleWait ==
    /\ \/ /\ handle = "wait"
          /\ handle' = IF wg = 0 THEN "closed" ELSE "sleep"
       \/ /\ handle = "woken"
          /\ handle' = IF wg = 0 THEN "closed" ELSE "panic"
    /\ UNCHANGED <<terminate, done, wg, readerVars, commands, workerVars,
                   outVars, writerVars, tableVars, streamVars,
                   history>>

WgAdd == wg' = wg + 1 /\ UNCHANGED handle

WgDone ==
    /\ wg' = wg - 1
    /\ handle' = IF wg = 1 /\ handle = "sleep" THEN "woken" ELSE handle

WgSame == UNCHANGED <<wg, handle>>

\* s.terminate <- struct{}{}
SendTerminate ==
    /\ terminate < TermCap
    /\ terminate' = terminate + 1

-----------------------------------------------------------------------------
(* The stream table.  Every operator is one critical section of streamLock. *)

getStream(id) == IF id \in Slots THEN streams[id] ELSE None

FreeSlots == {i \in Slots : streams[i] = None}

\* nextStreamId: the lowest free id
nextStreamId(i) == i \in FreeSlots /\ \A j \in FreeSlots : i <= j

\* New{Read,Write,Copy}Stream: a write stream has created its temporary file
\* by the time it takes the lock; register stream o under the lowest free id
\* and start its goroutine.
OpenStream(o, k) ==
    \E i \in Slots :
        /\ nextStreamId(i)
        /\ streams' = [streams EXCEPT ![i] = o]
        /\ streamCount' = streamCount + 1
        /\ spc' = [spc EXCEPT ![o] = "new"]
        /\ kind' = [kind EXCEPT ![o] = k]
        /\ slot' = [slot EXCEPT ![o] = i]
        /\ tmp' = [tmp EXCEPT ![o] = IF k = "write" THEN "open" ELSE @]
        /\ UNCHANGED <<cancel, sdone, frames, sval, cur>>

releaseStream(id) ==
    /\ streams' = [streams EXCEPT ![id] = None]
    /\ streamCount' = streamCount - 1

-----------------------------------------------------------------------------
(* The reader: handleReads. *)

\* (mutant) the reader does not count itself in the WaitGroup
ReaderStart_uncounted ==
    /\ rpc = "new"
    /\ rpc' = "check"
    /\ WgSame
    /\ UNCHANGED <<done, terminate, rcmd, robj, commands, workerVars, outVars,
                   writerVars, tableVars, streamVars, history>>

ReaderStart ==
    /\ rpc = "new"
    /\ rpc' = "check"
    /\ WgAdd
    /\ UNCHANGED <<done, terminate, rcmd, robj, commands, workerVars, outVars, writerVars, tableVars, streamVars, history>>

ReaderCheck ==
    /\ rpc = "check"
    /\ rpc' = IF done THEN "exit" ELSE "read"
    /\ WgSame
    /\ UNCHANGED <<done, terminate, rcmd, robj, commands, workerVars, outVars, writerVars, tableVars, streamVars, history>>

\* A message that needs an answer but runs no command: malformed input, or a
\* frame whose stream is closed or not open for writing.
Rejected(n, s) == [n |-> n, op |-> "out", slot |-> s]

\* reader.Read returns a message: handleCommand and handleStreamFrame up to
\* their channel send.  The lookup of a frame's stream is part of the step.
ReaderReads(in) ==
    LET n == nread + 1
        o == getStream(in.slot)
        isFrame == in.op \in {"data", "end"}
        accepted == isFrame /\ o # None /\ kind[o] = "write"
    IN  /\ rpc = "read" /\ nread < MaxReads
        /\ rpc' = IF accepted THEN "push" ELSE "enqueue"
        /\ robj' = IF accepted THEN o ELSE None
        /\ rcmd' = IF in.op = "bad" \/ (isFrame /\ ~accepted)
                   THEN Rejected(n, in.slot)
                   ELSE [n |-> n, op |-> in.op, slot |-> in.slot]
        /\ nread' = n
        /\ quitAt' = IF in.op = "quit" /\ quitAt = None THEN n ELSE quitAt
        /\ WgSame
        /\ UNCHANGED <<done, terminate, commands, workerVars, outVars, writerVars, tableVars, streamVars,
                       outHistory>>

\* The connection fails, the client hangs up or stays silent for 5 minutes.
ReaderFails ==
    /\ rpc = "read" /\ "hangup" \in Faults
    /\ rpc' = "term"
    /\ WgSame
    /\ UNCHANGED <<done, terminate, rcmd, robj, commands, workerVars, outVars, writerVars, tableVars, streamVars, history>>

\* (mutant) enqueueResponse sends straight to cmdOut
ReaderEnqueue_bypass ==
    /\ rpc = "enqueue"
    /\ IF rcmd.op = "out"
       THEN /\ Len(cmdOut) < OutCap
            /\ cmdOut' = Append(cmdOut, Answer(rcmd.n, "err", None))
            /\ UNCHANGED commands
       ELSE /\ Len(commands) < CmdCap
            /\ commands' = Append(commands, rcmd)
            /\ UNCHANGED cmdOut
    /\ rpc' = "check" /\ rcmd' = NoCommand
    /\ WgSame
    /\ UNCHANGED <<done, terminate, robj, workerVars, outClosed,
                   writerVars, tableVars, streamVars, history>>

\* s.commands <- array: no alternative on done, it may block for ever.
ReaderEnqueue ==
    /\ rpc = "enqueue" /\ Len(commands) < CmdCap
    /\ commands' = Append(commands, rcmd)
    /\ rpc' = "check" /\ rcmd' = NoCommand
    /\ WgSame
    /\ UNCHANGED <<done, terminate, robj, workerVars, outVars,
                   writerVars, tableVars, streamVars, history>>

\* (mutant) a frame is queued although the channel is full
ReaderPush_unbounded ==
    /\ rpc = "push"
    /\ frames' = [frames EXCEPT ![robj] = Append(@, rcmd.op)]
    /\ rpc' = "check" /\ rcmd' = NoCommand /\ robj' = None
    /\ WgSame
    /\ UNCHANGED <<done, terminate, commands, workerVars, outVars,
                   writerVars, tableVars, spc, kind, slot, cancel, sdone, sval,
                   fileVars, history>>

\* writeStream.frames <- frame: it may block for ever as well.
ReaderPush ==
    /\ rpc = "push" /\ Len(frames[robj]) < FrameCap
    /\ frames' = [frames EXCEPT ![robj] = Append(@, rcmd.op)]
    /\ rpc' = "check" /\ rcmd' = NoCommand /\ robj' = None
    /\ WgSame
    /\ UNCHANGED <<done, terminate, commands, workerVars, outVars, writerVars,
                   tableVars, spc, kind, slot, cancel, sdone, sval, fileVars,
                   history>>

ReaderTerminates ==
    /\ rpc = "term"
    /\ SendTerminate
    /\ rpc' = "exit"
    /\ WgSame
    /\ UNCHANGED <<done, rcmd, robj, commands, workerVars, outVars,
                   writerVars, tableVars, streamVars, history>>

ReaderExits ==
    /\ rpc = "exit"
    /\ rpc' = "end"
    /\ WgDone
    /\ UNCHANGED <<done, terminate, rcmd, robj, commands, workerVars, outVars, writerVars, tableVars, streamVars, history>>

-----------------------------------------------------------------------------
(* The worker: runCommands, with the commands it runs.                     *)

WorkerStart ==
    /\ kpc = "new"
    /\ kpc' = "check"
    /\ WgAdd
    /\ UNCHANGED <<done, terminate, readerVars, commands, kcmd, kans, outVars,
                   writerVars, tableVars, streamVars, history>>

WorkerCheck ==
    /\ kpc = "check"
    /\ kpc' = IF done THEN "exit" ELSE "select"
    /\ WgSame
    /\ UNCHANGED <<done, terminate, readerVars, commands, kcmd, kans, outVars,
                   writerVars, tableVars, streamVars, history>>

\* The blocking select.  With done closed and a command waiting, both
\* WorkerSeesDone and WorkerTakes are possible: Go picks at random.
WorkerSeesDone ==
    /\ kpc = "select" /\ done
    /\ kpc' = "exit"
    /\ WgSame
    /\ UNCHANGED <<done, terminate, readerVars, commands, kcmd, kans, outVars,
                   writerVars, tableVars, streamVars, history>>

\* (mutant) the command is read but stays in the channel
WorkerTakes_peeks ==
    /\ kpc = "select" /\ commands # <<>>
    /\ kcmd' = Head(commands)
    /\ kpc' = IF kcmd'.op \in {"out", "quit"} THEN "reply" ELSE "run"
    /\ kans' = Answer(kcmd'.n, IF kcmd'.op = "out" THEN "err" ELSE "ok", None)
    /\ WgSame
    /\ UNCHANGED <<done, terminate, readerVars, commands, outVars, writerVars,
                   tableVars, streamVars, history>>

WorkerTakes ==
    /\ kpc = "select" /\ commands # <<>>
    /\ commands' = Tail(commands)
    /\ kcmd' = Head(commands)
    /\ kpc' = IF kcmd'.op \in {"out", "quit"} THEN "reply" ELSE "run"
    /\ kans' = Answer(kcmd'.n, IF kcmd'.op = "out" THEN "err" ELSE "ok", None)
    /\ WgSame
    /\ UNCHANGED <<done, terminate, readerVars, outVars, writerVars,
                   tableVars, streamVars, history>>

\* The handler answers and does nothing to the session: PING and the like, a
\* STREAM or COPY refused before the table is touched, CLOSE of a free id.
RunAnswer ==
    /\ kpc = "run"
    /\ \/ kcmd.op = "ping" /\ UNCHANGED kans
       \/ /\ kcmd.op \in {"read", "write", "copy"} /\ "open" \in Faults
          /\ kans' = Answer(kcmd.n, "err", None)
       \/ /\ kcmd.op = "close" /\ getStream(kcmd.slot) = None
          /\ kans' = Answer(kcmd.n, "err", None)
    /\ kpc' = "reply"
    /\ WgSame
    /\ UNCHANGED <<done, terminate, readerVars, commands, kcmd, outVars,
                   writerVars, tableVars, streamVars, history>>

\* AUTH TOK of a user that was removed: changeUser calls S.Terminate and the
\* handler answers all the same.
RunTerminate ==
    /\ kpc = "run" /\ kcmd.op = "gone"
    /\ SendTerminate
    /\ kpc' = "reply"
    /\ WgSame
    /\ UNCHANGED <<done, readerVars, commands, kcmd, kans, outVars,
                   writerVars, tableVars, streamVars, history>>

\* STREAM R, STREAM W and COPY with a free id.
RunOpen ==
    /\ kpc = "run" /\ kcmd.op \in {"read", "write", "copy"}
    /\ OpenStream(kcmd.n, kcmd.op)
    /\ kans' = Answer(kcmd.n, "id", kcmd.n)
    /\ kpc' = "reply"
    /\ WgSame
    /\ UNCHANGED <<done, terminate, readerVars, commands, kcmd, outVars,
                   writerVars, history>>

\* ... and with the table full: TOOMANY, but a STREAM W has created its
\* temporary file, and handleCopy tests the wrong error and answers COPY with
\* the id 0.
RunTooMany ==
    /\ kpc = "run" /\ kcmd.op \in {"read", "write", "copy"}
    /\ FreeSlots = {}
    /\ kans' = Answer(kcmd.n, IF kcmd.op = "copy" THEN "id" ELSE "err", None)
    /\ tmp' = [tmp EXCEPT ![kcmd.n] = IF kcmd.op = "write" THEN "left" ELSE @]
    /\ kpc' = "reply"
    /\ WgSame
    /\ UNCHANGED <<done, terminate, readerVars, commands, kcmd, outVars,
                   writerVars, tableVars, spc, kind, slot, cancel, sdone,
                   frames, sval, cur, history>>

\* (mutant) CloseStream also takes the stream out of the table
RunClose_releases ==
    /\ kpc = "run" /\ kcmd.op = "close"
    /\ getStream(kcmd.slot) # None
    /\ kans' = Answer(kcmd.n, "closed", getStream(kcmd.slot))
    /\ releaseStream(kcmd.slot)
    /\ kpc' = "cancel"
    /\ WgSame
    /\ UNCHANGED <<done, terminate, readerVars, commands, kcmd, outVars,
                   writerVars, streamVars, history>>

\* CLOSE of a live id: getStream, then (lock released) cancel <- and <-done.
RunClose ==
    /\ kpc = "run" /\ kcmd.op = "close"
    /\ getStream(kcmd.slot) # None
    /\ kans' = Answer(kcmd.n, "closed", getStream(kcmd.slot))
    /\ kpc' = "cancel"
    /\ WgSame
    /\ UNCHANGED <<done, terminate, readerVars, commands, kcmd, outVars,
                   writerVars, tableVars, streamVars, history>>

\* (mutant) close() does not wait for the stream
WorkerCancels_noWait ==
    /\ kpc = "cancel" /\ cancel[kans.obj] < CancelCap
    /\ cancel' = [cancel EXCEPT ![kans.obj] = @ + 1]
    /\ kpc' = "reply"
    /\ WgSame
    /\ UNCHANGED <<done, terminate, readerVars, commands, kcmd, kans, outVars,
                   writerVars, tableVars, spc, kind, slot, sdone, frames,
                   sval, fileVars, history>>

WorkerCancels ==
    /\ kpc = "cancel" /\ cancel[kans.obj] < CancelCap
    /\ cancel' = [cancel EXCEPT ![kans.obj] = @ + 1]
    /\ kpc' = "await"
    /\ WgSame
    /\ UNCHANGED <<done, terminate, readerVars, commands, kcmd, kans, outVars,
                   writerVars, tableVars, spc, kind, slot, sdone, frames,
                   sval, fileVars, history>>

WorkerAwaits ==
    /\ kpc = "await" /\ sdone[kans.obj]
    /\ kpc' = "reply"
    /\ WgSame
    /\ UNCHANGED <<done, terminate, readerVars, commands, kcmd, kans, outVars,
                   writerVars, tableVars, streamVars, history>>

\* s.cmdOut <- response
WorkerReplies ==
    /\ kpc = "reply" /\ Len(cmdOut) < OutCap
    /\ cmdOut' = Append(cmdOut, kans)
    /\ kpc' = IF kcmd.op = "quit" THEN "closeout" ELSE "check"
    /\ kcmd' = NoCommand /\ kans' = NoAnswer
    /\ WgSame
    /\ UNCHANGED <<done, terminate, readerVars, commands, outClosed,
                   writerVars, tableVars, streamVars, history>>

WorkerClosesOut ==
    /\ kpc = "closeout"
    /\ outClosed' = TRUE
    /\ kpc' = "exit"
    /\ WgSame
    /\ UNCHANGED <<done, terminate, readerVars, commands, kcmd, kans, cmdOut,
                   writerVars, tableVars, streamVars, history>>

WorkerExits ==
    /\ kpc = "exit"
    /\ kpc' = "end"
    /\ WgDone
    /\ UNCHANGED <<done, terminate, readerVars, commands, kcmd, kans, outVars,
                   writerVars, tableVars, streamVars, history>>

-----------------------------------------------------------------------------
(* The writer: handleWrites and handleWrite.                               *)

WriterStart ==
    /\ wpc = "new"
    /\ wpc' = "check"
    /\ WgAdd
    /\ UNCHANGED <<done, terminate, readerVars, commands, workerVars, outVars,
                   wval, tableVars, streamVars, history>>

WriterCheck ==
    /\ wpc = "check"
    /\ wpc' = IF done THEN "exit" ELSE "poll"
    /\ WgSame
    /\ UNCHANGED <<done, terminate, readerVars, commands, workerVars, outVars,
                   wval, tableVars, streamVars, history>>

\* Both receives from cmdOut: the one that gives answers priority over frames
\* ("poll", does not block) and the one of the blocking select.
WriterTakesAnswer ==
    /\ wpc \in {"poll", "select"} /\ cmdOut # <<>>
    /\ wval' = Head(cmdOut)
    /\ cmdOut' = Tail(cmdOut)
    /\ wpc' = "write"
    /\ WgSame
    /\ UNCHANGED <<done, terminate, readerVars, commands, workerVars,
                   outClosed, tableVars, streamVars, history>>

\* (mutant) the writer stops as soon as cmdOut is closed
WriterDrained_early ==
    /\ wpc \in {"poll", "select"} /\ outClosed
    /\ wpc' = "term"
    /\ WgSame
    /\ UNCHANGED <<done, terminate, readerVars, commands, workerVars, outVars,
                   wval, tableVars, streamVars, history>>

WriterDrained ==
    /\ wpc \in {"poll", "select"} /\ cmdOut = <<>> /\ outClosed
    /\ wpc' = "term"
    /\ WgSame
    /\ UNCHANGED <<done, terminate, readerVars, commands, workerVars, outVars,
                   wval, tableVars, streamVars, history>>

WriterFindsNoAnswer ==
    /\ wpc = "poll" /\ cmdOut = <<>> /\ ~outClosed
    /\ wpc' = "select"
    /\ WgSame
    /\ UNCHANGED <<done, terminate, readerVars, commands, workerVars, outVars,
                   wval, tableVars, streamVars, history>>

WriterSeesDone ==
    /\ wpc = "select" /\ done
    /\ wpc' = "exit"
    /\ WgSame
    /\ UNCHANGED <<done, terminate, readerVars, commands, workerVars, outVars,
                   wval, tableVars, streamVars, history>>

\* dataOut has no buffer: the stream's send and the writer's receive are one
\* step, after which the stream goes on and the writer holds the frame.
WriterTakesFrame(o) ==
    /\ wpc = "select" /\ spc[o] = "send"
    /\ wval' = Frame(o)
    /\ wpc' = "write"
    /\ spc' = [spc EXCEPT ![o] = IF sval[o] = "chunk" THEN "check"
                                                      ELSE "unwind"]
    /\ sval' = [sval EXCEPT ![o] = "last"]
    /\ WgSame
    /\ UNCHANGED <<done, terminate, readerVars, commands, workerVars, outVars,
                   tableVars, kind, slot, cancel, sdone, frames, fileVars,
                   history>>

\* val.WriteTo(conn) succeeds: the client has the message.
WriterWrites ==
    /\ wpc = "write"
    /\ wpc' = "check" /\ wval' = NoAnswer
    /\ replied' = IF wval \in Answers THEN wval.n ELSE replied
    /\ announced' = announced \cup
                    {o \in Objs : wval.kind = "id" /\ wval.obj = o}
    /\ shut' = shut \cup {o \in Objs : wval.kind = "closed" /\ wval.obj = o}
    /\ WgSame
    /\ UNCHANGED <<done, terminate, readerVars, commands, workerVars, outVars,
                   tableVars, streamVars, inHistory, netFailed>>

WriterFails ==
    /\ wpc = "write" /\ "net" \in Faults
    /\ wpc' = "term" /\ wval' = NoAnswer
    /\ netFailed' = TRUE
    /\ WgSame
    /\ UNCHANGED <<done, terminate, readerVars, commands, workerVars, outVars,
                   tableVars, streamVars, inHistory, replied,
                   announced, shut>>

WriterTerminates ==
    /\ wpc = "term"
    /\ SendTerminate
    /\ wpc' = "exit"
    /\ WgSame
    /\ UNCHANGED <<done, readerVars, commands, workerVars, outVars, wval,
                   tableVars, streamVars, history>>

WriterExits ==
    /\ wpc = "exit"
    /\ wpc' = "end"
    /\ WgDone
    /\ UNCHANGED <<done, terminate, readerVars, commands, workerVars, outVars,
                   wval, tableVars, streamVars, history>>

-----------------------------------------------------------------------------
(* The streams: handleReadStream, handleWriteStream, handleCopyStream.     *)
(* A stream that returns runs its deferred calls in the order Done         *)
(* ("unwind"), close(done) ("signal"), releaseStream ("release").          *)

\* A step of stream o that only moves its goroutine to "to".
StreamGoes(o, to) ==
    /\ spc' = [spc EXCEPT ![o] = to]
    /\ UNCHANGED <<done, terminate, readerVars, commands, workerVars, outVars,
                   writerVars, kind, slot, history>>

\* The temporary file becomes f.
FileBecomes(o, f) == tmp' = [tmp EXCEPT ![o] = f] /\ UNCHANGED cur

\* cancelWriteStream, cancelCopyStream; a read stream has no temporary file.
DropFile(o) == FileBecomes(o, IF tmp[o] = "open" THEN "removed" ELSE tmp[o])

\* Stream o is about to send its last frame: null, or an error.
SendsLast(o) ==
    /\ StreamGoes(o, "send")
    /\ sval' = [sval EXCEPT ![o] = "last"]

\* The goroutine's first step; a COPY also opens its source and creates its
\* temporary file.
StreamStart(o) ==
    /\ spc[o] = "new"
    /\ WgAdd
    /\ \/ /\ StreamGoes(o, "check") /\ UNCHANGED sval
          /\ FileBecomes(o, IF kind[o] = "copy" THEN "open" ELSE tmp[o])
       \/ /\ kind[o] = "copy" /\ "io" \in Faults
          /\ SendsLast(o)
          /\ UNCHANGED fileVars
    /\ UNCHANGED <<tableVars, cancel, sdone, frames>>

\* The selects at the top of the loop; "select" is the second one of a write
\* stream.  Whatever is ready may be picked.
StreamSeesDone(o) ==
    /\ spc[o] \in {"check", "select"} /\ done
    /\ StreamGoes(o, "unwind")
    /\ DropFile(o)
    /\ WgSame /\ UNCHANGED <<tableVars, cancel, sdone, frames, sval>>

\* (mutant) a cancelled stream keeps its temporary file
StreamCancelled_keepsFile(o) ==
    /\ spc[o] \in {"check", "select"} /\ cancel[o] > 0
    /\ cancel' = [cancel EXCEPT ![o] = @ - 1]
    /\ StreamGoes(o, "unwind")
    /\ WgSame /\ UNCHANGED <<tableVars, sdone, frames, sval, fileVars>>

StreamCancelled(o) ==
    /\ spc[o] \in {"check", "select"} /\ cancel[o] > 0
    /\ cancel' = [cancel EXCEPT ![o] = @ - 1]
    /\ StreamGoes(o, "unwind")
    /\ DropFile(o)
    /\ WgSame /\ UNCHANGED <<tableVars, sdone, frames, sval>>

\* (mutant) handleTimeout closes the channel done before it sends its frame
StreamTimesOut_signalsFirst(o) ==
    /\ spc[o] \in {"check", "select"}
    /\ kind[o] = "write" /\ "timeout" \in Faults
    /\ SendsLast(o)
    /\ DropFile(o)
    /\ sdone' = [sdone EXCEPT ![o] = TRUE]
    /\ WgSame /\ UNCHANGED <<tableVars, cancel, frames>>

\* The watchdog of a write stream fires: handleTimeout sends an error frame.
StreamTimesOut(o) ==
    /\ spc[o] \in {"check", "select"}
    /\ kind[o] = "write" /\ "timeout" \in Faults
    /\ SendsLast(o)
    /\ DropFile(o)
    /\ WgSame /\ UNCHANGED <<tableVars, cancel, sdone, frames>>

\* (mutant) the check at the top of the loop does not look at cancel
Uninterrupted_blind(o) == spc[o] = "check" /\ ~done

Uninterrupted(o) == spc[o] = "check" /\ ~done /\ cancel[o] = 0

\* (mutant) a read stream gives its id back before it sends its last frame
StreamReadsFile_releases(o) ==
    /\ Uninterrupted(o) /\ kind[o] = "read"
    /\ StreamGoes(o, "send")
    /\ cur' = [cur EXCEPT ![o] = 1 - @] /\ UNCHANGED tmp
    /\ \E k \in {"chunk", "last"} :
          /\ sval' = [sval EXCEPT ![o] = k]
          /\ IF k = "last" THEN releaseStream(slot[o]) ELSE UNCHANGED tableVars
    /\ WgSame /\ UNCHANGED <<cancel, sdone, frames>>

\* (mutant) a read stream has one buffer
StreamReadsFile_oneBuffer(o) ==
    /\ Uninterrupted(o) /\ kind[o] = "read"
    /\ StreamGoes(o, "send")
    /\ \E k \in {"chunk", "last"} : sval' = [sval EXCEPT ![o] = k]
    /\ WgSame /\ UNCHANGED <<tableVars, cancel, sdone, frames, fileVars>>

\* A read stream reads a block into its other buffer: more data, or (end of
\* file, error) the end.
StreamReadsFile(o) ==
    /\ Uninterrupted(o) /\ kind[o] = "read"
    /\ StreamGoes(o, "send")
    /\ cur' = [cur EXCEPT ![o] = 1 - @] /\ UNCHANGED tmp
    /\ \E k \in {"chunk", "last"} : sval' = [sval EXCEPT ![o] = k]
    /\ WgSame /\ UNCHANGED <<tableVars, cancel, sdone, frames>>

\* A copy stream copies a block.  After the last one it closes its temporary
\* file and goes on to rename it; the blocks before it are stuttering steps.
\* When io.CopyBuffer fails it sends an error frame and returns: it neither
\* closes the temporary file nor removes it.
StreamCopies(o) ==
    /\ Uninterrupted(o) /\ kind[o] = "copy"
    /\ \/ StreamGoes(o, "rename") /\ UNCHANGED <<sval, fileVars>>
       \/ /\ "io" \in Faults
          /\ SendsLast(o)
          /\ FileBecomes(o, "leaked")
    /\ WgSame /\ UNCHANGED <<tableVars, cancel, sdone, frames>>

\* (mutant) the loop goes on after the rename
StreamRenames_goesOn(o) ==
    /\ spc[o] = "rename"
    /\ \/ StreamGoes(o, "check") /\ FileBecomes(o, "stored") /\ UNCHANGED sval
       \/ "io" \in Faults /\ SendsLast(o) /\ FileBecomes(o, "left")
    /\ WgSame /\ UNCHANGED <<tableVars, cancel, sdone, frames>>

\* os.Rename of the copy; a CLOSE or a done that comes now is too late.
StreamRenames(o) ==
    /\ spc[o] = "rename"
    /\ SendsLast(o)
    /\ \/ FileBecomes(o, "stored")
       \/ "io" \in Faults /\ FileBecomes(o, "left")
    /\ WgSame /\ UNCHANGED <<tableVars, cancel, sdone, frames>>

StreamListens(o) ==
    /\ Uninterrupted(o) /\ kind[o] = "write"
    /\ StreamGoes(o, "select")
    /\ WgSame /\ UNCHANGED <<tableVars, cancel, sdone, frames, sval, fileVars>>

\* handleChunk; an error removes the file and ends the stream.
WritesChunk(o) ==
    \/ StreamGoes(o, "check") /\ UNCHANGED <<sval, fileVars>>
    \/ /\ "io" \in Faults
       /\ SendsLast(o)
       /\ DropFile(o)

\* finishWriteStream: renaming sends nothing; when it fails the temporary file
\* stays, and an error frame is sent.
FinishesFile(o) ==
    \/ /\ StreamGoes(o, "unwind")
       /\ FileBecomes(o, "stored")
       /\ UNCHANGED sval
    \/ /\ "io" \in Faults
       /\ SendsLast(o)
       /\ FileBecomes(o, "left")

\* A write stream takes a frame.
StreamTakesFrame(o) ==
    /\ spc[o] = "select" /\ frames[o] # <<>>
    /\ frames' = [frames EXCEPT ![o] = Tail(@)]
    /\ IF Head(frames[o]) = "data" THEN WritesChunk(o) ELSE FinishesFile(o)
    /\ WgSame /\ UNCHANGED <<tableVars, cancel, sdone>>

\* (mutant) the stream does not call waitGroup.Done
StreamUnwinds_noDone(o) ==
    /\ spc[o] = "unwind"
    /\ StreamGoes(o, "signal")
    /\ WgSame
    /\ UNCHANGED <<tableVars, cancel, sdone, frames, sval, fileVars>>

StreamUnwinds(o) ==
    /\ spc[o] = "unwind"
    /\ StreamGoes(o, "signal")
    /\ WgDone
    /\ UNCHANGED <<tableVars, cancel, sdone, frames, sval, fileVars>>

\* (mutant) nothing closes the channel done
StreamSignals_silent(o) ==
    /\ spc[o] = "signal"
    /\ StreamGoes(o, "release")
    /\ WgSame
    /\ UNCHANGED <<tableVars, cancel, sdone, frames, sval, fileVars>>

StreamSignals(o) ==
    /\ spc[o] = "signal"
    /\ StreamGoes(o, "release")
    /\ sdone' = [sdone EXCEPT ![o] = TRUE]
    /\ WgSame /\ UNCHANGED <<tableVars, cancel, frames, sval, fileVars>>

\* What the goroutine knew is gone with it, but not its temporary file.
StreamReleases(o) ==
    /\ spc[o] = "release"
    /\ spc' = [spc EXCEPT ![o] = "gone"]
    /\ releaseStream(slot[o])
    /\ kind' = [kind EXCEPT ![o] = "read"]
    /\ cur' = [cur EXCEPT ![o] = 0]
    /\ WgSame
    /\ UNCHANGED <<done, terminate, readerVars, commands, workerVars, outVars,
                   writerVars, slot, cancel, sdone, frames, sval, tmp, history>>

-----------------------------------------------------------------------------
Handle == HandleTerminate \/ HandleCloseDone \/ HandleWait

ReaderReadsAny == \E in \in Inputs : ReaderReads(in)

Reader ==
    \/ ReaderStart \/ ReaderCheck \/ ReaderReadsAny \/ ReaderFails
    \/ ReaderEnqueue \/ ReaderPush \/ ReaderTerminates \/ ReaderExits

Worker ==
    \/ WorkerStart \/ WorkerCheck \/ WorkerSeesDone \/ WorkerTakes
    \/ RunAnswer \/ RunTerminate \/ RunOpen \/ RunTooMany \/ RunClose
    \/ WorkerCancels \/ WorkerAwaits \/ WorkerReplies \/ WorkerClosesOut
    \/ WorkerExits

Writer ==
    \/ WriterStart \/ WriterCheck \/ WriterTakesAnswer \/ WriterDrained
    \/ WriterFindsNoAnswer \/ WriterSeesDone
    \/ \E o \in Objs : WriterTakesFrame(o)
    \/ WriterWrites \/ WriterFails \/ WriterTerminates \/ WriterExits

Stream(o) ==
    \/ StreamStart(o) \/ StreamSeesDone(o) \/ StreamCancelled(o)
    \/ StreamTimesOut(o) \/ StreamReadsFile(o) \/ StreamCopies(o)
    \/ StreamRenames(o) \/ StreamListens(o) \/ StreamTakesFrame(o) \/ StreamUnwinds(o)
    \/ StreamSignals(o) \/ StreamReleases(o)

\* A panic in any goroutine ends the process.
Running == handle # "panic"

Next == Running /\ (Handle \/ Reader \/ Worker \/ Writer
                      \/ \E o \in Objs : Stream(o))

Spec == Init /\ [][Next]_vars

-----------------------------------------------------------------------------
(* Fairness.  Every goroutine that can run eventually runs (Go's scheduler),
   and a sender on dataOut waits in a first-in first-out queue, so a writer
   that keeps receiving reaches every one.  The client need not send anything:
   ReaderFails is fair because every Read has a deadline of five minutes.  It
   is assumed to take what it is sent, or to break the connection: WriteTo has
   no deadline.  A file or a copy may take for ever, but a read or a copy that
   was cancelled notices.                                                   *)

ReaderSteps ==
    ReaderStart \/ ReaderCheck \/ ReaderEnqueue \/ ReaderPush
    \/ ReaderTerminates \/ ReaderExits

Fairness ==
    /\ WF_vars(Running /\ Handle)
    /\ WF_vars(Running /\ ReaderSteps)
    /\ WF_vars(Running /\ ReaderFails)
    /\ WF_vars(Running /\ Worker)
    /\ WF_vars(Running /\ Writer)
    /\ \A o \in Objs : /\ WF_vars(Running /\ Stream(o))
                       /\ SF_vars(Running /\ WriterTakesFrame(o))

FairSpec == Spec /\ Fairness

-----------------------------------------------------------------------------
(* Invariants *)

HandleTypeOK ==
    /\ handle \in {"await", "close", "wait", "sleep", "woken", "closed",
                   "panic"}
    /\ terminate \in 0 .. TermCap
    /\ done \in BOOLEAN
    /\ wg \in Int

ReaderTypeOK ==
    /\ rpc \in {"new", "check", "read", "enqueue", "push", "term", "exit",
                "end"}
    /\ rcmd \in Commands /\ robj \in Objs \cup {None}
    /\ rpc = "push" => robj \in Objs /\ rcmd.op \in {"data", "end"}
    /\ commands \in Seq(Commands) /\ Len(commands) <= CmdCap

WorkerTypeOK ==
    /\ kpc \in {"new", "check", "select", "run", "cancel", "await", "reply",
                "closeout", "exit", "end"}
    /\ kcmd \in Commands /\ kans \in Answers
    /\ kpc \in {"cancel", "await"} => kans.obj \in Objs
    /\ cmdOut \in Seq(Answers) /\ Len(cmdOut) <= OutCap
    /\ outClosed \in BOOLEAN

WriterTypeOK ==
    /\ wpc \in {"new", "check", "poll", "select", "write", "term", "exit",
                "end"}
    /\ wval \in Messages

StreamTypeOK ==
    /\ streams \in [Slots -> Objs \cup {None}]
    /\ streamCount \in Int
    /\ spc \in [Objs -> {"none", "new", "check", "send", "select", "rename",
                         "unwind", "signal", "release", "gone"}]
    /\ kind \in [Objs -> {"read", "write", "copy"}]
    /\ slot \in [Objs -> Slots]
    /\ cancel \in [Objs -> 0 .. CancelCap]
    /\ sdone \in [Objs -> BOOLEAN]
    /\ frames \in [Objs -> Seq({"data", "end"})]
    /\ \A o \in Objs : Len(frames[o]) <= FrameCap
    /\ sval \in [Objs -> {"chunk", "last"}]
    /\ tmp \in [Objs -> {"none", "open", "removed", "stored", "left",
                         "leaked"}]
    /\ cur \in [Objs -> {0, 1}]

HistoryTypeOK ==
    /\ nread \in 0 .. MaxReads /\ quitAt \in Objs \cup {None}
    /\ replied \in 0 .. MaxReads
    /\ announced \in SUBSET Objs /\ shut \in SUBSET Objs
    /\ netFailed \in BOOLEAN

\* Every variable holds values of its kind, no channel holds more than its
\* capacity, and the reader and the worker hold a stream when they use one.
TypeOK ==
    /\ HandleTypeOK /\ ReaderTypeOK /\ WorkerTypeOK
    /\ WriterTypeOK /\ StreamTypeOK /\ HistoryTypeOK

\* session.Handle closes the connection only when no goroutine can touch it
\* any more: not the reader in Read, not the writer in WriteTo, even when
\* they were started late (each counts itself in waitGroup).
ConnOpenWhileUsed == handle = "closed" => rpc # "read" /\ wpc # "write"

\* The goroutines that waitGroup counts: the started ones that did not call
\* Done yet.
Counted(pc) == IF pc \in {"new", "end"} THEN 0 ELSE 1
CountedStreams ==
    {o \in Objs : spc[o] \in {"check", "send", "select", "rename", "unwind"}}

WgCounts == wg = Counted(rpc) + Counted(kpc) + Counted(wpc)
                 + Cardinality(CountedStreams)

\* Why the connection is safe: waitGroup counts the started goroutines, Wait
\* comes after close(done), and a goroutine that starts after Wait returned
\* sees done before it does anything else.
WaitCoversGoroutines ==
    /\ WgCounts
    /\ handle \notin {"await", "close"} => done
    /\ handle = "closed" => {rpc, wpc} \subseteq {"new", "check", "exit", "end"}

\* Every message that was read is in one place (reader, commands, worker),
\* the places hold them in the order they were sent, and a command opens its
\* stream only once it is run.
MessagesInOrder ==
    /\ \A o \in Objs : o > nread => spc[o] = "none"
    /\ \A i \in 1 .. Len(commands) : /\ commands[i].n <= nread
                                     /\ spc[commands[i].n] = "none"
    /\ \A i, j \in 1 .. Len(commands) : i < j => commands[i].n < commands[j].n
    /\ rpc = "enqueue" =>
         /\ rcmd.n = nread /\ spc[nread] = "none"
         /\ \A i \in 1 .. Len(commands) : commands[i].n < nread
    /\ kpc = "run" =>
         /\ kcmd.n <= nread /\ spc[kcmd.n] = "none"
         /\ \A i \in 1 .. Len(commands) : kcmd.n < commands[i].n
         /\ rpc = "enqueue" => kcmd.n < nread

\* A stream from its registration until releaseStream.
Live(o) == spc[o] \notin {"none", "gone"}

\* The table says exactly which streams live, each under the id it was given
\* and no two under one id, and streamCount counts them.
TableMatchesStreams ==
    /\ \A o \in Objs : Live(o) => streams[slot[o]] = o
    /\ \A i \in Slots : streams[i] # None => /\ Live(streams[i])
                                             /\ slot[streams[i]] = i
    /\ streamCount = Cardinality({o \in Objs : Live(o)})

\* Stream o may still put a frame on the wire.
MaySend(o) ==
    \/ spc[o] \in {"new", "check", "send", "select", "rename"}
    \/ wpc = "write" /\ wval \in Frames /\ wval.obj = o

\* Once the client was told that an id names a new stream, no frame of an
\* older stream with that id can reach it (dataOut is unbuffered, and a
\* stream gives its id back after its last frame was taken).
ReusedIdIsQuiet ==
    \A o \in Objs, p \in announced :
        spc[o] # "none" /\ o < p /\ slot[o] = slot[p] => ~MaySend(o)

\* Once CLOSE was answered OK, the stream sends nothing any more.
ClosedStreamIsQuiet == \A o \in shut : ~MaySend(o)

\* The goroutine of stream o has a temporary file to work on.
HasFile(o) ==
    \/ kind[o] = "write" /\ spc[o] \in {"new", "check", "select"}
    \/ kind[o] = "copy" /\ spc[o] \in {"check", "rename"}

\* A stream works on its temporary file as long as the file is open and was not
\* renamed or removed, and a goroutine that is done with its file has stored
\* it, removed it or failed to rename it, with one exception: a copy that
\* could not read or write a block leaves the file open where it is (leaked).
\* (A refused STREAM W closes its file and leaves it, as a failed rename does.)
TempFilesOwned ==
    \A o \in Objs :
        /\ tmp[o] = "open" <=> HasFile(o)
        /\ tmp[o] = "leaked" =>
             \/ kind[o] = "copy" /\ spc[o] # "rename"
             \/ spc[o] = "gone"

\* session.go: "dataOut must be blocking! (handleReadStream assumes this)".
\* A read stream never reads into the buffer of a block that the writer is
\* still sending, though it goes on as soon as the writer has taken the block.
Sending(o) == wpc = "write" /\ wval.kind = "chunk" /\ wval.obj = o

BuffersIntact ==
    [][\A o \in Objs :
        kind[o] = "read" /\ spc[o] = "check" /\ spc'[o] = "send" =>
            ~(Sending(o) /\ wval.buf = cur'[o])]_vars

\* A destination is replaced only by a stream that still counts: not after its
\* CLOSE was answered, not after its id was announced for another stream, and
\* not after Handle closed the connection.
NothingStoredLate ==
    [][\A o \in Objs :
        tmp[o] # "stored" /\ tmp'[o] = "stored" =>
            /\ handle # "closed" /\ o \notin shut
            /\ \A p \in announced : o < p => slot[o] # slot[p]]_vars

\* A QUIT is the last message served: nothing sent after it is run or
\* answered, and the writer ends the session only after it wrote the answers
\* of everything before, QUIT included (unless the connection failed).
QuitIsLast ==
    /\ quitAt # None => kcmd.n <= quitAt /\ replied <= quitAt
    /\ wpc = "term" /\ ~netFailed => quitAt # None /\ replied = quitAt

-----------------------------------------------------------------------------
(* Refinement: the answers are a pipeline.                                 *)

numbers(q) == [i \in 1 .. Len(q) |-> q[i].n]

Owed ==
    (IF wpc = "write" /\ wval \in Answers THEN <<wval.n>> ELSE <<>>)
    \o numbers(cmdOut)
    \o (IF kpc \in {"run", "cancel", "await", "reply"} THEN <<kcmd.n>>
                                                       ELSE <<>>)
    \o numbers(commands)
    \o (IF rpc = "enqueue" THEN <<rcmd.n>> ELSE <<>>)

Pipe == INSTANCE Pipeline
        WITH received <- nread, owed <- Owed, final <- quitAt,
             broken <- (wpc \in {"term", "exit", "end"})

\* The five places a message can be in (reader, commands, worker, cmdOut,
\* writer) act as one first-in first-out queue, also for the answers of
\* malformed messages and refused frames, which take the way of the commands.
AnswersInOrder == Pipe!Spec

-----------------------------------------------------------------------------
(* Liveness *)

\* Message n was read and asks for an answer.
Unanswered(n) == rpc = "enqueue" /\ rcmd.n = n

\* The worker is in CLOSE and its send to cancel can never go on: the stream
\* is gone and took none of the earlier ones.
CloseIsStuck ==
    kpc = "cancel" /\ cancel[kans.obj] = CancelCap /\ spc[kans.obj] = "gone"

\* A message that asks for an answer gets it, unless a QUIT came before it or
\* a CLOSE has stopped the worker for ever.  Full channels, stream ends and
\* everything else that the goroutines wait for only delay the answer.  (For a
\* session that nothing ends: no hangup, no write error, no AUTH TOK of a
\* removed user.)
EveryMessageAnswered ==
    \A n \in Objs :
        Unanswered(n) ~> \/ replied >= n
                         \/ quitAt # None /\ quitAt < n
                         \/ CloseIsStuck

\* A goroutine waits for ever: it sends on a channel nobody will receive from
\* again, without an alternative on done.
Stranded ==
    \/ \E o \in Objs : spc[o] = "send" /\ wpc = "end"
    \/ rpc = "enqueue" /\ Len(commands) = CmdCap /\ kpc = "end"
    \/ rpc = "push" /\ Len(frames[robj]) = FrameCap /\ spc[robj] = "gone"
    \/ kpc = "reply" /\ Len(cmdOut) = OutCap /\ wpc = "end"
    \/ CloseIsStuck
    \/ /\ terminate = TermCap /\ handle # "await"
       /\ "term" \in {rpc, wpc} \/ (kpc = "run" /\ kcmd.op = "gone")

\* A session told to end closes its connection, or one of its goroutines is
\* stranded in one of the ways above: there is no other way to hang.  (A
\* panic of the WaitGroup ends the whole process, see HandleWait.)
SessionEnds ==
    (handle = "close") ~> (handle \in {"closed", "panic"} \/ Stranded)

\* A stream that was cancelled is released, and its id is free again.
CancelledIsReleased ==
    \A o \in Objs : (cancel[o] > 0) ~> (spc[o] = "gone")
=============================================================================
