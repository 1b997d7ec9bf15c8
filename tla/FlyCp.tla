-------------------------------- MODULE FlyCp -------------------------------
(***************************************************************************)
(* The client fly cp (cmd/fly/fly-cp.go) at work with a session: an upload *)
(* or a download of one file.  The server side is the module Session, step *)
(* by step; this module adds the client, the two directions of the TCP     *)
(* connection, and the blocks of the file.                                 *)
(*                                                                         *)
(* upload: LIST of the destination, STREAM W, one frame per block, a null  *)
(* frame, then LIST until it finds the file.  download: LIST of the        *)
(* source, STREAM R, then frames up to the null frame.                     *)
(*                                                                         *)
(* The session's "ping" stands for LIST.  The network loses nothing, and   *)
(* the connection breaks when the client exits.                            *)
(***************************************************************************)
EXTENDS Session

CONSTANTS
    Blocks,     \* blocks of the file that is copied
    MaxPolls    \* how often an upload asks for the file, 10 in the code

ASSUME CpAssumption ==
    /\ Blocks \in Nat /\ MaxPolls \in Nat \ {0}
    /\ {"ping", "read", "write", "data", "end"} \subseteq Ops

VARIABLES
    way,        \* "up" or "down"
    cp,         \* where the client is
    toServer,   \* inputs sent and not read yet
    toClient,   \* messages written and not read yet
    blocks,     \* blocks that the client has sent, or received
    polls,      \* LISTs that an upload has sent at its end
    found,      \* the LISTs that found a file
    wrote,      \* blocks in the temporary file of the write stream
    readAt,     \* blocks that the read stream has read
    remote,     \* the file on the server: "none", "old", "new" or "part"
    existed,    \* history: there was a file on the server at the start
    misread     \* history: the client took another message for LIST's answer

tcpVars  == <<toServer, toClient>>
fileState == <<wrote, readAt, remote>>
cpVars   == <<way, cp, tcpVars, blocks, polls, found, fileState, existed,
              misread>>
allVars  == <<vars, cpVars>>

Exited == {"ok", "failed"}

CpInit ==
    /\ Init
    /\ way \in {"up", "down"}
    /\ cp = "start"
    /\ toServer = <<>> /\ toClient = <<>>
    /\ blocks = 0 /\ polls = 0 /\ found = {}
    /\ wrote = 0 /\ readAt = 0
    /\ remote \in {"none", "old"} /\ existed = (remote = "old")
    /\ misread = FALSE

-----------------------------------------------------------------------------
(* The client.                                                             *)

Send(op) == toServer' = Append(toServer, [op |-> op, slot |-> 0])

\* reader.Read(): the next message, whatever it is.
Receive == toClient # <<>> /\ toClient' = Tail(toClient)
Got     == Head(toClient)

ClientOnly == UNCHANGED <<vars, way, found, fileState, existed>>

\* statRemoteFile sends LIST.
CpStarts ==
    /\ cp = "start"
    /\ cp' = "stat"
    /\ Send("ping")
    /\ ClientOnly /\ UNCHANGED <<toClient, blocks, polls, misread>>

\* A download needs a file that is there (not a folder), and that it can create
\* its own; an upload goes on after NOTFOUND, but not after any other error.
CpOpens ==
    /\ cp = "stat" /\ Receive
    /\ \/ /\ way = "up" \/ Got.n \in found
          /\ cp' = "open" /\ Send(IF way = "up" THEN "write" ELSE "read")
       \/ /\ way = "down" \/ Got.n \notin found
          /\ cp' = "failed" /\ UNCHANGED toServer
    /\ ClientOnly /\ UNCHANGED <<blocks, polls, misread>>

\* The answer to STREAM.  An error ends the client; so does a frame that
\* overtook the answer, which is no *wire.Integer.
CpOpened ==
    /\ cp = "open" /\ Receive
    /\ cp' = IF Got.kind # "id" THEN "failed"
             ELSE IF way = "up" THEN "send" ELSE "recv"
    /\ ClientOnly /\ UNCHANGED <<toServer, blocks, polls, misread>>

UploadSends ==
    /\ cp = "send" /\ blocks < Blocks
    /\ blocks' = blocks + 1
    /\ Send("data")
    /\ ClientOnly /\ UNCHANGED <<cp, toClient, polls, misread>>

\* The null frame at the end of the file, or the client's file cannot be read.
UploadEnds ==
    /\ cp = "send"
    /\ \/ blocks = Blocks /\ cp' = "poll" /\ Send("end")
       \/ cp' = "failed" /\ UNCHANGED toServer
    /\ ClientOnly /\ UNCHANGED <<toClient, blocks, polls, misread>>

\* (mutant) the loop over LIST has no bound
UploadPolls_forever ==
    /\ cp = "poll"
    /\ polls' = polls + 1 /\ cp' = "answer" /\ Send("ping")
    /\ ClientOnly /\ UNCHANGED <<toClient, blocks, misread>>

UploadPolls ==
    /\ cp = "poll"
    /\ IF polls < MaxPolls
       THEN polls' = polls + 1 /\ cp' = "answer" /\ Send("ping")
       ELSE cp' = "failed" /\ UNCHANGED <<polls, toServer>>
    /\ ClientOnly /\ UNCHANGED <<toClient, blocks, misread>>

\* The answer to a LIST, and not a frame or the refusal of one.
IsAnswer(m) == m.kind = "ok"

\* (mutant) any answer ends the loop
UploadHears_any ==
    /\ cp = "answer" /\ Receive
    /\ cp' = "ok"
    /\ misread' = (misread \/ ~IsAnswer(Got))
    /\ ClientOnly /\ UNCHANGED <<toServer, blocks, polls>>

\* What is not a *wire.Error is a success: the answer of a LIST that found
\* the file, but also a frame, and the answer to a frame that the session
\* refused, which is an error inside a tag.
UploadHears ==
    /\ cp = "answer" /\ Receive
    /\ cp' = IF ~IsAnswer(Got) \/ Got.n \in found THEN "ok" ELSE "poll"
    /\ misread' = (misread \/ ~IsAnswer(Got))
    /\ ClientOnly /\ UNCHANGED <<toServer, blocks, polls>>

\* (mutant) any last frame is taken for null
DownloadTakes_anyLast ==
    /\ cp = "recv" /\ Receive
    /\ \/ Got.kind = "chunk" /\ blocks' = blocks + 1 /\ UNCHANGED cp
       \/ Got.kind = "last" /\ cp' = "ok" /\ UNCHANGED blocks
       \/ cp' = "failed" /\ UNCHANGED blocks
    /\ ClientOnly /\ UNCHANGED <<toServer, polls, misread>>

\* A block is written to the .fly-download file, which null renames.  The last
\* frame can be null only when the read stream has read everything; an error
\* frame ends the client, and so does a failure on its own disk.
DownloadTakes ==
    /\ cp = "recv" /\ Receive
    /\ \/ Got.kind = "chunk" /\ blocks' = blocks + 1 /\ UNCHANGED cp
       \/ /\ Got.kind = "last" /\ readAt = Blocks
          /\ cp' = "ok" /\ UNCHANGED blocks
       \/ cp' = "failed" /\ UNCHANGED blocks
    /\ ClientOnly /\ UNCHANGED <<toServer, polls, misread>>

Client ==
    \/ CpStarts \/ CpOpens \/ CpOpened \/ UploadSends \/ UploadEnds
    \/ UploadPolls \/ UploadHears \/ DownloadTakes

-----------------------------------------------------------------------------
(* The session's steps, with what they do to the connection and the files. *)

Quietly(A) == A /\ UNCHANGED cpVars

ServerReads ==
    /\ toServer # <<>>
    /\ ReaderReads(Head(toServer))
    /\ toServer' = Tail(toServer)
    /\ UNCHANGED <<way, cp, toClient, blocks, polls, found, fileState, existed,
                   misread>>

ServerHangsUp == cp \in Exited /\ Quietly(ReaderFails)

\* LIST finds the file, or it is not there or LIST fails.
ServerLists ==
    /\ kcmd.op = "ping" /\ RunAnswer
    /\ \/ remote # "none" /\ found' = found \cup {kcmd.n}
       \/ (remote = "none" \/ "open" \in Faults) /\ UNCHANGED found
    /\ UNCHANGED <<way, cp, tcpVars, blocks, polls, fileState, existed, misread>>

ServerRefuses == kcmd.op \in {"read", "write"} /\ Quietly(RunAnswer)

ServerWrites ==
    /\ WriterWrites
    /\ toClient' = Append(toClient, wval)
    /\ UNCHANGED <<way, cp, toServer, blocks, polls, found, fileState, existed,
                   misread>>

\* A block while there is one, then null; an error (I/O) at any time.
ServerReadsFile(o) ==
    /\ StreamReadsFile(o)
    /\ IF sval'[o] = "chunk"
       THEN readAt < Blocks /\ readAt' = readAt + 1
       ELSE (readAt = Blocks \/ "io" \in Faults) /\ UNCHANGED readAt
    /\ UNCHANGED <<way, cp, tcpVars, blocks, polls, found, wrote, remote,
                   existed, misread>>

\* (mutant) a stream that is told to end stores what it has
ServerStops_stores(o) ==
    /\ StreamSeesDone(o) \/ StreamTimesOut(o)
    /\ remote' = IF tmp[o] # "open" THEN remote
                 ELSE IF wrote = Blocks THEN "new" ELSE "part"
    /\ UNCHANGED <<way, cp, tcpVars, blocks, polls, found, wrote, readAt,
                   existed, misread>>

\* A session that ends, or the watchdog of a client that sends too slowly.
ServerStops(o) == Quietly(StreamSeesDone(o) \/ StreamTimesOut(o))

\* The temporary file gets a block, or replaces the file.
ServerTakesFrame(o) ==
    /\ StreamTakesFrame(o)
    /\ wrote' = IF spc'[o] = "check" THEN wrote + 1 ELSE wrote
    /\ remote' = IF tmp'[o] # "stored" THEN remote
                 ELSE IF wrote = Blocks THEN "new" ELSE "part"
    /\ UNCHANGED <<way, cp, tcpVars, blocks, polls, found, readAt, existed,
                   misread>>

ServerReader == ServerReads \/ Quietly(ReaderSteps)

ServerWorker ==
    \/ ServerLists \/ ServerRefuses
    \/ Quietly(WorkerStart \/ WorkerCheck \/ WorkerSeesDone \/ WorkerTakes
               \/ RunOpen \/ WorkerReplies \/ WorkerExits)

\* A message that is written after the client's exit may fail.
ServerWriter ==
    \/ ServerWrites
    \/ Quietly(WriterStart \/ WriterCheck \/ WriterTakesAnswer
               \/ WriterFindsNoAnswer \/ WriterSeesDone
               \/ WriterTerminates \/ WriterExits)
    \/ cp \in Exited /\ Quietly(WriterFails)
    \/ \E o \in Objs : Quietly(WriterTakesFrame(o))

ServerStream(o) ==
    \/ ServerReadsFile(o) \/ ServerTakesFrame(o) \/ ServerStops(o)
    \/ Quietly(StreamStart(o) \/ StreamListens(o) \/ StreamUnwinds(o)
               \/ StreamSignals(o) \/ StreamReleases(o))

CpNext ==
    \/ Client
    \/ /\ Running
       /\ \/ Quietly(Handle) \/ ServerReader \/ ServerHangsUp \/ ServerWorker
          \/ ServerWriter \/ \E o \in Objs : ServerStream(o)

CpSpec == CpInit /\ [][CpNext]_allVars

\* The session's fairness (fly cp opens one stream only, so that of the streams
\* together is that of each), and a client that goes on.
CpFairness ==
    /\ WF_allVars(Client)
    /\ WF_allVars(Running /\ Quietly(Handle))
    /\ WF_allVars(Running /\ ServerReader)
    /\ WF_allVars(Running /\ ServerHangsUp)
    /\ WF_allVars(Running /\ ServerWorker)
    /\ WF_allVars(Running /\ ServerWriter)
    /\ WF_allVars(Running /\ \E o \in Objs : ServerStream(o))
    /\ SF_allVars(Running /\ \E o \in Objs : Quietly(WriterTakesFrame(o)))

CpFairSpec == CpSpec /\ CpFairness

-----------------------------------------------------------------------------
(* Properties *)

\* The file on the server is what it was, or all of the uploaded file: never a
\* part of it, whenever the client exits, a disk fails or the session ends.
NoPartialUpload == remote # "part" /\ (remote = "new" => blocks = Blocks)

\* An upload that ends well is stored, with two exceptions: a LIST also finds
\* a file that was there before, and the error frame of a stream that failed is
\* taken for the LIST's answer (fly-cp.go tests for *wire.Error, not for a tag).
UploadEndsStored ==
    cp = "ok" /\ way = "up" => remote = "new" \/ existed \/ misread

\* A download that ends well has every block.
DownloadIsComplete == cp = "ok" /\ way = "down" => blocks = Blocks

\* fly cp exits, or one of the session's goroutines is in an endless send: the
\* client waits for its answers without a deadline.
CpEnds == (cp = "start") ~> (cp \in Exited \/ Stranded)
=============================================================================
