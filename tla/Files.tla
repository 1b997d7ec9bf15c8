-------------------------------- MODULE Files -------------------------------
(***************************************************************************)
(* The file commands of fly-server and the streams they compete with, on   *)
(* one file tree, while the policies change.                               *)
(*                                                                         *)
(* A command first asks vfs for leave, one critical section of db.Handle   *)
(* per path, then makes its file-system calls.  Nothing is locked between  *)
(* these steps: other clients and policy changes come in between.  A step  *)
(* is one critical section or one call of package os; a call that changes  *)
(* several files (os.MkdirAll, os.RemoveAll) is a step per file.           *)
(***************************************************************************)
EXTENDS Vfs, FiniteSets

CONSTANTS
    Clients,
    Who,           \* the identities a client may have
    Nodes,         \* bound: the paths of the tree
    PolicyNames,
    PolicyChoices, \* the policies that may be stored
    NoPolicy,
    NoJob,
    CommandChoices,   \* bound: the commands the clients send
    StartTrees,    \* bound: the file trees and the policies at the start
    StartTables,
    MaxCommands,   \* bound: commands, all clients together
    MaxChanges     \* bound: changes of the policies

Prefix(n, k) == SubSeq(n, 1, k)
Parent(n) == Prefix(n, Len(n) - 1)
Within(n, p) == Len(p) <= Len(n) /\ Prefix(n, Len(p)) = p

Reads  == {"LIST", "READ", "MOVE", "COPY"}     \* they ask for R on src
Writes == {"MKDIR", "TOUCH", "DEL", "WRITE", "MOVE", "COPY",  \* W on dst
           "CHROOT"}
Ops    == Reads \cup Writes

\* What is at a path: nothing, a folder, or a file by what it contains.  A
\* finished upload of one byte or more is "new"; "old" was there at the start.
Contents == {"old", "new", "empty"}
Entries  == {"none", "dir"} \cup Contents
Trees    == [Nodes -> Entries]

\* Virtual paths; an operation with one path has it in both places.
Commands == {c \in [op : Ops, src : Nodes, dst : Nodes] :
                c.op \in {"MOVE", "COPY"} \/ c.src = c.dst}

\* What is stored under each policy name.
PolicyTables == [PolicyNames -> Policies \cup {NoPolicy}]

Stored(table) == {table[p] : p \in PolicyNames} \ {NoPolicy}

ASSUME FilesAssumption ==
    /\ Who \subseteq Identities
    /\ Nodes \subseteq AllPaths /\ {<<>>, <<Fly>>} \subseteq Nodes
    /\ \A n \in Nodes : \A k \in 0 .. Len(n) : Prefix(n, k) \in Nodes
    /\ \A u \in Who : cleanPath(u, <<>>) \in Nodes
    /\ PolicyChoices \subseteq Policies
    /\ NoPolicy \notin Policies
    /\ CommandChoices \subseteq Commands
    /\ StartTrees \subseteq [Nodes -> {"none", "dir", "old", "empty"}]
    /\ StartTables \subseteq PolicyTables
    /\ MaxCommands \in Nat /\ MaxChanges \in Nat

\* A write or copy stream after STREAM W or COPY was answered, with what it
\* will store and the policies in force while the command ran.
Jobs == [op : {"WRITE", "COPY"}, src : Nodes, dst : Nodes,
         content : Contents \cup {"none"}, leave : SUBSET PolicyTables]

VARIABLES
    tree,         \* the file tree under rootDir
    policies,     \* db.Handle.policies
    who,          \* per client: its identity
    pc, cmd,      \* per client: what its worker does
    srcErr,       \* per client: the verdict on the first of two paths
    made,         \* per client: length of the prefix os.MkdirAll makes next
    left, shown,  \* per client: entries LIST has to look at, has in its table
    ans,          \* per client: the answer
    job,          \* per client: its stream (bound: one)
    crashed,      \* a panic ended the process
    \* history
    inForce,      \* per client: the policies since its command began
    seen,         \* per client: what was at each path since then
    started, changes

clientVars == <<who, pc, cmd, srcErr, made, left, shown, ans, job>>
history    == <<inForce, seen, started, changes>>
vars == <<tree, policies, clientVars, crashed, history>>

AnyCommand == [op |-> "LIST", src |-> <<>>, dst |-> <<>>]

\* CHROOT takes the path of its folder from the root, whoever asks.
CommandPath(u, c, path) ==
    IF c.op = "CHROOT" THEN path ELSE cleanPath(u, path)

Src(s) == CommandPath(who[s], cmd[s], cmd[s].src)
Dst(s) == CommandPath(who[s], cmd[s], cmd[s].dst)

-----------------------------------------------------------------------------
(* The file system.                                                        *)

Exists(n) == tree[n] # "none"
IsDir(n)  == tree[n] = "dir"
IsFile(n) == tree[n] \in Contents
Children(n) == {m \in Nodes : m # <<>> /\ Parent(m) = n /\ Exists(m)}

\* A parent is a file: the kernel says ENOTDIR, which is not os.ErrNotExist.
Blocked(n) == \E m \in Nodes : m # n /\ Within(n, m) /\ IsFile(m)

\* The folder that holds n is there (rootDir is in one).
HasFolder(n) == n = <<>> \/ IsDir(Parent(n))

\* Every entry is in a folder, and that in another, up to the root.
WellFormed ==
    \A n \in Nodes : Exists(n) => \A k \in 0 .. Len(n) - 1 : IsDir(Prefix(n, k))

NothingSeen == [n \in Nodes |-> {}]

Init ==
    /\ tree \in StartTrees /\ WellFormed
    /\ IsDir(<<>>) /\ IsDir(<<Fly>>)
    /\ policies \in StartTables
    /\ who \in [Clients -> Who]
    /\ pc = [s \in Clients |-> "idle"]
    /\ cmd = [s \in Clients |-> AnyCommand]
    /\ srcErr = [s \in Clients |-> "ok"]
    /\ made = [s \in Clients |-> 0]
    /\ left = [s \in Clients |-> {}]
    /\ shown = [s \in Clients |-> {}]
    /\ ans = [s \in Clients |-> "none"]
    /\ job = [s \in Clients |-> NoJob]
    /\ crashed = FALSE
    /\ inForce = [s \in Clients |-> {}]
    /\ seen = [s \in Clients |-> NothingSeen]
    /\ started = 0 /\ changes = 0

-----------------------------------------------------------------------------
(* Steps of a command.                                                     *)

\* Client s goes on at "to", or has its answer.
Goes(s, to) == pc' = [pc EXCEPT ![s] = to] /\ UNCHANGED ans
Answers(s, a) ==
    /\ pc' = [pc EXCEPT ![s] = "done"]
    /\ ans' = [ans EXCEPT ![s] = a]

OnlyTalks == UNCHANGED <<tree, policies, who, cmd, crashed, started, changes>>
OnlyTree  == UNCHANGED <<policies, who, cmd, srcErr, left, shown, job, crashed,
                         started, changes>>
NoListing == UNCHANGED <<left, shown>>

\* (CHROOT is refused to all but administrators, and in single-user mode.)
Begin(s, c) ==
    /\ pc[s] = "idle" /\ started < MaxCommands
    /\ c.op = "CHROOT" => who[s] \in Users /\ who[s].admin
    /\ CommandPath(who[s], c, c.src) \in Nodes
    /\ CommandPath(who[s], c, c.dst) \in Nodes
    /\ cmd' = [cmd EXCEPT ![s] = c]
    /\ started' = started + 1
    /\ Goes(s, IF c.op \in Reads THEN "src" ELSE "dst")
    /\ UNCHANGED <<tree, policies, who, srcErr, made, left, shown, job,
                   crashed, changes>>

\* The answer was sent; the worker is free.
Finish(s) ==
    /\ pc[s] = "done"
    /\ pc' = [pc EXCEPT ![s] = "idle"]
    /\ cmd' = [cmd EXCEPT ![s] = AnyCommand]
    /\ srcErr' = [srcErr EXCEPT ![s] = "ok"]
    /\ made' = [made EXCEPT ![s] = 0]
    /\ shown' = [shown EXCEPT ![s] = {}]
    /\ left' = [left EXCEPT ![s] = {}]
    /\ ans' = [ans EXCEPT ![s] = "none"]
    /\ UNCHANGED <<tree, policies, who, job, crashed, started, changes>>

Refusal(verdict) == IF verdict = "denied" THEN "DENIED" ELSE "FAILED"

\* resolveRead.  MOVE and COPY keep the verdict and ask for the second path.
ResolveSrc(s) ==
    LET verdict == resolve(Stored(policies), who[s], Src(s), "R")
    IN  /\ pc[s] = "src"
        /\ srcErr' = [srcErr EXCEPT ![s] = verdict]
        /\ IF cmd[s].op \in Writes THEN Goes(s, "dst")
           ELSE IF verdict = "ok"  THEN Goes(s, "act")
                                   ELSE Answers(s, Refusal(verdict))
        /\ OnlyTalks /\ NoListing /\ UNCHANGED <<made, job>>

\* (mutant) MOVE and COPY look at the verdict on the second path only
ResolveDst_forgetsSrc(s) ==
    LET verdict == resolve(Stored(policies), who[s], Dst(s), "W")
    IN  /\ pc[s] = "dst"
        /\ IF verdict = "ok" THEN Goes(s, "act")
                             ELSE Answers(s, Refusal(verdict))
        /\ OnlyTalks /\ NoListing /\ UNCHANGED <<srcErr, made, job>>

\* resolveWrite.  CHROOT asks for no policy, but an administrator needs none.
ResolveDst(s) ==
    LET verdict == resolve(Stored(policies), who[s], Dst(s), "W")
    IN  /\ pc[s] = "dst"
        /\ IF srcErr[s] = "ok" /\ verdict = "ok" THEN Goes(s, "act")
           ELSE Answers(s, IF "denied" \in {srcErr[s], verdict}
                           THEN "DENIED" ELSE "FAILED")
        /\ OnlyTalks /\ NoListing /\ UNCHANGED <<srcErr, made, job>>

\* The command is at position p of its file-system calls.
At(s, op, p) == cmd[s].op = op /\ pc[s] = p

-----------------------------------------------------------------------------
(* MKDIR and CHROOT: os.MkdirAll looks for the deepest folder there is and *)
(* makes the missing ones below it one by one.                             *)

AtMkdir(s, p) == cmd[s].op \in {"MKDIR", "CHROOT"} /\ pc[s] = p

\* os.Stat of the path, then of one folder above after the other, until one is
\* there (or would be rootDir's own): made counts those that are missing.
MkdirLooks(s) ==
    LET k == Len(Dst(s)) - made[s]
        n == Prefix(Dst(s), k)
    IN  /\ AtMkdir(s, "act")
        /\ \/ IsFile(n) /\ Answers(s, "FAILED") /\ UNCHANGED made
           \/ IsDir(n) /\ made[s] = 0 /\ Answers(s, "OK") /\ UNCHANGED made
           \/ /\ IsDir(n) /\ made[s] > 0
              /\ Goes(s, "more") /\ made' = [made EXCEPT ![s] = k + 1]
           \/ /\ ~Exists(n) /\ k > 0
              /\ Goes(s, "act") /\ made' = [made EXCEPT ![s] = @ + 1]
           \/ /\ ~Exists(n) /\ k = 0
              /\ Goes(s, "more") /\ made' = [made EXCEPT ![s] = 0]
        /\ UNCHANGED tree /\ OnlyTree

\* (mutant) the loop ends one folder early
MkdirMakes_early(s) ==
    LET n == Prefix(Dst(s), made[s])
    IN  /\ AtMkdir(s, "more")
        /\ IF HasFolder(n) /\ tree[n] \in {"none", "dir"}
           THEN /\ tree' = [tree EXCEPT ![n] = "dir"]
                /\ made' = [made EXCEPT ![s] = @ + 1]
                /\ IF made[s] + 1 >= Len(Dst(s)) THEN Answers(s, "OK")
                                                 ELSE Goes(s, "more")
           ELSE Answers(s, "FAILED") /\ UNCHANGED <<tree, made>>
        /\ OnlyTree

\* (mutant) the folders it found are taken to be there still
MkdirMakes_blind(s) ==
    LET n == Prefix(Dst(s), made[s])
    IN  /\ AtMkdir(s, "more")
        /\ IF tree[n] \in {"none", "dir"}
           THEN /\ tree' = [tree EXCEPT ![n] = "dir"]
                /\ made' = [made EXCEPT ![s] = @ + 1]
                /\ IF made[s] = Len(Dst(s)) THEN Answers(s, "OK")
                                            ELSE Goes(s, "more")
           ELSE Answers(s, "FAILED") /\ UNCHANGED <<tree, made>>
        /\ OnlyTree

\* A folder that somebody else made meanwhile is as good.
MkdirMakes(s) ==
    LET n == Prefix(Dst(s), made[s])
    IN  /\ AtMkdir(s, "more")
        /\ IF HasFolder(n) /\ tree[n] \in {"none", "dir"}
           THEN /\ tree' = [tree EXCEPT ![n] = "dir"]
                /\ made' = [made EXCEPT ![s] = @ + 1]
                /\ IF made[s] = Len(Dst(s)) THEN Answers(s, "OK")
                                            ELSE Goes(s, "more")
           ELSE Answers(s, "FAILED") /\ UNCHANGED <<tree, made>>
        /\ OnlyTree

-----------------------------------------------------------------------------
(* TOUCH: os.Chtimes, and when there is no such file os.Create.            *)

\* (mutant) every error of Chtimes is taken for a missing file, none for OK
TouchTimes_creates(s) ==
    /\ At(s, "TOUCH", "act")
    /\ Goes(s, "more")
    /\ UNCHANGED <<tree, made>> /\ OnlyTree

TouchTimes(s) ==
    LET p == Dst(s)
    IN  /\ At(s, "TOUCH", "act")
        /\ \/ Exists(p) /\ Answers(s, "OK")
           \/ ~Exists(p) /\ Blocked(p) /\ Answers(s, "FAILED")
           \/ ~Exists(p) /\ ~Blocked(p) /\ Goes(s, "more")
        /\ UNCHANGED <<tree, made>> /\ OnlyTree

\* os.Create also opens, and empties, a file that was made meanwhile.
TouchCreates(s) ==
    LET p == Dst(s)
    IN  /\ At(s, "TOUCH", "more")
        /\ IF HasFolder(p) /\ ~IsDir(p)
           THEN Answers(s, "OK") /\ tree' = [tree EXCEPT ![p] = "empty"]
           ELSE Answers(s, "FAILED") /\ UNCHANGED tree
        /\ UNCHANGED made /\ OnlyTree

-----------------------------------------------------------------------------
(* DEL: os.Stat, then os.Remove of a file or os.RemoveAll of a folder.     *)

DelStats(s) ==
    LET p == Dst(s)
    IN  /\ At(s, "DEL", "act")
        /\ \/ IsFile(p) /\ Goes(s, "unlink")
           \/ IsDir(p) /\ Goes(s, "more")
           \/ ~Exists(p) /\ Answers(s, "FAILED")
        /\ UNCHANGED <<tree, made>> /\ OnlyTree

\* os.Remove removes what is there now: a file, or an empty folder.
DelUnlinks(s) ==
    LET p == Dst(s)
    IN  /\ At(s, "DEL", "unlink")
        /\ IF Exists(p) /\ Children(p) = {}
           THEN Answers(s, "OK") /\ tree' = [tree EXCEPT ![p] = "none"]
           ELSE Answers(s, "FAILED") /\ UNCHANGED tree
        /\ UNCHANGED made /\ OnlyTree

\* os.RemoveAll removes an entry that has none below it ...
DelRemoves(s) ==
    LET p == Dst(s)
    IN  /\ At(s, "DEL", "more") /\ Exists(p)
        /\ \E n \in Nodes :
              /\ Within(n, p) /\ Exists(n) /\ Children(n) = {}
              /\ tree' = [tree EXCEPT ![n] = "none"]
              /\ IF n = p THEN Answers(s, "OK") ELSE Goes(s, "more")
        /\ UNCHANGED made /\ OnlyTree

\* ... or ends: nothing is left, or there is something it cannot remove, such
\* as an entry that was added after it had read the folder.
DelEnds(s) ==
    LET p == Dst(s)
    IN  /\ At(s, "DEL", "more")
        /\ \/ ~Exists(p) /\ Answers(s, IF Blocked(p) THEN "FAILED" ELSE "OK")
           \/ Children(p) # {} /\ Answers(s, "FAILED")
        /\ UNCHANGED <<tree, made>> /\ OnlyTree

-----------------------------------------------------------------------------
(* MOVE: os.Rename looks whether its destination is a folder, which is an  *)
(* error, and then renames.                                                *)

MoveLooks(s) ==
    /\ At(s, "MOVE", "act")
    /\ IF IsDir(Dst(s)) THEN Answers(s, "FAILED") ELSE Goes(s, "more")
    /\ UNCHANGED <<tree, made>> /\ OnlyTree

Moved(n, src, dst) ==
    IF Within(n, dst)
    THEN LET m == src \o SubSeq(n, Len(dst) + 1, Len(n))
         IN  IF m \in Nodes THEN tree[m] ELSE "none"
    ELSE IF Within(n, src) THEN "none" ELSE tree[n]

\* Bound: a folder moves only where the names below it stay in Nodes.
Fits(src, dst) ==
    \A n \in Nodes : Within(n, src) /\ Exists(n) =>
        dst \o SubSeq(n, Len(src) + 1, Len(n)) \in Nodes

\* What the kernel renames: a file over a file, a folder over an empty one that
\* was made meanwhile, but no folder into itself.
Renames(src, dst) ==
    /\ Exists(src) /\ HasFolder(dst) /\ Fits(src, dst)
    /\ \/ src = dst
       \/ IsFile(src) /\ ~IsDir(dst)
       \/ /\ IsDir(src) /\ ~Within(dst, src)
          /\ ~IsFile(dst) /\ Children(dst) = {}

MoveRenames(s) ==
    LET src == Src(s)  dst == Dst(s)
    IN  /\ At(s, "MOVE", "more")
        /\ IF Renames(src, dst)
           THEN /\ Answers(s, "OK")
                /\ tree' = [n \in Nodes |-> Moved(n, src, dst)]
           ELSE Answers(s, "FAILED") /\ UNCHANGED tree
        /\ UNCHANGED made /\ OnlyTree

-----------------------------------------------------------------------------
(* LIST: os.Stat, os.ReadDir, then Info and resolveRead of each entry.     *)

ListStats(s) ==
    LET p == Src(s)
    IN  /\ At(s, "LIST", "act")
        /\ \/ IsDir(p) /\ Goes(s, "more") /\ UNCHANGED shown
           \/ /\ IsFile(p) /\ Answers(s, "TABLE")
              /\ shown' = [shown EXCEPT ![s] = {p}]
           \/ ~Exists(p) /\ Answers(s, "FAILED") /\ UNCHANGED shown
        /\ OnlyTalks /\ UNCHANGED <<srcErr, made, left, job>>

ListReads(s) ==
    LET p == Src(s)
    IN  /\ At(s, "LIST", "more")
        /\ IF IsDir(p)
           THEN Goes(s, "entry") /\ left' = [left EXCEPT ![s] = Children(p)]
           ELSE Answers(s, "FAILED") /\ UNCHANGED left
        /\ OnlyTalks /\ UNCHANGED <<srcErr, made, shown, job>>

\* (mutant) LIST asks for leave to read the folder only
ListEntry_unchecked(s) ==
    /\ At(s, "LIST", "entry")
    /\ \E n \in left[s] :
          IF Exists(n)
          THEN /\ Goes(s, "entry")
               /\ shown' = [shown EXCEPT ![s] = @ \cup {n}]
               /\ left' = [left EXCEPT ![s] = @ \ {n}]
          ELSE Answers(s, "FAILED") /\ NoListing
    /\ OnlyTalks /\ UNCHANGED <<srcErr, made, job>>

\* An entry that is gone fails the whole LIST; one that may not be read is
\* left out.
ListEntry(s) ==
    /\ At(s, "LIST", "entry")
    /\ \E n \in left[s] :
          LET verdict == resolve(Stored(policies), who[s], n, "R")
          IN  IF Exists(n)
              THEN /\ Goes(s, "entry")
                   /\ shown' = [shown EXCEPT ![s] =
                                  IF verdict = "ok" THEN @ \cup {n} ELSE @]
                   /\ left' = [left EXCEPT ![s] = @ \ {n}]
              ELSE Answers(s, "FAILED") /\ NoListing
    /\ OnlyTalks /\ UNCHANGED <<srcErr, made, job>>

ListEnds(s) ==
    /\ At(s, "LIST", "entry") /\ left[s] = {}
    /\ Answers(s, "TABLE")
    /\ OnlyTalks /\ NoListing /\ UNCHANGED <<srcErr, made, job>>

-----------------------------------------------------------------------------
(* STREAM and COPY, up to their answer.                                    *)

NewJob(s) ==
    [op |-> cmd[s].op, src |-> Src(s), dst |-> Dst(s),
     content |-> IF cmd[s].op = "WRITE" THEN "empty" ELSE "none",
     leave |-> inForce[s]]

\* A stream for the command, unless (bound) the client has one.
OpensJob(s, ok) ==
    IF ok /\ job[s] = NoJob
    THEN Answers(s, "ID") /\ job' = [job EXCEPT ![s] = NewJob(s)]
    ELSE Answers(s, "FAILED") /\ UNCHANGED job

ReadOpens(s) ==
    /\ At(s, "READ", "act")
    /\ Answers(s, IF Exists(Src(s)) THEN "ID" ELSE "FAILED")
    /\ OnlyTalks /\ NoListing /\ UNCHANGED <<srcErr, made, job>>

\* NewWriteStream: os.Stat of the folder and of the file.  When a parent of
\* the folder is a file, info is nil and err is not os.ErrNotExist: the next
\* call panics.
WriteOpens(s) ==
    LET p == Dst(s)
    IN  /\ At(s, "WRITE", "act")
        /\ IF p # <<>> /\ Blocked(Parent(p))
           THEN /\ crashed' = TRUE
                /\ UNCHANGED <<pc, ans, job>>
           ELSE OpensJob(s, HasFolder(p) /\ ~IsDir(p)) /\ UNCHANGED crashed
        /\ NoListing
        /\ UNCHANGED <<tree, policies, who, cmd, srcErr, made, started, changes>>

CopyStats(s) ==
    /\ At(s, "COPY", "act")
    /\ OpensJob(s, IsFile(Src(s)))
    /\ OnlyTalks /\ NoListing /\ UNCHANGED <<srcErr, made>>

-----------------------------------------------------------------------------
(* The streams after that.  Paths are not checked again.                   *)

OnlyJob == UNCHANGED <<policies, who, pc, cmd, srcErr, made, left, shown, ans,
                       crashed, started, changes>>

\* handleChunk: the temporary file is empty until the first byte.
JobTakesChunk(s) ==
    /\ job[s] # NoJob /\ job[s].op = "WRITE"
    /\ job' = [job EXCEPT ![s].content = "new"]
    /\ UNCHANGED tree /\ OnlyJob

\* handleCopyStream opens its source and reads it to its end.
JobReads(s) ==
    LET src == job[s].src
    IN  /\ job[s] # NoJob /\ job[s].op = "COPY" /\ job[s].content = "none"
        /\ job' = IF IsFile(src) THEN [job EXCEPT ![s].content = tree[src]]
                                 ELSE [job EXCEPT ![s] = NoJob]
        /\ UNCHANGED tree /\ OnlyJob

\* The temporary file is renamed over the destination, or the rename fails.  A
\* write stream may get its null frame before any chunk.
JobStores(s) ==
    /\ job[s] # NoJob /\ job[s].content # "none"
    /\ IF HasFolder(job[s].dst) /\ ~IsDir(job[s].dst)
       THEN tree' = [tree EXCEPT ![job[s].dst] = job[s].content]
       ELSE UNCHANGED tree
    /\ job' = [job EXCEPT ![s] = NoJob]
    /\ OnlyJob

\* Cancelled, timed out, failed, or the session ended.
JobDropped(s) ==
    /\ job[s] # NoJob
    /\ job' = [job EXCEPT ![s] = NoJob]
    /\ UNCHANGED tree /\ OnlyJob

-----------------------------------------------------------------------------
\* PUTACP and RMACP by an administrator.
ChangePolicy(p, policy) ==
    /\ changes < MaxChanges
    /\ policy # policies[p]
    /\ changes' = changes + 1
    /\ policies' = [policies EXCEPT ![p] = policy]
    /\ UNCHANGED <<tree, clientVars, crashed, started>>

\* A command under way takes note of the policies and the tree.
UnderWay(s) == pc[s] \notin {"idle", "done"}

Observe ==
    /\ inForce' = [s \in Clients |->
         IF pc'[s] = "idle" THEN {}
         ELSE IF pc[s] = "done" THEN inForce[s]
         ELSE inForce[s] \cup {policies'}]
    /\ seen' = [s \in Clients |->
         IF pc'[s] = "idle" THEN NothingSeen
         ELSE IF pc[s] = "done" THEN seen[s]
         ELSE [n \in Nodes |-> seen[s][n] \cup {tree'[n]}]]

Step(s) ==
    \/ \E c \in CommandChoices : Begin(s, c)
    \/ Finish(s) \/ ResolveSrc(s) \/ ResolveDst(s)
    \/ MkdirLooks(s) \/ MkdirMakes(s) \/ TouchTimes(s) \/ TouchCreates(s)
    \/ DelStats(s) \/ DelUnlinks(s) \/ DelRemoves(s) \/ DelEnds(s)
    \/ MoveLooks(s) \/ MoveRenames(s)
    \/ ListStats(s) \/ ListReads(s) \/ ListEntry(s) \/ ListEnds(s)
    \/ ReadOpens(s) \/ WriteOpens(s) \/ CopyStats(s)
    \/ JobTakesChunk(s) \/ JobReads(s) \/ JobStores(s) \/ JobDropped(s)

Next ==
    /\ ~crashed
    /\ \/ \E s \in Clients : Step(s)
       \/ \E p \in PolicyNames, policy \in PolicyChoices \cup {NoPolicy} :
             ChangePolicy(p, policy)
    /\ Observe

Spec == Init /\ [][Next]_vars

-----------------------------------------------------------------------------
(* Properties *)

ClientTypeOK ==
    /\ who \in [Clients -> Who]
    /\ pc \in [Clients -> {"idle", "src", "dst", "act", "more", "unlink",
                           "entry", "done"}]
    /\ cmd \in [Clients -> Commands]
    /\ \A s \in Clients : Src(s) \in Nodes /\ Dst(s) \in Nodes
    /\ srcErr \in [Clients -> {"ok", "denied", "reserved"}]
    /\ made \in [Clients -> Nat]
    /\ left \in [Clients -> SUBSET Nodes] /\ shown \in [Clients -> SUBSET Nodes]
    /\ ans \in [Clients -> {"none", "OK", "FAILED", "DENIED", "TABLE", "ID"}]
    /\ job \in [Clients -> Jobs \cup {NoJob}]

ServerTypeOK ==
    /\ tree \in Trees
    /\ policies \in PolicyTables
    /\ crashed \in BOOLEAN
    /\ started \in 0 .. MaxCommands /\ changes \in 0 .. MaxChanges

HistoryTypeOK ==
    /\ inForce \in [Clients -> SUBSET PolicyTables]
    /\ seen \in [Clients -> [Nodes -> SUBSET Entries]]

\* Every variable holds values of its kind, and whatever the commands in
\* flight do to the tree, every entry is in a folder.
TypeOK == ServerTypeOK /\ ClientTypeOK /\ HistoryTypeOK /\ WellFormed

\* At some moment of client s's command the policies gave it leave.
Had(tables, s, n, action) ==
    \E t \in tables : Permits(Stored(t), who[s], n, action)

\* What client s's command under way changes beside the path it names, without
\* leave to write it: MKDIR (and CHROOT) make the folders above, DEL and MOVE
\* take along what is below, and MOVE takes away its source, for which it asks
\* leave to read.
TakenAlong(s, n) ==
    \/ cmd[s].op \in {"MKDIR", "CHROOT"} /\ Within(Dst(s), n)
    \/ cmd[s].op \in {"DEL", "MOVE"} /\ Within(n, Dst(s))
    \/ /\ cmd[s].op = "MOVE" /\ Within(n, Src(s))
       /\ Had(inForce[s], s, Src(s), "R")

\* Client s's command under way may change n.
CommandMay(s, n) ==
    /\ UnderWay(s) /\ cmd[s].op \in Writes \ {"WRITE", "COPY"}
    /\ Had(inForce[s], s, Dst(s), "W")
    /\ n = Dst(s) \/ TakenAlong(s, n)

\* Client s's stream may replace n.
JobMay(s, n) ==
    /\ job[s] # NoJob /\ n = job[s].dst
    /\ Had(job[s].leave, s, n, "W")
    /\ job[s].op = "COPY" => Had(job[s].leave, s, job[s].src, "R")

\* Nothing in the tree changes unless a command under way (or the one that
\* opened the stream) had leave to write the path that it names, at some moment:
\* the check and the change are not one step (vfs_helper.go).  Leave to write
\* the changed entry itself is not asked for in the cases of TakenAlong, although
\* access-control.md and protocol-specs.md say that it is needed.
NamedPathsPermitted ==
    [][\A n \in Nodes : tree'[n] # tree[n] =>
           \E s \in Clients : CommandMay(s, n) \/ JobMay(s, n)]_vars

\* No command touches what is reserved to the server, except that a DEL of
\* the root takes everything with it, .fly included.
ReservedKept ==
    [][\A n \in Nodes : Reserved(n) /\ tree'[n] # tree[n] =>
           \E s \in Clients : /\ UnderWay(s) /\ cmd[s].op = "DEL"
                             /\ Dst(s) = <<>>]_vars

\* A table of LIST shows only entries that were there and readable at some
\* moment, never a reserved one, and every entry of the folder that was there
\* and readable all the time.
ListIsHonest ==
    \A s \in Clients : ans[s] = "TABLE" =>
        /\ \A n \in shown[s] : /\ seen[s][n] # {"none"} /\ ~Reserved(n)
                               /\ Had(inForce[s], s, n, "R")
        /\ \A n \in Nodes :
              /\ n # <<>> /\ Parent(n) = Src(s)
              /\ "none" \notin seen[s][n] /\ ~Reserved(n)
              /\ \A t \in inForce[s] : Permits(Stored(t), who[s], n, "R")
              => n \in shown[s]

\* An answer tells of something that was so while the command ran: the folder
\* was made, the file was there, the entry was gone, the source was away and
\* the destination there, or leave was missing.
AnswersHonest ==
    \A s \in Clients :
        /\ ans[s] = "OK" =>
             /\ cmd[s].op \in {"MKDIR", "CHROOT"} => "dir" \in seen[s][Dst(s)]
             /\ cmd[s].op = "TOUCH" => seen[s][Dst(s)] # {"none"}
             /\ cmd[s].op = "DEL"   => "none" \in seen[s][Dst(s)]
             /\ cmd[s].op = "MOVE"  => /\ seen[s][Dst(s)] # {"none"}
                                       /\ \/ Src(s) = Dst(s)
                                          \/ "none" \in seen[s][Src(s)]
        /\ ans[s] = "DENIED" =>
             \E t \in inForce[s] :
                 \/ /\ cmd[s].op \in Reads
                    /\ ~Permits(Stored(t), who[s], Src(s), "R")
                 \/ /\ cmd[s].op \in Writes
                    /\ ~Permits(Stored(t), who[s], Dst(s), "W")

\* Client s's step may put an empty file at n: TOUCH, when the path was
\* missing at some moment of the command (the window between its two calls),
\* MOVE and COPY of a file that is empty, or an upload that ends before its
\* first byte.
MayEmpty(s, n) ==
    \/ /\ UnderWay(s) /\ cmd[s].op = "TOUCH"
       /\ n = Dst(s) /\ "none" \in seen[s][n]
    \/ At(s, "MOVE", "more") /\ n = Dst(s) /\ tree[Src(s)] = "empty"
    \/ job[s] # NoJob /\ n = job[s].dst /\ job[s].content = "empty"

\* An uploaded file is emptied in no other way, whatever commands and streams
\* compete for its path.
UploadsKept ==
    [][\A n \in Nodes : tree[n] = "new" /\ tree'[n] = "empty" =>
           \E s \in Clients : MayEmpty(s, n)]_vars
=============================================================================
