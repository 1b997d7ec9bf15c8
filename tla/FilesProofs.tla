----------------------------- MODULE FilesProofs ----------------------------
(***************************************************************************)
(* What Files promises for every set of clients, names, identities,        *)
(* policies and commands, and every tree.                                  *)
(***************************************************************************)
EXTENDS Files, SequenceTheorems, TLAPS

-----------------------------------------------------------------------------
(* Paths and their prefixes.                                               *)

LEMMA PrefixIs ==
    ASSUME NEW n \in AllPaths, NEW k \in 0 .. Len(n)
    PROVE  /\ Prefix(n, k) \in AllPaths
           /\ Len(Prefix(n, k)) = k
           /\ \A i \in 1 .. k : Prefix(n, k)[i] = n[i]
BY DEF Prefix, AllPaths

LEMMA WholePrefix ==
    ASSUME NEW n \in AllPaths
    PROVE  Prefix(n, Len(n)) = n
<1>1. Len(n) \in 0 .. Len(n)
    BY DEF AllPaths
<1> QED
    BY <1>1, PrefixIs, SeqEqual DEF AllPaths

LEMMA PrefixOfPrefix ==
    ASSUME NEW n \in AllPaths, NEW k \in 0 .. Len(n), NEW j \in 0 .. k
    PROVE  Prefix(Prefix(n, k), j) = Prefix(n, j)
<1> DEFINE q == Prefix(n, k)
<1>1. q \in AllPaths /\ Len(q) = k /\ \A i \in 1 .. k : q[i] = n[i]
    BY PrefixIs
<1>2. j \in 0 .. Len(n) /\ j \in 0 .. Len(q)
    BY <1>1 DEF AllPaths
<1> HIDE DEF q
<1>3. /\ Prefix(q, j) \in AllPaths /\ Len(Prefix(q, j)) = j
      /\ \A i \in 1 .. j : Prefix(q, j)[i] = q[i]
    BY <1>1, <1>2, PrefixIs
<1>4. /\ Prefix(n, j) \in AllPaths /\ Len(Prefix(n, j)) = j
      /\ \A i \in 1 .. j : Prefix(n, j)[i] = n[i]
    BY <1>2, PrefixIs
<1>5. \A i \in 1 .. j : i \in 1 .. k
    BY <1>2 DEF AllPaths
<1>6. Prefix(q, j) = Prefix(n, j)
    BY <1>1, <1>3, <1>4, <1>5, SeqEqual DEF AllPaths
<1> QED
    BY <1>6 DEF q

\* A path is below a prefix of its prefix.
LEMMA WithinPrefix ==
    ASSUME NEW n \in AllPaths, NEW k \in 0 .. Len(n), NEW p \in AllPaths,
           Within(Prefix(n, k), p)
    PROVE  Within(n, p)
<1>1. Len(Prefix(n, k)) = k
    BY PrefixIs
<1>2. Len(p) \in 0 .. k
    BY <1>1 DEF Within, AllPaths
<1>3. Prefix(Prefix(n, k), Len(p)) = Prefix(n, Len(p))
    BY <1>2, PrefixOfPrefix
<1>4. Prefix(n, Len(p)) = p
    BY <1>1, <1>2, <1>3 DEF Within
<1>5. Len(p) <= Len(n)
    BY <1>2 DEF AllPaths
<1> QED
    BY <1>4, <1>5 DEF Within

\* Two prefixes of a path: the longer one is below the shorter.
LEMMA WithinOwn ==
    ASSUME NEW n \in AllPaths, NEW k \in 0 .. Len(n), NEW j \in 0 .. k
    PROVE  Within(Prefix(n, k), Prefix(n, j))
<1>1. Len(Prefix(n, k)) = k
    BY PrefixIs
<1>2. j \in 0 .. Len(n)
    BY DEF AllPaths
<1>3. Len(Prefix(n, j)) = j
    BY <1>2, PrefixIs
<1> QED
    BY <1>1, <1>3, PrefixOfPrefix DEF Within

\* Where the entry comes from that os.Rename(src, dst) brings to n.
Origin(n, src, dst) == src \o SubSeq(n, Len(dst) + 1, Len(n))

LEMMA OriginIs ==
    ASSUME NEW n \in AllPaths, NEW src \in AllPaths, NEW dst \in AllPaths,
           Len(dst) <= Len(n)
    PROVE  LET o == Origin(n, src, dst)
           IN  /\ o \in AllPaths
               /\ Len(o) = Len(src) + (Len(n) - Len(dst))
               /\ \A i \in 1 .. Len(src) : o[i] = src[i]
               /\ \A i \in Len(src) + 1 .. Len(o) :
                     o[i] = n[i - Len(src) + Len(dst)]
<1> DEFINE t == SubSeq(n, Len(dst) + 1, Len(n))
<1>1. /\ t \in AllPaths /\ Len(t) = Len(n) - Len(dst)
      /\ \A i \in 1 .. Len(n) - Len(dst) : t[i] = n[i + Len(dst)]
    BY DEF AllPaths
<1> HIDE DEF t
<1>2. /\ src \o t \in AllPaths /\ Len(src \o t) = Len(src) + Len(t)
      /\ \A i \in 1 .. Len(src) : (src \o t)[i] = src[i]
      /\ \A i \in Len(src) + 1 .. Len(src) + Len(t) :
            (src \o t)[i] = t[i - Len(src)]
    <2>0. src \in Seq(Names) /\ t \in Seq(Names)
        BY <1>1 DEF AllPaths
    <2>1. /\ src \o t \in Seq(Names) /\ Len(src \o t) = Len(src) + Len(t)
          /\ \A i \in 1 .. Len(src) + Len(t) :
                (src \o t)[i] = IF i <= Len(src) THEN src[i]
                                                ELSE t[i - Len(src)]
        BY <2>0, ConcatProperties, Zenon
    <2>2. Len(src) \in Nat /\ Len(t) \in Nat
        BY <1>1 DEF AllPaths
    <2> QED
        BY <2>1, <2>2 DEF AllPaths
<1>3. \A i \in Len(src) + 1 .. Len(src) + Len(t) :
          i - Len(src) \in 1 .. Len(n) - Len(dst)
    BY <1>1 DEF AllPaths
<1>4. ASSUME NEW i \in Len(src) + 1 .. Len(src) + Len(t)
      PROVE  (src \o t)[i] = n[i - Len(src) + Len(dst)]
    BY <1>1, <1>2, <1>3, <1>4
<1> QED
    BY <1>1, <1>2, <1>4 DEF Origin, t

\* A path at or above the source comes from ... the same step up.
LEMMA OriginPrefix ==
    ASSUME NEW n \in AllPaths, NEW src \in AllPaths, NEW dst \in AllPaths,
           NEW k \in Len(dst) .. Len(n)
    PROVE  /\ Len(src) + (k - Len(dst)) \in 0 .. Len(Origin(n, src, dst))
           /\ Origin(Prefix(n, k), src, dst)
                = Prefix(Origin(n, src, dst), Len(src) + (k - Len(dst)))
<1> DEFINE o == Origin(n, src, dst)  q == Prefix(n, k)
           p == Origin(q, src, dst)  l == Len(src) + (k - Len(dst))
<1>1. k \in 0 .. Len(n) /\ Len(dst) <= Len(n) /\ Len(dst) <= k
      /\ k \in Nat /\ Len(n) \in Nat /\ Len(dst) \in Nat /\ Len(src) \in Nat
    BY DEF AllPaths
<1>2. q \in AllPaths /\ Len(q) = k /\ \A i \in 1 .. k : q[i] = n[i]
    BY <1>1, PrefixIs
<1>3. /\ o \in AllPaths /\ Len(o) = Len(src) + (Len(n) - Len(dst))
      /\ \A i \in 1 .. Len(src) : o[i] = src[i]
      /\ \A i \in Len(src) + 1 .. Len(o) : o[i] = n[i - Len(src) + Len(dst)]
    BY <1>1, OriginIs
<1> HIDE DEF q
<1>4. /\ p \in AllPaths /\ Len(p) = Len(src) + (k - Len(dst))
      /\ \A i \in 1 .. Len(src) : p[i] = src[i]
      /\ \A i \in Len(src) + 1 .. Len(p) : p[i] = q[i - Len(src) + Len(dst)]
    BY <1>1, <1>2, OriginIs
<1> HIDE DEF o, p
<1>5. l \in 0 .. Len(o)
    BY <1>1, <1>3
<1>6. /\ Prefix(o, l) \in AllPaths /\ Len(Prefix(o, l)) = l
      /\ \A i \in 1 .. l : Prefix(o, l)[i] = o[i]
    BY <1>3, <1>5, PrefixIs
<1>7. ASSUME NEW i \in 1 .. l
      PROVE  p[i] = Prefix(o, l)[i]
    <2>1. CASE i <= Len(src)
        BY <2>1, <1>1, <1>3, <1>4, <1>6
    <2>2. CASE i > Len(src)
        <3>1. i \in Len(src) + 1 .. Len(p) /\ i \in Len(src) + 1 .. Len(o)
            BY <2>2, <1>1, <1>3, <1>4
        <3>2. i - Len(src) + Len(dst) \in 1 .. k
            BY <3>1, <1>1, <1>4
        <3> QED
            BY <3>1, <3>2, <1>2, <1>3, <1>4, <1>6
    <2> QED
        BY <2>1, <2>2, <1>1
<1>8. p = Prefix(o, l)
    BY <1>4, <1>6, <1>7, SeqEqual DEF AllPaths
<1> QED
    BY <1>5, <1>8 DEF o, p, q

-----------------------------------------------------------------------------
(* What the constants are.                                                 *)

LEMMA NodesArePaths ==
    /\ \A n \in Nodes : n \in AllPaths /\ Len(n) \in Nat
    /\ \A n \in Nodes : \A k \in 0 .. Len(n) : Prefix(n, k) \in Nodes
    /\ <<>> \in Nodes /\ AnyCommand \in Commands
BY FilesAssumption DEF AllPaths, AnyCommand, Commands, Ops, Reads, Writes

LEMMA FolderIsNode ==
    ASSUME NEW n \in Nodes, n # <<>>
    PROVE  /\ Len(n) \in Nat \ {0} /\ Len(n) - 1 \in 0 .. Len(n)
           /\ Parent(n) \in Nodes /\ Parent(n) = Prefix(n, Len(n) - 1)
           /\ Len(Parent(n)) = Len(n) - 1
<1>1. Len(n) \in Nat \ {0} /\ Len(n) - 1 \in 0 .. Len(n)
    BY NodesArePaths, EmptySeq DEF AllPaths
<1>2. n \in AllPaths
    BY NodesArePaths
<1> QED
    BY <1>1, <1>2, NodesArePaths, PrefixIs DEF Parent

-----------------------------------------------------------------------------
(* The kinds of values.                                                    *)

LEMMA InitTypes == Init => ServerTypeOK /\ ClientTypeOK /\ HistoryTypeOK
<1> SUFFICES ASSUME Init
             PROVE  ServerTypeOK /\ ClientTypeOK /\ HistoryTypeOK
    OBVIOUS
<1>1. ServerTypeOK
    <2>1. tree \in [Nodes -> {"none", "dir", "old", "empty"}]
        BY FilesAssumption DEF Init
    <2>2. {"none", "dir", "old", "empty"} \subseteq Entries
        BY DEF Entries, Contents
    <2>3. tree \in Trees
        BY <2>1, <2>2 DEF Trees
    <2> QED
        <3>1. policies \in PolicyTables /\ 0 \in 0 .. MaxCommands
              /\ 0 \in 0 .. MaxChanges
            BY FilesAssumption DEF Init
        <3> QED
            BY <2>3, <3>1 DEF Init, ServerTypeOK
<1>2. ASSUME NEW s \in Clients
      PROVE  Src(s) \in Nodes /\ Dst(s) \in Nodes
    BY FilesAssumption DEF Init, Src, Dst, CommandPath, AnyCommand
<1>3. ClientTypeOK
    BY <1>2, NodesArePaths DEF Init, ClientTypeOK
<1>4. HistoryTypeOK
    BY DEF Init, HistoryTypeOK, NothingSeen
<1> QED
    BY <1>1, <1>3, <1>4

LEMMA NewJobType ==
    ASSUME ClientTypeOK, HistoryTypeOK, NEW s \in Clients,
           cmd[s].op \in {"WRITE", "COPY"}
    PROVE  NewJob(s) \in Jobs
BY DEF ClientTypeOK, HistoryTypeOK, NewJob, Jobs, Contents

\* MKDIR goes up its path no further than the root, and down it no further than
\* its end.
OnItsWay(s) ==
    /\ AtMkdir(s, "act") \/ AtMkdir(s, "more") =>
          made[s] \in 0 .. Len(Dst(s))
    /\ pc[s] \in {"idle", "src", "dst"} => made[s] = 0

LEMMA StepTypes ==
    ASSUME ServerTypeOK, ClientTypeOK, HistoryTypeOK, NEW s \in Clients,
           OnItsWay(s), Step(s)
    PROVE  ClientTypeOK'
<1> USE DEF ClientTypeOK, Src, Dst, CommandPath, At
<1>1. ASSUME NEW c \in CommandChoices, Begin(s, c)
      PROVE  ClientTypeOK'
    BY <1>1, FilesAssumption DEF Begin, Goes
<1>2. CASE Finish(s)
    BY <1>2, FilesAssumption, NodesArePaths DEF Finish, AnyCommand
<1>3. CASE ResolveSrc(s)
    BY <1>3 DEF ResolveSrc, Goes, Answers, OnlyTalks, NoListing, Refusal,
        resolve
<1>4. CASE ResolveDst(s)
    BY <1>4 DEF ResolveDst, Goes, Answers, OnlyTalks, NoListing
<1>5. CASE MkdirLooks(s)
    <2>1. made[s] \in 0 .. Len(Dst(s)) /\ Len(Dst(s)) \in Nat
        BY <1>5, NodesArePaths DEF MkdirLooks, OnItsWay
    <2>2. \/ made' = made \/ made' = [made EXCEPT ![s] = 0]
          \/ made' = [made EXCEPT ![s] = made[s] + 1]
          \/ made' = [made EXCEPT ![s] = Len(Dst(s)) - made[s] + 1]
        BY <1>5 DEF MkdirLooks
    <2>3. made' \in [Clients -> Nat]
        BY <2>1, <2>2
    <2> QED
        BY <1>5, <2>3 DEF MkdirLooks, Goes, Answers, OnlyTree
<1>6. CASE MkdirMakes(s)
    <2>0. made' = made \/ made' = [made EXCEPT ![s] = made[s] + 1]
        BY <1>6 DEF MkdirMakes
    <2>1. made' \in [Clients -> Nat]
        BY <2>0
    <2> QED
        BY <1>6, <2>1 DEF MkdirMakes, Goes, Answers, OnlyTree
<1>7. CASE TouchTimes(s)
    BY <1>7 DEF TouchTimes, Goes, Answers, OnlyTree
<1>8. CASE TouchCreates(s)
    BY <1>8 DEF TouchCreates, Answers, OnlyTree
<1>9. CASE DelStats(s)
    BY <1>9 DEF DelStats, Goes, Answers, OnlyTree
<1>10. CASE DelUnlinks(s)
    BY <1>10 DEF DelUnlinks, Answers, OnlyTree
<1>11. CASE DelRemoves(s)
    BY <1>11 DEF DelRemoves, Goes, Answers, OnlyTree
<1>12. CASE DelEnds(s)
    BY <1>12 DEF DelEnds, Answers, OnlyTree
<1>13. CASE MoveLooks(s) \/ MoveRenames(s)
    BY <1>13 DEF MoveLooks, MoveRenames, Goes, Answers, OnlyTree
<1>14. CASE ListStats(s)
    BY <1>14 DEF ListStats, Goes, Answers, OnlyTalks
<1>15. CASE ListReads(s)
    <2>1. Children(Src(s)) \in SUBSET Nodes
        BY DEF Children
    <2> QED
        BY <1>15, <2>1 DEF ListReads, Goes, Answers, OnlyTalks
<1>16. CASE ListEntry(s)
    BY <1>16 DEF ListEntry, Goes, Answers, OnlyTalks, NoListing
<1>17. CASE ListEnds(s)
    BY <1>17 DEF ListEnds, Answers, OnlyTalks, NoListing
<1>18. CASE ReadOpens(s)
    BY <1>18 DEF ReadOpens, Answers, OnlyTalks, NoListing
<1>19. CASE WriteOpens(s)
    <2>1. job' \in [Clients -> Jobs \cup {NoJob}]
        BY <1>19, NewJobType DEF WriteOpens, OpensJob
    <2> QED
        BY <1>19, <2>1 DEF WriteOpens, OpensJob, Answers, NoListing
<1>20. CASE CopyStats(s)
    <2>1. job' \in [Clients -> Jobs \cup {NoJob}]
        BY <1>20, NewJobType DEF CopyStats, OpensJob
    <2> QED
        BY <1>20, <2>1 DEF CopyStats, OpensJob, Answers, OnlyTalks, NoListing
<1>21. CASE JobReads(s)
    <2>1. ASSUME job[s] # NoJob, IsFile(job[s].src)
          PROVE  [job[s] EXCEPT !.content = tree[job[s].src]] \in Jobs
        BY <2>1 DEF Jobs, IsFile
    <2>2. job' \in [Clients -> Jobs \cup {NoJob}]
        BY <1>21, <2>1 DEF JobReads
    <2> QED
        BY <1>21, <2>2 DEF JobReads, OnlyJob
<1>22. CASE JobStores(s)
    BY <1>22 DEF JobStores, OnlyJob
<1>23. CASE JobDropped(s)
    BY <1>23 DEF JobDropped, OnlyJob
<1>24. CASE JobTakesChunk(s)
    <2>1. ASSUME job[s] # NoJob
          PROVE  [job[s] EXCEPT !.content = "new"] \in Jobs
        BY <2>1 DEF Jobs, Contents
    <2>2. job' \in [Clients -> Jobs \cup {NoJob}]
        BY <1>24, <2>1 DEF JobTakesChunk
    <2> QED
        BY <1>24, <2>2 DEF JobTakesChunk, OnlyJob
<1> QED
    BY <1>1, <1>2, <1>3, <1>4, <1>5, <1>6, <1>7, <1>8, <1>9, <1>10, <1>11,
        <1>12, <1>13, <1>14, <1>15, <1>16, <1>17, <1>18, <1>19, <1>20, <1>21,
        <1>22, <1>23, <1>24 DEF Step

-----------------------------------------------------------------------------
(* The tree stays a tree.                                                  *)

\* The four ways in which calls of package os change it.
Makes(n) ==
    /\ HasFolder(n) /\ tree[n] \in {"none", "dir"}
    /\ tree' = [tree EXCEPT ![n] = "dir"]
Puts(n, c) ==
    /\ HasFolder(n) /\ ~IsDir(n)
    /\ tree' = [tree EXCEPT ![n] = c]
Removes(n) ==
    /\ Children(n) = {}
    /\ tree' = [tree EXCEPT ![n] = "none"]
Brings(src, dst) ==
    /\ Renames(src, dst)
    /\ tree' = [n \in Nodes |-> Moved(n, src, dst)]

LEMMA TreeEffect ==
    ASSUME ServerTypeOK, ClientTypeOK, NEW s \in Clients, OnItsWay(s), Step(s)
    PROVE  \/ UNCHANGED tree
           \/ \E n \in Nodes : Makes(n) \/ Removes(n)
           \/ \E n \in Nodes, c \in Contents : Puts(n, c)
           \/ \E src \in Nodes, dst \in Nodes : Brings(src, dst)
<1>1. Src(s) \in Nodes /\ Dst(s) \in Nodes
    BY DEF ClientTypeOK
<1>2. CASE MkdirMakes(s)
    <2>1. Prefix(Dst(s), made[s]) \in Nodes
        BY <1>1, <1>2, NodesArePaths DEF MkdirMakes, OnItsWay, AtMkdir
    <2> QED
        BY <1>2, <2>1 DEF MkdirMakes, Makes
<1>3. CASE TouchCreates(s)
    BY <1>1, <1>3 DEF TouchCreates, Puts, Contents
<1>4. CASE DelUnlinks(s)
    BY <1>1, <1>4 DEF DelUnlinks, Removes
<1>5. CASE DelRemoves(s)
    BY <1>1, <1>5 DEF DelRemoves, Removes
<1>6. CASE MoveRenames(s)
    BY <1>1, <1>6 DEF MoveRenames, Brings
<1>7. CASE JobStores(s)
    BY <1>7 DEF JobStores, Puts, ClientTypeOK, Jobs
<1> QED
    BY <1>2, <1>3, <1>4, <1>5, <1>6, <1>7
    DEF Step, Begin, Finish, ResolveSrc, ResolveDst, MkdirLooks, TouchTimes,
        DelStats, DelEnds, MoveLooks, ListStats, ListReads, ListEntry,
        ListEnds, ReadOpens, WriteOpens, CopyStats, JobTakesChunk, JobReads,
        JobDropped, OnlyTalks

\* Whatever is in a folder has folders all the way up.
LEMMA FoldersAbove ==
    ASSUME WellFormed, NEW n \in Nodes, HasFolder(n),
           NEW k \in 0 .. Len(n) - 1
    PROVE  IsDir(Prefix(n, k))
<1>1. n # <<>> /\ IsDir(Parent(n))
    BY NodesArePaths, EmptySeq DEF HasFolder, AllPaths
<1>2. CASE k = Len(n) - 1
    BY <1>1, <1>2 DEF Parent
<1>3. CASE k # Len(n) - 1
    <2>1. k \in 0 .. Len(Parent(n)) - 1 /\ k \in 0 .. Len(n) - 1
        BY <1>1, <1>3, FolderIsNode, NodesArePaths
    <2>2. IsDir(Prefix(Parent(n), k))
        BY <1>1, <2>1, FolderIsNode DEF WellFormed, IsDir, Exists
    <2>3. Prefix(Parent(n), k) = Prefix(n, k)
        <3>1. n \in AllPaths /\ Len(n) - 1 \in 0 .. Len(n)
              /\ k \in 0 .. Len(n) - 1
            BY <1>1, <2>1, FolderIsNode, NodesArePaths
        <3> QED
            BY <3>1, PrefixOfPrefix DEF Parent
    <2> QED
        BY <2>2, <2>3
<1> QED
    BY <1>2, <1>3

LEMMA MakeKeepsFolders ==
    ASSUME ServerTypeOK, WellFormed, NEW n \in Nodes, Makes(n)
    PROVE  WellFormed'
<1> SUFFICES ASSUME NEW m \in Nodes, tree'[m] # "none",
                    NEW k \in 0 .. Len(m) - 1
             PROVE  tree'[Prefix(m, k)] = "dir"
    BY DEF WellFormed, Exists, IsDir
<1>1. Prefix(m, k) \in Nodes
    BY NodesArePaths
<1>2. tree[Prefix(m, k)] = "dir"
    <2>1. CASE m = n
        BY <2>1, FoldersAbove DEF Makes, IsDir
    <2>2. CASE m # n
        BY <2>2 DEF Makes, ServerTypeOK, Trees, WellFormed, Exists, IsDir
    <2> QED
        BY <2>1, <2>2
<1> QED
    BY <1>1, <1>2 DEF Makes, ServerTypeOK, Trees

LEMMA PutKeepsFolders ==
    ASSUME ServerTypeOK, WellFormed, NEW n \in Nodes, NEW c \in Contents,
           Puts(n, c)
    PROVE  WellFormed'
<1> SUFFICES ASSUME NEW m \in Nodes, tree'[m] # "none",
                    NEW k \in 0 .. Len(m) - 1
             PROVE  tree'[Prefix(m, k)] = "dir"
    BY DEF WellFormed, Exists, IsDir
<1>1. Prefix(m, k) \in Nodes
    BY NodesArePaths
<1>2. tree[Prefix(m, k)] = "dir"
    <2>1. CASE m = n
        BY <2>1, FoldersAbove DEF Puts, IsDir
    <2>2. CASE m # n
        BY <2>2 DEF Puts, ServerTypeOK, Trees, WellFormed, Exists, IsDir
    <2> QED
        BY <2>1, <2>2
<1>3. Prefix(m, k) # n
    BY <1>2 DEF Puts, IsDir
<1> QED
    BY <1>1, <1>2, <1>3 DEF Puts, ServerTypeOK, Trees

\* An entry is below a child of every folder above it.
LEMMA ChildOnTheWay ==
    ASSUME WellFormed, NEW m \in Nodes, Exists(m), NEW k \in 0 .. Len(m) - 1
    PROVE  Children(Prefix(m, k)) # {}
<1> DEFINE q == Prefix(m, k + 1)
<1>1. /\ m \in AllPaths /\ k + 1 \in 0 .. Len(m) /\ k \in 0 .. k + 1
      /\ k \in Nat /\ Len(m) \in Nat
    BY NodesArePaths
<1>2. q \in Nodes /\ Len(q) = k + 1
    BY <1>1, NodesArePaths, PrefixIs
<1>3. Parent(q) = Prefix(m, k)
    BY <1>1, <1>2, PrefixOfPrefix DEF Parent
<1>4. q # <<>>
    BY <1>1, <1>2
<1>5. Exists(q)
    <2>1. CASE k + 1 = Len(m)
        BY <2>1, <1>1, WholePrefix
    <2>2. CASE k + 1 # Len(m)
        <3>1. k + 1 \in 0 .. Len(m) - 1
            BY <1>1, <2>2
        <3>2. IsDir(q)
            BY <3>1 DEF WellFormed
        <3> QED
            BY <3>2 DEF IsDir, Exists
    <2> QED
        BY <2>1, <2>2
<1> QED
    BY <1>2, <1>3, <1>4, <1>5 DEF Children

LEMMA RemoveKeepsFolders ==
    ASSUME ServerTypeOK, WellFormed, NEW n \in Nodes, Removes(n)
    PROVE  WellFormed'
<1> SUFFICES ASSUME NEW m \in Nodes, tree'[m] # "none",
                    NEW k \in 0 .. Len(m) - 1
             PROVE  tree'[Prefix(m, k)] = "dir"
    BY DEF WellFormed, Exists, IsDir
<1>1. m # n /\ tree[m] # "none"
    BY DEF Removes, ServerTypeOK, Trees
<1>2. Prefix(m, k) \in Nodes /\ tree[Prefix(m, k)] = "dir"
    <2>1. Prefix(m, k) \in Nodes
        BY NodesArePaths
    <2>2. tree[Prefix(m, k)] = "dir"
        BY <1>1 DEF WellFormed, Exists, IsDir
    <2> QED
        BY <2>1, <2>2
<1>3. Prefix(m, k) # n
    BY <1>1, ChildOnTheWay DEF Removes, Exists
<1> QED
    BY <1>2, <1>3 DEF Removes, ServerTypeOK, Trees

\* Before a rename: the way to the destination consists of folders that do
\* not move, and nothing is below the destination.
LEMMA RenameNeeds ==
    ASSUME WellFormed, NEW src \in Nodes, NEW dst \in Nodes,
           Renames(src, dst), src # dst
    PROVE  /\ \A k \in 0 .. Len(dst) - 1 :
                 IsDir(Prefix(dst, k)) /\ ~Within(Prefix(dst, k), src)
           /\ \A n \in Nodes : Within(n, dst) /\ Exists(n) => n = dst
<1>1. ASSUME NEW k \in 0 .. Len(dst) - 1
      PROVE  IsDir(Prefix(dst, k)) /\ ~Within(Prefix(dst, k), src)
    <2>1. IsDir(Prefix(dst, k))
        BY FoldersAbove DEF Renames
    <2>2. ASSUME Within(Prefix(dst, k), src)
          PROVE  FALSE
        <3> DEFINE q == Prefix(dst, k)
        <3>1. /\ dst \in AllPaths /\ src \in AllPaths /\ k \in 0 .. Len(dst)
              /\ q \in Nodes /\ Len(q) = k /\ Len(src) \in 0 .. k
            BY <2>2, NodesArePaths, PrefixIs DEF Within
        <3>2. Within(dst, src)
            BY <2>2, <3>1, WithinPrefix
        <3>3. Prefix(q, Len(src)) = src
            BY <2>2 DEF Within
        <3>4. IsDir(src)
            <4>1. CASE Len(src) = k
                BY <4>1, <2>1, <3>1, <3>3, WholePrefix, NodesArePaths
            <4>2. CASE Len(src) # k
                <5>1. Len(src) \in 0 .. Len(q) - 1
                    BY <3>1, <4>2
                <5> QED
                    BY <5>1, <2>1, <3>1, <3>3 DEF WellFormed, IsDir, Exists
            <4> QED
                BY <4>1, <4>2
        <3> QED
            BY <3>2, <3>4 DEF Renames, IsFile, IsDir, Contents
    <2> QED
        BY <2>1, <2>2
<1>2. ASSUME NEW n \in Nodes, Within(n, dst), Exists(n)
      PROVE  n = dst
    <2>1. n \in AllPaths /\ dst \in AllPaths /\ Len(dst) \in 0 .. Len(n)
        BY <1>2, NodesArePaths DEF Within
    <2>2. CASE Len(dst) = Len(n)
        BY <1>2, <2>1, <2>2, WholePrefix DEF Within
    <2>3. CASE Len(dst) # Len(n)
        <3>1. Len(dst) \in 0 .. Len(n) - 1
            BY <2>1, <2>3, NodesArePaths
        <3>2. IsDir(dst) /\ Children(dst) # {}
            BY <1>2, <3>1, ChildOnTheWay DEF WellFormed, Within
        <3> QED
            BY <3>2 DEF Renames
    <2> QED
        BY <2>2, <2>3
<1> QED
    BY <1>1, <1>2

LEMMA WithinItself ==
    ASSUME NEW n \in AllPaths
    PROVE  Within(n, n)
BY WholePrefix DEF Within, AllPaths

\* A rename onto itself changes nothing.
LEMMA StaysPut ==
    ASSUME ServerTypeOK, NEW p \in Nodes, Brings(p, p), NEW n \in Nodes
    PROVE  tree'[n] = tree[n]
<1>1. p \in AllPaths /\ n \in AllPaths
    BY NodesArePaths
<1>2. CASE ~Within(n, p)
    BY <1>2 DEF Brings, Moved
<1>3. CASE Within(n, p)
    <2> DEFINE o == Origin(n, p, p)
    <2>1. /\ Len(p) \in Nat /\ Len(n) \in Nat /\ Len(p) <= Len(n)
          /\ Prefix(n, Len(p)) = p
        BY <1>1, <1>3 DEF Within, AllPaths
    <2>2. \A i \in 1 .. Len(p) : p[i] = n[i]
        <3>1. Len(p) \in 0 .. Len(n)
            BY <2>1
        <3> QED
            BY <1>1, <2>1, <3>1, PrefixIs
    <2>3. /\ o \in AllPaths /\ Len(o) = Len(p) + (Len(n) - Len(p))
          /\ \A i \in 1 .. Len(p) : o[i] = p[i]
          /\ \A i \in Len(p) + 1 .. Len(o) : o[i] = n[i - Len(p) + Len(p)]
        BY <1>1, <2>1, OriginIs
    <2> HIDE DEF o
    <2>4. ASSUME NEW i \in 1 .. Len(n)
          PROVE  o[i] = n[i]
        <3>1. CASE i <= Len(p)
            BY <2>1, <2>2, <2>3, <3>1
        <3>2. CASE i > Len(p)
            BY <2>1, <2>3, <3>2
        <3> QED
            BY <2>1, <3>1, <3>2
    <2>5. o = n
        BY <1>1, <2>1, <2>3, <2>4, SeqEqual DEF AllPaths
    <2> QED
        BY <1>3, <2>5 DEF Brings, Moved, Origin, o
<1> QED
    BY <1>2, <1>3

\* After a rename the source is away and the destination there.
LEMMA BringEffect ==
    ASSUME ServerTypeOK, WellFormed, NEW src \in Nodes, NEW dst \in Nodes,
           Brings(src, dst)
    PROVE  /\ tree'[dst] = tree[src] /\ tree'[dst] # "none"
           /\ src = dst \/ tree'[src] = "none"
<1>1. /\ src \in AllPaths /\ dst \in AllPaths
      /\ Len(src) \in Nat /\ Len(dst) \in Nat
      /\ Within(src, src) /\ Within(dst, dst)
    BY NodesArePaths, WithinItself
<1>2. /\ Renames(src, dst) /\ tree[src] # "none"
      /\ tree'[dst] = Moved(dst, src, dst) /\ tree'[src] = Moved(src, src, dst)
    BY DEF Brings, Renames, Exists
<1>3. Origin(dst, src, dst) = src
    BY <1>1, OriginIs, SeqEqual DEF AllPaths
<1>4. tree'[dst] = tree[src] /\ tree'[dst] # "none"
    BY <1>1, <1>2, <1>3 DEF Moved, Origin
<1>5. CASE Within(src, dst)
    BY <1>2, <1>4, <1>5, RenameNeeds DEF Exists
<1>6. CASE ~Within(src, dst)
    <2>1. Moved(src, src, dst) = "none"
        BY <1>1, <1>6 DEF Moved
    <2> QED
        BY <1>2, <1>4, <2>1
<1> QED
    BY <1>5, <1>6

LEMMA BringKeepsFolders ==
    ASSUME ServerTypeOK, WellFormed, NEW src \in Nodes, NEW dst \in Nodes,
           Brings(src, dst)
    PROVE  WellFormed'
<1> SUFFICES ASSUME NEW m \in Nodes, tree'[m] # "none",
                    NEW k \in 0 .. Len(m) - 1
             PROVE  tree'[Prefix(m, k)] = "dir"
    BY DEF WellFormed, Exists, IsDir
<1> DEFINE q == Prefix(m, k)
<1>1. /\ m \in AllPaths /\ src \in AllPaths /\ dst \in AllPaths
      /\ k \in 0 .. Len(m) /\ q \in Nodes /\ Len(q) = k
      /\ Len(dst) \in Nat /\ Len(src) \in Nat /\ Len(m) \in Nat /\ k \in Nat
    BY NodesArePaths, PrefixIs
<1>2. Moved(m, src, dst) # "none" /\ tree'[q] = Moved(q, src, dst)
    BY <1>1 DEF Brings
<1>3. CASE src = dst
    <2>1. tree'[m] = tree[m] /\ tree'[q] = tree[q]
        BY <1>1, <1>3, StaysPut
    <2> QED
        BY <2>1 DEF WellFormed, Exists, IsDir
<1>4. CASE Within(m, dst) /\ k >= Len(dst)
    <2> DEFINE o == Origin(m, src, dst)
               j == Len(src) + (k - Len(dst))
    <2>1. o \in Nodes /\ tree[o] # "none"
        BY <1>2, <1>4 DEF Moved, Origin
    <2>2. Within(q, dst)
        <3>1. Len(dst) \in 0 .. k
            BY <1>1, <1>4
        <3>2. Prefix(q, Len(dst)) = Prefix(m, Len(dst))
            BY <1>1, <3>1, PrefixOfPrefix
        <3> QED
            BY <1>1, <1>4, <3>2 DEF Within
    <2>3. k \in Len(dst) .. Len(m)
        BY <1>1, <1>4
    <2>4. /\ j \in 0 .. Len(o)
          /\ Origin(q, src, dst) = Prefix(o, j)
        BY <1>1, <2>3, OriginPrefix
    <2>5. Len(o) = Len(src) + (Len(m) - Len(dst))
        BY <1>1, <2>3, OriginIs
    <2>6. j \in 0 .. Len(o) - 1
        BY <1>1, <2>3, <2>5
    <2>7. Prefix(o, j) \in Nodes /\ tree[Prefix(o, j)] = "dir"
        BY <2>1, <2>4, <2>6, NodesArePaths DEF WellFormed, Exists, IsDir
    <2>8. Moved(q, src, dst) = tree[Origin(q, src, dst)]
        BY <2>2, <2>4, <2>7 DEF Moved, Origin
    <2> QED
        BY <1>2, <2>4, <2>7, <2>8
<1>5. CASE src # dst /\ Within(m, dst) /\ k < Len(dst)
    <2>1. k \in 0 .. Len(dst) - 1 /\ Len(dst) \in 0 .. Len(m)
          /\ k \in 0 .. Len(dst)
        BY <1>1, <1>5 DEF Within
    <2>2. q = Prefix(dst, k)
        BY <1>1, <1>5, <2>1, PrefixOfPrefix DEF Within
    <2>3. tree[q] = "dir" /\ ~Within(q, src)
        BY <1>5, <2>1, <2>2, RenameNeeds DEF Brings, IsDir
    <2>4. ~Within(q, dst)
        BY <1>1, <1>5 DEF Within
    <2> QED
        BY <1>2, <2>3, <2>4 DEF Moved
<1>6. CASE ~Within(m, dst)
    <2>1. ~Within(m, src) /\ tree[m] # "none"
        BY <1>2, <1>6 DEF Moved
    <2>2. tree[q] = "dir"
        BY <2>1 DEF WellFormed, Exists, IsDir
    <2>3. ~Within(q, src) /\ ~Within(q, dst)
        BY <1>1, <1>6, <2>1, WithinPrefix
    <2> QED
        BY <1>2, <2>2, <2>3 DEF Moved
<1> QED
    BY <1>1, <1>3, <1>4, <1>5, <1>6

LEMMA StepKeepsFolders ==
    ASSUME ServerTypeOK, ClientTypeOK, WellFormed, NEW s \in Clients,
           OnItsWay(s), Step(s)
    PROVE  WellFormed'
<1>1. CASE UNCHANGED tree
    BY <1>1 DEF WellFormed, Exists, IsDir
<1>2. CASE \E n \in Nodes : Makes(n) \/ Removes(n)
    BY <1>2, MakeKeepsFolders, RemoveKeepsFolders
<1>3. CASE \E n \in Nodes, c \in Contents : Puts(n, c)
    BY <1>3, PutKeepsFolders
<1>4. CASE \E src \in Nodes, dst \in Nodes : Brings(src, dst)
    BY <1>4, BringKeepsFolders
<1> QED
    BY <1>1, <1>2, <1>3, <1>4, TreeEffect

LEMMA StepKeepsServer ==
    ASSUME ServerTypeOK, ClientTypeOK, NEW s \in Clients, OnItsWay(s), Step(s)
    PROVE  ServerTypeOK' /\ policies' = policies /\ who' = who
<1>1. tree' \in Trees
    <2>1. CASE UNCHANGED tree
        BY <2>1 DEF ServerTypeOK
    <2>2. CASE \E n \in Nodes : Makes(n) \/ Removes(n)
        BY <2>2 DEF ServerTypeOK, Trees, Makes, Removes, Entries
    <2>3. CASE \E n \in Nodes, c \in Contents : Puts(n, c)
        BY <2>3 DEF ServerTypeOK, Trees, Puts, Entries
    <2>4. CASE \E src \in Nodes, dst \in Nodes : Brings(src, dst)
        <3>1. PICK src \in Nodes, dst \in Nodes : Brings(src, dst)
            BY <2>4
        <3>2. \A n \in Nodes : Moved(n, src, dst) \in Entries
            BY DEF Moved, ServerTypeOK, Trees, Entries
        <3> QED
            BY <3>1, <3>2 DEF Brings, Trees
    <2> QED
        BY <2>1, <2>2, <2>3, <2>4, TreeEffect
<1>2. /\ policies' = policies /\ who' = who /\ changes' = changes
      /\ crashed' \in {crashed, TRUE}
    BY DEF Step, Begin, Finish, ResolveSrc, ResolveDst, MkdirLooks, MkdirMakes,
        TouchTimes, TouchCreates, DelStats, DelUnlinks, DelRemoves, DelEnds,
        MoveLooks, MoveRenames, ListStats, ListReads, ListEntry, ListEnds,
        ReadOpens, WriteOpens, CopyStats, JobTakesChunk, JobReads, JobStores,
        JobDropped, OnlyTalks, OnlyTree, OnlyJob
<1>3. started' \in 0 .. MaxCommands
    <2>1. started' = started \/ (started < MaxCommands /\ started' = started + 1)
        BY DEF Step, Begin, Finish, ResolveSrc, ResolveDst, MkdirLooks,
            MkdirMakes, TouchTimes, TouchCreates, DelStats, DelUnlinks,
            DelRemoves, DelEnds, MoveLooks, MoveRenames, ListStats, ListReads,
            ListEntry, ListEnds, ReadOpens, WriteOpens, CopyStats,
            JobTakesChunk, JobReads, JobStores, JobDropped, OnlyTalks, OnlyTree,
            OnlyJob
    <2> QED
        BY <2>1, FilesAssumption DEF ServerTypeOK
<1> QED
    BY <1>1, <1>2, <1>3 DEF ServerTypeOK

LEMMA ObserveTypes ==
    ASSUME ServerTypeOK', HistoryTypeOK, Observe
    PROVE  HistoryTypeOK'
<1>1. policies' \in PolicyTables /\ \A n \in Nodes : tree'[n] \in Entries
    BY DEF ServerTypeOK, Trees
<1>2. inForce' \in [Clients -> SUBSET PolicyTables]
    BY <1>1 DEF HistoryTypeOK, Observe
<1>3. seen' \in [Clients -> [Nodes -> SUBSET Entries]]
    <2>1. NothingSeen \in [Nodes -> SUBSET Entries]
        BY DEF NothingSeen
    <2>2. ASSUME NEW s \in Clients
          PROVE  [n \in Nodes |-> seen[s][n] \cup {tree'[n]}]
                   \in [Nodes -> SUBSET Entries]
        BY <1>1 DEF HistoryTypeOK
    <2> QED
        BY <2>1, <2>2 DEF HistoryTypeOK, Observe
<1> QED
    BY <1>2, <1>3 DEF HistoryTypeOK

-----------------------------------------------------------------------------
(* What a client's position says of what it noted.                         *)

\* Leave for n, and n is not the server's own.
Granted(s, n, action) == Had(inForce[s], s, n, action) /\ ~Reserved(n)

Refused(s, n, action) ==
    \E t \in inForce[s] : ~Permits(Stored(t), who[s], n, action)

\* The verdict on the first path, while the second is still to be asked for.
FirstVerdict(s) ==
    /\ pc[s] \in {"idle", "src"} => srcErr[s] = "ok"
    /\ pc[s] = "src" => cmd[s].op \in Reads
    /\ pc[s] = "dst" =>
          /\ cmd[s].op \in Writes
          /\ srcErr[s] = "ok" /\ cmd[s].op \in Reads => Granted(s, Src(s), "R")
          /\ srcErr[s] = "denied" =>
                cmd[s].op \in Reads /\ Refused(s, Src(s), "R")

\* Past its questions a command has leave for its paths.
Calling == {"act", "more", "unlink", "entry"}
HasLeave(s) ==
    pc[s] \in Calling =>
        /\ cmd[s].op \in Reads => Granted(s, Src(s), "R")
        /\ cmd[s].op \in Writes => Granted(s, Dst(s), "W")

JobHasLeave(s) ==
    job[s] # NoJob =>
        /\ Had(job[s].leave, s, job[s].dst, "W") /\ ~Reserved(job[s].dst)
        /\ job[s].op = "COPY" => Had(job[s].leave, s, job[s].src, "R")

\* Between the two calls of TOUCH.
MissingOnce(s) == At(s, "TOUCH", "more") => "none" \in seen[s][Dst(s)]

ShownRightly(s) ==
    \A n \in shown[s] : /\ \E e \in seen[s][n] : e # "none"
                        /\ Granted(s, n, "R")

\* An entry that LIST neither shows nor has still to look at.
Excused(s, n) ==
    "none" \in seen[s][n] \/ Reserved(n) \/ Refused(s, n, "R")

Listing(s) ==
    /\ pc[s] \notin {"entry", "done"} => left[s] = {} /\ shown[s] = {}
    /\ pc[s] = "entry" \/ ans[s] = "TABLE" =>
          /\ ShownRightly(s)
          /\ \A n \in Nodes : n # <<>> /\ Parent(n) = Src(s) =>
                Excused(s, n) \/ n \in shown[s] \cup left[s]
    /\ ans[s] = "TABLE" => left[s] = {}

AnswerHonest(s) ==
    /\ ans[s] # "none" => pc[s] = "done"
    /\ ans[s] = "OK" =>
         /\ cmd[s].op \in {"MKDIR", "CHROOT"} => "dir" \in seen[s][Dst(s)]
         /\ cmd[s].op = "TOUCH" => \E e \in seen[s][Dst(s)] : e # "none"
         /\ cmd[s].op = "DEL"   => "none" \in seen[s][Dst(s)]
         /\ cmd[s].op = "MOVE"  => /\ \E e \in seen[s][Dst(s)] : e # "none"
                                   /\ \/ Src(s) = Dst(s)
                                      \/ "none" \in seen[s][Src(s)]
    /\ ans[s] = "DENIED" =>
         \/ cmd[s].op \in Reads /\ Refused(s, Src(s), "R")
         \/ cmd[s].op \in Writes /\ Refused(s, Dst(s), "W")

Notes(s) ==
    /\ OnItsWay(s) /\ FirstVerdict(s) /\ HasLeave(s) /\ JobHasLeave(s)
    /\ MissingOnce(s) /\ Listing(s) /\ AnswerHonest(s)

FilesInv == TypeOK /\ \A s \in Clients : Notes(s)

LEMMA ResolveIs ==
    ASSUME NEW table, NEW u, NEW n, NEW action
    PROVE  /\ resolve(table, u, n, action) \in {"ok", "denied", "reserved"}
           /\ resolve(table, u, n, action) = "ok" =>
                 Permits(table, u, n, action) /\ ~Reserved(n)
           /\ resolve(table, u, n, action) = "denied" <=>
                 ~Permits(table, u, n, action)
BY DEF resolve

\* The variables of client r are as they were, but for its stream.
Same(r) ==
    /\ pc'[r] = pc[r] /\ cmd'[r] = cmd[r] /\ srcErr'[r] = srcErr[r]
    /\ made'[r] = made[r] /\ left'[r] = left[r] /\ shown'[r] = shown[r]
    /\ ans'[r] = ans[r] /\ who'[r] = who[r]

\* A client remembers more and more while a command is under way.
Grows(r) ==
    /\ inForce[r] \subseteq inForce'[r]
    /\ \A n \in Nodes : seen[r][n] \subseteq seen'[r][n]

LEMMA ObserveGrows ==
    ASSUME HistoryTypeOK, Observe, NEW r \in Clients, pc'[r] # "idle"
    PROVE  /\ Grows(r)
           /\ pc[r] # "done" =>
                 /\ inForce'[r] = inForce[r] \cup {policies'}
                 /\ \A n \in Nodes : seen'[r][n] = seen[r][n] \cup {tree'[n]}
BY DEF HistoryTypeOK, Observe, Grows

LEMMA NotesGrow ==
    ASSUME ClientTypeOK, NEW r \in Clients, Same(r), Grows(r), Notes(r),
           JobHasLeave(r)'
    PROVE  Notes(r)'
<1>1. Src(r)' = Src(r) /\ Dst(r)' = Dst(r) /\ Src(r) \in Nodes /\ Dst(r) \in Nodes
    BY DEF Same, Src, Dst, CommandPath, ClientTypeOK
<1>2. ASSUME NEW n, NEW action
      PROVE  /\ Granted(r, n, action) => Granted(r, n, action)'
             /\ Refused(r, n, action) => Refused(r, n, action)'
    BY DEF Granted, Refused, Had, Same, Grows
<1>3. ASSUME NEW n \in Nodes
      PROVE  /\ \A e : e \in seen[r][n] => e \in seen'[r][n]
             /\ Excused(r, n) => Excused(r, n)'
    BY <1>2 DEF Grows, Excused
<1>4. OnItsWay(r)'
    BY <1>1 DEF Notes, OnItsWay, AtMkdir, Same
<1>5. FirstVerdict(r)'
    BY <1>1, <1>2 DEF Notes, FirstVerdict, Same
<1>6. HasLeave(r)'
    BY <1>1, <1>2 DEF Notes, HasLeave, Same
<1>8. MissingOnce(r)'
    BY <1>1, <1>3 DEF Notes, MissingOnce, At, Same
<1>9. Listing(r)'
    <2>1. ShownRightly(r) => ShownRightly(r)'
        BY <1>2, <1>3 DEF ShownRightly, Same, ClientTypeOK
    <2> QED
        BY <1>1, <1>3, <2>1 DEF Notes, Listing, Same
<1>10. AnswerHonest(r)'
    BY <1>1, <1>2, <1>3 DEF Notes, AnswerHonest, Same
<1> QED
    BY <1>4, <1>5, <1>6, <1>8, <1>9, <1>10 DEF Notes

LEMMA JobLeaveKept ==
    ASSUME NEW r \in Clients, JobHasLeave(r), who'[r] = who[r],
           \/ job'[r] \in {job[r], NoJob}
           \/ /\ job[r] # NoJob /\ job'[r].op = job[r].op
              /\ job'[r].src = job[r].src /\ job'[r].dst = job[r].dst
              /\ job'[r].leave = job[r].leave
    PROVE  JobHasLeave(r)'
BY DEF JobHasLeave, Had

LEMMA NotesKept ==
    ASSUME ClientTypeOK, HistoryTypeOK, Observe, NEW r \in Clients, Same(r),
           Notes(r), JobHasLeave(r)'
    PROVE  Notes(r)'
<1>1. CASE pc[r] = "idle"
    <2>1. ans'[r] = "none" /\ pc'[r] = "idle"
        BY <1>1 DEF Notes, AnswerHonest, Same, ClientTypeOK
    <2>2. /\ left'[r] = {} /\ shown'[r] = {} /\ srcErr'[r] = "ok"
          /\ made'[r] = 0
        BY <1>1 DEF Notes, Listing, FirstVerdict, OnItsWay, Same
    <2> QED
        BY <2>1, <2>2
        DEF Notes, OnItsWay, At, AtMkdir, FirstVerdict, HasLeave, Calling,
            MissingOnce, Listing, AnswerHonest
<1>2. CASE pc[r] # "idle"
    BY <1>2, ObserveGrows, NotesGrow DEF Same
<1> QED
    BY <1>1, <1>2

LEMMA OthersSame ==
    ASSUME ClientTypeOK, NEW s \in Clients, NEW r \in Clients \ {s}, Step(s)
    PROVE  Same(r) /\ job'[r] = job[r]
<1> USE DEF ClientTypeOK, Same
<1>1. CASE \E c \in CommandChoices : Begin(s, c)
    BY <1>1 DEF Begin, Goes
<1>2. CASE Finish(s)
    BY <1>2 DEF Finish
<1>3. CASE ResolveSrc(s)
    BY <1>3 DEF ResolveSrc, Goes, Answers, OnlyTalks, NoListing
<1>4. CASE ResolveDst(s)
    BY <1>4 DEF ResolveDst, Goes, Answers, OnlyTalks, NoListing
<1>5. CASE MkdirLooks(s)
    BY <1>5 DEF MkdirLooks, Goes, Answers, OnlyTree
<1>6. CASE MkdirMakes(s)
    BY <1>6 DEF MkdirMakes, Goes, Answers, OnlyTree
<1>7. CASE TouchTimes(s)
    BY <1>7 DEF TouchTimes, Goes, Answers, OnlyTree
<1>8. CASE TouchCreates(s)
    BY <1>8 DEF TouchCreates, Answers, OnlyTree
<1>9. CASE DelStats(s)
    BY <1>9 DEF DelStats, Goes, Answers, OnlyTree
<1>10. CASE DelUnlinks(s)
    BY <1>10 DEF DelUnlinks, Answers, OnlyTree
<1>11. CASE DelRemoves(s)
    BY <1>11 DEF DelRemoves, Goes, Answers, OnlyTree
<1>12. CASE DelEnds(s)
    BY <1>12 DEF DelEnds, Answers, OnlyTree
<1>13. CASE MoveLooks(s) \/ MoveRenames(s)
    BY <1>13 DEF MoveLooks, MoveRenames, Goes, Answers, OnlyTree
<1>14. CASE ListStats(s)
    BY <1>14 DEF ListStats, Goes, Answers, OnlyTalks
<1>15. CASE ListReads(s)
    BY <1>15 DEF ListReads, Goes, Answers, OnlyTalks
<1>16. CASE ListEntry(s)
    BY <1>16 DEF ListEntry, Goes, Answers, OnlyTalks, NoListing
<1>17. CASE ListEnds(s)
    BY <1>17 DEF ListEnds, Answers, OnlyTalks, NoListing
<1>18. CASE ReadOpens(s)
    BY <1>18 DEF ReadOpens, Answers, OnlyTalks, NoListing
<1>19. CASE WriteOpens(s)
    BY <1>19 DEF WriteOpens, OpensJob, Answers, NoListing
<1>20. CASE CopyStats(s)
    BY <1>20 DEF CopyStats, OpensJob, Answers, OnlyTalks, NoListing
<1>21. CASE JobReads(s)
    BY <1>21 DEF JobReads, OnlyJob
<1>22. CASE JobStores(s)
    BY <1>22 DEF JobStores, OnlyJob
<1>23. CASE JobDropped(s)
    BY <1>23 DEF JobDropped, OnlyJob
<1>24. CASE JobTakesChunk(s)
    BY <1>24 DEF JobTakesChunk, OnlyJob
<1> QED
    BY <1>1, <1>2, <1>3, <1>4, <1>5, <1>6, <1>7, <1>8, <1>9, <1>10, <1>11,
        <1>12, <1>13, <1>14, <1>15, <1>16, <1>17, <1>18, <1>19, <1>20, <1>21,
        <1>22, <1>23, <1>24
    DEF Step

-----------------------------------------------------------------------------
(* The client's own steps.                                                 *)

\* Whatever the step, a command under way keeps what it has noted.
LEMMA Progress ==
    ASSUME ClientTypeOK, HistoryTypeOK, Observe, NEW s \in Clients,
           UnderWay(s), pc'[s] # "idle", cmd'[s] = cmd[s], who'[s] = who[s]
    PROVE  /\ Src(s)' = Src(s) /\ Dst(s)' = Dst(s)
           /\ Src(s) \in Nodes /\ Dst(s) \in Nodes
           /\ \A n, action : /\ Granted(s, n, action) => Granted(s, n, action)'
                             /\ Refused(s, n, action) => Refused(s, n, action)'
           /\ \A n \in Nodes : seen'[s][n] = seen[s][n] \cup {tree'[n]}
           /\ inForce'[s] = inForce[s] \cup {policies'}
<1>1. /\ Src(s)' = Src(s) /\ Dst(s)' = Dst(s)
      /\ Src(s) \in Nodes /\ Dst(s) \in Nodes
    BY DEF Src, Dst, CommandPath, ClientTypeOK
<1>2. /\ Grows(s) /\ inForce'[s] = inForce[s] \cup {policies'}
      /\ \A n \in Nodes : seen'[s][n] = seen[s][n] \cup {tree'[n]}
    BY ObserveGrows DEF UnderWay
<1>3. ASSUME NEW n, NEW action
      PROVE  /\ Granted(s, n, action) => Granted(s, n, action)'
             /\ Refused(s, n, action) => Refused(s, n, action)'
    BY <1>2 DEF Granted, Refused, Had, Grows
<1> QED
    BY <1>1, <1>2, <1>3

\* A call of a command other than LIST: what is left to show.
LEMMA CallNotes ==
    ASSUME ClientTypeOK, HistoryTypeOK, Observe, NEW s \in Clients, Notes(s),
           pc[s] \in Calling \ {"entry"},
           pc'[s] \in (Calling \ {"entry"}) \cup {"done"},
           cmd'[s] = cmd[s], who'[s] = who[s],
           left'[s] = left[s], shown'[s] = shown[s],
           pc'[s] # "done" => ans'[s] = ans[s], ans'[s] # "TABLE",
           JobHasLeave(s)', OnItsWay(s)', MissingOnce(s)',
           pc'[s] = "done" => AnswerHonest(s)'
    PROVE  Notes(s)'
<1>1. UnderWay(s) /\ pc'[s] # "idle" /\ pc[s] # "done"
    BY DEF UnderWay, Calling
<1>2. FirstVerdict(s)'
    BY DEF FirstVerdict, Calling
<1>3. HasLeave(s)'
    BY <1>1, Progress DEF HasLeave, Notes
<1>4. Listing(s)'
    BY DEF Listing, Notes, Calling
<1>5. AnswerHonest(s)'
    <2>1. ans[s] = "none"
        BY <1>1 DEF Notes, AnswerHonest
    <2>2. CASE pc'[s] # "done"
        BY <2>1, <2>2 DEF AnswerHonest
    <2> QED
        BY <2>2
<1> QED
    BY <1>2, <1>3, <1>4, <1>5 DEF Notes

LEMMA BeginNotes ==
    ASSUME ClientTypeOK, HistoryTypeOK, Observe, NEW s \in Clients, Notes(s),
           NEW c \in CommandChoices, Begin(s, c)
    PROVE  Notes(s)'
<1>1. /\ pc[s] = "idle" /\ cmd'[s] = c
      /\ pc'[s] = IF c.op \in Reads THEN "src" ELSE "dst"
      /\ srcErr'[s] = srcErr[s] /\ left'[s] = left[s] /\ shown'[s] = shown[s]
      /\ ans'[s] = ans[s] /\ job'[s] = job[s] /\ who'[s] = who[s]
      /\ made'[s] = made[s]
    BY DEF Begin, Goes, ClientTypeOK
<1>2. c.op \in Ops
    BY FilesAssumption DEF Commands
<1>3. JobHasLeave(s)'
    BY <1>1, JobLeaveKept DEF Notes
<1>4. /\ srcErr[s] = "ok" /\ left[s] = {} /\ shown[s] = {} /\ ans[s] = "none"
      /\ made[s] = 0
    BY <1>1 DEF Notes, FirstVerdict, Listing, AnswerHonest, OnItsWay
<1>5. FirstVerdict(s)'
    BY <1>1, <1>2, <1>4 DEF FirstVerdict, Ops
<1> QED
    BY <1>1, <1>3, <1>4, <1>5
    DEF Notes, OnItsWay, At, AtMkdir, HasLeave, Calling, MissingOnce, Listing,
        AnswerHonest

LEMMA FinishNotes ==
    ASSUME ClientTypeOK, NEW s \in Clients, Notes(s), Finish(s)
    PROVE  Notes(s)'
<1>1. /\ pc'[s] = "idle" /\ srcErr'[s] = "ok" /\ left'[s] = {}
      /\ shown'[s] = {} /\ ans'[s] = "none" /\ made'[s] = 0
      /\ job'[s] = job[s] /\ who'[s] = who[s]
    BY DEF Finish, ClientTypeOK
<1>2. JobHasLeave(s)'
    BY <1>1, JobLeaveKept DEF Notes
<1> QED
    BY <1>1, <1>2
    DEF Notes, OnItsWay, At, AtMkdir, FirstVerdict, HasLeave, Calling,
        MissingOnce, Listing, AnswerHonest

LEMMA ResolveSrcNotes ==
    ASSUME ClientTypeOK, HistoryTypeOK, Observe, NEW s \in Clients, Notes(s),
           ResolveSrc(s)
    PROVE  Notes(s)'
<1> DEFINE verdict == resolve(Stored(policies), who[s], Src(s), "R")
<1>1. /\ pc[s] = "src" /\ cmd'[s] = cmd[s] /\ who'[s] = who[s]
      /\ job'[s] = job[s] /\ left'[s] = left[s] /\ shown'[s] = shown[s]
      /\ srcErr'[s] = verdict /\ policies' = policies /\ made'[s] = made[s]
      /\ \/ cmd[s].op \in Writes /\ pc'[s] = "dst" /\ ans'[s] = ans[s]
         \/ /\ cmd[s].op \notin Writes /\ verdict = "ok"
            /\ pc'[s] = "act" /\ ans'[s] = ans[s]
         \/ /\ cmd[s].op \notin Writes /\ verdict # "ok"
            /\ pc'[s] = "done" /\ ans'[s] = Refusal(verdict)
    BY DEF ResolveSrc, Goes, Answers, OnlyTalks, NoListing, ClientTypeOK
<1>2. /\ verdict = "ok" =>
             Permits(Stored(policies), who[s], Src(s), "R") /\ ~Reserved(Src(s))
      /\ verdict = "denied" => ~Permits(Stored(policies), who[s], Src(s), "R")
    BY ResolveIs
<1> HIDE DEF verdict
<1>3. UnderWay(s) /\ pc'[s] # "idle"
    BY <1>1 DEF UnderWay
<1>4. /\ Src(s)' = Src(s) /\ policies \in inForce'[s]
      /\ cmd[s].op \in Reads
      /\ left[s] = {} /\ shown[s] = {} /\ ans[s] = "none"
    BY <1>1, <1>3, Progress DEF Notes, FirstVerdict, Listing, AnswerHonest
<1>5. /\ verdict = "ok" => Granted(s, Src(s), "R")'
      /\ verdict = "denied" => Refused(s, Src(s), "R")'
    BY <1>1, <1>2, <1>4 DEF Granted, Refused, Had
<1>6. JobHasLeave(s)'
    BY <1>1, JobLeaveKept DEF Notes
<1>7. FirstVerdict(s)'
    BY <1>1, <1>4, <1>5 DEF FirstVerdict
<1>8. HasLeave(s)'
    BY <1>1, <1>5 DEF HasLeave, Calling
<1>9. AnswerHonest(s)' /\ Listing(s)'
    BY <1>1, <1>4, <1>5 DEF AnswerHonest, Listing, Refusal
<1>10. OnItsWay(s)' /\ MissingOnce(s)'
    BY <1>1 DEF Notes, OnItsWay, AtMkdir, MissingOnce, At, Writes
<1> QED
    BY <1>6, <1>7, <1>8, <1>9, <1>10 DEF Notes

LEMMA ResolveDstNotes ==
    ASSUME ClientTypeOK, HistoryTypeOK, Observe, NEW s \in Clients, Notes(s),
           ResolveDst(s)
    PROVE  Notes(s)'
<1> DEFINE verdict == resolve(Stored(policies), who[s], Dst(s), "W")
<1>1. /\ pc[s] = "dst" /\ cmd'[s] = cmd[s] /\ who'[s] = who[s]
      /\ job'[s] = job[s] /\ left'[s] = left[s] /\ shown'[s] = shown[s]
      /\ policies' = policies /\ made'[s] = made[s]
      /\ \/ /\ srcErr[s] = "ok" /\ verdict = "ok"
            /\ pc'[s] = "act" /\ ans'[s] = ans[s]
         \/ /\ pc'[s] = "done"
            /\ ans'[s] = IF srcErr[s] = "denied" \/ verdict = "denied"
                         THEN "DENIED" ELSE "FAILED"
    BY DEF ResolveDst, Goes, Answers, OnlyTalks, NoListing, ClientTypeOK
<1>2. /\ verdict = "ok" =>
             Permits(Stored(policies), who[s], Dst(s), "W") /\ ~Reserved(Dst(s))
      /\ verdict = "denied" => ~Permits(Stored(policies), who[s], Dst(s), "W")
    BY ResolveIs
<1> HIDE DEF verdict
<1>3. UnderWay(s) /\ pc'[s] # "idle"
    BY <1>1 DEF UnderWay
<1>4. /\ Src(s)' = Src(s) /\ Dst(s)' = Dst(s) /\ policies \in inForce'[s]
      /\ cmd[s].op \in Writes
      /\ left[s] = {} /\ shown[s] = {} /\ ans[s] = "none"
    BY <1>1, <1>3, Progress DEF Notes, FirstVerdict, Listing, AnswerHonest
<1>5. /\ verdict = "ok" => Granted(s, Dst(s), "W")'
      /\ verdict = "denied" => Refused(s, Dst(s), "W")'
    BY <1>1, <1>2, <1>4 DEF Granted, Refused, Had
<1>6. /\ srcErr[s] = "ok" /\ cmd[s].op \in Reads => Granted(s, Src(s), "R")'
      /\ srcErr[s] = "denied" =>
            cmd[s].op \in Reads /\ Refused(s, Src(s), "R")'
    <2>1. /\ srcErr[s] = "ok" /\ cmd[s].op \in Reads => Granted(s, Src(s), "R")
          /\ srcErr[s] = "denied" =>
                cmd[s].op \in Reads /\ Refused(s, Src(s), "R")
        BY <1>1 DEF Notes, FirstVerdict
    <2>2. \A n, action : /\ Granted(s, n, action) => Granted(s, n, action)'
                         /\ Refused(s, n, action) => Refused(s, n, action)'
        BY <1>1, <1>3, Progress
    <2> QED
        BY <1>1, <1>4, <2>1, <2>2 DEF Granted, Refused, Had
<1>7. JobHasLeave(s)'
    BY <1>1, JobLeaveKept DEF Notes
<1>8. FirstVerdict(s)'
    BY <1>1 DEF FirstVerdict
<1>9. HasLeave(s)'
    BY <1>1, <1>5, <1>6 DEF HasLeave, Calling
<1>10. AnswerHonest(s)' /\ Listing(s)'
    BY <1>1, <1>4, <1>5, <1>6 DEF AnswerHonest, Listing
<1>11. Len(Dst(s)) \in Nat
    BY <1>1, <1>3, Progress, NodesArePaths
<1>12. OnItsWay(s)' /\ MissingOnce(s)'
    BY <1>1, <1>4, <1>11 DEF Notes, OnItsWay, AtMkdir, MissingOnce, At
<1> QED
    BY <1>7, <1>8, <1>9, <1>10, <1>12 DEF Notes

\* MKDIR, TOUCH, DEL, MOVE: what such a call leaves alone, and what it shows.
LEMMA TreeCall ==
    ASSUME ClientTypeOK, HistoryTypeOK, Observe, NEW s \in Clients, Notes(s),
           OnlyTree, pc[s] \in Calling \ {"entry"}, pc'[s] # "idle"
    PROVE  /\ cmd'[s] = cmd[s] /\ who'[s] = who[s]
           /\ left'[s] = left[s] /\ shown'[s] = shown[s] /\ JobHasLeave(s)'
           /\ Src(s)' = Src(s) /\ Dst(s)' = Dst(s)
           /\ Src(s) \in Nodes /\ Dst(s) \in Nodes
           /\ \A n \in Nodes : tree'[n] \in seen'[s][n]
<1>1. /\ cmd'[s] = cmd[s] /\ who'[s] = who[s] /\ job'[s] = job[s]
      /\ left'[s] = left[s] /\ shown'[s] = shown[s]
    BY DEF OnlyTree
<1>2. UnderWay(s)
    BY DEF UnderWay, Calling
<1> QED
    BY <1>1, <1>2, Progress, JobLeaveKept DEF Notes

LEMMA MkdirNotes ==
    ASSUME ServerTypeOK, ClientTypeOK, HistoryTypeOK, Observe,
           NEW s \in Clients, Notes(s), MkdirLooks(s) \/ MkdirMakes(s)
    PROVE  Notes(s)'
<1>1. CASE MkdirLooks(s)
    <2> DEFINE k == Len(Dst(s)) - made[s]
    <2>1. /\ pc[s] = "act" /\ cmd[s].op \in {"MKDIR", "CHROOT"}
          /\ OnlyTree /\ tree' = tree
          /\ \/ pc'[s] = "done" /\ ans'[s] = "FAILED"
             \/ /\ IsDir(Prefix(Dst(s), k)) /\ made[s] = 0
                /\ pc'[s] = "done" /\ ans'[s] = "OK"
             \/ /\ made[s] > 0 /\ pc'[s] = "more" /\ ans'[s] = ans[s]
                /\ made'[s] = k + 1
             \/ /\ k > 0 /\ pc'[s] = "act" /\ ans'[s] = ans[s]
                /\ made'[s] = made[s] + 1
             \/ pc'[s] = "more" /\ ans'[s] = ans[s] /\ made'[s] = 0
        BY <1>1 DEF MkdirLooks, AtMkdir, Goes, Answers, ClientTypeOK
    <2>2. /\ cmd'[s] = cmd[s] /\ who'[s] = who[s]
          /\ left'[s] = left[s] /\ shown'[s] = shown[s] /\ JobHasLeave(s)'
          /\ Dst(s)' = Dst(s) /\ Dst(s) \in Nodes
          /\ \A n \in Nodes : tree'[n] \in seen'[s][n]
        BY <2>1, TreeCall DEF Calling
    <2>3. /\ Len(Dst(s)) \in Nat /\ made[s] \in 0 .. Len(Dst(s))
          /\ Prefix(Dst(s), Len(Dst(s))) = Dst(s)
        BY <2>1, <2>2, NodesArePaths, WholePrefix DEF Notes, OnItsWay, AtMkdir
    <2>4. OnItsWay(s)' /\ MissingOnce(s)'
        <3>1. pc'[s] # "done" => made'[s] \in 0 .. Len(Dst(s))
            BY <2>1, <2>3
        <3> QED
            BY <2>1, <2>2, <3>1 DEF OnItsWay, MissingOnce, At, AtMkdir
    <2>5. pc'[s] = "done" => AnswerHonest(s)'
        <3>1. ans[s] # "OK"
            BY <2>1 DEF Notes, AnswerHonest
        <3>2. made[s] = 0 => k = Len(Dst(s))
            BY <2>3
        <3>3. pc'[s] = "done" /\ ans'[s] = "OK" => tree'[Dst(s)] = "dir"
            BY <2>1, <2>3, <3>1, <3>2 DEF IsDir
        <3>4. pc'[s] = "done" => ans'[s] \in {"OK", "FAILED"}
            BY <2>1
        <3> QED
            BY <2>1, <2>2, <3>3, <3>4 DEF AnswerHonest
    <2>6. ans'[s] # "TABLE" /\ (pc'[s] # "done" => ans'[s] = ans[s])
        BY <2>1 DEF Notes, AnswerHonest
    <2>7. pc'[s] \in {"act", "more", "done"}
        BY <2>1
    <2> QED
        BY <2>1, <2>2, <2>4, <2>5, <2>6, <2>7, CallNotes DEF Calling
<1>2. CASE MkdirMakes(s)
    <2> DEFINE n == Prefix(Dst(s), made[s])
    <2>1. /\ pc[s] = "more" /\ cmd[s].op \in {"MKDIR", "CHROOT"} /\ OnlyTree
          /\ \/ /\ tree' = [tree EXCEPT ![n] = "dir"]
                /\ made'[s] = made[s] + 1
                /\ \/ made[s] = Len(Dst(s)) /\ pc'[s] = "done" /\ ans'[s] = "OK"
                   \/ /\ made[s] # Len(Dst(s))
                      /\ pc'[s] = "more" /\ ans'[s] = ans[s]
             \/ pc'[s] = "done" /\ ans'[s] = "FAILED"
        BY <1>2 DEF MkdirMakes, AtMkdir, Goes, Answers, ClientTypeOK
    <2>2. /\ cmd'[s] = cmd[s] /\ who'[s] = who[s]
          /\ left'[s] = left[s] /\ shown'[s] = shown[s] /\ JobHasLeave(s)'
          /\ Dst(s)' = Dst(s) /\ Dst(s) \in Nodes
          /\ \A m \in Nodes : tree'[m] \in seen'[s][m]
        BY <2>1, TreeCall DEF Calling
    <2>3. made[s] \in 0 .. Len(Dst(s)) /\ Len(Dst(s)) \in Nat
        BY <2>1, <2>2, NodesArePaths DEF Notes, OnItsWay, AtMkdir
    <2>4. OnItsWay(s)' /\ MissingOnce(s)'
        BY <2>1, <2>2, <2>3 DEF OnItsWay, MissingOnce, At, AtMkdir
    <2>5. pc'[s] = "done" => AnswerHonest(s)'
        <3>1. ans'[s] = "OK" => "dir" \in seen'[s][Dst(s)]
            <4>1. Dst(s) \in AllPaths
                BY <2>2, NodesArePaths
            <4>2. Prefix(Dst(s), Len(Dst(s))) = Dst(s)
                BY <4>1, WholePrefix
            <4>3. ans[s] # "OK"
                BY <2>1 DEF Notes, AnswerHonest
            <4>4. ans'[s] = "OK" => tree'[Dst(s)] = "dir"
                BY <2>1, <2>2, <4>2, <4>3 DEF ServerTypeOK, Trees
            <4> QED
                BY <2>2, <4>4
        <3> QED
            BY <2>1, <2>2, <3>1 DEF AnswerHonest
    <2>6. ans'[s] # "TABLE"
        BY <2>1 DEF Notes, AnswerHonest
    <2> QED
        BY <2>1, <2>2, <2>4, <2>5, <2>6, CallNotes DEF Calling
<1> QED
    BY <1>1, <1>2

LEMMA TouchNotes ==
    ASSUME ServerTypeOK, ClientTypeOK, HistoryTypeOK, Observe,
           NEW s \in Clients, Notes(s), TouchTimes(s) \/ TouchCreates(s)
    PROVE  Notes(s)'
<1>1. CASE TouchTimes(s)
    <2>1. /\ pc[s] = "act" /\ cmd[s].op = "TOUCH" /\ OnlyTree /\ tree' = tree
          /\ \/ Exists(Dst(s)) /\ pc'[s] = "done" /\ ans'[s] = "OK"
             \/ pc'[s] = "done" /\ ans'[s] = "FAILED"
             \/ ~Exists(Dst(s)) /\ pc'[s] = "more" /\ ans'[s] = ans[s]
        BY <1>1 DEF TouchTimes, At, Goes, Answers, ClientTypeOK
    <2>2. /\ cmd'[s] = cmd[s] /\ who'[s] = who[s]
          /\ left'[s] = left[s] /\ shown'[s] = shown[s] /\ JobHasLeave(s)'
          /\ Dst(s)' = Dst(s) /\ Dst(s) \in Nodes
          /\ \A n \in Nodes : tree'[n] \in seen'[s][n]
        BY <2>1, TreeCall DEF Calling
    <2>3. OnItsWay(s)' /\ MissingOnce(s)'
        BY <2>1, <2>2 DEF OnItsWay, MissingOnce, At, AtMkdir, Exists
    <2>4. pc'[s] = "done" => AnswerHonest(s)'
        BY <2>1, <2>2 DEF AnswerHonest, Exists
    <2>5. ans'[s] # "TABLE"
        BY <2>1 DEF Notes, AnswerHonest
    <2> QED
        BY <2>1, <2>2, <2>3, <2>4, <2>5, CallNotes DEF Calling
<1>2. CASE TouchCreates(s)
    <2>1. /\ pc[s] = "more" /\ cmd[s].op = "TOUCH" /\ OnlyTree
          /\ pc'[s] = "done"
          /\ \/ ans'[s] = "OK" /\ tree' = [tree EXCEPT ![Dst(s)] = "empty"]
             \/ ans'[s] = "FAILED"
        BY <1>2 DEF TouchCreates, At, Answers, ClientTypeOK
    <2>2. /\ cmd'[s] = cmd[s] /\ who'[s] = who[s]
          /\ left'[s] = left[s] /\ shown'[s] = shown[s] /\ JobHasLeave(s)'
          /\ Dst(s)' = Dst(s) /\ Dst(s) \in Nodes
          /\ \A n \in Nodes : tree'[n] \in seen'[s][n]
        BY <2>1, TreeCall DEF Calling
    <2>3. OnItsWay(s)' /\ MissingOnce(s)'
        BY <2>1 DEF OnItsWay, MissingOnce, At, AtMkdir
    <2>4. ans'[s] = "OK" => tree'[Dst(s)] = "empty"
        BY <2>1, <2>2 DEF ServerTypeOK, Trees
    <2>5. AnswerHonest(s)'
        BY <2>1, <2>2, <2>4 DEF AnswerHonest
    <2> QED
        BY <2>1, <2>2, <2>3, <2>5, CallNotes DEF Calling
<1> QED
    BY <1>1, <1>2

LEMMA DelNotes ==
    ASSUME ServerTypeOK, ClientTypeOK, HistoryTypeOK, Observe,
           NEW s \in Clients, Notes(s),
           DelStats(s) \/ DelUnlinks(s) \/ DelRemoves(s) \/ DelEnds(s)
    PROVE  Notes(s)'
<1>1. /\ pc[s] \in Calling \ {"entry"} /\ cmd[s].op = "DEL" /\ OnlyTree
      /\ \/ pc'[s] \in {"unlink", "more"} /\ ans'[s] = ans[s]
         \/ pc'[s] = "done" /\ ans'[s] = "FAILED"
         \/ pc'[s] = "done" /\ ans'[s] = "OK" /\ tree'[Dst(s)] = "none"
    <2>1. Dst(s) \in Nodes /\ \A n \in Nodes :
              [tree EXCEPT ![n] = "none"][n] = "none"
        BY DEF ClientTypeOK, ServerTypeOK, Trees
    <2>2. CASE DelStats(s)
        BY <2>2 DEF DelStats, At, Goes, Answers, ClientTypeOK, Calling
    <2>3. CASE DelUnlinks(s)
        BY <2>1, <2>3 DEF DelUnlinks, At, Answers, ClientTypeOK, Calling
    <2>4. CASE DelRemoves(s)
        BY <2>1, <2>4 DEF DelRemoves, At, Goes, Answers, ClientTypeOK, Calling
    <2>5. CASE DelEnds(s)
        BY <2>1, <2>5 DEF DelEnds, At, Answers, ClientTypeOK, Calling, Exists
    <2> QED
        BY <2>2, <2>3, <2>4, <2>5
<1>2. /\ cmd'[s] = cmd[s] /\ who'[s] = who[s]
      /\ left'[s] = left[s] /\ shown'[s] = shown[s] /\ JobHasLeave(s)'
      /\ Dst(s)' = Dst(s) /\ Dst(s) \in Nodes
      /\ \A n \in Nodes : tree'[n] \in seen'[s][n]
    BY <1>1, TreeCall DEF Calling
<1>3. OnItsWay(s)' /\ MissingOnce(s)'
    BY <1>1, <1>2 DEF OnItsWay, MissingOnce, At, AtMkdir
<1>4. pc'[s] = "done" => AnswerHonest(s)'
    BY <1>1, <1>2 DEF AnswerHonest
<1>5. ans'[s] # "TABLE"
    BY <1>1 DEF Notes, AnswerHonest, Calling
<1> QED
    BY <1>1, <1>2, <1>3, <1>4, <1>5, CallNotes DEF Calling

LEMMA MoveNotes ==
    ASSUME ServerTypeOK, ClientTypeOK, HistoryTypeOK, WellFormed, Observe,
           NEW s \in Clients, Notes(s), MoveLooks(s) \/ MoveRenames(s)
    PROVE  Notes(s)'
<1> DEFINE src == Src(s)  dst == Dst(s)
<1>1. /\ pc[s] \in {"act", "more"} /\ cmd[s].op = "MOVE" /\ OnlyTree
      /\ \/ pc'[s] = "done" /\ ans'[s] = "OK" /\ Brings(src, dst)
         \/ pc'[s] = "done" /\ ans'[s] = "FAILED"
         \/ pc'[s] = "more" /\ ans'[s] = ans[s]
    BY DEF MoveLooks, MoveRenames, At, Goes, Answers, ClientTypeOK, Brings
<1>2. /\ cmd'[s] = cmd[s] /\ who'[s] = who[s]
      /\ left'[s] = left[s] /\ shown'[s] = shown[s] /\ JobHasLeave(s)'
      /\ Src(s)' = src /\ Dst(s)' = dst /\ src \in Nodes /\ dst \in Nodes
      /\ \A n \in Nodes : tree'[n] \in seen'[s][n]
    BY <1>1, TreeCall DEF Calling
<1> HIDE DEF src, dst
<1>3. Brings(src, dst) =>
          /\ tree'[dst] # "none"
          /\ src = dst \/ tree'[src] = "none"
    BY <1>2, BringEffect
<1>4. pc'[s] = "done" => AnswerHonest(s)'
    BY <1>1, <1>2, <1>3 DEF AnswerHonest
<1>5. OnItsWay(s)' /\ MissingOnce(s)'
    BY <1>1, <1>2 DEF OnItsWay, MissingOnce, At, AtMkdir
<1>6. ans'[s] # "TABLE" /\ (pc'[s] # "done" => ans'[s] = ans[s])
    BY <1>1 DEF Notes, AnswerHonest
<1> QED
    BY <1>1, <1>2, <1>4, <1>5, <1>6, CallNotes DEF Calling

LEMMA ListNotes ==
    ASSUME ServerTypeOK, ClientTypeOK, HistoryTypeOK, WellFormed, Observe,
           NEW s \in Clients, Notes(s),
           ListStats(s) \/ ListReads(s) \/ ListEntry(s) \/ ListEnds(s)
    PROVE  Notes(s)'
<1> DEFINE p == Src(s)
<1>1. /\ pc[s] \in Calling /\ cmd[s].op = "LIST" /\ OnlyTalks
      /\ job'[s] = job[s]
      /\ \/ ListStats(s) /\ pc[s] = "act"
         \/ ListReads(s) /\ pc[s] = "more"
         \/ (ListEntry(s) \/ ListEnds(s)) /\ pc[s] = "entry"
    BY DEF ListStats, ListReads, ListEntry, ListEnds, At, Calling
<1>2. pc'[s] \in Calling \cup {"done"}
    BY <1>1 DEF ListStats, ListReads, ListEntry, ListEnds, Goes, Answers,
        Calling, ClientTypeOK
<1>3. /\ cmd'[s] = cmd[s] /\ who'[s] = who[s] /\ Src(s)' = p /\ p \in Nodes
      /\ \A n, action : /\ Granted(s, n, action) => Granted(s, n, action)'
                        /\ Refused(s, n, action) => Refused(s, n, action)'
      /\ \A n \in Nodes : seen'[s][n] = seen[s][n] \cup {tree'[n]}
      /\ inForce'[s] = inForce[s] \cup {policies'}
      /\ policies' = policies /\ tree' = tree
    BY <1>1, <1>2, Progress DEF OnlyTalks, UnderWay, Calling
<1>4. /\ Granted(s, p, "R") /\ Granted(s, p, "R")'
      /\ ans[s] = "none"
    BY <1>1, <1>3 DEF Notes, HasLeave, AnswerHonest, Reads, Calling
<1>5. JobHasLeave(s)'
    BY <1>1, <1>3, JobLeaveKept DEF Notes
<1>6. FirstVerdict(s)' /\ OnItsWay(s)' /\ MissingOnce(s)'
    BY <1>1, <1>2, <1>3
    DEF FirstVerdict, OnItsWay, AtMkdir, MissingOnce, At, Calling
<1>7. HasLeave(s)'
    BY <1>1, <1>3, <1>4 DEF HasLeave, Writes
<1>8. AnswerHonest(s)' /\ Listing(s)'
    <2>1. CASE ListStats(s)
        <3>1. /\ left'[s] = left[s] /\ left[s] = {} /\ shown[s] = {}
              /\ \/ pc'[s] = "more" /\ ans'[s] = ans[s] /\ shown'[s] = shown[s]
                 \/ /\ IsFile(p) /\ pc'[s] = "done" /\ ans'[s] = "TABLE"
                    /\ shown'[s] = {p}
                 \/ pc'[s] = "done" /\ ans'[s] = "FAILED"
            BY <1>1, <2>1
            DEF ListStats, Goes, Answers, ClientTypeOK, Notes, Listing, At
        <3>2. ASSUME IsFile(p), NEW n \in Nodes, n # <<>>, Parent(n) = p
              PROVE  Excused(s, n)'
            <4>1. tree[n] = "none"
                BY <3>2, FolderIsNode
                DEF WellFormed, Exists, IsDir, IsFile, Contents
            <4> QED
                BY <1>3, <4>1 DEF Excused
        <3>3. ASSUME IsFile(p), shown'[s] = {p}
              PROVE  ShownRightly(s)'
            <4>1. tree[p] \in seen'[s][p] /\ tree[p] # "none"
                BY <1>3, <3>3 DEF IsFile, Contents
            <4>2. ASSUME NEW n, n = p
                  PROVE  Granted(s, n, "R")'
                BY <1>3, <1>4, <4>2
            <4> QED
                BY <3>3, <4>1, <4>2 DEF ShownRightly
        <3>4. Listing(s)'
            BY <1>3, <1>4, <3>1, <3>2, <3>3 DEF Listing
        <3> QED
            BY <1>1, <1>3, <1>4, <3>1, <3>4 DEF AnswerHonest
    <2>2. CASE ListReads(s)
        <3>1. /\ left[s] = {} /\ shown[s] = {} /\ shown'[s] = shown[s]
              /\ \/ /\ pc'[s] = "entry" /\ ans'[s] = ans[s]
                    /\ left'[s] = Children(p)
                 \/ pc'[s] = "done" /\ ans'[s] = "FAILED"
            BY <1>1, <2>2
            DEF ListReads, Goes, Answers, ClientTypeOK, Notes, Listing, At
        <3>2. ASSUME NEW n \in Nodes, n # <<>>, Parent(n) = p
              PROVE  Excused(s, n)' \/ n \in Children(p)
            BY <1>3, <3>2 DEF Excused, Children, Exists
        <3>3. ShownRightly(s)'
            BY <3>1 DEF ShownRightly
        <3>4. Listing(s)'
            BY <1>3, <1>4, <3>1, <3>2, <3>3 DEF Listing
        <3> QED
            BY <1>1, <1>3, <1>4, <3>1, <3>4 DEF AnswerHonest
    <2>3. CASE ListEntry(s)
        <3>1. pc[s] = "entry"
            BY <2>3 DEF ListEntry, At
        <3>2. /\ ShownRightly(s)
              /\ \A n \in Nodes : n # <<>> /\ Parent(n) = p =>
                    Excused(s, n) \/ n \in shown[s] \cup left[s]
            BY <3>1 DEF Notes, Listing
        <3>3. PICK m \in left[s] :
                LET verdict == resolve(Stored(policies), who[s], m, "R")
                IN  \/ /\ Exists(m) /\ pc'[s] = "entry" /\ ans'[s] = ans[s]
                       /\ shown'[s] = IF verdict = "ok" THEN shown[s] \cup {m}
                                                        ELSE shown[s]
                       /\ left'[s] = left[s] \ {m}
                    \/ pc'[s] = "done" /\ ans'[s] = "FAILED"
            BY <2>3 DEF ListEntry, Goes, Answers, NoListing, ClientTypeOK
        <3> DEFINE verdict == resolve(Stored(policies), who[s], m, "R")
        <3>4. /\ m \in Nodes
              /\ verdict \in {"ok", "denied", "reserved"}
              /\ verdict = "ok" =>
                   Permits(Stored(policies), who[s], m, "R") /\ ~Reserved(m)
              /\ verdict = "denied" => ~Permits(Stored(policies), who[s], m, "R")
              /\ verdict = "reserved" => Reserved(m)
            BY ResolveIs DEF ClientTypeOK, resolve
        <3> HIDE DEF verdict
        <3>5. /\ verdict = "ok" => Granted(s, m, "R")'
              /\ verdict # "ok" => Excused(s, m)'
            BY <1>3, <3>4 DEF Granted, Had, Excused, Refused
        <3>6. ASSUME NEW n \in Nodes
              PROVE  /\ Excused(s, n) => Excused(s, n)'
                     /\ \A e : e \in seen[s][n] => e \in seen'[s][n]
            BY <1>3 DEF Excused
        <3>7. CASE pc'[s] = "entry"
            <4>1. /\ Exists(m) /\ ans'[s] = "none"
                  /\ shown'[s] = IF verdict = "ok" THEN shown[s] \cup {m}
                                                   ELSE shown[s]
                  /\ left'[s] = left[s] \ {m}
                BY <1>4, <3>3, <3>7 DEF verdict
            <4>2. shown[s] \subseteq Nodes
                BY DEF ClientTypeOK
            <4>3. tree[m] \in seen'[s][m] /\ tree[m] # "none"
                BY <1>3, <3>4, <4>1 DEF Exists
            <4>4. ShownRightly(s)'
                BY <1>3, <3>2, <3>5, <3>6, <4>1, <4>2, <4>3 DEF ShownRightly
            <4>5. \A n \in Nodes : n # <<>> /\ Parent(n) = p =>
                    Excused(s, n)' \/ n \in shown'[s] \cup left'[s]
                BY <3>2, <3>5, <3>6, <4>1
            <4>6. Listing(s)'
                BY <1>3, <3>7, <4>1, <4>4, <4>5 DEF Listing
            <4> QED
                BY <4>1, <4>6 DEF AnswerHonest
        <3>8. CASE pc'[s] # "entry"
            BY <3>3, <3>8 DEF Listing, AnswerHonest
        <3> QED
            BY <3>7, <3>8
    <2>4. CASE ListEnds(s)
        <3>1. /\ pc[s] = "entry" /\ left[s] = {} /\ left'[s] = left[s]
              /\ shown'[s] = shown[s] /\ pc'[s] = "done" /\ ans'[s] = "TABLE"
            BY <2>4 DEF ListEnds, At, Answers, NoListing, ClientTypeOK
        <3>2. /\ ShownRightly(s) /\ shown[s] \subseteq Nodes
              /\ \A n \in Nodes : n # <<>> /\ Parent(n) = p =>
                    Excused(s, n) \/ n \in shown[s]
            BY <3>1 DEF Notes, Listing, ClientTypeOK
        <3>3. ASSUME NEW n \in Nodes
              PROVE  /\ Excused(s, n) => Excused(s, n)'
                     /\ \A e : e \in seen[s][n] => e \in seen'[s][n]
            BY <1>3 DEF Excused
        <3>4. ShownRightly(s)'
            BY <1>3, <3>1, <3>2, <3>3 DEF ShownRightly
        <3>5. Listing(s)'
            BY <1>3, <3>1, <3>2, <3>3, <3>4 DEF Listing
        <3> QED
            BY <3>1, <3>5 DEF AnswerHonest
    <2> QED
        BY <1>1, <2>1, <2>2, <2>3, <2>4
<1> QED
    BY <1>5, <1>6, <1>7, <1>8 DEF Notes

\* The stream that a command opens has the command's leave.
LEMMA OpenNotes ==
    ASSUME ClientTypeOK, HistoryTypeOK, Observe, NEW s \in Clients, Notes(s),
           ReadOpens(s) \/ WriteOpens(s) \/ CopyStats(s)
    PROVE  Notes(s)'
<1>1. /\ pc[s] = "act" /\ cmd[s].op \in {"READ", "WRITE", "COPY"}
      /\ cmd'[s] = cmd[s] /\ who'[s] = who[s]
      /\ left'[s] = left[s] /\ shown'[s] = shown[s]
      /\ \/ pc'[s] = "done" /\ ans'[s] \in {"ID", "FAILED"}
         \/ pc'[s] = pc[s] /\ ans'[s] = ans[s]
      /\ \/ job'[s] = job[s]
         \/ cmd[s].op \in {"WRITE", "COPY"} /\ job'[s] = NewJob(s)
    <2>1. CASE ReadOpens(s)
        BY <2>1 DEF ReadOpens, At, Answers, OnlyTalks, NoListing, ClientTypeOK
    <2>2. CASE WriteOpens(s)
        BY <2>2 DEF WriteOpens, OpensJob, At, Answers, NoListing, ClientTypeOK
    <2>3. CASE CopyStats(s)
        BY <2>3
        DEF CopyStats, OpensJob, At, Answers, OnlyTalks, NoListing,
            ClientTypeOK
    <2> QED
        BY <2>1, <2>2, <2>3
<1>2. JobHasLeave(s)'
    <2>1. CASE job'[s] = job[s]
        BY <1>1, <2>1, JobLeaveKept DEF Notes
    <2>2. CASE cmd[s].op \in {"WRITE", "COPY"} /\ job'[s] = NewJob(s)
        <3>1. /\ Granted(s, Dst(s), "W")
              /\ cmd[s].op = "COPY" => Granted(s, Src(s), "R")
            BY <1>1, <2>2 DEF Notes, HasLeave, Calling, Reads, Writes
        <3>2. /\ job'[s].op = cmd[s].op /\ job'[s].leave = inForce[s]
              /\ job'[s].src = Src(s) /\ job'[s].dst = Dst(s)
            BY <2>2 DEF NewJob
        <3> QED
            BY <1>1, <3>1, <3>2 DEF JobHasLeave, Granted, Had
    <2> QED
        BY <1>1, <2>1, <2>2
<1>3. OnItsWay(s)' /\ MissingOnce(s)'
    BY <1>1 DEF OnItsWay, MissingOnce, At, AtMkdir
<1>4. pc'[s] = "done" => AnswerHonest(s)'
    BY <1>1 DEF AnswerHonest
<1>5. ans'[s] # "TABLE" /\ (pc'[s] # "done" => ans'[s] = ans[s])
    BY <1>1 DEF Notes, AnswerHonest
<1> QED
    BY <1>1, <1>2, <1>3, <1>4, <1>5, CallNotes DEF Calling

LEMMA JobNotes ==
    ASSUME ClientTypeOK, HistoryTypeOK, Observe, NEW s \in Clients, Notes(s),
           JobTakesChunk(s) \/ JobReads(s) \/ JobStores(s) \/ JobDropped(s)
    PROVE  Notes(s)'
<1>1. Same(s)
    BY DEF JobTakesChunk, JobReads, JobStores, JobDropped, OnlyJob, Same
<1>2. \/ job'[s] = NoJob
      \/ /\ job[s] # NoJob /\ job'[s].op = job[s].op
         /\ job'[s].src = job[s].src /\ job'[s].dst = job[s].dst
         /\ job'[s].leave = job[s].leave
    <2>1. CASE JobTakesChunk(s) \/ JobReads(s)
        <3>1. ASSUME job[s] # NoJob, NEW c
              PROVE  LET j == [job[s] EXCEPT !.content = c]
                     IN  /\ j.op = job[s].op /\ j.src = job[s].src
                         /\ j.dst = job[s].dst /\ j.leave = job[s].leave
            BY <3>1 DEF ClientTypeOK, Jobs
        <3>2. \/ job'[s] = NoJob
              \/ /\ job[s] # NoJob
                 /\ job'[s] \in {[job[s] EXCEPT !.content = "new"],
                                 [job[s] EXCEPT !.content = tree[job[s].src]]}
            BY <2>1 DEF JobTakesChunk, JobReads, ClientTypeOK
        <3> QED
            BY <3>1, <3>2
    <2>2. CASE JobStores(s) \/ JobDropped(s)
        BY <2>2 DEF JobStores, JobDropped, ClientTypeOK
    <2> QED
        BY <2>1, <2>2
<1>3. JobHasLeave(s)'
    BY <1>1, <1>2, JobLeaveKept DEF Notes, Same
<1> QED
    BY <1>1, <1>3, NotesKept

LEMMA StepNotes ==
    ASSUME TypeOK, Observe, NEW s \in Clients, Notes(s), Step(s)
    PROVE  Notes(s)'
BY BeginNotes, FinishNotes, ResolveSrcNotes, ResolveDstNotes, MkdirNotes,
   TouchNotes, DelNotes, MoveNotes, ListNotes, OpenNotes, JobNotes
DEF TypeOK, Step

-----------------------------------------------------------------------------
(* The invariant.                                                          *)

LEMMA FilesInit == Init => FilesInv
<1> SUFFICES ASSUME Init
             PROVE  FilesInv
    OBVIOUS
<1>1. TypeOK
    BY InitTypes DEF Init, TypeOK
<1>2. ASSUME NEW s \in Clients
      PROVE  Notes(s)
    BY DEF Init, Notes, OnItsWay, At, AtMkdir, FirstVerdict, HasLeave, Calling,
        JobHasLeave, MissingOnce, Listing, AnswerHonest
<1> QED
    BY <1>1, <1>2 DEF FilesInv

LEMMA FilesInvStep == FilesInv /\ [Next]_vars => FilesInv'
<1> SUFFICES ASSUME FilesInv, [Next]_vars
             PROVE  FilesInv'
    OBVIOUS
<1> USE DEF FilesInv
<1>1. CASE UNCHANGED vars
    <2>1. TypeOK'
        BY <1>1
        DEF vars, clientVars, history, TypeOK, ServerTypeOK, ClientTypeOK,
            HistoryTypeOK, WellFormed, Exists, IsDir, Src, Dst, CommandPath
    <2>2. ASSUME NEW r \in Clients
          PROVE  Notes(r)'
        <3>1. Same(r) /\ job'[r] = job[r] /\ Grows(r)
            BY <1>1 DEF vars, clientVars, history, Same, Grows
        <3>2. JobHasLeave(r)'
            BY <3>1, JobLeaveKept DEF Notes, Same
        <3> QED
            BY <3>1, <3>2, NotesGrow DEF TypeOK
    <2> QED
        BY <2>1, <2>2
<1>2. ASSUME NEW s \in Clients, Step(s), Observe
      PROVE  FilesInv'
    <2>1. /\ ServerTypeOK /\ ClientTypeOK /\ HistoryTypeOK /\ WellFormed
          /\ OnItsWay(s)
        BY DEF TypeOK, Notes
    <2>2. ServerTypeOK' /\ who' = who
        BY <1>2, <2>1, StepKeepsServer
    <2>3. ClientTypeOK'
        BY <1>2, <2>1, StepTypes
    <2>4. HistoryTypeOK'
        BY <1>2, <2>1, <2>2, ObserveTypes
    <2>5. WellFormed'
        BY <1>2, <2>1, StepKeepsFolders
    <2>6. ASSUME NEW r \in Clients \ {s}
          PROVE  Notes(r)'
        <3>1. Same(r) /\ job'[r] = job[r]
            BY <1>2, <2>1, OthersSame
        <3>2. JobHasLeave(r)'
            BY <3>1, JobLeaveKept DEF Notes, Same
        <3> QED
            BY <1>2, <2>1, <3>1, <3>2, NotesKept
    <2>7. Notes(s)'
        BY <1>2, StepNotes
    <2> QED
        BY <2>2, <2>3, <2>4, <2>5, <2>6, <2>7 DEF TypeOK
<1>3. ASSUME NEW p \in PolicyNames, NEW policy \in PolicyChoices \cup {NoPolicy},
             ChangePolicy(p, policy), Observe
      PROVE  FilesInv'
    <2>1. policies' \in PolicyTables /\ changes' \in 0 .. MaxChanges
        BY <1>3, FilesAssumption DEF ChangePolicy, TypeOK, ServerTypeOK,
            PolicyTables
    <2>2. ServerTypeOK' /\ ClientTypeOK' /\ WellFormed'
        BY <1>3, <2>1
        DEF ChangePolicy, clientVars, TypeOK, ServerTypeOK, ClientTypeOK, Src,
            Dst, CommandPath, WellFormed, Exists, IsDir
    <2>3. HistoryTypeOK'
        BY <1>3, <2>2, ObserveTypes DEF TypeOK
    <2>4. ASSUME NEW r \in Clients
          PROVE  Notes(r)'
        <3>1. Same(r) /\ job'[r] = job[r]
            BY <1>3 DEF ChangePolicy, clientVars, Same
        <3>2. JobHasLeave(r)'
            BY <3>1, JobLeaveKept DEF Notes, Same
        <3> QED
            BY <1>3, <3>1, <3>2, NotesKept DEF TypeOK
    <2> QED
        BY <2>2, <2>3, <2>4 DEF TypeOK
<1> QED
    BY <1>1, <1>2, <1>3 DEF Next

LEMMA Invariance == Spec => []FilesInv
BY FilesInit, FilesInvStep, PTL DEF Spec

\* Every variable holds values of its kind; whatever MKDIR, DEL, MOVE and
\* uploads do to the tree between one another's calls (mkdir.go, del.go,
\* move.go, streams.go), every entry stays in a folder.
THEOREM TypeSafety == Spec => []TypeOK
<1>1. FilesInv => TypeOK
    BY DEF FilesInv
<1> QED
    BY <1>1, Invariance, PTL

\* LIST shows what was there and readable at some moment, and all that was
\* there and readable all the time, although it reads the folder, each entry
\* and the policies one after the other (list.go).
THEOREM ListSafety == Spec => []ListIsHonest
<1>1. FilesInv => ListIsHonest
    <2> SUFFICES ASSUME FilesInv, NEW s \in Clients, ans[s] = "TABLE"
                 PROVE  /\ \A n \in shown[s] :
                              /\ seen[s][n] # {"none"} /\ ~Reserved(n)
                              /\ Had(inForce[s], s, n, "R")
                        /\ \A n \in Nodes :
                              /\ n # <<>> /\ Parent(n) = Src(s)
                              /\ "none" \notin seen[s][n] /\ ~Reserved(n)
                              /\ \A t \in inForce[s] :
                                     Permits(Stored(t), who[s], n, "R")
                              => n \in shown[s]
        BY DEF ListIsHonest
    <2>1. /\ ShownRightly(s) /\ left[s] = {}
          /\ \A n \in Nodes : n # <<>> /\ Parent(n) = Src(s) =>
                Excused(s, n) \/ n \in shown[s]
        BY DEF FilesInv, Notes, Listing
    <2>2. \A n \in shown[s] : /\ seen[s][n] # {"none"} /\ ~Reserved(n)
                              /\ Had(inForce[s], s, n, "R")
        BY <2>1 DEF ShownRightly, Granted
    <2> QED
        BY <2>1, <2>2 DEF Excused, Refused
<1> QED
    BY <1>1, Invariance, PTL

\* The answers of MKDIR, CHROOT, TOUCH, DEL and MOVE were true at some moment of the
\* command, and DENIED is only answered when leave was missing.
THEOREM AnswerSafety == Spec => []AnswersHonest
<1>1. FilesInv => AnswersHonest
    <2> SUFFICES ASSUME FilesInv, NEW s \in Clients
                 PROVE  /\ ans[s] = "OK" =>
                             /\ cmd[s].op \in {"MKDIR", "CHROOT"} =>
                                   "dir" \in seen[s][Dst(s)]
                             /\ cmd[s].op = "TOUCH" => seen[s][Dst(s)] # {"none"}
                             /\ cmd[s].op = "DEL" => "none" \in seen[s][Dst(s)]
                             /\ cmd[s].op = "MOVE" =>
                                   /\ seen[s][Dst(s)] # {"none"}
                                   /\ \/ Src(s) = Dst(s)
                                      \/ "none" \in seen[s][Src(s)]
                        /\ ans[s] = "DENIED" =>
                             \/ cmd[s].op \in Reads /\ Refused(s, Src(s), "R")
                             \/ cmd[s].op \in Writes /\ Refused(s, Dst(s), "W")
        BY DEF AnswersHonest, Refused
    <2> QED
        BY DEF FilesInv, Notes, AnswerHonest
<1> QED
    BY <1>1, Invariance, PTL

-----------------------------------------------------------------------------
(* Who changes what in the tree.                                           *)

ChangesByMkdir(s, n) ==
    /\ cmd[s].op \in {"MKDIR", "CHROOT"} /\ Within(Dst(s), n)
    /\ tree'[n] = "dir"
ChangesByTouch(s, n) ==
    At(s, "TOUCH", "more") /\ n = Dst(s)
ChangesByDel(s, n) ==
    cmd[s].op = "DEL" /\ Within(n, Dst(s)) /\ tree'[n] = "none"
ChangesByMove(s, n) ==
    /\ At(s, "MOVE", "more") /\ Brings(Src(s), Dst(s))
    /\ Within(n, Dst(s)) \/ Within(n, Src(s))
ChangesByJob(s, n) ==
    job[s] # NoJob /\ n = job[s].dst /\ tree'[n] = job[s].content

LEMMA StepChanges ==
    ASSUME FilesInv, NEW s \in Clients, Step(s),
           NEW n \in Nodes, tree'[n] # tree[n]
    PROVE  \/ /\ pc[s] \in Calling
              /\ \/ ChangesByMkdir(s, n) \/ ChangesByTouch(s, n)
                 \/ ChangesByDel(s, n) \/ ChangesByMove(s, n)
           \/ ChangesByJob(s, n)
<1>1. /\ ServerTypeOK /\ ClientTypeOK /\ Notes(s)
      /\ Src(s) \in Nodes /\ Dst(s) \in Nodes
    BY DEF FilesInv, TypeOK, ClientTypeOK
<1>2. ASSUME NEW m \in Nodes, NEW e, tree' = [tree EXCEPT ![m] = e]
      PROVE  n = m /\ tree'[n] = e
    BY <1>1, <1>2 DEF ServerTypeOK, Trees
<1>3. CASE MkdirMakes(s)
    <2>1. Dst(s) \in AllPaths /\ made[s] \in 0 .. Len(Dst(s))
        BY <1>1, <1>3, NodesArePaths DEF MkdirMakes, Notes, OnItsWay, AtMkdir
    <2>2. /\ Prefix(Dst(s), made[s]) \in Nodes
          /\ Within(Dst(s), Prefix(Dst(s), made[s]))
        <3>1. Prefix(Dst(s), made[s]) \in Nodes
            BY <1>1, <2>1, NodesArePaths
        <3>2. Len(Prefix(Dst(s), made[s])) = made[s]
            BY <2>1, PrefixIs
        <3> QED
            BY <2>1, <3>1, <3>2 DEF Within, AllPaths
    <2>3. n = Prefix(Dst(s), made[s]) /\ tree'[n] = "dir"
        <3>1. \/ tree' = [tree EXCEPT ![Prefix(Dst(s), made[s])] = "dir"]
              \/ tree' = tree
            BY <1>3 DEF MkdirMakes
        <3> QED
            BY <1>2, <2>2, <3>1
    <2> QED
        BY <1>3, <2>2, <2>3 DEF MkdirMakes, AtMkdir, Calling, ChangesByMkdir
<1>4. CASE TouchCreates(s)
    BY <1>1, <1>2, <1>4 DEF TouchCreates, At, Calling, ChangesByTouch
<1>5. CASE DelUnlinks(s) \/ DelRemoves(s)
    <2>1. Within(Dst(s), Dst(s))
        BY <1>1, WithinItself, NodesArePaths
    <2>2. cmd[s].op = "DEL" /\ pc[s] \in Calling
        BY <1>5 DEF DelUnlinks, DelRemoves, At, Calling
    <2>3. \E m \in Nodes : Within(m, Dst(s)) /\ tree' = [tree EXCEPT ![m] = "none"]
        BY <1>1, <1>5, <2>1 DEF DelUnlinks, DelRemoves
    <2> QED
        BY <1>2, <2>2, <2>3 DEF ChangesByDel
<1>6. CASE MoveRenames(s)
    <2>1. At(s, "MOVE", "more") /\ Brings(Src(s), Dst(s))
        BY <1>6 DEF MoveRenames, Brings
    <2>2. tree'[n] = Moved(n, Src(s), Dst(s))
        BY <2>1 DEF Brings
    <2> QED
        BY <2>1, <2>2 DEF Moved, At, Calling, ChangesByMove
<1>7. CASE JobStores(s)
    <2>1. job[s] # NoJob /\ job[s].dst \in Nodes
        BY <1>1, <1>7 DEF JobStores, ClientTypeOK, Jobs
    <2> QED
        BY <1>2, <1>7, <2>1 DEF JobStores, ChangesByJob
<1> QED
    BY <1>3, <1>4, <1>5, <1>6, <1>7
    DEF Step, Begin, Finish, ResolveSrc, ResolveDst, MkdirLooks, TouchTimes,
        DelStats, DelEnds, MoveLooks, ListStats, ListReads, ListEntry,
        ListEnds, ReadOpens, WriteOpens, CopyStats, JobTakesChunk, JobReads,
        JobDropped, OnlyTalks

\* A step that changes an entry is a step of one client.
LEMMA NextChanges ==
    ASSUME FilesInv, [Next]_vars, NEW n \in Nodes, tree'[n] # tree[n]
    PROVE  \E s \in Clients : Step(s)
BY DEF Next, vars, ChangePolicy

\* The check of a path and the call that uses it are not one step
\* (vfs_helper.go:10).  Nobody changes the tree without leave, at some moment
\* of the command, to write the path that the command names; of what changes
\* beside that path (folders above it, entries below it, the source of a MOVE)
\* no leave to write is asked, and the theorem says nothing of it.
THEOREM LeaveSafety == Spec => NamedPathsPermitted
<1>1. FilesInv /\ [Next]_vars =>
          \A n \in Nodes : tree'[n] # tree[n] =>
             \E s \in Clients : CommandMay(s, n) \/ JobMay(s, n)
    <2> SUFFICES ASSUME FilesInv, [Next]_vars, NEW n \in Nodes,
                        tree'[n] # tree[n]
                 PROVE  \E s \in Clients : CommandMay(s, n) \/ JobMay(s, n)
        OBVIOUS
    <2>1. PICK s \in Clients : Step(s)
        BY NextChanges
    <2>2. HasLeave(s) /\ JobHasLeave(s)
        BY DEF FilesInv, Notes
    <2>3. CASE ChangesByJob(s, n)
        BY <2>2, <2>3 DEF ChangesByJob, JobHasLeave, JobMay
    <2>4. CASE /\ pc[s] \in Calling
               /\ \/ ChangesByMkdir(s, n) \/ ChangesByTouch(s, n)
                  \/ ChangesByDel(s, n) \/ ChangesByMove(s, n)
        <3>1. /\ UnderWay(s)
              /\ cmd[s].op \in Reads => Had(inForce[s], s, Src(s), "R")
              /\ cmd[s].op \in Writes => Had(inForce[s], s, Dst(s), "W")
            BY <2>2, <2>4 DEF HasLeave, Granted, UnderWay, Calling
        <3> QED
            BY <2>4, <3>1
            DEF ChangesByMkdir, ChangesByTouch, ChangesByDel, ChangesByMove,
                At, CommandMay, TakenAlong, Reads, Writes
    <2> QED
        BY <2>1, <2>3, <2>4, StepChanges
<1> QED
    BY <1>1, Invariance, PTL DEF Spec, NamedPathsPermitted

-----------------------------------------------------------------------------
(* What is reserved, and what was uploaded.                                *)

LEMMA ReservedIs ==
    ASSUME NEW n \in AllPaths
    PROVE  Reserved(n) <=> Len(n) >= 1 /\ <<Fly, n[1]>> \in Begins
<1>1. Len(<<Fly>>) = 1 /\ <<Fly>>[1] = Fly /\ <<Fly>> # <<>>
    OBVIOUS
<1> QED
    BY <1>1 DEF Reserved, HasPrefix, AllPaths

\* Whatever is below a path and reserved makes the path reserved, but for /.
LEMMA ReservedAbove ==
    ASSUME NEW n \in AllPaths, NEW p \in AllPaths, Within(n, p), p # <<>>
    PROVE  Reserved(n) <=> Reserved(p)
<1>1. /\ Len(p) \in Nat \ {0} /\ Len(p) <= Len(n) /\ Len(n) \in Nat
      /\ Prefix(n, Len(p)) = p
    BY EmptySeq DEF Within, AllPaths
<1>2. Len(p) \in 0 .. Len(n) /\ 1 \in 1 .. Len(p)
    BY <1>1
<1>3. p[1] = n[1]
    BY <1>1, <1>2, PrefixIs
<1>4. /\ Reserved(n) <=> Len(n) >= 1 /\ <<Fly, n[1]>> \in Begins
      /\ Reserved(p) <=> Len(p) >= 1 /\ <<Fly, p[1]>> \in Begins
    BY ReservedIs
<1>5. Len(n) >= 1 /\ Len(p) >= 1
    BY <1>1
<1> QED
    BY <1>3, <1>4, <1>5

\* os.Rename moves the root nowhere and nothing over it.
LEMMA RootStays ==
    ASSUME ServerTypeOK, WellFormed, NEW src \in Nodes, NEW dst \in Nodes,
           Brings(src, dst), src = <<>> \/ dst = <<>>, NEW n \in Nodes
    PROVE  tree'[n] = tree[n]
<1>1. /\ src \in AllPaths /\ dst \in AllPaths /\ n \in AllPaths
      /\ Renames(src, dst) /\ tree[src] # "none"
    BY NodesArePaths DEF Brings, Renames, Exists
<1>2. \A p \in AllPaths : p # <<>> => 0 \in 0 .. Len(p) - 1
    BY EmptySeq DEF AllPaths
<1>3. \A p \in AllPaths : Prefix(p, 0) = <<>> /\ Within(p, <<>>)
    <2> SUFFICES ASSUME NEW p \in AllPaths
                 PROVE  Prefix(p, 0) = <<>> /\ Within(p, <<>>)
        OBVIOUS
    <2>1. 0 \in 0 .. Len(p) /\ Len(<<>>) = 0
        BY DEF AllPaths
    <2>2. Prefix(p, 0) = <<>>
        BY <2>1, PrefixIs, EmptySeq DEF AllPaths
    <2> QED
        BY <2>1, <2>2 DEF Within, AllPaths
<1>4. CASE src # <<>> /\ dst = <<>>
    <2>1. 0 \in 0 .. Len(src) - 1 /\ Prefix(src, 0) = dst
        BY <1>1, <1>2, <1>3, <1>4
    <2>2. IsDir(dst) /\ Children(dst) # {}
        BY <1>1, <2>1, ChildOnTheWay DEF WellFormed, Exists
    <2> QED
        BY <1>1, <1>4, <2>2 DEF Renames
<1>5. CASE src = <<>> /\ dst # <<>>
    <2>1. IsDir(Prefix(dst, 0)) /\ Within(dst, src)
        BY <1>1, <1>2, <1>3, <1>5, FoldersAbove DEF Renames
    <2> QED
        BY <1>1, <1>3, <1>5, <2>1 DEF Renames, IsFile, IsDir, Contents
<1>6. CASE src = <<>> /\ dst = <<>>
    BY <1>6, StaysPut
<1> QED
    BY <1>4, <1>5, <1>6

\* Only what is below .fly is refused to everybody, and the rest of the code
\* keeps that promise, except that DEL / takes .fly with it (del.go:51).
THEOREM ReservedSafety == Spec => ReservedKept
<1>1. FilesInv /\ [Next]_vars =>
          \A n \in Nodes : Reserved(n) /\ tree'[n] # tree[n] =>
             \E s \in Clients : /\ UnderWay(s) /\ cmd[s].op = "DEL"
                               /\ Dst(s) = <<>>
    <2> SUFFICES ASSUME FilesInv, [Next]_vars, NEW n \in Nodes, Reserved(n),
                        tree'[n] # tree[n]
                 PROVE  \E s \in Clients : /\ UnderWay(s) /\ cmd[s].op = "DEL"
                                          /\ Dst(s) = <<>>
        OBVIOUS
    <2>1. PICK s \in Clients : Step(s)
        BY NextChanges
    <2>2. /\ HasLeave(s) /\ JobHasLeave(s) /\ ServerTypeOK /\ WellFormed
          /\ Src(s) \in Nodes /\ Dst(s) \in Nodes /\ n \in AllPaths
          /\ Src(s) \in AllPaths /\ Dst(s) \in AllPaths
        BY NodesArePaths DEF FilesInv, Notes, TypeOK, ClientTypeOK
    <2>3. ~ChangesByJob(s, n)
        BY <2>2 DEF ChangesByJob, JobHasLeave
    <2>4. /\ pc[s] \in Calling
          /\ \/ ChangesByMkdir(s, n) \/ ChangesByTouch(s, n)
             \/ ChangesByDel(s, n) \/ ChangesByMove(s, n)
        BY <2>1, <2>3, StepChanges
    <2>5. /\ cmd[s].op \in Reads => ~Reserved(Src(s))
          /\ cmd[s].op \in Writes => ~Reserved(Dst(s))
        BY <2>2, <2>4 DEF HasLeave, Granted
    <2>6. n # <<>>
        <3>1. Len(n) >= 1 /\ Len(<<>>) = 0
            BY <2>2, ReservedIs
        <3> QED
            BY <3>1
    <2>7. ~ChangesByMkdir(s, n)
        <3>1. Within(Dst(s), n) => Reserved(Dst(s))
            BY <2>2, <2>6, ReservedAbove
        <3> QED
            BY <2>5, <3>1 DEF ChangesByMkdir, Writes
    <2>8. ~ChangesByTouch(s, n)
        BY <2>5 DEF ChangesByTouch, At, Writes
    <2>9. ~ChangesByMove(s, n)
        <3> SUFFICES ASSUME ChangesByMove(s, n)
                     PROVE  FALSE
            OBVIOUS
        <3>1. /\ ~Reserved(Src(s)) /\ ~Reserved(Dst(s)) /\ Brings(Src(s), Dst(s))
              /\ Within(n, Dst(s)) \/ Within(n, Src(s))
            BY <2>5 DEF ChangesByMove, At, Reads, Writes
        <3>2. Src(s) # <<>> /\ Dst(s) # <<>>
            BY <2>2, <3>1, RootStays
        <3> QED
            BY <2>2, <3>1, <3>2, ReservedAbove
    <2>10. ChangesByDel(s, n)
        BY <2>4, <2>7, <2>8, <2>9
    <2>11. Dst(s) = <<>>
        BY <2>2, <2>5, <2>10, ReservedAbove DEF ChangesByDel, Writes
    <2> QED
        BY <2>4, <2>10, <2>11 DEF ChangesByDel, UnderWay, Calling
<1> QED
    BY <1>1, Invariance, PTL DEF Spec, ReservedKept

\* A finished upload is emptied by TOUCH only when the path was missing at some
\* moment of the command (touch.go:41), and else only by what was empty before:
\* a MOVE or COPY of an empty file, or another upload for the same path whose
\* null frame comes before its first byte (streams.go:298).
THEOREM UploadSafety == Spec => UploadsKept
<1>1. FilesInv /\ [Next]_vars =>
          \A n \in Nodes : tree[n] = "new" /\ tree'[n] = "empty" =>
             \E s \in Clients : MayEmpty(s, n)
    <2> SUFFICES ASSUME FilesInv, [Next]_vars, NEW n \in Nodes,
                        tree[n] = "new", tree'[n] = "empty"
                 PROVE  \E s \in Clients : MayEmpty(s, n)
        OBVIOUS
    <2>1. PICK s \in Clients : Step(s)
        BY NextChanges
    <2>2. /\ MissingOnce(s) /\ ServerTypeOK /\ WellFormed
          /\ Src(s) \in Nodes /\ Dst(s) \in Nodes
        BY DEF FilesInv, Notes, TypeOK, ClientTypeOK
    <2>3. /\ ~ChangesByMkdir(s, n) /\ ~ChangesByDel(s, n)
          /\ \/ ChangesByTouch(s, n) \/ ChangesByMove(s, n) \/ ChangesByJob(s, n)
        BY <2>1, StepChanges DEF ChangesByMkdir, ChangesByDel
    <2>4. CASE ChangesByTouch(s, n)
        BY <2>2, <2>4
        DEF ChangesByTouch, MissingOnce, MayEmpty, At, UnderWay
    <2>5. CASE ChangesByMove(s, n)
        <3>1. /\ At(s, "MOVE", "more") /\ Brings(Src(s), Dst(s))
              /\ tree'[n] = Moved(n, Src(s), Dst(s))
            BY <2>5 DEF ChangesByMove, Brings
        <3>2. Within(n, Dst(s))
            BY <3>1, <2>5 DEF ChangesByMove, Moved
        <3>3. Src(s) # Dst(s)
            BY <2>2, <3>1, StaysPut
        <3>5. n = Dst(s)
            BY <2>2, <3>1, <3>2, <3>3, RenameNeeds DEF Brings, Exists
        <3>4. tree[Src(s)] = "empty"
            BY <2>2, <3>1, <3>5, BringEffect
        <3> QED
            BY <3>1, <3>4, <3>5 DEF MayEmpty
    <2>6. CASE ChangesByJob(s, n)
        BY <2>6 DEF ChangesByJob, MayEmpty
    <2> QED
        BY <2>3, <2>4, <2>5, <2>6
<1> QED
    BY <1>1, Invariance, PTL DEF Spec, UploadsKept

=============================================================================
