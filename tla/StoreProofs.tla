---------------------------- MODULE StoreProofs ----------------------------
(***************************************************************************)
(* What TLAPS proves of the database: memory and disk agree, only two      *)
(* writes are not safe against a stop, and the tables are durable, for any *)
(* number of connections, entries, changes, failures and restarts.         *)
(***************************************************************************)
EXTENDS Store, TLAPS

-----------------------------------------------------------------------------
(***************************************************************************)
(* The inductive invariant, in the order in which its parts are used.      *)
(***************************************************************************)

FirstOpen == {"mkversion", "version"} \cup InitSteps
Ready     == server \in {"cert", "up"}

\* Client c has the write of its table before it.
Writing(c) == cpc[c] \in {"open", "write", "rename"}

\* Who is at work while the server is where it is.
Phases ==
    /\ server # "up" => lock = NoClient /\ \A c \in Clients : cpc[c] = "idle"
    /\ ~Ready => tpc = "off"
    /\ server \notin {"up", "down", "refused"} => ~err
    /\ server \notin {"down", "mkversion"} => version # "missing"
    /\ server \in InitSteps \cup {"read", "cert", "up"} => version = "1"
    /\ \A c \in Clients : /\ cpc[c] = "fatal" => err
                          /\ Writing(c) => \A d \in Clients \ {c} : cpc[d] = "idle"

\* The first Open finds nothing and makes empty tables.
FirstTables ==
    /\ version = "missing" \/ server \in FirstOpen =>
           \A t \in Tables : acked[t] = Empty /\ file[t].rows = Empty
    /\ server \in FirstOpen => \A t \in Tables : mem[t] = Empty
    /\ server = "users.rename" => tmp["users"] = Whole(Empty)
    /\ server = "acp.rename" => tmp["acp"] = Whole(Empty)
    /\ server \in {"acp.open", "acp.write", "acp.rename"} =>
           file["users"].state = "whole"
    /\ Ready => \A t \in Tables : file[t].state = "whole"

\* What was written can be read back.
Escaped(rows) == \A k \in Keys : rows[k].data = "reserved" => rows[k].esc > 0

FilesEscaped ==
    \A t \in Tables : Escaped(tmp[t].rows) /\ Escaped(file[t].rows)

\* The same but for one entry.
OneChange(rows, others) ==
    \E k \in Keys : \A j \in Keys \ {k} : Content(rows[j]) = Content(others[j])

\* How memory, disk and answers differ in the course of a transaction.
Transactions ==
    Ready =>
        /\ \A t \in Tables :
              \/ Contents(acked[t]) = Contents(file[t].rows)
              \/ \E c \in Clients : cpc[c] \in {"return", "fatal"}
                                    /\ work[c].table = t
        /\ \A t \in Tables :
              \/ Agrees(t)
              \/ err
              \/ \E c \in Clients : Writing(c) /\ work[c].table = t
        /\ \A c \in Clients :
              LET t == work[c].table
              IN  /\ Writing(c) => OneChange(mem[t], file[t].rows)
                  /\ cpc[c] = "rename" => tmp[t] = Whole(mem[t])

\* What the disk looks like as long as no stop hit one of the two writes.
SafeFiles ==
    cut = {} =>
        /\ server # "refused"
        /\ version = "torn" => server = "version"
        /\ version = "1" /\ server \notin InitSteps =>
               \A t \in Tables : file[t].state = "whole"
        /\ tpc \in {"cert.write", "key", "key.write"} => certs > 0
        /\ tpc \in {"key", "key.write"} => certFile = certs
        /\ certFile = TornPem => tpc = "cert.write"
        /\ tpc \notin {"cert.write", "key", "key.write"} => certFile = keyFile
        /\ tpc \in {"pair", "timer"} => certFile > NoFile

StoreInv == /\ TypeOK /\ Phases /\ FirstTables /\ FilesEscaped
            /\ Transactions /\ SafeFiles

-----------------------------------------------------------------------------
(***************************************************************************)
(* The codings keep the kinds and the contents of entries.                 *)
(***************************************************************************)

LEMMA KindsApart ==
  /\ \A e \in UserEntries : e.data \notin AllPathKinds /\ e.esc = 0
  /\ \A e \in PathEntries : e.data \in AllPathKinds /\ e.esc \in Nat
  /\ NoEntry.data \notin AllPathKinds /\ NoEntry.esc = 0
BY StoreAssumption
DEF UserEntries, PathEntries, NoEntry, AllPathKinds

LEMMA EntryKinds ==
  ASSUME NEW t \in Tables, NEW rows \in RowsOf(t), NEW k \in Keys
  PROVE  rows[k] \in EntriesOf(t) \cup {NoEntry}
BY DEF RowsOf

LEMMA RowsOfRows == \A t \in Tables : RowsOf(t) \subseteq Rows
BY DEF Rows, RowsOf, EntriesOf

LEMMA EmptyType == \A t \in Tables : Empty \in RowsOf(t) /\ Escaped(Empty)
BY DEF RowsOf, Empty, Escaped, NoEntry

LEMMA SanitizeOne ==
  ASSUME NEW e \in PathEntries \cup {NoEntry}
  PROVE  /\ sanitizePaths(e) \in PathEntries \cup {NoEntry}
         /\ Content(sanitizePaths(e)) = Content(e)
         /\ sanitizePaths(e).data = "reserved" => sanitizePaths(e).esc > 0
         /\ e = NoEntry => sanitizePaths(e) = e
BY DEF sanitizePaths, PathEntries, NoEntry, Content, CodedKinds

LEMMA ParseOne ==
  ASSUME NEW e \in PathEntries \cup {NoEntry},
         e.data = "reserved" => e.esc > 0
  PROVE  /\ parsePolicyPath(e) \in PathEntries \cup {NoEntry}
         /\ Content(parsePolicyPath(e)) = Content(e)
BY DEF parsePolicyPath, PathEntries, NoEntry, Content, CodedKinds, AllPathKinds

LEMMA WrittenRows ==
  ASSUME NEW t \in Tables, NEW rows \in RowsOf(t)
  PROVE  /\ Written(t, rows) \in RowsOf(t)
         /\ Contents(Written(t, rows)) = Contents(rows)
         /\ Escaped(Written(t, rows))
         /\ rows = Empty => Written(t, rows) = Empty
<1>1. CASE t = "users"
  BY <1>1, KindsApart, EntryKinds
  DEF Written, RowsOf, EntriesOf, Escaped, AllPathKinds
<1>2. CASE t = "acp"
  <2>1. \A k \in Keys : rows[k] \in PathEntries \cup {NoEntry}
    BY <1>2, EntryKinds DEF EntriesOf
  <2>2. Written(t, rows) = [k \in Keys |-> sanitizePaths(rows[k])]
    BY <1>2 DEF Written
  <2> QED
    BY <1>2, <2>1, <2>2, SanitizeOne
    DEF RowsOf, EntriesOf, Escaped, Contents, Empty
<1> QED BY <1>1, <1>2 DEF Tables

LEMMA ReadRows ==
  ASSUME NEW t \in Tables, NEW rows \in RowsOf(t), Escaped(rows)
  PROVE  /\ ReadBack(t, rows) \in RowsOf(t)
         /\ Contents(ReadBack(t, rows)) = Contents(rows)
<1>1. CASE t = "users" BY <1>1 DEF ReadBack
<1>2. CASE t = "acp"
  <2>1. \A k \in Keys : rows[k] \in PathEntries \cup {NoEntry}
    BY <1>2, EntryKinds DEF EntriesOf
  <2>2. ReadBack(t, rows) = [k \in Keys |-> parsePolicyPath(rows[k])]
    BY <1>2 DEF ReadBack
  <2> QED
    BY <1>2, <2>1, <2>2, ParseOne DEF RowsOf, EntriesOf, Escaped, Contents
<1> QED BY <1>1, <1>2 DEF Tables

-----------------------------------------------------------------------------
LEMMA StoreInit == Init => StoreInv
<1> SUFFICES ASSUME Init PROVE StoreInv OBVIOUS
<1>1. TablesTypeOK
  BY EmptyType, RowsOfRows
  DEF Init, TablesTypeOK, FileStates, Missing, Tables, RowsOf, EntriesOf
<1>3. HandlersTypeOK /\ CertTypeOK
  BY StoreAssumption
  DEF Init, HandlersTypeOK, CertTypeOK, Steps, NoWork, Tables, Generating,
      NoFile, TornPem
<1>4. TypeOK BY <1>1, <1>3 DEF Init, TypeOK
<1>2. Phases /\ FirstTables /\ FilesEscaped /\ Transactions /\ SafeFiles
  BY EmptyType
  DEF Init, Phases, Ready, Writing, FirstTables, FirstOpen, InitSteps,
      FilesEscaped, Missing, Transactions, SafeFiles, NoFile, TornPem
<1> QED BY <1>2, <1>4 DEF StoreInv

LEMMA Entries ==
  ASSUME TypeOK
  PROVE  \A t \in Tables :
            /\ mem[t] \in RowsOf(t) /\ acked[t] \in RowsOf(t)
            /\ tmp[t].rows \in RowsOf(t) /\ file[t].rows \in RowsOf(t)
BY DEF TypeOK, TablesTypeOK

\* The file operations of one table.
LEMMA OpenType ==
  ASSUME TypeOK, NEW t \in Tables, openTmp(t)
  PROVE  /\ tmp' \in [Tables -> FileStates]
         /\ \A u \in Tables : tmp'[u].rows \in RowsOf(u)
BY Entries, EmptyType, RowsOfRows DEF openTmp, Torn, FileStates, TypeOK,
    TablesTypeOK

LEMMA WriteType ==
  ASSUME TypeOK, NEW t \in Tables, writeTmp(t)
  PROVE  /\ tmp' \in [Tables -> FileStates] /\ mem' \in [Tables -> Rows]
         /\ \A u \in Tables : tmp'[u].rows \in RowsOf(u) /\ mem'[u] \in RowsOf(u)
         /\ mem'[t] = Written(t, mem[t]) /\ tmp'[t] = Whole(mem'[t])
<1>1. /\ Written(t, mem[t]) \in RowsOf(t) /\ Written(t, mem[t]) \in Rows
  BY Entries, WrittenRows, RowsOfRows
<1> QED BY <1>1, Entries DEF writeTmp, Whole, FileStates, TypeOK, TablesTypeOK

LEMMA RenameType ==
  ASSUME TypeOK, NEW t \in Tables, renameTmp(t)
  PROVE  /\ tmp' \in [Tables -> FileStates] /\ file' \in [Tables -> FileStates]
         /\ \A u \in Tables : tmp'[u].rows \in RowsOf(u)
                              /\ file'[u].rows \in RowsOf(u)
BY Entries, EmptyType, RowsOfRows DEF renameTmp, Missing, FileStates, TypeOK,
    TablesTypeOK

LEMMA FailType ==
  ASSUME TypeOK, NEW t \in Tables, NEW step, writeFails(t, step)
  PROVE  /\ mem' \in [Tables -> Rows] /\ err' = TRUE
         /\ \A u \in Tables : mem'[u] \in RowsOf(u)
<1>1. /\ Written(t, mem[t]) \in RowsOf(t) /\ Written(t, mem[t]) \in Rows
  BY Entries, WrittenRows, RowsOfRows
<1> QED BY <1>1, Entries DEF writeFails, TypeOK, TablesTypeOK

LEMMA TablesStep ==
  ASSUME TypeOK, FilesEscaped, [Next]_vars PROVE TablesTypeOK'
<1>0. TablesTypeOK BY DEF TypeOK
<1>s. CASE UNCHANGED <<mem, acked, tmp, file, given>>
  BY <1>0, <1>s DEF TablesTypeOK
<1>1. CASE Start
  BY <1>0, <1>1, EmptyType, RowsOfRows DEF Start, TablesTypeOK, disk
<1>2. CASE ReadTables
  <2>1. CASE mem' = [t \in Tables |-> ReadBack(t, file[t].rows)]
             /\ acked' = mem' /\ given' = mem'["acp"]
    <3>1. \A t \in Tables : mem'[t] \in RowsOf(t)
      BY <2>1, Entries, ReadRows DEF FilesEscaped
    <3>2. mem' \in [Tables -> Rows] BY <2>1, <3>1, RowsOfRows
    <3>3. given' \in [Keys -> PathEntries \cup {NoEntry}]
      BY <2>1, <3>1 DEF Tables, RowsOf, EntriesOf
    <3> QED BY <1>0, <1>2, <2>1, <3>1, <3>2, <3>3
            DEF ReadTables, TablesTypeOK, disk
  <2> QED BY <1>2, <1>s, <2>1 DEF ReadTables, disk
<1>3. ASSUME NEW t \in Tables, UNCHANGED <<acked, given>>,
             \/ openTmp(t) /\ UNCHANGED <<mem, file>>
             \/ writeTmp(t) /\ UNCHANGED file
             \/ renameTmp(t) /\ UNCHANGED mem
      PROVE  TablesTypeOK'
  <2>1. /\ mem' \in [Tables -> Rows]
        /\ tmp' \in [Tables -> FileStates] /\ file' \in [Tables -> FileStates]
        /\ \A u \in Tables : mem'[u] \in RowsOf(u)
              /\ tmp'[u].rows \in RowsOf(u) /\ file'[u].rows \in RowsOf(u)
    BY <1>0, <1>3, Entries, OpenType, WriteType, RenameType DEF TablesTypeOK
  <2> QED BY <1>0, <1>3, <2>1 DEF TablesTypeOK
<1>4. CASE InitTables
  BY <1>3, <1>4 DEF InitTables, Tables, history
<1>5. ASSUME NEW t \in Tables, NEW step, writeFails(t, step),
             UNCHANGED <<acked, given, tmp, file>>
      PROVE  TablesTypeOK'
  BY <1>0, <1>5, FailType DEF TablesTypeOK
<1>6. CASE InitFails BY <1>5, <1>6 DEF InitFails, disk
<1>7. CASE Stop
  BY <1>0, <1>7, EmptyType, RowsOfRows DEF Stop, TablesTypeOK, disk
<1>8. CASE Certificate
  BY <1>s, <1>8
  DEF Certificate, TlsCheck, GenerateCert, GenerateFails, LoadPair, RenewCert,
      disk, history
<1>9. ASSUME NEW c \in Clients, Client(c) PROVE TablesTypeOK'
  <2>0. work[c].table \in Tables BY DEF TypeOK, HandlersTypeOK
  <2>1. ASSUME NEW t \in Tables, NEW k \in Keys, NEW d \in BOOLEAN,
               NEW e \in NewEntries(t) \cup {NoEntry}, Changes(c, t, k, e, d)
        PROVE  TablesTypeOK'
    <3>1. e \in EntriesOf(t) \cup {NoEntry}
      BY <2>1, StoreAssumption DEF NewEntries, EntriesOf, PathEntries
    <3>2. [mem[t] EXCEPT ![k] = e] \in RowsOf(t)
      BY <3>1, Entries DEF RowsOf
    <3>3. /\ mem' \in [Tables -> Rows]
          /\ \A u \in Tables : mem'[u] \in RowsOf(u)
      BY <1>0, <2>1, <3>2, Entries, RowsOfRows DEF Changes, TablesTypeOK
    <3>4. given' \in [Keys -> PathEntries \cup {NoEntry}]
      BY <1>0, <2>1, <3>1 DEF Changes, TablesTypeOK, EntriesOf, Tables
    <3> QED BY <1>0, <2>1, <3>3, <3>4 DEF Changes, TablesTypeOK, disk
  <2>2. CASE WriteTable(c) BY <1>3, <2>0, <2>2 DEF WriteTable, history
  <2>3. CASE WriteFails(c) BY <1>5, <2>0, <2>3 DEF WriteFails, disk, history
  <2>4. CASE Complete(c)
    <3>1. /\ acked' \in [Tables -> Rows]
          /\ \A u \in Tables : acked'[u] \in RowsOf(u)
      BY <1>0, <2>0, <2>4, Entries, RowsOfRows DEF Complete, TablesTypeOK
    <3> QED BY <1>0, <2>4, <3>1 DEF Complete, TablesTypeOK, disk
  <2>5. CASE CompleteFails(c) BY <1>s, <2>5 DEF CompleteFails, disk, history
  <2>6. CASE Fatal(c) BY <1>7, <2>6 DEF Fatal
  <2> QED
    BY <1>9, <2>1, <2>2, <2>3, <2>4, <2>5, <2>6
    DEF Client, AddUser, UpdateUser, DeleteUser, PutAccessPolicy,
        DeleteAccessPolicy, Tables
<1> QED
  BY <1>s, <1>1, <1>2, <1>4, <1>6, <1>7, <1>8, <1>9
  DEF Next, Open, MakeVersion, MakeVersionFails, Killed, vars, disk, history

LEMMA HandlersStep ==
  ASSUME TypeOK, [Next]_vars PROVE HandlersTypeOK'
<1>0. HandlersTypeOK BY DEF TypeOK
<1>s. CASE UNCHANGED clients BY <1>0, <1>s DEF HandlersTypeOK, clients
<1>1. CASE Stop
  BY <1>1 DEF Stop, HandlersTypeOK, NoWork, Tables, Steps
<1>2. ASSUME NEW c \in Clients, Client(c) PROVE HandlersTypeOK'
  <2> USE <1>0 DEF HandlersTypeOK, Steps
  <2>1. ASSUME NEW t \in Tables, NEW k \in Keys, NEW d \in BOOLEAN, NEW e,
               Changes(c, t, k, e, d), Locks(c)
        PROVE  HandlersTypeOK'
    BY <2>1, StoreAssumption DEF Changes, Locks
  <2>2. CASE WriteTable(c) BY <2>2 DEF WriteTable
  <2>3. CASE WriteFails(c) BY <2>3 DEF WriteFails
  <2>4. CASE Complete(c) BY <2>4, StoreAssumption DEF Complete, NoWork, Tables
  <2>5. CASE CompleteFails(c) BY <2>5, StoreAssumption DEF CompleteFails
  <2>6. CASE Fatal(c) BY <1>1, <2>6 DEF Fatal
  <2> QED
    BY <1>2, <2>1, <2>2, <2>3, <2>4, <2>5, <2>6
    DEF Client, AddUser, UpdateUser, DeleteUser, PutAccessPolicy,
        DeleteAccessPolicy, Tables
<1> QED
  BY <1>s, <1>1, <1>2
  DEF Next, Open, Start, ReadTables, MakeVersion, MakeVersionFails, InitTables,
      InitFails, Certificate, TlsCheck, GenerateCert, GenerateFails, LoadPair,
      RenewCert, Killed, vars

LEMMA CertStep ==
  ASSUME TypeOK, [Next]_vars PROVE CertTypeOK'
<1>0. CertTypeOK BY DEF TypeOK
<1> USE <1>0 DEF CertTypeOK, Generating, NoFile, TornPem
<1>s. CASE UNCHANGED <<tpc, certFile, keyFile, cert, certs>> BY <1>s
<1>1. CASE Start BY <1>1, StoreAssumption DEF Start, disk
<1>2. CASE ReadTables BY <1>2 DEF ReadTables, disk
<1>3. CASE InitTables BY <1>3 DEF InitTables, history
<1>4. CASE Stop BY <1>4, StoreAssumption DEF Stop, disk
<1>5. CASE TlsCheck BY <1>5 DEF TlsCheck, TlsFails, disk, history
<1>6. CASE GenerateCert BY <1>6, StoreAssumption DEF GenerateCert
<1>7. CASE GenerateFails BY <1>7 DEF GenerateFails, TlsFails, disk
<1>8. CASE LoadPair BY <1>8 DEF LoadPair, TlsFails, disk, history
<1>9. CASE RenewCert BY <1>9 DEF RenewCert, disk, history
<1>10. ASSUME NEW c \in Clients, Client(c) PROVE CertTypeOK'
  BY <1>s, <1>4, <1>10
  DEF Client, AddUser, UpdateUser, DeleteUser, PutAccessPolicy,
      DeleteAccessPolicy, Changes, WriteTable, WriteFails, Complete,
      CompleteFails, Fatal, disk, history
<1> QED
  BY <1>s, <1>1, <1>2, <1>3, <1>4, <1>5, <1>6, <1>7, <1>8, <1>9, <1>10
  DEF Next, Open, MakeVersion, MakeVersionFails, InitFails, Certificate,
      Killed, vars, disk, history

\* TypeOK without its three parts.
RestTypeOK ==
    /\ server \in {"down", "up", "refused", "mkversion", "version", "read",
                    "cert"} \cup InitSteps
    /\ err \in BOOLEAN
    /\ version \in {"missing", "torn", "1"}
    /\ cut \subseteq {"first", "cert"}
    /\ starts \in Nat /\ changes \in Nat

LEMMA RestStep ==
  ASSUME TypeOK, [Next]_vars PROVE RestTypeOK'
<1>0. RestTypeOK BY DEF TypeOK, RestTypeOK
<1> USE <1>0 DEF RestTypeOK, InitSteps
<1>s. CASE UNCHANGED <<server, err, version, cut, starts, changes>> BY <1>s
<1>1. CASE Start
  <2>1. server' \in {"mkversion", "refused", "read"} BY <1>1 DEF Start
  <2>2. /\ starts' = starts + 1 /\ err' = FALSE
        /\ UNCHANGED <<version, cut, changes>>
    BY <1>1 DEF Start, disk
  <2>3. /\ version' \in {"missing", "torn", "1"} /\ cut' \subseteq {"first", "cert"}
        /\ changes' \in Nat
    BY <2>2
  <2>4. starts' \in Nat BY <2>2
  <2>5. err' \in BOOLEAN BY <2>2
  <2> QED BY <2>1, <2>3, <2>4, <2>5
<1>2. CASE ReadTables BY <1>2 DEF ReadTables, disk
<1>3. CASE MakeVersion BY <1>3 DEF MakeVersion, history
<1>4. CASE MakeVersionFails BY <1>4 DEF MakeVersionFails, disk
<1>5. CASE InitTables BY <1>5 DEF InitTables, history
<1>6. CASE InitFails BY <1>6 DEF InitFails, writeFails, disk
<1>7. CASE Stop BY <1>7 DEF Stop, disk
<1>8. CASE TlsCheck BY <1>8 DEF TlsCheck, TlsFails, disk, history
<1>9. CASE GenerateCert BY <1>9 DEF GenerateCert
<1>10. CASE GenerateFails BY <1>10 DEF GenerateFails, TlsFails, disk
<1>11. CASE LoadPair BY <1>11 DEF LoadPair, TlsFails, disk, history
<1>12. CASE RenewCert BY <1>12 DEF RenewCert, disk, history
<1>13. ASSUME NEW c \in Clients, Client(c) PROVE RestTypeOK'
  <2>1. CASE \/ WriteTable(c) \/ WriteFails(c) \/ Complete(c)
             \/ CompleteFails(c) \/ Fatal(c)
    BY <1>7, <2>1
    DEF WriteTable, WriteFails, writeFails, Complete, CompleteFails, Fatal,
        disk, history
  <2>2. ASSUME NEW t, NEW k, NEW d, NEW e, Changes(c, t, k, e, d)
        PROVE  RestTypeOK'
    BY <2>2 DEF Changes, disk
  <2> QED
    BY <1>13, <2>1, <2>2
    DEF Client, AddUser, UpdateUser, DeleteUser, PutAccessPolicy,
        DeleteAccessPolicy
<1> QED
  BY <1>s, <1>1, <1>2, <1>3, <1>4, <1>5, <1>6, <1>7, <1>8, <1>9, <1>10, <1>11,
     <1>12, <1>13
  DEF Next, Open, Certificate, Killed, vars, disk, history

LEMMA TypeStep ==
  ASSUME TypeOK, FilesEscaped, [Next]_vars PROVE TypeOK'
BY TablesStep, HandlersStep, CertStep, RestStep DEF TypeOK, RestTypeOK

\* The kinds of a client's steps.
Transaction(c) ==
    \E t \in Tables, k \in Keys, d \in BOOLEAN :
        \E e \in NewEntries(t) \cup {NoEntry} :
            Changes(c, t, k, e, d) /\ Locks(c)

LEMMA ClientSteps ==
  ASSUME NEW c \in Clients, Client(c)
  PROVE  \/ Transaction(c) \/ WriteTable(c) \/ WriteFails(c) \/ Complete(c)
         \/ CompleteFails(c) \/ Stop
BY DEF Client, AddUser, UpdateUser, DeleteUser, PutAccessPolicy,
   DeleteAccessPolicy, Transaction, Tables, Fatal

LEMMA PhasesStep ==
  ASSUME TypeOK, Phases, [Next]_vars PROVE Phases'
<1> USE DEF Phases, Ready, Writing, InitSteps
<1>s. CASE UNCHANGED <<server, err, lock, cpc, tpc, version>> BY <1>s
<1>1. CASE Start BY <1>1 DEF Start, clients, disk
<1>2. CASE ReadTables BY <1>2 DEF ReadTables, clients, disk
<1>3. CASE MakeVersion BY <1>3 DEF MakeVersion, clients, history
<1>4. CASE MakeVersionFails BY <1>4 DEF MakeVersionFails, clients, disk
<1>5. CASE InitTables BY <1>5 DEF InitTables, clients, history
<1>6. CASE InitFails BY <1>6 DEF InitFails, clients, disk
<1>7. CASE Stop BY <1>7 DEF Stop, disk
<1>8. CASE TlsCheck BY <1>8 DEF TlsCheck, TlsFails, clients, disk, history
<1>9. CASE GenerateCert BY <1>9 DEF GenerateCert, clients
<1>10. CASE GenerateFails
  BY <1>10 DEF GenerateFails, TlsFails, clients, disk, Generating
<1>11. CASE LoadPair BY <1>11 DEF LoadPair, TlsFails, clients, disk, history
<1>12. CASE RenewCert BY <1>12 DEF RenewCert, clients, disk, history
<1>13. ASSUME NEW c \in Clients, Client(c) PROVE Phases'
  <2> USE DEF TypeOK, HandlersTypeOK, Steps
  <2>1. CASE Transaction(c)
    BY <2>1, StoreAssumption DEF Transaction, Changes, Locks, disk
  <2>2. CASE WriteTable(c) BY <2>2 DEF WriteTable
  <2>3. CASE WriteFails(c) BY <2>3 DEF WriteFails, writeFails, disk
  <2>4. CASE Complete(c) BY <2>4, StoreAssumption DEF Complete, disk
  <2>5. CASE CompleteFails(c) BY <2>5 DEF CompleteFails, disk
  <2> QED BY <1>7, <1>13, <2>1, <2>2, <2>3, <2>4, <2>5, ClientSteps
<1> QED
  BY <1>s, <1>1, <1>2, <1>3, <1>4, <1>5, <1>6, <1>7, <1>8, <1>9, <1>10, <1>11,
     <1>12, <1>13
  DEF Next, Open, Certificate, Killed, vars, disk, clients

LEMMA EscapedStep ==
  ASSUME TypeOK, FilesEscaped, [Next]_vars PROVE FilesEscaped'
<1> USE DEF FilesEscaped
<1>s. CASE UNCHANGED <<tmp, file>> BY <1>s
<1>1. ASSUME NEW t \in Tables, \/ openTmp(t) /\ UNCHANGED <<mem, file>>
                               \/ writeTmp(t) /\ UNCHANGED file
                               \/ renameTmp(t) /\ UNCHANGED mem
      PROVE  FilesEscaped'
  <2>1. CASE openTmp(t) /\ UNCHANGED file
    BY <2>1, EmptyType DEF openTmp, Torn, TypeOK, TablesTypeOK
  <2>2. CASE writeTmp(t) /\ UNCHANGED file
    <3>1. Escaped(Written(t, mem[t])) BY Entries, WrittenRows
    <3>2. /\ tmp'[t] = Whole(Written(t, mem[t]))
          /\ \A u \in Tables \ {t} : tmp'[u] = tmp[u]
      BY <2>2, WriteType DEF writeTmp, TypeOK, TablesTypeOK
    <3> QED BY <2>2, <3>1, <3>2 DEF Whole
  <2>3. CASE renameTmp(t)
    BY <2>3, EmptyType DEF renameTmp, Missing, TypeOK, TablesTypeOK
  <2> QED BY <1>1, <2>1, <2>2, <2>3
<1>2. CASE InitTables BY <1>1, <1>2 DEF InitTables, Tables
<1>3. ASSUME NEW c \in Clients, Client(c) PROVE FilesEscaped'
  <2>1. CASE WriteTable(c)
    BY <1>1, <2>1 DEF WriteTable, TypeOK, HandlersTypeOK
  <2> QED BY <1>s, <1>3, <2>1, ClientSteps
      DEF Transaction, Changes, WriteFails, Complete, CompleteFails, Stop, disk
<1> QED
  BY <1>s, <1>2, <1>3
  DEF Next, Open, Start, ReadTables, MakeVersion, MakeVersionFails, InitFails,
      Certificate, TlsCheck, GenerateCert, GenerateFails, LoadPair, RenewCert,
      Killed, Stop, vars, disk

LEMMA FirstStep ==
  ASSUME TypeOK, Phases, FirstTables, Transactions, [Next]_vars
  PROVE  FirstTables'
<1> USE DEF FirstTables, FirstOpen, Ready, InitSteps
<1>e. \A t \in Tables : Written(t, Empty) = Empty BY EmptyType, WrittenRows
<1>s. CASE UNCHANGED <<server, mem, tmp, file, acked, version>> BY <1>s
<1>1. CASE Start BY <1>1 DEF Start, disk
<1>2. CASE ReadTables BY <1>2 DEF ReadTables, disk, Phases
<1>3. CASE MakeVersion BY <1>3 DEF MakeVersion, history, Phases
<1>4. CASE MakeVersionFails BY <1>4 DEF MakeVersionFails, disk
<1>5. CASE InitTables
  <2> USE DEF TypeOK, TablesTypeOK, Phases
  <2>0. version' = version /\ version = "1" /\ UNCHANGED acked
    BY <1>5 DEF InitTables, history
  <2>1. CASE /\ server = "users.open" /\ server' = "users.write"
             /\ openTmp("users") /\ UNCHANGED <<mem, file>>
    BY <2>0, <2>1
  <2>2. CASE /\ server = "users.write" /\ server' = "users.rename"
             /\ writeTmp("users") /\ UNCHANGED file
    <3>1. \A t \in Tables : mem'[t] = Empty
      BY <1>e, <2>2 DEF writeTmp, Tables
    <3>2. tmp'["users"] = Whole(Empty)
      BY <3>1, <2>2 DEF writeTmp, Tables
    <3> QED BY <2>0, <2>2, <3>1, <3>2
  <2>3. CASE /\ server = "users.rename" /\ server' = "acp.open"
             /\ renameTmp("users") /\ UNCHANGED mem
    <3>1. /\ file'["users"] = Whole(Empty) /\ file'["acp"] = file["acp"]
      BY <2>3 DEF renameTmp, Tables
    <3> QED BY <2>0, <2>3, <3>1 DEF Whole, Tables
  <2>4. CASE /\ server = "acp.open" /\ server' = "acp.write"
             /\ openTmp("acp") /\ UNCHANGED <<mem, file>>
    BY <2>0, <2>4
  <2>5. CASE /\ server = "acp.write" /\ server' = "acp.rename"
             /\ writeTmp("acp") /\ UNCHANGED file
    <3>1. \A t \in Tables : mem'[t] = Empty
      BY <1>e, <2>5 DEF writeTmp, Tables
    <3>2. tmp'["acp"] = Whole(Empty)
      BY <3>1, <2>5 DEF writeTmp, Tables
    <3> QED BY <2>0, <2>5, <3>1, <3>2
  <2>6. CASE /\ server = "acp.rename" /\ server' = "cert"
             /\ renameTmp("acp") /\ UNCHANGED mem
    <3>1. /\ file'["acp"] = Whole(Empty) /\ file'["users"] = file["users"]
      BY <2>6 DEF renameTmp, Tables
    <3> QED BY <2>0, <2>6, <3>1 DEF Whole, Tables
  <2> QED BY <1>5, <2>1, <2>2, <2>3, <2>4, <2>5, <2>6 DEF InitTables
<1>6. CASE InitFails BY <1>6 DEF InitFails, disk
<1>7. CASE Stop BY <1>7 DEF Stop, disk
<1>8. CASE Certificate
  <2>1. UNCHANGED <<mem, tmp, file, acked, version>>
    BY <1>8 DEF Certificate, TlsCheck, GenerateCert, GenerateFails, LoadPair,
                RenewCert, disk, history
  <2>2. CASE UNCHANGED server BY <1>s, <2>1, <2>2
  <2>3. CASE server = "cert" /\ server' \in {"up", "down", "refused"}
    BY <2>1, <2>3 DEF Phases
  <2> QED
    BY <1>8, <2>2, <2>3
    DEF Certificate, TlsCheck, TlsFails, GenerateCert, GenerateFails, LoadPair,
        RenewCert
<1>9. ASSUME NEW c \in Clients, Client(c) PROVE FirstTables'
  <2> USE DEF TypeOK, HandlersTypeOK, TablesTypeOK
  <2>0. CASE Stop BY <1>7, <2>0
  <2>1. ASSUME ~Stop PROVE server = "up" /\ server' = "up" /\ UNCHANGED version
    BY <1>9, <2>1, ClientSteps
    DEF Transaction, Changes, WriteTable, WriteFails, Complete, CompleteFails,
        disk, Phases, Steps
  <2>2. CASE UNCHANGED file BY <2>0, <2>1, <2>2 DEF Phases
  <2>3. CASE WriteTable(c) /\ cpc[c] = "rename"
    <3>1. /\ renameTmp(work[c].table) /\ work[c].table \in Tables
          /\ server' = server /\ version' = version /\ acked' = acked
      BY <2>3 DEF WriteTable, history
    <3>2. server = "up" BY <2>3 DEF Phases
    <3>3. tmp[work[c].table] = Whole(mem[work[c].table])
      BY <2>3, <3>2 DEF Transactions
    <3>4. \A t \in Tables : file'[t] = IF t = work[c].table THEN tmp[t]
                                                           ELSE file[t]
      BY <3>1 DEF renameTmp
    <3> QED BY <3>1, <3>2, <3>3, <3>4 DEF Phases, Whole
  <2> QED
    BY <1>9, <2>2, <2>3, ClientSteps
    DEF Transaction, Changes, WriteTable, WriteFails, Complete, CompleteFails,
        Stop, disk
<1> QED
  BY <1>s, <1>1, <1>2, <1>3, <1>4, <1>5, <1>6, <1>7, <1>8, <1>9
  DEF Next, Open, Killed, vars, disk, history

-----------------------------------------------------------------------------
(***************************************************************************)
(* A transaction: its entry is changed in memory, then on disk, then the   *)
(* client is told.                                                         *)
(***************************************************************************)

Told(t) ==
    \/ Contents(acked[t]) = Contents(file[t].rows)
    \/ \E c \in Clients : cpc[c] \in {"return", "fatal"} /\ work[c].table = t

Kept(t) ==
    \/ Agrees(t)
    \/ err
    \/ \E c \in Clients : Writing(c) /\ work[c].table = t

Half(c) ==
    LET t == work[c].table
    IN  /\ Writing(c) => OneChange(mem[t], file[t].rows)
        /\ cpc[c] = "rename" => tmp[t] = Whole(mem[t])

LEMMA TransactionsParts ==
  Transactions <=> (Ready => /\ \A t \in Tables : Told(t) /\ Kept(t)
                             /\ \A c \in Clients : Half(c))
BY DEF Transactions, Told, Kept, Half

LEMMA AgreesContents ==
  ASSUME TypeOK, FilesEscaped, NEW t \in Tables, Agrees(t)
  PROVE  Contents(mem[t]) = Contents(file[t].rows)
BY Entries, ReadRows DEF Agrees, FilesEscaped

LEMMA TransactionsNext ==
  ASSUME Ready' => /\ \A t \in Tables : Told(t)' /\ Kept(t)'
                   /\ \A c \in Clients : Half(c)'
  PROVE  Transactions'
BY DEF Transactions, Told, Kept, Half

LEMMA SameContents ==
  ASSUME NEW rows, NEW others, NEW more, OneChange(rows, others),
         Contents(more) = Contents(rows)
  PROVE  OneChange(more, others)
<1>1. \A k \in Keys : Content(more[k]) = Content(rows[k])
  <2>1. \A k \in Keys : Contents(more)[k] = Contents(rows)[k] OBVIOUS
  <2> QED BY <2>1 DEF Contents
<1> QED BY <1>1 DEF OneChange

\* Client c, alone at work, goes on with its write.
LEMMA WriteKeeps ==
  ASSUME TypeOK, Phases, Transactions, NEW c \in Clients, WriteTable(c)
  PROVE  Transactions'
<1>t. PICK t \in Tables : t = work[c].table
  BY DEF TypeOK, HandlersTypeOK
<1>0. /\ server = "up" /\ server' = server /\ err' = err /\ work' = work
      /\ acked' = acked /\ work'[c].table = t /\ Writing(c)
      /\ \A d \in Clients \ {c} : cpc[d] = "idle" /\ cpc'[d] = "idle"
      /\ cpc'[c] \in {"write", "rename", "return"}
  BY <1>t DEF WriteTable, Phases, Writing, TypeOK, HandlersTypeOK, history
<1>1. /\ \A u \in Tables : Told(u) /\ Kept(u)
      /\ Half(c)
  BY <1>t, <1>0, TransactionsParts DEF Ready
<1>2. \A u \in Tables : Contents(acked[u]) = Contents(file[u].rows)
  BY <1>t, <1>0, <1>1 DEF Told, Writing
<1>o. \A u \in Tables \ {t} : Agrees(u) \/ err
  BY <1>t, <1>0, <1>1 DEF Kept, Writing
<1>h. \A d \in Clients \ {c} : Half(d)' BY <1>t, <1>0 DEF Half, Writing
<1>3. CASE cpc[c] \in {"open", "write"}
  <2>1. /\ file' = file /\ cpc'[c] = IF cpc[c] = "open" THEN "write" ELSE "rename"
        /\ \A u \in Tables \ {t} : mem'[u] = mem[u]
        /\ Contents(mem'[t]) = Contents(mem[t])
        /\ cpc'[c] = "rename" => tmp'[t] = Whole(mem'[t])
    <3>1. CASE cpc[c] = "open"
      BY <1>t, <1>0, <3>1 DEF WriteTable, TypeOK, HandlersTypeOK
    <3>2. CASE cpc[c] = "write"
      <4>1. writeTmp(t) /\ file' = file /\ cpc'[c] = "rename"
        BY <1>t, <3>2 DEF WriteTable, TypeOK, HandlersTypeOK
      <4>2. mem'[t] = Written(t, mem[t]) /\ tmp'[t] = Whole(mem'[t])
        BY <1>t, <1>0, <4>1, WriteType
      <4>3. Contents(Written(t, mem[t])) = Contents(mem[t])
        BY <1>t, <1>0, Entries, WrittenRows
      <4>4. \A u \in Tables \ {t} : mem'[u] = mem[u]
        BY <4>1 DEF writeTmp, TypeOK, TablesTypeOK
      <4> QED BY <3>2, <4>1, <4>2, <4>3, <4>4
    <3> QED BY <1>3, <3>1, <3>2
  <2>2. \A u \in Tables : Told(u)' BY <1>t, <1>0, <1>2, <2>1 DEF Told
  <2>3. \A u \in Tables : Kept(u)'
    <3>1. Kept(t)' BY <1>t, <1>0, <2>1, <1>3 DEF Kept, Writing
    <3>2. \A u \in Tables \ {t} : Kept(u)'
      BY <1>t, <1>0, <1>o, <2>1 DEF Kept, Agrees
    <3> QED BY <3>1, <3>2
  <2>4. Half(c)'
    <3>1. OneChange(mem'[t], file[t].rows)
      BY <1>t, <1>0, <1>1, <2>1, SameContents DEF Half
    <3> QED BY <1>t, <1>0, <2>1, <3>1 DEF Half, OneChange
  <2> QED BY <1>h, <2>2, <2>3, <2>4, TransactionsNext
<1>4. CASE cpc[c] = "rename"
  <2>1. /\ renameTmp(t) /\ mem' = mem /\ cpc'[c] = "return"
        /\ tmp[t] = Whole(mem[t])
    BY <1>t, <1>0, <1>1, <1>4 DEF WriteTable, TypeOK, HandlersTypeOK, Half
  <2>2. /\ file'[t].rows = mem[t]
        /\ \A u \in Tables \ {t} : file'[u] = file[u]
    BY <1>t, <1>0, <2>1 DEF renameTmp, Whole, TypeOK, TablesTypeOK
  <2>3. \A u \in Tables : Told(u)'
    <3>1. Told(t)' BY <1>t, <1>0, <2>1 DEF Told
    <3>2. \A u \in Tables \ {t} : Told(u)' BY <1>t, <1>0, <1>2, <2>2 DEF Told
    <3> QED BY <3>1, <3>2
  <2>4. \A u \in Tables : Kept(u)'
    BY <1>t, <1>0, <1>o, <2>1, <2>2 DEF Kept, Agrees
  <2>5. Half(c)' BY <1>t, <1>0, <2>1 DEF Half, Writing
  <2> QED BY <1>h, <2>3, <2>4, <2>5, TransactionsNext
<1> QED BY <1>t, <1>0, <1>3, <1>4 DEF Writing

LEMMA ClientKeeps ==
  ASSUME TypeOK, Phases, FilesEscaped, Transactions, NEW c \in Clients, Client(c)
  PROVE  Transactions'
<1> USE DEF TypeOK, HandlersTypeOK, TablesTypeOK
<1>s. CASE Stop BY <1>s DEF Stop, Transactions, Ready
<1>1. CASE Transaction(c)
  <2>0. PICK t \in Tables, k \in Keys, d \in BOOLEAN :
           \E e \in NewEntries(t) \cup {NoEntry} :
               Changes(c, t, k, e, d) /\ Locks(c)
    BY <1>1 DEF Transaction
  <2>1. PICK e : Changes(c, t, k, e, d) /\ Locks(c) BY <2>0
  <2>2. /\ server = "up" /\ server' = server /\ lock = NoClient /\ lock' = c
        /\ cpc[c] = "idle" /\ err' = err /\ acked' = acked
        /\ file' = file /\ tmp' = tmp
        /\ mem' = [mem EXCEPT ![t][k] = e]
        /\ work'[c].table = t /\ \A f \in Clients \ {c} : work'[f] = work[f]
        /\ cpc' = [cpc EXCEPT ![c] = IF err THEN "return" ELSE "open"]
    BY <2>1 DEF Changes, Locks, disk
  <2>3. \A f \in Clients : ~Writing(f)
    BY <2>2, StoreAssumption DEF Writing, Steps
  <2>4. \A u \in Tables : Told(u) /\ Kept(u)
    BY <2>2, TransactionsParts DEF Ready
  <2>5. \A u \in Tables : Told(u)'
    BY <2>2, <2>4 DEF Told
  <2>6. \A u \in Tables : Kept(u)'
    <3>1. CASE err BY <2>2, <3>1 DEF Kept
    <3>2. CASE ~err
      <4>1. Kept(t)' BY <2>2, <3>2 DEF Kept, Writing
      <4>2. \A u \in Tables \ {t} : Agrees(u)
        BY <2>3, <2>4, <3>2 DEF Kept
      <4>3. \A u \in Tables \ {t} : Kept(u)' BY <2>2, <4>2 DEF Kept, Agrees
      <4> QED BY <4>1, <4>3
    <3> QED BY <3>1, <3>2
  <2>7. \A f \in Clients : Half(f)'
    <3>1. \A f \in Clients \ {c} : Half(f)' BY <2>2, <2>3 DEF Half, Writing
    <3>2. CASE err BY <2>2, <3>1, <3>2 DEF Half, Writing
    <3>3. CASE ~err
      <4>1. Contents(mem[t]) = Contents(file[t].rows)
        BY <2>3, <2>4, <3>3, AgreesContents DEF Kept
      <4>2. \A j \in Keys : Content(mem[t][j]) = Content(file[t].rows[j])
        <5>1. \A j \in Keys : Contents(mem[t])[j] = Contents(file[t].rows)[j]
          BY <4>1
        <5> QED BY <5>1 DEF Contents
      <4>3. \A j \in Keys \ {k} : mem'[t][j] = mem[t][j]
        BY <2>2, Entries DEF RowsOf
      <4>4. OneChange(mem'[t], file'[t].rows)
        BY <2>2, <4>2, <4>3 DEF OneChange
      <4>5. Half(c)' BY <2>2, <3>3, <4>4 DEF Half, Writing, OneChange
      <4> QED BY <3>1, <4>5
    <3> QED BY <3>2, <3>3
  <2> QED BY <2>5, <2>6, <2>7, TransactionsNext
<1>2. CASE WriteTable(c) BY <1>2, WriteKeeps
<1>3. CASE WriteFails(c)
  <2>1. /\ err' = TRUE /\ UNCHANGED <<server, work, acked, tmp, file>>
        /\ cpc' = [cpc EXCEPT ![c] = "return"] /\ Writing(c)
        /\ server = "up"
    BY <1>3 DEF WriteFails, writeFails, disk, history, Writing, Phases
  <2>2. \A u \in Tables : Told(u) BY <2>1, TransactionsParts DEF Ready
  <2>3. \A u \in Tables : Told(u)' BY <2>1, <2>2 DEF Told, Writing
  <2>4. \A u \in Tables : Kept(u)' BY <2>1 DEF Kept
  <2>5. \A f \in Clients : Half(f)'
    BY <2>1 DEF Half, Writing, Phases
  <2> QED BY <2>3, <2>4, <2>5, TransactionsNext
<1>4. CASE Complete(c)
  <2>t. PICK t \in Tables : t = work[c].table OBVIOUS
  <2>1. /\ cpc[c] = "return" /\ ~err /\ server = "up"
        /\ UNCHANGED <<server, mem, err, file, tmp>>
        /\ cpc' = [cpc EXCEPT ![c] = "idle"]
        /\ acked' = [acked EXCEPT ![t] = mem[t]]
        /\ \A d \in Clients \ {c} : work'[d] = work[d]
    BY <1>4, <2>t DEF Complete, disk, Phases
  <2>2. \A d \in Clients \ {c} : cpc[d] = "idle"
    BY <2>1 DEF Phases, Steps
  <2>3. \A u \in Tables : Told(u) /\ Kept(u)
    BY <2>1, TransactionsParts DEF Ready
  <2>a. \A u \in Tables : Agrees(u)
    BY <2>1, <2>2, <2>3 DEF Kept, Writing
  <2>4. \A u \in Tables : Contents(mem[u]) = Contents(file[u].rows)
    BY <2>a, AgreesContents
  <2>5. \A u \in Tables : Kept(u)' BY <2>1, <2>a DEF Kept, Agrees
  <2>6. \A u \in Tables : Told(u)'
    <3>1. Told(t)' BY <2>1, <2>4 DEF Told
    <3>2. \A u \in Tables \ {t} : Contents(acked[u]) = Contents(file[u].rows)
      BY <2>t, <2>1, <2>2, <2>3 DEF Told
    <3>3. \A u \in Tables \ {t} : Told(u)' BY <2>1, <3>2 DEF Told
    <3> QED BY <3>1, <3>3
  <2>7. \A f \in Clients : Half(f)' BY <2>1, <2>2 DEF Half, Writing
  <2> QED BY <2>5, <2>6, <2>7, TransactionsNext
<1>5. CASE CompleteFails(c)
  <2>1. /\ cpc[c] = "return" /\ server = "up" /\ err
        /\ UNCHANGED <<server, mem, err, work, acked, file, tmp>>
        /\ cpc' = [cpc EXCEPT ![c] = "fatal"]
    BY <1>5 DEF CompleteFails, disk, history, Phases
  <2>2. \A u \in Tables : Told(u) BY <2>1, TransactionsParts DEF Ready
  <2>3. \A u \in Tables : Told(u)' BY <2>1, <2>2 DEF Told
  <2>4. \A u \in Tables : Kept(u)' BY <2>1 DEF Kept
  <2>5. \A f \in Clients : ~Writing(f)' BY <2>1 DEF Writing, Steps
  <2>6. \A f \in Clients : Half(f)' BY <2>5 DEF Half, Writing
  <2> QED BY <2>3, <2>4, <2>6, TransactionsNext
<1> QED BY <1>s, <1>1, <1>2, <1>3, <1>4, <1>5, ClientSteps

LEMMA TransactionsStep ==
  ASSUME TypeOK, Phases, FirstTables, FilesEscaped, Transactions, [Next]_vars
  PROVE  Transactions'
<1>s. ASSUME UNCHANGED <<cpc, work, mem, tmp, file, acked>>, Ready' => Ready,
             Ready' => (err => err')
      PROVE  Transactions'
  BY <1>s DEF Transactions, Ready, Writing, OneChange, Agrees
<1>n. CASE ~Ready' BY <1>n DEF Transactions, Ready
<1>0. ASSUME ~Ready, Ready', UNCHANGED <<cpc>>,
             \A t \in Tables : /\ Contents(acked'[t]) = Contents(file'[t].rows)
                               /\ Agrees(t)'
      PROVE  Transactions'
  <2>1. \A c \in Clients : cpc'[c] = "idle" BY <1>0 DEF Phases, Ready
  <2>2. \A c \in Clients : Half(c)' BY <2>1 DEF Half, Writing
  <2>3. \A t \in Tables : Told(t)' /\ Kept(t)' BY <1>0 DEF Told, Kept
  <2> QED BY <2>2, <2>3, TransactionsNext
<1>1. CASE ReadTables
  <2>1. CASE server' = "cert"
    <3>1. /\ \A t \in Tables : mem'[t] = ReadBack(t, file[t].rows)
          /\ acked' = mem' /\ file' = file /\ server = "read" /\ UNCHANGED cpc
      BY <1>1, <2>1 DEF ReadTables, disk, clients
    <3>2. \A t \in Tables : Contents(mem'[t]) = Contents(file[t].rows)
      BY <3>1, Entries, ReadRows DEF FilesEscaped
    <3>3. \A t \in Tables : Agrees(t)' BY <3>1 DEF Agrees
    <3> QED BY <1>0, <2>1, <3>1, <3>2, <3>3 DEF Ready
  <2>2. CASE server' = "refused" BY <1>n, <2>2 DEF Ready
  <2> QED BY <1>1, <2>1, <2>2 DEF ReadTables
<1>2. CASE InitTables
  <2>1. CASE server = "acp.rename" /\ renameTmp("acp") /\ server' = "cert"
    <3>1. /\ acked' = acked /\ mem' = mem /\ UNCHANGED cpc
          /\ file'["acp"] = tmp["acp"] /\ file'["users"] = file["users"]
      BY <1>2, <2>1
      DEF InitTables, history, clients, renameTmp, TypeOK, TablesTypeOK, Tables
    <3>2. \A t \in Tables : acked[t] = Empty /\ mem[t] = Empty
                            /\ file[t].rows = Empty
      BY <2>1 DEF FirstTables, FirstOpen, InitSteps
    <3>3. tmp["acp"].rows = Empty BY <2>1 DEF FirstTables, Whole
    <3> QED BY <1>0, <2>1, <3>1, <3>2, <3>3 DEF Ready, Tables, Agrees
  <2> QED BY <1>2, <1>n, <2>1 DEF InitTables, Ready
<1>3. CASE Certificate
  <2>1. /\ UNCHANGED <<cpc, work, mem, tmp, file, acked>>
        /\ err => err' 
        /\ Ready' => Ready
    BY <1>3
    DEF Certificate, TlsCheck, TlsFails, GenerateCert, GenerateFails, LoadPair,
        RenewCert, clients, disk, history, Ready
  <2> QED BY <1>s, <2>1
<1>4. CASE Open /\ ~ReadTables /\ ~InitTables
  BY <1>4, <1>n
  DEF Open, Start, MakeVersion, MakeVersionFails, InitFails, Ready
<1>5. CASE Killed BY <1>5, <1>n DEF Killed, Stop, Ready
<1>6. CASE UNCHANGED vars
  BY <1>6, <1>s DEF vars, clients, disk, history, Ready
<1> QED BY <1>1, <1>2, <1>3, <1>4, <1>5, <1>6, ClientKeeps DEF Next

-----------------------------------------------------------------------------
LEMMA SafeStep ==
  ASSUME TypeOK, Phases, FirstTables, Transactions, SafeFiles, [Next]_vars
  PROVE  SafeFiles'
<1> USE DEF SafeFiles, InitSteps, NoFile, TornPem
<1>f. FirstTables' BY FirstStep
<1>s. CASE UNCHANGED <<server, file, version, certFile, keyFile, tpc, certs, cut>>
  BY <1>s
<1>1. CASE Start BY <1>1 DEF Start, disk
<1>2. CASE ReadTables BY <1>2 DEF ReadTables, disk, Phases, Ready
<1>3. CASE MakeVersion BY <1>3 DEF MakeVersion, history
<1>4. CASE MakeVersionFails BY <1>4 DEF MakeVersionFails
<1>5. CASE InitTables
  <2>1. UNCHANGED <<version, certFile, keyFile, certs, cut>>
    BY <1>5 DEF InitTables, history
  <2>2. \/ server' \in InitSteps /\ UNCHANGED tpc
        \/ server' = "cert" /\ tpc' = "check"
    BY <1>5 DEF InitTables
  <2>3. server' = "cert" => \A t \in Tables : file'[t].state = "whole"
    BY <1>f DEF FirstTables, Ready
  <2>4. tpc = "off" BY <1>5 DEF InitTables, Phases, Ready
  <2>5. server' # "version" /\ version = "1"
    BY <1>5, <2>2 DEF InitTables, Phases
  <2> QED BY <2>1, <2>2, <2>3, <2>4, <2>5
<1>6. CASE InitFails BY <1>6 DEF InitFails
<1>7. CASE Stop
  <2>1. /\ UNCHANGED <<file, version, certFile, keyFile, certs>>
        /\ server' = "down" /\ tpc' = "off"
    BY <1>7 DEF Stop, disk
  <2>2. ASSUME cut' = {}
        PROVE  /\ cut = {} /\ server \notin InitSteps \cup {"version"}
               /\ tpc \notin Generating \ {"cert"}
    BY <1>7, <2>2 DEF Stop
  <2> QED BY <2>1, <2>2 DEF Generating
<1>8. CASE TlsCheck
  BY <1>8 DEF TlsCheck, TlsFails, disk, history, TypeOK, CertTypeOK, Phases,
      Ready
<1>9. CASE GenerateCert
  BY <1>9 DEF GenerateCert, TypeOK, CertTypeOK, Phases, Ready
<1>10. CASE GenerateFails BY <1>10 DEF GenerateFails
<1>11. CASE LoadPair
  BY <1>11, StoreAssumption
  DEF LoadPair, TlsFails, disk, history, Phases, Ready, TypeOK, CertTypeOK
<1>12. CASE RenewCert BY <1>12 DEF RenewCert, disk, history
<1>13. ASSUME NEW c \in Clients, Client(c) PROVE SafeFiles'
  <2>1. CASE Stop BY <1>7, <2>1
  <2>2. CASE ~Stop
    <3>1. /\ UNCHANGED <<version, certFile, keyFile, tpc, certs, cut>>
          /\ server = "up" /\ server' = "up"
      BY <1>13, <2>2, ClientSteps
      DEF Transaction, Changes, WriteTable, WriteFails, Complete,
          CompleteFails, disk, history, Phases, Steps
    <3>2. \A t \in Tables : file'[t].state = "whole"
      BY <1>f, <3>1 DEF FirstTables, Ready
    <3> QED BY <3>1, <3>2 DEF Phases
  <2> QED BY <2>1, <2>2
<1> QED
  BY <1>s, <1>1, <1>2, <1>3, <1>4, <1>5, <1>6, <1>7, <1>8, <1>9, <1>10, <1>11,
     <1>12, <1>13
  DEF Next, Open, Certificate, Killed, vars, disk, history

LEMMA StoreStep == StoreInv /\ [Next]_vars => StoreInv'
BY TypeStep, PhasesStep, FirstStep, EscapedStep, TransactionsStep, SafeStep
DEF StoreInv

LEMMA StoreAlways == Spec => []StoreInv
<1>1. Init => StoreInv BY StoreInit
<1>2. StoreInv /\ [Next]_vars => StoreInv' BY StoreStep
<1> QED BY <1>1, <1>2, PTL DEF Spec

-----------------------------------------------------------------------------
\* Every variable holds values of its kind, whatever fails and whenever the
\* process ends; in particular no path is unescaped more often than escaped.
THEOREM TypeSafety == Spec => []TypeOK
<1>1. StoreInv => TypeOK BY DEF StoreInv
<1> QED BY <1>1, StoreAlways, PTL

\* Between two transactions a server without error decides on the users and
\* policies that it wrote last, or read from its disk at start.
THEOREM MemorySafety == Spec => []MemoryIsDurable
<1>1. ASSUME StoreInv, server = "up", lock = NoClient, ~err, NEW t \in Tables
      PROVE  /\ file[t].state = "whole"
             /\ Agrees(t)
  <2>1. file[t].state = "whole" BY <1>1 DEF StoreInv, FirstTables, Ready
  <2>2. Kept(t) BY <1>1, TransactionsParts DEF StoreInv, Ready
  <2>3. \A c \in Clients : ~Writing(c)
    BY <1>1, StoreAssumption
    DEF StoreInv, TypeOK, HandlersTypeOK, Writing, Steps
  <2> QED BY <1>1, <2>1, <2>2, <2>3 DEF Kept
<1>2. StoreInv => MemoryIsDurable BY <1>1 DEF MemoryIsDurable
<1> QED BY <1>2, StoreAlways, PTL

\* A database stops opening only after a stop in the first Open or in the
\* replacement of the certificate; a stop in a transaction is harmless.
THEOREM RefuseSafety == Spec => []OnlyCutsRefuse
<1>1. StoreInv => OnlyCutsRefuse BY DEF StoreInv, SafeFiles, OnlyCutsRefuse
<1> QED BY <1>1, StoreAlways, PTL

-----------------------------------------------------------------------------
(***************************************************************************)
(* The refinement of Durable.                                              *)
(***************************************************************************)

LEMMA ByCell ==
  /\ (\A t \in Tables : Contents(acked[t]) = Contents(file[t].rows))
       => Promised = OnDisk
  /\ (\A t \in Tables : Contents(acked'[t]) = Contents(file'[t].rows))
       => Promised' = OnDisk'
BY DEF Promised, OnDisk

LEMMA DiskSame ==
  (\A t \in Tables : Contents(file'[t].rows) = Contents(file[t].rows))
    => OnDisk' = OnDisk
BY DEF OnDisk

LEMMA PromisedSame == acked' = acked => Promised' = Promised
BY DEF Promised

LEMMA DurableInit == Init => D!Init
<1> SUFFICES ASSUME Init PROVE D!Init OBVIOUS
<1>1. \A t \in Tables : acked[t] = Empty /\ file[t].rows = Empty
  BY DEF Init, Missing
<1>2. OnDisk = [cell \in Tables \X Keys |-> NoEntry]
  BY <1>1 DEF OnDisk, Contents, Empty, Content, NoEntry, CodedKinds
<1>3. Promised = OnDisk BY <1>1, ByCell
<1> QED BY <1>2, <1>3 DEF D!Init

\* A rename stores one entry.
LEMMA RenameStores ==
  ASSUME StoreInv, NEW c \in Clients, WriteTable(c), cpc[c] = "rename"
  PROVE  D!Store
<1> USE DEF StoreInv
<1>t. PICK t \in Tables : t = work[c].table
  BY DEF TypeOK, HandlersTypeOK
<1>1. /\ server = "up" /\ acked' = acked /\ renameTmp(t) /\ Writing(c)
      /\ \A d \in Clients \ {c} : cpc[d] = "idle"
  BY <1>t DEF WriteTable, Phases, Writing, history
<1>2. Half(c) /\ \A u \in Tables : Told(u)
  BY <1>1, TransactionsParts DEF Ready
<1>3. \A u \in Tables : Contents(acked[u]) = Contents(file[u].rows)
  BY <1>1, <1>2 DEF Told
<1>4. Promised = OnDisk /\ Promised' = Promised
  BY <1>1, <1>3, ByCell, PromisedSame
<1>5. PICK k \in Keys :
         \A j \in Keys \ {k} : Content(mem[t][j]) = Content(file[t].rows[j])
  BY <1>t, <1>1, <1>2 DEF Half, OneChange
<1>6. /\ file'[t].rows = mem[t]
      /\ \A u \in Tables \ {t} : file'[u] = file[u]
  BY <1>t, <1>1, <1>2 DEF renameTmp, Half, Whole, TypeOK, TablesTypeOK
<1>7. \A d \in (Tables \X Keys) \ {<<t, k>>} : OnDisk'[d] = OnDisk[d]
  <2> SUFFICES ASSUME NEW u \in Tables, NEW j \in Keys, <<u, j>> # <<t, k>>
               PROVE  OnDisk'[<<u, j>>] = OnDisk[<<u, j>>]
    OBVIOUS
  <2>1. /\ OnDisk[<<u, j>>] = Content(file[u].rows[j])
        /\ OnDisk'[<<u, j>>] = Content(file'[u].rows[j])
    BY DEF OnDisk, Contents
  <2>2. CASE u # t BY <1>6, <2>1, <2>2
  <2>3. CASE u = t
    <3>1. j # k BY <2>3
    <3> QED BY <1>5, <1>6, <2>1, <2>3, <3>1
  <2> QED BY <2>2, <2>3
<1> QED BY <1>4, <1>7 DEF D!Store

LEMMA ClientDurable ==
  ASSUME StoreInv, NEW c \in Clients, Client(c)
  PROVE  [D!Next]_(D!vars)
<1> USE DEF StoreInv, D!Next, D!vars
<1>s. CASE UNCHANGED <<file, acked>> BY <1>s, DiskSame, PromisedSame
<1>1. CASE WriteTable(c)
  <2>1. CASE cpc[c] = "rename" BY <1>1, <2>1, RenameStores
  <2>2. CASE cpc[c] # "rename" BY <1>1, <1>s, <2>2 DEF WriteTable, history
  <2> QED BY <2>1, <2>2
<1>2. CASE Complete(c)
  <2>t. PICK t \in Tables : t = work[c].table
    BY DEF TypeOK, HandlersTypeOK
  <2>1. /\ cpc[c] = "return" /\ ~err /\ server = "up" /\ file' = file
        /\ acked' = [acked EXCEPT ![t] = mem[t]]
    BY <1>2, <2>t DEF Complete, disk, Phases
  <2>2. \A d \in Clients \ {c} : cpc[d] = "idle"
    BY <2>1 DEF Phases, Steps, TypeOK, HandlersTypeOK
  <2>3. \A u \in Tables : Told(u) /\ Kept(u)
    BY <2>1, TransactionsParts DEF Ready
  <2>4. Contents(mem[t]) = Contents(file[t].rows)
    BY <2>1, <2>2, <2>3, AgreesContents DEF Kept, Writing
  <2>5. \A u \in Tables \ {t} : Contents(acked[u]) = Contents(file[u].rows)
    BY <2>t, <2>1, <2>2, <2>3 DEF Told
  <2>6. \A u \in Tables : Contents(acked'[u]) = Contents(file[u].rows)
    BY <2>1, <2>4, <2>5 DEF TypeOK, TablesTypeOK
  <2>7. Promised' = OnDisk' BY <2>1, <2>6, ByCell
  <2>8. OnDisk' = OnDisk BY <2>1, DiskSame
  <2> QED BY <2>7, <2>8 DEF D!Acknowledge
<1> QED
  BY <1>s, <1>1, <1>2, ClientSteps
  DEF Transaction, Changes, WriteFails, CompleteFails, Stop, disk, history

LEMMA DurableStep ==
  ASSUME StoreInv, [Next]_vars PROVE [D!Next]_(D!vars)
<1> USE DEF StoreInv, D!Next, D!vars
<1>s. CASE UNCHANGED <<file, acked>> BY <1>s, DiskSame, PromisedSame
<1>1. CASE ReadTables
  <2>1. CASE acked' = mem'
             /\ mem' = [t \in Tables |-> ReadBack(t, file[t].rows)]
    <3>1. file' = file BY <1>1 DEF ReadTables, disk
    <3>2. \A t \in Tables : Contents(acked'[t]) = Contents(file'[t].rows)
      BY <2>1, <3>1, Entries, ReadRows DEF FilesEscaped
    <3>3. Promised' = OnDisk' /\ OnDisk' = OnDisk
      BY <3>1, <3>2, ByCell, DiskSame
    <3> QED BY <3>3 DEF D!Acknowledge
  <2> QED BY <1>1, <1>s, <2>1 DEF ReadTables, disk
<1>2. CASE InitTables
  <2>1. \A t \in Tables : file[t].rows = Empty
    BY <1>2 DEF InitTables, FirstTables, FirstOpen, InitSteps
  <2>2. \A t \in Tables : file'[t].rows = Empty
    <3>1. CASE file' = file BY <2>1, <3>1
    <3>2. CASE server = "users.rename" /\ renameTmp("users")
      BY <2>1, <3>2
      DEF renameTmp, FirstTables, Whole, Tables, TypeOK, TablesTypeOK
    <3>3. CASE server = "acp.rename" /\ renameTmp("acp")
      BY <2>1, <3>3
      DEF renameTmp, FirstTables, Whole, Tables, TypeOK, TablesTypeOK
    <3> QED BY <1>2, <3>1, <3>2, <3>3 DEF InitTables
  <2>3. acked' = acked BY <1>2 DEF InitTables, history
  <2> QED BY <2>1, <2>2, <2>3, DiskSame, PromisedSame
<1>3. CASE (Open \/ Certificate \/ Killed) /\ ~ReadTables /\ ~InitTables
  BY <1>3, <1>s
  DEF Open, Start, MakeVersion, MakeVersionFails, InitFails, Certificate,
      TlsCheck, GenerateCert, GenerateFails, LoadPair, RenewCert, Killed, Stop,
      disk, history
<1>4. CASE UNCHANGED vars BY <1>4, <1>s DEF vars, disk, history
<1> QED BY <1>1, <1>2, <1>3, <1>4, ClientDurable DEF Next

\* The refinement: through any number of failed writes, kills and restarts, each
\* user and each policy with a plain path that a client was told of is on disk
\* as it was, of a policy with another path that it is there, and the disk
\* changes by one whole entry at a time.
THEOREM DurableRefinement == Spec => TablesAreDurable
<1>1. Init => D!Init BY DurableInit
<1>2. StoreInv /\ [Next]_vars => [D!Next]_(D!vars) BY DurableStep
<1> QED BY <1>1, <1>2, StoreAlways, PTL DEF Spec, TablesAreDurable, D!Spec
=============================================================================
