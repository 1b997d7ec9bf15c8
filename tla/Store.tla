------------------------------- MODULE Store -------------------------------
(***************************************************************************)
(* The database of fly-server (package internal/db): two tables, users and *)
(* access policies, kept in memory and written to CSV files as a whole at  *)
(* every change, a version file, and the TLS certificate with its key.     *)
(*                                                                         *)
(* A transaction (Txn ... Complete) holds Handle.lock while it changes the *)
(* memory and writes the file: a temporary file first, then a rename.  Any *)
(* file operation may fail; the first failure stays in Handle.err, and the *)
(* handler that sees it stops the process (log.Fatalf).  The process may   *)
(* also be killed between any two file operations.  A goroutine renews the *)
(* certificate meanwhile; it does not take Handle.lock but shares err.     *)
(*                                                                         *)
(* Of a policy only its path is kept, and of the path what the two codings *)
(* of acp.go do to it.  Lost power (nothing is ever fsynced) is not        *)
(* modelled: a file operation that returned has happened.                  *)
(***************************************************************************)
EXTENDS Integers, FiniteSets

CONSTANTS
    Clients,      \* connections that change the tables
    NoClient,     \* Handle.lock is free
    Keys,         \* user and policy names
    UserData,     \* what a user record holds, opaque here
    PathKinds,    \* the kinds of policy paths the clients use, see Entries
    Faults,       \* what may go wrong: "kill", "io"
    MaxChanges,   \* bound: changes of the tables over all runs
    MaxStarts,    \* bound: how often the server is started
    MaxCerts      \* bound: certificates generated over all runs

Tables == {"users", "acp"}
NoEntry == [data |-> "none", esc |-> 0]

\* "plain": a path without special characters.  "reserved": with a ":" or a
\* "%".  "plus": with a "+"; "space" is what that is read back as.
AllPathKinds == {"plain", "reserved", "plus", "space"}

ASSUME StoreAssumption ==
    /\ NoClient \notin Clients
    /\ PathKinds \subseteq AllPathKinds \ {"space"}
    /\ UserData \cap AllPathKinds = {} /\ "none" \notin UserData
    /\ Faults \subseteq {"kill", "io"}
    /\ MaxChanges \in Nat /\ MaxStarts \in Nat /\ MaxCerts \in Nat

\* An entry of a table; "esc" counts how often sanitizePaths has escaped it.
UserEntries == [data : UserData, esc : {0}]
PathEntries == [data : AllPathKinds, esc : Nat]
EntriesOf(t) == IF t = "users" THEN UserEntries ELSE PathEntries
Rows == [Keys -> UserEntries \cup PathEntries \cup {NoEntry}]
RowsOf(t) == [Keys -> EntriesOf(t) \cup {NoEntry}]
NewEntries(t) ==
    IF t = "users" THEN UserEntries ELSE [data : PathKinds, esc : {0}]

Empty == [k \in Keys |-> NoEntry]

\* A table's file is missing, torn (opened with O_TRUNC, not all written), or
\* whole.
Missing == [state |-> "missing", rows |-> Empty]
Torn    == [state |-> "torn", rows |-> Empty]
Whole(rows) == [state |-> "whole", rows |-> rows]

FileStates == [state : {"missing", "torn", "whole"}, rows : Rows]

\* A certificate or key file: its generation, or one of these.
NoFile == 0
TornPem == -1

VARIABLES
    server,      \* "down", in a step of db.Open, "up", or "refused": Open
                 \* failed, and will again
    mem,         \* Handle.users and Handle.policies
    err,         \* Handle.err # nil
    lock,        \* who holds Handle.lock for writing
    cpc, work,   \* per client: where its handler is, what it changes
    tpc, cert,   \* the certificate: where loadTlsCert is, what Handle.cert is
    \* the disk
    version,     \* .fly/version
    tmp, file,   \* per table: users.csv~ and users.csv, acp.csv~ and acp.csv
    certFile, keyFile, \* cert.pem and key.pem
    \* history
    acked,       \* the tables as the clients were told
    given,       \* the policy paths as read at start, then as clients gave them
    changes, starts, certs, \* counters for the bounds
    cut          \* which of the first Open ("first") and generateCert ("cert")
                 \* did not get to its end

disk     == <<version, tmp, file, certFile, keyFile>>
history  == <<acked, given, changes, starts, certs, cut>>
clients  == <<lock, cpc, work>>
vars     == <<server, mem, err, clients, tpc, cert, disk, history>>

NoWork == [table |-> "users", deferred |-> FALSE]

Init ==
    /\ server = "down"
    /\ mem = [t \in Tables |-> Empty]
    /\ err = FALSE /\ lock = NoClient
    /\ cpc = [c \in Clients |-> "idle"]
    /\ work = [c \in Clients |-> NoWork]
    /\ tpc = "off" /\ cert = NoFile
    /\ version = "missing"
    /\ tmp = [t \in Tables |-> Missing] /\ file = [t \in Tables |-> Missing]
    /\ certFile = NoFile /\ keyFile = NoFile
    /\ acked = [t \in Tables |-> Empty] /\ given = Empty
    /\ changes = 0 /\ starts = 0 /\ certs = 0 /\ cut = {}

-----------------------------------------------------------------------------
(* The codings of acp.go.                                                  *)

\* sanitizePaths escapes "%" and ":", in the memory of the table too: the
\* copy of the policy it is given shares its Paths.
sanitizePaths(e) == IF e.data = "reserved" THEN [e EXCEPT !.esc = @ + 1] ELSE e

\* (mutant) writeAccessPolicies writes the paths as they are
Written_raw(t, rows) == rows

\* What writeUsers or writeAccessPolicies leaves in memory, and writes.
Written(t, rows) ==
    IF t = "users" THEN rows ELSE [k \in Keys |-> sanitizePaths(rows[k])]

\* parsePolicyPaths (url.QueryUnescape) undoes one escape; "+" is a space.
parsePolicyPath(e) ==
    [data |-> IF e.data = "plus" THEN "space" ELSE e.data,
     esc  |-> IF e.data = "reserved" THEN e.esc - 1 ELSE e.esc]

ReadBack(t, rows) ==
    IF t = "users" THEN rows ELSE [k \in Keys |-> parsePolicyPath(rows[k])]

-----------------------------------------------------------------------------
(* Writing a table: writeUsers, writeAccessPolicies.  Each operator is one *)
(* file operation that succeeds.                                           *)

\* OpenFile with O_TRUNC
openTmp(t) == tmp' = [tmp EXCEPT ![t] = Torn]

\* (mutant) a failed WriteAll goes unnoticed
writeTmp_unchecked(t) ==
    /\ mem' = [mem EXCEPT ![t] = Written(t, @)]
    /\ \/ tmp' = [tmp EXCEPT ![t] = Whole(mem'[t])]
       \/ "io" \in Faults /\ UNCHANGED tmp

\* csv.WriteAll
writeTmp(t) ==
    /\ mem' = [mem EXCEPT ![t] = Written(t, @)]
    /\ tmp' = [tmp EXCEPT ![t] = Whole(mem'[t])]

\* (mutant) a failed rename goes unnoticed
renameTmp_unchecked(t) ==
    \/ /\ file' = [file EXCEPT ![t] = tmp[t]]
       /\ tmp' = [tmp EXCEPT ![t] = Missing]
    \/ "io" \in Faults /\ UNCHANGED <<file, tmp>>

\* os.Rename
renameTmp(t) ==
    /\ file' = [file EXCEPT ![t] = tmp[t]]
    /\ tmp' = [tmp EXCEPT ![t] = Missing]

\* One of the three fails; the paths are escaped before WriteAll.
writeFails(t, step) ==
    /\ "io" \in Faults /\ err' = TRUE
    /\ mem' = IF step = "write" THEN [mem EXCEPT ![t] = Written(t, @)] ELSE mem

-----------------------------------------------------------------------------
(* db.Open                                                                 *)

\* main starts the server: an empty Handle, then readVersionFile.
Start ==
    /\ server = "down" /\ starts < MaxStarts
    /\ starts' = starts + 1
    /\ \/ version = "missing" /\ server' = "mkversion"
       \/ version = "torn" /\ server' = "refused"
       \/ version = "1" /\ server' = "read"
    /\ mem' = [t \in Tables |-> Empty]
    /\ err' = FALSE /\ cert' = NoFile
    /\ UNCHANGED <<clients, tpc, disk, acked, given, changes, certs, cut>>

\* readUsers and readAccessPolicies.  What a restarted server finds is what
\* its clients are told from then on.
ReadTables ==
    /\ server = "read"
    /\ IF \A t \in Tables : file[t].state = "whole"
       THEN /\ mem' = [t \in Tables |-> ReadBack(t, file[t].rows)]
            /\ acked' = mem'
            /\ given' = mem'["acp"]
            /\ server' = "cert"
            /\ tpc' = "check"
       ELSE /\ server' = "refused"
            /\ UNCHANGED <<mem, acked, given, tpc>>
    /\ UNCHANGED <<err, clients, cert, disk, changes, starts, certs, cut>>

\* The first Open: os.WriteFile creates the version file, then writes it.
MakeVersion ==
    /\ \/ /\ server = "mkversion"
          /\ version' = "torn" /\ server' = "version"
       \/ /\ server = "version"
          /\ version' = "1" /\ server' = "users.open"
    /\ UNCHANGED <<mem, err, clients, tpc, cert, tmp, file, certFile, keyFile,
                   history>>

MakeVersionFails ==
    /\ server \in {"mkversion", "version"} /\ "io" \in Faults
    /\ err' = TRUE
    /\ server' = "down"
    /\ cut' = cut \cup {"first"}
    /\ UNCHANGED <<mem, clients, tpc, cert, disk, acked, given, changes, starts,
                   certs>>

\* It then writes the two empty tables.
InitSteps == {"users.open", "users.write", "users.rename",
              "acp.open", "acp.write", "acp.rename"}

InitTables ==
    /\ \/ /\ server = "users.open" /\ server' = "users.write"
          /\ openTmp("users") /\ UNCHANGED <<mem, file, tpc>>
       \/ /\ server = "users.write" /\ server' = "users.rename"
          /\ writeTmp("users") /\ UNCHANGED <<file, tpc>>
       \/ /\ server = "users.rename" /\ server' = "acp.open"
          /\ renameTmp("users") /\ UNCHANGED <<mem, tpc>>
       \/ /\ server = "acp.open" /\ server' = "acp.write"
          /\ openTmp("acp") /\ UNCHANGED <<mem, file, tpc>>
       \/ /\ server = "acp.write" /\ server' = "acp.rename"
          /\ writeTmp("acp") /\ UNCHANGED <<file, tpc>>
       \/ /\ server = "acp.rename" /\ server' = "cert" /\ tpc' = "check"
          /\ renameTmp("acp") /\ UNCHANGED mem
    /\ UNCHANGED <<err, clients, cert, version, certFile, keyFile, history>>

\* After a failure nothing else is written and Open returns the error.
InitFails ==
    /\ server \in InitSteps
    /\ \E t \in Tables, step \in {"open", "write", "rename"} : writeFails(t, step)
    /\ server' = "down"
    /\ cut' = cut \cup {"first"}
    /\ UNCHANGED <<clients, tpc, cert, disk, acked, given, changes, starts,
                   certs>>

-----------------------------------------------------------------------------
(* The certificate: loadTlsCert, generateTlsCert.  At start they are part  *)
(* of Open; later the goroutine with the timer runs them beside the        *)
(* clients.                                                                *)

\* The certificate could not be loaded or made.  At start Open returns the
\* error and the process ends ("to"); the goroutine just ends.
TlsFails(to) ==
    /\ err' = TRUE
    /\ tpc' = "off"
    /\ server' = IF server = "cert" THEN to ELSE server

\* certExists, getCertExpiry.  A certificate that is about to expire is
\* replaced.
TlsCheck ==
    /\ tpc = "check"
    /\ \/ certFile = NoFile /\ tpc' = "cert" /\ UNCHANGED <<err, server>>
       \/ certFile = TornPem /\ TlsFails("refused")
       \/ /\ certFile > NoFile
          /\ tpc' \in {"cert", "pair"}
          /\ UNCHANGED <<err, server>>
    /\ UNCHANGED <<mem, clients, cert, disk, history>>

\* generateCert, one file operation a step: create cert.pem, write it,
\* truncate key.pem, write it.
GenerateCert ==
    /\ \/ /\ tpc = "cert" /\ certs < MaxCerts
          /\ certFile' = TornPem /\ certs' = certs + 1
          /\ tpc' = "cert.write" /\ UNCHANGED keyFile
       \/ /\ tpc = "cert.write"
          /\ certFile' = certs /\ tpc' = "key" /\ UNCHANGED <<keyFile, certs>>
       \/ /\ tpc = "key"
          /\ keyFile' = TornPem /\ tpc' = "key.write"
          /\ UNCHANGED <<certFile, certs>>
       \/ /\ tpc = "key.write"
          /\ keyFile' = certs /\ tpc' = "pair" /\ UNCHANGED <<certFile, certs>>
    /\ UNCHANGED <<server, mem, err, clients, cert, version, tmp, file, acked,
                   given, changes, starts, cut>>

Generating == {"cert", "cert.write", "key", "key.write"}

GenerateFails ==
    /\ tpc \in Generating /\ "io" \in Faults
    /\ TlsFails("down")
    /\ cut' = cut \cup {"cert"}
    /\ UNCHANGED <<mem, clients, cert, disk, acked, given, changes, starts,
                   certs>>

\* tls.LoadX509KeyPair.  At start Open then returns and main accepts
\* connections; the goroutine does not get here when err was set meanwhile.
LoadPair ==
    /\ tpc = "pair"
    /\ \/ /\ ~err /\ certFile = keyFile /\ certFile > NoFile
          /\ cert' = certFile
          /\ tpc' = "timer"
          /\ server' = IF server = "cert" THEN "up" ELSE server
          /\ UNCHANGED err
       \/ /\ err \/ certFile # keyFile \/ certFile <= NoFile
          /\ TlsFails("refused") /\ UNCHANGED cert
    /\ UNCHANGED <<mem, clients, disk, history>>

\* The timer fires an hour before the certificate expires.  With err set
\* generateCert and loadTlsCert return at once.
RenewCert ==
    /\ server = "up" /\ tpc = "timer"
    /\ tpc' = IF err THEN "off" ELSE "cert"
    /\ UNCHANGED <<server, mem, err, clients, cert, disk, history>>

-----------------------------------------------------------------------------
(* Transactions                                                            *)

Has(t, k) == mem[t][k] # NoEntry

\* Client c, in its handler, changes entry k of table t in memory and goes on
\* to write the table (not at all if err is set).  "deferred" says whether the
\* handler releases the lock after or before it looks at the result.
Changes(c, t, k, e, deferred) ==
    /\ server = "up" /\ cpc[c] = "idle" /\ changes < MaxChanges
    /\ changes' = changes + 1
    /\ mem' = [mem EXCEPT ![t][k] = e]
    /\ given' = IF t = "acp" THEN [given EXCEPT ![k] = e] ELSE given
    /\ work' = [work EXCEPT ![c] = [table |-> t, deferred |-> deferred]]
    /\ cpc' = [cpc EXCEPT ![c] = IF err THEN "return" ELSE "open"]
    /\ UNCHANGED <<server, err, tpc, cert, disk, acked, starts, certs, cut>>

Locks(c) == lock = NoClient /\ lock' = c

\* (mutant) PUTACP does not take the lock
PutAccessPolicy_unlocked(c, k) ==
    /\ \E e \in NewEntries("acp") : Changes(c, "acp", k, e, TRUE)
    /\ UNCHANGED lock

AddUser(c, k) ==
    /\ Locks(c) /\ ~Has("users", k)
    /\ \E e \in NewEntries("users") : Changes(c, "users", k, e, FALSE)

UpdateUser(c, k) ==
    /\ Locks(c) /\ Has("users", k)
    /\ \E e \in NewEntries("users") : Changes(c, "users", k, e, TRUE)

DeleteUser(c, k) ==
    /\ Locks(c) /\ Has("users", k)
    /\ Changes(c, "users", k, NoEntry, FALSE)

PutAccessPolicy(c, k) ==
    /\ Locks(c)
    /\ \E e \in NewEntries("acp") : Changes(c, "acp", k, e, TRUE)

DeleteAccessPolicy(c, k) ==
    /\ Locks(c) /\ Has("acp", k)
    /\ Changes(c, "acp", k, NoEntry, FALSE)

\* The three file operations of the write.
WriteTable(c) ==
    LET t == work[c].table
    IN  /\ \/ /\ cpc[c] = "open" /\ cpc' = [cpc EXCEPT ![c] = "write"]
              /\ openTmp(t) /\ UNCHANGED <<mem, file>>
           \/ /\ cpc[c] = "write" /\ cpc' = [cpc EXCEPT ![c] = "rename"]
              /\ writeTmp(t) /\ UNCHANGED file
           \/ /\ cpc[c] = "rename" /\ cpc' = [cpc EXCEPT ![c] = "return"]
              /\ renameTmp(t) /\ UNCHANGED mem
        /\ UNCHANGED <<server, err, lock, work, tpc, cert, version, certFile,
                       keyFile, history>>

\* After a failure the rest is left.
WriteFails(c) ==
    /\ cpc[c] \in {"open", "write", "rename"}
    /\ writeFails(work[c].table, cpc[c])
    /\ cpc' = [cpc EXCEPT ![c] = "return"]
    /\ UNCHANGED <<server, lock, work, tpc, cert, disk, history>>

\* The transaction returns err, whoever set it.  Without error the lock is
\* released and the client gets its OK.
Complete(c) ==
    /\ cpc[c] = "return" /\ ~err
    /\ lock' = NoClient
    /\ cpc' = [cpc EXCEPT ![c] = "idle"]
    /\ acked' = [acked EXCEPT ![work[c].table] = mem[work[c].table]]
    /\ work' = [work EXCEPT ![c] = NoWork]
    /\ UNCHANGED <<server, mem, err, tpc, cert, disk, given, changes, starts,
                   certs, cut>>

\* With an error the handler is on its way to log.Fatalf; ADDUSER, RMUSER and
\* RMACP release the lock before it.
CompleteFails(c) ==
    /\ cpc[c] = "return" /\ err
    /\ lock' = IF work[c].deferred THEN lock ELSE NoClient
    /\ cpc' = [cpc EXCEPT ![c] = "fatal"]
    /\ UNCHANGED <<server, mem, err, work, tpc, cert, disk, history>>

-----------------------------------------------------------------------------
\* The process ends, whatever it was doing; the disk is what is left.
Stop ==
    /\ server' = "down"
    /\ mem' = [t \in Tables |-> Empty]
    /\ err' = FALSE
    /\ lock' = NoClient
    /\ cpc' = [c \in Clients |-> "idle"]
    /\ tpc' = "off" /\ cert' = NoFile
    /\ cut' = cut \cup (IF server \in InitSteps \cup {"version"}
                       THEN {"first"} ELSE {})
                   \cup (IF tpc \in Generating \ {"cert"} THEN {"cert"} ELSE {})
    /\ work' = [c \in Clients |-> NoWork]
    /\ UNCHANGED <<disk, acked, given, changes, starts, certs>>

\* log.Fatalf in a handler
Fatal(c) == cpc[c] = "fatal" /\ Stop

Killed == server \notin {"down", "refused"} /\ "kill" \in Faults /\ Stop

Open ==
    \/ Start \/ ReadTables \/ MakeVersion \/ MakeVersionFails
    \/ InitTables \/ InitFails

Certificate ==
    \/ TlsCheck \/ GenerateCert \/ GenerateFails \/ LoadPair \/ RenewCert

Client(c) ==
    \/ \E k \in Keys : \/ AddUser(c, k) \/ UpdateUser(c, k) \/ DeleteUser(c, k)
                      \/ PutAccessPolicy(c, k) \/ DeleteAccessPolicy(c, k)
    \/ WriteTable(c) \/ WriteFails(c) \/ Complete(c) \/ CompleteFails(c) \/ Fatal(c)

Next == Open \/ Certificate \/ Killed \/ \E c \in Clients : Client(c)

Spec == Init /\ [][Next]_vars

-----------------------------------------------------------------------------
Steps == {"open", "write", "rename", "return"}

TablesTypeOK ==
    /\ mem \in [Tables -> Rows] /\ acked \in [Tables -> Rows]
    /\ tmp \in [Tables -> FileStates] /\ file \in [Tables -> FileStates]
    /\ \A t \in Tables : /\ mem[t] \in RowsOf(t) /\ acked[t] \in RowsOf(t)
                         /\ {tmp[t].rows, file[t].rows} \subseteq RowsOf(t)
    /\ given \in [Keys -> PathEntries \cup {NoEntry}]

HandlersTypeOK ==
    /\ lock \in Clients \cup {NoClient}
    /\ cpc \in [Clients -> Steps \cup {"idle", "fatal"}]
    /\ work \in [Clients -> [table : Tables, deferred : BOOLEAN]]
    /\ \A c \in Clients : cpc[c] \in Steps => lock = c

CertTypeOK ==
    /\ tpc \in Generating \cup {"off", "check", "pair", "timer"}
    /\ certFile \in TornPem .. MaxCerts /\ keyFile \in TornPem .. MaxCerts
    /\ cert \in NoFile .. MaxCerts /\ certs \in 0 .. MaxCerts

\* Every variable holds values of its kind; a handler that writes a table
\* holds the lock.
TypeOK ==
    /\ TablesTypeOK /\ HandlersTypeOK /\ CertTypeOK
    /\ server \in {"down", "up", "refused", "mkversion", "version", "read",
                    "cert"} \cup InitSteps
    /\ err \in BOOLEAN
    /\ version \in {"missing", "torn", "1"}
    /\ cut \subseteq {"first", "cert"}
    /\ starts \in Nat /\ changes \in Nat

\* What a restart keeps of an entry: all of it, unless it is a policy whose path
\* the codings change.  Of such a policy only that it is
\* there: sanitizePaths and parsePolicyPaths are not inverse, and a "+" comes
\* back as a space.
CodedKinds == {"reserved", "plus", "space"}
SomePolicy == [data |-> "space", esc |-> 0]

Content(e) == IF e.data \in CodedKinds THEN SomePolicy ELSE e

Contents(rows) == [k \in Keys |-> Content(rows[k])]

OnDisk == [cell \in Tables \X Keys |-> Contents(file[cell[1]].rows)[cell[2]]]
Promised == [cell \in Tables \X Keys |-> Contents(acked[cell[1]])[cell[2]]]

\* Through failed writes, kills and restarts, the users and the policies with
\* plain paths that a client was told of are on disk exactly as they are in
\* memory, and of a policy whose path has a ":", "%" or "+" that it is there.
\* The files change by one whole entry at a time, and a change that was not
\* acknowledged is there as a whole or not at all.
D == INSTANCE Durable WITH Cells <- Tables \X Keys, NoEntry <- NoEntry,
                           stored <- OnDisk, acked <- Promised
TablesAreDurable == D!Spec

\* Memory and disk agree: memory is what was written last, or what was read at
\* start.  (For the users both are the same; parsePolicyPaths changes paths.)
Agrees(t) == mem[t] \in {file[t].rows, ReadBack(t, file[t].rows)}

\* While no transaction is under way and nothing has failed, memory and disk
\* agree: no connection decides on a user or a policy that a restart forgets.
MemoryIsDurable ==
    server = "up" /\ lock = NoClient /\ ~err =>
        \A t \in Tables : file[t].state = "whole" /\ Agrees(t)

\* A database that was once made always opens again, wherever the process was
\* stopped.  Only two things are not safe against a stop: the first Open,
\* which writes the version file before the tables, and the replacement of
\* the certificate and key, two files overwritten in place.
OnlyCutsRefuse == server = "refused" => cut # {}

\* protocol-specs.md: "The policies apply to any file or folder that's a
\* descendant of the specified path": the server must keep the path that
\* PUTACP gave it.
PolicyKeepsPath ==
    server = "up" /\ lock = NoClient => mem["acp"] = given
=============================================================================
