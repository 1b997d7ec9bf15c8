# Models and proofs of fly-server

FlyByWire is a file server. A client opens a TLS connection, sends commands,
may send several before it reads an answer, and moves file contents through
*streams* that share the connection. The server keeps its users and access
policies in two CSV files. This directory holds TLA+ models of the server's
concurrent and persistent core, the TLC configurations that check them on small
instances, and theorems about them that TLAPS checks for every instance.

    tlc -workers 2 -config session_reads.cfg MCSession
    tlapm SessionProofs.tla

`PROJECT.json` lists the runs, the source lines behind each definition, the
hazards of the code with the properties that cover them, and for every property
a *mutant*: a plausible bug that makes the property fail. The mutants are the
definitions marked `(mutant)`; no behaviour uses them.

## 1. Inventory

| component | code | state | operations |
|---|---|---|---|
| Session goroutines | `internal/session/{session,reader,worker,writer}.go` | channels `commands`, `cmdOut`, `dataOut`, `done`, `terminate`; `waitGroup` | `Handle`, `handleReads`, `runCommands`, `handleWrites` |
| Streams | `internal/session/{streams,watchdog}.go`, `cmd/fly-server/{stream,close,copy}.go` | `S.streams`, `streamCount`; per stream `cancel`, `done`, `frames` | open a read, write or copy stream, frames, CLOSE, time-out |
| Accounts and logins | `cmd/fly-server/{main,auth,token,adduser,setpwd,setadm,chroot,rmuser}.go`, `internal/db/user.go` | user table, one `sessionInfo` per connection, tokens | ADDUSER, SETPWD, SETADM, CHROOT, RMUSER, AUTH, TOKEN |
| Tables on disk | `internal/db/{db,user,acp}.go`, `cmd/fly-server/{putacp,rmacp}.go` | version file, `users.csv`, `acp.csv`, their memory, `Handle.err`, `Handle.lock` | `Open`, transactions, `writeUsers`, `writeAccessPolicies` |
| TLS certificate | `internal/db/tls.go` | `cert.pem`, `key.pem`, the loaded pair | generate, load, renew |
| Virtual file system, access decisions | `internal/vfs`, `cmd/fly-server/vfs_helper.go`, `GetPolicies` in `internal/db/acp.go` | none (reads users and policies) | `resolveRead`, `resolveWrite` |
| File commands | `cmd/fly-server/{mkdir,touch,del,move,list}.go` | the file tree | MKDIR, TOUCH, DEL, MOVE, LIST |
| Client `fly cp` | `cmd/fly/{fly-cp,utils}.go` | its place in a transfer, the local file | `upload`, `download`, `statRemoteFile` |
| Wire format | `internal/wire/wire.go` | none (what is left to read) | `WriteTo`, `WireReader.Read` |
| Read-only commands, cryptography, logging | the rest | none | |

How they interact. `main` accepts a connection and gives it a `Session` and a
`sessionInfo`. `Handle` starts three goroutines and waits for one of them to ask
for the end. The *reader* parses messages: commands go to the *worker* through
`commands`, frames go to the goroutine of their write stream. The worker calls
the command handlers of `cmd/fly-server`, which use the database and the
streams, and sends the answers to the *writer* through `cmdOut`. Read streams
send their frames to the writer through the unbuffered `dataOut`. Connections
meet only in the database, under `Handle.lock`, and in the file tree.

What is hard, by component, and what makes the component correct:

* **Session, streams.** Three goroutines plus one per stream, on bounded
  channels, ended by closing `done` while any of them may be sending. Stream
  ids are reused. Correct means: answers in the order of the messages; nothing
  from an old stream under a reused id; nothing after a CLOSE or a QUIT; the
  stream table exact under every race of end, CLOSE and time-out; the connection
  closed only when nobody uses it, and, when it should be, eventually.
* **Accounts.** A command is several critical sections with a bcrypt
  computation of a quarter of a second between them, and decides on what it saw
  at its start. Correct means: no lost update, no identity without proof, no
  change by somebody who was not entitled to it.
* **Tables, certificate.** Memory is changed first, then a temporary file is
  written and renamed; any step can fail or be the last one. Correct means:
  what was acknowledged survives, a file is never half a table, and the database
  opens again.
* **Access decisions, file commands.** A path is joined to the user's chroot;
  an administrator may do anything; for others a policy that denies wins over
  those that allow, and with no policy for the path the answer is no. The
  verdict is used after the lock is gone, by calls of package `os` that other
  clients' calls come between. Correct means: no change and no entry of a
  listing without leave at some moment of the command; answers that were true at
  some moment; the server's own folder left alone; a tree that stays a tree.
* **`fly cp`.** It has no message that says "stored": it asks LIST until the
  file is there. Correct means: a success is a complete copy, a failure leaves
  the destination as it was, and it ends.
* **Wire format.** Values nest, blobs hold any byte, and TCP delivers a value in
  pieces or not at all. Correct means: what is read is what was written, and no
  part of a value is taken for a value.

## 2. Modules

    Pipeline <--refines-- Session <-- SessionClaims <-- MCSession
                             ^------- MCScripts
                             ^------- SessionProofs <-- StreamProofs <-- AnswerProofs
                             ^------- FlyCp <---- FlyCpWire <-- MCFlyCp
                                          Wire <-----'  ^------ FlyCpProofs
                                            ^------ WireProofs <-----'
    Directory <--refines-- Accounts <-- MCAccounts
                             ^------- AccountsProofs
    Durable  <--refines-- Store <-- MCStore
                             ^------- StoreProofs
    Vfs <-- Files <-- MCFiles
              ^------ FilesProofs

An arrow points from a module to the one it extends or, with *refines*,
instantiates (`FlyCpProofs` and `AnswerProofs` also use the theorems of
`StreamProofs` and `SessionProofs`, and `FlyCpProofs` those of `WireProofs`). `Pipeline`, `Directory` and `Durable` are
abstract specifications: what a client may rely on, without goroutines, locks or
files. Each detailed module instantiates its abstract one with a refinement
mapping, and a run checks the abstract `Spec` as a property.

### Session

One connection. An action is the code of one goroutine from one operation that
others can see (a channel operation, a critical section of `streamLock`, a
`waitGroup` call, the start of a read or write of the connection) to the next.
The prefix of an action's name is the goroutine: `Handle...`, `Reader...`,
`Worker...`, `Writer...`, `Stream...`.

| variable | code |
|---|---|
| `handle`, `terminate`, `done`, `wg` | where `Handle` is, `S.terminate`, `S.done`, `S.waitGroup` |
| `rpc`, `rcmd`, `robj` | `handleReads`: position, the message in its hands, the stream found for a frame |
| `commands`, `cmdOut`, `outClosed` | the channels |
| `kpc`, `kcmd`, `kans` | `runCommands`: position, command, answer |
| `wpc`, `wval` | `handleWrites`: position, the value being written |
| `streams`, `streamCount` | the table; a cell holds the stream registered under that id |
| `spc`, `kind`, `slot`, `cancel`, `sdone`, `frames`, `sval` | per stream: position, mode, id, its three channels, the frame it sends |
| `tmp` | per stream: its temporary file: open, removed, stored (renamed into place) or left behind |
| `cur` | per read stream: which of its two buffers it filled last; a frame carries its buffer |

The rest are history variables. No guard depends on them, except that `nread`
numbers the client's messages and stops at `MaxReads`. A stream carries the
number of the message that opened it, so that two holders of one id can be told
apart; the code has only the id.

Messages keep what the control depends on: `ping` stands for the commands that
only answer, `gone` for an AUTH of a user removed meanwhile (the one handler
that calls `Terminate`), `bad` for malformed input, `data` and `end` for frames.
`dataOut` is unbuffered: `WriterTakesFrame` is one step of sender and receiver.
`HandleWait` has the panic of `sync.WaitGroup` when a goroutine adds itself
while `Wait` is being woken. `RunTooMany` has the wrong variable that
`handleCopy` tests (`copy.go:61`), which answers id 0.

The environment (`Faults`) may hang up, break a write, make an open fail, make a
file operation fail, and let the watchdog expire at any time.

`tmp` follows the file of a write or copy stream through every end the code
has: `cancelWriteStream` and `cancelCopyStream` remove it, a rename stores it, a
failed rename and a STREAM W refused with TOOMANY leave it closed, and a copy
that could not read or write a block leaves it open (`leaked`,
`streams.go:370`). A copy is `StreamCopies`, a block at a time with the check of
`done` and `cancel` before each, and then `StreamRenames`, which looks at
neither. `cur` follows the
two buffers that `handleReadStream` fills in turn, which is sound only because
`dataOut` is unbuffered (the comment at `session.go:29`).

### Vfs and Files

`Vfs` is `resolve` and what it calls. A path is a sequence of names; since the
code compares strings, a policy for `/a` also covers `/ab`, and of the names only
that relation (`Begins`) is kept. `Files` puts the file commands and the streams
of several clients on one tree. A command asks for leave (`ResolveSrc`,
`ResolveDst`, one critical section of the policy table each) and then makes its
calls, one per step: `MkdirLooks`, `MkdirMakes` and `DelRemoves` are one `Stat`,
one folder or one entry of `os.MkdirAll` and `os.RemoveAll`, `TouchTimes` and
`TouchCreates` the two calls of TOUCH, `MoveLooks` and `MoveRenames` the `Lstat`
and the rename of `os.Rename`, `ListStats`, `ListReads` and `ListEntry` those of
LIST. CHROOT by an administrator makes its folder as MKDIR does (`AtMkdir`); what
it does to the user is in `Accounts`, where `ChrootFails` stands for every way in
which it does not come so far. `JobTakesChunk`, `JobReads`, `JobStores` and
`JobDropped` are what a stream does to its temporary file and to the tree later,
without asking again; an upload's file is empty until its first chunk. `ChangePolicy` is PUTACP or RMACP. `inForce` and `seen` are history:
the policy tables, and what was at each path, since a command began.
Package `os` is external: what it does is modelled for these calls (ENOTDIR,
that a folder is not replaced, that only an empty folder is removed).

### FlyCp

`Session` step by step, with one `fly cp` at the other end of the two directions
of the connection. Every server step is an action of `Session`, conjoined with
what it does to the connection and to the file; the client's steps are those of
`upload` and `download`. Blocks are counted, not stored. The watchdog may end an
upload at any time, disks may fail, and once the client has exited reads and
writes of the connection fail; before that the connection does not break.

### Wire and FlyCpWire

`Wire` is `WriteTo` and the reader as functions on texts, one operator per
function of `wire.go`. A text is a sequence of bytes, with a few letters for the
bytes that mean nothing to the format. Reading gives a value and the rest of the
text, or one of three ends: the text is over (`ErrIO`), it is malformed
(`ErrFormat`, with what was not expected), or `make` panics on a length that is
negative or too large (`MaxLen` is the greatest it takes).
`Values` are those that can be written so that they can be read: no newline on a
line, no space in an error's code, as many cells in a table as its size says, and
no blob that the reader would refuse. They nest up to `Nesting`, any number. What
the code does by recursion and by loops is written with recursive functions
(`Texts` and `Inside` by the depth of the nesting, `readMany` by the values read so
far, `Joined` by those written): `Inside(d)` reads whatever a text of `d + 1` bytes
can hold, since every value takes a byte at least.
`FlyCpWire` writes what travels between `fly cp` and the session with `Wire`: a
block is a blob of exactly `MaxBlobSize` bytes, as in the code.

### Accounts

The user table and the `sessionInfo` of every connection. A command is `Begin`
(`dispatchCommand`, `update` and the handler's checks), then, as its operation
needs, the transaction (`AddUser`, `UpdateUser`, `DeleteUser`), `verifyPassword`
and `changeUser`; connections interleave between them. `TokenExpires` and
`Reconnect` complete it. `stopped` is the process ended by `log.Fatalf`.
`known` and `proven` are history: the users when a command started, and the
names somebody proved to own. A password stands for its hash. A token is the
name in it, since its check (decryption, expiry, user exists at `changeUser`)
uses nothing else. Single-user mode is `update` finding the table empty.

### Store

`db.Open`, the transactions, and the certificate, one file operation per step.
`Stop` ends the process in any of them and keeps only the disk; `Start` is the
next run. A table file is missing, torn or whole. A user record is opaque; a
policy is its path, and the path is what the two codings of `acp.go` do to it:
`esc` counts how often `sanitizePaths` has escaped it, and `parsePolicyPath` is
`url.QueryUnescape`, which undoes one escape and turns a `+` into a space.
`err` is `Handle.err`, written by transactions and by the goroutine that renews
the certificate, which does not take the lock. `Durable` is told of users and of
policies with plain paths exactly; of a policy whose path the codings change
(`CodedKinds`) only that it is there, because its path is not what it was
(`PolicyKeepsPath`, which fails, and section 5).

## 3. Runs

| run | question | distinct states |
|---|---|---|
| `session_reads` | `ConnOpenWhileUsed`, `MessagesInOrder`, `ReusedIdIsQuiet`, `ClosedStreamIsQuiet`, `QuitIsLast`, `TempFilesOwned`, `BuffersIntact`, and the refinement of `Pipeline` (`AnswersInOrder`), for a client that reads and copies files, closes streams, sends malformed input and quits, with hang-ups and disk errors | 2.6 million |
| `session_writes` | the stream table and the WaitGroup stay exact with two ids, uploads, CLOSE, hang-ups, write errors, time-outs, disk errors; temporary files are removed or stored, and stored only while the stream counts (`TempFilesOwned`, `NothingStoredLate`) | 3.5 million |
| `session_answers` | every message is answered, or waits behind a CLOSE on a full `cancel`; every cancelled stream is released; `commands`, `cmdOut`, `frames` and `cancel` have one element (liveness) | 76 thousand |
| `session_ends` | a session told to end closes its connection, or a goroutine is in one of six enumerated endless sends (liveness), for nine clients (`MCScripts`) with every kind of stream, CLOSE, AUTH TOK and QUIT, hang-ups, write errors and time-outs | 378 thousand |
| `fly_cp` | no part of a file is ever stored, a success is a complete copy, `fly cp` ends or the session has a goroutine in an endless send (liveness); what is on the connection is read as the messages that were sent, and three questions about the format alone | 462 thousand |
| `files` | leave, at some moment, for the path that a changing command names and for every entry listed, honest answers, `.fly` kept, uploads emptied only by TOUCH in its window, by an empty file put over them or by an upload of nothing, a tree that stays a tree | 1.6 million |
| `accounts` | no lost update, consistent and proven identities, entitled changes | 399 thousand |
| `store` | durability, memory against disk, and when a database stops opening | 980 thousand |
| `frame_before_id`, `quit_hangs`, `single_user_race`, `policy_path` | disagreements with the repository's documents, section 5 | violation |

**Bounds, and why they are enough.** Three messages are what the longest races
need: open, CLOSE (or end), and open again under the same id, or one message in
each of reader, `commands` and worker. Capacities of 1 instead of 5 make every
channel both empty and full within three messages; the code never tests a
length, so a larger capacity only needs a longer client to fill it. `CancelCap`
is the code's 2 in the runs about safety and 1 in those about liveness: with 2, a
stream that has just ended must be closed three times before the worker blocks,
by a client of four messages; with 1, three do. `TermCap` keeps the code's 3 where
filling it is not the question; in `session_writes`, `session_ends` and `fly_cp` it
is 1.

`Stranded` enumerates six sends, and each is met in `session_ends`. Its clients
send their messages in a given order, because all messages in any order with all
faults are beyond five minutes: STREAM R then QUIT keeps a stream in its send to
`dataOut`; QUIT with two messages behind it the reader in its send to `commands`;
three messages of an upload the reader in its send to `frames`; two AUTHs of a
removed user the worker in its send to `cmdOut`, and a goroutine in its send to
`terminate`; STREAM R with two CLOSEs the worker in its send to `cancel`
(`CloseIsStuck`). The other four end the session while an upload or a copy is at
work.

One id forces reuse; `session_writes` has two, so that an operation can
hit the wrong entry. Two
connections with two names, two passwords, two chroots and four commands give
every pair of commands a login or creation before it. In `store`, three changes,
three starts and two certificates put a failed or killed write between two good
ones, and a second renewal beside it. Connections, clients, names and records
are interchangeable there and in `files`, and the symmetry sets use it; the session
runs and every liveness run use none. In `files`, two commands at a time are what
a race needs (a third client is the policy change), and fourteen commands on six
paths, four trees to start from and three identities make every pair of calls
meet: a file where a folder was, a folder removed between two steps of MKDIR, an
upload stored between the two calls of TOUCH, an empty file moved or copied over
another, a folder emptied under CHROOT, a policy withdrawn between check and use. The one policy that comes and
goes denies `/a`, and so the path `/ab` as well, which it begins. In `fly_cp`, a file of
two blocks has a proper part, three polls succeed at once, later or never, and
eight messages are all that such an upload sends. `ReadsBack`, `CutIsNoticed` and
`ComplaintIsOneMessage` are evaluated in the initial states, since they are about
functions: over 754 values, of every kind and nested, with every place at which
they can be cut, and over all 54 thousand texts of at most four bytes that can be
made of the sigils, a digit, a letter and the separators. The violation runs use the code's own capacities.

Deadlock is not checked: a session that closed, a client at its last message,
and a stopped server have no next step.

**Fairness** (`Session!Fairness`; `FlyCp` has the same for the session's steps,
and weak fairness of the client, which is sequential). Weak fairness of each goroutine is Go's
scheduler. Strong fairness of `WriterTakesFrame(o)` is the first-in first-out
queue of blocked senders of a Go channel, together with `select`'s random choice
among the channels that are ready (with probability one, none is passed over for
ever). `ReaderFails` is fair because each
`Read` has a deadline of five minutes (`reader.go:35`); reading a message never is, since the
client need not send one. `WriterWrites`/`WriterFails` as part of `Writer` is an
assumption on the client: it takes what it is sent or breaks the connection,
because `WriteTo` has no deadline. A file operation need not return unless its
stream is cancelled.

## 4. Proofs

The proof modules quantify over all constants, under the assumptions stated
with them: `SizesAssumption`, `ClientAssumption` (at least one message, id and
place in each channel), `CpAssumption` (`fly cp` sends the messages it sends),
`AccountsAssumption` and `StoreAssumption` (the special values are distinct from
the ordinary ones), `NamesAssumption` and `IdentitiesAssumption` (a name begins
itself; who the clients can be), `WireAssumption` and `FlyCpWireAssumption` (the
bytes include those with a meaning and those of the commands, the values asked of
are values, arrays may be sent, and `make` takes what the values need), and `FilesAssumption` (the paths considered
include their parents and the clients' own roots, and the commands and trees are
made of them). TLC evaluates each in the runs.

**SessionProofs**

* `TypeSafety`: `Spec => []TypeOK`, inductive as it stands: `TypeOK` includes
  what positions say of variables (a reader about to push has a stream).
* `OrderSafety`: `[]MessagesInOrder`. Proved with `TypeOK`; the invariant speaks
  of the three places at once (reader, `commands`, worker), and includes that a
  queued command's stream does not exist yet, without which `RunOpen` could not
  be shown to open a new one. It is needed in turn for the WaitGroup: a stream
  is counted once because it is opened once.
* `WaitSafety`: `[]WaitCoversGoroutines`, which strengthens the next one. The
  counter equals the goroutines that called `Add` and not `Done` (the streams
  as a cardinality, with lemmas for a stream that joins or leaves); after
  `Wait` comes `done`; and after the close everybody is at a place from which it
  looks at `done` first.
* `ConnSafety`: `[]ConnOpenWhileUsed`, from it.

**StreamProofs**, on top of it

* `TableSafety`: `[]TableMatchesStreams`, by cardinality lemmas for a stream that
  enters and leaves the table. It needs `MessagesInOrder`: the stream that is
  opened was never opened before.
* `FilesSafety`, `BufferSafety`: `[]TempFilesOwned` and the action property
  `BuffersIntact`. A stream's file is open exactly while it works on it; the one
  exception, which the property names, is a copy whose `io.CopyBuffer` failed. The invariant for the buffers says more than the property: as
  long as the writer holds a block, its stream has not gone beyond filling the
  other buffer.
* `ClosedSafety`, `ReusedSafety`: `[]ClosedStreamIsQuiet` and
  `[]ReusedIdIsQuiet`, both from `QuietInv`, which says what an answer in
  `cmdOut` stands for (`AnswersTrue`: a stream whose CLOSE is answered has
  signalled its end; an id that is announced belongs to a stream opened before),
  that a stream that signalled is past its last send, that streams are opened in
  the order of the messages and only under ids whose older holders are gone, and
  that the frame in the writer's hands was fresh when it was taken.
* `LateSafety`: the action property `NothingStoredLate`. A rename happens in the
  stream's loop, and by `QuietInv` a stream whose end somebody was told of is past
  it; by `WaitCoversGoroutines` so is every stream when the connection is closed
  (`NoSelectClosed`).

**AnswerProofs**

* `QuitSafety`: `[]QuitIsLast`. `QuitInv` follows the first QUIT: until the worker
  has it, it is in the reader's hands or in `commands`; from then on nothing is
  taken from `commands`, and the answer to QUIT is the last in `cmdOut`, or in the
  writer's hands, or sent.
* `AnswerRefinement`: `AnswersInOrder`, for every capacity of the channels. The
  mapping makes one queue of five places (the writer's hands, `cmdOut`, the
  worker's hands, `commands`, the reader's hands, in this order); the numbers in
  it are those of the messages not answered yet. A step of a goroutine moves the
  head of one place to the end of the place before it, which leaves the queue as
  it was, or adds at the back or removes at the front.

**AccountsProofs**

* `TypeSafety`: `[]TypeOK`.
* `IdentitySafety`, `ProvenSafety`: `IdentityConsistent` and `IdentityProven`
  are not inductive alone. `IdentityInv` adds `Identities`: the table holds each
  user under its own name, a session's record never outlives its name, and
  `changeUser` is only reached for a proven name.
* `DirectoryRefinement`: every step of any connection is a step of `Directory`
  or a stutter; the heart is that `UpdateUser` starts from the table.
* `AuthorisedSafety`: the action property, from `TransactionsEntitled`: while a
  transaction is pending its session still carries the identity that was
  checked, because only that session's own worker changes it.

**FlyCpProofs**

* `CpIsSession`: `CpSpec => Spec`. Every step of the composition is a step of
  `Session` or leaves its variables alone, so that all theorems above hold of a
  session that serves `fly cp`.
* `UploadSafety`: `[]NoPartialUpload`, for every number of blocks. `CpInv`: the
  client's messages follow its script (`Script`, `CommandsScripted`), so that only
  the second message opens a stream (`OneStream`); as long as the stream is in its
  loop, what is in its temporary file, in its channel and in the reader's hands is
  what was read of the frames, in their order (`FramesArrive`); hence a stream that
  takes the end frame has every block.
* `UploadEndsSafety`: `[]UploadEndsStored`. `FoundStored`: the answer of a LIST that
  found the file stands for a file that was stored or was there before the copy.
* `DownloadSafety`: `[]DownloadIsComplete`. `BlocksArrive` counts: every block that
  the stream read is in exactly one place (held by the stream, in the writer's
  hands, on the connection, or written by the client), and the last frame is
  behind all of them wherever it is. It needs `CpInv` for there being one stream.
* `ArrivesSafety`: `[]ArrivesAsSent`, for blocks of every size. Every message of
  the client and every answer and frame of the session is one of `Values`
  (`ClientValueType`, `ServerValueType`); this needs that an answer with an id is
  for a stream that is there (`AnswersNamed`). The rest is `AllRead` of
  `WireProofs`.
* `ReadsBackSafety`, `CutSafety`, `ComplaintSafety`: `[]ReadsBack`,
  `[]CutIsNoticed`, `[]ComplaintIsOneMessage`, for every set of samples and of
  arriving texts, from `NextReads` and `NextTidy` of `WireProofs`.

**WireProofs** are about the format alone, for all bytes, sizes and depths.

* `NextReads`: what `WriteTo` wrote of any value is read back, with whatever comes
  next left as it is; and of every proper beginning of it (`Cuts`) nothing is taken
  for a value and nothing is left. The statement is about one value. What is
  inductive is stronger (`ReadsInside`): the reader of level `d` does both for every
  value whose text has at most `d` bytes, at any depth. An array or a table of at
  most `d + 1` bytes has cells of at most `d`; `ManyRead` and `ManyCut` go through
  them one by one, and `CutJoin` says in which one a cut falls. Below are the lemmas
  on lines (a newline ends a line, and there is none before), and on numbers
  (`DecimalReads`: `Atoi` of what `%d` wrote).
* `AllRead`: several values in a row are read one by one; when the last byte is
  missing, all but the last are, and then none.
* `NextTidy`: on any text at all the reader ends with a rest that is a text, and
  quotes in its error a part of one line or one newline.
* Induction is on numbers only, as a fact about sets (`NatInd`, from the well-founded
  order of the library). For every recursive function a lemma says that it exists
  and what each of its values is (`TextsDef`, `InsideDef`, `GotStep`, `LastType`).

**StoreProofs**

* `StoreInv`: `TypeOK`; `Phases` (who can be at work while the server is where it
  is); `FirstTables` and `SafeFiles` (what the files hold during the first Open, and
  as long as no stop hit one of the two unsafe writes); `FilesEscaped` (what was
  written can be read back); `Transactions` (how memory, disk and answers differ in
  the course of a transaction: by one entry at most). It is inductive under
  failures, kills and restarts at every step.
* `MemorySafety`, `RefuseSafety`: `[]MemoryIsDurable`, `[]OnlyCutsRefuse`, from it.
* `DurableRefinement`: `TablesAreDurable`: exact for users and plain paths, and
  that the policy is there for the others. Only the rename changes what is on disk
  and only the answer what is promised; the other steps map to stutters.

**FilesProofs**

* The tree. Every step changes it in one of four ways: a folder is made, a file is
  put, entries are removed, or a file or folder is brought from another path. Each
  keeps `WellFormed` (above what exists are folders), by lemmas about prefixes of
  paths; with it, `TypeSafety`: `[]TypeOK`.
* `ListSafety`, `AnswerSafety`: `[]ListIsHonest`, `[]AnswersHonest`. `FilesInv` says
  for every client at every step what it may rely on because it saw it: the
  verdicts that were given (`FirstVerdict`, `HasLeave`, `JobHasLeave`), that TOUCH
  found nothing (`MissingOnce`), how far MKDIR has come (`OnItsWay`), which entries
  a LIST has dealt with (`Listing`), and that an answer is true (`AnswerHonest`).
  The history only grows while a command is under way, so that the steps of other
  clients keep all of it.
* `LeaveSafety`, `ReservedSafety`, `UploadSafety`: the action properties
  `NamedPathsPermitted`, `ReservedKept` and `UploadsKept`, from the same invariant and
  one lemma on who changes what (`StepChanges`). `LeaveSafety` claims leave for the
  path that a command names; what goes along with it is named in `TakenAlong`, and
  no leave to write that is claimed, since the code does not ask for it
  (section 5). `UploadSafety` names all three ways in which an
  upload is emptied. That `.fly` stays needs that the
  root does (`RootStays`): no move brings something over it.

Only model-checked: liveness, which is out of the prover's reach
(`EveryMessageAnswered`, `CancelledIsReleased`, `SessionEnds`, `CpEnds`).

## 5. Where the code and its documents disagree

* `frame_before_id`: a stream's first frame can be written before the answer
  with its id. The goroutine starts first, and frames and answers use different
  channels. The tests read the answer first.
* `quit_hangs`: "QUIT terminates the connection" fails when the reader is
  blocked sending a command sent after it to a worker that is gone, or a stream
  is blocked sending to a writer that is gone. `Handle` then waits for ever.
* `single_user_race`: an ADDUSER that started in single-user mode is carried out
  after another one has created the first user, for a client that is not logged
  in; both users become administrators.
* `policy_path`: storing any policy escapes `%` and `:` of every policy path in
  memory, since the copy shares its slice; the policies then name other paths
  until the server restarts.

Disagreements and pitfalls that the properties of the passing runs state as
exceptions:

* "The server then responds to the command" (`protocol-overview.md:12`), but a
  stream that ended by itself is in the table until `releaseStream`, and nobody
  receives from its `cancel` any more: two CLOSEs of its id fill the channel, and
  the third stops the worker for ever (`streams.go:446`; `CloseIsStuck` in
  `EveryMessageAnswered` and `SessionEnds`).
* `sanitizePaths` escapes `%` and `:` only, and `url.QueryUnescape` makes a space
  of `+` (`acp.go:245`): after a restart a policy for a path with a plus sign is a
  policy for another path, although "The policies apply to any file or folder
  that's a descendant of the specified path" (`protocol-specs.md:397`). Hence
  `CodedKinds` in `TablesAreDurable`.
* MOVE asks for leave to read its source (`move.go:31`) and takes it away; by
  `access-control.md` a user whom no policy allows to write there is denied. DEL
  of a folder removes the entries below it that a policy denies to write
  (`del.go:51`), and MOVE of a folder takes them along or away, although policies
  apply to descendants. `NamedPathsPermitted` names these cases in `TakenAlong`.
* TOUCH "sets the last modified time of a file to now"
  (`docs/protocol-specs.md`), but `os.Create` empties a file that an upload stores
  between its two calls (`UploadsKept` says: only then, when an empty file is
  moved or copied over it, or when another upload for its path gets its null frame
  before any chunk, `streams.go:298`).
* A COPY whose `io.CopyBuffer` fails returns without closing or removing its
  temporary file (`streams.go:370`, `leaked` in `TempFilesOwned`).
* Removing the last user brings single-user mode back, in which everybody may do
  everything (`main.go:147`; the documents do not speak of it).
* STREAM W ends the server with a nil dereference when a parent of the folder is
  a file (`streams.go:100`; `crashed` in `Files`).
* A DEL of the root removes `.fly`, with the users and policies
  (`ReservedKept`).
* `fly cp` "copies SOURCE to DEST", but exits as after a success when LIST finds
  the file that was there before, or when it takes the error frame of its own
  failed stream for LIST's answer (`UploadEndsStored`).
* An error answer quotes the byte that was not expected. When that byte is a
  newline (an empty line, or `#` alone on one), the answer becomes two messages,
  and every later answer is one behind (`ComplaintIsOneMessage`).
* A blob that is too large is refused after its size was read, and its bytes are
  then taken for the next values (`handleBlob` in `Wire`); a line that ends with
  the connection, or with the read deadline, counts as malformed input rather than
  as the end (`readSize`); a length that is negative or too large makes `make` panic
  (`Panicked`).

## 6. Not modelled, and why

The bytes of files and frames: blocks are counted where a property is about them
(`FlyCp`). Wall-clock time: the watchdog may fire whenever it is armed, tokens
expire at any time. Loss of power: nothing is synced, and what a file system
keeps is outside the code. Paths with `.` or `..` segments, which a
model of paths as sequences of names does not have. `protocol-specs.md:151` says
that the file commands "will not accept paths with . or .. segments"; in the code
(`vfs.go:39`) `path.Join` resolves them, for a user, before the check that looks
for them, so that they are accepted and `..` can lead out of the user's chroot.
Whatever is said here of chroots is said of paths without such segments. Modification times, file modes, links. Of the wire format,
maps (SHOWUSER writes one, and `wire.go` has no reader for them), the expansion of
`%` in the text of an error, and sizes beyond an `int`. AES and bcrypt: only their
verdicts are used. The read-only commands
(PING, WHOAMI, LISTUSER, SHOWUSER, LISTACP) change nothing: in `Session` they are
`ping`, in the other modules stuttering steps. Logging. Of `fly`, the parsing of
its arguments, the fingerprint prompt and `known_hosts`, which are sequential and
local.

## 7. State of the plan

All components that keep state are modelled and checked, and every safety property
of a passing run is proved. What is left out is listed in
section 6: it keeps no state, or is the business of the operating system, of
cryptography or of the user's terminal.
