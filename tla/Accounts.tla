----------------------------- MODULE Accounts ------------------------------
(***************************************************************************)
(* Users and logins of fly-server (cmd/fly-server, internal/db/user.go).   *)
(*                                                                         *)
(* Every connection has one worker that runs its commands one at a time    *)
(* with its own sessionInfo; the connections share the user table, guarded *)
(* by the RWMutex of db.Handle.  One command is several critical sections: *)
(* update() at its start, then, often after a bcrypt computation of a      *)
(* quarter of a second with no lock held, its transaction, then            *)
(* changeUser.  What happens between two of them is up to the other        *)
(* connections.  A step here is one critical section and the local code    *)
(* around it.  Writing the table to disk is the module Store.              *)
(***************************************************************************)
EXTENDS Integers, FiniteSets

CONSTANTS
    Conns,        \* connections
    Names,        \* user names
    Passwords,
    Chroots,
    NoRoot,       \* the empty chroot
    NoName,       \* the empty username
    NoUser,       \* no entry in the table, a nil *db.User
    MaxCommands   \* bound: commands over the life of the server

ASSUME AccountsAssumption ==
    /\ NoRoot \in Chroots
    /\ NoName \notin Names
    /\ Passwords # {}
    /\ NoUser \notin [name : Names, pwd : Passwords, chroot : Chroots,
                      admin : BOOLEAN]
    /\ MaxCommands \in Nat

Users == [name : Names, pwd : Passwords, chroot : Chroots, admin : BOOLEAN]

Ops == {"ADDUSER", "SETPWD", "CHROOT", "SETADM", "RMUSER", "AUTH PWD",
        "AUTH TOK", "TOKEN"}

\* A command with the arguments it uses; the rest is fixed by the operation.
\* Only ADDUSER validates the name it is given.
AnyPassword == CHOOSE p \in Passwords : TRUE
Commands ==
    {c \in [op : Ops, name : Names \cup {NoName}, pwd : Passwords,
            chroot : Chroots, admin : BOOLEAN] :
        /\ c.op = "ADDUSER" => c.name \in Names
        /\ c.op = "TOKEN" => c.name = NoName
        /\ c.op \in {"ADDUSER", "SETPWD", "AUTH PWD"} \/ c.pwd = AnyPassword
        /\ c.op = "CHROOT" \/ c.chroot = NoRoot
        /\ c.op = "SETADM" \/ ~c.admin}

VARIABLES
    users,       \* db.Handle.users
    tokens,      \* names with a valid token
    stopped,     \* log.Fatalf ended the process
    pc, cmd,     \* per connection: what its worker does
    username, user, singleUser,   \* per connection: its sessionInfo
    ending,      \* per connection: Terminate was called
    \* history
    commands,    \* number of commands started
    known,       \* per connection: the users when its command started
    proven       \* names whose owner proved to be it

sessionVars == <<username, user, singleUser, ending>>
vars == <<users, tokens, stopped, pc, cmd, sessionVars, commands, known,
          proven>>

NoCommand == [op |-> "TOKEN", name |-> NoName, pwd |-> AnyPassword,
              chroot |-> NoRoot, admin |-> FALSE]

Present == {n \in Names : users[n] # NoUser}

Init ==
    /\ users = [n \in Names |-> NoUser]
    /\ tokens = {} /\ stopped = FALSE
    /\ pc = [s \in Conns |-> "idle"]
    /\ cmd = [s \in Conns |-> NoCommand]
    /\ username = [s \in Conns |-> NoName]
    /\ user = [s \in Conns |-> NoUser]
    /\ singleUser = [s \in Conns |-> FALSE]
    /\ ending = [s \in Conns |-> FALSE]
    /\ commands = 0
    /\ known = [s \in Conns |-> {}]
    /\ proven = {}

-----------------------------------------------------------------------------
(* The start of a command: dispatchCommand, sessionInfo.update and the     *)
(* handler up to its first critical section.                               *)

\* The session's user was removed since it logged in or ran a command.
Vanished(s) == username[s] # NoName /\ username[s] \notin Present

\* (mutant) update forgets the name of a removed user but not its record
update_keepsUser(s) ==
    /\ singleUser' = [singleUser EXCEPT ![s] = Present = {}]
    /\ username' = [username EXCEPT ![s] = IF Vanished(s) THEN NoName ELSE @]
    /\ known' = [known EXCEPT ![s] = Present]
    /\ UNCHANGED user

update(s) ==
    /\ singleUser' = [singleUser EXCEPT ![s] = Present = {}]
    /\ username' = [username EXCEPT ![s] = IF Vanished(s) THEN NoName ELSE @]
    /\ user' = [user EXCEPT ![s] = IF Vanished(s) THEN NoUser ELSE @]
    /\ known' = [known EXCEPT ![s] = Present]

IsAdmin(u) == u # NoUser /\ u.admin

\* (mutant) TOKEN does not check that the client is logged in
Allowed_anonymousToken(c, single, name, u) ==
    CASE c.op = "ADDUSER" -> single \/ IsAdmin(u)
      [] c.op = "SETPWD"  -> ~single /\ (name = c.name \/ IsAdmin(u))
      [] c.op \in {"CHROOT", "SETADM", "RMUSER"} -> ~single /\ IsAdmin(u)
      [] c.op = "TOKEN"    -> ~single
      [] c.op = "AUTH PWD" -> TRUE
      [] c.op = "AUTH TOK" -> c.name \in tokens

\* The checks of the handlers, on the sessionInfo that update has left.

Allowed(c, single, name, u) ==
    CASE c.op = "ADDUSER" -> single \/ IsAdmin(u)
      [] c.op = "SETPWD"  -> ~single /\ (name = c.name \/ IsAdmin(u))
      [] c.op \in {"CHROOT", "SETADM", "RMUSER"} -> ~single /\ IsAdmin(u)
      [] c.op = "TOKEN"    -> ~single /\ name # NoName
      [] c.op = "AUTH PWD" -> TRUE
      [] c.op = "AUTH TOK" -> c.name \in tokens

\* Where the handler goes next: its transaction, the lookup of the password,
\* changeUser, or it is done.
NextStep(c) ==
    CASE c.op \in {"ADDUSER", "SETPWD", "CHROOT", "SETADM", "RMUSER"} -> "txn"
      [] c.op = "AUTH PWD" -> "verify"
      [] c.op = "AUTH TOK" -> "change"
      [] c.op = "TOKEN"    -> "idle"

\* A token is a name and a time, encrypted with the server's key.
handleToken(s) == tokens' = tokens \cup {username'[s]}

Begin(s, c) ==
    LET allowed == Allowed(c, singleUser'[s], username'[s], user'[s])
    IN  /\ pc[s] = "idle" /\ commands < MaxCommands
        /\ commands' = commands + 1
        /\ update(s)
        /\ cmd' = [cmd EXCEPT ![s] = c]
        /\ pc' = [pc EXCEPT ![s] = IF allowed THEN NextStep(c) ELSE "idle"]
        /\ IF allowed /\ c.op = "TOKEN" THEN handleToken(s)
                                       ELSE UNCHANGED tokens
        /\ UNCHANGED <<users, stopped, ending, proven>>

\* Five minutes after it was made a token is refused.
TokenExpires(n) ==
    /\ n \in tokens
    /\ tokens' = tokens \ {n}
    /\ UNCHANGED <<users, stopped, pc, cmd, sessionVars, commands, known,
                   proven>>

-----------------------------------------------------------------------------
(* The transactions, each one critical section of db.Handle.lock.          *)

\* Connection s leaves its transaction for "to".
Commit(s, to) ==
    /\ pc[s] = "txn"
    /\ pc' = [pc EXCEPT ![s] = to]
    /\ UNCHANGED <<tokens, cmd, sessionVars, commands, known>>

NewUser(s) == [name |-> cmd[s].name, pwd |-> cmd[s].pwd, chroot |-> NoRoot,
               admin |-> singleUser[s]]

\* Txn.AddUser: EXISTS, or a new user, administrator when the command started
\* in single-user mode; the connection then becomes that user.
AddUser(s) ==
    /\ cmd[s].op = "ADDUSER"
    /\ IF cmd[s].name \in Present
       THEN Commit(s, "idle") /\ UNCHANGED <<users, proven>>
       ELSE /\ Commit(s, IF singleUser[s] THEN "change" ELSE "idle")
            /\ users' = [users EXCEPT ![cmd[s].name] = NewUser(s)]
            /\ proven' = IF singleUser[s] THEN proven \cup {cmd[s].name}
                                          ELSE proven
    /\ UNCHANGED stopped

\* The change that SETPWD, CHROOT and SETADM make to a record of the table.
Updated(u, c) ==
    CASE c.op = "SETPWD" -> [u EXCEPT !.pwd = c.pwd]
      [] c.op = "CHROOT" -> [u EXCEPT !.chroot = c.chroot]
      [] c.op = "SETADM" -> [u EXCEPT !.admin = c.admin]

\* (mutant) the own record is updated from the copy of the session
UpdateUser_fromCopy(s) ==
    /\ cmd[s].op \in {"SETPWD", "CHROOT", "SETADM"}
    /\ Commit(s, "idle")
    /\ LET n == cmd[s].name
           old == IF username[s] = n THEN user[s] ELSE users[n]
       IN  IF n \in Present
           THEN /\ users' = [users EXCEPT ![n] = Updated(old, cmd[s])]
                /\ UNCHANGED stopped
           ELSE stopped' = TRUE /\ UNCHANGED users
    /\ UNCHANGED proven

\* Txn.UpdateUser.  For an unknown user, or one removed meanwhile, it returns
\* an error and the handler calls log.Fatalf: the whole server stops.
UpdateUser(s) ==
    /\ cmd[s].op \in {"SETPWD", "CHROOT", "SETADM"}
    /\ Commit(s, "idle")
    /\ LET n == cmd[s].name
       IN  IF n \in Present
           THEN /\ users' = [users EXCEPT ![n] = Updated(@, cmd[s])]
                /\ UNCHANGED stopped
           ELSE stopped' = TRUE /\ UNCHANGED users
    /\ UNCHANGED proven

\* The folder's path is not accepted, or os.MkdirAll fails (see Files): CHROOT
\* answers with an error and never comes to its transaction.
ChrootFails(s) ==
    /\ cmd[s].op = "CHROOT"
    /\ Commit(s, "idle")
    /\ UNCHANGED <<users, stopped, proven>>

\* Txn.DeleteUser; NOTFOUND changes nothing.
DeleteUser(s) ==
    /\ cmd[s].op = "RMUSER"
    /\ Commit(s, "idle")
    /\ users' = [n \in Names |-> IF n = cmd[s].name THEN NoUser ELSE users[n]]
    /\ UNCHANGED <<stopped, proven>>

-----------------------------------------------------------------------------
(* Logging in.                                                             *)

\* (mutant) a missing user is not told from a wrong password
verifyPassword_anyMissing(s) ==
    LET n == cmd[s].name
        ok == n \in Present => users[n].pwd = cmd[s].pwd
    IN  /\ pc[s] = "verify"
        /\ pc' = [pc EXCEPT ![s] = IF ok THEN "change" ELSE "idle"]
        /\ proven' = IF ok /\ n \in Present THEN proven \cup {n} ELSE proven
        /\ UNCHANGED <<users, tokens, stopped, cmd, sessionVars, commands,
                       known>>

\* verifyPassword reads the user's hash; the comparison holds no lock.
verifyPassword(s) ==
    LET n == cmd[s].name
        ok == n \in Present /\ users[n].pwd = cmd[s].pwd
    IN  /\ pc[s] = "verify"
        /\ pc' = [pc EXCEPT ![s] = IF ok THEN "change" ELSE "idle"]
        /\ proven' = IF ok THEN proven \cup {n} ELSE proven
        /\ UNCHANGED <<users, tokens, stopped, cmd, sessionVars, commands,
                       known>>

\* (mutant) changeUser does not end the session of a missing user
changeUser_goesOn(s) ==
    LET n == cmd[s].name
    IN  /\ pc[s] = "change"
        /\ pc' = [pc EXCEPT ![s] = "idle"]
        /\ username' = [username EXCEPT ![s] = n]
        /\ user' = [user EXCEPT ![s] = IF n \in Present THEN users[n] ELSE @]
        /\ UNCHANGED <<users, tokens, stopped, cmd, singleUser, ending,
                       commands, known, proven>>

\* changeUser sets the name first and copies the user if it (still) exists,
\* else it keeps the record of the user it was and ends the session.  Every
\* caller answers OK.
changeUser(s) ==
    LET n == cmd[s].name
    IN  /\ pc[s] = "change"
        /\ pc' = [pc EXCEPT ![s] = "idle"]
        /\ username' = [username EXCEPT ![s] = n]
        /\ user' = [user EXCEPT ![s] = IF n \in Present THEN users[n] ELSE @]
        /\ ending' = [ending EXCEPT ![s] = @ \/ n \notin Present]
        /\ UNCHANGED <<users, tokens, stopped, cmd, singleUser, commands,
                       known, proven>>

\* The connection ends (see Session) and a new client takes its place, with
\* a sessionInfo of its own.
Reconnect(s) ==
    /\ pc[s] = "idle"
    /\ username' = [username EXCEPT ![s] = NoName]
    /\ user' = [user EXCEPT ![s] = NoUser]
    /\ singleUser' = [singleUser EXCEPT ![s] = FALSE]
    /\ ending' = [ending EXCEPT ![s] = FALSE]
    /\ UNCHANGED <<users, tokens, stopped, pc, cmd, commands, known, proven>>

-----------------------------------------------------------------------------
Step(s) ==
    \/ \E c \in Commands : Begin(s, c)
    \/ AddUser(s) \/ UpdateUser(s) \/ ChrootFails(s) \/ DeleteUser(s)
    \/ verifyPassword(s) \/ changeUser(s) \/ Reconnect(s)

Next == ~stopped /\ (\/ \E s \in Conns : Step(s)
                     \/ \E n \in Names : TokenExpires(n))

Spec == Init /\ [][Next]_vars

-----------------------------------------------------------------------------
(* Properties *)

\* Every variable holds values of its kind.
TypeOK ==
    /\ users \in [Names -> Users \cup {NoUser}]
    /\ tokens \subseteq Names
    /\ stopped \in BOOLEAN
    /\ pc \in [Conns -> {"idle", "txn", "verify", "change"}]
    /\ cmd \in [Conns -> Commands]
    /\ username \in [Conns -> Names \cup {NoName}]
    /\ user \in [Conns -> Users \cup {NoUser}]
    /\ singleUser \in [Conns -> BOOLEAN]
    /\ ending \in [Conns -> BOOLEAN]
    /\ commands \in 0 .. MaxCommands
    /\ known \in [Conns -> SUBSET Names]
    /\ proven \subseteq Names

\* Whatever the connections do between each other's critical sections, the
\* user table changes by one whole operation on one user at a time: no update
\* is lost, ADDUSER never replaces a user.
Dir == INSTANCE Directory
TableIsDirectory == Dir!Spec

\* A connection's name and the copy of its user go together: no name without
\* a record, no record of another user.  The exception is a connection whose
\* user was removed while it logged in, and that one is being ended.
IdentityConsistent ==
    \A s \in Conns : ~ending[s] =>
        /\ username[s] = NoName <=> user[s] = NoUser
        /\ user[s] # NoUser => user[s].name = username[s]

\* Why that is so: the table holds every user under its own name, a record
\* never outlives the name, and changeUser is reached only with a name that
\* somebody proved to own.
Identities ==
    /\ \A n \in Names : users[n] # NoUser => users[n].name = n
    /\ \A s \in Conns : user[s] # NoUser => username[s] # NoName
    /\ \A s \in Conns : pc[s] = "change" => cmd[s].name \in proven

\* Nobody is logged in under a name, by password, by token or by creating
\* the user, that a client never proved to own.
IdentityProven ==
    /\ tokens \subseteq proven
    /\ \A s \in Conns : username[s] # NoName => username[s] \in proven

\* Who may change the user table: a connection whose command started while
\* there was no user at all, or one logged in as a user that existed when its
\* command started, as an administrator or for its own password.
ChangeAuthorised(s) ==
    pc[s] = "txn" /\ pc'[s] # "txn" /\ users' # users =>
        \/ known[s] = {}
        \/ /\ username[s] \in known[s]
           /\ \/ IsAdmin(user[s])
              \/ cmd[s].op = "SETPWD" /\ cmd[s].name = username[s]

ChangesAuthorised == [][\A s \in Conns : ChangeAuthorised(s)]_vars

\* A transaction is under way only for who was entitled to it at its start:
\* the command still uses the identity that was checked, though the table has
\* moved on.
Entitled(s) ==
    \/ known[s] = {}
    \/ /\ username[s] \in known[s]
       /\ IsAdmin(user[s]) \/ (cmd[s].op = "SETPWD" /\ cmd[s].name = username[s])
    \/ cmd[s].op = "SETPWD" /\ cmd[s].name = NoName

TransactionsEntitled == \A s \in Conns : pc[s] = "txn" => Entitled(s)

\* access-control.md: "As soon as the first user is created, the server
\* switches to multi-user mode.  In this mode, users must authenticate before
\* they can run commands."  The check of ADDUSER is as old as the start of
\* its command, so a second unauthenticated client may add an administrator
\* after the first user was created.
MultiUserFromFirstUser ==
    [][\A s \in Conns :
        pc[s] = "txn" /\ pc'[s] # "txn" /\ users' # users =>
            Present = {} \/ username[s] # NoName]_vars
=============================================================================
