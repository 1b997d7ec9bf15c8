--------------------------- MODULE AccountsProofs ---------------------------
(***************************************************************************)
(* Theorems about Accounts, for any number of connections, users,          *)
(* passwords and commands: logins are consistent and proven, the user      *)
(* table is a Directory, and only the entitled change it.                  *)
(***************************************************************************)
EXTENDS Accounts, TLAPS

LEMMA CommandFacts ==
    ASSUME NEW c \in Commands
    PROVE  /\ c.op \in Ops /\ c.name \in Names \cup {NoName}
           /\ c.pwd \in Passwords /\ c.chroot \in Chroots
           /\ c.admin \in BOOLEAN
           /\ c.op = "ADDUSER" => c.name \in Names
  BY DEF Commands

LEMMA TypeInit == Init => TypeOK
<1> SUFFICES ASSUME Init PROVE TypeOK OBVIOUS
<1>1. AnyPassword \in Passwords BY AccountsAssumption DEF AnyPassword
<1>2. NoCommand \in Commands
  BY <1>1, AccountsAssumption DEF NoCommand, Commands, Ops
<1>3. 0 \in 0 .. MaxCommands BY AccountsAssumption
<1>4. cmd \in [Conns -> Commands] BY <1>2 DEF Init
<1> QED BY <1>3, <1>4 DEF Init, TypeOK

\* A transaction leaves every variable in its kind.
LEMMA TypeTxn ==
    ASSUME TypeOK, NEW s \in Conns,
           AddUser(s) \/ UpdateUser(s) \/ ChrootFails(s) \/ DeleteUser(s)
    PROVE  TypeOK'
<1> USE DEF TypeOK, Commit, sessionVars
<1>0. cmd[s] \in Commands OBVIOUS
<1>1. CASE AddUser(s)
  <2>1. cmd[s].name \in Names /\ cmd[s].pwd \in Passwords
    BY <1>0, <1>1, CommandFacts DEF AddUser
  <2>2. NewUser(s) \in Users
    BY <2>1, AccountsAssumption DEF NewUser, Users
  <2> QED BY <1>1, <2>1, <2>2, SMTT(30) DEF AddUser
<1>2. CASE UpdateUser(s)
  <2>1. ASSUME NEW u \in Users, cmd[s].op \in {"SETPWD", "CHROOT", "SETADM"}
        PROVE  Updated(u, cmd[s]) \in Users
    BY <2>1, <1>0, CommandFacts DEF Updated, Users
  <2>2. cmd[s].name \in Present => users[cmd[s].name] \in Users
    BY DEF Present
  <2>3. cmd[s].op \in {"SETPWD", "CHROOT", "SETADM"} BY <1>2 DEF UpdateUser
  <2>4. users' \in [Names -> Users \cup {NoUser}] /\ stopped' \in BOOLEAN
    <3>1. CASE cmd[s].name \in Present
      <4>1. users' = [users EXCEPT ![cmd[s].name] =
                                     Updated(users[cmd[s].name], cmd[s])]
        BY <1>2, <3>1 DEF UpdateUser
      <4>2. Updated(users[cmd[s].name], cmd[s]) \in Users
        BY <2>1, <2>2, <2>3, <3>1
      <4> QED BY <1>2, <3>1, <4>1, <4>2 DEF UpdateUser
    <3>2. CASE cmd[s].name \notin Present BY <1>2, <3>2 DEF UpdateUser
    <3> QED BY <3>1, <3>2
  <2> QED BY <1>2, <2>4 DEF UpdateUser
<1>3. CASE ChrootFails(s) BY <1>3 DEF ChrootFails
<1>4. CASE DeleteUser(s) BY <1>4 DEF DeleteUser
<1> QED BY <1>1, <1>2, <1>3, <1>4

LEMMA TypeBegin ==
    ASSUME TypeOK, NEW s \in Conns, NEW c \in Commands, Begin(s, c)
    PROVE  TypeOK'
<1> USE DEF TypeOK, Begin, update, Present
<1>1. c.op \in Ops BY CommandFacts
<1>2. NextStep(c) \in {"idle", "txn", "verify", "change"}
  BY <1>1 DEF NextStep, Ops
<1>3. tokens' \subseteq Names
  <2>1. CASE Allowed(c, singleUser'[s], username'[s], user'[s]) /\ c.op = "TOKEN"
    <3>1. username'[s] # NoName BY <2>1 DEF Allowed
    <3>2. username'[s] \in Names \cup {NoName} OBVIOUS
    <3> QED BY <2>1, <3>1, <3>2 DEF handleToken
  <2> QED BY <2>1
<1>4. commands' \in 0 .. MaxCommands BY AccountsAssumption
<1>5. pc' \in [Conns -> {"idle", "txn", "verify", "change"}] BY <1>2
<1>6. /\ username' \in [Conns -> Names \cup {NoName}]
      /\ user' \in [Conns -> Users \cup {NoUser}]
      /\ singleUser' \in [Conns -> BOOLEAN]
      /\ known' \in [Conns -> SUBSET Names]
      /\ cmd' \in [Conns -> Commands]
  OBVIOUS
<1> QED BY <1>3, <1>4, <1>5, <1>6

LEMMA TypeLogin ==
    ASSUME TypeOK, NEW s \in Conns,
           verifyPassword(s) \/ changeUser(s) \/ Reconnect(s)
    PROVE  TypeOK'
<1> USE DEF TypeOK, sessionVars, Present
<1>1. CASE verifyPassword(s) BY <1>1 DEF verifyPassword
<1>2. CASE changeUser(s)
  <2>1. cmd[s].name \in Names \cup {NoName} BY CommandFacts
  <2>2. cmd[s].name \in Present => users[cmd[s].name] \in Users OBVIOUS
  <2> QED BY <1>2, <2>1, <2>2, SMTT(30) DEF changeUser
<1>3. CASE Reconnect(s) BY <1>3 DEF Reconnect
<1> QED BY <1>1, <1>2, <1>3

LEMMA TypeStep == TypeOK /\ [Next]_vars => TypeOK'
<1> SUFFICES ASSUME TypeOK, [Next]_vars PROVE TypeOK' OBVIOUS
<1>1. CASE UNCHANGED vars BY <1>1 DEF TypeOK, vars, sessionVars
<1>2. ASSUME NEW s \in Conns, Step(s) PROVE TypeOK'
  BY <1>2, TypeBegin, TypeTxn, TypeLogin DEF Step
<1>3. ASSUME NEW n \in Names, TokenExpires(n) PROVE TypeOK'
  BY <1>3 DEF TokenExpires, TypeOK, sessionVars
<1> QED BY <1>1, <1>2, <1>3 DEF Next

\* Every variable holds values of its kind: users only under names that
\* ADDUSER validates, tokens only for names of users.
THEOREM TypeSafety == Spec => []TypeOK
<1> QED BY TypeInit, TypeStep, PTL DEF Spec

-----------------------------------------------------------------------------
(* Identities *)

IdentityInv == TypeOK /\ Identities /\ IdentityConsistent /\ IdentityProven

LEMMA IdentityInit == Init => Identities /\ IdentityConsistent /\ IdentityProven
  BY AccountsAssumption
  DEF Init, Identities, IdentityConsistent, IdentityProven

\* A record of the table is no placeholder.
LEMMA UserFacts ==
    ASSUME NEW u \in Users PROVE u # NoUser /\ u.name \in Names
  BY AccountsAssumption DEF Users

LEMMA IdentityBegin ==
    ASSUME IdentityInv, NEW s \in Conns, NEW c \in Commands, Begin(s, c)
    PROVE  Identities' /\ IdentityConsistent' /\ IdentityProven'
<1> USE DEF IdentityInv, TypeOK
<1>1. UNCHANGED <<users, ending, proven>> BY DEF Begin
<1>2. \A t \in Conns :
        \/ username'[t] = username[t] /\ user'[t] = user[t]
        \/ username'[t] = NoName /\ user'[t] = NoUser
  BY DEF Begin, update
<1>3. ASSUME NEW t \in Conns, pc'[t] = "change"
      PROVE  cmd'[t].name \in proven'
  <2>1. CASE t # s BY <1>1, <1>3, <2>1 DEF Begin, Identities
  <2>2. CASE t = s
    <3>1. NextStep(c) = "change" /\ Allowed(c, singleUser'[s], username'[s], user'[s])
          /\ cmd'[s] = c
      BY <1>3, <2>2 DEF Begin
    <3>2. c.op = "AUTH TOK"
      BY <3>1, CommandFacts DEF NextStep, Ops
    <3>3. c.name \in tokens BY <3>1, <3>2 DEF Allowed
    <3> QED BY <1>1, <2>2, <3>1, <3>3 DEF IdentityProven
  <2> QED BY <2>1, <2>2
<1>4. Identities' BY <1>1, <1>2, <1>3 DEF Identities
<1>5. IdentityConsistent' BY <1>1, <1>2 DEF IdentityConsistent
<1>6. tokens' \subseteq proven'
  <2>1. CASE tokens' = tokens BY <1>1, <2>1 DEF IdentityProven
  <2>2. CASE Allowed(c, singleUser'[s], username'[s], user'[s]) /\ c.op = "TOKEN"
    <3>1. username'[s] # NoName BY <2>2 DEF Allowed
    <3>2. username'[s] = username[s] BY <1>2, <3>1
    <3>3. tokens' = tokens \cup {username'[s]} BY <2>2 DEF Begin, handleToken
    <3> QED BY <1>1, <3>1, <3>2, <3>3 DEF IdentityProven
  <2> QED BY <2>1, <2>2 DEF Begin
<1>7. IdentityProven' BY <1>1, <1>2, <1>6 DEF IdentityProven
<1> QED BY <1>4, <1>5, <1>7

LEMMA IdentityTxn ==
    ASSUME IdentityInv, NEW s \in Conns,
           AddUser(s) \/ UpdateUser(s) \/ ChrootFails(s) \/ DeleteUser(s)
    PROVE  Identities' /\ IdentityConsistent' /\ IdentityProven'
<1> USE DEF IdentityInv, TypeOK
<1>1. UNCHANGED <<tokens, cmd, username, user, singleUser, ending>>
  BY DEF AddUser, UpdateUser, ChrootFails, DeleteUser, Commit, sessionVars
<1>2. proven \subseteq proven' BY DEF AddUser, UpdateUser, ChrootFails, DeleteUser
<1>3. ASSUME NEW t \in Conns, pc'[t] = "change"
      PROVE  cmd'[t].name \in proven'
  <2>1. CASE pc[t] = "change" BY <1>1, <1>2, <2>1 DEF Identities
  <2>2. CASE pc[t] # "change"
    <3>1. AddUser(s) /\ singleUser[s] /\ cmd[s].name \notin Present /\ t = s
      BY <1>3, <2>2 DEF AddUser, UpdateUser, ChrootFails, DeleteUser, Commit
    <3> QED BY <1>1, <3>1 DEF AddUser
  <2> QED BY <2>1, <2>2
<1>4. ASSUME NEW n \in Names, users'[n] # NoUser PROVE users'[n].name = n
  <2>1. CASE AddUser(s) BY <1>4, <2>1 DEF AddUser, NewUser, Identities
  <2>2. CASE UpdateUser(s)
    <3>1. CASE UNCHANGED users BY <1>4, <3>1 DEF Identities
    <3>2. CASE /\ cmd[s].name \in Present
               /\ users' = [users EXCEPT ![cmd[s].name] =
                                            Updated(users[cmd[s].name], cmd[s])]
      <4>1. ASSUME NEW u \in Users, cmd[s].op \in {"SETPWD", "CHROOT", "SETADM"}
            PROVE  Updated(u, cmd[s]).name = u.name
        BY <4>1 DEF Updated, Users
      <4>2. cmd[s].op \in {"SETPWD", "CHROOT", "SETADM"}
        BY <2>2 DEF UpdateUser
      <4>3. users[cmd[s].name] \in Users
            /\ users[cmd[s].name].name = cmd[s].name
        BY <3>2 DEF Present, Identities
      <4>4. Updated(users[cmd[s].name], cmd[s]).name = cmd[s].name
        BY <4>1, <4>2, <4>3
      <4> QED BY <1>4, <3>2, <4>4 DEF Identities
    <3> QED BY <2>2, <3>1, <3>2 DEF UpdateUser
  <2>3. CASE ChrootFails(s) BY <1>4, <2>3 DEF ChrootFails, Identities
  <2>4. CASE DeleteUser(s) BY <1>4, <2>4 DEF DeleteUser, Identities
  <2> QED BY <2>1, <2>2, <2>3, <2>4
<1>5. Identities' BY <1>1, <1>3, <1>4 DEF Identities
<1>6. IdentityConsistent' BY <1>1 DEF IdentityConsistent
<1>7. IdentityProven' BY <1>1, <1>2 DEF IdentityProven
<1> QED BY <1>5, <1>6, <1>7

LEMMA IdentityLogin ==
    ASSUME IdentityInv, NEW s \in Conns,
           verifyPassword(s) \/ changeUser(s) \/ Reconnect(s)
    PROVE  Identities' /\ IdentityConsistent' /\ IdentityProven'
<1> USE DEF IdentityInv, TypeOK, sessionVars
<1>1. CASE verifyPassword(s)
  <2>1. UNCHANGED <<users, tokens, cmd, username, user, ending>>
        /\ proven \subseteq proven'
    BY <1>1 DEF verifyPassword
  <2>2. \A t \in Conns : pc'[t] = "change" => cmd[t].name \in proven'
    BY <1>1, <2>1 DEF verifyPassword, Identities
  <2>3. Identities' BY <2>1, <2>2 DEF Identities
  <2>4. IdentityConsistent' BY <2>1 DEF IdentityConsistent
  <2>5. IdentityProven' BY <2>1 DEF IdentityProven
  <2> QED BY <2>3, <2>4, <2>5
<1>2. CASE changeUser(s)
  <2>1. cmd[s].name \in proven /\ cmd[s].name \in Names
    BY <1>2 DEF changeUser, Identities
  <2>2. cmd[s].name # NoName BY <2>1, AccountsAssumption
  <2>3. UNCHANGED <<users, tokens, cmd, proven>>
        /\ pc' = [pc EXCEPT ![s] = "idle"]
    BY <1>2 DEF changeUser
  <2>4. /\ username'[s] = cmd[s].name
        /\ cmd[s].name \in Present => user'[s] = users[cmd[s].name]
        /\ cmd[s].name \notin Present => ending'[s]
    BY <1>2 DEF changeUser
  <2>5. \A t \in Conns \ {s} : /\ username'[t] = username[t]
                               /\ user'[t] = user[t]
                               /\ ending'[t] = ending[t]
    BY <1>2 DEF changeUser
  <2>6. Identities'
    BY <2>2, <2>3, <2>4, <2>5 DEF Identities
  <2>7. IdentityConsistent'
    BY <2>1, <2>2, <2>4, <2>5 DEF IdentityConsistent, Identities, Present
  <2>8. IdentityProven' BY <2>1, <2>3, <2>4, <2>5 DEF IdentityProven
  <2> QED BY <2>6, <2>7, <2>8
<1>3. CASE Reconnect(s)
  BY <1>3 DEF Reconnect, Identities, IdentityConsistent, IdentityProven
<1> QED BY <1>1, <1>2, <1>3

LEMMA IdentityStep == IdentityInv /\ [Next]_vars => IdentityInv'
<1> SUFFICES ASSUME IdentityInv, [Next]_vars PROVE IdentityInv' OBVIOUS
<1>1. TypeOK' BY TypeStep DEF IdentityInv
<1> SUFFICES Identities' /\ IdentityConsistent' /\ IdentityProven'
  BY <1>1 DEF IdentityInv
<1>2. CASE UNCHANGED vars
  BY <1>2 DEF IdentityInv, vars, sessionVars, Identities, IdentityConsistent,
              IdentityProven
<1>3. ASSUME NEW s \in Conns, Step(s)
      PROVE  Identities' /\ IdentityConsistent' /\ IdentityProven'
  BY <1>3, IdentityBegin, IdentityTxn, IdentityLogin DEF Step
<1>4. ASSUME NEW n \in Names, TokenExpires(n)
      PROVE  Identities' /\ IdentityConsistent' /\ IdentityProven'
  BY <1>4 DEF IdentityInv, TokenExpires, sessionVars, Identities,
              IdentityConsistent, IdentityProven
<1> QED BY <1>2, <1>3, <1>4 DEF Next

LEMMA IdentityAlways == Spec => []IdentityInv
<1>1. Init => IdentityInv BY TypeInit, IdentityInit DEF IdentityInv
<1> QED BY <1>1, IdentityStep, PTL DEF Spec

\* A connection's name and its copy of the user go together, whoever is
\* removed and created again while it logs in.
THEOREM IdentitySafety == Spec => []IdentityConsistent
<1>1. IdentityInv => IdentityConsistent BY DEF IdentityInv
<1> QED BY <1>1, IdentityAlways, PTL

\* Every connection that has a name, and every token, goes back to a client
\* that proved to own that name.
THEOREM ProvenSafety == Spec => []IdentityProven
<1>1. IdentityInv => IdentityProven BY DEF IdentityInv
<1> QED BY <1>1, IdentityAlways, PTL

-----------------------------------------------------------------------------
(* The user table is a Directory.                                          *)

LEMMA DirectoryStep ==
    ASSUME IdentityInv, NEW s \in Conns,
           AddUser(s) \/ UpdateUser(s) \/ ChrootFails(s) \/ DeleteUser(s)
    PROVE  [Dir!Next]_users
<1> USE DEF IdentityInv, TypeOK
<1>0. cmd[s] \in Commands OBVIOUS
<1>1. CASE AddUser(s)
  <2>1. CASE UNCHANGED users BY <2>1
  <2>2. CASE cmd[s].name \notin Present
             /\ users' = [users EXCEPT ![cmd[s].name] = NewUser(s)]
    <3>1. cmd[s].name \in Names /\ cmd[s].pwd \in Passwords
      BY <1>0, <1>1, CommandFacts DEF AddUser
    <3>2. NewUser(s) \in Dir!Users /\ NewUser(s).name = cmd[s].name
      BY <3>1, AccountsAssumption DEF NewUser, Dir!Users
    <3>3. Dir!Add(cmd[s].name)
      BY <2>2, <3>1, <3>2 DEF Dir!Add, Dir!Exists, Present
    <3> QED BY <3>1, <3>3 DEF Dir!Next
  <2> QED BY <1>1, <2>1, <2>2 DEF AddUser
<1>2. CASE UpdateUser(s)
  <2>1. CASE UNCHANGED users BY <2>1
  <2>2. CASE /\ cmd[s].name \in Present
             /\ users' = [users EXCEPT ![cmd[s].name] =
                                          Updated(users[cmd[s].name], cmd[s])]
    <3>1. cmd[s].name \in Names /\ Dir!Exists(cmd[s].name)
      BY <2>2 DEF Present, Dir!Exists
    <3>2. cmd[s].pwd \in Passwords /\ cmd[s].chroot \in Chroots
          /\ cmd[s].admin \in BOOLEAN
      BY <1>0, CommandFacts
    <3>3. CASE cmd[s].op = "SETPWD"
      <4>1. Dir!SetPassword(cmd[s].name)
        BY <2>2, <3>1, <3>2, <3>3 DEF Dir!SetPassword, Updated
      <4> QED BY <3>1, <4>1 DEF Dir!Next
    <3>4. CASE cmd[s].op = "CHROOT"
      <4>1. Dir!SetChroot(cmd[s].name)
        BY <2>2, <3>1, <3>2, <3>4 DEF Dir!SetChroot, Updated
      <4> QED BY <3>1, <4>1 DEF Dir!Next
    <3>5. CASE cmd[s].op = "SETADM"
      <4>1. Dir!SetAdmin(cmd[s].name)
        BY <2>2, <3>1, <3>2, <3>5 DEF Dir!SetAdmin, Updated
      <4> QED BY <3>1, <4>1 DEF Dir!Next
    <3> QED BY <1>2, <3>3, <3>4, <3>5 DEF UpdateUser
  <2> QED BY <1>2, <2>1, <2>2 DEF UpdateUser
<1>3. CASE DeleteUser(s)
  <2>1. CASE cmd[s].name \in Present
    <3>1. cmd[s].name \in Names /\ Dir!Exists(cmd[s].name)
      BY <2>1 DEF Present, Dir!Exists
    <3>2. users' = [users EXCEPT ![cmd[s].name] = NoUser]
      BY <1>3, <3>1 DEF DeleteUser
    <3> QED BY <3>1, <3>2 DEF Dir!Remove, Dir!Next
  <2>2. CASE cmd[s].name \notin Present
    <3>1. \A n \in Names : users'[n] = users[n]
      BY <1>3, <2>2 DEF DeleteUser, Present
    <3>2. users' = users BY <1>3, <3>1 DEF DeleteUser
    <3> QED BY <3>2
  <2> QED BY <2>1, <2>2
<1>4. CASE ChrootFails(s) BY <1>4 DEF ChrootFails
<1> QED BY <1>1, <1>2, <1>3, <1>4

\* Between all the critical sections of all connections the table changes by
\* one whole operation on one user at a time.
THEOREM DirectoryRefinement == Spec => TableIsDirectory
<1>1. Init => Dir!Init BY DEF Init, Dir!Init
<1>2. IdentityInv /\ [Next]_vars => [Dir!Next]_users
  <2> SUFFICES ASSUME IdentityInv, [Next]_vars PROVE [Dir!Next]_users OBVIOUS
  <2>1. CASE UNCHANGED vars BY <2>1 DEF vars
  <2>2. ASSUME NEW s \in Conns, Step(s) PROVE [Dir!Next]_users
    <3>1. CASE AddUser(s) \/ UpdateUser(s) \/ ChrootFails(s) \/ DeleteUser(s)
      BY <3>1, DirectoryStep
    <3>2. CASE UNCHANGED users BY <3>2
    <3> QED
      BY <2>2, <3>1, <3>2
      DEF Step, Begin, verifyPassword, changeUser, Reconnect
  <2>3. ASSUME NEW n \in Names, TokenExpires(n) PROVE [Dir!Next]_users
    BY <2>3 DEF TokenExpires
  <2> QED BY <2>1, <2>2, <2>3 DEF Next
<1> QED BY <1>1, <1>2, IdentityAlways, PTL DEF Spec, TableIsDirectory, Dir!Spec

-----------------------------------------------------------------------------
(* Who changes the table.                                                  *)

\* Begin lets a transaction start only for the entitled: a session that keeps
\* a record after update has a name that is in the table.
LEMMA EntitledBegin ==
    ASSUME IdentityInv, NEW s \in Conns, NEW c \in Commands, Begin(s, c),
           pc'[s] = "txn"
    PROVE  Entitled(s)'
<1> USE DEF IdentityInv, TypeOK
<1>1. /\ cmd'[s] = c
      /\ known'[s] = Present
      /\ singleUser'[s] = (Present = {})
      /\ username'[s] = IF Vanished(s) THEN NoName ELSE username[s]
      /\ user'[s] = IF Vanished(s) THEN NoUser ELSE user[s]
  BY DEF Begin, update
<1>2. Allowed(c, singleUser'[s], username'[s], user'[s]) /\ NextStep(c) = "txn"
  BY DEF Begin
<1>3. c.op \in {"ADDUSER", "SETPWD", "CHROOT", "SETADM", "RMUSER"}
  BY <1>2, CommandFacts DEF NextStep, Ops
<1>4. username'[s] # NoName => username'[s] \in known'[s]
  BY <1>1 DEF Vanished
<1>5. IsAdmin(user'[s]) => username'[s] # NoName
  BY <1>1 DEF IsAdmin, Identities
<1>6. \/ known'[s] = {}
      \/ IsAdmin(user'[s])
      \/ c.op = "SETPWD" /\ username'[s] = c.name
  BY <1>1, <1>2, <1>3 DEF Allowed
<1> QED BY <1>1, <1>4, <1>5, <1>6 DEF Entitled, IsAdmin

LEMMA EntitledStep ==
    IdentityInv /\ TransactionsEntitled /\ [Next]_vars => TransactionsEntitled'
<1> SUFFICES ASSUME IdentityInv, TransactionsEntitled, [Next]_vars,
                    NEW t \in Conns, pc'[t] = "txn"
             PROVE  Entitled(t)'
  BY DEF TransactionsEntitled
<1> USE DEF IdentityInv, TypeOK
<1>1. CASE pc[t] = "txn" /\ UNCHANGED <<known[t], username[t], user[t], cmd[t]>>
  BY <1>1 DEF TransactionsEntitled, Entitled, IsAdmin
<1>2. CASE UNCHANGED vars BY <1>1, <1>2 DEF vars, sessionVars
<1>3. ASSUME NEW s \in Conns, Step(s) PROVE Entitled(t)'
  <2>1. ASSUME NEW c \in Commands, Begin(s, c) PROVE Entitled(t)'
    <3>1. CASE t = s BY <2>1, <3>1, EntitledBegin
    <3>2. CASE t # s BY <1>1, <2>1, <3>2 DEF Begin, update
    <3> QED BY <3>1, <3>2
  <2>2. CASE AddUser(s) \/ UpdateUser(s) \/ ChrootFails(s) \/ DeleteUser(s)
    BY <1>1, <2>2
    DEF AddUser, UpdateUser, ChrootFails, DeleteUser, Commit, sessionVars
  <2>3. CASE verifyPassword(s) BY <1>1, <2>3 DEF verifyPassword, sessionVars
  <2>4. CASE changeUser(s) BY <1>1, <2>4 DEF changeUser
  <2>5. CASE Reconnect(s) BY <1>1, <2>5 DEF Reconnect
  <2> QED BY <1>3, <2>1, <2>2, <2>3, <2>4, <2>5 DEF Step
<1>4. ASSUME NEW n \in Names, TokenExpires(n) PROVE Entitled(t)'
  BY <1>1, <1>4 DEF TokenExpires, sessionVars
<1> QED BY <1>2, <1>3, <1>4 DEF Next

\* The step of a transaction changes the table only for the entitled; a
\* SETPWD of the empty name finds no user and changes nothing.
LEMMA ChangeStep ==
    ASSUME IdentityInv, TransactionsEntitled, [Next]_vars, NEW t \in Conns
    PROVE  ChangeAuthorised(t)
<1> SUFFICES ASSUME pc[t] = "txn", pc'[t] # "txn", users' # users
             PROVE  \/ known[t] = {}
                    \/ /\ username[t] \in known[t]
                       /\ \/ IsAdmin(user[t])
                          \/ cmd[t].op = "SETPWD" /\ cmd[t].name = username[t]
  BY DEF ChangeAuthorised
<1>1. Entitled(t) BY DEF TransactionsEntitled
<1>2. ~(cmd[t].op = "SETPWD" /\ cmd[t].name = NoName)
  <2> SUFFICES ASSUME cmd[t].op = "SETPWD", cmd[t].name = NoName PROVE FALSE
    OBVIOUS
  <2>1. NoName \notin Present BY AccountsAssumption DEF Present
  <2>2. ~UNCHANGED vars BY DEF vars
  <2>3. PICK s \in Conns : Step(s) BY <2>2 DEF Next, TokenExpires
  <2>4. AddUser(s) \/ UpdateUser(s) \/ ChrootFails(s) \/ DeleteUser(s)
    BY <2>3 DEF Step, Begin, verifyPassword, changeUser, Reconnect
  <2>5. s = t
    BY <2>4
    DEF AddUser, UpdateUser, ChrootFails, DeleteUser, Commit, IdentityInv, TypeOK
  <2>6. UpdateUser(t) BY <2>4, <2>5 DEF AddUser, ChrootFails, DeleteUser
  <2> QED BY <2>1, <2>6 DEF UpdateUser
<1> QED BY <1>1, <1>2 DEF Entitled

\* Nobody changes the user table who was not entitled to when the command
\* started.
THEOREM AuthorisedSafety == Spec => ChangesAuthorised
<1>1. Init => TransactionsEntitled BY DEF Init, TransactionsEntitled
<1>2. IdentityInv /\ TransactionsEntitled /\ [Next]_vars
        => [\A s \in Conns : ChangeAuthorised(s)]_vars
  BY ChangeStep
<1> QED BY <1>1, <1>2, EntitledStep, IdentityAlways, PTL
        DEF Spec, ChangesAuthorised

=============================================================================
