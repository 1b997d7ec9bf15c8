----------------------------- MODULE Directory -----------------------------
(***************************************************************************)
(* What the user table promises whoever looks at it: it is a map of names  *)
(* to users that changes by one whole operation at a time.  A user is      *)
(* added only under a free name, an update changes one field of one user,  *)
(* and a removal removes one user.                                         *)
(***************************************************************************)
CONSTANTS Names, Passwords, Chroots, NoUser

Users == [name : Names, pwd : Passwords, chroot : Chroots, admin : BOOLEAN]

VARIABLE users

Exists(n) == users[n] # NoUser

Init == users = [n \in Names |-> NoUser]

Add(n) ==
    /\ ~Exists(n)
    /\ \E u \in Users : u.name = n /\ users' = [users EXCEPT ![n] = u]

SetPassword(n) ==
    /\ Exists(n)
    /\ \E p \in Passwords : users' = [users EXCEPT ![n].pwd = p]

SetChroot(n) ==
    /\ Exists(n)
    /\ \E c \in Chroots : users' = [users EXCEPT ![n].chroot = c]

SetAdmin(n) ==
    /\ Exists(n)
    /\ \E b \in BOOLEAN : users' = [users EXCEPT ![n].admin = b]

Remove(n) == Exists(n) /\ users' = [users EXCEPT ![n] = NoUser]

Next == \E n \in Names : \/ Add(n) \/ SetPassword(n) \/ SetChroot(n)
                         \/ SetAdmin(n) \/ Remove(n)

Spec == Init /\ [][Next]_users
=============================================================================
