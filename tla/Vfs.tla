--------------------------------- MODULE Vfs --------------------------------
(***************************************************************************)
(* Path resolution and access decisions (internal/vfs/vfs.go, the matching *)
(* of policies in internal/db/acp.go).                                     *)
(*                                                                         *)
(* A path is the sequence of the names between its slashes; "/" is <<>>.   *)
(* The code compares paths as strings, so that /foo is a prefix of /foobar *)
(* as well as of /foo/bar: of the names only that much is kept, the        *)
(* relation Begins.  Paths have no "." and ".." segments.                  *)
(***************************************************************************)
EXTENDS Naturals, Sequences

CONSTANTS
    Names,        \* the names in paths
    Begins,       \* pairs of names of which the first begins the second
    Fly,          \* the name .fly
    Usernames,
    Anonymous,    \* a nil *db.User
    SingleUser    \* a session in single-user mode

ASSUME NamesAssumption ==
    /\ Fly \in Names
    /\ Begins \subseteq Names \X Names
    /\ \A n \in Names : <<n, n>> \in Begins

AllPaths   == Seq(Names)
Users      == [name : Usernames, admin : BOOLEAN, chroot : AllPaths]
Identities == Users \cup {Anonymous, SingleUser}
Policies   == [verb : {"ALLOW", "DENY"}, action : {"R", "W"},
               users : SUBSET Usernames, paths : SUBSET AllPaths]

ASSUME IdentitiesAssumption ==
    /\ Anonymous # SingleUser
    /\ Anonymous \notin Users /\ SingleUser \notin Users

\* strings.HasPrefix(path, prefix)
HasPrefix(path, prefix) ==
    \/ prefix = <<>>
    \/ /\ Len(prefix) <= Len(path)
       /\ \A i \in 1 .. Len(prefix) - 1 : path[i] = prefix[i]
       /\ <<prefix[Len(prefix)], path[Len(prefix)]>> \in Begins

matchesPolicy(path, username, action, policy) ==
    /\ policy.action = action
    /\ \E prefix \in policy.paths : HasPrefix(path, prefix)
    /\ username \in policy.users

GetPolicies(policies, path, username, action) ==
    {p \in policies : matchesPolicy(path, username, action, p)}

authorize(policies, user, path, action) ==
    /\ user # Anonymous
    /\ \/ user.admin
       \/ LET found == GetPolicies(policies, path, user.name, action)
          IN  found # {} /\ \A p \in found : p.verb # "DENY"

\* path.Join(user.Chroot, vPath)
cleanPath(user, vPath) ==
    IF user \in Users THEN user.chroot \o vPath ELSE vPath

Reserved(path) == HasPrefix(path, <<Fly>>)

\* What the policies say of a clean path.
Permits(policies, user, path, action) ==
    user = SingleUser \/ authorize(policies, user, path, action)

\* (mutant) the policies decide alone: no path is reserved
resolve_unreserved(policies, user, path, action) ==
    IF ~Permits(policies, user, path, action) THEN "denied" ELSE "ok"

\* resolve: the verdict on a clean path, denied before reserved.
resolve(policies, user, path, action) ==
    IF ~Permits(policies, user, path, action) THEN "denied"
    ELSE IF Reserved(path) THEN "reserved" ELSE "ok"
=============================================================================
