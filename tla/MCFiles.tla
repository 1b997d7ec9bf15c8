------------------------------ MODULE MCFiles ------------------------------
(* A small tree, with the identities, policies and commands that compete   *)
(* for it.                                                                 *)
EXTENDS Files, TLC

CONSTANTS a, ab, b, fly, ann, c1, c2, p1, p2

MCNames  == {a, ab, b, fly}
MCBegins == {<<n, n>> : n \in MCNames} \cup {<<a, ab>>}
MCNodes  == {<<>>, <<fly>>, <<a>>, <<a, b>>, <<a, b, b>>, <<ab>>}

\* ann with the whole tree, ann confined to /a, an administrator
Ann(admin, chroot) == [name |-> ann, admin |-> admin, chroot |-> chroot]
MCWho == {Ann(FALSE, <<>>), Ann(FALSE, <<a>>), Ann(TRUE, <<>>)}

Rule(verb, action, paths) ==
    [verb |-> verb, action |-> action, users |-> {ann}, paths |-> paths]

\* ann may read everything and write /ab and /a/b
MCTables == {(p1 :> Rule("ALLOW", "W", {<<ab>>, <<a, b>>}))
             @@ (p2 :> Rule("ALLOW", "R", {<<>>}))}
MCPolicies == {Rule("DENY", "R", {<<a>>})}

One(op, path) == [op |-> op, src |-> path, dst |-> path]
Two(op, src, dst) == [op |-> op, src |-> src, dst |-> dst]
MCCommands ==
    {One("MKDIR", <<a, b>>), One("CHROOT", <<a, b>>), One("TOUCH", <<a, b>>),
     One("DEL", <<>>), One("DEL", <<a>>), One("DEL", <<fly>>),
     One("LIST", <<>>), One("LIST", <<a>>),
     One("READ", <<ab>>), One("WRITE", <<a, b>>),
     One("WRITE", <<a, b, b>>),
     Two("COPY", <<ab>>, <<a, b>>),
     Two("MOVE", <<ab>>, <<a>>), Two("MOVE", <<a>>, <<ab>>)}

\* What is at /a, /a/b and /ab.
Start(x, y, z) ==
    [n \in MCNodes |-> CASE n = <<a>>       -> x
                         [] n = <<a, b>>    -> y
                         [] n = <<a, b, b>> -> "none"
                         [] n = <<ab>>      -> z
                         [] OTHER           -> "dir"]
MCTrees == {Start("none", "none", "old"), Start("old", "none", "none"),
            Start("dir", "old", "none"), Start("dir", "none", "empty")}

Symmetry == Permutations(Clients)
=============================================================================
