----------------------------- MODULE MCAccounts ----------------------------
(* Accounts with interchangeable connections and users.                    *)
EXTENDS Accounts, TLC

Symmetry == Permutations(Conns) \cup Permutations(Names)
=============================================================================
