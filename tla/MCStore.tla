------------------------------ MODULE MCStore ------------------------------
(* Store with interchangeable clients, names and user records.             *)
EXTENDS Store, TLC

Symmetry == Permutations(Clients) \cup Permutations(Keys)
              \cup Permutations(UserData)
=============================================================================
