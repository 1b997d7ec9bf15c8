------------------------------ MODULE Pipeline ------------------------------
(***************************************************************************)
(* What a session promises a client that pipelines its messages, whatever  *)
(* goroutines and channels are in between: the messages that ask for an    *)
(* answer are answered one at a time, in the order they were sent, none    *)
(* twice and none skipped; nothing sent after a QUIT is answered; and a    *)
(* session that stopped answering never answers again.                     *)
(***************************************************************************)
EXTENDS Integers, Sequences

CONSTANT MaxReads   \* bound: how many messages the client sends

VARIABLES
    received,   \* number of messages received
    owed,       \* the numbers of the messages to answer, oldest first
    final,      \* the number of the first QUIT received, or 0
    broken      \* the session stopped answering

pipelineVars == <<received, owed, final, broken>>

Init == received = 0 /\ owed = <<>> /\ final = 0 /\ broken = FALSE

\* A message arrives.  It may need no answer (a frame for a live stream).
Receive ==
    /\ received < MaxReads
    /\ received' = received + 1
    /\ owed' \in {owed, Append(owed, received')}
    /\ final' \in {final, IF final = 0 THEN received' ELSE final}
    /\ UNCHANGED broken

Answer ==
    /\ ~broken /\ owed # <<>>
    /\ final # 0 => Head(owed) <= final
    /\ owed' = Tail(owed)
    /\ UNCHANGED <<received, final, broken>>

\* The session stops, maybe in the middle of an answer.
Break ==
    /\ broken' = TRUE
    /\ \/ UNCHANGED owed
       \/ ~broken /\ owed # <<>> /\ owed' = Tail(owed)
    /\ UNCHANGED <<received, final>>

Next == Receive \/ Answer \/ Break

Spec == Init /\ [][Next]_pipelineVars
=============================================================================
