----------------------------- MODULE MCSession -----------------------------
(* The clients and environments of the runs of Session.                    *)
EXTENDS SessionClaims

\* reads and copies, their ends and reuse of ids, malformed input and QUIT
ReadOps    == {"bad", "read", "copy", "close", "quit"}
ReadFaults == {"hangup", "open", "io"}

\* uploads, CLOSE and the end of the session, faults of disk and connection
WriteOps    == {"write", "data", "end", "close"}
WriteFaults == {"hangup", "net", "io", "timeout"}

\* a client that gets all its answers
AnswerOps == {"bad", "read", "close", "quit"}
NoFaults  == {}

\* the smallest clients that meet the claims' counterexamples
OneRead    == {"read"}
ReadQuit   == {"read", "quit", "ping"}
LeaveFaults == {"hangup"}
=============================================================================
