----------------------------- MODULE MCScripts -----------------------------
(* Sessions with clients that send their messages in a given order.  Each  *)
(* may stop after any of them, leave, take no answers, or stay silent      *)
(* until a time-out.                                                       *)
EXTENDS Session

VARIABLE script

\* Each keeps some goroutine in a send that nobody will receive (Stranded), or
\* ends the session while a stream of each kind is at work.
Scripts ==
    {<<"read", "close", "close">>, <<"read", "quit">>, <<"quit", "bad", "read">>,
     <<"write", "data", "data">>, <<"write", "end">>, <<"write", "close", "quit">>,
     <<"copy", "close">>, <<"copy", "gone">>, <<"gone", "gone">>}

ScriptOps    == UNION {{s[i] : i \in DOMAIN s} : s \in Scripts}
ScriptFaults == {"hangup", "net", "timeout"}

ReadsScript ==
    /\ nread < Len(script)
    /\ \E in \in Inputs : in.op = script[nread + 1] /\ ReaderReads(in)

ScriptInit == Init /\ script \in Scripts

ScriptNext ==
    /\ Running
    /\ \/ Handle \/ ReaderSteps \/ ReaderFails \/ ReadsScript
       \/ Worker \/ Writer \/ \E o \in Objs : Stream(o)
    /\ UNCHANGED script

ScriptSpec == ScriptInit /\ [][ScriptNext]_<<vars, script>> /\ Fairness
=============================================================================
