--------------------------- MODULE SessionClaims ---------------------------
(***************************************************************************)
(* What the protocol's documents and the repository's tests expect of a    *)
(* session and the code does not do.  Each is checked by a run that finds  *)
(* a counterexample.                                                       *)
(***************************************************************************)
EXTENDS Session

\* The answer that announces a stream's id comes before the stream's first
\* frame: the tests' STREAM R client raises "unexpected frame id" otherwise.
\* The code starts the stream's goroutine before the worker sends the answer.
IdPrecedesFrames == wpc = "write" /\ wval \in Frames => wval.obj \in announced

\* QUIT "Terminates the connection": once QUIT was answered the connection
\* is closed eventually, whatever else the client sent before or after it.
\* session.Handle waits for the reader, which may be sending to a worker that
\* is gone, and for streams, which may be sending to a writer that is gone.
QuitEndsConnection ==
    (quitAt # None /\ replied = quitAt) ~> (handle \in {"closed", "panic"})
=============================================================================
