--------------------------- MODULE MCAsyncExecution ---------------------------
(* AsyncExecution on one execution.  The .cfg files choose the processes: r is  *)
(* a request, w a worker, p the poison queue handler, k a cancel request and c  *)
(* the cleanup.                                                                *)
EXTENDS AsyncExecution, TLC
=============================================================================
