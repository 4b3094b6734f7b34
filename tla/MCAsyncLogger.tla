---------------------------- MODULE MCAsyncLogger ----------------------------
(* AsyncLogger on small instances.                                          *)
EXTENDS AsyncLogger

\* "notify worker thread to exit" (LoggerAsyncBase.h): the destructor's
\* notification makes the worker thread exit.
NotifiedWorkerExits == life = "stop" ~> wpc = "exited"
=============================================================================
