------------------------------- MODULE MCPipe -------------------------------
(* The instance of Pipe that TLC checks. *)
EXTENDS Pipe

\* Each interface meets each fault; "few" keeps the crowded ones small.
SixScenarios ==
  {{"chunk", "readchunk", "cancel", "droprecv"},
   {"async", "asyncread", "reset"},
   {"chunk", "readchunk", "dropsend"},
   {"async", "asyncread", "lost", "droprecv", "few"},
   {"chunk", "readchunk", "close", "droprecv", "few"},
   {"async", "asyncread", "reset", "dropsend", "droprecv", "few"}}

=============================================================================
