---------------------------- MODULE OfficeSystem ---------------------------
(***************************************************************************)
(* The office as a whole: the isolates of the API worker, the PDL server,  *)
(* the dead-letter store and the desks of the agents.                      *)
(***************************************************************************)
EXTENDS PdlServer, DeadLetterStore, ContextAssembly

SystemInit == ServerInit /\ LettersInit /\ ContextInit

SystemNext ==
  \/ Next /\ UNCHANGED <<serverVars, letterVars, deskVars>>
  \/ ServerNext /\ UNCHANGED <<letterVars, deskVars>>
  \/ LettersNext /\ UNCHANGED <<serverVars, deskVars>>
  \/ ContextNext /\ UNCHANGED <<serverVars, letterVars>>

SystemSpec == SystemInit /\ [][SystemNext]_<<vars, serverVars, letterVars, deskVars>> /\ Fairness

\* Neither of the two servers leaves a silent gap in the stream of a client: not the API worker, whose isolates
\* poll one table, and not the PDL server, which replays its own buffer.
StreamsAreComplete == NoSilentGap /\ StreamIsExact
=============================================================================
