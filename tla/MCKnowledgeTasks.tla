-------------------------- MODULE MCKnowledgeTasks --------------------------
(***************************************************************************)
(* Finite instances of KnowledgeTasks for TLC.                             *)
(***************************************************************************)
EXTENDS KnowledgeTasks

CONSTANTS h1, h2

MCHttp    == {h1, h2}
MCOneHttp == {h1}

\* Bound: a behaviour has a retry or an uncaught exception, not both.
RetryOrFault == retries = 0 \/ faults = 0
=============================================================================
