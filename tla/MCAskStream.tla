----------------------------- MODULE MCAskStream -----------------------------
(***************************************************************************)
(* Finite instances of AskStream for TLC, and claims of the documents.     *)
(***************************************************************************)
EXTENDS AskStream

CONSTANT p1

MCOnePoster == {p1}

-----------------------------------------------------------------------------
\* docs/architecture/CHAT_STREAMING_FLOW.md:26: if it fails, the controlled error
\* text and the error status are written back: every stream that was opened ends.
EveryStreamEnds ==
  \A e \in Exchange : (wpc[e] = "resolve") ~> isDone[e]
=============================================================================
