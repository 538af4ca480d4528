----------------------------- MODULE MCAskClient -----------------------------
(***************************************************************************)
(* Finite instances of AskClient for TLC, and claims of the documents.     *)
(***************************************************************************)
EXTENDS AskClient

CONSTANTS p1, p2

MCPoster    == {p1, p2}
MCOnePoster == {p1}

-----------------------------------------------------------------------------
\* docs/PLAN/V1.1.13.md:8: a stream cut in the middle is resumed: an answer the
\* client calls done is the whole answer the history has.
DoneIsWhole ==
  cpc = "done" /\ status[cex] = "done" => answer = content[cex]

\* docs/PLAN/V1.1.13.md:159-160: the second to fifth tries go on with the message
\* and do not generate it again; no second assistant message is added.
OneMessagePerGroup ==
  \A d, e \in Exchange : status[d] = "pending" /\ status[e] = "pending" => d = e
=============================================================================
