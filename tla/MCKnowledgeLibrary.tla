------------------------- MODULE MCKnowledgeLibrary -------------------------
(***************************************************************************)
(* Finite instances of KnowledgeLibrary for TLC, and the claims of the     *)
(* documents that the code does not keep.                                  *)
(***************************************************************************)
EXTENDS KnowledgeLibrary

CONSTANTS h1

MCOneHttp == {h1}

\* Bounds: a behaviour has one retry, crash or uncaught exception, and is not
\* followed beyond a mishap of its only item after which the invariants say
\* nothing of it any more.
OneUpset     == retries + crashes + faults <= 1
BeforeMishap == \A i \in Item : mishap[i] \cap {"overlap", "overwrite"} = {}
MCBounds     == OneUpset /\ BeforeMishap

-----------------------------------------------------------------------------
\* docs/architecture/PRIVATE_KNOWLEDGE_TASK_FLOW.md:50: the task carries its item
\* on to parsed / ingested / indexed; it is not left half-way when the work is done.
NotLeftRunning ==
  \A i \in Item :
    row[i].stage = "running" => Scheduled(i) \/ \E w \in Worker : Processing(w, i)

\* docs/architecture/PRIVATE_KNOWLEDGE_TASK_FLOW.md:56: an item whose fingerprint
\* changed is marked and goes into rebuild (stale write-backs set aside).
ChangedIsRebuilt ==
  \A i \in Item :
    row[i].stage \in {"pending", "stale"} /\ "overwrite" \notin mishap[i] => Scheduled(i)
=============================================================================
