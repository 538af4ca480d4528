--------------------------- MODULE MCSessionMemory ---------------------------
(***************************************************************************)
(* One session: two questions at a time with windows of two exchanges, and *)
(* its titles under two request threads.  The memory and the titles share  *)
(* no variable, so one of them moves in a behaviour and the other stays    *)
(* where it began.                                                         *)
(***************************************************************************)
EXTENDS SessionMemory, Sessions, TLC

CONSTANTS w1, w2, h1

MCThread   == {w1, w2}
MCTitler   == {h1}
MCSymmetry == Permutations(MCThread)

VARIABLE
  moving  \* which of the two moves

MCInit == moving \in {"memory", "titles"} /\ Init /\ SessionsInit

MCNext ==
  /\ UNCHANGED moving
  /\ \/ moving = "memory" /\ Next /\ UNCHANGED sessionVars
     \/ moving = "titles" /\ SessionsNext /\ UNCHANGED vars
=============================================================================
