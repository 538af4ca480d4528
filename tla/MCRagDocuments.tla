---------------------------- MODULE MCRagDocuments ---------------------------
(* Two requests at a time, on a document of up to two chunks. *)
EXTENDS RagDocuments, TLC

CONSTANTS d1, w1, w2

MCDoc      == {d1}
MCThread   == {w1, w2}
MCSymmetry == Permutations(MCThread)
=============================================================================
