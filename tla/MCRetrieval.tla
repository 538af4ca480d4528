------------------------------ MODULE MCRetrieval ------------------------------
(* Two threads, two uploads and a policy item; asks of every kind with the      *)
(* choices that make the selections and the caches of different asks meet.      *)
EXTENDS Retrieval, TLC

CONSTANTS t1, t2, u1, u2, p1

MCThreads == {t1, t2}
MCUploads == {u1, u2}
MCPolicies == {p1}
MCChanging == {u1, p1}

Suits(a, b, p) == (u1 :> a) @@ (u2 :> b) @@ (p1 :> p)
Broad == [sparse |-> Suits(1, 2, 1), dense |-> Suits(2, 1, 2)]
Narrow == [sparse |-> Suits(1, 2, 0), dense |-> Suits(1, 2, 1)]
Request(tool, scope, picked, files, q) ==
  [tool |-> tool, scope |-> scope, picked |-> picked, files |-> files, q |-> q]
MCAsks ==
  {Request("ask", "mixed", MCUploads, {u1}, Narrow),
   Request("bm25_vector_hybrid", "private_sample", MCUploads, {}, Broad)}

(* For the run about selections that share a corpus.                            *)
SelectedAsks ==
  {Request("ask", "mixed", {}, {u1}, Broad), Request("ask", "mixed", {u2}, {}, Broad),
   Request("ask", "mixed", {}, {}, Broad)}

Symmetry == Permutations(MCThreads)
================================================================================
