--------------------------- MODULE MCPolicyCrawler --------------------------
(* The first source has two versions of one page. *)
EXTENDS PolicyCrawler, TLC

CONSTANTS c1, c2, a1, k1

MCCandidates == {c1, c2}
MCSourceOf == [c \in MCCandidates |-> 1]
MCUrlOf == [c \in MCCandidates |-> "url"]
MCVersions == Permutations(MCCandidates)
MCOneAdmin == {a1}
MCOneWorker == {k1}
=============================================================================
