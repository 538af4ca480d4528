---------------------------- MODULE PolicyReview ----------------------------
(***************************************************************************)
(* What the policy crawler promises a reviewer: a crawled document waits   *)
(* for review once, is published or rejected once, and a published one     *)
(* names the library item it became.  PolicyCrawler implements this when   *)
(* documents are reviewed by hand and by one reviewer at a time.           *)
(***************************************************************************)
CONSTANT Candidates   \* documents the official sites have

Decision == {"published", "rejected"}
Verdict  == {"none", "pending_review"} \cup Decision

VARIABLES
  verdict,   \* policy_crawl_candidates.status, "none" if there is no row
  linked     \* whether the row names a knowledge item

reviewVars == <<verdict, linked>>

ReviewInit ==
  /\ verdict = [c \in Candidates |-> "none"]
  /\ linked = [c \in Candidates |-> FALSE]

Propose(c) ==
  /\ verdict[c] = "none"
  /\ verdict' = [verdict EXCEPT ![c] = "pending_review"]
  /\ UNCHANGED linked

Decide(c, d) ==
  /\ verdict[c] = "pending_review"
  /\ verdict' = [verdict EXCEPT ![c] = d]
  /\ linked' = [linked EXCEPT ![c] = (d = "published")]

ReviewNext ==
  \E c \in Candidates : Propose(c) \/ \E d \in Decision : Decide(c, d)

ReviewSpec == ReviewInit /\ [][ReviewNext]_reviewVars
=============================================================================
