------------------------- MODULE PolicyCrawlerProofs -------------------------
(***************************************************************************)
(* What holds of the policy crawler for any number of sources, documents,  *)
(* administrators, runs by hand and faults: the order of a tick, what a    *)
(* crash leaves due, the library behind the review, and the review itself. *)
(***************************************************************************)
EXTENDS PolicyCrawler, FiniteSetTheorems, TLAPS

USE PolicyCrawlerAssumption, NoneAssumption

-----------------------------------------------------------------------------
(* Types *)

\* A step of a crawl keeps the types if what it writes has them ...
LEMMA TypedCrawl ==
  ASSUME TypeOK, UNCHANGED <<pubVars, libVars>>, UNCHANGED faults,
         job' \in [Thread -> Job], lock' \in Thread \cup {None},
         source' \in [Source -> Row],
         sleep' \in 0..Interval, manual' \in 0..MaxManual
  PROVE  TypeOK'
  BY DEF TypeOK, pubVars, libVars

\* ... and so does a step of a review that writes no more than the candidate.
LEMMA TypedReview ==
  ASSUME TypeOK, UNCHANGED crawlVars,
         pub' \in [Thread -> Pub], cand' \in [Candidates -> Candidate],
         contested' \in SUBSET Candidates, UNCHANGED <<libVars, faults>>
  PROVE  TypeOK'
  BY DEF TypeOK, crawlVars, libVars

\* A step of a worker writes the library.
LEMMA TypedTask ==
  ASSUME TypeOK, UNCHANGED <<crawlVars, pubVars, staged>>,
         work' \in [Workers -> Work], item' \in [Url -> Item],
         indexed' \in [Url -> Candidates \cup {None}],
         queued' \in [Url -> Nat], lost' \in [Url -> Nat],
         hurt' \in SUBSET Url, faults' \in 0..MaxFaults
  PROVE  TypeOK'
  BY DEF TypeOK, crawlVars, pubVars

\* The places that steps name are places.
LEMMA Places ==
  /\ {"idle", "next", "mark", "crawl", "documents", "publish", "settle"} \subseteq JobAt
  /\ {"idle", "read", "stage", "upsert", "enqueue", "review", "note", "reject",
      "give_up"} \subseteq PubAt
  /\ {"idle", "mark", "parse", "replace", "index", "finish", "fail", "failed"} \subseteq WorkAt
  BY DEF JobAt, PubAt, WorkAt

\* Every way a step updates a job makes a job.
LEMMA JobTyped ==
  /\ NoJob \in Job
  /\ \A j \in Job, a \in JobAt :
       /\ j.due \in SUBSET Source /\ j.todo \in SUBSET Candidates
       /\ j.src \in Source \cup {NoSource} /\ j.at \in JobAt /\ j.ok \in BOOLEAN
       /\ [j EXCEPT !.at = a] \in Job
       /\ \A b \in BOOLEAN : [j EXCEPT !.ok = b] \in Job /\ [j EXCEPT !.at = a, !.ok = b] \in Job
       /\ \A D \in SUBSET Source : [j EXCEPT !.at = a, !.due = D] \in Job
       /\ \A s \in Source : [j EXCEPT !.at = a, !.src = s] \in Job
       /\ \A s \in Source, D \in SUBSET Source :
             [j EXCEPT !.at = a, !.src = s, !.due = D] \in Job
       /\ \A D \in SUBSET Candidates : [j EXCEPT !.todo = D, !.at = a] \in Job
       /\ \A D \in SUBSET Candidates, b \in BOOLEAN :
             [j EXCEPT !.at = a, !.todo = D, !.ok = b] \in Job
<1>1. NoJob \in Job
  BY DEF NoJob, Job, JobAt
<1>2. ASSUME NEW j \in Job, NEW a \in JobAt
      PROVE  /\ j.due \in SUBSET Source /\ j.todo \in SUBSET Candidates
             /\ j.src \in Source \cup {NoSource} /\ j.at \in JobAt /\ j.ok \in BOOLEAN
  BY DEF Job
<1>3. ASSUME NEW j \in Job, NEW a \in JobAt PROVE [j EXCEPT !.at = a] \in Job
  BY DEF Job
<1>4. ASSUME NEW j \in Job, NEW a \in JobAt, NEW b \in BOOLEAN
      PROVE  [j EXCEPT !.ok = b] \in Job /\ [j EXCEPT !.at = a, !.ok = b] \in Job
  BY DEF Job
<1>5. ASSUME NEW j \in Job, NEW a \in JobAt, NEW D \in SUBSET Source
      PROVE  [j EXCEPT !.at = a, !.due = D] \in Job
  BY DEF Job
<1>6. ASSUME NEW j \in Job, NEW a \in JobAt, NEW s \in Source, NEW D \in SUBSET Source
      PROVE  /\ [j EXCEPT !.at = a, !.src = s] \in Job
             /\ [j EXCEPT !.at = a, !.src = s, !.due = D] \in Job
  BY DEF Job
<1>7. ASSUME NEW j \in Job, NEW a \in JobAt, NEW b \in BOOLEAN, NEW D \in SUBSET Candidates
      PROVE  /\ [j EXCEPT !.todo = D, !.at = a] \in Job
             /\ [j EXCEPT !.at = a, !.todo = D, !.ok = b] \in Job
  BY DEF Job
<1> QED
  BY ONLY <1>1, <1>2, <1>3, <1>4, <1>5, <1>6, <1>7

\* Every way a step updates a publication makes a publication.
LEMMA PubTyped ==
  /\ NoPub \in Pub
  /\ \A p \in Pub, a \in PubAt :
       /\ p.linked \in BOOLEAN /\ p.cand \in Candidates \cup {None} /\ p.at \in PubAt
       /\ [p EXCEPT !.at = a] \in Pub
       /\ \A c \in Candidates : [p EXCEPT !.at = a, !.cand = c] \in Pub
  /\ \A a \in PubAt, c \in Candidates, l \in BOOLEAN :
       [at |-> a, cand |-> c, linked |-> l] \in Pub
<1>1. NoPub \in Pub
  BY DEF NoPub, Pub, PubAt
<1>2. ASSUME NEW p \in Pub, NEW a \in PubAt
      PROVE  /\ p.linked \in BOOLEAN /\ p.cand \in Candidates \cup {None} /\ p.at \in PubAt
             /\ [p EXCEPT !.at = a] \in Pub
  BY DEF Pub
<1>3. ASSUME NEW p \in Pub, NEW a \in PubAt, NEW c \in Candidates
      PROVE  [p EXCEPT !.at = a, !.cand = c] \in Pub
  BY DEF Pub
<1>4. ASSUME NEW a \in PubAt, NEW c \in Candidates, NEW l \in BOOLEAN
      PROVE  [at |-> a, cand |-> c, linked |-> l] \in Pub
  BY DEF Pub
<1> QED
  BY ONLY <1>1, <1>2, <1>3, <1>4

\* Every way a step updates a source makes a source.
LEMMA RowTyped ==
  /\ {"running", "succeeded", "failed"} \subseteq RunStatus
  /\ Interval \in 0..Interval /\ 0 \in 0..Interval /\ 0..Backoff \subseteq 0..Interval
  /\ \A r \in Row : r.wait \in 0..Interval
  /\ \A st \in RunStatus, d \in 0..Interval : [status |-> st, wait |-> d] \in Row
  /\ \A r \in Row, d \in 0..Interval : [r EXCEPT !.wait = d] \in Row
<1>1. {"running", "succeeded", "failed"} \subseteq RunStatus
  BY DEF RunStatus
<1>2. Interval \in 0..Interval /\ 0 \in 0..Interval /\ 0..Backoff \subseteq 0..Interval
  OBVIOUS
<1>3. ASSUME NEW r \in Row PROVE r.wait \in 0..Interval
  BY DEF Row
<1>4. ASSUME NEW st \in RunStatus, NEW d \in 0..Interval
      PROVE  [status |-> st, wait |-> d] \in Row
  BY DEF Row
<1>5. ASSUME NEW r \in Row, NEW d \in 0..Interval PROVE [r EXCEPT !.wait = d] \in Row
  BY DEF Row
<1> QED
  BY ONLY <1>1, <1>2, <1>3, <1>4, <1>5

\* A thread that steps on has a job ...
LEMMA StepTyped ==
  ASSUME job \in [Thread -> Job], NEW w \in Thread, NEW to \in JobAt, Step(w, to)
  PROVE  job' \in [Thread -> Job]
  BY JobTyped DEF Step

\* ... or a publication.
LEMMA PubStepTyped ==
  ASSUME pub \in [Thread -> Pub], NEW w \in Thread, NEW to \in PubAt, PubStep(w, to)
  PROVE  pub' \in [Thread -> Pub]
  BY PubTyped DEF PubStep

\* update_candidate_review writes a candidate.
LEMMA ReviewTyped ==
  ASSUME cand \in [Candidates -> Candidate],
         NEW c, NEW s \in Status, NEW l \in BOOLEAN, Review(c, s, l)
  PROVE  cand' \in [Candidates -> Candidate]
  BY DEF Review, Candidate

\* A worker that goes on has a task; its place in the library is typed.
LEMMA GoTyped ==
  ASSUME TypeOK, NEW k \in Workers
  PROVE  /\ work[k] \in Work /\ NoWork \in Work
         /\ \A to \in WorkAt : Go(k, to) => work' \in [Workers -> Work]
         /\ work' = [work EXCEPT ![k] = NoWork] => work' \in [Workers -> Work]
         /\ \A u \in Url, st \in {"waiting", "indexed", "failed"} :
              Stage(u, st) => item' \in [Url -> Item]
<1>0. work \in [Workers -> Work] /\ work[k] \in Work /\ item \in [Url -> Item]
  BY DEF TypeOK
<1>1. NoWork \in Work
  BY DEF NoWork, Work, WorkAt
<1>2. ASSUME NEW to \in WorkAt, Go(k, to) PROVE work' \in [Workers -> Work]
  <2>1. [work[k] EXCEPT !.at = to] \in Work
    BY <1>0 DEF Work
  <2> QED
    BY <1>0, <1>2, <2>1 DEF Go
<1>3. ASSUME NEW u \in Url, NEW st \in {"waiting", "indexed", "failed"}, Stage(u, st)
      PROVE  item' \in [Url -> Item]
  <2>1. [item[u] EXCEPT !.stage = st] \in Item
    BY <1>0 DEF Item
  <2> QED
    BY <1>0, <1>3, <2>1 DEF Stage
<1> QED
  BY <1>0, <1>1, <1>2, <1>3

\* A worker writes nothing of a crawl, of a review or of the files.
LEMMA TaskFrame ==
  ASSUME NEW k \in Workers, Task(k) \/ TaskFault(k)
  PROVE  UNCHANGED <<crawlVars, pubVars, staged>>
<1>1. ASSUME NEW u \in Url, TaskBegin(k, u) PROVE UNCHANGED <<crawlVars, pubVars, staged>>
  BY <1>1 DEF TaskBegin
<1> QED
  BY ONLY <1>1, Task(k) \/ TaskFault(k) DEF Task, TaskFault, TaskMark, TaskParse, TaskReplace,
     TaskIndex, TaskFails, TaskFail, TaskFinish

\* All the others but a crash leave the tasks that run to their workers.
LEMMA OthersFrame ==
  ASSUME [Next]_vars, \A k \in Workers : ~Task(k) /\ ~TaskFault(k), ~Crash
  PROVE  UNCHANGED <<indexed, lost, work>>
<1>1. ASSUME NEW w \in Thread, Run(w) \/ Publication(w) \/ CrawlFault(w) \/ PubFault(w)
      PROVE  UNCHANGED <<indexed, lost, work>>
  BY <1>1 DEF Run, MarkRunning, Crawl, DocumentsDone, TakeDocument, Published, SettleSource,
     Publication, PubRead, PubStage, PubUpsert, PubEnqueue, PubReview, PubNote, RejectWrite, GiveUp,
     CrawlFault, PubFault, libVars
<1>2. CASE Pass \/ Loop
  BY <1>2 DEF Pass, Loop, Tick, NextDue, libVars
<1>3. ASSUME NEW w \in Admins, NEW s \in Source, RunNow(w, s)
      PROVE  UNCHANGED <<indexed, lost, work>>
  BY <1>3 DEF RunNow, libVars
<1>4. ASSUME NEW w \in Admins, NEW c \in Candidates, AdminPublish(w, c) \/ AdminReject(w, c)
      PROVE  UNCHANGED <<indexed, lost, work>>
  BY <1>4 DEF AdminPublish, AdminReject, libVars
<1> QED
  BY <1>1, <1>2, <1>3, <1>4 DEF Next, vars, libVars

\* A worker that processes a task has a URL.
AtWork == \A k \in Workers : work[k].at # "idle" => work[k].url \in Url

\* It keeps the URL it began with.
LEMMA AtWorkStep ==
  ASSUME TypeOK, AtWork, [Next]_vars
  PROVE  AtWork'
<1>0. work \in [Workers -> Work]
  BY DEF TypeOK
<1>1. CASE UNCHANGED work
  BY <1>1 DEF AtWork
<1>2. CASE Crash
  BY <1>2 DEF Crash, AtWork, NoWork
<1>3. ASSUME NEW k \in Workers, Task(k) \/ TaskFault(k) PROVE AtWork'
  <2>1. ASSUME NEW u \in Url, TaskBegin(k, u) PROVE AtWork'
    BY <1>0, <2>1 DEF TaskBegin, AtWork
  <2>2. ASSUME NEW to, Go(k, to), work[k].at # "idle" PROVE AtWork'
    BY <1>0, <2>2 DEF Go, AtWork, Work
  <2>3. CASE work' = [work EXCEPT ![k] = NoWork]
    BY <1>0, <2>3 DEF AtWork, NoWork
  <2>4. CASE TaskParse(k)
    BY <1>0, <2>4 DEF TaskParse, AtWork, Work
  <2>5. CASE TaskMark(k) \/ TaskReplace(k) \/ TaskIndex(k) \/ TaskFails(k) \/ TaskFail(k)
    BY ONLY <2>2, <2>5 DEF TaskMark, TaskReplace, TaskIndex, TaskFails, TaskFail
  <2>6. CASE TaskFinish(k) \/ TaskFault(k)
    BY ONLY <2>3, <2>6 DEF TaskFinish, TaskFault
  <2> QED
    BY ONLY <1>3, <2>1, <2>4, <2>5, <2>6 DEF Task
<1> QED
  BY <1>1, <1>2, <1>3, OthersFrame

\* Whoever publishes or rejects knows what.
Busy == \A w \in Thread : pub[w].at # "idle" => pub[w].cand \in Candidates

\* Every publication and rejection begins with a candidate.
LEMMA BusyStep ==
  ASSUME TypeOK, Busy, [Next]_vars
  PROVE  Busy'
<1>0. pub \in [Thread -> Pub] /\ Admins \subseteq Thread
  BY DEF TypeOK, Thread
<1>1. CASE UNCHANGED pub
  BY <1>1 DEF Busy
<1>2. ASSUME NEW w \in Thread, pub' = [pub EXCEPT ![w] = NoPub] PROVE Busy'
  BY <1>0, <1>2 DEF Busy, NoPub
<1>3. ASSUME NEW w \in Thread, NEW a, pub[w].at # "idle", pub' = [pub EXCEPT ![w].at = a]
      PROVE  Busy'
  BY <1>0, <1>3 DEF Busy, Pub
<1>4. ASSUME NEW w \in Thread, NEW p, p.cand \in Candidates, pub' = [pub EXCEPT ![w] = p]
      PROVE  Busy'
  BY <1>0, <1>4 DEF Busy
<1>5. CASE pub' = [w \in Thread |-> NoPub]
  BY <1>5 DEF Busy, NoPub
<1>6. ASSUME NEW w \in Thread, Publication(w) PROVE Busy'
  <2>1. CASE PubRead(w) \/ PubNote(w) \/ RejectWrite(w) \/ GiveUp(w)
    BY ONLY <2>1, <1>2, <1>3 DEF PubRead, PubNote, RejectWrite, GiveUp, PubStep, GivingUp
  <2>2. CASE PubStage(w) \/ PubUpsert(w) \/ PubEnqueue(w) \/ PubReview(w)
    BY ONLY <2>2, <1>3 DEF PubStage, PubUpsert, PubEnqueue, PubReview, PubStep
  <2> QED
    BY ONLY <1>6, <2>1, <2>2 DEF Publication
<1>7. ASSUME NEW w \in Thread, PubFault(w) PROVE Busy'
  BY ONLY <1>7, <1>2, <1>3 DEF PubFault, GivingUp
<1>8. ASSUME NEW w \in Thread, Run(w) PROVE Busy'
  <2>1. ASSUME NEW c \in Candidates, TakeDocument(w, c) PROVE Busy'
    <3>1. [at |-> "read", cand |-> c, linked |-> Proposed(c).linked].cand \in Candidates
      OBVIOUS
    <3> QED
      BY ONLY <2>1, <1>1, <1>4, <3>1 DEF TakeDocument
  <2> QED
    BY ONLY <1>8, <1>1, <2>1 DEF Run, MarkRunning, Crawl, DocumentsDone, Published,
            SettleSource, pubVars
<1>9. ASSUME NEW w \in Admins, NEW c \in Candidates, AdminPublish(w, c) \/ AdminReject(w, c)
      PROVE  Busy'
  <2>1. \A a : [NoPub EXCEPT !.at = a, !.cand = c].cand \in Candidates
    BY DEF NoPub
  <2> QED
    BY ONLY <1>0, <1>9, <1>4, <2>1 DEF AdminPublish, AdminReject, Become
<1> QED
  BY ONLY <1>1, <1>5, <1>6, <1>7, <1>8, <1>9, TaskFrame, [Next]_vars
     DEF Next, Pass, Loop, Tick, NextDue, CrawlFault, RunNow, Crash, pubVars, vars

\* Types are kept by every step.
LEMMA Typed == TypeOK /\ Busy /\ AtWork /\ [Next]_vars => TypeOK'
<1> SUFFICES ASSUME TypeOK, Busy, AtWork, [Next]_vars PROVE TypeOK'
  OBVIOUS
<1>0. /\ lock \in Thread \cup {None}
      /\ source \in [Source -> Row]
      /\ job \in [Thread -> Job] /\ pub \in [Thread -> Pub]
      /\ cand \in [Candidates -> Candidate]
      /\ sleep \in 0..Interval /\ manual \in 0..MaxManual /\ faults \in 0..MaxFaults
      /\ "loop" \in Thread /\ Admins \subseteq Thread
      /\ \A w \in Thread : job[w] \in Job /\ pub[w] \in Pub
  BY DEF TypeOK, Thread
<1>1. ASSUME Pass PROVE TypeOK'
  <2>1. source' \in [Source -> Row]
    <3>1. ASSUME NEW s \in Source
          PROVE  [source[s] EXCEPT !.wait = IF @ > 0 THEN @ - 1 ELSE 0] \in Row
      <4>1. (IF source[s].wait > 0 THEN source[s].wait - 1 ELSE 0) \in 0..Interval
        BY <1>0, RowTyped
      <4> QED
        BY <1>0, <4>1, RowTyped
    <3> QED
      BY <1>0, <1>1, <3>1 DEF Pass
  <2>2. sleep' \in 0..Interval
    BY <1>0, <1>1 DEF Pass
  <2> QED
    BY <1>0, <1>1, <2>1, <2>2, TypedCrawl DEF Pass
<1>2. ASSUME Tick PROVE TypeOK'
  <2>1. job' \in [Thread -> Job]
    <3>1. {s \in Source : source[s].wait = 0} \in SUBSET Source
      OBVIOUS
    <3>2. [NoJob EXCEPT !.at = "next", !.due = {s \in Source : source[s].wait = 0}] \in Job
      BY <3>1, JobTyped, Places
    <3> QED
      BY <1>0, <1>2, <3>2 DEF Tick
  <2> QED
    BY <1>0, <1>2, <2>1, TypedCrawl DEF Tick
<1>3. ASSUME NextDue PROVE TypeOK'
  <2>1. job' \in [Thread -> Job]
    <3>1. ASSUME NEW s \in job["loop"].due
          PROVE  [job["loop"] EXCEPT !.at = "mark", !.src = s, !.due = job["loop"].due \ {s}] \in Job
      BY <1>0, JobTyped, Places
    <3>2. CASE job' = [job EXCEPT !["loop"] = NoJob]
      BY <1>0, <3>2, JobTyped
    <3>3. ASSUME NEW s \in job["loop"].due,
                 job' = [job EXCEPT !["loop"] = [@ EXCEPT !.at = "mark", !.src = s,
                                                         !.due = job["loop"].due \ {s}]]
          PROVE  job' \in [Thread -> Job]
      BY <1>0, <3>1, <3>3
    <3> QED
      BY ONLY <1>3, <3>2, <3>3 DEF NextDue
  <2>2. UNCHANGED <<source, manual, pubVars, libVars, faults>>
    BY <1>3 DEF NextDue
  <2>3. lock' \in Thread \cup {None} /\ sleep' \in 0..Interval
    BY <1>0, <1>3, RowTyped DEF NextDue
  <2> QED
    BY <1>0, <2>1, <2>2, <2>3, TypedCrawl
<1>4. ASSUME NEW w \in Admins, NEW s \in Source, RunNow(w, s) PROVE TypeOK'
  <2>1. job' \in [Thread -> Job]
    <3>1. [NoJob EXCEPT !.at = "mark", !.src = s] \in Job
      BY JobTyped, Places
    <3> QED
      BY <1>0, <1>4, <3>1 DEF RunNow
  <2>2. manual' \in 0..MaxManual
    BY <1>0, <1>4 DEF RunNow
  <2> QED
    BY <1>0, <1>4, <2>1, <2>2, TypedCrawl DEF RunNow
<1>5. ASSUME NEW w \in Thread, MarkRunning(w) PROVE TypeOK'
  <2>1. job' \in [Thread -> Job]
    BY <1>0, <1>5, StepTyped, Places DEF MarkRunning
  <2>2. source' \in [Source -> Row]
    BY <1>0, <1>5, RowTyped DEF MarkRunning
  <2> QED
    BY <1>0, <1>5, <2>1, <2>2, TypedCrawl DEF MarkRunning
<1>6. ASSUME NEW w \in Thread, Crawl(w) PROVE TypeOK'
  <2>1. job' \in [Thread -> Job]
    <3>1. [job[w] EXCEPT !.at = "settle", !.ok = FALSE] \in Job
      BY <1>0, JobTyped, Places
    <3>2. ASSUME NEW D \in SUBSET Candidates, NEW ok \in BOOLEAN
          PROVE  [job[w] EXCEPT !.at = "documents", !.todo = D, !.ok = ok] \in Job
      BY <1>0, JobTyped, Places
    <3>3. CASE job' = [job EXCEPT ![w] = [@ EXCEPT !.at = "settle", !.ok = FALSE]]
      BY <1>0, <3>1, <3>3
    <3>4. ASSUME NEW D \in SUBSET Candidates, NEW ok \in BOOLEAN,
                 job' = [job EXCEPT ![w] = [@ EXCEPT !.at = "documents", !.todo = D, !.ok = ok]]
          PROVE  job' \in [Thread -> Job]
      BY <1>0, <3>2, <3>4
    <3> QED
      BY ONLY <1>6, <3>3, <3>4 DEF Crawl
  <2> QED
    BY <1>0, <1>6, <2>1, TypedCrawl DEF Crawl
<1>7. ASSUME NEW w \in Thread, NEW c \in Candidates, TakeDocument(w, c) PROVE TypeOK'
  <2>1. job' \in [Thread -> Job]
    <3> DEFINE a == IF AutoPublish THEN "publish" ELSE "documents"
    <3>1. job[w].todo \ {c} \in SUBSET Candidates /\ a \in JobAt
      BY <1>0, JobTyped, Places
    <3>2. job' = [job EXCEPT ![w] = [@ EXCEPT !.todo = job[w].todo \ {c}, !.at = a]]
      BY <1>7 DEF TakeDocument
    <3> HIDE DEF a
    <3>3. [job[w] EXCEPT !.todo = job[w].todo \ {c}, !.at = a] \in Job
      BY <1>0, <3>1, JobTyped
    <3> QED
      BY ONLY <1>0, <3>2, <3>3
  <2>2. Proposed(c) \in Candidate
    BY <1>0 DEF Proposed, Status, Candidate
  <2>3. cand' \in [Candidates -> Candidate]
    BY <1>0, <1>7, <2>2 DEF TakeDocument
  <2>4. pub' \in [Thread -> Pub]
    <3>1. Proposed(c).linked \in BOOLEAN
      BY <2>2 DEF Candidate
    <3>2. CASE AutoPublish
      <4>1. [at |-> "read", cand |-> c, linked |-> Proposed(c).linked] \in Pub
        BY <3>1, PubTyped, Places
      <4>2. pub' = [pub EXCEPT ![w] = [at |-> "read", cand |-> c, linked |-> Proposed(c).linked]]
        BY <1>7, <3>2 DEF TakeDocument
      <4> QED
        BY <1>0, <4>1, <4>2
    <3>3. CASE ~AutoPublish
      BY <1>0, <1>7, <3>3 DEF TakeDocument
    <3> QED
      BY <3>2, <3>3
  <2>5. contested' \in SUBSET Candidates
    BY <1>7 DEF TakeDocument, Meets, TypeOK
  <2> QED
    BY <1>7, <2>1, <2>3, <2>4, <2>5 DEF TypeOK, TakeDocument, libVars
<1>8. ASSUME NEW w \in Thread, Published(w) PROVE TypeOK'
  <2>1. job' \in [Thread -> Job]
    BY <1>0, <1>8, StepTyped, Places DEF Published
  <2> QED
    BY <1>0, <1>8, <2>1, TypedCrawl DEF Published
<1>9. ASSUME NEW w \in Thread, DocumentsDone(w) PROVE TypeOK'
  <2>1. job' \in [Thread -> Job]
    BY <1>0, <1>9, StepTyped, Places DEF DocumentsDone
  <2> QED
    BY <1>0, <1>9, <2>1, TypedCrawl DEF DocumentsDone
<1>10. ASSUME NEW w \in Thread, SettleSource(w) PROVE TypeOK'
  <2>1. job' \in [Thread -> Job] /\ lock' \in Thread \cup {None}
    <3>1. ASSUME NEW D \in SUBSET Source PROVE [NoJob EXCEPT !.at = "next", !.due = D] \in Job
      BY JobTyped, Places
    <3>2. job[w].due \in SUBSET Source
      BY <1>0, JobTyped, Places
    <3>3. CASE w = "loop"
      <4>1. /\ job' = [job EXCEPT ![w] = [NoJob EXCEPT !.at = "next", !.due = job[w].due]]
            /\ UNCHANGED lock
        BY <1>10, <3>3 DEF SettleSource, After
      <4> QED
        BY <1>0, <3>1, <3>2, <4>1
    <3>4. CASE w # "loop"
      <4>1. job' = [job EXCEPT ![w] = NoJob] /\ lock' = None
        BY <1>10, <3>4 DEF SettleSource, After
      <4> QED
        BY <1>0, <4>1, JobTyped
    <3> QED
      BY <3>3, <3>4
  <2>2. source' \in [Source -> Row]
    <3>1. ASSUME NEW d \in 0 .. IF job[w].ok THEN Interval ELSE Backoff
          PROVE  [status |-> IF job[w].ok THEN "succeeded" ELSE "failed", wait |-> d] \in Row
      BY RowTyped
    <3>2. PICK d \in 0 .. IF job[w].ok THEN Interval ELSE Backoff :
            source' = [source EXCEPT ![job[w].src] =
                         [status |-> IF job[w].ok THEN "succeeded" ELSE "failed", wait |-> d]]
      BY <1>10 DEF SettleSource
    <3> QED
      BY <1>0, <3>1, <3>2
  <2>3. UNCHANGED <<sleep, manual, pubVars, libVars, faults>>
    BY <1>10 DEF SettleSource
  <2> QED
    BY <1>0, <2>1, <2>2, <2>3, TypedCrawl
<1>11. ASSUME NEW w \in Thread, CrawlFault(w) PROVE TypeOK'
  <2>1. job' \in [Thread -> Job]
    BY <1>0, <1>11, JobTyped DEF CrawlFault
  <2>2. faults' \in 0..MaxFaults /\ sleep' \in 0..Interval
    BY <1>0, <1>11, RowTyped DEF CrawlFault
  <2> QED
    BY <1>0, <1>11, <2>1, <2>2 DEF CrawlFault, TypeOK, pubVars, libVars
<1>12. ASSUME NEW w \in Thread, PubRead(w) PROVE TypeOK'
  <2>1. pub' \in [Thread -> Pub]
    <3>1. CASE pub' = [pub EXCEPT ![w] = NoPub]
      BY <1>0, <3>1, PubTyped
    <3>2. ASSUME NEW a \in PubAt, pub' = [pub EXCEPT ![w].at = a] PROVE pub' \in [Thread -> Pub]
      BY <1>0, <3>2, PubTyped
    <3> QED
      BY ONLY <1>12, <3>1, <3>2, Places DEF PubRead, PubStep, GivingUp
  <2>2. job' \in [Thread -> Job]
    <3>1. CASE UNCHANGED job
      BY <1>0, <3>1
    <3>2. CASE job' = [job EXCEPT ![w].ok = FALSE]
      BY <1>0, <3>2, JobTyped, Places
    <3> QED
      BY ONLY <1>12, <3>1, <3>2 DEF PubRead, GivingUp
  <2> QED
    BY <1>12, <2>1, <2>2 DEF PubRead, TypeOK, libVars
<1>13. ASSUME NEW w \in Admins, NEW c \in Candidates, NEW at \in PubAt, Become(w, at, c)
       PROVE  pub' \in [Thread -> Pub]
  <2>1. [NoPub EXCEPT !.at = at, !.cand = c] \in Pub
    BY <1>13, PubTyped
  <2> QED
    BY <1>0, <1>13, <2>1 DEF Become
<1>14. ASSUME NEW w \in Admins, NEW c \in Candidates, AdminPublish(w, c) \/ AdminReject(w, c)
       PROVE  TypeOK'
  <2>1. contested' \in SUBSET Candidates
    BY <1>14 DEF AdminPublish, AdminReject, Meets, TypeOK
  <2> QED
    BY <1>0, <1>13, <1>14, <2>1, TypedReview, Places DEF AdminPublish, AdminReject
<1>15. ASSUME NEW w \in Thread, PubStage(w) PROVE TypeOK'
  <2>1. pub' \in [Thread -> Pub]
    BY <1>0, <1>15, PubStepTyped, Places DEF PubStage
  <2>2. staged' \in [Url -> Candidates \cup {None}] /\ hurt' \in SUBSET Url
    <3>1. pub[w].cand \in Candidates
      BY <1>0, <1>15 DEF PubStage, Busy
    <3> QED
      BY <1>15, <3>1 DEF PubStage, TypeOK, Url
  <2> QED
    BY <1>15, <2>1, <2>2 DEF PubStage, TypeOK, crawlVars
<1>16. ASSUME NEW w \in Thread, PubUpsert(w) PROVE TypeOK'
  <2>1. pub' \in [Thread -> Pub]
    BY <1>0, <1>16, PubStepTyped, Places DEF PubUpsert
  <2>2. item' \in [Url -> Item]
    BY <1>0, <1>16, PubTyped, Places DEF PubUpsert, TypeOK, Item
  <2> QED
    BY <1>16, <2>1, <2>2 DEF PubUpsert, TypeOK, crawlVars
<1>17. ASSUME NEW w \in Thread, PubEnqueue(w) PROVE TypeOK'
  <2>1. pub' \in [Thread -> Pub]
    BY <1>0, <1>17, PubStepTyped, Places DEF PubEnqueue
  <2>2. queued' \in [Url -> Nat]
    <3>1. queued \in [Url -> Nat]
      BY DEF TypeOK
    <3>2. UrlOf[pub[w].cand] \in Url
      BY <1>17 DEF PubEnqueue, Busy, Url
    <3> QED
      BY ONLY <1>17, <3>1, <3>2 DEF PubEnqueue
  <2> QED
    BY <1>17, <2>1, <2>2 DEF PubEnqueue, TypeOK, crawlVars
<1>18. ASSUME NEW w \in Thread, PubReview(w) PROVE TypeOK'
  BY <1>0, <1>18, PubStepTyped, ReviewTyped, TypedReview, Places
     DEF PubReview, Status, TypeOK
<1>19. ASSUME NEW w \in Thread, PubNote(w) PROVE TypeOK'
  BY <1>0, <1>19, PubTyped, ReviewTyped, TypedReview DEF PubNote, Status, TypeOK
<1>20. ASSUME NEW w \in Thread, RejectWrite(w) PROVE TypeOK'
  BY <1>0, <1>20, PubTyped, ReviewTyped, TypedReview DEF RejectWrite, Status, TypeOK
<1>21. ASSUME NEW w \in Thread, PubFault(w) PROVE TypeOK'
  <2>1. pub' \in [Thread -> Pub]
    <3>1. CASE pub' = [pub EXCEPT ![w] = NoPub]
      BY <1>0, <3>1, PubTyped
    <3>2. CASE pub' = [pub EXCEPT ![w].at = "give_up"]
      BY <1>0, <3>2, PubTyped, Places
    <3> QED
      BY ONLY <1>21, <3>1, <3>2 DEF PubFault, GivingUp
  <2>2. job' \in [Thread -> Job]
    <3>1. CASE UNCHANGED job
      BY <1>0, <3>1
    <3>2. CASE job' = [job EXCEPT ![w].ok = FALSE]
      BY <1>0, <3>2, JobTyped, Places
    <3> QED
      BY ONLY <1>21, <3>1, <3>2 DEF PubFault, GivingUp
  <2>3. hurt' \in SUBSET Url
    BY <1>0, <1>21 DEF PubFault, Busy, TypeOK, Url
  <2> QED
    BY <1>21, <2>1, <2>2, <2>3 DEF PubFault, TypeOK
<1>22. ASSUME NEW w \in Thread, GiveUp(w) PROVE TypeOK'
  <2>1. pub[w].linked \in BOOLEAN
    BY <1>0, PubTyped, Places
  <2> QED
    <3>1. pub' \in [Thread -> Pub]
      BY <1>0, <1>22, PubTyped DEF GiveUp
    <3>2. cand' \in [Candidates -> Candidate]
      BY <1>0, <1>22, <2>1, ReviewTyped DEF GiveUp, Status
    <3>3. contested' \in SUBSET Candidates /\ UNCHANGED <<crawlVars, libVars, faults>>
      BY <1>22 DEF GiveUp, TypeOK
    <3> QED
      BY <3>1, <3>2, <3>3, TypedReview
<1>23. ASSUME NEW k \in Workers, Task(k) \/ TaskFault(k) PROVE TypeOK'
  <2>0. /\ item \in [Url -> Item] /\ indexed \in [Url -> Candidates \cup {None}]
        /\ queued \in [Url -> Nat] /\ lost \in [Url -> Nat] /\ hurt \in SUBSET Url
        /\ staged \in [Url -> Candidates \cup {None}] /\ work \in [Workers -> Work]
        /\ work[k] \in Work
        /\ work[k].at # "idle" => work[k].url \in Url
    BY DEF TypeOK, AtWork
  <2>1. UNCHANGED <<crawlVars, pubVars, staged>>
    BY <1>23, TaskFrame
  <2>2. ASSUME NEW u \in Url, TaskBegin(k, u) PROVE TypeOK'
    <3>1. [at |-> "mark", url |-> u, doc |-> None] \in Work
      BY DEF Work, WorkAt
    <3>2. work' \in [Workers -> Work]
      BY <2>0, <2>2, <3>1 DEF TaskBegin
    <3>3. queued' \in [Url -> Nat] /\ lost' \in [Url -> Nat]
      BY <2>0, <2>2 DEF TaskBegin
    <3>4. hurt' \in SUBSET Url
      BY <2>0, <2>2 DEF TaskBegin
    <3> QED
      BY <1>0, <2>0, <2>1, <2>2, <3>2, <3>3, <3>4, TypedTask DEF TaskBegin
  <2>3. CASE TaskMark(k) \/ TaskIndex(k) \/ TaskFail(k)
    <3>1. PICK st \in {"waiting", "indexed", "failed"}, to \in WorkAt :
            Stage(work[k].url, st) /\ Go(k, to)
      BY <2>3, Places DEF TaskMark, TaskIndex, TaskFail
    <3>2. work' \in [Workers -> Work] /\ item' \in [Url -> Item]
      BY <2>0, <2>3, <3>1, GoTyped DEF TaskMark, TaskIndex, TaskFail
    <3>3. UNCHANGED <<indexed, queued, lost, hurt, faults>>
      BY <2>3 DEF TaskMark, TaskIndex, TaskFail
    <3> QED
      BY <1>0, <2>0, <2>1, <3>2, <3>3, TypedTask
  <2>4. CASE TaskParse(k)
    <3>1. [work[k] EXCEPT !.at = "replace", !.doc = staged[work[k].url]] \in Work
      BY <2>0, <2>4 DEF TaskParse, Work, WorkAt
    <3>2. work' \in [Workers -> Work]
      BY <2>0, <2>4, <3>1 DEF TaskParse
    <3> QED
      BY <1>0, <2>0, <2>1, <2>4, <3>2, TypedTask DEF TaskParse
  <2>5. CASE TaskReplace(k) \/ TaskFails(k)
    <3>1. work' \in [Workers -> Work]
      BY <2>5, GoTyped, Places DEF TaskReplace, TaskFails
    <3>2. indexed' \in [Url -> Candidates \cup {None}]
      BY <2>0, <2>5 DEF TaskReplace, TaskFails, Work
    <3> QED
      BY <1>0, <2>0, <2>1, <2>5, <3>1, <3>2, TypedTask DEF TaskReplace, TaskFails
  <2>6. CASE TaskFinish(k)
    BY <1>0, <2>0, <2>1, <2>6, GoTyped, TypedTask DEF TaskFinish
  <2>7. CASE TaskFault(k)
    <3>1. lost' \in [Url -> Nat]
      BY <2>0, <2>7 DEF TaskFault
    <3>2. faults' \in 0..MaxFaults
      BY <1>0, <2>7 DEF TaskFault
    <3> QED
      BY <1>0, <2>0, <2>1, <2>7, <3>1, <3>2, GoTyped, TypedTask DEF TaskFault
  <2> QED
    BY ONLY <1>23, <2>2, <2>3, <2>4, <2>5, <2>6, <2>7 DEF Task
<1>24. ASSUME Crash PROVE TypeOK'
  <2>1. job' \in [Thread -> Job] /\ pub' \in [Thread -> Pub]
    BY <1>24, JobTyped, PubTyped DEF Crash
  <2>3. faults' \in 0..MaxFaults /\ sleep' \in 0..Interval
    BY <1>0, <1>24, RowTyped DEF Crash
  <2>2. hurt' \in SUBSET Url
    BY <1>24 DEF Crash, TypeOK
  <2>4. queued' \in [Url -> Nat]
    <3>1. ASSUME NEW u \in Url PROVE Cardinality({k \in Workers : On(k, u)}) \in Nat
      BY FS_Subset, FS_CardinalityType
    <3>2. queued \in [Url -> Nat] /\ lost \in [Url -> Nat]
      BY DEF TypeOK
    <3>3. ASSUME NEW u \in Url
          PROVE  queued[u] + lost[u] + Cardinality({k \in Workers : On(k, u)}) \in Nat
      BY <3>1, <3>2
    <3> QED
      BY <1>24, <3>3 DEF Crash
  <2>5. work' \in [Workers -> Work] /\ lost' \in [Url -> Nat]
    BY <1>24 DEF Crash, NoWork, Work, WorkAt
  <2> QED
    BY <1>24, <2>1, <2>2, <2>3, <2>4, <2>5 DEF Crash, TypeOK
<1>25. ASSUME UNCHANGED vars PROVE TypeOK'
  BY <1>25 DEF vars, crawlVars, pubVars, libVars, TypeOK
<1> QED
  BY ONLY <1>1, <1>2, <1>3, <1>4, <1>5, <1>6, <1>7, <1>8, <1>9, <1>10, <1>11, <1>12,
     <1>14, <1>15, <1>16, <1>17, <1>18, <1>19, <1>20, <1>21, <1>22, <1>23, <1>24, <1>25,
     [Next]_vars DEF Next, Loop, Run, Publication

-----------------------------------------------------------------------------
(* The lock of the crawler *)

\* What is left of the tick's list is due.
StillDue == \A s \in job["loop"].due : source[s].wait = 0

\* Only the thread that holds the lock is in a crawl, and what is left of a tick
\* is due: nobody else writes sources, and a source leaves the list in its turn.
LockInv ==
  /\ \A w \in Thread : job[w].at # "idle" => lock = w
  /\ job["loop"].at = "idle" => job["loop"].due = {}
  /\ job["loop"].src \notin job["loop"].due
  /\ StillDue

\* What a crawl leaves of its thread while it goes on.
Goes(w) ==
  /\ job[w].at # "idle" /\ job'[w].at # "idle"
  /\ job'[w].due = job[w].due /\ job'[w].src = job[w].src
  /\ \A v \in Thread \ {w} : job'[v] = job[v]
  /\ UNCHANGED lock

\* The lock and the list of the tick outlast the steps of a crawl.
LEMMA GoesOn ==
  ASSUME LockInv, NEW w \in Thread, Goes(w),
         \A s \in job["loop"].due : source'[s].wait = source[s].wait \/ source'[s].wait = 0
  PROVE  LockInv'
  BY DEF LockInv, Goes, StillDue, Thread

\* The holder of the lock is alone: every crawl begins under it, and ends with it.
LEMMA LockStep ==
  ASSUME TypeOK, LockInv, [Next]_vars
  PROVE  LockInv'
<1>0. /\ job \in [Thread -> Job] /\ source \in [Source -> Row]
      /\ "loop" \in Thread /\ Admins \subseteq Thread \ {"loop"}
      /\ \A w \in Thread : job[w] \in Job /\ job[w].due \subseteq Source
      /\ \A s \in Source : source[s].wait \in Nat
      /\ NoJob.at = "idle" /\ NoJob.due = {} /\ NoJob.src = NoSource /\ NoSource \notin Source
  BY DEF TypeOK, Thread, Job, Row, NoJob, NoSource, Source
<1>1. ASSUME UNCHANGED <<job, lock, source>> PROVE LockInv'
  BY <1>1 DEF LockInv, StillDue
<1>2. ASSUME Pass PROVE LockInv'
  <2>1. \A s \in Source : source[s].wait = 0 => source'[s].wait = 0
    BY <1>0, <1>2 DEF Pass, Row
  <2>2. UNCHANGED <<job, lock>>
    BY <1>2 DEF Pass
  <2> QED
    BY <1>0, <2>1, <2>2 DEF LockInv, StillDue
<1>3. ASSUME Tick PROVE LockInv'
  <2>1. CASE lock = None
    <3> DEFINE D == {s \in Source : source[s].wait = 0}
               j == [NoJob EXCEPT !.at = "next", !.due = D]
    <3>1. j.at = "next" /\ j.due = D /\ j.src = NoSource
      BY DEF NoJob
    <3>2. job' = [job EXCEPT !["loop"] = j] /\ lock' = "loop" /\ UNCHANGED source
      BY <1>3, <2>1 DEF Tick
    <3>3. \A w \in Thread : job[w].at = "idle"
      BY <2>1 DEF LockInv
    <3>4. NoSource \notin D /\ \A s \in D : source[s].wait = 0
      BY <1>0
    <3> HIDE DEF j, D
    <3>5. job'["loop"] = j /\ \A w \in Thread \ {"loop"} : job'[w].at = "idle"
      BY <1>0, <3>2, <3>3
    <3> QED
      BY <3>1, <3>2, <3>4, <3>5 DEF LockInv, StillDue
  <2>2. CASE lock # None
    BY <1>1, <1>3, <2>2 DEF Tick
  <2> QED
    BY <2>1, <2>2
<1>4. ASSUME NextDue PROVE LockInv'
  <2>0. lock = "loop" /\ UNCHANGED source
    BY <1>0, <1>4 DEF NextDue, LockInv
  <2>1. CASE job' = [job EXCEPT !["loop"] = NoJob] /\ lock' = None
    BY <1>0, <2>0, <2>1 DEF LockInv, StillDue
  <2>2. ASSUME NEW s \in job["loop"].due, UNCHANGED lock,
               job' = [job EXCEPT !["loop"] = [@ EXCEPT !.at = "mark", !.src = s,
                                                       !.due = job["loop"].due \ {s}]]
        PROVE  LockInv'
    <3>1. /\ job'["loop"].at = "mark" /\ job'["loop"].src = s
          /\ job'["loop"].due = job["loop"].due \ {s}
          /\ \A w \in Thread \ {"loop"} : job'[w] = job[w]
      BY <1>0, <2>2 DEF Job
    <3> QED
      BY <2>0, <2>2, <3>1 DEF LockInv, StillDue
  <2> QED
    BY ONLY <1>4, <2>1, <2>2 DEF NextDue
<1>5. ASSUME NEW w \in Admins, NEW s \in Source, RunNow(w, s) PROVE LockInv'
  <2>1. \A v \in Thread : job[v].at = "idle"
    BY <1>5 DEF RunNow, LockInv
  <2>2. /\ \A v \in Thread \ {w} : job'[v] = job[v]
        /\ lock' = w /\ UNCHANGED source
    BY <1>0, <1>5 DEF RunNow
  <2> QED
    BY <1>0, <2>1, <2>2 DEF LockInv, StillDue
<1>6. ASSUME NEW w \in Thread, MarkRunning(w) PROVE LockInv'
  <2>1. Goes(w)
    BY <1>0, <1>6 DEF MarkRunning, Step, Goes, Job
  <2>2. \A s \in Source : source'[s].wait = source[s].wait \/ source'[s].wait = 0
    BY <1>0, <1>6 DEF MarkRunning
  <2> QED
    BY <1>0, <2>1, <2>2, GoesOn
<1>7. ASSUME NEW w \in Thread, Crawl(w) PROVE LockInv'
  <2>1. CASE job' = [job EXCEPT ![w] = [@ EXCEPT !.at = "settle", !.ok = FALSE]]
    BY <1>0, <1>7, <2>1, GoesOn DEF Crawl, Goes, Job
  <2>2. ASSUME NEW D, NEW ok,
               job' = [job EXCEPT ![w] = [@ EXCEPT !.at = "documents", !.todo = D, !.ok = ok]]
        PROVE  LockInv'
    BY <1>0, <1>7, <2>2, GoesOn DEF Crawl, Goes, Job
  <2> QED
    BY ONLY <1>7, <2>1, <2>2 DEF Crawl
<1>8. ASSUME NEW w \in Thread, NEW c \in Candidates, TakeDocument(w, c) PROVE LockInv'
  <2> DEFINE a == IF AutoPublish THEN "publish" ELSE "documents"
  <2>1. /\ job' = [job EXCEPT ![w] = [@ EXCEPT !.todo = job[w].todo \ {c}, !.at = a]]
        /\ job[w].at = "documents" /\ UNCHANGED <<lock, source>>
    BY <1>8 DEF TakeDocument
  <2>2. a # "idle"
    OBVIOUS
  <2> HIDE DEF a
  <2> QED
    BY <1>0, <2>1, <2>2, GoesOn DEF Goes, Job
<1>9. ASSUME NEW w \in Thread, Published(w) \/ DocumentsDone(w) PROVE LockInv'
  <2>1. PICK a \in {"documents", "settle"} : Step(w, a)
    BY <1>9 DEF Published, DocumentsDone
  <2>2. job[w].at # "idle" /\ UNCHANGED <<lock, source>>
    BY <1>9 DEF Published, DocumentsDone
  <2> QED
    BY <1>0, <2>1, <2>2, GoesOn DEF Goes, Step, Job
<1>10. ASSUME NEW w \in Thread, SettleSource(w) PROVE LockInv'
  <2>1. lock = w /\ \A s \in Source \ {job[w].src} : source'[s] = source[s]
    BY <1>0, <1>10 DEF SettleSource, LockInv
  <2>2. CASE w = "loop"
    <3>1. /\ job' = [job EXCEPT ![w] = [NoJob EXCEPT !.at = "next", !.due = job[w].due]]
          /\ UNCHANGED lock
      BY <1>10, <2>2 DEF SettleSource, After
    <3>2. /\ job'[w].at = "next" /\ job'[w].due = job[w].due /\ job'[w].src = NoSource
          /\ \A v \in Thread \ {w} : job'[v] = job[v]
      BY <1>0, <3>1 DEF NoJob
    <3> QED
      BY <1>0, <2>1, <2>2, <3>1, <3>2 DEF LockInv, StillDue
  <2>3. CASE w # "loop"
    <3>1. job' = [job EXCEPT ![w] = NoJob] /\ lock' = None
      BY <1>10, <2>3 DEF SettleSource, After
    <3>2. \A v \in Thread : job'[v].at = "idle"
      BY <1>0, <2>1, <3>1 DEF LockInv
    <3> QED
      BY <1>0, <2>1, <2>3, <3>1, <3>2 DEF LockInv, StillDue
  <2> QED
    BY <2>2, <2>3
<1>11. ASSUME NEW w \in Thread, CrawlFault(w) PROVE LockInv'
  <2>1. lock = w /\ job' = [job EXCEPT ![w] = NoJob] /\ lock' = None /\ UNCHANGED source
    BY <1>11 DEF CrawlFault, LockInv
  <2>2. \A v \in Thread : job'[v].at = "idle"
    BY <1>0, <2>1 DEF LockInv
  <2> QED
    BY <1>0, <2>1, <2>2 DEF LockInv, StillDue
<1>12. ASSUME NEW w \in Thread, PubRead(w) \/ PubFault(w) PROVE LockInv'
  <2>1. UNCHANGED <<lock, source>>
    BY <1>12 DEF PubRead, PubFault
  <2>2. CASE UNCHANGED job
    BY <1>1, <2>1, <2>2
  <2>3. CASE job' = [job EXCEPT ![w].ok = FALSE]
    <3>1. \A v \in Thread : job'[v].at = job[v].at /\ job'[v].due = job[v].due
                            /\ job'[v].src = job[v].src
      BY <1>0, <2>3 DEF Job
    <3> QED
      BY <1>0, <2>1, <3>1 DEF LockInv, StillDue
  <2> QED
    BY ONLY <1>12, <2>2, <2>3 DEF PubRead, PubFault, GivingUp
<1>13. ASSUME Crash PROVE LockInv'
  BY <1>0, <1>13 DEF Crash, LockInv, StillDue
<1>14. ASSUME NEW w \in Thread, Publication(w) PROVE LockInv'
  BY ONLY <1>1, <1>12, <1>14 DEF Publication, PubStage, PubUpsert, PubEnqueue, PubReview,
     PubNote, RejectWrite, GiveUp, crawlVars
<1> QED
  BY ONLY <1>1, <1>2, <1>3, <1>4, <1>5, <1>6, <1>7, <1>8, <1>9, <1>10, <1>11, <1>12, <1>13,
     <1>14, TaskFrame, [Next]_vars DEF Next, Loop, Run, AdminPublish, AdminReject, vars, crawlVars

\* Nothing but an end gives a source that is running another time.
RunningWaits == \A s \in Source : source[s].status = "running" => source[s].wait = 0

\* Time, marks and ends keep running sources due.
LEMMA WaitStep ==
  ASSUME TypeOK, RunningWaits, [Next]_vars
  PROVE  RunningWaits'
<1>0. source \in [Source -> Row] /\ \A s \in Source : source[s].wait \in Nat
  BY DEF TypeOK, Row
<1>1. CASE UNCHANGED source
  BY <1>1 DEF RunningWaits
<1>2. CASE Pass
  BY <1>0, <1>2 DEF Pass, RunningWaits, Row
<1>3. ASSUME NEW w \in Thread, MarkRunning(w) PROVE RunningWaits'
  BY <1>0, <1>3 DEF MarkRunning, RunningWaits
<1>4. ASSUME NEW w \in Thread, SettleSource(w) PROVE RunningWaits'
  <2>1. PICK d : source' = [source EXCEPT ![job[w].src] =
                   [status |-> IF job[w].ok THEN "succeeded" ELSE "failed", wait |-> d]]
    BY <1>4 DEF SettleSource
  <2> QED
    BY <1>0, <2>1 DEF RunningWaits
<1> QED
  BY ONLY <1>1, <1>2, <1>3, <1>4, TaskFrame, [Next]_vars
     DEF Next, Loop, Run, Publication, Tick, NextDue,
     RunNow, Crawl, TakeDocument, Published, DocumentsDone, CrawlFault, PubRead, AdminPublish,
     AdminReject, PubStage, PubUpsert, PubEnqueue, PubReview, PubNote, RejectWrite, PubFault,
     GiveUp, Crash, vars, crawlVars

\* A thread that crawls publishes only when its run is at a publication.
Apart == \A w \in Thread : job[w].at \notin {"idle", "publish"} => pub[w].at = "idle"

\* A run waits for its publication; no administrator's thread crawls and reviews.
LEMMA ApartStep ==
  ASSUME TypeOK, Apart, [Next]_vars
  PROVE  Apart'
<1>0. /\ job \in [Thread -> Job] /\ pub \in [Thread -> Pub]
      /\ "loop" \in Thread /\ Admins \subseteq Thread
      /\ NoJob.at = "idle" /\ NoPub.at = "idle"
  BY DEF TypeOK, Thread, NoJob, NoPub
\* The crawl of a thread that publishes nothing goes on.
<1>1. ASSUME NEW w \in Thread, pub[w].at = "idle", UNCHANGED pub,
             \A v \in Thread \ {w} : job'[v] = job[v]
      PROVE  Apart'
  BY <1>1 DEF Apart
<1>2. ASSUME NEW w \in Thread, job[w].at \in {"idle", "publish"},
             \A v \in Thread : job'[v].at = job[v].at,
             \A v \in Thread \ {w} : pub'[v] = pub[v]
      PROVE  Apart'
  BY <1>2 DEF Apart
<1>3. CASE Tick
  BY <1>0, <1>1, <1>3 DEF Tick, Idle, pubVars, Apart
<1>4. CASE NextDue
  <2>1. pub["loop"].at = "idle" /\ UNCHANGED pub
    BY <1>0, <1>4 DEF NextDue, Apart, pubVars
  <2>2. \A v \in Thread \ {"loop"} : job'[v] = job[v]
    BY <1>0, <1>4 DEF NextDue
  <2> QED
    BY <1>0, <1>1, <2>1, <2>2
<1>5. ASSUME NEW w \in Admins, NEW s \in Source, RunNow(w, s) PROVE Apart'
  BY <1>0, <1>1, <1>5 DEF RunNow, Idle, pubVars
<1>6. ASSUME NEW w \in Thread, MarkRunning(w) \/ Crawl(w) \/ DocumentsDone(w) \/ Published(w)
                               \/ SettleSource(w)
      PROVE  Apart'
  <2>1. pub[w].at = "idle" /\ UNCHANGED pub
    BY <1>6 DEF MarkRunning, Crawl, DocumentsDone, Published, SettleSource, Apart, pubVars
  <2>2. \A v \in Thread \ {w} : job'[v] = job[v]
    <3>1. ASSUME NEW j, job' = [job EXCEPT ![w] = j]
          PROVE  \A v \in Thread \ {w} : job'[v] = job[v]
      BY <1>0, <3>1
    <3> QED
      BY ONLY <1>6, <3>1 DEF MarkRunning, Crawl, DocumentsDone, Published, SettleSource, After, Step
  <2> QED
    BY <1>1, <2>1, <2>2
<1>7. ASSUME NEW w \in Thread, NEW c \in Candidates, TakeDocument(w, c) PROVE Apart'
  <2>1. pub[w].at = "idle" /\ \A v \in Thread \ {w} : pub'[v] = pub[v] /\ job'[v] = job[v]
    BY <1>0, <1>7 DEF TakeDocument, Apart
  <2>2. CASE AutoPublish
    <3>1. job'[w].at = "publish"
      BY <1>0, <1>7, <2>2 DEF TakeDocument, Job
    <3> QED
      BY <2>1, <3>1 DEF Apart
  <2>3. CASE ~AutoPublish
    BY <1>1, <1>7, <2>1, <2>3 DEF TakeDocument
  <2> QED
    BY <2>2, <2>3
<1>8. ASSUME NEW w \in Thread, CrawlFault(w) PROVE Apart'
  BY <1>0, <1>8 DEF CrawlFault, Apart, pubVars
<1>9. ASSUME NEW w \in Thread, Publication(w) \/ PubFault(w) PROVE Apart'
  <2>1. job[w].at \in {"idle", "publish"}
    BY <1>9 DEF Publication, PubFault, PubRead, PubStage, PubUpsert, PubEnqueue, PubReview,
                PubNote, RejectWrite, GiveUp, Apart, PubAt
  <2>2. \A v \in Thread : job'[v].at = job[v].at
    <3>1. CASE UNCHANGED job
      BY <3>1
    <3>2. CASE job' = [job EXCEPT ![w].ok = FALSE]
      BY <1>0, <3>2 DEF Job
    <3> QED
      BY ONLY <1>9, <3>1, <3>2 DEF Publication, PubFault, PubRead, PubStage, PubUpsert,
         PubEnqueue, PubReview, PubNote, RejectWrite, GiveUp, GivingUp, crawlVars
  <2>3. \A v \in Thread \ {w} : pub'[v] = pub[v]
    <3>1. ASSUME NEW q, pub' = [pub EXCEPT ![w] = q]
          PROVE  \A v \in Thread \ {w} : pub'[v] = pub[v]
      BY <1>0, <3>1
    <3> QED
      BY ONLY <1>9, <3>1 DEF Publication, PubFault, PubRead, PubStage, PubUpsert, PubEnqueue,
         PubReview, PubNote, RejectWrite, GiveUp, GivingUp, PubStep
  <2> QED
    BY <1>2, <2>1, <2>2, <2>3
<1>10. ASSUME NEW w \in Admins, NEW c \in Candidates, AdminPublish(w, c) \/ AdminReject(w, c)
       PROVE  Apart'
  <2>1. job[w].at = "idle" /\ UNCHANGED job
    BY <1>10 DEF AdminPublish, AdminReject, Idle, crawlVars
  <2> QED
    BY <1>0, <1>2, <1>10, <2>1 DEF AdminPublish, AdminReject, Become
<1>11. CASE Crash
  BY <1>0, <1>11 DEF Crash, Apart
<1>12. CASE UNCHANGED <<job, pub>>
  BY <1>12 DEF Apart
<1> QED
  BY ONLY <1>3, <1>4, <1>5, <1>6, <1>7, <1>8, <1>9, <1>10, <1>11, <1>12,
     TaskFrame, [Next]_vars DEF Next, Loop, Run, Pass, vars, crawlVars, pubVars

-----------------------------------------------------------------------------
(* The way of a URL into the library *)

\* No task is to come: the last one has read the file that is staged, and where it
\* is tells what it has done with it.
Even(u) ==
  /\ item[u].stage = "indexed" => indexed[u] = staged[u]
  /\ item[u].stage = "waiting" => \E k \in Workers : On(k, u)
  /\ \A k \in Workers : On(k, u) =>
       /\ work[k].at = "replace" => work[k].doc = staged[u]
       /\ work[k].at = "index" => indexed[u] = staged[u]
       /\ work[k].at = "finish" => item[u].stage = "indexed"
       /\ work[k].at = "failed" => item[u].stage = "failed"

\* At most one publication is between the file and the task, and it knows both; at
\* most one task is processed, and until it says so the row waits.
Follows(u) ==
  /\ queued[u] > 0 \/ lost[u] > 0 \/ (\E k \in Workers : On(k, u)) => item[u].stage # "absent"
  /\ \A v, w \in Thread : Between(v, u) /\ Between(w, u) => v = w
  /\ \A j, k \in Workers : On(j, u) /\ On(k, u) => j = k
  /\ \A k \in Workers : On(k, u) /\ work[k].at \in {"parse", "replace", "index"} =>
       item[u].stage = "waiting"
  /\ \A w \in Thread : Between(w, u) =>
       /\ staged[u] = pub[w].cand
       /\ pub[w].at = "enqueue" => item[u].hash = pub[w].cand /\ item[u].stage # "absent"
  /\ (\A w \in Thread : ~Between(w, u)) =>
       /\ item[u].stage # "absent" => staged[u] = item[u].hash
       /\ Coming(u) \/ Even(u)

LibraryInv == \A u \in Url \ hurt : Follows(u)

\* A step elsewhere: nothing of the URL changes but where a publication is that is
\* not between its file and its task.
LEMMA Untouched ==
  ASSUME NEW u \in Url, Follows(u),
         staged'[u] = staged[u], item'[u] = item[u], indexed'[u] = indexed[u],
         queued'[u] = queued[u], lost'[u] = lost[u],
         \A k \in Workers : /\ On(k, u)' <=> On(k, u)
                            /\ On(k, u) => work'[k] = work[k],
         \A w \in Thread : /\ Between(w, u)' <=> Between(w, u)
                           /\ Between(w, u) => pub'[w] = pub[w]
  PROVE  Follows(u)'
<1>1. (\A v, w \in Thread : Between(v, u) /\ Between(w, u) => v = w)'
  BY DEF Follows
<1>2. ASSUME NEW w \in Thread, Between(w, u)'
      PROVE  /\ staged'[u] = pub'[w].cand
             /\ pub'[w].at = "enqueue" => item'[u].hash = pub'[w].cand /\ item'[u].stage # "absent"
  BY <1>2 DEF Follows
<1>3. Coming(u)' <=> Coming(u)
  BY DEF Coming
<1>4. Even(u)' <=> Even(u)
  BY DEF Even
<1>5. ASSUME \A w \in Thread : ~Between(w, u)'
      PROVE  /\ item'[u].stage # "absent" => staged'[u] = item'[u].hash
             /\ Coming(u)' \/ Even(u)'
  BY <1>3, <1>4, <1>5 DEF Follows
<1>6. /\ queued'[u] > 0 \/ lost'[u] > 0 \/ (\E k \in Workers : On(k, u)') => item'[u].stage # "absent"
      /\ \A j, k \in Workers : On(j, u)' /\ On(k, u)' => j = k
      /\ \A k \in Workers : On(k, u)' /\ work'[k].at \in {"parse", "replace", "index"} =>
           item'[u].stage = "waiting"
  BY DEF Follows
<1> QED
  BY <1>1, <1>2, <1>5, <1>6 DEF Follows

\* The one worker of a URL goes on with its task, or leaves it.
LEMMA Worked ==
  ASSUME TypeOK, NEW u \in Url, Follows(u), NEW k \in Workers, On(k, u),
         UNCHANGED <<pub, staged>>,
         \A j \in Workers \ {k} : work'[j] = work[j],
         work'[k].at # "idle" => work'[k].url = u,
         item'[u].hash = item[u].hash, item'[u].stage # "absent",
         work'[k].at \in {"parse", "replace", "index"} => item'[u].stage = "waiting",
         (\A w \in Thread : ~Between(w, u)) => Coming(u)' \/ Even(u)'
  PROVE  Follows(u)'
<1>1. \A w \in Thread : Between(w, u)' <=> Between(w, u)
  BY DEF Between
<1>2. \A j \in Workers : On(j, u)' => j = k
  BY DEF On, Follows
<1>3. item[u].stage # "absent"
  BY DEF Follows
<1>4. \A w \in Thread : Between(w, u) =>
        /\ staged[u] = pub[w].cand
        /\ pub[w].at = "enqueue" => item[u].hash = pub[w].cand
  BY DEF Follows
<1>5. (\A w \in Thread : ~Between(w, u)) => staged[u] = item[u].hash
  BY <1>3 DEF Follows
<1>6. \A v, w \in Thread : Between(v, u) /\ Between(w, u) => v = w
  BY DEF Follows
<1> QED
  BY <1>1, <1>2, <1>4, <1>5, <1>6 DEF Follows

\* Each statement of a task leaves the row with its hash, and marks it indexed
\* only from the file that is staged or with another task to come.
LEMMA TaskStep ==
  ASSUME TypeOK, AtWork, NEW k \in Workers, Task(k) \/ TaskFault(k),
         NEW u \in Url \ hurt', Follows(u)
  PROVE  Follows(u)'
<1>0. /\ work \in [Workers -> Work] /\ work[k] \in Work /\ item \in [Url -> Item]
      /\ indexed \in [Url -> Candidates \cup {None}]
      /\ queued \in [Url -> Nat] /\ lost \in [Url -> Nat]
      /\ work[k].at # "idle" => work[k].url \in Url
      /\ NoWork.at = "idle"
  BY DEF TypeOK, AtWork, NoWork
<1>1. UNCHANGED <<pub, staged>>
  BY TaskFrame DEF pubVars
<1>2. \A w \in Thread : Between(w, u)' <=> Between(w, u)
  BY <1>1 DEF Between
\* A task that is to come stays so unless the worker is the one that has it.
<1>3. ASSUME queued[u] > 0 \/ lost[u] > 0, queued'[u] = queued[u], lost'[u] = lost[u]
      PROVE  Coming(u)'
  BY <1>0, <1>3 DEF Coming
\* The claim of a task.
<1>4. ASSUME NEW x \in Url, TaskBegin(k, x) PROVE Follows(u)'
  <2>1. /\ work[k].at = "idle"
        /\ \A y \in Url \ {x} : queued'[y] = queued[y] /\ lost'[y] = lost[y]
        /\ work'[k].at = "mark" /\ work'[k].url = x
        /\ \A j \in Workers \ {k} : work'[j] = work[j]
        /\ UNCHANGED <<item, indexed>>
        /\ x \notin hurt' => \A j \in Workers : ~On(j, x)
        /\ x \notin hurt' => queued[x] > 0 \/ lost[x] > 0
    BY <1>0, <1>4 DEF TaskBegin
  <2>2. CASE x = u
    <3>1. \A j \in Workers : On(j, u)' <=> j = k
      BY <2>1, <2>2 DEF On
    <3>2. Coming(u)' /\ item[u].stage # "absent"
      BY <2>1, <2>2, <3>1 DEF Coming, Follows
    <3>3. \A w \in Thread : Between(w, u) =>
            /\ staged[u] = pub[w].cand
            /\ pub[w].at = "enqueue" => item[u].hash = pub[w].cand
      BY DEF Follows
    <3>4. (\A w \in Thread : ~Between(w, u)) => staged[u] = item[u].hash
      BY <3>2 DEF Follows
    <3>5. \A v, w \in Thread : Between(v, u) /\ Between(w, u) => v = w
      BY DEF Follows
    <3> QED
      BY <1>1, <1>2, <2>1, <3>1, <3>2, <3>3, <3>4, <3>5 DEF Follows
  <2>3. CASE x # u
    <3>1. \A j \in Workers : (On(j, u)' <=> On(j, u)) /\ (On(j, u) => work'[j] = work[j])
      BY <2>1, <2>3 DEF On
    <3> QED
      BY <1>1, <1>2, <2>1, <2>3, <3>1, Untouched
  <2> QED
    BY <2>2, <2>3
\* A worker of another URL.
<1>5. ASSUME work[k].at # "idle", work[k].url # u PROVE Follows(u)'
  <2>1. ~\E x \in Url : TaskBegin(k, x)
    BY <1>5 DEF TaskBegin
  <2>2. /\ \A j \in Workers \ {k} : work'[j] = work[j]
        /\ work'[k].at # "idle" => work'[k].url = work[k].url
    <3>1. ASSUME NEW to, Go(k, to)
          PROVE  /\ \A j \in Workers \ {k} : work'[j] = work[j]
                 /\ work'[k].url = work[k].url
      BY <1>0, <3>1 DEF Go, Work
    <3>2. CASE work' = [work EXCEPT ![k] = NoWork]
      BY <1>0, <3>2
    <3>3. CASE TaskParse(k)
      BY <1>0, <3>3 DEF TaskParse, Work
    <3>4. CASE TaskMark(k) \/ TaskReplace(k) \/ TaskIndex(k) \/ TaskFails(k) \/ TaskFail(k)
      BY ONLY <3>1, <3>4 DEF TaskMark, TaskReplace, TaskIndex, TaskFails, TaskFail
    <3>5. CASE TaskFinish(k) \/ TaskFault(k)
      BY ONLY <3>2, <3>5 DEF TaskFinish, TaskFault
    <3> QED
      BY ONLY <2>1, <3>3, <3>4, <3>5, Task(k) \/ TaskFault(k) DEF Task
  <2>3. /\ item'[u] = item[u] /\ indexed'[u] = indexed[u]
        /\ queued'[u] = queued[u] /\ lost'[u] = lost[u]
    BY <1>0, <1>5, <2>1 DEF Task, TaskFault, TaskMark, TaskParse, TaskReplace, TaskIndex,
       TaskFails, TaskFail, TaskFinish, Stage
  <2>4. \A j \in Workers : (On(j, u)' <=> On(j, u)) /\ (On(j, u) => work'[j] = work[j])
    BY <1>5, <2>2 DEF On
  <2> QED
    BY <1>1, <1>2, <2>3, <2>4, Untouched
\* The worker of this one.
<1>6. ASSUME On(k, u) PROVE Follows(u)'
  <2>0. /\ work[k].at # "idle" /\ work[k].url = u
        /\ \A j \in Workers : On(j, u) => j = k
        /\ item[u].stage # "absent"
        /\ work[k].at \in {"parse", "replace", "index"} => item[u].stage = "waiting"
    BY <1>6 DEF On, Follows
  <2> DEFINE Quiet == \A w \in Thread : ~Between(w, u)
             Others == \A j \in Workers \ {k} : work'[j] = work[j]
  \* The tasks that wait stay, and nobody else is at work.
  <2>1. ASSUME queued'[u] = queued[u], lost'[u] = lost[u], Quiet,
               work[k].at \notin {"mark", "parse"}, ~Coming(u)'
        PROVE  Even(u)
    <3>1. queued[u] = 0 /\ lost[u] = 0
      BY <1>0, <1>3, <2>1
    <3>2. ~Coming(u)
      BY <2>0, <2>1, <3>1 DEF Coming
    <3> QED
      BY <2>1, <3>2 DEF Follows
  <2>2. ASSUME NEW to, Go(k, to), to # "idle"
        PROVE  /\ Others /\ work'[k].at = to /\ work'[k].url = u /\ work'[k].doc = work[k].doc
               /\ \A j \in Workers : On(j, u)' <=> j = k
    <3>1. Others /\ work'[k].at = to /\ work'[k].url = u /\ work'[k].doc = work[k].doc
      BY <1>0, <2>0, <2>2 DEF Go, Work
    <3> QED
      BY <2>0, <2>2, <3>1 DEF On
  <2>3. ASSUME work' = [work EXCEPT ![k] = NoWork]
        PROVE  Others /\ work'[k].at = "idle" /\ \A j \in Workers : ~On(j, u)'
    <3>1. Others /\ work'[k].at = "idle"
      BY <1>0, <2>3
    <3> QED
      BY <2>0, <3>1 DEF On
  <2>4. ASSUME NEW st, Stage(u, st) PROVE item'[u].stage = st /\ item'[u].hash = item[u].hash
    BY <1>0, <2>4 DEF Stage, Item
  <2>5. CASE TaskMark(k)
    <3>1. Go(k, "parse") /\ Stage(u, "waiting")
      BY <2>0, <2>5 DEF TaskMark
    <3>2. Coming(u)'
      BY <2>2, <3>1 DEF Coming
    <3> QED
      BY <1>1, <1>6, <2>2, <2>4, <3>1, <3>2, Worked
  <2>6. CASE TaskParse(k)
    <3>1. /\ Others /\ work'[k].at = "replace" /\ work'[k].url = u /\ work'[k].doc = staged[u]
          /\ UNCHANGED <<item, indexed, queued, lost>> /\ item[u].stage = "waiting"
      BY <1>0, <2>0, <2>6 DEF TaskParse, Work
    <3>2. \A j \in Workers : On(j, u)' <=> j = k
      BY <2>0, <3>1 DEF On
    <3>3. Even(u)'
      BY <1>1, <3>1, <3>2 DEF Even
    <3> QED
      BY <1>1, <1>6, <2>0, <3>1, <3>3, Worked
  <2>7. CASE TaskReplace(k)
    <3>1. /\ Go(k, "index") /\ UNCHANGED <<item, queued, lost>> /\ indexed'[u] = work[k].doc
          /\ work[k].at = "replace"
      BY <1>0, <2>0, <2>7 DEF TaskReplace
    <3>2. ASSUME Quiet, ~Coming(u)' PROVE Even(u)'
      <4>1. Even(u)
        BY <2>1, <3>1, <3>2
      <4>2. work[k].doc = staged[u]
        BY <1>6, <3>1, <4>1 DEF Even
      <4> QED
        BY <1>1, <2>0, <2>2, <3>1, <4>2 DEF Even
    <3> QED
      BY <1>1, <1>6, <2>0, <2>2, <3>1, <3>2, Worked
  <2>8. CASE TaskIndex(k)
    <3>1. /\ Go(k, "finish") /\ Stage(u, "indexed") /\ UNCHANGED <<indexed, queued, lost>>
          /\ work[k].at = "index"
      BY <1>0, <2>0, <2>8 DEF TaskIndex
    <3>2. ASSUME Quiet, ~Coming(u)' PROVE Even(u)'
      <4>1. Even(u)
        BY <2>1, <3>1, <3>2
      <4>2. indexed[u] = staged[u]
        BY <1>6, <3>1, <4>1 DEF Even
      <4> QED
        BY <1>1, <2>2, <2>4, <3>1, <4>2 DEF Even
    <3> QED
      BY <1>1, <1>6, <2>0, <2>2, <2>4, <3>1, <3>2, Worked
  <2>9. CASE TaskFails(k)
    <3>1. /\ Go(k, "fail") /\ UNCHANGED <<item, queued, lost>>
          /\ indexed'[u] = indexed[u] \/ work[k].at = "replace"
          /\ work[k].at \in {"parse", "replace", "index", "finish"}
      BY <1>0, <2>0, <2>9 DEF TaskFails
    <3>2. ASSUME Quiet, ~Coming(u)' PROVE Even(u)'
      <4>1. item[u].stage = "indexed" => indexed'[u] = staged[u]
        <5>1. CASE work[k].at \in {"parse", "replace", "index"}
          BY <2>0, <5>1
        <5>2. CASE work[k].at = "finish"
          BY <2>1, <3>1, <3>2, <5>2 DEF Even
        <5> QED
          BY <3>1, <5>1, <5>2
      <4> QED
        BY <1>1, <2>2, <3>1, <4>1 DEF Even
    <3> QED
      BY <1>1, <1>6, <2>0, <2>2, <3>1, <3>2, Worked
  <2>10. CASE TaskFail(k)
    <3>1. Go(k, "failed") /\ Stage(u, "failed")
      BY <2>0, <2>10 DEF TaskFail
    <3>2. Even(u)'
      BY <2>2, <2>4, <3>1 DEF Even
    <3> QED
      BY <1>1, <1>6, <2>2, <2>4, <3>1, <3>2, Worked
  <2>11. CASE TaskFinish(k)
    <3>1. /\ work' = [work EXCEPT ![k] = NoWork] /\ UNCHANGED <<item, indexed, queued, lost>>
          /\ work[k].at \in {"finish", "failed"}
      BY <2>11 DEF TaskFinish
    <3>2. ASSUME Quiet, ~Coming(u)' PROVE Even(u)'
      <4>1. Even(u)
        BY <2>1, <3>1, <3>2
      <4>2. item[u].stage # "waiting" /\ (item[u].stage = "indexed" => indexed[u] = staged[u])
        BY <1>6, <3>1, <4>1 DEF Even
      <4> QED
        BY <1>1, <2>3, <3>1, <4>2 DEF Even
    <3> QED
      BY <1>1, <1>6, <2>0, <2>3, <3>1, <3>2, Worked
  <2>12. CASE TaskFault(k)
    <3>1. /\ work' = [work EXCEPT ![k] = NoWork] /\ UNCHANGED item
          /\ lost'[u] = lost[u] + 1
      BY <1>0, <2>0, <2>12 DEF TaskFault
    <3>2. Coming(u)'
      BY <1>0, <3>1 DEF Coming
    <3> QED
      BY <1>1, <1>6, <2>0, <2>3, <3>1, <3>2, Worked
  <2>13. ~\E x \in Url : TaskBegin(k, x)
    BY <2>0 DEF TaskBegin
  <2> QED
    BY ONLY <2>5, <2>6, <2>7, <2>8, <2>9, <2>10, <2>11, <2>12, <2>13, Task(k) \/ TaskFault(k)
       DEF Task
<1>7. work[k].at = "idle" => \E x \in Url : TaskBegin(k, x)
  BY DEF Task, TaskFault, TaskMark, TaskParse, TaskReplace, TaskIndex, TaskFails, TaskFail,
         TaskFinish
<1> QED
  BY <1>4, <1>5, <1>6, <1>7 DEF On

\* A file, its row and its task stay together unless two publications meet.
LEMMA LibraryStep ==
  ASSUME TypeOK, Busy, AtWork, Apart, LibraryInv, [Next]_vars
  PROVE  LibraryInv'
<1>0. /\ pub \in [Thread -> Pub] /\ Admins \subseteq Thread
      /\ item \in [Url -> Item] /\ queued \in [Url -> Nat] /\ lost \in [Url -> Nat]
      /\ staged \in [Url -> Candidates \cup {None}] /\ indexed \in [Url -> Candidates \cup {None}]
  BY DEF TypeOK, Thread
<1> DEFINE Kept == UNCHANGED libVars
<1>1. CASE Kept /\ UNCHANGED pub
  BY <1>1, Untouched DEF Between, On, LibraryInv, libVars
\* A thread that neither comes between a file and its task nor was there.
<1>2. ASSUME NEW w \in Thread, Kept, pub[w].at \notin {"upsert", "enqueue"},
             pub'[w].at \notin {"upsert", "enqueue"},
             \A v \in Thread \ {w} : pub'[v] = pub[v]
      PROVE  LibraryInv'
  <2>1. \A v \in Thread, u \in Url : /\ Between(v, u)' <=> Between(v, u)
                                     /\ Between(v, u) => pub'[v] = pub[v]
    BY <1>2 DEF Between
  <2> QED
    BY <1>2, <2>1, Untouched DEF LibraryInv, On, libVars
<1>3. ASSUME NEW w \in Thread, NEW c \in Candidates, TakeDocument(w, c) PROVE LibraryInv'
  <2>1. CASE AutoPublish
    <3>1. pub' = [pub EXCEPT ![w] = [at |-> "read", cand |-> c, linked |-> Proposed(c).linked]]
      BY <1>3, <2>1 DEF TakeDocument
    <3>2. pub[w].at = "idle"
      BY <1>3 DEF TakeDocument, Apart
    <3>3. pub'[w].at = "read" /\ \A v \in Thread \ {w} : pub'[v] = pub[v]
      BY <1>0, <3>1
    <3> QED
      BY <1>2, <1>3, <3>2, <3>3 DEF TakeDocument
  <2>2. CASE ~AutoPublish
    BY <1>1, <1>3, <2>2 DEF TakeDocument
  <2> QED
    BY <2>1, <2>2
<1>4. ASSUME NEW w \in Thread,
             PubRead(w) \/ PubReview(w) \/ PubNote(w) \/ RejectWrite(w) \/ GiveUp(w)
      PROVE  LibraryInv'
  <2>1. Kept /\ pub[w].at \notin {"upsert", "enqueue"}
    BY <1>4 DEF PubRead, PubReview, PubNote, RejectWrite, GiveUp
  <2>2. CASE pub' = [pub EXCEPT ![w] = NoPub]
    BY <1>0, <1>2, <2>1, <2>2 DEF NoPub
  <2>3. ASSUME NEW a \in {"stage", "note", "give_up"}, pub' = [pub EXCEPT ![w].at = a]
        PROVE  LibraryInv'
    BY <1>0, <1>2, <2>1, <2>3 DEF Pub
  <2> QED
    BY ONLY <1>4, <2>2, <2>3 DEF PubRead, PubReview, PubNote, RejectWrite, GiveUp, PubStep, GivingUp
<1>5. ASSUME NEW w \in Admins, NEW c \in Candidates, AdminPublish(w, c) \/ AdminReject(w, c)
      PROVE  LibraryInv'
  <2>1. PICK a \in {"stage", "reject"} : Become(w, a, c)
    BY <1>5 DEF AdminPublish, AdminReject
  <2>2. Kept /\ pub[w].at = "idle"
    BY <1>5 DEF AdminPublish, AdminReject, Idle
  <2>3. pub'[w].at = a /\ \A v \in Thread \ {w} : pub'[v] = pub[v]
    BY <1>0, <2>1 DEF Become, NoPub
  <2> QED
    BY <1>0, <1>2, <2>2, <2>3
<1>6. ASSUME NEW w \in Thread, PubStage(w) PROVE LibraryInv'
  <2> DEFINE u == UrlOf[pub[w].cand]
  <2>1. /\ pub[w].at = "stage" /\ pub[w].cand \in Candidates /\ u \in Url
        /\ pub'[w].at = "upsert" /\ pub'[w].cand = pub[w].cand
        /\ \A v \in Thread \ {w} : pub'[v] = pub[v]
    BY <1>0, <1>6 DEF PubStage, PubStep, Busy, Url, Pub
  <2>2. /\ \A v \in Thread \ {w}, x \in Url : Between(v, x)' <=> Between(v, x)
        /\ \A x \in Url : ~Between(w, x) /\ (Between(w, x)' <=> x = u)
    BY <2>1 DEF Between
  <2>3. /\ UNCHANGED <<item, indexed, queued, lost, work>> /\ staged'[u] = pub[w].cand
        /\ \A x \in Url \ {u} : staged'[x] = staged[x]
        /\ hurt \subseteq hurt'
        /\ u \notin hurt' => \A v \in Thread \ {w} : ~Between(v, u)
    BY <1>0, <1>6, <2>1 DEF PubStage
  <2> HIDE DEF u
  <2> SUFFICES ASSUME NEW x \in Url \ hurt' PROVE Follows(x)'
    BY DEF LibraryInv
  <2>4. Follows(x)
    BY <2>3 DEF LibraryInv
  <2>5. CASE x = u
    <3>1. \A v \in Thread : Between(v, x)' <=> v = w
      BY <2>2, <2>3, <2>5
    <3>2. /\ queued[x] > 0 \/ lost[x] > 0 \/ (\E k \in Workers : On(k, x)) => item[x].stage # "absent"
          /\ \A j, k \in Workers : On(j, x) /\ On(k, x) => j = k
          /\ \A k \in Workers : On(k, x) /\ work[k].at \in {"parse", "replace", "index"} =>
               item[x].stage = "waiting"
      BY <2>4 DEF Follows
    <3>3. \A k \in Workers : On(k, x)' <=> On(k, x)
      BY <2>3 DEF On
    <3> QED
      BY <2>1, <2>3, <2>5, <3>1, <3>2, <3>3 DEF Follows
  <2>6. CASE x # u
    <3>1. \A v \in Thread : /\ Between(v, x)' <=> Between(v, x)
                            /\ Between(v, x) => pub'[v] = pub[v]
      BY <2>1, <2>2, <2>6
    <3>2. \A k \in Workers : (On(k, x)' <=> On(k, x)) /\ work'[k] = work[k]
      BY <2>3 DEF On
    <3> QED
      BY <2>3, <2>4, <2>6, <3>1, <3>2, Untouched
  <2> QED
    BY <2>5, <2>6
<1>7. ASSUME NEW w \in Thread, PubUpsert(w) PROVE LibraryInv'
  <2> DEFINE u == UrlOf[pub[w].cand]
  <2>1. /\ pub[w].at = "upsert" /\ pub[w].cand \in Candidates /\ u \in Url
        /\ pub'[w].at = "enqueue" /\ pub'[w].cand = pub[w].cand
        /\ \A v \in Thread \ {w} : pub'[v] = pub[v]
    BY <1>0, <1>7 DEF PubUpsert, PubStep, Busy, Url, Pub
  <2>2. /\ \A v \in Thread, x \in Url : Between(v, x)' <=> Between(v, x)
        /\ \A x \in Url : Between(w, x) <=> x = u
    BY <2>1 DEF Between
  <2>3. /\ UNCHANGED <<staged, indexed, queued, lost, work, hurt>>
        /\ item'[u] = [stage |-> "waiting", hash |-> pub[w].cand]
        /\ \A x \in Url \ {u} : item'[x] = item[x]
    BY <1>0, <1>7, <2>1 DEF PubUpsert
  <2> HIDE DEF u
  <2> SUFFICES ASSUME NEW x \in Url \ hurt PROVE Follows(x)'
    BY <2>3 DEF LibraryInv
  <2>4. Follows(x)
    BY DEF LibraryInv
  <2>5. CASE x = u
    <3>1. \A v \in Thread : Between(v, x)' <=> v = w
      BY <2>2, <2>4, <2>5 DEF Follows
    <3>2. staged[x] = pub[w].cand /\ \A j, k \in Workers : On(j, x) /\ On(k, x) => j = k
      BY <2>2, <2>4, <2>5 DEF Follows
    <3>3. \A k \in Workers : On(k, x)' <=> On(k, x)
      BY <2>3 DEF On
    <3> QED
      BY <2>1, <2>3, <2>5, <3>1, <3>2, <3>3 DEF Follows
  <2>6. CASE x # u
    <3>1. \A v \in Thread : /\ Between(v, x)' <=> Between(v, x)
                            /\ Between(v, x) => pub'[v] = pub[v]
      BY <2>1, <2>2, <2>6
    <3>2. \A k \in Workers : (On(k, x)' <=> On(k, x)) /\ work'[k] = work[k]
      BY <2>3 DEF On
    <3> QED
      BY <2>3, <2>4, <2>6, <3>1, <3>2, Untouched
  <2> QED
    BY <2>5, <2>6
<1>8. ASSUME NEW w \in Thread, PubEnqueue(w) PROVE LibraryInv'
  <2> DEFINE u == UrlOf[pub[w].cand]
  <2>1. /\ pub[w].at = "enqueue" /\ pub[w].cand \in Candidates /\ u \in Url
        /\ pub'[w].at = "review"
        /\ \A v \in Thread \ {w} : pub'[v] = pub[v]
    BY <1>0, <1>8 DEF PubEnqueue, PubStep, Busy, Url, Pub
  <2>2. /\ \A v \in Thread \ {w}, x \in Url : Between(v, x)' <=> Between(v, x)
        /\ \A x \in Url : (Between(w, x) <=> x = u) /\ ~Between(w, x)'
    BY <2>1 DEF Between
  <2>3. /\ UNCHANGED <<staged, indexed, item, lost, work, hurt>>
        /\ queued'[u] = queued[u] + 1
        /\ \A x \in Url \ {u} : queued'[x] = queued[x]
    BY <1>0, <1>8, <2>1 DEF PubEnqueue
  <2> HIDE DEF u
  <2> SUFFICES ASSUME NEW x \in Url \ hurt PROVE Follows(x)'
    BY <2>3 DEF LibraryInv
  <2>4. Follows(x) /\ queued[x] \in Nat
    BY <1>0 DEF LibraryInv
  <2>5. CASE x = u
    <3>1. \A v \in Thread : ~Between(v, x)'
      BY <2>2, <2>4, <2>5 DEF Follows
    <3>2. /\ staged[x] = pub[w].cand /\ item[x].hash = pub[w].cand
          /\ item[x].stage # "absent"
      BY <2>1, <2>2, <2>4, <2>5 DEF Follows
    <3>3. Coming(x)'
      BY <2>3, <2>4, <2>5 DEF Coming
    <3>4. /\ \A j, k \in Workers : On(j, x) /\ On(k, x) => j = k
          /\ \A k \in Workers : On(k, x) /\ work[k].at \in {"parse", "replace", "index"} =>
               item[x].stage = "waiting"
      BY <2>4 DEF Follows
    <3>5. \A k \in Workers : On(k, x)' <=> On(k, x)
      BY <2>3 DEF On
    <3> QED
      BY <2>3, <3>1, <3>2, <3>3, <3>4, <3>5 DEF Follows
  <2>6. CASE x # u
    <3>1. \A v \in Thread : /\ Between(v, x)' <=> Between(v, x)
                            /\ Between(v, x) => pub'[v] = pub[v]
      BY <2>1, <2>2, <2>6
    <3>2. \A k \in Workers : (On(k, x)' <=> On(k, x)) /\ work'[k] = work[k]
      BY <2>3 DEF On
    <3> QED
      BY <2>3, <2>4, <2>6, <3>1, <3>2, Untouched
  <2> QED
    BY <2>5, <2>6
\* Whoever breaks off in between hurts the URL.
<1>9. ASSUME NEW w \in Thread, PubFault(w) PROVE LibraryInv'
  <2>1. /\ UNCHANGED <<staged, item, indexed, queued, lost, work>> /\ hurt \subseteq hurt'
        /\ \A x \in Url \ hurt' : ~Between(w, x)
    BY <1>9 DEF PubFault, Between
  <2>2. \A v \in Thread \ {w} : pub'[v] = pub[v]
    BY <1>0, <1>9 DEF PubFault, GivingUp
  <2>3. pub'[w].at \in {"idle", "give_up"}
    <3>1. CASE pub' = [pub EXCEPT ![w] = NoPub]
      BY <1>0, <3>1 DEF NoPub
    <3>2. CASE pub' = [pub EXCEPT ![w].at = "give_up"]
      BY <1>0, <3>2 DEF Pub
    <3> QED
      BY ONLY <1>9, <3>1, <3>2 DEF PubFault, GivingUp
  <2> SUFFICES ASSUME NEW x \in Url \ hurt' PROVE Follows(x)'
    BY DEF LibraryInv
  <2>4. \A v \in Thread : /\ Between(v, x)' <=> Between(v, x)
                          /\ Between(v, x) => pub'[v] = pub[v]
    BY <2>1, <2>2, <2>3 DEF Between
  <2>5. Follows(x)
    BY <2>1 DEF LibraryInv
  <2>6. \A k \in Workers : (On(k, x)' <=> On(k, x)) /\ work'[k] = work[k]
    BY <2>1 DEF On
  <2> QED
    BY <2>1, <2>4, <2>5, <2>6, Untouched
<1>10. ASSUME NEW k \in Workers, Task(k) \/ TaskFault(k) PROVE LibraryInv'
  <2>1. hurt \subseteq hurt'
    BY <1>10 DEF Task, TaskFault, TaskBegin, TaskMark, TaskParse, TaskReplace, TaskIndex, TaskFails,
                 TaskFail, TaskFinish
  <2> QED
    BY <1>10, <2>1, TaskStep DEF LibraryInv
\* A crash ends the publications, hurting what they were at, and the tasks that
\* were running wait again.
<1>11. CASE Crash
  <2>1. /\ UNCHANGED <<staged, item, indexed>> /\ hurt \subseteq hurt'
        /\ \A x \in Url \ hurt', v \in Thread : ~Between(v, x) /\ ~Between(v, x)'
    BY <1>11 DEF Crash, Between, NoPub
  <2> SUFFICES ASSUME NEW x \in Url \ hurt' PROVE Follows(x)'
    BY DEF LibraryInv
  <2>2. Follows(x)
    BY <2>1 DEF LibraryInv
  <2> DEFINE S == {k \in Workers : On(k, x)}
  <2>3. queued'[x] = queued[x] + lost[x] + Cardinality(S) /\ lost'[x] = 0
    BY <1>11 DEF Crash
  <2>4. IsFiniteSet(S) /\ Cardinality(S) \in Nat /\ (Cardinality(S) = 0 => S = {})
    <3>1. IsFiniteSet(S)
      BY FS_Subset
    <3> HIDE DEF S
    <3> QED
      BY <3>1, FS_CardinalityType, FS_EmptySet
  <2>5. \A k \in Workers : ~On(k, x)'
    BY <1>11 DEF Crash, On, NoWork
  <2>6. queued[x] \in Nat /\ lost[x] \in Nat
    BY <1>0
  <2>7. queued'[x] = 0 => queued[x] = 0 /\ lost[x] = 0 /\ S = {}
    <3>1. \A a, b, n \in Nat : a + b + n = 0 => a = 0 /\ b = 0 /\ n = 0
      OBVIOUS
    <3> HIDE DEF S
    <3>2. queued'[x] = 0 => queued[x] = 0 /\ lost[x] = 0 /\ Cardinality(S) = 0
      BY ONLY <2>3, <2>4, <2>6, <3>1
    <3> QED
      BY ONLY <2>4, <3>2
  <2>8. queued'[x] > 0 => queued[x] > 0 \/ lost[x] > 0 \/ \E k \in Workers : On(k, x)
    <3>1. Cardinality(S) > 0 => S # {}
      BY FS_EmptySet
    <3>2. queued'[x] > 0 => queued[x] > 0 \/ lost[x] > 0 \/ Cardinality(S) > 0
      <4> HIDE DEF S
      <4> QED
        BY <2>3, <2>4, <2>6
    <3> QED
      BY <3>1, <3>2
  <2>9. Coming(x)' \/ Even(x)'
    <3>1. CASE queued'[x] = 0
      <4>1. ~Coming(x) /\ \A k \in Workers : ~On(k, x)
        BY <2>7, <3>1 DEF Coming
      <4>2. Even(x)
        BY <2>1, <2>2, <4>1 DEF Follows
      <4> QED
        BY <2>1, <2>5, <4>1, <4>2 DEF Even
    <3>2. CASE queued'[x] # 0
      BY <2>3, <2>4, <2>6, <3>2 DEF Coming
    <3> QED
      BY <3>1, <3>2
  <2>10. /\ item[x].stage # "absent" => staged[x] = item[x].hash
         /\ queued'[x] > 0 => item[x].stage # "absent"
    BY <2>1, <2>2, <2>8 DEF Follows
  <2> QED
    BY <2>1, <2>3, <2>5, <2>9, <2>10 DEF Follows
<1> QED
  BY ONLY ZenonT(40), <1>1, <1>3, <1>4, <1>5, <1>6, <1>7, <1>8, <1>9, <1>10, <1>11, [Next]_vars
     DEF Next, Loop, Run, Publication, Pass, Tick, NextDue, RunNow, MarkRunning, Crawl, Published,
         DocumentsDone, SettleSource, CrawlFault, vars, crawlVars, pubVars

-----------------------------------------------------------------------------
(* The review *)

\* With reviews by hand no crawl publishes.
ByHand == \A w \in Thread : job[w].at # "publish" /\ pub[w].at \notin {"read", "give_up"}

\* Only automatic publication lets a crawl publish.
LEMMA ByHandStep ==
  ASSUME TypeOK, AutoPublish = FALSE, ByHand, [Next]_vars
  PROVE  ByHand'
<1>0. /\ job \in [Thread -> Job] /\ pub \in [Thread -> Pub]
      /\ "loop" \in Thread /\ Admins \subseteq Thread
      /\ NoJob.at = "idle" /\ NoPub.at = "idle"
  BY DEF TypeOK, Thread, NoJob, NoPub
<1> DEFINE NoPublish == \A w \in Thread : job'[w].at # "publish"
           NoRead == \A w \in Thread : pub'[w].at \notin {"read", "give_up"}
<1>1. NoPublish
  <2>1. CASE UNCHANGED job
    BY <2>1 DEF ByHand
  <2>2. ASSUME NEW w \in Thread, NEW j, j.at # "publish", job' = [job EXCEPT ![w] = j]
        PROVE  NoPublish
    BY <1>0, <2>2 DEF ByHand
  <2>3. ASSUME NEW w \in Thread, NEW a, a # "publish", job' = [job EXCEPT ![w].at = a]
        PROVE  NoPublish
    BY <1>0, <2>3 DEF ByHand, Job
  <2>4. CASE Tick
    <3>1. \A D : [NoJob EXCEPT !.at = "next", !.due = D].at = "next"
      BY DEF NoJob
    <3> QED
      BY ONLY <1>0, <2>1, <2>2, <2>4, <3>1 DEF Tick
  <2>5. CASE NextDue
    <3>1. ASSUME NEW s, NEW D PROVE [job["loop"] EXCEPT !.at = "mark", !.src = s, !.due = D].at = "mark"
      BY <1>0 DEF Job
    <3> QED
      BY ONLY ZenonT(40), <1>0, <2>2, <2>5, <3>1 DEF NextDue
  <2>6. ASSUME NEW w \in Thread, Run(w) PROVE NoPublish
    <3>1. CASE MarkRunning(w) \/ DocumentsDone(w) \/ Published(w)
      BY ONLY <2>3, <3>1 DEF MarkRunning, DocumentsDone, Published, Step
    <3>2. CASE Crawl(w)
      <4>1. [job[w] EXCEPT !.at = "settle", !.ok = FALSE].at = "settle"
        BY <1>0 DEF Job
      <4>2. ASSUME NEW D, NEW ok
            PROVE  [job[w] EXCEPT !.at = "documents", !.todo = D, !.ok = ok].at = "documents"
        BY <1>0 DEF Job
      <4> QED
        BY ONLY ZenonT(40), <1>0, <2>2, <3>2, <4>1, <4>2 DEF Crawl
    <3>3. ASSUME NEW c \in Candidates, TakeDocument(w, c) PROVE NoPublish
      <4>1. job' = [job EXCEPT ![w] = [@ EXCEPT !.todo = job[w].todo \ {c}, !.at = "documents"]]
        BY <3>3 DEF TakeDocument
      <4>2. [job[w] EXCEPT !.todo = job[w].todo \ {c}, !.at = "documents"].at = "documents"
        BY <1>0 DEF Job
      <4> QED
        BY ONLY <1>0, <2>2, <4>1, <4>2
    <3>4. CASE SettleSource(w)
      <4>1. ASSUME NEW D PROVE [NoJob EXCEPT !.at = "next", !.due = D].at = "next"
        BY DEF NoJob
      <4> QED
        BY ONLY <1>0, <2>2, <3>4, <4>1 DEF SettleSource, After
    <3> QED
      BY ONLY <2>6, <3>1, <3>2, <3>3, <3>4 DEF Run
  <2>7. ASSUME NEW w \in Admins, NEW s \in Source, RunNow(w, s) PROVE NoPublish
    <3>1. [NoJob EXCEPT !.at = "mark", !.src = s].at = "mark"
      BY DEF NoJob
    <3> QED
      BY ONLY <1>0, <2>2, <2>7, <3>1 DEF RunNow
  <2>8. ASSUME NEW w \in Thread, CrawlFault(w) PROVE NoPublish
    BY ONLY <1>0, <2>2, <2>8 DEF CrawlFault
  <2>9. ASSUME NEW w \in Thread, PubRead(w) \/ PubFault(w) PROVE NoPublish
    BY ONLY <2>1, <2>9, ByHand DEF PubRead, PubFault, ByHand
  <2>10. CASE Crash
    BY <1>0, <2>10 DEF Crash
  <2> QED
    BY ONLY <2>1, <2>4, <2>5, <2>6, <2>7, <2>8, <2>9, <2>10, TaskFrame,
       [Next]_vars
       DEF Next, Loop, Publication, Pass, AdminPublish, AdminReject, PubStage, PubUpsert,
           PubEnqueue, PubReview, PubNote, RejectWrite, GiveUp, vars, crawlVars
<1>2. NoRead
  <2>1. CASE UNCHANGED pub
    BY <2>1 DEF ByHand
  <2>2. ASSUME NEW w \in Thread, NEW a, a \notin {"read", "give_up"}, pub' = [pub EXCEPT ![w].at = a]
        PROVE  NoRead
    BY <1>0, <2>2 DEF ByHand, Pub
  <2>3. ASSUME NEW w \in Thread, pub' = [pub EXCEPT ![w] = NoPub] PROVE NoRead
    BY <1>0, <2>3 DEF ByHand
  <2>4. ASSUME NEW w \in Thread, Publication(w) PROVE NoRead
    <3>1. ~PubRead(w) /\ ~GiveUp(w)
      BY DEF PubRead, GiveUp, ByHand
    <3>2. CASE PubNote(w) \/ RejectWrite(w)
      BY ONLY <2>3, <3>2 DEF PubNote, RejectWrite
    <3>3. CASE PubStage(w) \/ PubUpsert(w) \/ PubEnqueue(w) \/ PubReview(w)
      <4>1. PICK a \in {"upsert", "enqueue", "review", "note"} : PubStep(w, a)
        BY <3>3 DEF PubStage, PubUpsert, PubEnqueue, PubReview
      <4> QED
        BY <2>2, <4>1 DEF PubStep
    <3> QED
      BY ONLY <2>4, <3>1, <3>2, <3>3 DEF Publication
  <2>5. ASSUME NEW w \in Thread, PubFault(w) PROVE NoRead
    <3>1. pub' = [pub EXCEPT ![w] = NoPub]
      BY <2>5 DEF PubFault, ByHand
    <3> QED
      BY <2>3, <3>1
  <2>6. ASSUME NEW w \in Thread, NEW c \in Candidates, TakeDocument(w, c) PROVE NoRead
    BY <2>1, <2>6 DEF TakeDocument
  <2>7. ASSUME NEW w \in Admins, NEW c \in Candidates, AdminPublish(w, c) \/ AdminReject(w, c)
        PROVE  NoRead
    <3>1. PICK a \in {"stage", "reject"} : Become(w, a, c)
      BY <2>7 DEF AdminPublish, AdminReject
    <3>2. pub'[w].at = a /\ \A v \in Thread \ {w} : pub'[v] = pub[v]
      BY <1>0, <3>1 DEF Become, NoPub
    <3> QED
      BY <3>2 DEF ByHand
  <2>8. CASE Crash
    BY <1>0, <2>8 DEF Crash
  <2> QED
    BY ONLY <2>1, <2>4, <2>5, <2>6, <2>7, <2>8, TaskFrame, [Next]_vars
       DEF Next, Loop, Run, Pass, Tick, NextDue, RunNow, MarkRunning, Crawl, Published,
           DocumentsDone, SettleSource, CrawlFault, vars, pubVars
<1> QED
  BY <1>1, <1>2 DEF ByHand

\* Who is at a review of the candidate.
Reviewing(w, c) == pub[w].at # "idle" /\ pub[w].cand = c

\* What it is about to write agrees with what is written.
Agrees(w, c) ==
  /\ cand[c].status # "none"
  /\ pub[w].at \in {"stage", "upsert", "enqueue", "review", "reject"} =>
       cand[c].status = "pending_review"
  /\ pub[w].at = "note" => cand[c].status = "published"

\* Unless two reviews of a candidate met there is one at most, and it agrees.
Single(c) ==
  /\ \A v, w \in Thread : Reviewing(v, c) /\ Reviewing(w, c) => v = w
  /\ \A w \in Thread : Reviewing(w, c) => Agrees(w, c)
SingleInv == \A c \in Candidates \ contested : Single(c)

\* A thread that has the candidate to itself need only agree ...
LEMMA AgreesAlone ==
  ASSUME NEW c \in Candidates, NEW w \in Thread,
         \A v \in Thread \ {w} : pub'[v] = pub[v] /\ ~Reviewing(v, c),
         Reviewing(w, c)' => Agrees(w, c)'
  PROVE  Single(c)'
<1>1. \A v \in Thread \ {w} : ~Reviewing(v, c)'
  BY DEF Reviewing
<1> QED
  BY <1>1 DEF Single

\* ... and one that turns to another candidate, or to none, disturbs nobody.
LEMMA AgreesElsewhere ==
  ASSUME NEW c \in Candidates, Single(c), cand'[c] = cand[c], NEW w \in Thread,
         \A v \in Thread \ {w} : pub'[v] = pub[v], ~Reviewing(w, c)'
  PROVE  Single(c)'
<1>1. \A v \in Thread : Reviewing(v, c)' => Reviewing(v, c) /\ pub'[v] = pub[v]
  BY DEF Reviewing
<1>2. \A v \in Thread : Reviewing(v, c)' => Agrees(v, c)'
  BY <1>1 DEF Single, Agrees
<1>3. \A v, x \in Thread : Reviewing(v, c)' /\ Reviewing(x, c)' => v = x
  BY <1>1 DEF Single
<1> QED
  BY <1>2, <1>3 DEF Single

\* A review reads the status before it writes it, and has the candidate to itself
\* until another one begins, which contests it.
LEMMA SingleStep ==
  ASSUME TypeOK, Busy, Apart, SingleInv, [Next]_vars
  PROVE  SingleInv'
<1>0. /\ pub \in [Thread -> Pub] /\ cand \in [Candidates -> Candidate] /\ Admins \subseteq Thread
      /\ NoPub.at = "idle"
  BY DEF TypeOK, Thread, NoPub
<1>1. CASE UNCHANGED <<pub, cand, contested>>
  BY <1>1 DEF SingleInv, Single, Reviewing, Agrees
\* A thread goes on with its candidate, or leaves it.
<1>2. ASSUME NEW w \in Thread, pub[w].at # "idle", UNCHANGED contested,
             \A v \in Thread \ {w} : pub'[v] = pub[v],
             pub'[w].at = "idle" \/ pub'[w].cand = pub[w].cand,
             \A c \in Candidates \ {pub[w].cand} : cand'[c] = cand[c],
             LET d == pub[w].cand IN
               Agrees(w, d) /\ pub'[w].at # "idle" => Agrees(w, d)'
      PROVE  SingleInv'
  <2> SUFFICES ASSUME NEW c \in Candidates \ contested PROVE Single(c)'
    BY <1>2 DEF SingleInv
  <2>0. Single(c)
    BY DEF SingleInv
  <2>1. CASE c = pub[w].cand
    <3>1. Reviewing(w, c) /\ (Reviewing(w, c)' => pub'[w].at # "idle")
      BY <1>2, <2>1 DEF Reviewing
    <3>2. Agrees(w, c) /\ \A v \in Thread \ {w} : ~Reviewing(v, c)
      BY <2>0, <3>1 DEF Single
    <3> QED
      BY <1>2, <2>1, <3>1, <3>2, AgreesAlone
  <2>2. CASE c # pub[w].cand
    <3>1. ~Reviewing(w, c)' /\ cand'[c] = cand[c]
      BY <1>2, <2>2 DEF Reviewing
    <3> QED
      BY <1>2, <2>0, <3>1, AgreesElsewhere
  <2> QED
    BY <2>1, <2>2
\* A thread begins with a candidate, which others contest.
<1>3. ASSUME NEW w \in Thread, NEW d \in Candidates, pub[w].at = "idle", Meets(w, d),
             \A v \in Thread \ {w} : pub'[v] = pub[v], pub'[w].cand = d,
             \A c \in Candidates \ {d} : cand'[c] = cand[c], Agrees(w, d)'
      PROVE  SingleInv'
  <2> SUFFICES ASSUME NEW c \in Candidates \ contested' PROVE Single(c)'
    BY DEF SingleInv
  <2>0. Single(c)
    BY <1>3 DEF SingleInv, Meets
  <2>1. CASE c = d
    <3>1. \A v \in Thread \ {w} : ~Reviewing(v, c)
      BY <1>3, <2>1 DEF Meets, Reviewing
    <3> QED
      BY <1>3, <2>1, <3>1, AgreesAlone
  <2>2. CASE c # d
    <3>1. ~Reviewing(w, c)'
      BY <1>3, <2>2 DEF Reviewing
    <3> QED
      BY <1>3, <2>0, <2>2, <3>1, AgreesElsewhere
  <2> QED
    BY <2>1, <2>2
<1>4. ASSUME NEW w \in Thread, NEW c \in Candidates, TakeDocument(w, c) PROVE SingleInv'
  <2>1. /\ pub[w].at = "idle" /\ cand' = [cand EXCEPT ![c] = Proposed(c)]
        /\ Proposed(c).status # "none"
        /\ cand[c].status # "none" => Proposed(c) = cand[c]
    BY <1>4 DEF TakeDocument, Apart, Proposed
  <2>2. \A e \in Candidates \ {c} : cand'[e] = cand[e]
    BY <1>0, <2>1
  <2>3. cand'[c] = Proposed(c)
    BY <1>0, <2>1
  <2>4. CASE AutoPublish
    <3>1. /\ pub' = [pub EXCEPT ![w] = [at |-> "read", cand |-> c, linked |-> Proposed(c).linked]]
          /\ Meets(w, c)
      BY <1>4, <2>4 DEF TakeDocument
    <3>2. pub'[w].at = "read" /\ pub'[w].cand = c /\ \A v \in Thread \ {w} : pub'[v] = pub[v]
      BY <1>0, <3>1
    <3>3. Agrees(w, c)'
      BY <2>1, <2>3, <3>2 DEF Agrees
    <3> QED
      BY <1>3, <2>1, <2>2, <3>1, <3>2, <3>3
  <2>5. CASE ~AutoPublish
    <3>1. UNCHANGED <<pub, contested>>
      BY <1>4, <2>5 DEF TakeDocument
    <3> SUFFICES ASSUME NEW e \in Candidates \ contested PROVE Single(e)'
      BY <3>1 DEF SingleInv
    <3>2. Single(e)
      BY DEF SingleInv
    <3>3. CASE cand'[e] = cand[e]
      BY <3>1, <3>2, <3>3 DEF Single, Reviewing, Agrees
    <3>4. CASE cand'[e] # cand[e]
      <4>1. cand[e].status = "none"
        BY <2>1, <2>2, <2>3, <3>4
      <4>2. \A v \in Thread : ~Reviewing(v, e)
        BY <3>2, <4>1 DEF Single, Agrees
      <4> QED
        BY <3>1, <4>2 DEF Single, Reviewing
    <3> QED
      BY <3>3, <3>4
  <2> QED
    BY <2>4, <2>5
<1>5. ASSUME NEW w \in Admins, NEW c \in Candidates, AdminPublish(w, c) \/ AdminReject(w, c)
      PROVE  SingleInv'
  <2>1. /\ pub[w].at = "idle" /\ cand[c].status = "pending_review" /\ UNCHANGED cand
        /\ Meets(w, c) /\ w \in Thread
    BY <1>0, <1>5 DEF AdminPublish, AdminReject, Idle
  <2>2. PICK a \in {"stage", "reject"} : Become(w, a, c)
    BY <1>5 DEF AdminPublish, AdminReject
  <2>3. pub'[w].at = a /\ pub'[w].cand = c /\ \A v \in Thread \ {w} : pub'[v] = pub[v]
    BY <1>0, <2>2 DEF Become, NoPub
  <2>4. Agrees(w, c)'
    BY <2>1, <2>3 DEF Agrees
  <2> QED
    BY <1>3, <2>1, <2>3, <2>4
<1>6. ASSUME NEW w \in Thread, Publication(w) \/ PubFault(w) PROVE SingleInv'
  <2> DEFINE d == pub[w].cand
  <2>1. pub[w].at # "idle" /\ UNCHANGED contested
    BY <1>6 DEF Publication, PubFault, PubRead, PubStage, PubUpsert, PubEnqueue, PubReview, PubNote,
       RejectWrite, GiveUp, PubAt
  <2>2. d \in Candidates
    BY <2>1 DEF Busy
  <2>3. ASSUME NEW a, PubStep(w, a)
        PROVE  /\ pub'[w].at = a /\ pub'[w].cand = d
               /\ \A v \in Thread \ {w} : pub'[v] = pub[v]
    BY <1>0, <2>3 DEF PubStep, Pub
  <2>4. ASSUME NEW st, NEW l, Review(d, st, l)
        PROVE  cand'[d].status = st /\ \A c \in Candidates \ {d} : cand'[c] = cand[c]
    BY <1>0, <2>2, <2>4 DEF Review
  <2>5. ASSUME pub' = [pub EXCEPT ![w] = NoPub],
               \A c \in Candidates \ {d} : cand'[c] = cand[c]
        PROVE  SingleInv'
    <3>1. pub'[w].at = "idle" /\ \A v \in Thread \ {w} : pub'[v] = pub[v]
      BY <1>0, <2>5
    <3> QED
      BY <1>2, <2>1, <2>5, <3>1
  <2>6. ASSUME NEW a, PubStep(w, a), UNCHANGED cand,
               Agrees(w, d) => LET st == cand[d].status IN
                 /\ a \in {"stage", "upsert", "enqueue", "review", "reject"} => st = "pending_review"
                 /\ a # "note"
        PROVE  SingleInv'
    <3>1. Agrees(w, d) => Agrees(w, d)'
      BY <2>3, <2>6 DEF Agrees
    <3> QED
      BY <1>2, <2>1, <2>3, <2>6, <3>1
  <2>7. CASE PubRead(w)
    <3>1. UNCHANGED cand
      BY <2>7 DEF PubRead
    <3>2. CASE pub' = [pub EXCEPT ![w] = NoPub]
      BY <2>5, <3>1, <3>2
    <3>3. CASE cand[d].status = "pending_review" /\ PubStep(w, "stage")
      BY <2>6, <3>1, <3>3
    <3>4. CASE PubStep(w, "give_up")
      BY <2>6, <3>1, <3>4
    <3> QED
      BY ONLY <2>7, <3>2, <3>3, <3>4 DEF PubRead, GivingUp, PubStep
  <2>8. CASE PubStage(w) \/ PubUpsert(w) \/ PubEnqueue(w)
    <3>1. PICK a \in {"upsert", "enqueue", "review"} : PubStep(w, a)
      BY <2>8 DEF PubStage, PubUpsert, PubEnqueue
    <3>2. pub[w].at \in {"stage", "upsert", "enqueue"} /\ UNCHANGED cand
      BY <2>8 DEF PubStage, PubUpsert, PubEnqueue
    <3>3. Agrees(w, d) => cand[d].status = "pending_review"
      BY <3>2 DEF Agrees
    <3> QED
      BY <2>6, <3>1, <3>2, <3>3
  <2>9. CASE PubReview(w)
    <3>1. PubStep(w, "note") /\ Review(d, "published", TRUE)
      BY <2>9 DEF PubReview
    <3>2. pub'[w].at = "note" /\ pub'[w].cand = d /\ cand'[d].status = "published"
      BY <2>3, <2>4, <3>1
    <3>3. Agrees(w, d)'
      BY <3>2 DEF Agrees
    <3> QED
      BY <1>2, <2>1, <2>3, <2>4, <3>1, <3>3
  <2>10. CASE PubNote(w) \/ RejectWrite(w) \/ GiveUp(w)
    <3>1. pub' = [pub EXCEPT ![w] = NoPub]
      BY <2>10 DEF PubNote, RejectWrite, GiveUp
    <3>2. CASE UNCHANGED cand
      BY <2>5, <3>1, <3>2
    <3>3. ASSUME NEW st, NEW l, Review(d, st, l) PROVE SingleInv'
      BY <2>4, <2>5, <3>1, <3>3
    <3> QED
      BY ONLY <2>10, <3>2, <3>3 DEF PubNote, RejectWrite, GiveUp
  <2>11. CASE PubFault(w)
    <3>1. UNCHANGED cand
      BY <2>11 DEF PubFault
    <3>2. CASE pub' = [pub EXCEPT ![w] = NoPub]
      BY <2>5, <3>1, <3>2
    <3>3. CASE PubStep(w, "give_up")
      BY <2>6, <3>1, <3>3
    <3> QED
      BY ONLY <2>11, <3>2, <3>3 DEF PubFault, GivingUp, PubStep
  <2> QED
    BY ONLY <1>6, <2>7, <2>8, <2>9, <2>10, <2>11 DEF Publication
<1>7. CASE Crash
  BY <1>0, <1>7 DEF Crash, SingleInv, Single, Reviewing
<1> QED
  BY ONLY <1>1, <1>4, <1>5, <1>6, <1>7, TaskFrame, [Next]_vars
     DEF Next, Loop, Run, Pass, Tick, NextDue, RunNow, MarkRunning, Crawl, Published,
         DocumentsDone, SettleSource, CrawlFault, vars, pubVars

\* What a step may do to a candidate that is decided.
Stands ==
  \A c \in Candidates : cand[c].status \in Decided =>
    /\ cand'[c].status \in Decided
    /\ \/ cand'[c].status = cand[c].status
       \/ c \in contested
       \/ AutoPublish /\ cand[c].status = "rejected"

\* A review that has the candidate to itself writes over nothing that is decided
\* but what it has written, or what automatic publication refused.
LEMMA ReviewStep ==
  ASSUME TypeOK, Busy, SingleInv, AutoPublish = FALSE => ByHand, [Next]_vars
  PROVE  Stands
<1>0. cand \in [Candidates -> Candidate] /\ {"published", "rejected"} = Decided
  BY DEF TypeOK, Decided
<1>1. CASE UNCHANGED cand
  BY <1>1 DEF Stands
<1>2. ASSUME NEW w \in Thread, pub[w].at # "idle", NEW st \in Decided, NEW l,
             Review(pub[w].cand, st, l),
             LET d == pub[w].cand IN
               Agrees(w, d) /\ cand[d].status \in Decided =>
                 cand[d].status = st \/ (AutoPublish /\ cand[d].status = "rejected")
      PROVE  Stands
  <2> DEFINE d == pub[w].cand
  <2>1. d \in Candidates
    BY <1>2 DEF Busy
  <2>2. cand'[d].status = st /\ \A c \in Candidates \ {d} : cand'[c] = cand[c]
    BY <1>0, <1>2, <2>1 DEF Review
  <2>3. d \notin contested => Agrees(w, d)
    BY <1>2, <2>1 DEF SingleInv, Single, Reviewing
  <2> HIDE DEF d
  <2>4. d \notin contested /\ cand[d].status \in Decided =>
          cand[d].status = st \/ (AutoPublish /\ cand[d].status = "rejected")
    BY <1>2, <2>3 DEF d
  <2> QED
    BY <1>2, <2>1, <2>2, <2>4 DEF Stands
<1>3. ASSUME NEW w \in Thread, NEW c \in Candidates, TakeDocument(w, c) PROVE Stands
  BY <1>0, <1>3 DEF TakeDocument, Proposed, Stands
<1>4. ASSUME NEW w \in Thread, PubReview(w) \/ RejectWrite(w) PROVE Stands
  <2>1. PICK st \in Decided, l \in BOOLEAN : Review(pub[w].cand, st, l)
    BY <1>0, <1>4 DEF PubReview, RejectWrite
  <2>2. pub[w].at \in {"review", "reject"}
    BY <1>4 DEF PubReview, RejectWrite
  <2>3. Agrees(w, pub[w].cand) => cand[pub[w].cand].status = "pending_review"
    BY <2>2 DEF Agrees
  <2> QED
    BY <1>2, <2>1, <2>2, <2>3 DEF Decided
<1>5. ASSUME NEW w \in Thread, PubNote(w) PROVE Stands
  <2>1. CASE Review(pub[w].cand, "published", TRUE)
    BY <1>0, <1>2, <1>5, <2>1 DEF PubNote, Agrees
  <2> QED
    BY <1>1, <1>5, <2>1 DEF PubNote
<1>6. ASSUME NEW w \in Thread, GiveUp(w) PROVE Stands
  <2>1. pub[w].at = "give_up" /\ Review(pub[w].cand, "published", pub[w].linked)
    BY <1>6 DEF GiveUp
  <2>2. AutoPublish
    BY <2>1 DEF ByHand
  <2> QED
    BY <1>0, <1>2, <2>1, <2>2
<1> QED
  BY ONLY <1>1, <1>3, <1>4, <1>5, <1>6, TaskFrame, [Next]_vars
     DEF Next, Loop, Run, Publication, Pass, Tick, NextDue, RunNow, MarkRunning, Crawl, Published,
         DocumentsDone, SettleSource, CrawlFault, PubRead, AdminPublish, AdminReject, PubStage,
         PubUpsert, PubEnqueue, PubFault, Crash, vars, pubVars

\* Documents are reviewed by hand, by one administrator at a time.
ManualReview == AutoPublish = FALSE /\ \A a, b \in Admins : a = b

\* What is under review is pending until its one reviewer writes.
ReviewInv ==
  /\ \A w \in Thread : job[w].at # "publish" /\ pub[w].at \notin {"read", "give_up"}
  /\ pub["loop"].at = "idle"
  /\ \A w \in Admins :
       /\ pub[w].at \in {"stage", "upsert", "enqueue", "review", "reject"} =>
            cand[pub[w].cand].status = "pending_review"
       /\ pub[w].at = "note" => cand[pub[w].cand] = [status |-> "published", linked |-> TRUE]
  /\ \A c \in Candidates : cand[c].status = "none" => ~cand[c].linked

\* The reviewer is alone with the candidate that is under review: crawls leave
\* the rows they find.
LEMMA ReviewKept ==
  ASSUME TypeOK, Busy, ManualReview, ReviewInv, [Next]_vars
  PROVE  ReviewInv'
<1>0. /\ job \in [Thread -> Job] /\ pub \in [Thread -> Pub] /\ cand \in [Candidates -> Candidate]
      /\ "loop" \in Thread /\ Admins \subseteq Thread \ {"loop"} /\ Thread \subseteq Admins \cup {"loop"}
      /\ NoJob.at = "idle" /\ NoPub.at = "idle"
  BY DEF TypeOK, Thread, NoJob, NoPub
<1> DEFINE NoPublish == \A w \in Thread : job'[w].at # "publish"
\* The crawl goes on without the review.
<1>1. ASSUME NoPublish, UNCHANGED <<pub, cand>> PROVE ReviewInv'
  BY <1>1 DEF ReviewInv
\* The reviewer goes on without writing.
<1>2. ASSUME NEW w \in Admins, UNCHANGED <<job, cand>>,
             \A v \in Thread \ {w} : pub'[v] = pub[v],
             \/ pub'[w].at = "idle"
             \/ /\ pub'[w].at \in {"stage", "upsert", "enqueue", "review", "reject"}
                /\ cand[pub'[w].cand].status = "pending_review"
      PROVE  ReviewInv'
  BY <1>0, <1>2 DEF ReviewInv
<1>3. NoPublish
  BY ByHandStep DEF ReviewInv, ByHand, ManualReview
<1>4. ASSUME NEW w \in Thread, NEW c \in Candidates, TakeDocument(w, c) PROVE ReviewInv'
  <2>1. UNCHANGED pub /\ cand' = [cand EXCEPT ![c] = Proposed(c)]
    BY <1>4 DEF TakeDocument, ManualReview
  <2>2. \A d \in Candidates : /\ cand[d].status # "none" => cand'[d] = cand[d]
                              /\ cand'[d].status # "none" \/ cand'[d] = cand[d]
    BY <1>0, <2>1 DEF Proposed
  <2>3. \A v \in Thread : pub[v].at # "idle" => pub[v].cand \in Candidates
    BY DEF Busy
  <2> QED
    BY <1>0, <1>3, <2>1, <2>2, <2>3 DEF ReviewInv
<1>5. ASSUME NEW w \in Thread, Publication(w) PROVE ReviewInv'
  <2>1. w \in Admins /\ pub[w].cand \in Candidates /\ \A v \in Admins : v = w
    BY <1>0, <1>5 DEF Publication, PubRead, PubStage, PubUpsert, PubEnqueue, PubReview, PubNote,
       RejectWrite, GiveUp, ReviewInv, Busy, ManualReview
  <2>2. ASSUME NEW a \in {"upsert", "enqueue", "review"}, PubStep(w, a), UNCHANGED <<job, cand>>,
               pub[w].at \in {"stage", "upsert", "enqueue"}
        PROVE  ReviewInv'
    <3>1. pub'[w].at = a /\ pub'[w].cand = pub[w].cand /\ \A v \in Thread \ {w} : pub'[v] = pub[v]
      BY <1>0, <2>1, <2>2 DEF PubStep, Pub
    <3> QED
      BY <1>2, <2>1, <2>2, <3>1 DEF ReviewInv
  <2>3. CASE PubStage(w) \/ PubUpsert(w) \/ PubEnqueue(w)
    BY ONLY <2>2, <2>3 DEF PubStage, PubUpsert, PubEnqueue, crawlVars
  <2>4. CASE PubReview(w)
    <3>1. cand' = [cand EXCEPT ![pub[w].cand] = [status |-> "published", linked |-> TRUE]]
      BY <2>4 DEF PubReview, Review
    <3>2. /\ pub'[w].at = "note" /\ pub'[w].cand = pub[w].cand
          /\ \A v \in Thread \ {w} : pub'[v] = pub[v]
      BY <1>0, <2>1, <2>4 DEF PubReview, PubStep, Pub
    <3> QED
      BY <1>0, <1>3, <2>1, <3>1, <3>2 DEF ReviewInv
  <2>5. CASE PubNote(w) \/ RejectWrite(w)
    <3>1. /\ pub'[w].at = "idle" /\ \A v \in Thread \ {w} : pub'[v] = pub[v]
      BY <1>0, <2>5 DEF PubNote, RejectWrite
    <3>2. \A c \in Candidates : cand'[c].status = "none" => ~cand'[c].linked
      <4>1. CASE UNCHANGED cand
        BY <4>1 DEF ReviewInv
      <4>2. ASSUME NEW s \in {"published", "rejected"}, NEW l, Review(pub[w].cand, s, l)
            PROVE  \A c \in Candidates : cand'[c].status = "none" => ~cand'[c].linked
        BY <1>0, <4>2 DEF Review, ReviewInv
      <4> QED
        BY ONLY <2>5, <4>1, <4>2 DEF PubNote, RejectWrite
    <3> QED
      BY <1>0, <1>3, <2>1, <3>1, <3>2 DEF ReviewInv
  <2>6. ~PubRead(w) /\ ~GiveUp(w)
    BY DEF PubRead, GiveUp, ReviewInv
  <2> QED
    BY ONLY <1>5, <2>3, <2>4, <2>5, <2>6 DEF Publication
<1>6. ASSUME NEW w \in Admins, NEW c \in Candidates, AdminPublish(w, c) \/ AdminReject(w, c)
      PROVE  ReviewInv'
  <2>1. PICK a \in {"stage", "reject"} : Become(w, a, c)
    BY <1>6 DEF AdminPublish, AdminReject
  <2>2. cand[c].status = "pending_review" /\ UNCHANGED <<job, cand>>
    BY <1>6 DEF AdminPublish, AdminReject, crawlVars
  <2>3. pub'[w].at = a /\ pub'[w].cand = c /\ \A v \in Thread \ {w} : pub'[v] = pub[v]
    BY <1>0, <2>1 DEF Become, NoPub
  <2> QED
    BY <1>2, <2>2, <2>3
<1>7. ASSUME NEW w \in Thread, PubFault(w) PROVE ReviewInv'
  <2>1. pub' = [pub EXCEPT ![w] = NoPub] /\ UNCHANGED <<job, cand>> /\ pub[w].at # "idle"
    BY <1>7 DEF PubFault, ReviewInv
  <2>2. w \in Admins
    BY <1>0, <2>1 DEF ReviewInv
  <2> QED
    BY <1>0, <1>2, <2>1, <2>2
<1>8. CASE Crash
  BY <1>0, <1>8 DEF Crash, ReviewInv
<1> QED
  BY ONLY <1>1, <1>3, <1>4, <1>5, <1>6, <1>7, <1>8, TaskFrame, [Next]_vars
     DEF Next, Loop, Run, Pass, Tick, NextDue, RunNow, MarkRunning, Crawl, Published,
         DocumentsDone, SettleSource, CrawlFault, vars, crawlVars, pubVars

\* Each write of a candidate is a proposal, a decision or says what is said.
LEMMA PromiseStep ==
  ASSUME TypeOK, Busy, ManualReview, ReviewInv, [Next]_vars
  PROVE  [Promise!ReviewNext]_(Promise!reviewVars)
<1>0. cand \in [Candidates -> Candidate]
  BY DEF TypeOK
<1>1. CASE UNCHANGED cand
  BY <1>1 DEF Promise!reviewVars
<1>2. ASSUME NEW w \in Thread, NEW c \in Candidates, TakeDocument(w, c)
      PROVE  [Promise!ReviewNext]_(Promise!reviewVars)
  <2>1. cand' = [cand EXCEPT ![c] = Proposed(c)]
    BY <1>2 DEF TakeDocument
  <2>2. CASE cand[c].status = "none"
    <3>1. Promise!Propose(c)
      BY <1>0, <2>1, <2>2 DEF Promise!Propose, Proposed, ReviewInv, Candidate
    <3> QED
      BY <3>1 DEF Promise!ReviewNext
  <2>3. CASE cand[c].status # "none"
    <3>1. UNCHANGED cand
      BY <1>0, <2>1, <2>3 DEF Proposed
    <3> QED
      BY <1>1, <3>1
  <2> QED
    BY <2>2, <2>3
<1>3. ASSUME NEW c \in Candidates, NEW d \in {"published", "rejected"},
             cand[c].status = "pending_review", Review(c, d, d = "published")
      PROVE  [Promise!ReviewNext]_(Promise!reviewVars)
  <2>1. Promise!Decide(c, d)
    BY <1>0, <1>3 DEF Promise!Decide, Review
  <2> QED
    BY <2>1 DEF Promise!ReviewNext, Promise!Decision
<1>4. ASSUME NEW w \in Thread, PubReview(w) \/ RejectWrite(w)
      PROVE  [Promise!ReviewNext]_(Promise!reviewVars)
  <2>1. pub[w].cand \in Candidates /\ cand[pub[w].cand].status = "pending_review"
    BY <1>4 DEF PubReview, RejectWrite, ReviewInv, Busy, Thread
  <2> QED
    BY <1>3, <1>4, <2>1 DEF PubReview, RejectWrite
<1>5. ASSUME NEW w \in Thread, PubNote(w) PROVE UNCHANGED cand
  <2>1. cand[pub[w].cand] = [status |-> "published", linked |-> TRUE]
    BY <1>5 DEF PubNote, ReviewInv, Thread
  <2> QED
    BY <1>0, <1>5, <2>1 DEF PubNote, Review
<1>6. ASSUME NEW w \in Thread PROVE ~GiveUp(w)
  BY DEF GiveUp, ReviewInv
<1> QED
  BY ONLY <1>1, <1>2, <1>4, <1>5, <1>6, TaskFrame, [Next]_vars
     DEF Next, Loop, Run, Publication, Pass, Tick, NextDue, RunNow, MarkRunning, Crawl, Published,
         DocumentsDone, SettleSource, CrawlFault, PubRead, AdminPublish, AdminReject, PubStage,
         PubUpsert, PubEnqueue, PubFault, Crash, vars, pubVars

-----------------------------------------------------------------------------
(* Theorems *)

PolicyInv ==
  /\ TypeOK /\ Busy /\ AtWork /\ LockInv /\ RunningWaits /\ Apart /\ LibraryInv
  /\ SingleInv
  /\ AutoPublish = FALSE => ByHand
  /\ ManualReview => ReviewInv

\* Nothing runs, waits or is indexed at the start.
LEMMA PolicyInit == Init => PolicyInv
<1> SUFFICES ASSUME Init PROVE PolicyInv
  OBVIOUS
<1>1. /\ "loop" \in Thread /\ NoJob \in Job /\ NoPub \in Pub
      /\ NoJob.at = "idle" /\ NoPub.at = "idle" /\ NoJob.due = {} /\ NoJob.src = NoSource
  BY JobTyped, PubTyped DEF Thread, NoJob, NoPub
<1>2. TypeOK
  <2>1. [status |-> "none", wait |-> 0] \in Row /\ [status |-> "none", linked |-> FALSE] \in Candidate
        /\ [stage |-> "absent", hash |-> None] \in Item
    BY DEF Row, Candidate, Item, Status
  <2> QED
    BY <1>1, <2>1 DEF Init, TypeOK, NoWork, Work, WorkAt
<1>3. Busy /\ AtWork /\ Apart /\ RunningWaits /\ SingleInv /\ ByHand
  BY <1>1 DEF Init, Busy, AtWork, NoWork, Apart, RunningWaits, SingleInv, Single, Reviewing, ByHand
<1>4. LockInv
  BY <1>1 DEF Init, LockInv, StillDue
<1>5. LibraryInv
  BY <1>1 DEF Init, LibraryInv, Follows, Even, On, NoWork, Between, Url
<1>6. ReviewInv
  BY <1>1 DEF Init, ReviewInv, Thread
<1> QED
  BY <1>2, <1>3, <1>4, <1>5, <1>6 DEF PolicyInv

\* The invariants together are inductive.
LEMMA PolicyStep == PolicyInv /\ [Next]_vars => PolicyInv'
  BY BusyStep, AtWorkStep, Typed, LockStep, WaitStep, ApartStep, LibraryStep, SingleStep,
     ByHandStep, ReviewKept DEF PolicyInv, ManualReview

\* They hold always.
LEMMA PolicyAlways == Spec => []PolicyInv
  BY PolicyInit, PolicyStep, PTL DEF Spec

\* Nobody crawls while another thread does, and what the loop has still to crawl is
\* due when its turn comes, whoever runs sources by hand, fails or restarts
\* (run_due_sources_once, _run_lock).
THEOREM TickStaysCurrent == Spec => []TickIsCurrent
<1>1. PolicyInv => TickIsCurrent
  BY DEF PolicyInv, LockInv, StillDue, TickIsCurrent
<1> QED
  BY <1>1, PolicyAlways, PTL

\* A run cut short leaves its source due (create_run clears next_run_at).
THEOREM InterruptedStaysDue == Spec => []InterruptedIsDue
<1>1. PolicyInv => InterruptedIsDue
  BY DEF PolicyInv, RunningWaits, InterruptedIsDue
<1> QED
  BY <1>1, PolicyAlways, PTL

\* For any number of sources, versions, reviewers and workers, whatever a task and
\* a publication of its URL do in between each other: what is marked indexed is what
\* was published last, or a task is to come that will index it.
THEOREM LibraryKeepsUp == Spec => []LibraryFollowsReview
<1>1. PolicyInv => LibraryFollowsReview
  BY DEF PolicyInv, LibraryInv, Follows, Even, LibraryFollowsReview
<1> QED
  BY <1>1, PolicyAlways, PTL

\* A decision on a document stays a decision, and the same one unless two reviews
\* of it met or automatic publication met a rejected document.
THEOREM ReviewStays == Spec => ReviewIsKept
<1>1. PolicyInv /\ [Next]_vars => [Stands]_vars
  BY ReviewStep DEF PolicyInv
<1>2. [Stands]_vars => [\A c \in Candidates : cand[c].status \in Decided =>
        /\ cand'[c].status \in Decided
        /\ \/ cand'[c].status = cand[c].status
           \/ c \in contested
           \/ AutoPublish /\ cand[c].status = "rejected"]_vars
  BY DEF Stands
<1> QED
  BY <1>1, <1>2, PolicyAlways, PTL DEF Spec, ReviewIsKept

\* Reviewed by hand by one administrator, the crawler implements PolicyReview:
\* one decision per document, and a published one names its item.
THEOREM ReviewPromiseKept == ManualReview => (Spec => KeepsPromise)
<1> SUFFICES ASSUME ManualReview PROVE Spec => KeepsPromise
  OBVIOUS
<1>1. Init => Promise!ReviewInit
  BY DEF Init, Promise!ReviewInit
<1>2. PolicyInv /\ [Next]_vars => [Promise!ReviewNext]_(Promise!reviewVars)
  BY PromiseStep DEF PolicyInv
<1> QED
  BY <1>1, <1>2, PolicyAlways, PTL DEF Spec, KeepsPromise, Promise!ReviewSpec
=============================================================================
