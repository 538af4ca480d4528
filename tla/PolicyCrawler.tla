---------------------------- MODULE PolicyCrawler ---------------------------
(***************************************************************************)
(* The policy crawler: the scheduler's loop and the administrators' runs,  *)
(* one at a time under _run_lock; what a run does with the documents it    *)
(* brings; the review of a candidate; and its way into the library.        *)
(*                                                                         *)
(* A thread is the loop or a request of an administrator.  A step is a     *)
(* statement of the store (its own transaction) or a file written.  Time   *)
(* is counted down: wait is what is left until next_run_at, 0 when it has  *)
(* passed or is NULL.  A candidate stands for its contents: candidate_id   *)
(* is a hash of source, URL and contents.  Of the knowledge tasks there    *)
(* are those of the crawler, counted by URL; a worker is whoever drains    *)
(* the queue: the runner, or a request that has just published.            *)
(***************************************************************************)
EXTENDS Naturals, FiniteSets

CONSTANTS
  Sources,      \* number of seeded sources, crawled in the order of source_seq
  Candidates,   \* documents the sites have, on topic and on the allowlist
  SourceOf,     \* the source that finds a document
  UrlOf,        \* its URL: two candidates with one URL are two versions
  Admins,       \* request threads of administrators
  Workers,      \* threads that process tasks
  AutoPublish,  \* rag_policy_live_crawler_auto_publish
  Interval,     \* rag_policy_live_crawler_interval_seconds
  Backoff,      \* rag_policy_live_crawler_failure_backoff_seconds
  MaxManual,    \* bound: runs started by hand
  MaxFaults     \* bound: crashes and uncaught exceptions

ASSUME PolicyCrawlerAssumption ==
  /\ Sources \in Nat \ {0}
  /\ SourceOf \in [Candidates -> 1..Sources]
  /\ DOMAIN UrlOf = Candidates
  /\ AutoPublish \in BOOLEAN
  /\ Interval \in Nat \ {0} /\ Backoff \in 1..Interval
  /\ MaxManual \in Nat /\ MaxFaults \in Nat
  /\ "loop" \notin Admins
  /\ IsFiniteSet(Workers)

Source   == 1..Sources
NoSource == 0
Url      == {UrlOf[c] : c \in Candidates}
Thread   == Admins \cup {"loop"}
None     == "none"
ASSUME NoneAssumption == None \notin Candidates /\ None \notin Thread

RunStatus == {"running", "succeeded", "failed"}  \* disabled, unavailable, rejected: as failed
Status    == {"none", "pending_review", "published", "rejected"}

VARIABLES
  lock,      \* _run_lock: the thread that holds it, or None
  source,    \* policy_crawl_sources: last_run_status and next_run_at
  cand,      \* policy_crawl_candidates: status, and whether knowledge_item_id is set
  job,       \* the crawl each thread is in
  pub,       \* the publication or rejection each thread is in
  staged,    \* the file staged for a URL: the candidate whose contents it has
  item,      \* knowledge_items of the URL: stage, and the candidate of source_hash
  indexed,   \* the contents the chunks of the item were made from
  queued,    \* crawl_ingest tasks of the item that wait
  lost,      \* those an exception left running, until the next start
  work,      \* the task each worker processes
  sleep,     \* what the loop has left to wait
  manual,    \* runs started by hand so far
  faults,    \* crashes and exceptions so far
  hurt,      \* history: URLs of a publication broken off, or of two publications
             \* or two tasks at once
  contested  \* history: candidates under two reviews at once

crawlVars == <<lock, source, job, sleep, manual>>
pubVars   == <<cand, pub, contested>>
libVars   == <<staged, item, indexed, queued, lost, work, hurt>>
vars      == <<crawlVars, pubVars, libVars, faults>>

JobAt == {"idle", "next", "mark", "crawl", "documents", "publish", "settle"}
PubAt == {"idle", "read", "stage", "upsert", "enqueue", "review", "note", "reject",
          "give_up"}
WorkAt == {"idle", "mark", "parse", "replace", "index", "finish", "fail", "failed"}

Job == [at   : JobAt,
        due  : SUBSET Source,            \* sources the tick has still to crawl
        src  : Source \cup {NoSource},   \* the source being crawled
        todo : SUBSET Candidates,        \* documents brought and not yet handled
        ok   : BOOLEAN]                  \* no error so far
Pub == [at : PubAt, cand : Candidates \cup {None}, linked : BOOLEAN]
Work == [at : WorkAt, url : Url \cup {None}, doc : Candidates \cup {None}]
Row == [status : RunStatus \cup {"none"}, wait : 0..Interval]
Candidate == [status : Status, linked : BOOLEAN]
Item == [stage : {"absent", "waiting", "indexed", "failed"},
         hash : Candidates \cup {None}]

NoJob == [at |-> "idle", due |-> {}, src |-> NoSource, todo |-> {}, ok |-> TRUE]
NoPub == [at |-> "idle", cand |-> None, linked |-> FALSE]
NoWork == [at |-> "idle", url |-> None, doc |-> None]

Init ==
  /\ lock = None
  /\ source = [s \in Source |-> [status |-> "none", wait |-> 0]]
  /\ cand = [c \in Candidates |-> [status |-> "none", linked |-> FALSE]]
  /\ job = [w \in Thread |-> NoJob]
  /\ pub = [w \in Thread |-> NoPub]
  /\ staged = [u \in Url |-> None]
  /\ item = [u \in Url |-> [stage |-> "absent", hash |-> None]]
  /\ indexed = [u \in Url |-> None]
  /\ queued = [u \in Url |-> 0] /\ lost = [u \in Url |-> 0]
  /\ work = [k \in Workers |-> NoWork]
  /\ sleep = Interval
  /\ manual = 0 /\ faults = 0 /\ hurt = {} /\ contested = {}

Idle(w) == job[w].at = "idle" /\ pub[w].at = "idle"

-----------------------------------------------------------------------------
(* Who crawls, and which source *)

Pass ==
  /\ sleep > 0 \/ \E s \in Source : source[s].wait > 0
  /\ sleep' = IF sleep > 0 THEN sleep - 1 ELSE 0
  /\ source' = [s \in Source |->
        [source[s] EXCEPT !.wait = IF @ > 0 THEN @ - 1 ELSE 0]]
  /\ UNCHANGED <<lock, job, manual, pubVars, libVars, faults>>

\* The loop wakes up: without the lock it skips this turn.
Tick ==
  /\ Idle("loop") /\ sleep = 0
  /\ IF lock = None
     THEN /\ lock' = "loop"
          /\ job' = [job EXCEPT !["loop"] = [NoJob EXCEPT !.at = "next",
                       !.due = {s \in Source : source[s].wait = 0}]]
          /\ UNCHANGED sleep
     ELSE sleep' = Interval /\ UNCHANGED <<lock, job>>
  /\ UNCHANGED <<source, manual, pubVars, libVars, faults>>

\* run_due_sources_once takes the sources in their order, then lets go.
NextDue ==
  LET due == job["loop"].due
  IN /\ job["loop"].at = "next"
     /\ \/ /\ due = {}
           /\ lock' = None /\ sleep' = Interval
           /\ job' = [job EXCEPT !["loop"] = NoJob]
        \/ \E s \in due :
           /\ \A r \in due : s <= r
           /\ job' = [job EXCEPT !["loop"] = [@ EXCEPT !.at = "mark", !.src = s,
                                                     !.due = due \ {s}]]
           /\ UNCHANGED <<lock, sleep>>
     /\ UNCHANGED <<source, manual, pubVars, libVars, faults>>

\* Mutant of RunNow: the lock is not asked for.
RunNowAnyway(w, s) ==
  /\ Idle(w) /\ manual < MaxManual
  /\ lock' = w /\ manual' = manual + 1
  /\ job' = [job EXCEPT ![w] = [NoJob EXCEPT !.at = "mark", !.src = s]]
  /\ UNCHANGED <<source, sleep, pubVars, libVars, faults>>

RunNow(w, s) ==
  /\ Idle(w) /\ manual < MaxManual
  /\ lock = None
  /\ lock' = w /\ manual' = manual + 1
  /\ job' = [job EXCEPT ![w] = [NoJob EXCEPT !.at = "mark", !.src = s]]
  /\ UNCHANGED <<source, sleep, pubVars, libVars, faults>>

-----------------------------------------------------------------------------
(* One run: create_run, the provider, the documents, finish_run *)

Step(w, to) == job' = [job EXCEPT ![w].at = to]

\* Mutant of MarkRunning: next_run_at is set when the run begins.
MarkRunningLater(w) ==
  /\ job[w].at = "mark"
  /\ source' = [source EXCEPT ![job[w].src] = [status |-> "running", wait |-> Interval]]
  /\ Step(w, "crawl")
  /\ UNCHANGED <<lock, sleep, manual, pubVars, libVars, faults>>

MarkRunning(w) ==
  /\ job[w].at = "mark"
  /\ source' = [source EXCEPT ![job[w].src] = [status |-> "running", wait |-> 0]]
  /\ Step(w, "crawl")
  /\ UNCHANGED <<lock, sleep, manual, pubVars, libVars, faults>>

\* The provider fails, or brings some documents; what is off topic or off the
\* allowlist is dropped, and all of it dropped is an error, as one off the list is.
Crawl(w) ==
  /\ job[w].at = "crawl"
  /\ \/ job' = [job EXCEPT ![w] = [@ EXCEPT !.at = "settle", !.ok = FALSE]]
     \/ \E D \in SUBSET {c \in Candidates : SourceOf[c] = job[w].src}, ok \in BOOLEAN :
          job' = [job EXCEPT ![w] = [@ EXCEPT !.at = "documents", !.todo = D, !.ok = ok]]
  /\ UNCHANGED <<lock, source, sleep, manual, pubVars, libVars, faults>>

\* Mutant of Proposed: a document seen again waits for review again.
ProposedAgain(c) == [cand[c] EXCEPT !.status = "pending_review"]

\* upsert_candidate leaves the status of a row that is there.
Proposed(c) ==
  IF cand[c].status = "none" THEN [status |-> "pending_review", linked |-> FALSE] ELSE cand[c]

\* A review that begins while another one of the candidate goes on contests it.
Meets(w, c) ==
  contested' = IF \E v \in Thread \ {w} : pub[v].at # "idle" /\ pub[v].cand = c
               THEN contested \cup {c} ELSE contested

\* The file and the row; with auto_publish, publish_candidate comes next.
TakeDocument(w, c) ==
  /\ job[w].at = "documents" /\ c \in job[w].todo
  /\ cand' = [cand EXCEPT ![c] = Proposed(c)]
  /\ job' = [job EXCEPT ![w] = [@ EXCEPT !.todo = job[w].todo \ {c},
                        !.at = IF AutoPublish THEN "publish" ELSE "documents"]]
  /\ IF AutoPublish
     THEN /\ pub' = [pub EXCEPT ![w] =
                       [at |-> "read", cand |-> c, linked |-> Proposed(c).linked]]
          /\ Meets(w, c)
     ELSE UNCHANGED <<pub, contested>>
  /\ UNCHANGED <<lock, source, sleep, manual, libVars, faults>>

\* publish_candidate has returned, or its failure has been written down.
Published(w) ==
  /\ job[w].at = "publish" /\ pub[w].at = "idle"
  /\ Step(w, "documents")
  /\ UNCHANGED <<lock, source, sleep, manual, pubVars, libVars, faults>>

DocumentsDone(w) ==
  /\ job[w].at = "documents" /\ job[w].todo = {}
  /\ Step(w, "settle")
  /\ UNCHANGED <<lock, source, sleep, manual, pubVars, libVars, faults>>

\* The lock is released by finally; the loop goes on with the sources due.
After(w) ==
  IF w = "loop"
  THEN /\ job' = [job EXCEPT ![w] = [NoJob EXCEPT !.at = "next", !.due = job[w].due]]
       /\ UNCHANGED lock
  ELSE job' = [job EXCEPT ![w] = NoJob] /\ lock' = None

\* Mutant of SettleSource: the backoff of a failure is added to the interval.
SettleSourceLate(w) ==
  /\ job[w].at = "settle"
  /\ \E d \in 0 .. IF job[w].ok THEN Interval ELSE Interval + Backoff :
       source' = [source EXCEPT ![job[w].src] =
                    [status |-> IF job[w].ok THEN "succeeded" ELSE "failed", wait |-> d]]
  /\ After(w)
  /\ UNCHANGED <<sleep, manual, pubVars, libVars, faults>>

\* next_run_at was computed before the documents: some of it may have gone by.
SettleSource(w) ==
  /\ job[w].at = "settle"
  /\ \E d \in 0 .. IF job[w].ok THEN Interval ELSE Backoff :
       source' = [source EXCEPT ![job[w].src] =
                    [status |-> IF job[w].ok THEN "succeeded" ELSE "failed", wait |-> d]]
  /\ After(w)
  /\ UNCHANGED <<sleep, manual, pubVars, libVars, faults>>

\* Mutant of CrawlFault: the lock is kept when a run raises.
CrawlFaultKeepsLock(w) ==
  /\ job[w].at \in JobAt \ {"idle", "publish"} /\ faults < MaxFaults
  /\ job' = [job EXCEPT ![w] = NoJob]
  /\ sleep' = IF w = "loop" THEN Interval ELSE sleep
  /\ faults' = faults + 1
  /\ UNCHANGED <<lock, source, manual, pubVars, libVars>>

\* An exception of _run_source (a payload that does not decode, the database):
\* the run stays open, and the tick leaves the other sources.
CrawlFault(w) ==
  /\ job[w].at \in JobAt \ {"idle", "publish"} /\ faults < MaxFaults
  /\ lock' = None
  /\ job' = [job EXCEPT ![w] = NoJob]
  /\ sleep' = IF w = "loop" THEN Interval ELSE sleep
  /\ faults' = faults + 1
  /\ UNCHANGED <<source, manual, pubVars, libVars>>

-----------------------------------------------------------------------------
(* The review: publish_candidate and reject_candidate *)

PubStep(w, to) == pub' = [pub EXCEPT ![w].at = to]

Become(w, at, c) == pub' = [pub EXCEPT ![w] = [NoPub EXCEPT !.at = at, !.cand = c]]

\* publish_candidate raised inside _run_source, which marks the row published all
\* the same, with the knowledge_item_id it read before.
GivingUp(w) ==
  /\ pub' = [pub EXCEPT ![w].at = "give_up"]
  /\ job' = [job EXCEPT ![w].ok = FALSE]

\* The publication of a run reads the row: only a pending one goes on.
PubRead(w) ==
  LET status == cand[pub[w].cand].status
  IN /\ pub[w].at = "read"
     /\ \/ status = "published" /\ pub' = [pub EXCEPT ![w] = NoPub] /\ UNCHANGED job
        \/ status = "pending_review" /\ PubStep(w, "stage") /\ UNCHANGED job
        \/ status = "rejected" /\ GivingUp(w)
     /\ UNCHANGED <<lock, source, sleep, manual, cand, contested, libVars, faults>>

\* A request of an administrator does the same and is refused otherwise.
AdminPublish(w, c) ==
  /\ Idle(w) /\ cand[c].status = "pending_review"
  /\ Become(w, "stage", c) /\ Meets(w, c)
  /\ UNCHANGED <<crawlVars, cand, libVars, faults>>

\* Mutant of AdminReject: a candidate that was published can be rejected.
AdminRejectAny(w, c) ==
  /\ Idle(w) /\ cand[c].status \in {"pending_review", "published"}
  /\ Become(w, "reject", c) /\ Meets(w, c)
  /\ UNCHANGED <<crawlVars, cand, libVars, faults>>

AdminReject(w, c) ==
  /\ Idle(w) /\ cand[c].status = "pending_review"
  /\ Become(w, "reject", c) /\ Meets(w, c)
  /\ UNCHANGED <<crawlVars, cand, libVars, faults>>

\* Worker k processes a task of the URL.
On(k, u) == work[k].at # "idle" /\ work[k].url = u

\* Between staging a file and the task for it, its item says something else.
Between(w, u) == pub[w].at \in {"upsert", "enqueue"} /\ UrlOf[pub[w].cand] = u

\* stage_crawled_document: the file is named by the URL.
PubStage(w) ==
  LET u == UrlOf[pub[w].cand]
  IN /\ pub[w].at = "stage"
     /\ staged' = [staged EXCEPT ![u] = pub[w].cand]
     /\ hurt' = IF \E v \in Thread \ {w} : Between(v, u) THEN hurt \cup {u} ELSE hurt
     /\ PubStep(w, "upsert")
     /\ UNCHANGED <<crawlVars, cand, contested, item, indexed, queued, lost, work, faults>>

\* get_item_by_source and upsert_item: pending when new, stale when known.
PubUpsert(w) ==
  LET u == UrlOf[pub[w].cand]
  IN /\ pub[w].at = "upsert"
     /\ item' = [item EXCEPT ![u] = [stage |-> "waiting", hash |-> pub[w].cand]]
     /\ PubStep(w, "enqueue")
     /\ UNCHANGED <<crawlVars, cand, contested, staged, indexed, queued, lost, work, hurt, faults>>

\* Mutant of PubEnqueue: an item with an open task is not given another one.
PubEnqueueOnce(w) ==
  LET u == UrlOf[pub[w].cand]
  IN /\ pub[w].at = "enqueue"
     /\ IF queued[u] > 0 \/ \E k \in Workers : On(k, u)
        THEN UNCHANGED queued
        ELSE queued' = [queued EXCEPT ![u] = @ + 1]
     /\ PubStep(w, "review")
     /\ UNCHANGED <<crawlVars, cand, contested, staged, item, indexed, lost, work, hurt, faults>>

PubEnqueue(w) ==
  /\ pub[w].at = "enqueue"
  /\ queued' = [queued EXCEPT ![UrlOf[pub[w].cand]] = @ + 1]
  /\ PubStep(w, "review")
  /\ UNCHANGED <<crawlVars, cand, contested, staged, item, indexed, lost, work, hurt, faults>>

\* update_candidate_review asks for nothing: the last writer wins.
Review(c, s, linked) == cand' = [cand EXCEPT ![c] = [status |-> s, linked |-> linked]]

PubReview(w) ==
  /\ pub[w].at = "review"
  /\ Review(pub[w].cand, "published", TRUE)
  /\ PubStep(w, "note")
  /\ UNCHANGED <<crawlVars, contested, libVars, faults>>

\* After run_queued_tasks the review says how indexing went, if it is over.
PubNote(w) ==
  /\ pub[w].at = "note"
  /\ \/ Review(pub[w].cand, "published", TRUE)
     \/ item[UrlOf[pub[w].cand]].stage = "waiting" /\ UNCHANGED cand
  /\ pub' = [pub EXCEPT ![w] = NoPub]
  /\ UNCHANGED <<crawlVars, contested, libVars, faults>>

RejectWrite(w) ==
  /\ pub[w].at = "reject"
  /\ Review(pub[w].cand, "rejected", FALSE)
  /\ pub' = [pub EXCEPT ![w] = NoPub]
  /\ UNCHANGED <<crawlVars, contested, libVars, faults>>

\* An exception of publish_candidate or reject_candidate: a request just fails.
PubFault(w) ==
  LET c == pub[w].cand
  IN /\ pub[w].at \in PubAt \ {"idle", "give_up"} /\ faults < MaxFaults
     /\ IF job[w].at = "publish"
        THEN GivingUp(w)
        ELSE pub' = [pub EXCEPT ![w] = NoPub] /\ UNCHANGED job
     /\ hurt' = IF Between(w, UrlOf[c]) THEN hurt \cup {UrlOf[c]} ELSE hurt
     /\ faults' = faults + 1
     /\ UNCHANGED <<lock, source, sleep, manual, cand, contested, staged, item, indexed,
                    queued, lost, work>>

GiveUp(w) ==
  /\ pub[w].at = "give_up"
  /\ Review(pub[w].cand, "published", pub[w].linked)
  /\ pub' = [pub EXCEPT ![w] = NoPub]
  /\ UNCHANGED <<crawlVars, contested, libVars, faults>>

-----------------------------------------------------------------------------
(* process_task of a crawl_ingest task, statement by statement *)

Go(k, to)   == work' = [work EXCEPT ![k].at = to]
Stage(u, s) == item' = [item EXCEPT ![u].stage = s]

\* claim_next_task and process_task, of a task that waits; or of one that runs
\* already, to which a token of the runner leads: an exception has left it, or another
\* worker is on it.  Two workers at one URL hurt it.
TaskBegin(k, u) ==
  /\ work[k].at = "idle"
  /\ \/ queued[u] > 0 /\ queued' = [queued EXCEPT ![u] = @ - 1] /\ UNCHANGED lost
     \/ lost[u] > 0 /\ lost' = [lost EXCEPT ![u] = @ - 1] /\ UNCHANGED queued
     \/ (\E j \in Workers : On(j, u)) /\ UNCHANGED <<queued, lost>>
  /\ work' = [work EXCEPT ![k] = [at |-> "mark", url |-> u, doc |-> None]]
  /\ hurt' = IF \E j \in Workers : On(j, u) THEN hurt \cup {u} ELSE hurt
  /\ UNCHANGED <<crawlVars, pubVars, staged, item, indexed, faults>>

TaskMark(k) ==
  /\ work[k].at = "mark"
  /\ Stage(work[k].url, "waiting") /\ Go(k, "parse")
  /\ UNCHANGED <<crawlVars, pubVars, staged, indexed, queued, lost, hurt, faults>>

\* The file is read once, whatever is staged under its name later.
TaskParse(k) ==
  /\ work[k].at = "parse"
  /\ work' = [work EXCEPT ![k].at = "replace", ![k].doc = staged[work[k].url]]
  /\ UNCHANGED <<crawlVars, pubVars, staged, item, indexed, queued, lost, hurt, faults>>

\* replace_chunks: the DELETE and the INSERTs, then the stage and nothing else:
\* source_hash stays what a publication has made it meanwhile.
TaskReplace(k) ==
  /\ work[k].at = "replace"
  /\ indexed' = [indexed EXCEPT ![work[k].url] = work[k].doc]
  /\ Go(k, "index")
  /\ UNCHANGED <<crawlVars, pubVars, staged, item, queued, lost, hurt, faults>>

TaskIndex(k) ==
  /\ work[k].at = "index"
  /\ Stage(work[k].url, "indexed") /\ Go(k, "finish")
  /\ UNCHANGED <<crawlVars, pubVars, staged, indexed, queued, lost, hurt, faults>>

\* An exception inside the try; of the chunks some may be gone.
TaskFails(k) ==
  /\ work[k].at \in {"parse", "replace", "index", "finish"}
  /\ Go(k, "fail")
  /\ \/ UNCHANGED indexed
     \/ work[k].at = "replace" /\ indexed' = [indexed EXCEPT ![work[k].url] = None]
  /\ UNCHANGED <<crawlVars, pubVars, staged, item, queued, lost, hurt, faults>>

TaskFail(k) ==
  /\ work[k].at = "fail"
  /\ Stage(work[k].url, "failed") /\ Go(k, "failed")
  /\ UNCHANGED <<crawlVars, pubVars, staged, indexed, queued, lost, hurt, faults>>

TaskFinish(k) ==
  /\ work[k].at \in {"finish", "failed"}
  /\ work' = [work EXCEPT ![k] = NoWork]
  /\ UNCHANGED <<crawlVars, pubVars, staged, item, indexed, queued, lost, hurt, faults>>

\* An exception outside the try, or in its except blocks.
TaskFault(k) ==
  /\ work[k].at \in {"mark", "fail", "failed"} /\ faults < MaxFaults
  /\ lost' = [lost EXCEPT ![work[k].url] = @ + 1]
  /\ work' = [work EXCEPT ![k] = NoWork]
  /\ faults' = faults + 1
  /\ UNCHANGED <<crawlVars, pubVars, staged, item, indexed, queued, hurt>>

-----------------------------------------------------------------------------

\* The process dies; the database and the files stay.  start() begins again, and
\* reset_running_tasks queues every task that was running (one that two workers were on
\* counts twice: its URL is hurt).
Crash ==
  /\ faults < MaxFaults
  /\ lock' = None
  /\ job' = [w \in Thread |-> NoJob]
  /\ pub' = [w \in Thread |-> NoPub]
  /\ sleep' = Interval
  /\ hurt' = hurt \cup {u \in Url : \E w \in Thread : Between(w, u)}
  /\ queued' = [u \in Url |->
                  queued[u] + lost[u] + Cardinality({k \in Workers : On(k, u)})]
  /\ lost' = [u \in Url |-> 0]
  /\ work' = [k \in Workers |-> NoWork]
  /\ faults' = faults + 1
  /\ UNCHANGED <<source, manual, cand, contested, staged, item, indexed>>

Run(w) ==
  \/ MarkRunning(w) \/ Crawl(w) \/ DocumentsDone(w)
  \/ \E c \in Candidates : TakeDocument(w, c)
  \/ Published(w) \/ SettleSource(w)

Publication(w) ==
  PubRead(w) \/ PubStage(w) \/ PubUpsert(w) \/ PubEnqueue(w) \/ PubReview(w)
    \/ PubNote(w) \/ RejectWrite(w) \/ GiveUp(w)

Task(k) ==
  \/ \E u \in Url : TaskBegin(k, u)
  \/ TaskMark(k) \/ TaskParse(k) \/ TaskReplace(k) \/ TaskIndex(k)
  \/ TaskFails(k) \/ TaskFail(k) \/ TaskFinish(k)

Loop == Tick \/ NextDue

Next ==
  \/ Pass \/ Loop \/ Crash
  \/ \E w \in Thread : Run(w) \/ Publication(w) \/ CrawlFault(w) \/ PubFault(w)
  \/ \E w \in Admins, s \in Source : RunNow(w, s)
  \/ \E w \in Admins, c \in Candidates : AdminPublish(w, c) \/ AdminReject(w, c)
  \/ \E k \in Workers : Task(k) \/ TaskFault(k)

Spec == Init /\ [][Next]_vars

\* Time passes, threads and workers go on; nothing makes an
\* administrator act, and the bounds end manual runs and faults.
Fairness ==
  /\ WF_vars(Pass) /\ WF_vars(Loop)
  /\ \A w \in Thread : WF_vars(Run(w)) /\ WF_vars(Publication(w))
  /\ \A k \in Workers : WF_vars(Task(k))

FairSpec == Spec /\ Fairness

-----------------------------------------------------------------------------

TypeOK ==
  /\ lock \in Thread \cup {None}
  /\ source \in [Source -> Row] /\ cand \in [Candidates -> Candidate]
  /\ job \in [Thread -> Job] /\ pub \in [Thread -> Pub]
  /\ staged \in [Url -> Candidates \cup {None}]
  /\ item \in [Url -> Item]
  /\ indexed \in [Url -> Candidates \cup {None}]
  /\ queued \in [Url -> Nat] /\ lost \in [Url -> Nat]
  /\ work \in [Workers -> Work]
  /\ sleep \in 0..Interval
  /\ manual \in 0..MaxManual /\ faults \in 0..MaxFaults /\ hurt \in SUBSET Url
  /\ contested \in SUBSET Candidates

\* A run cut short is not forgotten: a source that says "running" is being
\* crawled, or is due, although nothing closes the run a crash left open.
InterruptedIsDue ==
  \A s \in Source : source[s].status = "running" =>
    source[s].wait = 0 \/ \E w \in Thread : job[w].src = s

\* No two threads crawl at once, and a tick relies on it: every source of the
\* list it read when it began is still due when its turn comes.
TickIsCurrent ==
  /\ \A v, w \in Thread : job[v].at # "idle" /\ job[w].at # "idle" => v = w
  /\ \A s \in job["loop"].due : source[s].wait = 0

\* A task of the URL that has still to read its file, if only after a restart.
Coming(u) ==
  \/ queued[u] > 0 \/ lost[u] > 0
  \/ \E k \in Workers : On(k, u) /\ work[k].at \in {"mark", "parse"}

\* Publishing replaces a file, a row and a task one after the other, while a task
\* of an earlier version may be anywhere between reading the file and marking the
\* row indexed, whose source_hash is then the new one.  Unless a publication broke
\* off, or two publications or two tasks of the URL met, a row that waits is worked
\* on or has a task, and what a row says is indexed is the contents of its hash or
\* a task is to come that will replace it.
LibraryFollowsReview ==
  \A u \in Url :
    u \in hurt \/ (\E w \in Thread : Between(w, u)) \/
      /\ item[u].stage = "waiting" => Coming(u) \/ \E k \in Workers : On(k, u)
      /\ item[u].stage = "indexed" => indexed[u] = item[u].hash \/ Coming(u)

Decided == {"published", "rejected"}

\* What was decided on a document stays decided, whoever meets it again, and unless
\* two reviews of it met it stays decided the same way but for one case: with
\* automatic publication a crawl that finds a rejected document again writes it
\* published, because publish_candidate refuses it and _run_source takes the
\* refusal for a failure of indexing.
ReviewIsKept ==
  [][\A c \in Candidates : cand[c].status \in Decided =>
       /\ cand'[c].status \in Decided
       /\ \/ cand'[c].status = cand[c].status
          \/ c \in contested
          \/ AutoPublish /\ cand[c].status = "rejected"]_vars

\* Without the exception for automatic publication.  Not so: see ReviewIsKept.
RejectionStands ==
  [][\A c \in Candidates : cand[c].status = "rejected" =>
       c \in contested \/ cand'[c].status = "rejected"]_vars

\* Every source is crawled again and again, whatever crashes, exceptions and
\* runs by hand came in between.
EverySourceComesRound ==
  \A s \in Source : []<>(\E w \in Thread : job[w].src = s)

\* With manual review and a single reviewer: the review that PolicyReview promises.
Promise == INSTANCE PolicyReview WITH
  verdict <- [c \in Candidates |-> cand[c].status],
  linked  <- [c \in Candidates |-> cand[c].linked]
KeepsPromise == Promise!ReviewSpec

\* openspec/changes/policy-live-crawler-admin-interaction-hotfix/specs/
\* knowledge-rag/spec.md: documents "are auto-published to public_policy_web" and
\* "each published candidate immediately enters crawl_ingest".
PublishedIsInLibrary ==
  \A c \in Candidates : cand[c].status = "published" => cand[c].linked
=============================================================================
