--------------------------- MODULE KnowledgeTasks ---------------------------
(***************************************************************************)
(* The knowledge task queue: the knowledge_tasks table, the in-process     *)
(* KnowledgeTaskRunner with its token queue, and the HTTP handlers that    *)
(* create, retry and drain tasks beside it (backend/app/knowledge).        *)
(*                                                                         *)
(* Every statement of the store opens a connection of its own and commits  *)
(* at once (store._select, store._execute), so the atomic steps below are  *)
(* single SQL statements and single queue operations; anything a thread    *)
(* read earlier may be stale when it writes.  The table outlives a crash,  *)
(* the tokens and the threads do not.                                      *)
(*                                                                         *)
(* What a task does to its knowledge item is a black box here: Finish      *)
(* chooses the outcome.  attempt_count, the timestamps and the summaries   *)
(* guard nothing in the code and are left out.                             *)
(***************************************************************************)
EXTENDS Naturals, Sequences, FiniteSets

CONSTANTS
  Http,        \* request threads (FastAPI's pool; the policy crawler's thread)
  Runner,      \* the knowledge-task-runner thread
  MaxTasks,    \* bound: tasks ever created
  MaxRetries,  \* bound: calls of retry_task
  MaxCrashes,  \* bound: process crashes or shutdowns
  MaxFaults    \* bound: exceptions that escape process_task or the store

ASSUME KnowledgeTasksAssumption ==
  /\ Runner \notin Http
  /\ MaxTasks \in Nat
  /\ MaxRetries \in Nat
  /\ MaxCrashes \in Nat
  /\ MaxFaults \in Nat

Task   == 1..MaxTasks     \* numbered by task_seq, the order of creation
NoTask == 0
Worker == Http \cup {Runner}

Status  == {"absent", "queued", "running", "succeeded", "failed"}
Settled == {"succeeded", "failed"}

VARIABLES
  phase,    \* of the process: "down", "syncing", "loading" (startup), "up"
  status,   \* knowledge_tasks.status, "absent" before the INSERT
  queue,    \* runner._queue: the task ids waiting to be looked at
  todo,     \* ids a listing of queued tasks returned and not yet put
  pc,       \* where each thread is
  cur,      \* the task each thread holds
  orphans,  \* running tasks whose thread an exception has ended
  retries, crashes, faults   \* counters for the bounds

vars == <<phase, status, queue, todo, pc, cur, orphans,
          retries, crashes, faults>>

budget == <<retries, crashes, faults>>

-----------------------------------------------------------------------------
(* Threads *)

HttpPC   == {"idle", "put", "reput", "select", "claim", "begin", "work"}
RunnerPC == {"off", "dead", "get", "token", "drain",
             "select", "claim", "begin", "work"}

\* Where a thread waits for its next job, and where it goes when a task ends:
\* run_queued_tasks loops over claim_next_task, the runner back to its queue.
Home(w)  == IF w = Runner THEN "get" ELSE "idle"
After(w) == IF w = Runner THEN "get" ELSE "select"

\* A thread owns a task from the UPDATE (or the token) that made it the task's
\* processor until finish_task.
Owns(w, t) == cur[w] = t /\ pc[w] \in {"begin", "work"}
Owned(t)   == \E w \in Worker : Owns(w, t)

Queued == {t \in Task : status[t] = "queued"}

IsOldest(t, S) == t \in S /\ \A u \in S : t <= u
IsNewest(t, S) == t \in S /\ \A u \in S : u <= t

Goto(w, to, t) ==
  /\ pc'  = [pc EXCEPT ![w] = to]
  /\ cur' = [cur EXCEPT ![w] = t]

-----------------------------------------------------------------------------
(* Creating and retrying tasks, in a request *)

NextId(t) == status[t] = "absent" /\ \A u \in Task : u < t => status[u] # "absent"

\* create_task: the INSERT of _enqueue_item_task.
CreateTask(w, t) ==
  /\ phase = "up" /\ pc[w] = "idle" /\ NextId(t)
  /\ status' = [status EXCEPT ![t] = "queued"]
  /\ Goto(w, "put", t)
  /\ UNCHANGED <<phase, queue, todo, orphans, budget>>

\* refresh_private_sample_catalog: the INSERT of a task that the same request
\* then marks running and processes itself, with no token and no claim.  Its
\* loop goes on to the next source ("select") before it drains the queue.
CreateOwnTask(w, t) ==
  /\ phase = "up" /\ pc[w] \in {"idle", "select"} /\ NextId(t)
  /\ status' = [status EXCEPT ![t] = "queued"]
  /\ Goto(w, "claim", t)
  /\ UNCHANGED <<phase, queue, todo, orphans, budget>>

\* requeue_task: an UPDATE with no condition on the status it replaces.
Requeue(w, t) ==
  /\ phase = "up" /\ pc[w] = "idle" /\ status[t] # "absent"
  /\ retries < MaxRetries
  /\ retries' = retries + 1
  /\ status' = [status EXCEPT ![t] = "queued"]
  /\ orphans' = orphans \ {t}
  /\ Goto(w, "reput", t)
  /\ UNCHANGED <<phase, queue, todo, crashes, faults>>

\* runner.enqueue.  After a creation the handler goes on with its next source
\* or drains the queue; after a retry it always drains.
PutToken(w) ==
  /\ phase = "up" /\ pc[w] \in {"put", "reput"}
  /\ queue' = Append(queue, cur[w])
  /\ \E to \in {"select"} \cup (IF pc[w] = "put" THEN {"idle"} ELSE {}) :
       Goto(w, to, NoTask)
  /\ UNCHANGED <<phase, status, todo, orphans, budget>>

\* A request that reaches run_queued_tasks.
RunQueuedTasks(w) ==
  /\ phase = "up" /\ pc[w] = "idle"
  /\ Goto(w, "select", NoTask)
  /\ UNCHANGED <<phase, status, queue, todo, orphans, budget>>

-----------------------------------------------------------------------------
(* Claiming and processing, by any thread *)

\* claim_next_task, the SELECT of the oldest queued task.
SelectOldest(w) ==
  /\ phase = "up" /\ pc[w] = "select"
  /\ \/ Queued = {} /\ Goto(w, Home(w), NoTask)
     \/ \E t \in Queued : IsOldest(t, Queued) /\ Goto(w, "claim", t)
  /\ UNCHANGED <<phase, status, queue, todo, orphans, budget>>

\* The UPDATE to running, of claim_next_task or of the catalog refresh:
\* unconditional, whatever happened to the task since it was read.
MarkRunning(w) ==
  /\ phase = "up" /\ pc[w] = "claim"
  /\ status' = [status EXCEPT ![cur[w]] = "running"]
  /\ orphans' = orphans \ {cur[w]}
  /\ Goto(w, "begin", cur[w])
  /\ UNCHANGED <<phase, queue, todo, budget>>

\* Mutant of BeginTask: the early return tests for the wrong status.
BeginTaskIfQueued(w) ==
  /\ phase = "up" /\ pc[w] = "begin"
  /\ IF status[cur[w]] = "queued" THEN Goto(w, "work", cur[w])
                                  ELSE Goto(w, After(w), NoTask)
  /\ UNCHANGED <<phase, status, queue, todo, orphans, budget>>

\* process_task returns at once unless it reads the task as running.
BeginTask(w) ==
  /\ phase = "up" /\ pc[w] = "begin"
  /\ IF status[cur[w]] = "running" THEN Goto(w, "work", cur[w])
                                   ELSE Goto(w, After(w), NoTask)
  /\ UNCHANGED <<phase, status, queue, todo, orphans, budget>>

\* finish_task: again an unconditional UPDATE.
FinishAs(w, outcome) ==
  /\ phase = "up" /\ pc[w] = "work"
  /\ status' = [status EXCEPT ![cur[w]] = outcome]
  /\ orphans' = orphans \ {cur[w]}
  /\ Goto(w, After(w), NoTask)
  /\ UNCHANGED <<phase, queue, todo, budget>>

FinishTask(w) == \E outcome \in Settled : FinishAs(w, outcome)

\* An exception the code does not catch: a database error in claim_next_task,
\* in process_task outside its try, or in its except blocks.  A request ends
\* (its handler swallows the error or answers 500); the runner thread dies.
Fault(w) ==
  /\ phase = "up" /\ faults < MaxFaults
  /\ pc[w] \notin {"idle", "off", "dead"}
  /\ faults' = faults + 1
  /\ orphans' = IF pc[w] \in {"begin", "work"} THEN orphans \cup {cur[w]}
                                               ELSE orphans
  /\ Goto(w, IF w = Runner THEN "dead" ELSE "idle", NoTask)
  /\ todo' = IF w = Runner THEN {} ELSE todo
  /\ UNCHANGED <<phase, status, queue, retries, crashes>>

-----------------------------------------------------------------------------
(* The runner thread *)

\* queue.get returned an id.
TakeToken ==
  /\ phase = "up" /\ pc[Runner] = "get" /\ queue # <<>>
  /\ queue' = Tail(queue)
  /\ Goto(Runner, "token", Head(queue))
  /\ UNCHANGED <<phase, status, todo, orphans, budget>>

\* A queued id makes the runner claim the oldest queued task, which may be
\* another one; a running id is processed as it is, whoever runs it already;
\* a settled id is dropped.
Dispatch ==
  /\ phase = "up" /\ pc[Runner] = "token"
  /\ \/ /\ status[cur[Runner]] = "queued"
        /\ Goto(Runner, "select", NoTask)
        /\ UNCHANGED orphans
     \/ /\ status[cur[Runner]] = "running"
        /\ Goto(Runner, "begin", cur[Runner])
        /\ orphans' = orphans \ {cur[Runner]}
     \/ /\ status[cur[Runner]] \in Settled
        /\ Goto(Runner, "get", NoTask)
        /\ UNCHANGED orphans
  /\ UNCHANGED <<phase, status, queue, todo, budget>>

\* queue.get timed out: _drain_queued_tasks lists the queued tasks ...
ListQueued ==
  /\ phase = "up" /\ pc[Runner] = "get" /\ queue = <<>>
  /\ todo' = Queued
  /\ Goto(Runner, "drain", NoTask)
  /\ UNCHANGED <<phase, status, queue, orphans, budget>>

\* ... and puts them back, newest first (list_tasks orders by id DESC).  The
\* startup listing is put by the same step.
PutListed ==
  /\ phase = "loading" \/ (phase = "up" /\ pc[Runner] = "drain")
  /\ \E t \in todo : /\ IsNewest(t, todo)
                     /\ queue' = Append(queue, t)
                     /\ todo' = todo \ {t}
  /\ UNCHANGED <<phase, status, pc, cur, orphans, budget>>

DrainDone ==
  /\ phase = "up" /\ pc[Runner] = "drain" /\ todo = {}
  /\ Goto(Runner, "get", NoTask)
  /\ UNCHANGED <<phase, status, queue, todo, orphans, budget>>

-----------------------------------------------------------------------------
(* Process life *)

Boot ==
  /\ phase = "down"
  /\ phase' = "syncing"
  /\ UNCHANGED <<status, queue, todo, pc, cur, orphans, budget>>

\* sync_shared_private_samples: tasks created before the runner starts.
BootCreate(t) ==
  /\ phase = "syncing" /\ NextId(t)
  /\ status' = [status EXCEPT ![t] = "queued"]
  /\ queue' = Append(queue, t)
  /\ UNCHANGED <<phase, todo, pc, cur, orphans, budget>>

\* Mutants of StartRunner: no reset_running_tasks; the listing before the reset.
StartRunnerNoReset ==
  /\ phase = "syncing"
  /\ phase' = "loading"
  /\ todo' = Queued
  /\ UNCHANGED <<status, queue, pc, cur, orphans, budget>>

StartRunnerListsFirst ==
  /\ phase = "syncing"
  /\ phase' = "loading"
  /\ todo' = Queued
  /\ status' = [t \in Task |-> IF status[t] = "running" THEN "queued" ELSE status[t]]
  /\ orphans' = {}
  /\ UNCHANGED <<queue, pc, cur, budget>>

\* runner.start: reset_running_tasks, then the listing of queued tasks.
StartRunner ==
  /\ phase = "syncing"
  /\ phase' = "loading"
  /\ status' = [t \in Task |-> IF status[t] = "running" THEN "queued" ELSE status[t]]
  /\ todo' = {t \in Task : status'[t] = "queued"}
  /\ orphans' = {}
  /\ UNCHANGED <<queue, pc, cur, budget>>

StartThread ==
  /\ phase = "loading" /\ todo = {}
  /\ phase' = "up"
  /\ Goto(Runner, "get", NoTask)
  /\ UNCHANGED <<status, queue, todo, orphans, budget>>

\* A crash, or a shutdown: stop() waits two seconds and abandons its daemon.
Crash ==
  /\ phase # "down" /\ crashes < MaxCrashes
  /\ crashes' = crashes + 1
  /\ phase' = "down"
  /\ queue' = <<>>
  /\ todo' = {}
  /\ pc' = [w \in Worker |-> IF w = Runner THEN "off" ELSE "idle"]
  /\ cur' = [w \in Worker |-> NoTask]
  /\ UNCHANGED <<status, orphans, retries, faults>>

-----------------------------------------------------------------------------
Init ==
  /\ phase = "down"
  /\ status = [t \in Task |-> "absent"]
  /\ queue = <<>>
  /\ todo = {}
  /\ pc = [w \in Worker |-> IF w = Runner THEN "off" ELSE "idle"]
  /\ cur = [w \in Worker |-> NoTask]
  /\ orphans = {}
  /\ retries = 0 /\ crashes = 0 /\ faults = 0

Process(w) == SelectOldest(w) \/ MarkRunning(w) \/ BeginTask(w) \/ FinishTask(w)

Request(w) ==
  \/ RunQueuedTasks(w)
  \/ \E t \in Task : CreateTask(w, t) \/ CreateOwnTask(w, t) \/ Requeue(w, t)

RunnerStep == TakeToken \/ Dispatch \/ ListQueued \/ PutListed \/ DrainDone

Startup == Boot \/ StartRunner \/ StartThread

Next ==
  \/ \E w \in Http : Request(w) \/ PutToken(w)
  \/ \E w \in Worker : Process(w) \/ Fault(w)
  \/ RunnerStep
  \/ Startup
  \/ \E t \in Task : BootCreate(t)
  \/ Crash

Spec == Init /\ [][Next]_vars

\* Threads that have begun something go on; the service manager restarts the
\* process (docs/deploy/carbonrag.service, Restart=always).  Nothing makes a
\* user send a request, and nothing makes the process crash.
Fairness ==
  /\ \A w \in Http : WF_vars(PutToken(w) \/ Process(w))
  /\ WF_vars(RunnerStep \/ Process(Runner))
  /\ WF_vars(Startup)

FairSpec == Spec /\ Fairness

-----------------------------------------------------------------------------
(* Properties *)

TypeOK ==
  /\ phase \in {"down", "syncing", "loading", "up"}
  /\ status \in [Task -> Status]
  /\ queue \in Seq(Task)
  /\ todo \in SUBSET Task
  /\ pc \in [Worker -> HttpPC \cup RunnerPC]
  /\ cur \in [Worker -> Task \cup {NoTask}]
  /\ orphans \in SUBSET Task
  /\ retries \in Nat /\ crashes \in Nat /\ faults \in Nat

\* While the process is up, a task the table calls running is being processed
\* by some thread, or is one whose thread an uncaught exception ended: no
\* interleaving of claims, retries, second processings and finishes leaves a
\* task running with nobody on it.
RunningHasOwner ==
  phase = "up" =>
    \A t \in Task : status[t] = "running" => Owned(t) \/ t \in orphans

\* When the runner is about to start, no task is left running from the life
\* before, and every queued task has its id in the queue or in the listing
\* that is being put there: a crash between the INSERT and the put loses no
\* task.
StartupLosesNothing ==
  phase = "loading" =>
    \A t \in Task :
      /\ status[t] # "running"
      /\ status[t] = "queued" => t \in todo \/ \E i \in DOMAIN queue : queue[i] = t

\* A task that was created or retried is processed to an end, across crashes,
\* lost tokens and threads that race for it, unless a thread has died of an
\* uncaught exception.
EveryTaskSettles ==
  \A t \in Task :
    (status[t] \in {"queued", "running"}) ~> (status[t] \in Settled \/ faults > 0)

\* docs/PLAN/V1.1.0.md:50-52: one in-process worker consumes the queued tasks one
\* after the other, so that no task has two threads processing it.
OneOwnerPerTask ==
  \A t \in Task : \A v, w \in Worker : Owns(v, t) /\ Owns(w, t) => v = w
=============================================================================
