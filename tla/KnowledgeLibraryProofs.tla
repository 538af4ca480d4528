----------------------- MODULE KnowledgeLibraryProofs -----------------------
(***************************************************************************)
(* Machine-checked proofs about KnowledgeTasks and KnowledgeLibrary, for   *)
(* every number of sources, chunks, versions, request threads and tasks    *)
(* and every bound.                                                        *)
(*                                                                         *)
(* The library implements the task queue it runs on, so that what is       *)
(* proved of the queue holds in the library.  Its own invariant has two    *)
(* halves: PlaceInv says where the threads, tasks and fingerprints are,    *)
(* IndexInv what a thread at work on an item leaves of its chunks and owes *)
(* to its row.                                                             *)
(***************************************************************************)
EXTENDS KnowledgeLibrary, TLAPS

-----------------------------------------------------------------------------
(* The task queue *)

(* A thread at one of these places holds the id of a task. *)
HoldingPC == {"put", "reput", "claim", "token", "begin", "work"}

HoldsTask == \A w \in Worker : pc[w] \in HoldingPC => cur[w] \in Task

\* What every step preserves: HoldsTask keeps the unconditional UPDATEs inside
\* the table, and StartupLosesNothing is what RunningHasOwner starts from when
\* the process comes up.
IInv == TypeOK /\ HoldsTask /\ RunningHasOwner /\ StartupLosesNothing

-----------------------------------------------------------------------------
\* The type invariant and HoldsTask are inductive together.
LEMMA InitTyped == Init => TypeOK /\ HoldsTask
  <1> SUFFICES ASSUME Init PROVE TypeOK /\ HoldsTask
    OBVIOUS
  <1>1. TypeOK
    BY KnowledgeTasksAssumption
    DEF Init, TypeOK, Status, HttpPC, RunnerPC, NoTask, Task
  <1>2. HoldsTask
    BY DEF Init, HoldsTask, HoldingPC
  <1>3. QED
    BY <1>1, <1>2

\* Moving one thread keeps pc and cur typed and HoldsTask true.
LEMMA GotoTyped ==
  ASSUME TypeOK, HoldsTask, NEW w \in Worker,
         NEW to \in HttpPC \cup RunnerPC, NEW t \in Task \cup {NoTask},
         to \in HoldingPC => t \in Task, Goto(w, to, t)
  PROVE  /\ pc' \in [Worker -> HttpPC \cup RunnerPC]
         /\ cur' \in [Worker -> Task \cup {NoTask}]
         /\ HoldsTask'
  BY DEF TypeOK, HoldsTask, Goto

\* Every step of every thread, of startup and of a crash keeps them.
LEMMA StepTyped == TypeOK /\ HoldsTask /\ [Next]_vars => TypeOK' /\ HoldsTask'
  <1> SUFFICES ASSUME TypeOK, HoldsTask, [Next]_vars
               PROVE  TypeOK' /\ HoldsTask'
    OBVIOUS
  <1> USE KnowledgeTasksAssumption DEF Worker
  <1>1. ASSUME NEW w \in Http, NEW t \in Task, CreateTask(w, t)
        PROVE  TypeOK' /\ HoldsTask'
    <2>1. Goto(w, "put", t)
      BY <1>1 DEF CreateTask
    <2>2. QED
      BY <1>1, <2>1, GotoTyped DEF CreateTask, TypeOK, HttpPC, Status, budget
  <1>2. ASSUME NEW w \in Http, NEW t \in Task, CreateOwnTask(w, t)
        PROVE  TypeOK' /\ HoldsTask'
    <2>1. Goto(w, "claim", t)
      BY <1>2 DEF CreateOwnTask
    <2>2. QED
      BY <1>2, <2>1, GotoTyped DEF CreateOwnTask, TypeOK, HttpPC, Status, budget
  <1>3. ASSUME NEW w \in Http, NEW t \in Task, Requeue(w, t)
        PROVE  TypeOK' /\ HoldsTask'
    <2>1. Goto(w, "reput", t)
      BY <1>3 DEF Requeue
    <2>2. QED
      BY <1>3, <2>1, GotoTyped DEF Requeue, TypeOK, HttpPC, Status
  <1>4. ASSUME NEW w \in Http, RunQueuedTasks(w)
        PROVE  TypeOK' /\ HoldsTask'
    <2>1. Goto(w, "select", NoTask)
      BY <1>4 DEF RunQueuedTasks
    <2>2. QED
      BY <1>4, <2>1, GotoTyped DEF RunQueuedTasks, TypeOK, HttpPC, HoldingPC, budget
  <1>5. ASSUME NEW w \in Http, PutToken(w)
        PROVE  TypeOK' /\ HoldsTask'
    <2>1. PICK to \in {"select", "idle"} : Goto(w, to, NoTask)
      BY <1>5 DEF PutToken
    <2>2. cur[w] \in Task
      BY <1>5 DEF PutToken, HoldsTask, HoldingPC
    <2>3. queue' \in Seq(Task)
      BY <1>5, <2>2 DEF PutToken, TypeOK
    <2>4. QED
      BY <1>5, <2>1, <2>3, GotoTyped DEF PutToken, TypeOK, HttpPC, HoldingPC, budget
  <1>6. ASSUME NEW w \in Worker, SelectOldest(w)
        PROVE  TypeOK' /\ HoldsTask'
    <2>1. CASE Goto(w, Home(w), NoTask)
      BY <1>6, <2>1, GotoTyped
      DEF SelectOldest, TypeOK, Home, HttpPC, RunnerPC, HoldingPC, budget
    <2>2. CASE \E t \in Queued : Goto(w, "claim", t)
      BY <1>6, <2>2, GotoTyped DEF SelectOldest, TypeOK, Queued, HttpPC, budget
    <2>3. QED
      BY <1>6, <2>1, <2>2 DEF SelectOldest
  <1>7. ASSUME NEW w \in Worker, MarkRunning(w)
        PROVE  TypeOK' /\ HoldsTask'
    <2>1. cur[w] \in Task /\ Goto(w, "begin", cur[w])
      BY <1>7 DEF MarkRunning, HoldsTask, HoldingPC
    <2>2. QED
      BY <1>7, <2>1, GotoTyped DEF MarkRunning, TypeOK, HttpPC, Status, budget
  <1>8. ASSUME NEW w \in Worker, BeginTask(w)
        PROVE  TypeOK' /\ HoldsTask'
    <2>1. cur[w] \in Task
      BY <1>8 DEF BeginTask, HoldsTask, HoldingPC
    <2>2. Goto(w, "work", cur[w]) \/ Goto(w, After(w), NoTask)
      BY <1>8 DEF BeginTask
    <2>3. pc' \in [Worker -> HttpPC \cup RunnerPC]
          /\ cur' \in [Worker -> Task \cup {NoTask}] /\ HoldsTask'
      <3>1. CASE Goto(w, "work", cur[w])
        BY <3>1, <2>1, GotoTyped DEF HttpPC
      <3>2. CASE Goto(w, After(w), NoTask)
        BY <3>2, GotoTyped DEF After, HttpPC, RunnerPC, HoldingPC
      <3>3. QED
        BY <2>2, <3>1, <3>2
    <2>4. QED
      BY <1>8, <2>3 DEF BeginTask, TypeOK, budget
  <1>9. ASSUME NEW w \in Worker, FinishTask(w)
        PROVE  TypeOK' /\ HoldsTask'
    <2>1. PICK outcome \in Settled : FinishAs(w, outcome)
      BY <1>9 DEF FinishTask
    <2>2. Goto(w, After(w), NoTask)
      BY <2>1 DEF FinishAs
    <2>3. QED
      BY <2>1, <2>2, GotoTyped
      DEF FinishAs, TypeOK, After, HttpPC, RunnerPC, HoldingPC, Settled, Status, budget
  <1>10. ASSUME NEW w \in Worker, Fault(w)
         PROVE  TypeOK' /\ HoldsTask'
    <2>1. Goto(w, IF w = Runner THEN "dead" ELSE "idle", NoTask)
      BY <1>10 DEF Fault
    <2>2. orphans' \in SUBSET Task
      BY <1>10 DEF Fault, TypeOK, HoldsTask, HoldingPC
    <2>3. pc' \in [Worker -> HttpPC \cup RunnerPC]
          /\ cur' \in [Worker -> Task \cup {NoTask}] /\ HoldsTask'
      BY <2>1, GotoTyped DEF HttpPC, RunnerPC, HoldingPC
    <2>4. QED
      BY <1>10, <2>2, <2>3 DEF Fault, TypeOK
  <1>11. ASSUME TakeToken
         PROVE  TypeOK' /\ HoldsTask'
    <2>1. Head(queue) \in Task /\ queue' \in Seq(Task)
      BY <1>11 DEF TakeToken, TypeOK
    <2>2. Goto(Runner, "token", Head(queue))
      BY <1>11 DEF TakeToken
    <2>3. QED
      BY <1>11, <2>1, <2>2, GotoTyped DEF TakeToken, TypeOK, RunnerPC, budget
  <1>12. ASSUME Dispatch
         PROVE  TypeOK' /\ HoldsTask'
    <2>1. cur[Runner] \in Task
      BY <1>12 DEF Dispatch, HoldsTask, HoldingPC
    <2>2. \/ Goto(Runner, "select", NoTask)
          \/ Goto(Runner, "begin", cur[Runner])
          \/ Goto(Runner, "get", NoTask)
      BY <1>12 DEF Dispatch
    <2>3. pc' \in [Worker -> HttpPC \cup RunnerPC]
          /\ cur' \in [Worker -> Task \cup {NoTask}] /\ HoldsTask'
      BY <2>1, <2>2, GotoTyped DEF RunnerPC, HoldingPC
    <2>4. QED
      BY <1>12, <2>3 DEF Dispatch, TypeOK, budget
  <1>13. ASSUME ListQueued
         PROVE  TypeOK' /\ HoldsTask'
    <2>1. Goto(Runner, "drain", NoTask)
      BY <1>13 DEF ListQueued
    <2>2. QED
      BY <1>13, <2>1, GotoTyped
      DEF ListQueued, TypeOK, Queued, RunnerPC, HoldingPC, budget
  <1>14. ASSUME PutListed
         PROVE  TypeOK' /\ HoldsTask'
    BY <1>14 DEF PutListed, TypeOK, HoldsTask, budget
  <1>15. ASSUME DrainDone
         PROVE  TypeOK' /\ HoldsTask'
    <2>1. Goto(Runner, "get", NoTask)
      BY <1>15 DEF DrainDone
    <2>2. QED
      BY <1>15, <2>1, GotoTyped DEF DrainDone, TypeOK, RunnerPC, HoldingPC, budget
  <1>16. ASSUME Boot
         PROVE  TypeOK' /\ HoldsTask'
    BY <1>16 DEF Boot, TypeOK, HoldsTask, budget
  <1>17. ASSUME StartRunner
         PROVE  TypeOK' /\ HoldsTask'
    BY <1>17 DEF StartRunner, TypeOK, HoldsTask, Status, budget
  <1>18. ASSUME StartThread
         PROVE  TypeOK' /\ HoldsTask'
    <2>1. Goto(Runner, "get", NoTask)
      BY <1>18 DEF StartThread
    <2>2. QED
      BY <1>18, <2>1, GotoTyped DEF StartThread, TypeOK, RunnerPC, HoldingPC, budget
  <1>19. ASSUME NEW t \in Task, BootCreate(t)
         PROVE  TypeOK' /\ HoldsTask'
    BY <1>19 DEF BootCreate, TypeOK, HoldsTask, Status, budget
  <1>20. ASSUME Crash
         PROVE  TypeOK' /\ HoldsTask'
    BY <1>20 DEF Crash, TypeOK, HoldsTask, HoldingPC, HttpPC, RunnerPC
  <1>21. CASE UNCHANGED vars
    BY <1>21 DEF vars, TypeOK, HoldsTask
  <1>22. QED
    BY <1>1, <1>2, <1>3, <1>4, <1>5, <1>6, <1>7, <1>8, <1>9, <1>10, <1>11,
       <1>12, <1>13, <1>14, <1>15, <1>16, <1>17, <1>18, <1>19, <1>20, <1>21
    DEF Next, Request, Process, RunnerStep, Startup

\* Every reachable state is well typed: the unconditional UPDATEs and the
\* token queue never carry a thread outside the table of tasks.
THEOREM TypeCorrect == Spec => [](TypeOK /\ HoldsTask)
  BY InitTyped, StepTyped, PTL DEF Spec

-----------------------------------------------------------------------------
(* Running tasks have owners *)

\* A step of thread w leaves no task running alone if whatever it stops
\* processing is settled or orphaned, whatever it starts running it processes,
\* and whatever it takes off the orphans it processes or settles.
LEMMA KeepsOwners ==
  ASSUME TypeOK, RunningHasOwner, phase = "up", NEW w \in Worker,
         NEW to, NEW u, Goto(w, to, u),
         \A t \in Task : status'[t] = "running" =>
           \/ u = t /\ to \in {"begin", "work"}
           \/ /\ status[t] = "running"
              /\ Owns(w, t) => t \in orphans'
              /\ t \in orphans => t \in orphans'
  PROVE  RunningHasOwner'
  <1> SUFFICES ASSUME NEW t \in Task, status'[t] = "running"
               PROVE  Owned(t)' \/ t \in orphans'
    BY DEF RunningHasOwner
  <1>1. CASE u = t /\ to \in {"begin", "work"}
    <2>1. Owns(w, t)'
      BY <1>1 DEF Owns, Goto, TypeOK
    <2>2. QED
      BY <2>1 DEF Owned
  <1>2. CASE /\ status[t] = "running"
             /\ Owns(w, t) => t \in orphans'
             /\ t \in orphans => t \in orphans'
    <2>1. CASE t \in orphans
      BY <1>2, <2>1
    <2>2. CASE Owned(t)
      <3>1. PICK v \in Worker : Owns(v, t)
        BY <2>2 DEF Owned
      <3>2. CASE v = w
        BY <1>2, <3>1, <3>2
      <3>3. CASE v # w
        <4>1. Owns(v, t)'
          BY <3>1, <3>3 DEF Owns, Goto, TypeOK
        <4>2. QED
          BY <4>1 DEF Owned
      <3>4. QED
        BY <3>2, <3>3
    <2>3. QED
      BY <1>2, <2>1, <2>2 DEF RunningHasOwner
  <1>3. QED
    BY <1>1, <1>2

\* A step that leaves statuses, owners and orphans alone keeps the invariant.
LEMMA QuietStep ==
  ASSUME RunningHasOwner, phase' = phase, UNCHANGED <<status, pc, cur, orphans>>
  PROVE  RunningHasOwner'
  BY DEF RunningHasOwner, Owned, Owns

\* Every step keeps RunningHasOwner; the process comes up with no task running.
LEMMA StepOwned == IInv /\ [Next]_vars => RunningHasOwner'
  <1> SUFFICES ASSUME TypeOK, HoldsTask, RunningHasOwner, StartupLosesNothing,
                      [Next]_vars
               PROVE  RunningHasOwner'
    BY DEF IInv
  <1> USE KnowledgeTasksAssumption DEF Worker
  <1>1. ASSUME NEW w \in Http, NEW t \in Task, CreateTask(w, t) \/ CreateOwnTask(w, t)
        PROVE  RunningHasOwner'
    <2>1. phase = "up" /\ pc[w] \in {"idle", "select"} /\ orphans' = orphans
          /\ status' = [status EXCEPT ![t] = "queued"]
      BY <1>1 DEF CreateTask, CreateOwnTask
    <2>2. PICK to \in {"put", "claim"} : Goto(w, to, t)
      BY <1>1 DEF CreateTask, CreateOwnTask
    <2>3. QED
      BY <2>1, <2>2, KeepsOwners DEF TypeOK, Owns
  <1>2. ASSUME NEW w \in Http, NEW t \in Task, Requeue(w, t)
        PROVE  RunningHasOwner'
    <2>1. Goto(w, "reput", t)
      BY <1>2 DEF Requeue
    <2>2. QED
      BY <1>2, <2>1, KeepsOwners DEF Requeue, TypeOK, Owns
  <1>3. ASSUME NEW w \in Http, RunQueuedTasks(w)
        PROVE  RunningHasOwner'
    <2>1. Goto(w, "select", NoTask)
      BY <1>3 DEF RunQueuedTasks
    <2>2. QED
      BY <1>3, <2>1, KeepsOwners DEF RunQueuedTasks, Owns
  <1>4. ASSUME NEW w \in Http, PutToken(w)
        PROVE  RunningHasOwner'
    <2>1. PICK to : Goto(w, to, NoTask)
      BY <1>4 DEF PutToken
    <2>2. QED
      BY <1>4, <2>1, KeepsOwners DEF PutToken, Owns
  <1>5. ASSUME NEW w \in Worker, SelectOldest(w)
        PROVE  RunningHasOwner'
    <2>1. PICK to, u : Goto(w, to, u)
      BY <1>5 DEF SelectOldest
    <2>2. QED
      BY <1>5, <2>1, KeepsOwners DEF SelectOldest, Owns
  <1>6. ASSUME NEW w \in Worker, MarkRunning(w)
        PROVE  RunningHasOwner'
    <2>1. Goto(w, "begin", cur[w])
      BY <1>6 DEF MarkRunning
    <2>2. QED
      BY <1>6, <2>1, KeepsOwners DEF MarkRunning, TypeOK, Owns
  <1>7. ASSUME NEW w \in Worker, BeginTask(w)
        PROVE  RunningHasOwner'
    <2>1. CASE status[cur[w]] = "running"
      <3>1. Goto(w, "work", cur[w])
        BY <1>7, <2>1 DEF BeginTask
      <3>2. QED
        BY <1>7, <3>1, KeepsOwners DEF BeginTask, Owns
    <2>2. CASE status[cur[w]] # "running"
      <3>1. Goto(w, After(w), NoTask)
        BY <1>7, <2>2 DEF BeginTask
      <3>2. QED
        BY <1>7, <2>2, <3>1, KeepsOwners DEF BeginTask, Owns
    <2>3. QED
      BY <2>1, <2>2
  <1>8. ASSUME NEW w \in Worker, FinishTask(w)
        PROVE  RunningHasOwner'
    <2>1. PICK outcome \in Settled : FinishAs(w, outcome)
      BY <1>8 DEF FinishTask
    <2>2. Goto(w, After(w), NoTask)
      BY <2>1 DEF FinishAs
    <2>3. QED
      BY <2>1, <2>2, KeepsOwners DEF FinishAs, TypeOK, Owns, Settled
  <1>9. ASSUME NEW w \in Worker, Fault(w)
        PROVE  RunningHasOwner'
    <2>1. PICK to : Goto(w, to, NoTask)
      BY <1>9 DEF Fault
    <2>2. \A t \in Task : Owns(w, t) \/ t \in orphans => t \in orphans'
      BY <1>9 DEF Fault, Owns
    <2>3. QED
      BY <1>9, <2>1, <2>2, KeepsOwners DEF Fault
  <1>10. ASSUME TakeToken
         PROVE  RunningHasOwner'
    <2>1. Goto(Runner, "token", Head(queue))
      BY <1>10 DEF TakeToken
    <2>2. QED
      BY <1>10, <2>1, KeepsOwners DEF TakeToken, Owns
  <1>11. ASSUME Dispatch
         PROVE  RunningHasOwner'
    <2>1. CASE Goto(Runner, "begin", cur[Runner]) /\ orphans' = orphans \ {cur[Runner]}
      BY <1>11, <2>1, KeepsOwners DEF Dispatch, Owns
    <2>2. CASE orphans' = orphans
               /\ \/ Goto(Runner, "select", NoTask)
                  \/ Goto(Runner, "get", NoTask)
      BY <1>11, <2>2, KeepsOwners DEF Dispatch, Owns
    <2>3. QED
      BY <1>11, <2>1, <2>2 DEF Dispatch
  <1>12. ASSUME ListQueued
         PROVE  RunningHasOwner'
    <2>1. Goto(Runner, "drain", NoTask)
      BY <1>12 DEF ListQueued
    <2>2. QED
      BY <1>12, <2>1, KeepsOwners DEF ListQueued, Owns
  <1>13. ASSUME DrainDone
         PROVE  RunningHasOwner'
    <2>1. Goto(Runner, "get", NoTask)
      BY <1>13 DEF DrainDone
    <2>2. QED
      BY <1>13, <2>1, KeepsOwners DEF DrainDone, Owns
  <1>14. CASE PutListed
    BY <1>14, QuietStep DEF PutListed
  <1>15. CASE Boot \/ StartRunner \/ Crash \/ (\E t \in Task : BootCreate(t))
    BY <1>15 DEF Boot, StartRunner, Crash, BootCreate, RunningHasOwner
  <1>16. CASE StartThread
    BY <1>16 DEF StartThread, StartupLosesNothing, RunningHasOwner
  <1>17. CASE UNCHANGED vars
    BY <1>17, QuietStep DEF vars
  <1>18. QED
    BY <1>1, <1>2, <1>3, <1>4, <1>5, <1>6, <1>7, <1>8, <1>9, <1>10, <1>11,
       <1>12, <1>13, <1>14, <1>15, <1>16, <1>17
    DEF Next, Request, Process, RunnerStep, Startup

\* The startup listing covers the queued tasks until each of them is put.
LEMMA StepStartup == IInv /\ [Next]_vars => StartupLosesNothing'
  <1> SUFFICES ASSUME TypeOK, StartupLosesNothing, [Next]_vars,
                      phase' = "loading", NEW t \in Task
               PROVE  /\ status'[t] # "running"
                      /\ status'[t] = "queued" =>
                           t \in todo' \/ \E i \in DOMAIN queue' : queue'[i] = t
    BY DEF IInv, StartupLosesNothing
  <1>1. CASE StartRunner
    BY <1>1 DEF StartRunner, TypeOK, Status
  <1>2. CASE PutListed
    <2>1. phase = "loading" /\ status' = status
      BY <1>2 DEF PutListed
    <2>2. PICK u \in todo : queue' = Append(queue, u) /\ todo' = todo \ {u}
      BY <1>2 DEF PutListed
    <2>3. u \in Task /\ queue \in Seq(Task)
      BY DEF TypeOK
    <2>4. /\ DOMAIN queue' = 1..(Len(queue) + 1)
          /\ queue'[Len(queue) + 1] = u
          /\ \A i \in DOMAIN queue : i \in DOMAIN queue' /\ queue'[i] = queue[i]
      BY <2>2, <2>3
    <2>5. Len(queue) + 1 \in DOMAIN queue'
      BY <2>3, <2>4
    <2>6. QED
      BY <2>1, <2>2, <2>4, <2>5 DEF StartupLosesNothing
  <1>3. CASE UNCHANGED vars
    BY <1>3 DEF vars, StartupLosesNothing
  <1>4. QED
    <2>1. ~(\E w \in Http : Request(w) \/ PutToken(w))
      BY DEF Request, RunQueuedTasks, CreateTask, CreateOwnTask, Requeue, PutToken
    <2>2. ~(\E w \in Worker : Process(w) \/ Fault(w))
      BY DEF Process, SelectOldest, MarkRunning, BeginTask, FinishTask, FinishAs, Fault
    <2>3. ~TakeToken /\ ~Dispatch /\ ~ListQueued /\ ~DrainDone
      BY DEF TakeToken, Dispatch, ListQueued, DrainDone
    <2>4. ~Boot /\ ~StartThread /\ ~Crash /\ ~(\E u \in Task : BootCreate(u))
      BY DEF Boot, StartThread, Crash, BootCreate
    <2>5. QED
      BY <1>1, <1>2, <1>3, <2>1, <2>2, <2>3, <2>4 DEF Next, RunnerStep, Startup

\* No interleaving of requests, the runner, startup, crashes and uncaught
\* exceptions leaves a task running with nobody on it, and a restart finds
\* every task that was ever queued or running and not settled.
THEOREM RunningOwned == Spec => [](RunningHasOwner /\ StartupLosesNothing)
  <1>1. Init => IInv
    BY InitTyped DEF Init, IInv, RunningHasOwner, StartupLosesNothing
  <1>2. IInv /\ [Next]_vars => IInv'
    BY StepTyped, StepOwned, StepStartup DEF IInv
  <1>3. IInv => RunningHasOwner /\ StartupLosesNothing
    BY DEF IInv
  <1>4. QED
    BY <1>1, <1>2, <1>3, PTL DEF Spec

\* When the runner starts, nothing is running and every queued task is in its listing
\* or in its queue, whatever the crash before it interrupted.
THEOREM StartupSafe == Spec => []StartupLosesNothing
  BY RunningOwned, PTL

-----------------------------------------------------------------------------
(* The library *)

\* Every step of the library is a step of the queue or leaves it alone.
LEMMA StepImplements == [LibraryNext]_allVars => [Next]_vars
  <1> SUFFICES ASSUME [LibraryNext]_allVars PROVE [Next]_vars
    OBVIOUS
  <1>1. CASE QueueStep
    BY <1>1 DEF QueueStep, Next, Request, Process, Startup
  <1>2. ASSUME NEW i \in Item, SourceChange(i) \/ BootScan(i)
        PROVE  [Next]_vars
    BY <1>2 DEF SourceChange, BootScan
  <1>3. ASSUME NEW t \in Task, BootEnqueue(t)
        PROVE  [Next]_vars
    BY <1>3 DEF BootEnqueue, Next
  <1>4. ASSUME NEW w \in Http, Scan(w) \/ ScanFault(w)
        PROVE  [Next]_vars
    <2>1. CASE \E t \in Task : ScanEnqueue(w, t)
      BY <2>1 DEF ScanEnqueue, Next, Request
    <2>2. CASE ScanRow(w) \/ ScanWrite(w) \/ EditWrite(w) \/ ScanFault(w)
      BY <2>2 DEF ScanRow, ScanWrite, EditWrite, ScanFault
    <2>3. CASE \E i \in Item : \/ \E own \in BOOLEAN : ScanFile(w, i, own)
                               \/ EditRead(w, i)
      BY <2>3 DEF ScanFile, EditRead
    <2>4. QED
      BY <1>4, <2>1, <2>2, <2>3 DEF Scan
  <1>5. ASSUME NEW w \in Worker, ProcessItem(w)
        PROVE  [Next]_vars
    <2>1. CASE BeginItem(w)
      BY <2>1 DEF BeginItem, Next, Process
    <2>2. CASE FinishItem(w)
      BY <2>2 DEF FinishItem, FinishTask, Settled, Next, Process
    <2>3. CASE MarkItem(w) \/ ParseItem(w) \/ DeleteChunks(w) \/ InsertChunk(w)
      BY <2>3 DEF MarkItem, ParseItem, DeleteChunks, InsertChunk
    <2>4. CASE IndexItem(w) \/ WorkFails(w) \/ FailItem(w)
      BY <2>4 DEF IndexItem, WorkFails, FailItem
    <2>5. QED
      BY <1>5, <2>1, <2>2, <2>3, <2>4 DEF ProcessItem
  <1>6. ASSUME NEW w \in Worker, ItemFault(w)
        PROVE  [Next]_vars
    BY <1>6 DEF ItemFault, Next
  <1>7. CASE LibraryCrash
    BY <1>7 DEF LibraryCrash, Next
  <1>8. CASE UNCHANGED allVars
    BY <1>8 DEF allVars
  <1>9. QED
    BY <1>1, <1>2, <1>3, <1>4, <1>5, <1>6, <1>7, <1>8 DEF LibraryNext

\* The library implements the queue: process_task with everything it does to an
\* item, the scans, the edits and the startup scan are the queue's own steps or
\* are invisible to it.
THEOREM LibraryImplementsTasks == LibrarySpec => Spec
  <1>1. LibraryInit => Init
    BY DEF LibraryInit
  <1>2. QED
    BY <1>1, StepImplements, PTL DEF LibrarySpec, Spec

\* So in the library, too, no task is running with nobody on it, and a restart
\* finds every open task.
THEOREM LibraryRunningOwned == LibrarySpec => [](RunningHasOwner /\ StartupLosesNothing)
  BY LibraryImplementsTasks, RunningOwned

-----------------------------------------------------------------------------
(* What the queue guarantees its users *)

\* Every id that a thread, a listing or the token queue holds is a row of the table.
Known ==
  /\ \A w \in Worker : pc[w] \in HoldingPC => status[cur[w]] # "absent"
  /\ \A t \in todo : status[t] # "absent"
  /\ \A k \in DOMAIN queue : status[queue[k]] # "absent"

\* No step takes a row off the table.
LEMMA RowsStay ==
  ASSUME TypeOK, HoldsTask, [Next]_vars, NEW t \in Task, status[t] # "absent"
  PROVE  status'[t] # "absent"
  <1> USE DEF TypeOK, Status, Settled
  <1>1. CASE \E w \in Http : Request(w) \/ PutToken(w)
    BY <1>1 DEF Request, PutToken, RunQueuedTasks, CreateTask, CreateOwnTask, Requeue
  <1>2. CASE \E w \in Worker : Process(w) \/ Fault(w)
    BY <1>2 DEF Process, Fault, SelectOldest, MarkRunning, BeginTask, FinishTask, FinishAs
  <1>3. CASE RunnerStep
    BY <1>3 DEF RunnerStep, TakeToken, Dispatch, ListQueued, PutListed, DrainDone
  <1>4. CASE Startup \/ Crash \/ UNCHANGED vars \/ \E u \in Task : BootCreate(u)
    BY <1>4 DEF Startup, Boot, StartRunner, StartThread, Crash, BootCreate, vars
  <1>5. QED
    BY <1>1, <1>2, <1>3, <1>4 DEF Next

\* A thread that moves to a place where it holds a task takes the id of a row.
LEMMA GotoKnown ==
  ASSUME TypeOK, HoldsTask, Known, [Next]_vars, NEW w \in Worker, NEW to, NEW t,
         Goto(w, to, t), to \in HoldingPC => status'[t] # "absent"
  PROVE  \A v \in Worker : pc'[v] \in HoldingPC => status'[cur'[v]] # "absent"
  BY RowsStay DEF Known, Goto, TypeOK, HoldsTask

\* The listing and the token queue, when they stay as they are.
LEMMA QueueKnown ==
  ASSUME TypeOK, HoldsTask, Known, [Next]_vars, UNCHANGED <<todo, queue>>
  PROVE  /\ \A t \in todo' : status'[t] # "absent"
         /\ \A k \in DOMAIN queue' : status'[queue'[k]] # "absent"
  <1>1. \A k \in DOMAIN queue : queue[k] \in Task
    BY DEF TypeOK
  <1>2. QED
    BY <1>1, RowsStay DEF Known, TypeOK

\* Every step of the queue keeps its ids.
LEMMA StepKnown == TypeOK /\ HoldsTask /\ Known /\ [Next]_vars => Known'
  <1> SUFFICES ASSUME TypeOK, HoldsTask, Known, [Next]_vars PROVE Known'
    OBVIOUS
  <1> USE KnowledgeTasksAssumption DEF Worker
  <1>0. \A k \in DOMAIN queue : queue[k] \in Task
    BY DEF TypeOK
  <1>1. ASSUME NEW w \in Http, NEW t \in Task,
               CreateTask(w, t) \/ CreateOwnTask(w, t) \/ Requeue(w, t)
        PROVE  Known'
    <2>1. PICK to : Goto(w, to, t)
      BY <1>1 DEF CreateTask, CreateOwnTask, Requeue
    <2>2. status'[t] # "absent" /\ UNCHANGED <<todo, queue>>
      BY <1>1 DEF CreateTask, CreateOwnTask, Requeue, TypeOK
    <2>3. QED
      BY <2>1, <2>2, GotoKnown, QueueKnown DEF Known
  <1>2. ASSUME NEW w \in Http, RunQueuedTasks(w)
        PROVE  Known'
    <2>1. Goto(w, "select", NoTask) /\ UNCHANGED <<todo, queue>>
      BY <1>2 DEF RunQueuedTasks
    <2>2. QED
      BY <2>1, GotoKnown, QueueKnown DEF Known, HoldingPC
  <1>3. ASSUME NEW w \in Http, PutToken(w)
        PROVE  Known'
    <2>1. PICK to \in {"select", "idle"} : Goto(w, to, NoTask)
      BY <1>3 DEF PutToken
    <2>2. /\ cur[w] \in Task /\ status[cur[w]] # "absent" /\ status' = status
          /\ todo' = todo /\ queue' = Append(queue, cur[w])
      BY <1>3 DEF PutToken, Known, HoldsTask, HoldingPC
    <2>3. \A k \in DOMAIN queue' : status'[queue'[k]] # "absent"
      BY <1>0, <2>2 DEF Known, TypeOK
    <2>4. QED
      BY <2>1, <2>2, <2>3, GotoKnown DEF Known, HoldingPC
  <1>4. ASSUME NEW w \in Worker, Process(w) \/ Fault(w)
        PROVE  Known'
    <2>1. PICK to, t : Goto(w, to, t) /\ (to \in HoldingPC => status'[t] # "absent")
      <3>1. CASE SelectOldest(w)
        <4>1. CASE Goto(w, Home(w), NoTask)
          BY <4>1 DEF Home, HoldingPC
        <4>2. CASE \E t \in Queued : Goto(w, "claim", t)
          BY <3>1, <4>2 DEF SelectOldest, Queued
        <4>3. QED
          BY <3>1, <4>1, <4>2 DEF SelectOldest
      <3>2. CASE MarkRunning(w)
        BY <3>2 DEF MarkRunning, TypeOK, HoldsTask, HoldingPC
      <3>3. CASE BeginTask(w)
        BY <3>3 DEF BeginTask, After, HoldingPC
      <3>4. CASE FinishTask(w)
        BY <3>4 DEF FinishTask, FinishAs, After, HoldingPC
      <3>5. CASE Fault(w)
        BY <3>5 DEF Fault, HoldingPC
      <3>6. QED
        BY <1>4, <3>1, <3>2, <3>3, <3>4, <3>5 DEF Process
    <2>2. queue' = queue /\ todo' \subseteq todo
      BY <1>4 DEF Process, SelectOldest, MarkRunning, BeginTask, FinishTask, FinishAs, Fault
    <2>3. /\ \A u \in todo' : status'[u] # "absent"
          /\ \A k \in DOMAIN queue' : status'[queue'[k]] # "absent"
      BY <1>0, <2>2, RowsStay DEF Known, TypeOK
    <2>4. QED
      BY <2>1, <2>3, GotoKnown DEF Known
  <1>5. ASSUME TakeToken
        PROVE  Known'
    <2>1. /\ Goto(Runner, "token", Head(queue)) /\ status' = status
          /\ queue' = Tail(queue) /\ todo' = todo /\ queue # <<>>
      BY <1>5 DEF TakeToken
    <2>2. Head(queue) = queue[1] /\ 1 \in DOMAIN queue
      BY <2>1 DEF TypeOK
    <2>3. \A k \in DOMAIN queue' : status'[queue'[k]] # "absent"
      BY <2>1 DEF Known, TypeOK
    <2>4. QED
      BY <2>1, <2>2, <2>3, GotoKnown DEF Known
  <1>6. ASSUME Dispatch
        PROVE  Known'
    <2>1. PICK to, t : /\ to \in {"select", "begin", "get"} /\ Goto(Runner, to, t)
                       /\ to = "begin" => status'[t] # "absent"
      BY <1>6 DEF Dispatch
    <2>2. UNCHANGED <<todo, queue>>
      BY <1>6 DEF Dispatch
    <2>3. QED
      BY <2>1, <2>2, GotoKnown, QueueKnown DEF Known, HoldingPC
  <1>7. ASSUME ListQueued \/ DrainDone
        PROVE  Known'
    <2>1. PICK to \in {"drain", "get"} : Goto(Runner, to, NoTask)
      BY <1>7 DEF ListQueued, DrainDone
    <2>2. status' = status /\ queue' = queue /\ \A t \in todo' : status[t] # "absent"
      BY <1>7 DEF ListQueued, DrainDone, Queued, Known
    <2>3. QED
      BY <2>1, <2>2, GotoKnown DEF Known, HoldingPC
  <1>8. ASSUME PutListed
        PROVE  Known'
    <2>1. PICK u \in todo : queue' = Append(queue, u)
      BY <1>8 DEF PutListed
    <2>2. UNCHANGED <<pc, cur, status>> /\ todo' \subseteq todo
      BY <1>8 DEF PutListed
    <2>3. \A k \in DOMAIN queue' : status[queue'[k]] # "absent"
      BY <2>1, <1>0 DEF Known, TypeOK
    <2>4. QED
      BY <2>2, <2>3 DEF Known
  <1>9. ASSUME NEW t \in Task, BootCreate(t)
        PROVE  Known'
    <2>1. queue' = Append(queue, t) /\ UNCHANGED <<todo, pc, cur>> /\ status'[t] # "absent"
      BY <1>9 DEF BootCreate, TypeOK
    <2>2. \A k \in DOMAIN queue' : queue'[k] = t \/ (k \in DOMAIN queue /\ queue'[k] = queue[k])
      BY <2>1 DEF TypeOK
    <2>3. QED
      BY <1>0, <2>1, <2>2, RowsStay DEF Known, TypeOK, HoldsTask
  <1>10. ASSUME Boot \/ StartThread
         PROVE  Known'
    BY <1>10, QueueKnown, GotoKnown DEF Boot, StartThread, Known, HoldingPC
  <1>11. ASSUME StartRunner
         PROVE  Known'
    BY <1>11, <1>0, RowsStay DEF StartRunner, Known, HoldsTask, TypeOK
  <1>12. ASSUME Crash
         PROVE  Known'
    BY <1>12 DEF Crash, Known, HoldingPC
  <1>13. CASE UNCHANGED vars
    BY <1>13 DEF vars, Known
  <1>14. QED
    BY <1>1, <1>2, <1>3, <1>4, <1>5, <1>6, <1>7, <1>8, <1>9, <1>10, <1>11, <1>12, <1>13
    DEF Next, Request, RunnerStep, Startup

-----------------------------------------------------------------------------
(* The library *)

Open == {"queued", "running"}

\* Nobody raced for the item and nothing was written back over it.
Clean(i) == mishap[i] \cap {"overlap", "overwrite"} = {}

\* A thread at work on an item is processing the task of that item; a scan is
\* in a request, or is the startup scan in the runner's place.
Placed ==
  \A w \in Worker :
    /\ job[w].at \in Working =>
         /\ phase = "up" /\ pc[w] = "work"
         /\ job[w].item \in Item /\ target[cur[w]] = job[w].item
         /\ status[cur[w]] # "absent"
    /\ job[w].at \in Scanning =>
         /\ job[w].item \in Item
         /\ w = Runner => phase = "syncing" /\ job[w].at = "enqueue"
         /\ w # Runner => phase = "up" /\ pc[w] = "idle"

\* Every task is a task of some item.
Targets == \A t \in Task : status[t] # "absent" => target[t] \in Item

\* The fingerprints in rows and in the hands of scans are of versions there were.
Current ==
  /\ \A i \in Item : row[i].hash <= disk[i]
  /\ \A w \in Worker : job[w].at \in Scanning =>
       /\ job[w].ver <= disk[job[w].item]
       /\ job[w].row.hash <= disk[job[w].item]

PlaceInv == LibraryTypeOK /\ HoldsTask /\ Known /\ Placed /\ Targets /\ Current

\* Become and Note write what their variables hold.
LEMMA BecomeTyped ==
  ASSUME LibraryTypeOK, NEW w \in Worker, NEW j \in Job, Become(w, j)
  PROVE  job' \in [Worker -> Job]
  BY DEF LibraryTypeOK, Become

LEMMA NoteTyped ==
  ASSUME LibraryTypeOK, NEW S, NEW m \in Mishap, Note(S, m)
  PROVE  mishap' \in [Item -> SUBSET Mishap]
  BY DEF LibraryTypeOK, Note

\* A thread at rest.
LEMMA RestTyped == Rest \in Job /\ Rest.at = "none"
  BY DEF Rest, Job, NoItem, NoRow, Row, Stage, Empty

\* The steps of the queue under the library.
LEMMA QueueTyped ==
  ASSUME LibraryTypeOK, HoldsTask, Known, [LibraryNext]_allVars
  PROVE  TypeOK' /\ HoldsTask' /\ Known'
  BY StepImplements, StepTyped, StepKnown DEF LibraryTypeOK

\* The types.
LEMMA StepLibraryTyped == PlaceInv /\ [LibraryNext]_allVars => LibraryTypeOK'
  <1> SUFFICES ASSUME PlaceInv, [LibraryNext]_allVars PROVE LibraryTypeOK'
    OBVIOUS
  <1> USE KnowledgeTasksAssumption, KnowledgeLibraryAssumption DEF Worker
  <1>t. TypeOK' /\ HoldsTask'
    BY QueueTyped DEF PlaceInv
  <1>r. /\ LibraryTypeOK /\ Rest \in Job
        /\ \A w \in Worker : job[w] \in Job
        /\ \A w \in Worker : job[w].at \in Working \cup Scanning => job[w].item \in Item
    BY RestTyped DEF PlaceInv, LibraryTypeOK, Placed
  <1>1. CASE QueueStep
    BY <1>1, <1>t, <1>r DEF QueueStep, libVars, LibraryTypeOK
  <1>2. ASSUME NEW i \in Item, SourceChange(i)
        PROVE  LibraryTypeOK'
    BY <1>2, <1>t, <1>r DEF SourceChange, LibraryTypeOK, Version
  <1>3. ASSUME NEW i \in Item, BootScan(i)
        PROVE  LibraryTypeOK'
    <2>1. Marked(row[i], disk[i]) \in Row
      BY <1>r DEF LibraryTypeOK, Marked, Row, Stage
    <2>2. [Rest EXCEPT !.at = "enqueue", !.item = i] \in Job
      BY <1>r DEF Rest, Job, Scanning
    <2>3. job' \in [Worker -> Job]
      BY <1>3, <2>2, <1>r, BecomeTyped DEF BootScan
    <2>4. QED
      BY <1>3, <2>1, <2>3, <1>t, <1>r DEF BootScan, LibraryTypeOK
  <1>4. ASSUME NEW t \in Task, BootEnqueue(t)
        PROVE  LibraryTypeOK'
    <2>1. job' \in [Worker -> Job]
      BY <1>4, <1>r, BecomeTyped DEF BootEnqueue
    <2>2. job[Runner].item \in Item
      BY <1>4, <1>r DEF BootEnqueue, Scanning
    <2>3. QED
      BY <1>4, <2>1, <2>2, <1>t, <1>r DEF BootEnqueue, LibraryTypeOK
  <1>5. ASSUME NEW w \in Http, NEW i \in Item, NEW own \in BOOLEAN, ScanFile(w, i, own)
        PROVE  LibraryTypeOK'
    <2>1. [Rest EXCEPT !.at = "row", !.item = i, !.own = own, !.ver = disk[i]] \in Job
      BY <1>r DEF Rest, Job, Scanning, LibraryTypeOK
    <2>2. job' \in [Worker -> Job]
      BY <1>5, <2>1, <1>r, BecomeTyped DEF ScanFile
    <2>3. QED
      BY <1>5, <2>2, <1>t, <1>r DEF ScanFile, LibraryTypeOK
  <1>6. ASSUME NEW w \in Http, ScanRow(w)
        PROVE  LibraryTypeOK'
    <2>1. [job[w] EXCEPT !.at = "write", !.row = row[job[w].item]] \in Job
      BY <1>6, <1>r DEF ScanRow, Scanning, Job, LibraryTypeOK
    <2>2. job' \in [Worker -> Job]
      BY <1>6, <2>1, <1>r, BecomeTyped DEF ScanRow
    <2>3. QED
      BY <1>6, <2>2, <1>t, <1>r DEF ScanRow, LibraryTypeOK
  <1>7. ASSUME NEW w \in Http, WriteBack(w), job[w].at \in Scanning,
               UNCHANGED <<disk, slots, target>>
        PROVE  LibraryTypeOK'
    <2>1. job' \in [Worker -> Job]
      BY <1>7, <1>r, BecomeTyped DEF WriteBack
    <2>2. mishap' \in [Item -> SUBSET Mishap]
      BY <1>7, <1>r, NoteTyped DEF WriteBack, Mishap
    <2>3. job[w].row \in Row
      BY <1>r DEF Job
    <2>4. QED
      BY <1>7, <2>1, <2>2, <2>3, <1>t, <1>r DEF WriteBack, LibraryTypeOK
  <1>8. ASSUME NEW w \in Http, ScanWrite(w)
        PROVE  LibraryTypeOK'
    <2>1. CASE Changed(job[w].row, job[w].ver, job[w].own)
      <3>1. job' = [job EXCEPT ![w].at = "enqueue"]
        BY <1>8, <2>1 DEF ScanWrite, Advance
      <3>2. job' \in [Worker -> Job]
        BY ZenonT(40), <3>1, <1>r DEF LibraryTypeOK, Job, Scanning
      <3>3. job[w].ver \in Version \cup {0} /\ Marked(job[w].row, job[w].ver) \in Row
        BY <1>r DEF Job, Empty, Marked, Row, Stage
      <3>4. QED
        BY <1>8, <2>1, <3>2, <3>3, <1>t, <1>r DEF ScanWrite, LibraryTypeOK
    <2>2. CASE ~Changed(job[w].row, job[w].ver, job[w].own)
      BY <1>7, <1>8, <2>2 DEF ScanWrite, Scanning
    <2>3. QED
      BY <2>1, <2>2
  <1>9. ASSUME NEW w \in Http, NEW t \in Task, ScanEnqueue(w, t)
        PROVE  LibraryTypeOK'
    <2>1. job' \in [Worker -> Job]
      BY <1>9, <1>r, BecomeTyped DEF ScanEnqueue
    <2>2. job[w].item \in Item
      BY <1>9, <1>r DEF ScanEnqueue, Scanning
    <2>3. QED
      BY <1>9, <2>1, <2>2, <1>t, <1>r DEF ScanEnqueue, LibraryTypeOK
  <1>10. ASSUME NEW w \in Http, NEW i \in Item, EditRead(w, i)
         PROVE  LibraryTypeOK'
    <2>1. [Rest EXCEPT !.at = "edit", !.item = i, !.row = row[i]] \in Job
      BY <1>r DEF Rest, Job, Scanning, LibraryTypeOK
    <2>2. job' \in [Worker -> Job]
      BY <1>10, <2>1, <1>r, BecomeTyped DEF EditRead
    <2>3. QED
      BY <1>10, <2>2, <1>t, <1>r DEF EditRead, LibraryTypeOK
  <1>11. ASSUME NEW w \in Http, EditWrite(w)
         PROVE  LibraryTypeOK'
    BY <1>7, <1>11 DEF EditWrite, Scanning
  <1>12. ASSUME NEW w \in Http, ScanFault(w)
         PROVE  LibraryTypeOK'
    <2>1. job' \in [Worker -> Job]
      BY <1>12, <1>r, BecomeTyped DEF ScanFault
    <2>2. mishap' \in [Item -> SUBSET Mishap]
      BY <1>12, <1>r, NoteTyped DEF ScanFault, Mishap
    <2>3. QED
      BY <1>12, <2>1, <2>2, <1>t, <1>r DEF ScanFault, LibraryTypeOK
  <1>13. ASSUME NEW w \in Worker, BeginItem(w)
         PROVE  LibraryTypeOK'
    <2>1. CASE pc'[w] = "work"
      <3>1. target[cur[w]] \in Item \cup {NoItem}
        BY <1>13 DEF BeginItem, BeginTask, PlaceInv, LibraryTypeOK, HoldsTask, HoldingPC
      <3>2. [Rest EXCEPT !.at = "mark", !.item = target[cur[w]]] \in Job
        BY <1>r, <3>1 DEF Rest, Job, Working
      <3>3. job' \in [Worker -> Job]
        BY <1>13, <2>1, <3>2, <1>r, BecomeTyped DEF BeginItem
      <3>4. mishap' \in [Item -> SUBSET Mishap]
        BY <1>13, <2>1, <1>r, NoteTyped DEF BeginItem, Mishap
      <3>5. QED
        BY <1>13, <3>3, <3>4, <1>t, <1>r DEF BeginItem, LibraryTypeOK
    <2>2. CASE pc'[w] # "work"
      BY <1>13, <2>2, <1>t, <1>r DEF BeginItem, LibraryTypeOK
    <2>3. QED
      BY <2>1, <2>2
  <1>14. ASSUME NEW w \in Worker, MarkItem(w) \/ IndexItem(w) \/ FailItem(w)
         PROVE  LibraryTypeOK'
    <2>1. PICK to \in Working : job' = [job EXCEPT ![w].at = to]
      BY <1>14 DEF MarkItem, IndexItem, FailItem, Advance, Working
    <2>2. job' \in [Worker -> Job]
      BY ZenonT(40), <2>1, <1>r DEF LibraryTypeOK, Job
    <2>3. PICK s \in Stage : row' = [row EXCEPT ![job[w].item].stage = s]
      BY <1>14 DEF MarkItem, IndexItem, FailItem, SetStage, Stage
    <2>4. row' \in [Item -> Row]
      BY <2>3, <1>r DEF LibraryTypeOK, Row
    <2>5. QED
      BY <1>14, <2>2, <2>4, <1>t, <1>r DEF MarkItem, IndexItem, FailItem, LibraryTypeOK
  <1>15. ASSUME NEW w \in Worker, ParseItem(w)
         PROVE  LibraryTypeOK'
    <2>1. [job[w] EXCEPT !.at = "delete", !.ver = disk[job[w].item]] \in Job
      BY ZenonT(40), <1>15, <1>r DEF ParseItem, Working, Job, LibraryTypeOK
    <2>2. job' \in [Worker -> Job]
      BY <1>15, <2>1, <1>r, BecomeTyped DEF ParseItem
    <2>3. QED
      BY <1>15, <2>2, <1>t, <1>r DEF ParseItem, LibraryTypeOK
  <1>16. ASSUME NEW w \in Worker, DeleteChunks(w)
         PROVE  LibraryTypeOK'
    <2>1. [job[w] EXCEPT !.at = "insert", !.nxt = 1] \in Job
      <3>1. 1 \in Slot /\ "insert" \in Working
        BY DEF Slot, Working
      <3>2. QED
        BY <3>1, <1>r DEF Job
    <2>2. job' \in [Worker -> Job]
      BY <1>16, <2>1, <1>r, BecomeTyped DEF DeleteChunks
    <2>3. slots' \in [Item -> [Slot -> Version \cup {Empty}]]
      BY <1>16, <1>r DEF DeleteChunks, LibraryTypeOK
    <2>4. QED
      BY <1>16, <2>2, <2>3, <1>t, <1>r DEF DeleteChunks, LibraryTypeOK
  <1>17. ASSUME NEW w \in Worker, InsertChunk(w)
         PROVE  LibraryTypeOK'
    <2>1. [job[w] EXCEPT !.at = "index"] \in Job
      BY <1>r DEF Working, Job
    <2>2. job[w].nxt # Chunks => [job[w] EXCEPT !.nxt = @ + 1] \in Job
      BY <1>r DEF Job, Slot
    <2>3. job' \in [Worker -> Job]
      BY <1>17, <2>1, <2>2, <1>r, BecomeTyped DEF InsertChunk
    <2>4. job[w].ver \in Version \cup {Empty}
      BY <1>r DEF Job
    <2>5. slots' \in [Item -> [Slot -> Version \cup {Empty}]]
      BY <1>17, <2>4, <1>r DEF InsertChunk, LibraryTypeOK
    <2>6. QED
      BY <1>17, <2>3, <2>5, <1>t, <1>r DEF InsertChunk, LibraryTypeOK
  <1>18. ASSUME NEW w \in Worker, WorkFails(w)
         PROVE  LibraryTypeOK'
    <2>1. job' \in [Worker -> Job]
      <3>1. job' = [job EXCEPT ![w].at = "fail"] /\ "fail" \in Working
        BY <1>18 DEF WorkFails, Advance, Working
      <3>2. QED
        BY ZenonT(40), <3>1, <1>r DEF LibraryTypeOK, Job
    <2>2. QED
      BY <1>18, <2>1, <1>t, <1>r DEF WorkFails, LibraryTypeOK
  <1>19. ASSUME NEW w \in Worker, FinishItem(w) \/ ItemFault(w)
         PROVE  LibraryTypeOK'
    <2>1. job' \in [Worker -> Job]
      BY <1>19, <1>r, BecomeTyped DEF FinishItem, ItemFault
    <2>2. QED
      BY <1>19, <2>1, <1>t, <1>r DEF FinishItem, ItemFault, LibraryTypeOK
  <1>20. CASE LibraryCrash
    <2>1. job' \in [Worker -> Job]
      BY <1>20, <1>r DEF LibraryCrash
    <2>2. mishap' \in [Item -> SUBSET Mishap]
      BY <1>20, <1>r, NoteTyped DEF LibraryCrash, Mishap
    <2>3. QED
      BY <1>20, <2>1, <2>2, <1>t, <1>r DEF LibraryCrash, LibraryTypeOK
  <1>21. CASE UNCHANGED allVars
    BY <1>21, <1>t, <1>r DEF allVars, libVars, LibraryTypeOK
  <1>22. QED
    BY <1>1, <1>2, <1>3, <1>4, <1>5, <1>6, <1>8, <1>9, <1>10, <1>11, <1>12, <1>13,
       <1>14, <1>15, <1>16, <1>17, <1>18, <1>19, <1>20, <1>21
    DEF LibraryNext, Scan, ProcessItem

-----------------------------------------------------------------------------
\* A step of the queue moves no thread that is at work on an item or scans one,
\* closes no task and makes none.
LEMMA QueueFrame ==
  ASSUME PlaceInv, QueueStep
  PROVE  /\ \A w \in Worker : job[w].at \in Working \cup Scanning =>
              phase' = phase /\ pc'[w] = pc[w] /\ cur'[w] = cur[w]
         /\ \A t \in Task : status[t] \in Open => status'[t] \in Open
         /\ \A t \in Task : status[t] = "absent" => status'[t] = "absent"
         /\ UNCHANGED libVars
  <1> USE KnowledgeTasksAssumption DEF Worker, Open
  <1>r. /\ TypeOK /\ HoldsTask /\ Known /\ Placed
        /\ \A w \in Worker : job[w].at = "none" => job[w].at \notin Working \cup Scanning
    BY DEF PlaceInv, LibraryTypeOK, Working, Scanning
  <1>1. ASSUME NEW w \in Http,
               \/ job[w].at = "none" /\ RunQueuedTasks(w)
               \/ job[w].at = "none" /\ \E t \in Task : Requeue(w, t)
               \/ PutToken(w)
        PROVE  /\ \A v \in Worker : job[v].at \in Working \cup Scanning =>
                    phase' = phase /\ pc'[v] = pc[v] /\ cur'[v] = cur[v]
               /\ \A t \in Task : status[t] \in Open => status'[t] \in Open
               /\ \A t \in Task : status[t] = "absent" => status'[t] = "absent"
    <2>1. /\ phase' = phase
          /\ \A v \in Worker \ {w} : pc'[v] = pc[v] /\ cur'[v] = cur[v]
          /\ job[w].at \in Working \cup Scanning => pc[w] \in {"put", "reput"} /\ phase = "up"
      BY <1>1, <1>r DEF RunQueuedTasks, Requeue, PutToken, Goto, TypeOK
    <2>2. job[w].at \notin Working \cup Scanning
      BY <2>1, <1>r DEF Placed
    <2>3. /\ \A t \in Task : status[t] \in Open => status'[t] \in Open
          /\ \A t \in Task : status[t] = "absent" => status'[t] = "absent"
      BY <1>1, <1>r DEF RunQueuedTasks, Requeue, PutToken, TypeOK
    <2>4. QED
      BY <2>1, <2>2, <2>3
  <1>2. ASSUME NEW w \in Worker, SelectOldest(w) \/ MarkRunning(w)
        PROVE  /\ \A v \in Worker : job[v].at \in Working \cup Scanning =>
                    phase' = phase /\ pc'[v] = pc[v] /\ cur'[v] = cur[v]
               /\ \A t \in Task : status[t] \in Open => status'[t] \in Open
               /\ \A t \in Task : status[t] = "absent" => status'[t] = "absent"
    <2>1. /\ phase' = phase /\ phase = "up" /\ pc[w] \in {"select", "claim"}
          /\ \A v \in Worker \ {w} : pc'[v] = pc[v] /\ cur'[v] = cur[v]
      BY <1>2, <1>r DEF SelectOldest, MarkRunning, Goto, TypeOK
    <2>2. job[w].at \notin Working \cup Scanning
      BY <2>1, <1>r DEF Placed
    <2>3. pc[w] = "claim" => cur[w] \in Task /\ status[cur[w]] # "absent"
      BY <1>r DEF Known, HoldsTask, HoldingPC
    <2>4. /\ \A t \in Task : status[t] \in Open => status'[t] \in Open
          /\ \A t \in Task : status[t] = "absent" => status'[t] = "absent"
      BY <1>2, <1>r, <2>3 DEF SelectOldest, MarkRunning, TypeOK
    <2>5. QED
      BY <2>1, <2>2, <2>4
  <1>3. CASE RunnerStep
    <2>1. /\ phase' = phase /\ status' = status
          /\ \A v \in Worker \ {Runner} : pc'[v] = pc[v] /\ cur'[v] = cur[v]
      BY <1>3, <1>r
      DEF RunnerStep, TakeToken, Dispatch, ListQueued, PutListed, DrainDone, Goto, TypeOK
    <2>2. \/ pc' = pc /\ cur' = cur
          \/ phase = "up" /\ pc[Runner] \in {"get", "token", "drain"}
      BY <1>3 DEF RunnerStep, TakeToken, Dispatch, ListQueued, PutListed, DrainDone
    <2>3. QED
      BY <2>1, <2>2, <1>3, <1>r DEF Placed, QueueStep
  <1>4. CASE Boot \/ StartThread \/ (job[Runner].at = "none" /\ StartRunner)
    <2>1. \A w \in Worker : job[w].at \notin Working \cup Scanning
      BY <1>4, <1>r DEF Boot, StartThread, StartRunner, Placed
    <2>2. /\ \A t \in Task : status[t] \in Open => status'[t] \in Open
          /\ \A t \in Task : status[t] = "absent" => status'[t] = "absent"
      BY <1>4 DEF Boot, StartThread, StartRunner
    <2>3. QED
      BY <2>1, <2>2 DEF QueueStep
  <1>5. UNCHANGED libVars
    BY DEF QueueStep
  <1>6. QED
    BY <1>1, <1>2, <1>3, <1>4, <1>5 DEF QueueStep

\* A step that starts no work and no scan keeps the threads in their places.
LEMMA PlacedAside ==
  ASSUME PlaceInv, [LibraryNext]_allVars,
         \A w \in Worker : job'[w].at \in Working =>
           /\ job[w].at \in Working /\ job'[w].item = job[w].item
           /\ phase' = phase /\ pc'[w] = pc[w] /\ cur'[w] = cur[w],
         \A w \in Worker : job'[w].at \in Scanning =>
           /\ job[w].at \in Scanning /\ job'[w].item = job[w].item
           /\ phase' = phase /\ pc'[w] = pc[w]
           /\ w = Runner => job'[w] = job[w],
         \A t \in Task : status[t] # "absent" => target'[t] = target[t],
         \A t \in Task : status[t] = "absent" /\ status'[t] # "absent" => target'[t] \in Item
  PROVE  Placed' /\ Targets'
  <1>1. \A w \in Worker : pc[w] = "work" => cur[w] \in Task
    BY DEF PlaceInv, HoldsTask, HoldingPC
  <1>2. \A t \in Task : status[t] # "absent" => status'[t] # "absent"
    BY StepImplements, RowsStay DEF PlaceInv, LibraryTypeOK
  <1>3. Placed'
    BY <1>1, <1>2 DEF PlaceInv, Placed
  <1>4. Targets'
    BY <1>2 DEF PlaceInv, Targets
  <1>5. QED
    BY <1>3, <1>4

\* Threads and tasks stay in their places.
LEMMA StepPlaced == PlaceInv /\ [LibraryNext]_allVars => Placed' /\ Targets'
  <1> SUFFICES ASSUME PlaceInv, [LibraryNext]_allVars PROVE Placed' /\ Targets'
    OBVIOUS
  <1> USE KnowledgeTasksAssumption DEF Worker
  <1>r. /\ LibraryTypeOK /\ TypeOK /\ HoldsTask /\ Known /\ Placed /\ Targets
        /\ Rest.at = "none" /\ Rest.at \notin Working \cup Scanning
        /\ Working \cap Scanning = {}
    BY RestTyped DEF PlaceInv, LibraryTypeOK, Working, Scanning
  <1>1. CASE QueueStep
    BY <1>1, QueueFrame, PlacedAside DEF libVars
  <1>2. ASSUME NEW i \in Item, SourceChange(i)
        PROVE  Placed' /\ Targets'
    BY <1>2, PlacedAside DEF SourceChange, vars
  <1>3. ASSUME NEW i \in Item, BootScan(i)
        PROVE  Placed' /\ Targets'
    <2>1. /\ phase = "syncing" /\ UNCHANGED <<vars, target>>
          /\ job' = [job EXCEPT ![Runner] = [Rest EXCEPT !.at = "enqueue", !.item = i]]
      BY <1>3 DEF BootScan, Become
    <2>2. job'[Runner].at = "enqueue" /\ job'[Runner].item = i /\ "enqueue" \in Scanning \ Working
      BY <2>1, <1>r DEF LibraryTypeOK, Rest, Scanning, Working
    <2>3. \A w \in Worker \ {Runner} : job'[w] = job[w]
      BY <2>1, <1>r DEF LibraryTypeOK
    <2>4. QED
      BY <2>1, <2>2, <2>3, <1>r DEF Placed, Targets, vars
  <1>4. ASSUME NEW w \in Worker, NEW t \in Task, NextId(t), job[w].at = "enqueue",
               \A v \in Worker \ {w} : pc'[v] = pc[v] /\ cur'[v] = cur[v],
               phase' = phase, status' = [status EXCEPT ![t] = "queued"],
               Become(w, Rest), target' = [target EXCEPT ![t] = job[w].item]
        PROVE  Placed' /\ Targets'
    <2>1. job[w].item \in Item /\ status[t] = "absent"
      BY <1>4, <1>r DEF Placed, Scanning, NextId
    <2>2. job'[w] = Rest /\ \A v \in Worker \ {w} : job'[v] = job[v]
      BY <1>4, <1>r DEF LibraryTypeOK, Become
    <2>3. /\ \A u \in Task : status[u] # "absent" => target'[u] = target[u]
          /\ \A u \in Task : status[u] = "absent" /\ status'[u] # "absent" => target'[u] \in Item
      BY <1>4, <2>1, <1>r DEF LibraryTypeOK, TypeOK
    <2>4. QED
      BY <1>4, <2>2, <2>3, <1>r, PlacedAside
  <1>5. ASSUME NEW t \in Task, BootEnqueue(t)
        PROVE  Placed' /\ Targets'
    BY <1>4, <1>5 DEF BootEnqueue, BootCreate
  <1>6. ASSUME NEW w \in Http, NEW t \in Task, ScanEnqueue(w, t)
        PROVE  Placed' /\ Targets'
    <2>1. CreateTask(w, t) \/ CreateOwnTask(w, t)
      BY <1>6 DEF ScanEnqueue
    <2>2. \A v \in Worker \ {w} : pc'[v] = pc[v] /\ cur'[v] = cur[v]
      BY <2>1, <1>r DEF CreateTask, CreateOwnTask, Goto, TypeOK
    <2>3. QED
      BY <1>4, <1>6, <2>1, <2>2 DEF ScanEnqueue, CreateTask, CreateOwnTask
  <1>7. ASSUME NEW w \in Http, NEW i \in Item, NEW j, Free(w), Become(w, j),
               j.at \in Scanning, j.item = i, UNCHANGED <<vars, target>>
        PROVE  Placed' /\ Targets'
    <2>1. job'[w] = j /\ \A v \in Worker \ {w} : job'[v] = job[v]
      BY <1>7, <1>r DEF LibraryTypeOK, Become
    <2>2. QED
      BY <1>7, <2>1, <1>r DEF Placed, Targets, vars, Free
  <1>8. ASSUME NEW w \in Http, NEW i \in Item, NEW own \in BOOLEAN, ScanFile(w, i, own)
        PROVE  Placed' /\ Targets'
    BY <1>7, <1>8 DEF ScanFile, Rest, Scanning
  <1>9. ASSUME NEW w \in Http, NEW i \in Item, EditRead(w, i)
        PROVE  Placed' /\ Targets'
    BY <1>7, <1>9 DEF EditRead, Rest, Scanning
  <1>10. ASSUME NEW w \in Http, ScanRow(w) \/ ScanWrite(w) \/ EditWrite(w) \/ ScanFault(w)
         PROVE  Placed' /\ Targets'
    <2>1. /\ UNCHANGED <<vars, target>> /\ job[w].at \in Scanning
          /\ \E j : Become(w, j) /\ (j = Rest \/ (j.at \in Scanning /\ j.item = job[w].item))
      <3>1. CASE ScanRow(w)
        <4>1. /\ Become(w, [job[w] EXCEPT !.at = "write", !.row = row[job[w].item]])
              /\ UNCHANGED <<vars, target>> /\ job[w].at \in Scanning
          BY <3>1 DEF ScanRow, Scanning
        <4>2. /\ [job[w] EXCEPT !.at = "write", !.row = row[job[w].item]].at = "write"
              /\ [job[w] EXCEPT !.at = "write", !.row = row[job[w].item]].item = job[w].item
          BY <1>r DEF LibraryTypeOK, Job
        <4>3. QED
          BY <4>1, <4>2 DEF Scanning
      <3>2. CASE ScanWrite(w) /\ Changed(job[w].row, job[w].ver, job[w].own)
        <4>1. /\ Become(w, [job[w] EXCEPT !.at = "enqueue"])
              /\ UNCHANGED <<vars, target>> /\ job[w].at \in Scanning
          BY <3>2, <1>r DEF ScanWrite, Scanning, LibraryTypeOK, Advance, Become
        <4>2. /\ [job[w] EXCEPT !.at = "enqueue"].at = "enqueue"
              /\ [job[w] EXCEPT !.at = "enqueue"].item = job[w].item
          BY <1>r DEF LibraryTypeOK, Job
        <4>3. QED
          BY <4>1, <4>2 DEF Scanning
      <3>3. CASE EditWrite(w) \/ (ScanWrite(w) /\ ~Changed(job[w].row, job[w].ver, job[w].own))
        BY <3>3 DEF ScanWrite, EditWrite, WriteBack, Scanning
      <3>4. CASE ScanFault(w)
        BY <3>4 DEF ScanFault
      <3>5. QED
        BY <1>10, <3>1, <3>2, <3>3, <3>4
    <2>2. PICK j : Become(w, j) /\ (j = Rest \/ (j.at \in Scanning /\ j.item = job[w].item))
      BY <2>1
    <2>3. job'[w] = j /\ \A v \in Worker \ {w} : job'[v] = job[v]
      BY <2>2, <1>r DEF LibraryTypeOK, Become
    <2>4. QED
      BY <2>1, <2>2, <2>3, <1>r, PlacedAside DEF vars
  <1>11. ASSUME NEW w \in Worker, BeginItem(w)
         PROVE  Placed' /\ Targets'
    <2>1. /\ phase = "up" /\ pc[w] = "begin" /\ cur[w] \in Task
          /\ UNCHANGED <<phase, status, target>>
          /\ \A v \in Worker \ {w} : pc'[v] = pc[v] /\ cur'[v] = cur[v]
          /\ job[w].at \notin Working \cup Scanning
      BY <1>11, <1>r DEF BeginItem, BeginTask, Goto, TypeOK, Placed, HoldsTask, HoldingPC
    <2>2. CASE pc'[w] = "work"
      <3>1. status[cur[w]] = "running" /\ cur'[w] = cur[w]
        BY <1>11, <2>1, <2>2, <1>r DEF BeginItem, BeginTask, Goto, After, TypeOK
      <3>2. /\ job' = [job EXCEPT ![w] = [Rest EXCEPT !.at = "mark", !.item = target[cur[w]]]]
            /\ target[cur[w]] \in Item
        BY <1>11, <2>1, <2>2, <3>1, <1>r DEF BeginItem, Become, Targets
      <3>3. job'[w].at = "mark" /\ job'[w].item = target[cur[w]] /\ "mark" \in Working \ Scanning
        BY <3>2, <1>r DEF LibraryTypeOK, Rest, Working, Scanning
      <3>4. \A v \in Worker \ {w} : job'[v] = job[v]
        BY <3>2, <1>r DEF LibraryTypeOK
      <3>5. QED
        BY <2>1, <2>2, <3>1, <3>2, <3>3, <3>4, <1>r DEF Placed, Targets
    <2>3. CASE pc'[w] # "work"
      <3>1. job' = job
        BY <1>11, <2>3 DEF BeginItem
      <3>2. QED
        BY <2>1, <3>1, PlacedAside
    <2>4. QED
      BY <2>2, <2>3
  <1>12. ASSUME NEW w \in Worker,
                \/ MarkItem(w) \/ ParseItem(w) \/ DeleteChunks(w) \/ InsertChunk(w)
                \/ IndexItem(w) \/ WorkFails(w) \/ FailItem(w)
         PROVE  Placed' /\ Targets'
    <2>1. /\ UNCHANGED <<vars, target>> /\ job[w].at \in Working
          /\ job'[w].at \in Working /\ job'[w].item = job[w].item
          /\ \A v \in Worker \ {w} : job'[v] = job[v]
      <3>1. CASE MarkItem(w) \/ IndexItem(w) \/ WorkFails(w) \/ FailItem(w)
        BY <3>1, <1>r
        DEF MarkItem, IndexItem, WorkFails, FailItem, Advance, Working, LibraryTypeOK, Job
      <3>2. CASE ParseItem(w) \/ DeleteChunks(w)
        <4>1. PICK j \in {[job[w] EXCEPT !.at = "delete", !.ver = disk[job[w].item]],
                          [job[w] EXCEPT !.at = "insert", !.nxt = 1]} :
                 job' = [job EXCEPT ![w] = j]
          BY <3>2 DEF ParseItem, DeleteChunks, Become
        <4>2. j.at \in {"delete", "insert"} /\ j.item = job[w].item
          BY <1>r DEF LibraryTypeOK, Job
        <4>3. UNCHANGED <<vars, target>> /\ job[w].at \in Working
          BY <3>2 DEF ParseItem, DeleteChunks, Working
        <4>4. QED
          BY <4>1, <4>2, <4>3, <1>r DEF LibraryTypeOK, Working
      <3>3. CASE InsertChunk(w)
        BY <3>3, <1>r DEF InsertChunk, Become, Working, LibraryTypeOK, Job
      <3>4. QED
        BY <1>12, <3>1, <3>2, <3>3
    <2>2. QED
      BY <2>1, <1>r, PlacedAside DEF vars
  <1>13. ASSUME NEW w \in Worker, FinishItem(w) \/ ItemFault(w)
         PROVE  Placed' /\ Targets'
    <2>1. /\ phase' = phase /\ target' = target
          /\ \A v \in Worker \ {w} : pc'[v] = pc[v] /\ cur'[v] = cur[v] /\ job'[v] = job[v]
          /\ job'[w] = Rest
      BY <1>13, <1>r
      DEF FinishItem, FinishAs, ItemFault, Fault, Become, Goto, LibraryTypeOK, TypeOK
    <2>2. \A t \in Task : status[t] = "absent" => status'[t] = "absent"
      <3>1. CASE ItemFault(w)
        BY <3>1 DEF ItemFault, Fault
      <3>2. CASE FinishItem(w)
        <4>1. cur[w] \in Task /\ status[cur[w]] # "absent"
          BY <3>2, <1>r DEF FinishItem, FinishAs, Known, HoldsTask, HoldingPC
        <4>2. QED
          BY <3>2, <4>1, <1>r DEF FinishItem, FinishAs, TypeOK
      <3>3. QED
        BY <1>13, <3>1, <3>2
    <2>3. QED
      BY <2>1, <2>2, <1>r, PlacedAside
  <1>14. CASE LibraryCrash
    <2>1. /\ \A w \in Worker : job'[w] = Rest
          /\ status' = status /\ target' = target
      BY <1>14 DEF LibraryCrash, Crash
    <2>2. QED
      BY <2>1, <1>r, PlacedAside
  <1>15. CASE UNCHANGED allVars
    BY <1>15, PlacedAside DEF allVars, vars, libVars
  <1>16. QED
    BY <1>1, <1>2, <1>3, <1>5, <1>6, <1>8, <1>9, <1>10, <1>11, <1>12, <1>13, <1>14, <1>15
    DEF LibraryNext, Scan, ProcessItem

-----------------------------------------------------------------------------
\* Versions only grow: a step that writes and reads no fingerprint newer than the
\* file keeps Current.
LEMMA CurrentKept ==
  ASSUME LibraryTypeOK, LibraryTypeOK', Current,
         \A i \in Item : disk[i] <= disk'[i] /\ row'[i].hash <= disk[i],
         \A w \in Worker : job'[w].at \in Scanning =>
           /\ job'[w].item \in Item
           /\ job'[w].ver <= disk[job'[w].item]
           /\ job'[w].row.hash <= disk[job'[w].item]
  PROVE  Current'
  <1>0. /\ \A i \in Item : disk[i] \in Nat /\ disk'[i] \in Nat /\ row'[i].hash \in Nat
        /\ \A w \in Worker : job'[w].ver \in Nat /\ job'[w].row.hash \in Nat
    <2>1. /\ \A i \in Item : disk[i] \in Version /\ disk'[i] \in Version
          /\ \A i \in Item : row'[i].hash \in Version \cup {0}
          /\ \A w \in Worker : /\ job'[w].ver \in Version \cup {0}
                              /\ job'[w].row.hash \in Version \cup {0}
      BY DEF LibraryTypeOK, Job, Row, Empty
    <2>2. \A v \in Version \cup {0} : v \in Nat
      BY KnowledgeLibraryAssumption DEF Version
    <2>3. QED
      BY <2>1, <2>2
  <1>1. ASSUME NEW i \in Item PROVE row'[i].hash <= disk'[i]
    BY <1>0
  <1>2. ASSUME NEW w \in Worker, job'[w].at \in Scanning
        PROVE  job'[w].ver <= disk'[job'[w].item] /\ job'[w].row.hash <= disk'[job'[w].item]
    BY <1>0, <1>2
  <1>3. QED
    BY <1>1, <1>2 DEF Current

\* No fingerprint is newer than its file.
LEMMA StepCurrent ==
  PlaceInv /\ LibraryTypeOK' /\ [LibraryNext]_allVars => Current'
  <1> SUFFICES ASSUME PlaceInv, LibraryTypeOK', [LibraryNext]_allVars PROVE Current'
    OBVIOUS
  <1> USE KnowledgeTasksAssumption, KnowledgeLibraryAssumption DEF Worker
  <1>r. /\ LibraryTypeOK /\ Placed /\ Current
        /\ Rest.at \notin Scanning /\ Working \cap Scanning = {}
        /\ \A i \in Item : disk[i] <= disk[i] /\ row[i].hash <= disk[i]
        /\ \A w \in Worker : job[w].at \in Scanning =>
             /\ job[w].item \in Item
             /\ job[w].ver <= disk[job[w].item]
             /\ job[w].row.hash <= disk[job[w].item]
    BY RestTyped DEF PlaceInv, LibraryTypeOK, Version, Working, Scanning, Current, Placed
  <1>1. ASSUME UNCHANGED disk,
               \A i \in Item : row'[i].hash <= disk[i],
               \A w \in Worker : job'[w] = job[w] \/ job'[w].at \notin Scanning
        PROVE  Current'
    BY <1>1, <1>r, CurrentKept
  <1>2. CASE QueueStep \/ UNCHANGED allVars
    BY <1>1, <1>2, <1>r DEF QueueStep, libVars, allVars
  <1>3. ASSUME NEW i \in Item, SourceChange(i)
        PROVE  Current'
    <2>1. \A k \in Item : disk[k] <= disk'[k]
      BY <1>3, <1>r DEF SourceChange, LibraryTypeOK, Version
    <2>2. QED
      BY <1>3, <2>1, <1>r, CurrentKept DEF SourceChange
  <1>4. ASSUME NEW i \in Item, BootScan(i)
        PROVE  Current'
    <2>1. /\ disk' = disk /\ job' = [job EXCEPT ![Runner] = [Rest EXCEPT !.at = "enqueue", !.item = i]]
          /\ row' = [row EXCEPT ![i] = Marked(row[i], disk[i])]
      BY <1>4 DEF BootScan, Become
    <2>2. job'[Runner].item = i /\ job'[Runner].ver = 0 /\ job'[Runner].row.hash = 0
      BY <2>1, <1>r DEF LibraryTypeOK, Rest, NoRow, Empty
    <2>3. \A k \in Item : row'[k].hash <= disk[k]
      BY <2>1, <1>r DEF LibraryTypeOK, Marked
    <2>4. 0 <= disk[i]
      BY <1>r DEF LibraryTypeOK, Version
    <2>5. \A w \in Worker \ {Runner} : job'[w] = job[w]
      BY <2>1, <1>r DEF LibraryTypeOK
    <2>6. QED
      BY <2>1, <2>2, <2>3, <2>4, <2>5, <1>r, CurrentKept
  <1>5. ASSUME NEW w \in Http, NEW i \in Item, NEW own \in BOOLEAN, ScanFile(w, i, own)
        PROVE  Current'
    <2>1. /\ disk' = disk /\ row' = row
          /\ job' = [job EXCEPT ![w] =
               [Rest EXCEPT !.at = "row", !.item = i, !.own = own, !.ver = disk[i]]]
      BY <1>5 DEF ScanFile, Become
    <2>2. job'[w].item = i /\ job'[w].ver = disk[i] /\ job'[w].row.hash = 0 /\ 0 <= disk[i]
      BY <2>1, <1>r DEF LibraryTypeOK, Rest, NoRow, Version
    <2>3. \A v \in Worker \ {w} : job'[v] = job[v]
      BY <2>1, <1>r DEF LibraryTypeOK
    <2>4. QED
      BY <2>1, <2>2, <2>3, <1>r, CurrentKept
  <1>6. ASSUME NEW w \in Http, NEW i \in Item, EditRead(w, i)
        PROVE  Current'
    <2>1. /\ disk' = disk /\ row' = row
          /\ job' = [job EXCEPT ![w] = [Rest EXCEPT !.at = "edit", !.item = i, !.row = row[i]]]
      BY <1>6 DEF EditRead, Become
    <2>2. job'[w].item = i /\ job'[w].ver = 0 /\ job'[w].row = row[i] /\ 0 <= disk[i]
      BY <2>1, <1>r DEF LibraryTypeOK, Rest, Empty, Version
    <2>3. \A v \in Worker \ {w} : job'[v] = job[v]
      BY <2>1, <1>r DEF LibraryTypeOK
    <2>4. QED
      BY <2>1, <2>2, <2>3, <1>r, CurrentKept
  <1>7. ASSUME NEW w \in Http, ScanRow(w)
        PROVE  Current'
    <2>1. /\ disk' = disk /\ row' = row /\ job[w].at \in Scanning
          /\ job' = [job EXCEPT ![w] = [job[w] EXCEPT !.at = "write", !.row = row[job[w].item]]]
      BY <1>7 DEF ScanRow, Become, Scanning
    <2>2. job'[w].item = job[w].item /\ job'[w].ver = job[w].ver /\ job'[w].row = row[job[w].item]
      BY <2>1, <1>r DEF LibraryTypeOK, Job
    <2>3. \A v \in Worker \ {w} : job'[v] = job[v]
      BY <2>1, <1>r DEF LibraryTypeOK
    <2>4. QED
      BY <2>1, <2>2, <2>3, <1>r, CurrentKept
  <1>8. ASSUME NEW w \in Http, WriteBack(w), disk' = disk, job[w].at \in Scanning
        PROVE  Current'
    <2>1. \A i \in Item : row'[i].hash <= disk[i]
      BY <1>8, <1>r DEF WriteBack, LibraryTypeOK
    <2>2. QED
      BY <1>8, <2>1, <1>1, <1>r DEF WriteBack, Become, LibraryTypeOK
  <1>9. ASSUME NEW w \in Http, ScanWrite(w)
        PROVE  Current'
    <2>1. CASE Changed(job[w].row, job[w].ver, job[w].own)
      <3>1. /\ disk' = disk /\ job[w].at \in Scanning
            /\ row' = [row EXCEPT ![job[w].item] = Marked(job[w].row, job[w].ver)]
            /\ job' = [job EXCEPT ![w].at = "enqueue"]
        BY <1>9, <2>1 DEF ScanWrite, Advance, Scanning
      <3>2. job'[w].item = job[w].item /\ job'[w].ver = job[w].ver /\ job'[w].row = job[w].row
        BY <3>1, <1>r DEF LibraryTypeOK, Job
      <3>3. \A i \in Item : row'[i].hash <= disk[i]
        BY <3>1, <1>r DEF Marked, LibraryTypeOK
      <3>4. \A v \in Worker \ {w} : job'[v] = job[v]
        BY <3>1, <1>r DEF LibraryTypeOK
      <3>5. QED
        BY <3>1, <3>2, <3>3, <3>4, <1>r, CurrentKept
    <2>2. CASE ~Changed(job[w].row, job[w].ver, job[w].own)
      BY <1>8, <1>9, <2>2 DEF ScanWrite, Scanning
    <2>3. QED
      BY <2>1, <2>2
  <1>10. ASSUME NEW w \in Http, EditWrite(w)
         PROVE  Current'
    BY <1>8, <1>10 DEF EditWrite, Scanning
  <1>11. ASSUME NEW w \in Worker, NEW t \in Task,
                ScanEnqueue(w, t) \/ BootEnqueue(t)
         PROVE  Current'
    <2>1. /\ disk' = disk /\ row' = row
          /\ \E v \in Worker : job' = [job EXCEPT ![v] = Rest]
      BY <1>11 DEF ScanEnqueue, BootEnqueue, Become
    <2>2. QED
      BY <1>1, <2>1, <1>r DEF LibraryTypeOK
  <1>12. ASSUME NEW w \in Worker, ScanFault(w) \/ FinishItem(w) \/ ItemFault(w)
         PROVE  Current'
    <2>1. disk' = disk /\ row' = row /\ job' = [job EXCEPT ![w] = Rest]
      BY <1>12 DEF ScanFault, FinishItem, ItemFault, Become
    <2>2. QED
      BY <1>1, <2>1, <1>r DEF LibraryTypeOK
  <1>13. ASSUME NEW w \in Worker, BeginItem(w)
         PROVE  Current'
    <2>1. disk' = disk /\ row' = row
      BY <1>13 DEF BeginItem
    <2>2. \/ job' = job
          \/ job' = [job EXCEPT ![w] = [Rest EXCEPT !.at = "mark", !.item = target[cur[w]]]]
      BY <1>13 DEF BeginItem, Become
    <2>3. \A v \in Worker : job'[v] = job[v] \/ job'[v].at \notin Scanning
      <3>1. [Rest EXCEPT !.at = "mark", !.item = target[cur[w]]].at = "mark"
        BY DEF Rest
      <3>2. QED
        BY <2>2, <3>1, <1>r DEF LibraryTypeOK, Scanning
    <2>4. QED
      BY <1>1, <2>1, <2>3, <1>r
  <1>14. ASSUME NEW w \in Worker, MarkItem(w) \/ IndexItem(w) \/ FailItem(w) \/ WorkFails(w)
         PROVE  Current'
    <2>1. /\ disk' = disk
          /\ \E to \in Working : job' = [job EXCEPT ![w].at = to]
      BY <1>14 DEF MarkItem, IndexItem, FailItem, WorkFails, Advance, Working
    <2>2. \A v \in Worker : job'[v] = job[v] \/ job'[v].at \notin Scanning
      BY <2>1, <1>r DEF LibraryTypeOK, Job
    <2>3. row' = row \/ \E s : row' = [row EXCEPT ![job[w].item].stage = s]
      BY <1>14 DEF MarkItem, IndexItem, FailItem, WorkFails, SetStage
    <2>4. \A i \in Item : row'[i].hash = row[i].hash
      <3>1. ASSUME NEW s, row' = [row EXCEPT ![job[w].item].stage = s], NEW i \in Item
            PROVE  row'[i].hash = row[i].hash
        BY <3>1, <1>r DEF LibraryTypeOK, Row
      <3>2. QED
        BY <2>3, <3>1
    <2>5. QED
      BY <1>1, <2>1, <2>2, <2>4, <1>r
  <1>15. ASSUME NEW w \in Worker, ParseItem(w) \/ DeleteChunks(w) \/ InsertChunk(w)
         PROVE  Current'
    <2>1. /\ disk' = disk /\ row' = row
          /\ \E j : job' = [job EXCEPT ![w] = j] /\ j.at \in Working
      <3>1. CASE ParseItem(w)
        <4>1. job' = [job EXCEPT ![w] = [job[w] EXCEPT !.at = "delete", !.ver = disk[job[w].item]]]
          BY <3>1 DEF ParseItem, Become
        <4>2. [job[w] EXCEPT !.at = "delete", !.ver = disk[job[w].item]].at \in Working
          BY <1>r DEF LibraryTypeOK, Job, Working
        <4>3. QED
          BY <3>1, <4>1, <4>2 DEF ParseItem
      <3>2. CASE DeleteChunks(w)
        <4>1. job' = [job EXCEPT ![w] = [job[w] EXCEPT !.at = "insert", !.nxt = 1]]
          BY <3>2 DEF DeleteChunks, Become
        <4>2. [job[w] EXCEPT !.at = "insert", !.nxt = 1].at \in Working
          BY <1>r DEF LibraryTypeOK, Job, Working
        <4>3. QED
          BY <3>2, <4>1, <4>2 DEF DeleteChunks
      <3>3. CASE InsertChunk(w)
        <4>1. job' = [job EXCEPT ![w] = IF job[w].nxt = Chunks THEN [job[w] EXCEPT !.at = "index"]
                                         ELSE [job[w] EXCEPT !.nxt = @ + 1]]
          BY <3>3 DEF InsertChunk, Become
        <4>2. (IF job[w].nxt = Chunks THEN [job[w] EXCEPT !.at = "index"]
                                         ELSE [job[w] EXCEPT !.nxt = @ + 1]).at \in Working
          BY <3>3, <1>r DEF LibraryTypeOK, Job, Working, InsertChunk
        <4>3. QED
          BY <3>3, <4>1, <4>2 DEF InsertChunk
      <3>4. QED
        BY <1>15, <3>1, <3>2, <3>3
    <2>2. \A v \in Worker : job'[v] = job[v] \/ job'[v].at \notin Scanning
      BY <2>1, <1>r DEF LibraryTypeOK
    <2>3. QED
      BY <1>1, <2>1, <2>2, <1>r
  <1>16. CASE LibraryCrash
    BY <1>1, <1>16, <1>r DEF LibraryCrash
  <1>17. QED
    BY <1>2, <1>3, <1>4, <1>5, <1>6, <1>7, <1>9, <1>10, <1>11, <1>12, <1>13, <1>14, <1>15, <1>16
    DEF LibraryNext, Scan, ProcessItem

-----------------------------------------------------------------------------
(* The index: what the thread at work on an item leaves of its chunks *)

\* One thread at a time is at work on an item, or an overlap is noted.
Solo ==
  \A i \in Item : Clean(i) =>
    \A v, w \in Worker : Processing(v, i) /\ Processing(w, i) => v = w

\* The first chunks are of version v and the others are not there yet.
Filled(i, v, n) == \A s \in Slot : slots[i][s] = IF s < n THEN v ELSE Empty

\* How far a thread has come, in the chunks and in the stage of its item: from the
\* mark to the index the item is not called indexed, whoever writes its row.
WrittenBy(j) ==
  /\ j.at \in {"parse", "delete", "insert", "index", "failed"} =>
       row[j.item].stage # "indexed"
  /\ j.at \in {"delete", "insert", "index"} => j.ver \in Version
  /\ j.at = "insert" => j.nxt \in Slot /\ Filled(j.item, j.ver, j.nxt)
  /\ j.at = "index" => Filled(j.item, j.ver, Chunks + 1)
  /\ j.at \in {"finish", "fail"} /\ row[j.item].stage = "indexed" =>
       j.ver \in Version /\ Filled(j.item, j.ver, Chunks + 1)

Written ==
  \A w \in Worker : job[w].at \in Working /\ Clean(job[w].item) => WrittenBy(job[w])

\* The item has another open task than the one w is processing, or will have.
OtherTask(w, i) ==
  \/ \E t \in Task : t # cur[w] /\ target[t] = i /\ status[t] \in Open
  \/ \E v \in Worker : job[v].at = "enqueue" /\ job[v].item = i

\* While its task is processed the task is open, and a scan that came meanwhile has
\* brought another one.
PromisedBy(w, j) ==
  /\ status[cur[w]] \in Open
  /\ \/ j.at \in {"delete", "insert", "index"}
     \/ j.at \in {"finish", "fail"} /\ row[j.item].stage = "indexed"
     => j.ver >= row[j.item].hash \/ OtherTask(w, j.item)
  /\ j.at # "mark" /\ row[j.item].stage \in {"pending", "stale"} => OtherTask(w, j.item)
  /\ j.at \in {"finish", "failed"} => row[j.item].stage # "running"

Promised ==
  \A w \in Worker : job[w].at \in Working /\ mishap[job[w].item] = {} =>
    PromisedBy(w, job[w])

IndexInv == /\ Solo /\ Written /\ Promised
            /\ IndexedIsWhole /\ OldIndexScheduled /\ UnfinishedScheduled

\* A step in which nobody begins or goes on with work on an item keeps all of it,
\* if it closes no task, notes what it discards, and leaves a scan at hand for
\* every row it marks.
LEMMA IndexAside ==
  ASSUME PlaceInv, IndexInv, slots' = slots,
         \A w \in Worker : job'[w].at \in Working => job'[w] = job[w] /\ cur'[w] = cur[w],
         \A t \in Task : status[t] \in Open => status'[t] \in Open /\ target'[t] = target[t],
         \A i \in Item : mishap[i] \subseteq mishap'[i],
         \A v \in Worker : job[v].at = "enqueue" =>
           \/ job'[v].at = "enqueue" /\ job'[v].item = job[v].item
           \/ "gap" \in mishap'[job[v].item]
           \/ \E t \in Task : /\ status[t] = "absent" /\ status'[t] \in Open
                              /\ target'[t] = job[v].item,
         \A i \in Item :
           \/ row'[i] = row[i]
           \/ "overwrite" \in mishap'[i]
           \/ /\ row'[i].stage \in {"pending", "stale"}
              /\ \E v \in Worker : job'[v].at = "enqueue" /\ job'[v].item = i
  PROVE  IndexInv'
  <1> USE DEF Open
  <1>1. ASSUME NEW i \in Item, Clean(i)'
        PROVE  Clean(i) /\ (row'[i] = row[i] \/ row'[i].stage \in {"pending", "stale"})
    BY <1>1 DEF Clean
  <1>2. ASSUME NEW i \in Item, mishap'[i] = {}
        PROVE  /\ mishap[i] = {} /\ Clean(i)'
               /\ \/ row'[i] = row[i]
                  \/ /\ row'[i].stage \in {"pending", "stale"}
                     /\ \E v \in Worker : job'[v].at = "enqueue" /\ job'[v].item = i
    BY <1>2 DEF Clean
  <1>3. ASSUME NEW i \in Item, mishap'[i] = {}, Scheduled(i)
        PROVE  Scheduled(i)'
    BY <1>3 DEF Scheduled, OpenTask
  <1>4. ASSUME NEW i \in Item, mishap'[i] = {}, NEW w \in Worker,
               job'[w].at \in Working, OtherTask(w, i)
        PROVE  OtherTask(w, i)'
    <2>1. status[cur[w]] # "absent"
      BY <1>4 DEF PlaceInv, Placed
    <2>2. QED
      BY <1>4, <2>1 DEF OtherTask
  <1>5. ASSUME NEW w \in Worker, job'[w].at \in Working
        PROVE  /\ job[w].at \in Working /\ job'[w] = job[w] /\ cur'[w] = cur[w]
               /\ job[w].item \in Item /\ cur[w] \in Task
    BY <1>5 DEF PlaceInv, Placed, HoldsTask, HoldingPC
  <1>6. Solo'
    BY <1>1, <1>5 DEF Solo, Processing, IndexInv
  <1>7. Written'
    <2> SUFFICES ASSUME NEW w \in Worker, job'[w].at \in Working, Clean(job[w].item)'
                 PROVE  WrittenBy(job[w])'
      BY DEF Written
    <2>1. /\ job'[w] = job[w] /\ job[w].at \in Working /\ job[w].item \in Item
          /\ Clean(job[w].item)
      BY <1>1, <1>5
    <2>2. row'[job[w].item].stage = "indexed" => row[job[w].item].stage = "indexed"
      BY <1>1, <2>1
    <2>3. WrittenBy(job[w])
      BY <2>1 DEF Written, IndexInv
    <2>4. QED
      BY <2>1, <2>2, <2>3 DEF WrittenBy, Filled
  <1>8. Promised'
    <2> SUFFICES ASSUME NEW w \in Worker, job'[w].at \in Working, mishap'[job'[w].item] = {}
                 PROVE  PromisedBy(w, job[w])'
      BY DEF Promised
    <2> DEFINE j == job[w]
    <2>1. /\ job'[w] = j /\ j.at \in Working /\ j.item \in Item /\ cur[w] \in Task
          /\ mishap[j.item] = {} /\ mishap'[j.item] = {} /\ cur'[w] = cur[w]
      BY <1>2, <1>5
    <2>2. PromisedBy(w, j)
      BY <2>1 DEF Promised, IndexInv
    <2>3. OtherTask(w, j.item) => OtherTask(w, job[w].item)'
      BY <1>4, <2>1 DEF OtherTask
    <2>4. CASE row'[j.item] = row[j.item]
      BY <2>1, <2>2, <2>3, <2>4 DEF PromisedBy
    <2>5. CASE row'[j.item].stage \in {"pending", "stale"}
               /\ \E v \in Worker : job'[v].at = "enqueue" /\ job'[v].item = j.item
      <3>1. OtherTask(w, job[w].item)'
        BY <2>1, <2>5 DEF OtherTask
      <3>2. QED
        BY <2>1, <2>2, <2>5, <3>1 DEF PromisedBy
    <2>6. QED
      BY <2>1, <2>4, <2>5, <1>2
  <1>9. IndexedIsWhole'
    BY <1>1 DEF IndexedIsWhole, Whole, Clean, IndexInv
  <1>10. OldIndexScheduled'
    BY <1>2, <1>3 DEF OldIndexScheduled, IndexInv
  <1>11. UnfinishedScheduled'
    <2> SUFFICES ASSUME NEW i \in Item, mishap'[i] = {},
                        row'[i].stage \in {"pending", "stale", "running"}
                 PROVE  Scheduled(i)'
      BY DEF UnfinishedScheduled
    <2>1. CASE row'[i] = row[i]
      BY <2>1, <1>2, <1>3 DEF UnfinishedScheduled, IndexInv
    <2>2. CASE \E v \in Worker : job'[v].at = "enqueue" /\ job'[v].item = i
      BY <2>2 DEF Scheduled
    <2>3. QED
      BY <2>1, <2>2, <1>2
  <1>12. QED
    BY <1>6, <1>7, <1>8, <1>9, <1>10, <1>11 DEF IndexInv

-----------------------------------------------------------------------------
\* A thread comes to rest, or goes on with a scan: the others stay as they are.
LEMMA BecomeAside ==
  ASSUME PlaceInv, NEW w \in Worker, job[w].at \in Scanning \cup {"none"},
         NEW j, j.at \notin Working, Become(w, j)
  PROVE  /\ \A v \in Worker : job'[v].at \in Working => job'[v] = job[v] /\ v # w
         /\ \A v \in Worker \ {w} : job'[v] = job[v]
         /\ job'[w] = j
  BY DEF PlaceInv, LibraryTypeOK, Become

\* What Note adds is in the history after it.
LEMMA NoteGrows ==
  ASSUME PlaceInv, NEW S, NEW m, Note(S, m)
  PROVE  /\ \A i \in Item : mishap[i] \subseteq mishap'[i]
         /\ \A i \in Item : i \in S => m \in mishap'[i]
  BY DEF PlaceInv, LibraryTypeOK, Note

\* A scan that creates its task hands its promise over to it.
LEMMA EnqueueAside ==
  ASSUME PlaceInv, IndexInv, NEW w \in Worker, NEW t \in Task,
         job[w].at = "enqueue", NextId(t),
         status' = [status EXCEPT ![t] = "queued"],
         \A v \in Worker \ {w} : cur'[v] = cur[v],
         target' = [target EXCEPT ![t] = job[w].item],
         Become(w, Rest), UNCHANGED <<row, slots, mishap>>
  PROVE  IndexInv'
  <1>1. Rest.at \notin Working /\ "enqueue" \in Scanning
    BY RestTyped DEF Working, Scanning
  <1>2. /\ \A v \in Worker : job'[v].at \in Working => job'[v] = job[v] /\ cur'[v] = cur[v]
        /\ \A v \in Worker \ {w} : job'[v] = job[v]
    BY <1>1, BecomeAside
  <1>3. \A u \in Task : status[u] \in Open => status'[u] \in Open /\ target'[u] = target[u]
    BY DEF Open, PlaceInv, LibraryTypeOK, TypeOK, NextId
  <1>4. status[t] = "absent" /\ status'[t] \in Open /\ target'[t] = job[w].item
    BY DEF Open, PlaceInv, LibraryTypeOK, TypeOK, NextId
  <1>5. QED
    BY <1>2, <1>3, <1>4, IndexAside

\* Steps that neither begin nor go on with work on an item.
LEMMA StepAside ==
  ASSUME PlaceInv, IndexInv,
         \/ QueueStep \/ LibraryCrash \/ UNCHANGED allVars
         \/ \E i \in Item : SourceChange(i) \/ BootScan(i)
         \/ \E t \in Task : BootEnqueue(t)
         \/ \E w \in Http : Scan(w) \/ ScanFault(w)
         \/ \E w \in Worker : ItemFault(w)
  PROVE  IndexInv'
  <1> USE KnowledgeTasksAssumption DEF Worker
  <1>r. /\ LibraryTypeOK /\ TypeOK /\ Placed
        /\ Rest.at = "none" /\ Rest.at \notin Working \cup Scanning
        /\ Working \cap Scanning = {}
    BY RestTyped DEF PlaceInv, LibraryTypeOK, Working, Scanning
  <1>1. CASE QueueStep
    BY <1>1, QueueFrame, IndexAside DEF libVars
  <1>2. ASSUME NEW i \in Item, SourceChange(i)
        PROVE  IndexInv'
    BY <1>2, IndexAside DEF SourceChange, vars
  <1>3. ASSUME NEW i \in Item, BootScan(i)
        PROVE  IndexInv'
    <2> DEFINE j == [Rest EXCEPT !.at = "enqueue", !.item = i]
    <2>1. /\ Become(Runner, j) /\ job[Runner].at = "none"
          /\ row' = [row EXCEPT ![i] = Marked(row[i], disk[i])]
          /\ UNCHANGED <<status, cur, slots, target, mishap>>
      BY <1>3 DEF BootScan, vars
    <2>2. j.at = "enqueue" /\ j.item = i /\ j.at \notin Working
      BY DEF Rest, Working
    <2>3. /\ \A v \in Worker : job'[v].at \in Working => job'[v] = job[v]
          /\ \A v \in Worker \ {Runner} : job'[v] = job[v]
          /\ job'[Runner] = j
      BY <2>1, <2>2, BecomeAside
    <2>4. row'[i].stage \in {"pending", "stale"} /\ \A k \in Item \ {i} : row'[k] = row[k]
      BY <2>1, <1>r DEF LibraryTypeOK, Marked
    <2> HIDE DEF j
    <2>5. \A v \in Worker : job[v].at = "enqueue" => v # Runner
      BY <2>1
    <2>6. \A v \in Worker : job[v].at = "enqueue" => job'[v] = job[v]
      BY <2>3, <2>5
    <2>7. \E v \in Worker : job'[v].at = "enqueue" /\ job'[v].item = i
      <3>1. Runner \in Worker
        OBVIOUS
      <3>2. QED
        BY <2>2, <2>3, <3>1
    <2>8. \A k \in Item :
            \/ row'[k] = row[k]
            \/ /\ row'[k].stage \in {"pending", "stale"}
               /\ \E v \in Worker : job'[v].at = "enqueue" /\ job'[v].item = k
      BY <2>4, <2>7
    <2>9. /\ \A v \in Worker : job'[v].at \in Working => job'[v] = job[v] /\ cur'[v] = cur[v]
          /\ \A t \in Task : status[t] \in Open => status'[t] \in Open /\ target'[t] = target[t]
          /\ \A k \in Item : mishap[k] \subseteq mishap'[k]
          /\ slots' = slots
      BY <2>1, <2>3
    <2>10. QED
      BY <2>6, <2>8, <2>9, IndexAside
  <1>4. ASSUME NEW t \in Task, BootEnqueue(t)
        PROVE  IndexInv'
    BY <1>4, EnqueueAside DEF BootEnqueue, BootCreate
  <1>5. ASSUME NEW w \in Http, NEW t \in Task, ScanEnqueue(w, t)
        PROVE  IndexInv'
    <2>1. /\ NextId(t) /\ status' = [status EXCEPT ![t] = "queued"]
          /\ \A v \in Worker \ {w} : cur'[v] = cur[v]
      BY <1>5, <1>r DEF ScanEnqueue, CreateTask, CreateOwnTask, Goto, TypeOK
    <2>2. QED
      BY <1>5, <2>1, EnqueueAside DEF ScanEnqueue
  <1>6. ASSUME NEW w \in Http, NEW j, Become(w, j), j.at \notin Working,
               job[w].at \in {"none", "row", "write", "edit"}, UNCHANGED <<vars, slots, target>>,
               \A i \in Item : mishap[i] \subseteq mishap'[i],
               \A i \in Item : \/ row'[i] = row[i]
                               \/ "overwrite" \in mishap'[i]
                               \/ /\ row'[i].stage \in {"pending", "stale"}
                                  /\ j.at = "enqueue" /\ j.item = i
        PROVE  IndexInv'
    <2>1. /\ \A v \in Worker : job'[v].at \in Working => job'[v] = job[v]
          /\ \A v \in Worker \ {w} : job'[v] = job[v]
          /\ job'[w] = j
      BY <1>6, BecomeAside DEF Scanning
    <2>2. status' = status /\ cur' = cur
      BY <1>6 DEF vars
    <2>3. QED
      BY <1>6, <2>1, <2>2, IndexAside
  <1>7. ASSUME NEW w \in Http, NEW i \in Item, NEW own \in BOOLEAN, ScanFile(w, i, own)
        PROVE  IndexInv'
    <2> DEFINE j == [Rest EXCEPT !.at = "row", !.item = i, !.own = own, !.ver = disk[i]]
    <2>1. j.at \notin Working
      BY DEF Rest, Working
    <2>2. QED
      BY <1>6, <1>7, <2>1 DEF ScanFile, Free
  <1>8. ASSUME NEW w \in Http, NEW i \in Item, EditRead(w, i)
        PROVE  IndexInv'
    <2> DEFINE j == [Rest EXCEPT !.at = "edit", !.item = i, !.row = row[i]]
    <2>1. j.at \notin Working
      BY DEF Rest, Working
    <2>2. QED
      BY <1>6, <1>8, <2>1 DEF EditRead, Free
  <1>9. ASSUME NEW w \in Http, ScanRow(w)
        PROVE  IndexInv'
    <2> DEFINE j == [job[w] EXCEPT !.at = "write", !.row = row[job[w].item]]
    <2>1. j.at \notin Working
      BY <1>r DEF LibraryTypeOK, Job, Working
    <2>2. QED
      BY <1>6, <1>9, <2>1 DEF ScanRow
  <1>10. ASSUME NEW w \in Http, WriteBack(w), job[w].at \in {"write", "edit"},
                UNCHANGED <<vars, slots, target>>
         PROVE  IndexInv'
    <2>1. /\ Become(w, Rest)
          /\ Note(IF row[job[w].item] # job[w].row THEN {job[w].item} ELSE {}, "overwrite")
          /\ \A i \in Item : row'[i] = IF i = job[w].item THEN job[w].row ELSE row[i]
      BY <1>10, <1>r DEF WriteBack, LibraryTypeOK
    <2>2. \A i \in Item : row'[i] = row[i] \/ "overwrite" \in mishap'[i]
      BY <2>1, NoteGrows
    <2>3. \A i \in Item : mishap[i] \subseteq mishap'[i]
      BY <2>1, NoteGrows
    <2>4. QED
      BY <1>6, <1>10, <2>1, <2>2, <2>3, <1>r
  <1>11. ASSUME NEW w \in Http, ScanWrite(w)
         PROVE  IndexInv'
    <2>1. CASE Changed(job[w].row, job[w].ver, job[w].own)
      <3> DEFINE j == [job[w] EXCEPT !.at = "enqueue"]
      <3>1. Become(w, j)
        BY <1>11, <2>1, <1>r DEF ScanWrite, Advance, Become, LibraryTypeOK
      <3>2. j.at = "enqueue" /\ j.item = job[w].item /\ j.at \notin Working
        BY <1>r DEF LibraryTypeOK, Job, Working
      <3>3. \A i \in Item : \/ row'[i] = row[i]
                            \/ row'[i].stage \in {"pending", "stale"} /\ i = job[w].item
        BY <1>11, <2>1, <1>r DEF ScanWrite, LibraryTypeOK, Marked
      <3>4. /\ job[w].at = "write" /\ mishap' = mishap /\ UNCHANGED <<vars, slots, target>>
        BY <1>11, <2>1 DEF ScanWrite
      <3>5. QED
        BY <3>1, <3>2, <3>3, <3>4, <1>6
    <2>2. CASE ~Changed(job[w].row, job[w].ver, job[w].own)
      BY <1>10, <1>11, <2>2 DEF ScanWrite
    <2>3. QED
      BY <2>1, <2>2
  <1>12. ASSUME NEW w \in Http, EditWrite(w)
         PROVE  IndexInv'
    BY <1>10, <1>12 DEF EditWrite
  <1>13. ASSUME NEW w \in Http, ScanFault(w)
         PROVE  IndexInv'
    <2>1. /\ Become(w, Rest) /\ job[w].at \in Scanning
          /\ Note(IF job[w].at = "enqueue" THEN {job[w].item} ELSE {}, "gap")
          /\ UNCHANGED <<status, cur, row, slots, target>>
      BY <1>13 DEF ScanFault, vars
    <2>2. /\ \A v \in Worker : job'[v].at \in Working => job'[v] = job[v]
          /\ \A v \in Worker \ {w} : job'[v] = job[v]
      BY <2>1, <1>r, BecomeAside
    <2>3. job[w].item \in Item
      BY <2>1, <1>r DEF Placed
    <2>4. /\ \A i \in Item : mishap[i] \subseteq mishap'[i]
          /\ job[w].at = "enqueue" => "gap" \in mishap'[job[w].item]
      BY <2>1, <2>3, NoteGrows
    <2>5. QED
      BY <2>1, <2>2, <2>4, IndexAside
  <1>14. ASSUME NEW w \in Worker, ItemFault(w)
         PROVE  IndexInv'
    <2>1. /\ job' = [job EXCEPT ![w] = Rest] /\ pc[w] \notin {"idle", "off", "dead"}
          /\ phase = "up" /\ \A v \in Worker \ {w} : cur'[v] = cur[v]
          /\ UNCHANGED <<status, row, slots, target, mishap>>
      BY <1>14, <1>r DEF ItemFault, Fault, Become, Goto, TypeOK
    <2>2. job[w].at \notin Scanning
      BY <2>1, <1>r DEF Placed
    <2>3. /\ \A v \in Worker : job'[v].at \in Working => job'[v] = job[v] /\ v # w
          /\ \A v \in Worker \ {w} : job'[v] = job[v]
      BY <2>1, <1>r DEF LibraryTypeOK
    <2>4. "enqueue" \in Scanning
      BY DEF Scanning
    <2>5. QED
      BY <2>1, <2>2, <2>3, <2>4, IndexAside
  <1>15. CASE LibraryCrash
    <2> DEFINE S == {i \in Item : \E w \in Worker : job[w].at = "enqueue" /\ job[w].item = i}
    <2>1. /\ job' = [w \in Worker |-> Rest] /\ Note(S, "gap")
          /\ UNCHANGED <<status, row, slots, target>>
      BY <1>15 DEF LibraryCrash, Crash
    <2>2. \A w \in Worker : job[w].at = "enqueue" => job[w].item \in S
      BY <1>r DEF Placed, Scanning
    <2> HIDE DEF S
    <2>3. /\ \A i \in Item : mishap[i] \subseteq mishap'[i]
          /\ \A w \in Worker : job[w].at = "enqueue" => "gap" \in mishap'[job[w].item]
      <3>1. \A w \in Worker : job[w].at = "enqueue" => job[w].item \in Item
        BY <1>r DEF Placed, Scanning
      <3>2. QED
        BY <2>1, <2>2, <3>1, NoteGrows
    <2>4. QED
      BY <2>1, <2>3, <1>r, IndexAside
  <1>16. CASE UNCHANGED allVars
    BY <1>16, IndexAside DEF allVars, vars, libVars
  <1>17. QED
    BY <1>1, <1>2, <1>3, <1>4, <1>5, <1>7, <1>8, <1>9, <1>11, <1>12, <1>13, <1>14, <1>15, <1>16
    DEF Scan

-----------------------------------------------------------------------------
\* A step of the thread at work on an item is about that item and its own task:
\* what remains to be shown is how far the thread has come and what it owes.
LEMMA WorkAside ==
  ASSUME PlaceInv, IndexInv, NEW w \in Worker, job[w].at \in Working,
         job'[w].at \in Working \ {"mark"}, job'[w].item = job[w].item,
         \A v \in Worker \ {w} : job'[v] = job[v],
         \A k \in Item \ {job[w].item} : row'[k] = row[k] /\ slots'[k] = slots[k],
         UNCHANGED <<vars, target, mishap>>,
         Clean(job[w].item) => WrittenBy(job[w])',
         mishap[job[w].item] = {} => PromisedBy(w, job[w])'
  PROVE  IndexInv'
  <1> DEFINE i == job[w].item
  <1>1. /\ i \in Item /\ status' = status /\ cur' = cur /\ target' = target
        /\ mishap' = mishap /\ target[cur[w]] = i /\ cur[w] \in Task
        /\ "enqueue" \notin Working
    BY DEF vars, PlaceInv, Placed, HoldsTask, HoldingPC, Working
  <1>2. \A k \in Item : /\ Clean(k)' <=> Clean(k)
                        /\ mishap'[k] = {} => Clean(k)
    BY <1>1 DEF Clean
  <1>3. ASSUME NEW v \in Worker \ {w}, job[v].at \in Working, Clean(job[v].item)
        PROVE  job[v].item \in Item \ {i}
    <2>1. job[v].item \in Item
      BY <1>3 DEF PlaceInv, Placed
    <2>2. Clean(i) => ~(job[v].item = i)
      BY <1>1, <1>3 DEF IndexInv, Solo, Processing
    <2>3. QED
      BY <1>3, <2>1, <2>2
  <1>4. ASSUME NEW v \in Worker, NEW k, OtherTask(v, k)
        PROVE  OtherTask(v, k)'
    BY <1>1, <1>4 DEF OtherTask
  <1>5. ASSUME NEW k \in Item, Scheduled(k)
        PROVE  Scheduled(k)'
    BY <1>1, <1>5 DEF Scheduled, OpenTask
  <1>6. Solo'
    BY <1>2 DEF Solo, Processing, IndexInv
  <1>7. Written'
    <2> SUFFICES ASSUME NEW v \in Worker \ {w}, job[v].at \in Working, Clean(job[v].item)
                 PROVE  WrittenBy(job[v])'
      BY <1>1, <1>2 DEF Written, PlaceInv, Placed
    <2>1. WrittenBy(job[v]) /\ job[v].item \in Item \ {i} /\ job'[v] = job[v]
      BY <1>3 DEF IndexInv, Written
    <2>2. QED
      BY <2>1 DEF WrittenBy, Filled
  <1>8. Promised'
    <2> SUFFICES ASSUME NEW v \in Worker \ {w}, job[v].at \in Working, mishap[job[v].item] = {}
                 PROVE  PromisedBy(v, job[v])'
      BY <1>1, <1>2 DEF Promised, PlaceInv, Placed
    <2>1. PromisedBy(v, job[v])
      BY DEF IndexInv, Promised
    <2>2. job[v].item \in Item \ {i} /\ job'[v] = job[v]
      BY <1>3 DEF Clean
    <2>3. OtherTask(v, job[v].item) => OtherTask(v, job[v].item)'
      BY <1>4, <2>2
    <2>4. QED
      BY <1>1, <2>1, <2>2, <2>3 DEF PromisedBy
  <1>9. IndexedIsWhole'
    <2> SUFFICES ASSUME NEW k \in Item, row'[k].stage = "indexed", Clean(k)
                 PROVE  Whole(k)'
      BY <1>2 DEF IndexedIsWhole, Clean
    <2>1. CASE k # i
      BY <2>1 DEF IndexInv, IndexedIsWhole, Whole, Clean
    <2>2. CASE k = i
      <3>1. /\ job'[w].at \in {"finish", "fail"}
            /\ job'[w].ver \in Version /\ Filled(i, job[w].ver, Chunks + 1)'
        BY <2>2 DEF WrittenBy, Working
      <3>2. \A s \in Slot : s < Chunks + 1
        BY KnowledgeLibraryAssumption DEF Slot
      <3>3. QED
        BY <2>2, <3>1, <3>2 DEF Filled, Whole
    <2>3. QED
      BY <2>1, <2>2
  <1>10. mishap[i] = {} => Scheduled(i)
    BY <1>1 DEF IndexInv, Promised, PromisedBy, Scheduled, OpenTask, Open
  <1>11. OldIndexScheduled'
    <2> SUFFICES ASSUME NEW k \in Item, row'[k].stage = "indexed", mishap[k] = {}
                 PROVE  Scheduled(k)' \/ \A s \in Slot : slots'[k][s] >= row'[k].hash
      BY <1>1 DEF OldIndexScheduled
    <2>1. CASE k # i
      BY <1>5, <2>1 DEF IndexInv, OldIndexScheduled
    <2>2. CASE k = i
      BY <1>5, <1>10, <2>2
    <2>3. QED
      BY <2>1, <2>2
  <1>12. UnfinishedScheduled'
    <2> SUFFICES ASSUME NEW k \in Item, mishap[k] = {},
                        row'[k].stage \in {"pending", "stale", "running"}
                 PROVE  Scheduled(k)'
      BY <1>1 DEF UnfinishedScheduled
    <2>1. CASE k # i
      BY <1>5, <2>1 DEF IndexInv, UnfinishedScheduled
    <2>2. CASE k = i
      BY <1>5, <1>10, <2>2
    <2>3. QED
      BY <2>1, <2>2
  <1>13. QED
    BY <1>6, <1>7, <1>8, <1>9, <1>11, <1>12 DEF IndexInv

\* What the thread at work knows before its step.
LEMMA AtWork ==
  ASSUME PlaceInv, IndexInv, NEW w \in Worker, job[w].at \in Working
  PROVE  /\ job[w] \in Job /\ job[w].item \in Item
         /\ row[job[w].item] \in Row /\ slots[job[w].item] \in [Slot -> Version \cup {Empty}]
         /\ disk[job[w].item] \in Version
         /\ Clean(job[w].item) => WrittenBy(job[w])
         /\ mishap[job[w].item] = {} => PromisedBy(w, job[w]) /\ Clean(job[w].item)
  BY DEF PlaceInv, LibraryTypeOK, Placed, IndexInv, Written, Promised, Clean

\* Another task of the item is not touched by a step of the thread at work.
LEMMA OtherStays ==
  ASSUME NEW w \in Worker, job[w].at \in Working, job'[w].at \in Working,
         \A v \in Worker \ {w} : job'[v] = job[v],
         UNCHANGED <<vars, target>>, NEW i
  PROVE  OtherTask(w, i) => OtherTask(w, i)'
  BY DEF OtherTask, vars, Working

\* The steps of process_task, one by one.  The mark promises what the task promises.
LEMMA StepMark ==
  ASSUME PlaceInv, IndexInv, NEW w \in Worker, MarkItem(w)
  PROVE  IndexInv'
  <1> DEFINE i == job[w].item
  <1>1. job[w].at = "mark" /\ job[w].at \in Working
    BY DEF MarkItem, Working
  <1>2. /\ job[w] \in Job /\ i \in Item /\ row[i] \in Row
        /\ mishap[i] = {} => PromisedBy(w, job[w])
    BY <1>1, AtWork
  <1>3. /\ job'[w].at = "parse" /\ job'[w].item = i
        /\ \A v \in Worker \ {w} : job'[v] = job[v]
        /\ row'[i].stage = "running" /\ \A k \in Item \ {i} : row'[k] = row[k]
        /\ UNCHANGED <<vars, slots, target, mishap, status, cur>>
    BY <1>2 DEF MarkItem, Advance, SetStage, PlaceInv, LibraryTypeOK, Job, Row, vars
  <1>4. WrittenBy(job[w])'
    BY <1>3 DEF WrittenBy
  <1>5. mishap[i] = {} => PromisedBy(w, job[w])'
    BY <1>2, <1>3 DEF PromisedBy
  <1>6. QED
    BY <1>1, <1>3, <1>4, <1>5, WorkAside DEF Working

\* What is parsed is at least as new as the fingerprint in the row.
LEMMA StepParse ==
  ASSUME PlaceInv, IndexInv, NEW w \in Worker, ParseItem(w)
  PROVE  IndexInv'
  <1> DEFINE i == job[w].item
             j == [job[w] EXCEPT !.at = "delete", !.ver = disk[i]]
  <1>1. job[w].at = "parse" /\ job[w].at \in Working
    BY DEF ParseItem, Working
  <1>2. /\ job[w] \in Job /\ i \in Item /\ disk[i] \in Version
        /\ Clean(i) => WrittenBy(job[w])
        /\ mishap[i] = {} => PromisedBy(w, job[w])
    BY <1>1, AtWork
  <1>3. /\ job' = [job EXCEPT ![w] = j]
        /\ UNCHANGED <<vars, row, slots, target, mishap, status, cur>>
    BY DEF ParseItem, Become, vars
  <1>4. j.at = "delete" /\ j.item = i /\ j.ver = disk[i]
    BY <1>2 DEF Job
  <1>5. job'[w] = j /\ \A v \in Worker \ {w} : job'[v] = job[v]
    BY <1>3 DEF PlaceInv, LibraryTypeOK
  <1> HIDE DEF j
  <1>6. Clean(i) => WrittenBy(job[w])'
    BY <1>1, <1>2, <1>3, <1>4, <1>5 DEF WrittenBy
  <1>7. disk[i] \in Nat /\ row[i].hash \in Nat /\ row[i].hash <= disk[i]
    <2>1. row[i].hash \in Version \cup {0}
      BY <1>2 DEF PlaceInv, LibraryTypeOK, Row
    <2>2. QED
      BY <1>2, <2>1 DEF PlaceInv, Current, Version
  <1>8. mishap[i] = {} => PromisedBy(w, job[w])'
    <2>1. OtherTask(w, i) => OtherTask(w, i)'
      BY <1>1, <1>3, <1>4, <1>5, OtherStays DEF Working
    <2>2. QED
      BY <1>1, <1>2, <1>3, <1>4, <1>5, <1>7, <2>1 DEF PromisedBy
  <1>9. QED
    BY <1>1, <1>3, <1>4, <1>5, <1>6, <1>8, WorkAside DEF Working

\* The item is not called indexed while its chunks are away ...
LEMMA StepDelete ==
  ASSUME PlaceInv, IndexInv, NEW w \in Worker, DeleteChunks(w)
  PROVE  IndexInv'
  <1> DEFINE i == job[w].item
             j == [job[w] EXCEPT !.at = "insert", !.nxt = 1]
  <1>1. job[w].at = "delete" /\ job[w].at \in Working
    BY DEF DeleteChunks, Working
  <1>2. /\ job[w] \in Job /\ i \in Item
        /\ Clean(i) => WrittenBy(job[w])
        /\ mishap[i] = {} => PromisedBy(w, job[w])
    BY <1>1, AtWork
  <1>3. /\ job' = [job EXCEPT ![w] = j]
        /\ slots' = [slots EXCEPT ![i] = [s \in Slot |-> Empty]]
        /\ UNCHANGED <<vars, row, target, mishap, status, cur>>
    BY DEF DeleteChunks, Become, vars
  <1>4. j.at = "insert" /\ j.item = i /\ j.nxt = 1 /\ j.ver = job[w].ver
    BY <1>2 DEF Job
  <1>5. /\ job'[w] = j /\ \A v \in Worker \ {w} : job'[v] = job[v]
        /\ slots'[i] = [s \in Slot |-> Empty] /\ \A k \in Item \ {i} : slots'[k] = slots[k]
    BY <1>2, <1>3 DEF PlaceInv, LibraryTypeOK
  <1> HIDE DEF j
  <1>6. Clean(i) => WrittenBy(job[w])'
    <2>1. 1 \in Slot /\ \A s \in Slot : ~(s < 1)
      BY KnowledgeLibraryAssumption DEF Slot
    <2>2. \A s \in Slot : slots'[i][s] = IF s < 1 THEN j.ver ELSE Empty
      BY <1>5, <2>1
    <2>3. QED
      BY <1>1, <1>2, <1>3, <1>4, <1>5, <2>1, <2>2 DEF WrittenBy, Filled
  <1>7. mishap[i] = {} => PromisedBy(w, job[w])'
    <2>1. OtherTask(w, i) => OtherTask(w, i)'
      BY <1>1, <1>3, <1>4, <1>5, OtherStays DEF Working
    <2>2. QED
      BY <1>1, <1>2, <1>3, <1>4, <1>5, <2>1 DEF PromisedBy
  <1>8. QED
    BY <1>1, <1>3, <1>4, <1>5, <1>6, <1>7, WorkAside DEF Working

\* ... nor while they come back one by one: the last one makes the version whole.
LEMMA StepInsert ==
  ASSUME PlaceInv, IndexInv, NEW w \in Worker, InsertChunk(w)
  PROVE  IndexInv'
  <1> DEFINE i == job[w].item
             n == job[w].nxt
             j == IF n = Chunks THEN [job[w] EXCEPT !.at = "index"]
                                ELSE [job[w] EXCEPT !.nxt = n + 1]
  <1>1. job[w].at = "insert" /\ job[w].at \in Working
    BY DEF InsertChunk, Working
  <1>2. /\ job[w] \in Job /\ i \in Item
        /\ slots[i] \in [Slot -> Version \cup {Empty}]
        /\ Clean(i) => WrittenBy(job[w])
        /\ mishap[i] = {} => PromisedBy(w, job[w])
    BY <1>1, AtWork
  <1>3. /\ job' = [job EXCEPT ![w] = j]
        /\ slots' = [slots EXCEPT ![i][n] = job[w].ver]
        /\ UNCHANGED <<vars, row, target, mishap, status, cur>>
    BY DEF InsertChunk, Become, vars
  <1>4. /\ j.item = i /\ j.ver = job[w].ver
        /\ n = Chunks => j.at = "index"
        /\ n # Chunks => j.at = "insert" /\ j.nxt = n + 1
    BY <1>1, <1>2 DEF Job
  <1>5. /\ job'[w] = j /\ \A v \in Worker \ {w} : job'[v] = job[v]
        /\ \A k \in Item \ {i} : slots'[k] = slots[k]
        /\ slots'[i] = [slots[i] EXCEPT ![n] = job[w].ver]
    BY <1>2, <1>3 DEF PlaceInv, LibraryTypeOK
  <1> HIDE DEF j
  <1>6. Clean(i) => WrittenBy(job[w])'
    <2> SUFFICES ASSUME Clean(i) PROVE WrittenBy(job[w])'
      OBVIOUS
    <2>1. n \in Slot /\ Filled(i, job[w].ver, n) /\ job[w].ver \in Version
          /\ row[i].stage # "indexed"
      BY <1>1, <1>2 DEF WrittenBy
    <2>2. \A s \in Slot : slots'[i][s] = IF s < n + 1 THEN job[w].ver ELSE Empty
      BY <1>2, <1>5, <2>1, KnowledgeLibraryAssumption DEF Filled, Slot
    <2>3. n # Chunks => n + 1 \in Slot
      BY <2>1, KnowledgeLibraryAssumption DEF Slot
    <2>4. CASE n = Chunks
      BY <1>3, <1>4, <1>5, <2>1, <2>2, <2>4 DEF WrittenBy, Filled
    <2>5. CASE n # Chunks
      BY <1>3, <1>4, <1>5, <2>1, <2>2, <2>3, <2>5 DEF WrittenBy, Filled
    <2>6. QED
      BY <2>4, <2>5
  <1>7. mishap[i] = {} => PromisedBy(w, job[w])'
    <2>1. OtherTask(w, i) => OtherTask(w, i)'
      BY <1>1, <1>3, <1>4, <1>5, OtherStays DEF Working
    <2>2. QED
      BY <1>1, <1>2, <1>3, <1>4, <1>5, <2>1 DEF PromisedBy
  <1>8. QED
    BY <1>1, <1>3, <1>4, <1>5, <1>6, <1>7, WorkAside DEF Working

-----------------------------------------------------------------------------
\* The index is called indexed when the version parsed is there as a whole.
LEMMA StepIndex ==
  ASSUME PlaceInv, IndexInv, NEW w \in Worker, IndexItem(w)
  PROVE  IndexInv'
  <1> DEFINE i == job[w].item
  <1>1. job[w].at = "index" /\ job[w].at \in Working
    BY DEF IndexItem, Working
  <1>2. /\ job[w] \in Job /\ i \in Item /\ row[i] \in Row
        /\ Clean(i) => WrittenBy(job[w])
        /\ mishap[i] = {} => PromisedBy(w, job[w])
    BY <1>1, AtWork
  <1>3. /\ job'[w].at = "finish" /\ job'[w].item = i /\ job'[w].ver = job[w].ver
        /\ \A v \in Worker \ {w} : job'[v] = job[v]
        /\ row'[i].stage = "indexed" /\ row'[i].hash = row[i].hash
        /\ \A k \in Item \ {i} : row'[k] = row[k]
        /\ UNCHANGED <<vars, slots, target, mishap, status, cur>>
    BY <1>2 DEF IndexItem, Advance, SetStage, PlaceInv, LibraryTypeOK, Job, Row, vars
  <1>4. Clean(i) => WrittenBy(job[w])'
    BY <1>1, <1>2, <1>3 DEF WrittenBy, Filled
  <1>5. mishap[i] = {} => PromisedBy(w, job[w])'
    <2>1. OtherTask(w, i) => OtherTask(w, i)'
      BY <1>1, <1>3, OtherStays DEF Working
    <2>2. QED
      BY <1>1, <1>2, <1>3, <2>1 DEF PromisedBy
  <1>6. QED
    BY <1>1, <1>3, <1>4, <1>5, WorkAside DEF Working

\* An exception changes nothing that is written: only the last stage was indexed.
LEMMA StepFails ==
  ASSUME PlaceInv, IndexInv, NEW w \in Worker, WorkFails(w)
  PROVE  IndexInv'
  <1> DEFINE i == job[w].item
  <1>1. job[w].at \in {"parse", "delete", "insert", "index", "finish"} /\ job[w].at \in Working
    BY DEF WorkFails, Working
  <1>2. /\ job[w] \in Job /\ i \in Item
        /\ Clean(i) => WrittenBy(job[w])
        /\ mishap[i] = {} => PromisedBy(w, job[w])  /\ Clean(i)
    BY <1>1, AtWork
  <1>3. /\ job'[w].at = "fail" /\ job'[w].item = i /\ job'[w].ver = job[w].ver
        /\ \A v \in Worker \ {w} : job'[v] = job[v]
        /\ UNCHANGED <<vars, row, slots, target, mishap, status, cur>>
    BY <1>2 DEF WorkFails, Advance, PlaceInv, LibraryTypeOK, Job, vars
  <1>4. Clean(i) => WrittenBy(job[w])'
    BY <1>1, <1>2, <1>3 DEF WrittenBy, Filled
  <1>5. mishap[i] = {} => PromisedBy(w, job[w])'
    <2>1. OtherTask(w, i) => OtherTask(w, i)'
      BY <1>1, <1>3, OtherStays DEF Working
    <2>2. mishap[i] = {} /\ row[i].stage = "indexed" => job[w].at = "finish"
      BY <1>1, <1>2 DEF WrittenBy
    <2>3. QED
      BY <1>1, <1>2, <1>3, <2>1, <2>2 DEF PromisedBy
  <1>6. QED
    BY <1>1, <1>3, <1>4, <1>5, WorkAside DEF Working

\* The failure is written over the mark.
LEMMA StepFailItem ==
  ASSUME PlaceInv, IndexInv, NEW w \in Worker, FailItem(w)
  PROVE  IndexInv'
  <1> DEFINE i == job[w].item
  <1>1. job[w].at = "fail" /\ job[w].at \in Working
    BY DEF FailItem, Working
  <1>2. /\ job[w] \in Job /\ i \in Item /\ row[i] \in Row
        /\ mishap[i] = {} => PromisedBy(w, job[w])
    BY <1>1, AtWork
  <1>3. /\ job'[w].at = "failed" /\ job'[w].item = i
        /\ \A v \in Worker \ {w} : job'[v] = job[v]
        /\ row'[i].stage = "failed" /\ \A k \in Item \ {i} : row'[k] = row[k]
        /\ UNCHANGED <<vars, slots, target, mishap, status, cur>>
    BY <1>2 DEF FailItem, Advance, SetStage, PlaceInv, LibraryTypeOK, Job, Row, vars
  <1>4. WrittenBy(job[w])'
    BY <1>3 DEF WrittenBy
  <1>5. mishap[i] = {} => PromisedBy(w, job[w])'
    BY <1>2, <1>3 DEF PromisedBy
  <1>6. QED
    BY <1>1, <1>3, <1>4, <1>5, WorkAside DEF Working

\* A thread that begins with an item that another one is at is noted.
LEMMA StepBegin ==
  ASSUME PlaceInv, IndexInv, NEW w \in Worker, BeginItem(w)
  PROVE  IndexInv'
  <1>1. /\ phase = "up" /\ pc[w] = "begin" /\ cur[w] \in Task
        /\ UNCHANGED <<status, row, slots, target>>
        /\ \A v \in Worker \ {w} : cur'[v] = cur[v]
    BY DEF BeginItem, BeginTask, Goto, PlaceInv, LibraryTypeOK, TypeOK, HoldsTask, HoldingPC
  <1>2. job[w].at \notin Working \cup Scanning
    BY <1>1, KnowledgeTasksAssumption DEF PlaceInv, Placed, Worker
  <1>3. CASE pc'[w] # "work"
    <2>1. UNCHANGED <<job, mishap>>
      BY <1>3 DEF BeginItem
    <2>2. QED
      BY <1>1, <1>2, <2>1, IndexAside
  <1>4. CASE pc'[w] = "work"
    <2> DEFINE i == target[cur[w]]
               j == [Rest EXCEPT !.at = "mark", !.item = i]
    <2>1. status[cur[w]] = "running" /\ cur'[w] = cur[w]
      BY <1>1, <1>4 DEF BeginItem, BeginTask, Goto, After, PlaceInv, LibraryTypeOK, TypeOK
    <2>2. i \in Item
      BY <1>1, <2>1 DEF PlaceInv, Targets
    <2>3. /\ job' = [job EXCEPT ![w] = j]
          /\ Note(IF \E v \in Worker : Processing(v, i) THEN {i} ELSE {}, "overlap")
      BY <1>4 DEF BeginItem, Become
    <2>4. j.at = "mark" /\ j.item = i
      BY DEF Rest
    <2>5. job'[w] = j /\ \A v \in Worker \ {w} : job'[v] = job[v]
      BY <2>3 DEF PlaceInv, LibraryTypeOK
    <2> HIDE DEF j
    <2>6. cur' = cur
      BY <1>1, <2>1 DEF BeginItem, BeginTask, Goto, PlaceInv, LibraryTypeOK, TypeOK
    <2>7. /\ \A k \in Item : mishap[k] \subseteq mishap'[k]
          /\ \A v \in Worker : Processing(v, i) => "overlap" \in mishap'[i]
      BY <2>2, <2>3, NoteGrows
    <2>8. \A k \in Item : /\ Clean(k)' => Clean(k)
                          /\ mishap'[k] = {} => mishap[k] = {} /\ Clean(k)'
      BY <2>7 DEF Clean
    <2>9. ASSUME NEW v \in Worker, NEW k, OtherTask(v, k)
          PROVE  OtherTask(v, k)'
      BY <1>1, <1>2, <2>5, <2>6, <2>9 DEF OtherTask, Scanning
    <2>10. ASSUME NEW k \in Item, Scheduled(k)
           PROVE  Scheduled(k)'
      BY <1>1, <1>2, <2>5, <2>10 DEF Scheduled, OpenTask, Scanning
    <2>11. ASSUME NEW v \in Worker \ {w}, job[v].at \in Working, Clean(job[v].item)'
           PROVE  job[v].item \in Item \ {i} /\ Clean(job[v].item)
      <3>1. job[v].item \in Item
        BY <2>11 DEF PlaceInv, Placed
      <3>2. ASSUME job[v].item = i
            PROVE  FALSE
        BY <2>2, <2>5, <2>7, <2>11, <3>2 DEF Processing, Clean
      <3>3. QED
        BY <3>1, <3>2, <2>5, <2>8, <2>11
    <2>12. Solo'
      <3> SUFFICES ASSUME NEW k \in Item, Clean(k)', NEW u \in Worker, NEW v \in Worker,
                          Processing(u, k)', Processing(v, k)'
                   PROVE  u = v
        BY DEF Solo
      <3>1. CASE u # w /\ v # w
        BY <3>1, <2>5, <2>8 DEF IndexInv, Solo, Processing
      <3>2. CASE u = w /\ v # w
        BY <3>2, <2>4, <2>5, <2>11 DEF Processing
      <3>3. CASE v = w /\ u # w
        BY <3>3, <2>4, <2>5, <2>11 DEF Processing
      <3>4. QED
        BY <3>1, <3>2, <3>3
    <2>13. Written'
      <3> SUFFICES ASSUME NEW v \in Worker, job'[v].at \in Working, Clean(job[v].item)'
                   PROVE  WrittenBy(job[v])'
        BY DEF Written
      <3>1. CASE v = w
        BY <3>1, <2>4, <2>5 DEF WrittenBy
      <3>2. CASE v # w
        <4>1. WrittenBy(job[v]) /\ job'[v] = job[v]
          <5>1. job'[v] = job[v]
            BY <3>2, <2>5
          <5>2. Clean(job[v].item)'
            OBVIOUS
          <5>3. QED
            BY <3>2, <5>1, <5>2, <2>11 DEF IndexInv, Written
        <4>2. QED
          BY <4>1, <1>1 DEF WrittenBy, Filled
      <3>3. QED
        BY <3>1, <3>2
    <2>14. Promised'
      <3> SUFFICES ASSUME NEW v \in Worker, job'[v].at \in Working, mishap'[job'[v].item] = {}
                   PROVE  PromisedBy(v, job[v])'
        BY DEF Promised
      <3>1. CASE v = w
        BY <3>1, <1>1, <2>1, <2>4, <2>5, <2>6 DEF PromisedBy, Open
      <3>2. CASE v # w
        <4>1. job'[v] = job[v] /\ job[v].item \in Item
          BY <3>2, <2>5 DEF PlaceInv, Placed
        <4>2. PromisedBy(v, job[v])
          BY <4>1, <2>8 DEF IndexInv, Promised
        <4>3. OtherTask(v, job[v].item) => OtherTask(v, job[v].item)'
          BY <2>9, <4>1
        <4>4. QED
          BY <4>1, <4>2, <4>3, <1>1, <2>6 DEF PromisedBy
      <3>3. QED
        BY <3>1, <3>2
    <2>15. IndexedIsWhole'
      BY <1>1, <2>8 DEF IndexInv, IndexedIsWhole, Whole, Clean
    <2>16. OldIndexScheduled' /\ UnfinishedScheduled'
      BY <1>1, <2>8, <2>10 DEF IndexInv, OldIndexScheduled, UnfinishedScheduled
    <2>17. QED
      BY <2>12, <2>13, <2>14, <2>15, <2>16 DEF IndexInv
  <1>5. QED
    BY <1>3, <1>4

\* The end of the work closes the task: what is still to be done for the item has
\* another one.
LEMMA StepFinish ==
  ASSUME PlaceInv, IndexInv, NEW w \in Worker, FinishItem(w)
  PROVE  IndexInv'
  <1> DEFINE i == job[w].item
  <1>1. job[w].at \in {"finish", "failed"} /\ job[w].at \in Working
    BY DEF FinishItem, Working
  <1>2. /\ i \in Item /\ slots[i] \in [Slot -> Version \cup {Empty}]
        /\ Clean(i) => WrittenBy(job[w])
        /\ mishap[i] = {} => PromisedBy(w, job[w]) /\ Clean(i)
    BY <1>1, AtWork
  <1>3. /\ job'[w] = Rest /\ \A v \in Worker \ {w} : job'[v] = job[v] /\ cur'[v] = cur[v]
        /\ \A t \in Task \ {cur[w]} : status'[t] = status[t]
        /\ UNCHANGED <<row, slots, target, mishap>>
    BY DEF FinishItem, FinishAs, Goto, Become, PlaceInv, LibraryTypeOK, TypeOK
  <1>4. Rest.at \notin Working /\ "enqueue" \notin Working
    BY RestTyped DEF Working
  <1>5. target[cur[w]] = i
    BY <1>1 DEF PlaceInv, Placed
  <1>6. \A k \in Item : (Clean(k)' <=> Clean(k)) /\ (mishap[k] = {} => Clean(k))
    BY <1>3 DEF Clean
  <1>7. ASSUME NEW v \in Worker \ {w}, job[v].at \in Working, Clean(job[v].item)
        PROVE  job[v].item \in Item \ {i} /\ cur[v] # cur[w]
    <2>1. job[v].item \in Item /\ target[cur[v]] = job[v].item
      BY <1>7 DEF PlaceInv, Placed
    <2>2. job[v].item # i
      BY <1>1, <1>2, <1>7 DEF IndexInv, Solo, Processing
    <2>3. QED
      BY <2>1, <2>2, <1>5
  <1>8. ASSUME NEW k \in Item \ {i}, Scheduled(k)
        PROVE  Scheduled(k)'
    BY <1>1, <1>3, <1>4, <1>5, <1>8 DEF Scheduled, OpenTask
  <1>9. ASSUME NEW k \in Item, OtherTask(w, k)
        PROVE  Scheduled(k)'
    BY <1>1, <1>3, <1>4, <1>9 DEF OtherTask, Scheduled, OpenTask, Open
  <1>10. Solo'
    BY <1>3, <1>4, <1>6 DEF IndexInv, Solo, Processing
  <1>11. Written'
    <2> SUFFICES ASSUME NEW v \in Worker \ {w}, job[v].at \in Working, Clean(job[v].item)
                 PROVE  WrittenBy(job[v])'
      <3>1. ASSUME NEW v \in Worker, job'[v].at \in Working, Clean(job[v].item)'
            PROVE  WrittenBy(job[v])'
        <4>1. v # w /\ job'[v] = job[v] /\ job[v].item \in Item
          BY <3>1, <1>3, <1>4 DEF PlaceInv, Placed
        <4>2. QED
          BY <3>1, <4>1, <1>3 DEF Clean
      <3>2. QED
        BY <3>1 DEF Written
    <2>1. WrittenBy(job[v]) /\ job'[v] = job[v]
      BY <1>3 DEF IndexInv, Written
    <2>2. QED
      BY <2>1, <1>3 DEF WrittenBy, Filled
  <1>12. Promised'
    <2> SUFFICES ASSUME NEW v \in Worker, job'[v].at \in Working, mishap'[job'[v].item] = {}
                 PROVE  PromisedBy(v, job[v])'
      BY DEF Promised
    <2>1. v # w /\ job'[v] = job[v] /\ cur'[v] = cur[v] /\ cur[v] \in Task
      BY <1>3, <1>4 DEF PlaceInv, Placed, HoldsTask, HoldingPC
    <2>2. job[v].item \in Item /\ mishap[job[v].item] = {}
      BY <1>3, <2>1 DEF PlaceInv, Placed
    <2>3. PromisedBy(v, job[v]) /\ job[v].item # i /\ cur[v] # cur[w]
      BY <1>6, <1>7, <2>1, <2>2 DEF IndexInv, Promised
    <2>4. OtherTask(v, job[v].item) => OtherTask(v, job[v].item)'
      BY <1>1, <1>3, <1>4, <1>5, <2>1, <2>3 DEF OtherTask
    <2>5. QED
      BY <1>3, <2>1, <2>3, <2>4 DEF PromisedBy
  <1>13. IndexedIsWhole'
    BY <1>3 DEF IndexInv, IndexedIsWhole, Whole
  <1>14. OldIndexScheduled'
    <2> SUFFICES ASSUME NEW k \in Item, row[k].stage = "indexed", mishap[k] = {}
                 PROVE  Scheduled(k)' \/ \A s \in Slot : slots[k][s] >= row[k].hash
      BY <1>3 DEF OldIndexScheduled
    <2>1. CASE k # i
      BY <1>8, <2>1 DEF IndexInv, OldIndexScheduled
    <2>2. CASE k = i
      <3>1. job[w].at = "finish" /\ Filled(i, job[w].ver, Chunks + 1)
        BY <1>1, <1>2, <2>2 DEF WrittenBy
      <3>2. job[w].ver >= row[i].hash \/ OtherTask(w, i)
        BY <1>2, <2>2, <3>1 DEF PromisedBy
      <3>3. \A s \in Slot : slots[i][s] = job[w].ver
        <4>1. \A s \in Slot : s < Chunks + 1
          BY KnowledgeLibraryAssumption DEF Slot
        <4>2. QED
          BY <3>1, <4>1 DEF Filled
      <3>4. QED
        BY <2>2, <3>2, <3>3, <1>9
    <2>3. QED
      BY <2>1, <2>2
  <1>15. UnfinishedScheduled'
    <2> SUFFICES ASSUME NEW k \in Item, mishap[k] = {},
                        row[k].stage \in {"pending", "stale", "running"}
                 PROVE  Scheduled(k)'
      BY <1>3 DEF UnfinishedScheduled
    <2>1. CASE k # i
      BY <1>8, <2>1 DEF IndexInv, UnfinishedScheduled
    <2>2. CASE k = i
      BY <1>1, <1>2, <1>9, <2>2 DEF PromisedBy
    <2>3. QED
      BY <2>1, <2>2
  <1>16. QED
    BY <1>10, <1>11, <1>12, <1>13, <1>14, <1>15 DEF IndexInv

-----------------------------------------------------------------------------
(* The library is correct *)

LibraryInv == PlaceInv /\ IndexInv

\* The invariant holds at first, and every step keeps it.
LEMMA LibraryInitially == LibraryInit => LibraryInv
  <1> SUFFICES ASSUME LibraryInit PROVE LibraryInv
    OBVIOUS
  <1> USE KnowledgeTasksAssumption, KnowledgeLibraryAssumption
  <1>1. Init /\ TypeOK /\ HoldsTask
    BY InitTyped DEF LibraryInit
  <1>2. /\ \A w \in Worker : job[w] = Rest
        /\ \A i \in Item : row[i] = NoRow /\ disk[i] = 1
        /\ \A t \in Task : status[t] = "absent"
    BY DEF LibraryInit, Init
  <1>3. Rest \in Job /\ Rest.at \notin Working \cup Scanning /\ Rest.at # "enqueue"
    BY RestTyped DEF Working, Scanning
  <1>4. NoRow.stage = "absent" /\ NoRow.hash = 0 /\ NoRow \in Row
    BY DEF NoRow, Row, Stage
  <1>5. LibraryTypeOK
    BY <1>1, <1>3, <1>4 DEF LibraryInit, LibraryTypeOK, Version, Empty, NoItem, Mishap
  <1>6. Known
    BY DEF LibraryInit, Init, Known, HoldingPC
  <1>7. PlaceInv
    BY <1>1, <1>2, <1>3, <1>4, <1>5, <1>6 DEF PlaceInv, Placed, Targets, Current
  <1>8. IndexInv
    BY <1>2, <1>3, <1>4 DEF IndexInv, Solo, Processing, Written, Promised,
       IndexedIsWhole, OldIndexScheduled, UnfinishedScheduled
  <1>9. QED
    BY <1>7, <1>8 DEF LibraryInv

LEMMA LibraryStep == LibraryInv /\ [LibraryNext]_allVars => LibraryInv'
  <1> SUFFICES ASSUME LibraryInv, [LibraryNext]_allVars PROVE LibraryInv'
    OBVIOUS
  <1>1. PlaceInv'
    BY QueueTyped, StepLibraryTyped, StepPlaced, StepCurrent DEF LibraryInv, PlaceInv
  <1>2. IndexInv'
    BY StepAside, StepBegin, StepMark, StepParse, StepDelete, StepInsert, StepIndex,
       StepFails, StepFailItem, StepFinish DEF LibraryInv, LibraryNext, ProcessItem
  <1>3. QED
    BY <1>1, <1>2 DEF LibraryInv

LEMMA LibraryAlways == LibrarySpec => []LibraryInv
  BY LibraryInitially, LibraryStep, PTL DEF LibrarySpec

\* The library keeps its types, and every thread at work on an item is processing
\* the task of that item.
THEOREM LibraryTypeCorrect == LibrarySpec => [](LibraryTypeOK /\ Placed)
  <1>1. LibraryInv => LibraryTypeOK /\ Placed
    BY DEF LibraryInv, PlaceInv
  <1>2. QED
    BY LibraryAlways, <1>1, PTL

\* What list_chunks gives retrieval of an indexed item is the whole of one version of
\* its file, however scans, retries, crashes and other items' tasks interleave with
\* replace_chunks, as long as no two threads were at the item and no stale row was
\* written back over it.
THEOREM IndexWhole == LibrarySpec => []IndexedIsWhole
  <1>1. LibraryInv => IndexedIsWhole
    BY DEF LibraryInv, IndexInv
  <1>2. QED
    BY LibraryAlways, <1>1, PTL

\* An index older than the fingerprint in its row has a task, or a scan about to
\* create one: finish_task closes the task of the old version only.
THEOREM OldIndexHasTask == LibrarySpec => []OldIndexScheduled
  <1>1. LibraryInv => OldIndexScheduled
    BY DEF LibraryInv, IndexInv
  <1>2. QED
    BY LibraryAlways, <1>1, PTL

\* So has an item that waits for its index or is half-way to it, across restarts and
\* uncaught exceptions.
THEOREM UnfinishedHasTask == LibrarySpec => []UnfinishedScheduled
  <1>1. LibraryInv => UnfinishedScheduled
    BY DEF LibraryInv, IndexInv
  <1>2. QED
    BY LibraryAlways, <1>1, PTL
=============================================================================
