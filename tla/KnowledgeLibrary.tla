-------------------------- MODULE KnowledgeLibrary --------------------------
(***************************************************************************)
(* The knowledge items and their chunks, on top of the task queue of       *)
(* KnowledgeTasks: the scans that compare a source file with its item, the *)
(* flag edits of the administrators, and what process_task does to the     *)
(* item and to knowledge_chunks between its beginning and its end.         *)
(*                                                                         *)
(* upsert_item writes the whole row back from what the caller read before; *)
(* mark_item_stage writes the three stage columns, always together, so one *)
(* "stage" stands for parse_status, ingest_status and index_status.  The   *)
(* contents of a file are the number of its version, its fingerprint too.  *)
(* Only the library, its tasks and their chunks are shared: two threads at *)
(* one item interleave statement by statement.                             *)
(***************************************************************************)
EXTENDS KnowledgeTasks

CONSTANTS
  Items,       \* number of registered sources
  Chunks,      \* chunks a file is cut into (chunk_id depends on the index only)
  MaxVersion   \* bound: versions of a source file

ASSUME KnowledgeLibraryAssumption ==
  /\ Items \in Nat
  /\ Chunks \in Nat \ {0}
  /\ MaxVersion \in Nat \ {0}

Item    == 1..Items
NoItem  == 0
Slot    == 1..Chunks
Version == 1..MaxVersion
Empty   == 0

Stage == {"absent", "pending", "stale", "running", "indexed", "failed"}
Row   == [stage : Stage, hash : Version \cup {0}]
NoRow == [stage |-> "absent", hash |-> 0]

VARIABLES
  disk,    \* the version of each source file
  row,     \* knowledge_items: stage and source_hash
  slots,   \* knowledge_chunks: the version behind each chunk_id, Empty if none
  target,  \* knowledge_tasks.knowledge_item_id
  job,     \* what each thread is doing to an item, and what it has read
  mishap   \* history: what ever went wrong with an item (see below)

libVars == <<disk, row, slots, target, job, mishap>>

allVars == <<vars, libVars>>

\* overlap:   two threads processed the item at the same time
\* overwrite: a write-back of a row discarded a later change of it
\* gap:       a thread died between marking the item and creating its task
Mishap == {"overlap", "overwrite", "gap"}

Scanning == {"row", "write", "enqueue", "edit"}
Working  == {"mark", "parse", "delete", "insert", "index", "finish",
             "fail", "failed"}

Job == [at   : {"none"} \cup Scanning \cup Working,
        item : Item \cup {NoItem},
        own  : BOOLEAN,                  \* a scan of the catalog refresh
        ver  : Version \cup {Empty},     \* fingerprint, or version parsed
        nxt  : Slot \cup {0},            \* next chunk to insert
        row  : Row]                      \* the row as read

Rest == [at |-> "none", item |-> NoItem, own |-> FALSE, ver |-> Empty,
         nxt |-> 0, row |-> NoRow]

Become(w, j)    == job' = [job EXCEPT ![w] = j]
Advance(w, to)  == job' = [job EXCEPT ![w].at = to]
SetStage(i, s)  == row' = [row EXCEPT ![i].stage = s]
Note(S, m)      == mishap' = [i \in Item |-> IF i \in S THEN mishap[i] \cup {m}
                                                       ELSE mishap[i]]

-----------------------------------------------------------------------------
(* The sources, the scans and the edits *)

SourceChange(i) ==
  /\ disk[i] < MaxVersion
  /\ disk' = [disk EXCEPT ![i] = @ + 1]
  /\ UNCHANGED <<vars, row, slots, target, job, mishap>>

Free(w) == phase = "up" /\ job[w].at = "none" /\ pc[w] = "idle"

\* A scan hashes the file, then reads the item, then writes the whole row.
ScanFile(w, i, own) ==
  /\ Free(w)
  /\ Become(w, [Rest EXCEPT !.at = "row", !.item = i, !.own = own, !.ver = disk[i]])
  /\ UNCHANGED <<vars, disk, row, slots, target, mishap>>

ScanRow(w) ==
  /\ job[w].at = "row"
  /\ Become(w, [job[w] EXCEPT !.at = "write", !.row = row[job[w].item]])
  /\ UNCHANGED <<vars, disk, row, slots, target, mishap>>

\* should_enqueue; the catalog's should_refresh asks for an indexed item too.
Changed(seen, version, own) ==
  \/ seen.stage = "absent"
  \/ seen.hash # version
  \/ own /\ seen.stage # "indexed"

Marked(seen, version) ==
  [stage |-> IF seen.stage = "absent" THEN "pending" ELSE "stale", hash |-> version]

\* The bound MaxTasks leaves a task for every thread that is about to create one.
RoomForTask ==
  Cardinality({w \in Worker : job[w].at = "enqueue"})
    < Cardinality({t \in Task : status[t] = "absent"})

\* A row written back as it was read undoes what was done to it since.
WriteBack(w) ==
  LET i == job[w].item
  IN /\ row' = [row EXCEPT ![i] = job[w].row]
     /\ Become(w, Rest)
     /\ Note(IF row[i] # job[w].row THEN {i} ELSE {}, "overwrite")

ScanWrite(w) ==
  /\ job[w].at = "write"
  /\ IF Changed(job[w].row, job[w].ver, job[w].own)
     THEN /\ RoomForTask
          /\ row' = [row EXCEPT ![job[w].item] = Marked(job[w].row, job[w].ver)]
          /\ Advance(w, "enqueue")
          /\ UNCHANGED mishap
     ELSE WriteBack(w)
  /\ UNCHANGED <<vars, disk, slots, target>>

OpenTask(i) == \E t \in Task : target[t] = i /\ status[t] \in {"queued", "running"}

\* Mutant of ScanEnqueue: an item with an open task is not given another one.
ScanEnqueueOnce(w, t) ==
  /\ job[w].at = "enqueue"
  /\ IF OpenTask(job[w].item)
     THEN UNCHANGED <<vars, target>>
     ELSE /\ IF job[w].own THEN CreateOwnTask(w, t) ELSE CreateTask(w, t)
          /\ target' = [target EXCEPT ![t] = job[w].item]
  /\ Become(w, Rest)
  /\ UNCHANGED <<disk, row, slots, mishap>>

\* create_task, and the token or the catalog's own processing after it.
ScanEnqueue(w, t) ==
  /\ job[w].at = "enqueue"
  /\ IF job[w].own THEN CreateOwnTask(w, t) ELSE CreateTask(w, t)
  /\ target' = [target EXCEPT ![t] = job[w].item]
  /\ Become(w, Rest)
  /\ UNCHANGED <<disk, row, slots, mishap>>

\* update_shared_item_flags and its two siblings: read, then write it all back.
EditRead(w, i) ==
  /\ Free(w) /\ row[i].stage # "absent"
  /\ Become(w, [Rest EXCEPT !.at = "edit", !.item = i, !.row = row[i]])
  /\ UNCHANGED <<vars, disk, row, slots, target, mishap>>

EditWrite(w) ==
  /\ job[w].at = "edit"
  /\ WriteBack(w)
  /\ UNCHANGED <<vars, disk, slots, target>>

\* An exception ends a scan or an edit, and the request with it.
ScanFault(w) ==
  /\ MaxFaults > 0 /\ phase = "up" /\ job[w].at \in Scanning
  /\ Note(IF job[w].at = "enqueue" THEN {job[w].item} ELSE {}, "gap")
  /\ Become(w, Rest)
  /\ UNCHANGED <<vars, disk, row, slots, target>>

-----------------------------------------------------------------------------
(* process_task *)

Processing(w, i) == job[w].at \in Working /\ job[w].item = i

\* It goes on if the task is running, whoever runs it.
BeginItem(w) ==
  /\ BeginTask(w)
  /\ IF pc'[w] = "work"
     THEN LET i == target[cur[w]]
          IN /\ Become(w, [Rest EXCEPT !.at = "mark", !.item = i])
             /\ Note(IF \E v \in Worker : Processing(v, i) THEN {i} ELSE {}, "overlap")
     ELSE UNCHANGED <<job, mishap>>
  /\ UNCHANGED <<disk, row, slots, target>>

\* Mutant of MarkItem: the stage is left as it was.
MarkItemSilently(w) ==
  /\ job[w].at = "mark"
  /\ Advance(w, "parse")
  /\ UNCHANGED <<vars, disk, row, slots, target, mishap>>

MarkItem(w) ==
  /\ job[w].at = "mark"
  /\ SetStage(job[w].item, "running")
  /\ Advance(w, "parse")
  /\ UNCHANGED <<vars, disk, slots, target, mishap>>

ParseItem(w) ==
  /\ job[w].at = "parse"
  /\ Become(w, [job[w] EXCEPT !.at = "delete", !.ver = disk[job[w].item]])
  /\ UNCHANGED <<vars, disk, row, slots, target, mishap>>

\* replace_chunks: the DELETE, one INSERT for each chunk (a chunk_id already
\* there breaks the UNIQUE constraint: only WorkFails is left), the stage.
DeleteChunks(w) ==
  /\ job[w].at = "delete"
  /\ slots' = [slots EXCEPT ![job[w].item] = [s \in Slot |-> Empty]]
  /\ Become(w, [job[w] EXCEPT !.at = "insert", !.nxt = 1])
  /\ UNCHANGED <<vars, disk, row, target, mishap>>

InsertChunk(w) ==
  LET j == job[w]
  IN /\ j.at = "insert" /\ slots[j.item][j.nxt] = Empty
     /\ slots' = [slots EXCEPT ![j.item][j.nxt] = j.ver]
     /\ Become(w, IF j.nxt = Chunks THEN [j EXCEPT !.at = "index"]
                                    ELSE [j EXCEPT !.nxt = @ + 1])
     /\ UNCHANGED <<vars, disk, row, target, mishap>>

IndexItem(w) ==
  /\ job[w].at = "index"
  /\ SetStage(job[w].item, "indexed")
  /\ Advance(w, "finish")
  /\ UNCHANGED <<vars, disk, slots, target, mishap>>

\* An exception inside the try of process_task, up to finish_task.
WorkFails(w) ==
  /\ job[w].at \in {"parse", "delete", "insert", "index", "finish"}
  /\ Advance(w, "fail")
  /\ UNCHANGED <<vars, disk, row, slots, target, mishap>>

\* Mutant of FailItem: the failure is not written to the item.
FailItemSilently(w) ==
  /\ job[w].at = "fail"
  /\ Advance(w, "failed")
  /\ UNCHANGED <<vars, disk, row, slots, target, mishap>>

FailItem(w) ==
  /\ job[w].at = "fail"
  /\ SetStage(job[w].item, "failed")
  /\ Advance(w, "failed")
  /\ UNCHANGED <<vars, disk, slots, target, mishap>>

FinishItem(w) ==
  /\ \/ job[w].at = "finish" /\ FinishAs(w, "succeeded")
     \/ job[w].at = "failed" /\ FinishAs(w, "failed")
  /\ Become(w, Rest)
  /\ UNCHANGED <<disk, row, slots, target, mishap>>

\* An exception outside the try, or in its except blocks.
ItemFault(w) ==
  /\ Fault(w)
  /\ Become(w, Rest)
  /\ UNCHANGED <<disk, row, slots, target, mishap>>

-----------------------------------------------------------------------------
(* Process life.  The startup scan runs on the main thread before there is *)
(* a runner, whose place in job it takes.  Uploads are not scanned then.   *)

BootScan(i) ==
  /\ phase = "syncing" /\ job[Runner].at = "none"
  /\ Changed(row[i], disk[i], FALSE) /\ RoomForTask
  /\ row' = [row EXCEPT ![i] = Marked(row[i], disk[i])]
  /\ Become(Runner, [Rest EXCEPT !.at = "enqueue", !.item = i])
  /\ UNCHANGED <<vars, disk, slots, target, mishap>>

BootEnqueue(t) ==
  /\ job[Runner].at = "enqueue"
  /\ BootCreate(t)
  /\ target' = [target EXCEPT ![t] = job[Runner].item]
  /\ Become(Runner, Rest)
  /\ UNCHANGED <<disk, row, slots, mishap>>

LibraryCrash ==
  /\ Crash
  /\ job' = [w \in Worker |-> Rest]
  /\ Note({i \in Item : \E w \in Worker : job[w].at = "enqueue" /\ job[w].item = i}, "gap")
  /\ UNCHANGED <<disk, row, slots, target>>

-----------------------------------------------------------------------------
\* Steps of the queue that do nothing to an item.
QueueStep ==
  /\ \/ \E w \in Http : \/ job[w].at = "none" /\ RunQueuedTasks(w)
                        \/ job[w].at = "none" /\ \E t \in Task : Requeue(w, t)
                        \/ PutToken(w)
     \/ \E w \in Worker : SelectOldest(w) \/ MarkRunning(w)
     \/ RunnerStep
     \/ Boot
     \/ job[Runner].at = "none" /\ StartRunner
     \/ StartThread
  /\ UNCHANGED libVars

Scan(w) ==
  \/ \E i \in Item : \/ \E own \in BOOLEAN : ScanFile(w, i, own)
                     \/ EditRead(w, i)
  \/ ScanRow(w) \/ ScanWrite(w) \/ EditWrite(w)
  \/ \E t \in Task : ScanEnqueue(w, t)

ProcessItem(w) ==
  \/ BeginItem(w) \/ MarkItem(w) \/ ParseItem(w) \/ DeleteChunks(w)
  \/ InsertChunk(w) \/ IndexItem(w) \/ WorkFails(w) \/ FailItem(w)
  \/ FinishItem(w)

LibraryInit ==
  /\ Init
  /\ disk = [i \in Item |-> 1]
  /\ row = [i \in Item |-> NoRow]
  /\ slots = [i \in Item |-> [s \in Slot |-> Empty]]
  /\ target = [t \in Task |-> NoItem]
  /\ job = [w \in Worker |-> Rest]
  /\ mishap = [i \in Item |-> {}]

LibraryNext ==
  \/ QueueStep
  \/ \E i \in Item : SourceChange(i) \/ BootScan(i)
  \/ \E t \in Task : BootEnqueue(t)
  \/ \E w \in Http : Scan(w) \/ ScanFault(w)
  \/ \E w \in Worker : ProcessItem(w) \/ ItemFault(w)
  \/ LibraryCrash

LibrarySpec == LibraryInit /\ [][LibraryNext]_allVars

-----------------------------------------------------------------------------
(* Properties *)

LibraryTypeOK ==
  /\ TypeOK
  /\ disk \in [Item -> Version]
  /\ row \in [Item -> Row]
  /\ slots \in [Item -> [Slot -> Version \cup {Empty}]]
  /\ target \in [Task -> Item \cup {NoItem}]
  /\ job \in [Worker -> Job]
  /\ mishap \in [Item -> SUBSET Mishap]

Whole(i) == \E v \in Version : \A s \in Slot : slots[i][s] = v

\* Somebody will still process the item: it has an open task, or a scan is
\* about to create one.
Scheduled(i) ==
  \/ OpenTask(i)
  \/ \E w \in Worker : job[w].at = "enqueue" /\ job[w].item = i

\* What retrieval is given (list_chunks reads the chunks of indexed items) is
\* the whole of one version of the file, unless two threads processed the item
\* at once or a stale row was written back over it.
IndexedIsWhole ==
  \A i \in Item :
    row[i].stage = "indexed" /\ mishap[i] \cap {"overlap", "overwrite"} = {} => Whole(i)

\* An index older than the fingerprint in its row is waiting for a task: the
\* scan that records a new fingerprint while an older version is being indexed
\* does not lose the newer one, unless its thread dies before create_task.
OldIndexScheduled ==
  \A i \in Item :
    row[i].stage = "indexed" /\ mishap[i] = {}
      => Scheduled(i) \/ \A s \in Slot : slots[i][s] >= row[i].hash

\* An item that waits for its index, or is half-way to it, has a task to get it
\* there, across restarts and uncaught exceptions, unless one of the mishaps
\* befell it.
UnfinishedScheduled ==
  \A i \in Item :
    row[i].stage \in {"pending", "stale", "running"} /\ mishap[i] = {} => Scheduled(i)
=============================================================================
