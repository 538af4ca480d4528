# Verification of CarbonRag

TLA+ models of the parts of CarbonRag whose correctness depends on the order in
which things happen, and of the rules that many steps must keep together.  Every
definition that models code names its lines in `PROJECT.json` ("map"); the paths
below are relative to `src/backend/app` unless they say otherwise.  TLC checks
small instances; TLAPS proves what matters most for every instance.

    tlasany KnowledgeTasks.tla                              # parse
    tlc -workers 2 -config MCKnowledgeTasks.cfg MCKnowledgeTasks
    tlapm KnowledgeLibraryProofs.tla                        # prove

## 1. The system

One Python process (FastAPI under uvicorn, one worker, restarted by systemd:
`docs/deploy/carbonrag.service:11`) serves a React frontend.  Synchronous
handlers run in a pool of request threads.  State lives in a database (SQLite
or PostgreSQL behind adapters), in files, and in memory.  Almost every statement
is a transaction of its own, and almost nothing is locked: that is where the
hard behaviour comes from.

| Component | State | Operations | Hard behaviour | What makes it correct | Module |
|---|---|---|---|---|---|
| **Task queue and runner** `knowledge/runner.py`, `store.py` | `knowledge_tasks`; in-memory tokens; one daemon thread | create, retry, claim, process, finish; startup reset; idle drain | the claim is a SELECT and an unconditional UPDATE, requests drain the same queue; crashes; exceptions that end threads | no task stays running with nobody on it, none is lost by a restart, each settles | KnowledgeTasks |
| **Knowledge items and chunks** `knowledge/service.py` | items, chunks, source files | scans, flag edits, `process_task` | rows written back whole from stale reads; DELETE, INSERTs and the mark are separate | what is indexed is whole; what is outdated or unfinished has a task | KnowledgeLibrary |
| **Streamed ask, server** `api/v1/endpoints/sessions.py`, `session/streaming.py` | messages; registry of event buffers; worker and title threads | POST (join or begin), attempts, deltas, finalize, title, expiry, deletion | retries before the first token only; check-then-act on the registry; deletion and restart in mid-stream | the end of the stream is the history; the answer starts once; one worker per question | AskStream |
| **Streamed ask, client** `src/frontend/src/services/sessions.ts` | answer on the screen, cursor, tries | send, read, reconnect, give up | lost connections, restarts of the server, cursors of an older stream | what it is told at the end is kept; no text twice; it ends | AskClient |
| **Sessions and titles** `session/service.py` | sessions, titles, messages | plain and streamed asks, looks that rename, renames, deletion | a look reads the title and the messages apart and writes a title; a model makes another in a thread beside; overlapping asks | titles come from questions with their own answers; a settled title stays | Sessions |
| **Session memory** `memory/` | summary and its cursor | build a context, compact | two asks of one session compact at once | the summary accounts for what it says; no message falls between summary and window | SessionMemory |
| **Settings and providers** `settings/` | one row per user, provider profiles | read (stores defaults), patch, CRUD of profiles, resolve | the row is written back whole; deletion falls back in later steps | the active provider is there | Settings |
| **Accounts** `auth/service.py` | users, sign-in sessions | register, recover, login, change, reset, lock, rename, delete, batch delete | a row is read and checked before another transaction writes | open sign-ins belong to the account as it is; a batch takes no administrator | Accounts |
| **Policy crawler** `knowledge/policy_live_crawler.py` | sources, runs, candidates; a scheduler thread | tick, manual run, publish, reject | scheduler beside manual runs and reviews; a newer version is published while a task of the older one is at work; a crash in mid-run | runs do not overlap, what is decided stays decided, the library follows it, every source comes round | PolicyCrawler, PolicyReview |
| **Documents of the RAG spine** `rag/kb/`, `rag/spine.py` | documents, chunk rows, vectors | parse, cut, index, pipelines, batches, sync | stages of several requests interleave statement by statement | a document nobody works on has what its row tells | RagDocuments |
| **Retrieval** `retrieval/`, `rag/service.py`, `rag/retrieval/` | caches of the process | build, clear, search, fuse, show chosen files | a build that overlaps a clear; stale engines | no cache behind the tables after the last clear; chosen files are shown; rankings merge by rank | RetrievalCaches, RankFusion, Retrieval |
| **Factors and inventories** `carbon_factors/`, `carbon/` | catalog, factors, aliases, jobs; calculations | seed, import, switch, extract, calculate, store | imports in many transactions; alignment by position; a registry per request | an import is whole or not taken for it; lines follow items and fresh factors | CarbonFactors, CarbonExtraction, CarbonInventory |
| **Reports** `report/` | reports, sources | resolve, write, store, announce, update | the session goes while the provider writes | a report draws on its own session and is announced there | Reports |
| **Runtime schema** `runtime_db/schema.py` | foreign keys of two scripts | deletions, backfill | two scripts by hand, old databases, connections that do not enforce keys | a session goes whole; content outlives its account | RuntimeSchema |

How they interact: an ask (AskStream, Sessions) builds its context (SessionMemory),
searches (Retrieval, which syncs into RagDocuments), may calculate (CarbonInventory)
and calls the provider that Settings resolves.  Uploads and the crawler make items
and tasks (KnowledgeLibrary, KnowledgeTasks), whose processing clears the caches of
Retrieval.  Deleting a session or an account runs through RuntimeSchema.

Composed in modules: the library with its queue, the client with its server, reports
with inventories with factors, retrieval with its caches and its fusion.  Accounts
and Settings share no state in the model, nor do SessionMemory and Sessions; the run of
such a pair lets one of the two move in a behaviour.

## 2. The models

**KnowledgeTasks.**  `status` is `knowledge_tasks.status`, numbered by `task_seq`;
`queue` is `runner._queue`; `pc`/`cur` are the threads; `todo` a listing of queued
tasks still to be put; `phase` the life of the process.  One action is one SQL
statement or one queue operation.  `Fault` is an exception nobody catches, which ends
a request or, for good, the runner's thread.  The table survives a crash; tokens and
threads do not.

**KnowledgeLibrary** EXTENDS it and refines its steps.  `row` is the item (its three
stage columns are written together, so they are one `stage`) with the fingerprint it
was last seen with; `slots` are the chunks, each with the version it was cut from;
`job` is what a thread has read and how far it is.  `mishap`, a history variable,
records three things the code lets happen: two threads processed the item at once
(*overlap*), a stale row was written over a newer one (*overwrite*), a thread died
between marking the item and creating its task (*gap*).  The invariants name the
mishaps they except and no more.

**AskStream.**  The session and its messages, the registry's entry for the group, the
buffered `events` of each stream, and for each exchange its worker and title thread.
`registry.get` and `registry.create` are two critical sections; `Recover` is the
worker's except clauses; `CheckSession`/`WriteMessage` are `finalize_exchange`.
**AskClient** conjoins the loop of `submitSessionAskStreamRequest` with it.  Each try
is a request thread of the server; `Break` may happen at any moment, and the server's
thread then goes on alone.

**Sessions.**  A look (`Look`, `ListMessages`) reads the title and, in a later statement,
the messages: `get_session` has a connection for each, and `list_sessions` has all
titles before it reads the messages of the first session.  Of a temporary title it then
stores one made from the first three questions, in an UPDATE of its own (`Normalise`).
`shown` is the title a look has read, and then the one it will store.  An ask may have a
title made after the first and second question (`Asked`, from `ValidExchanges`, the
pairing by position of `_collect_valid_title_exchanges`, written as a recursive
function), in its own thread or, when streamed, beside it.  Several looks in a row are
one; the messages are a step of their own where the title is temporary or one is to be
made, which is where they are used.  Of what was said only the order, who and whether it
was answered matter: an answer that is pending and one that has failed are both `open`.
System messages, pins and attachments are left out.

**SessionMemory.**  `row` is the summary with its cursor, `ask` what each question has
read.  A summary stands for the messages it was made from with what they said then.
The window is 12 messages in the code and 4 in the run, the minimum 4 and 2.

**Settings.**  Of the four sections of the settings row one is modelled, the automatic
title; `overtaken`, a history variable, names the profiles that a stale write made
active again after their deletion.

**Accounts.**  One action per transaction of `AuthService`.  `late` and `promoted` are
history variables: logins whose account changed before their INSERT, and accounts made
administrators while a batch deletion was deciding on them.

**PolicyCrawler.**  Runs by the loop and by hand under `_run_lock`, the documents a
run brings (any), candidates, publication and rejection write by write.  `work` is what
each thread that drains the queue has of a `crawl_ingest` task: `_process_policy_task`
marks the row, parses the staged file, replaces the chunks, marks the row indexed and
finishes the task in steps of their own (`TaskMark` ... `TaskFinish`), so another version
can be staged, stored and enqueued between any two of them.  `queued` and `lost` count
the tasks of a URL that wait, and those an exception left running; `TaskBegin` takes one
of either.  `hurt` and `contested` are history variables: URLs of a publication that
broke off, or at which two publications or two workers met, and candidates under two
reviews at once.  How a queue hands out its tasks is KnowledgeTasks' subject.
**PolicyReview** is what it promises a reviewer: three states of a candidate.  The
refinement (`INSTANCE PolicyReview WITH ...`) is checked with automatic publication off
and one reviewer at a time.

**RagDocuments.**  One document row, its chunk rows by generation, its vectors; the
stages by themselves, pipelines, batches and the sync before a question.

**RetrievalCaches / RankFusion / Retrieval.**  Each `lru_cache` is a slot with the
versions it was built from; a build and a clear interleave.  The engine is fetched once
per request; what a thread takes of it fills the corpora it was wanted for (`Fills`).
A sort is by rank: the n-th of the result is the one with n - 1 before it (`Ahead`,
`Nth`), which is Python's stable sort.  A corpus is read in one step, an admin edit is one step; there is one
chunk per item; relevance is a function of question and item; the dense search may be
unavailable.  Policy files of the repository and private samples are left out.

**CarbonFactors / CarbonExtraction / CarbonInventory / Reports.**  Imports row by row,
each a transaction; extraction, factor choice and breakdown as pure operators, the loops
over chunks, segments, patterns and amounts as recursive functions; calculations and
reports as requests over them.  What an item asks of its factor (region, year, method)
is one of `Regions`.  Decimals are small integers and their
arithmetic is left out.

**RuntimeSchema.**  Every foreign key of both scripts as a relation, one row per table,
the ways old databases differ, and `DELETE` as the least set closed under the keys.  A
start adds what columns an older database lacks before it makes the indexes over them
(`Upgrade`).  `SchemaAssumption` bounds the age of a database: its references below a
session need not cascade, the columns of `LaterColumns` may be missing, all else is as
today; and requests write rows of a user or a session on which nothing hangs.

The `MC*` modules give the constants their values.

## 3. Runs

| Run | What it shows | Bounds | States |
|---|---|---|---|
| tasks | no task is left running with nobody on it, a restart finds every open task, each settles | 2 request threads + runner, 2 tasks, one retry and a crash or an uncaught exception | 0.8 M |
| library | what is indexed is whole; what is outdated or unfinished has a task | 1 source, 2 chunks, 2 versions, 2 tasks, 1 request thread + runner, one upset | 1.3 M |
| stream | the end of the stream is the history; the answer starts once; one worker answers | 1 request thread, 2 exchanges, 2 attempts, 2 pieces, deletion, 1 crash | 1.0 M |
| client | the final answer it is told is kept, no text is shown twice, the question ends | 1 request thread, 2 exchanges, 3 tries, automatic titles, deletion, 1 crash, fairness | 1.7 M |
| policy | the library follows the review while versions are published in mid-task; what is decided stays decided | 1 source, 2 versions of a document, the loop + 1 administrator, 1 worker, automatic publication, 1 fault | 5.6 M |
| policy_review | no two crawls at once, an interrupted run is due again, the crawler implements PolicyReview, every source comes round again and again | 2 sources, 2 versions, the loop + 1 administrator, 1 manual run, 1 fault, reviews by hand, fairness; no tasks are processed | 0.2 M |
| schema | a session goes with all that hangs on it, only owners dangle, content outlives its account | all keys of both scripts, every order of deletions | 48 k |
| accounts | an open sign-in belongs to the account as it is, a batch takes no administrator, the active provider is there | 3 accounts, 2 names, 2 passwords, 2 tokens, 2 threads, 4 writes, 1 crash; 1 profile | 1.2 M |
| memory | the summary accounts for what it says, the latest messages are spared, no gap in a context; titles are made of exchanges and stay once settled | 2 questions at once, 8 messages, 1 crash; 2 threads, 3 questions, 1 title thread | 5.0 M |
| kb | a document nobody works on has the chunks and vectors its row tells | 1 document, 2 threads, 2 texts, 3 runs, 2 cuttings, 1 crash | 3.7 M |
| inventory | imports of the seed are whole or not taken for it; lines follow items and factors; reports are grounded and announced | 2 threads, 2 sessions, 2 requests, 2 rows, 1 fault, jobs listed 2 at a time | 1.3 M |
| retrieval | no cache behind the tables after the last clear; chosen files are shown; fusion is fair and mixed search shares its places | 2 threads, 2 uploads and 1 policy, 1 change, 2 asks, 2 places | 0.9 M |

**Why these bounds.**  Two threads give every pair of roles at one row.  Two tasks let a
token lead the runner to *another* task than its own, the one surprise of `Dispatch`.
One crash covers a life before and a life after; startup treats every later one alike.
Two versions and two chunks are the least for an index that is old or partial.  Two
exchanges are what one restart or one overlap can make; three tries have a first, one
between and a last.  Four writes let a user register, change the first password,
promote and delete.  Three questions are where titles settle.  Eight messages with a
window of four reach two compactions.  Three runs and two cuttings of a document give a
stage, one that overlaps it, and one after both.  One change and two asks give a change
between the building of an engine and its use, and two asks that share caches.  Job
lists of two are full where the code's are at a hundred
(`list_import_jobs`).  One worker is enough for a task against publications: two
at one URL are excused, and the proof is for any number; and no task matters to what the
run of the review says.  The library run is not followed
beyond an overlap or overwrite of its only item: the invariants claim nothing then.
Deadlock is not checked where the bounded system may stop: schema, accounts, memory,
kb, client, inventory, retrieval.

**Fairness.**  Weak fairness of threads that have begun something: a request being
served, a worker (the provider's HTTP timeout ends every wait for it), the runner's
loop, the crawler's loop, startup (systemd restarts the process), the client's loop.
Nothing makes a user send a request or delete a session, the process crash, a source
file change, a title arrive, or a *living* connection break.  A connection whose server
thread is gone does break, and a response that was left is closed by the server.
`EveryTaskSettles` speaks of behaviours without uncaught exceptions: one of those ends
the runner's thread until the next restart.

**Mutants.**  Each property has a mutant in `PROJECT.json`: a plausible bug in one mapped
definition (`\* Mutant of ...` in the module) with which TLC finds the property violated.


## 4. Proofs

Every theorem holds for all values of the constants under the named `ASSUME`s of the
modules, which say little more than that bounds are numbers, roles are distinct, tables
are finite, requests are well formed and a database is no older than the upgrades know.
Nothing else is assumed.

| Module | Theorem | Argument |
|---|---|---|
| KnowledgeLibraryProofs, the queue | `TypeCorrect`, `RunningOwned`, `StartupSafe` | `IInv`: `TypeOK`, a thread that acts on a task holds its id (`HoldsTask`), `RunningHasOwner`, `StartupLosesNothing`. Two threads may hold one task, so "running has an owner" needs the thread's place (`pc`) and not its claim. |
| the library | `LibraryImplementsTasks`, `LibraryRunningOwned` | Each library action is an action of the queue or leaves its variables alone: the refinement mapping is the identity. |
| | `LibraryTypeCorrect`, `IndexWhole`, `OldIndexHasTask`, `UnfinishedHasTask` | `PlaceInv`: a thread at an item processes the task of that item (`Placed`), every id that is held is a row (`Known`), no fingerprint is of a version still to come (`Current`). `IndexInv`: unless a mishap befell the item, one thread at most is at it (`Solo`), what it has written so far is of the version it read (`Written`), and the task it processes is open, with another one there if a scan saw a newer version meanwhile (`Promised`). The three properties are inductive only together: a half-written index is excused by its task, the task by the thread. |
| AskClientProofs, the server | `StreamTyped`, `StreamTells`, `StreamReads`, `StreamAnswersOnce` | The invariant follows an exchange: `Begun`, `CreatesFirst`, `CreatesAlone`, `Closed`, `Streamed`, `Chosen`, `Written`, `Announced`. A buffer is closed only after its message is written, and only the exchange's worker does either. `OneAnswerPerGroup` needs `Serial`, that POSTs of one group do not overlap: section 5 shows what happens without. |
| the client | `ClientImplementsStream`, `ClientTold`, `ClientShows` | The client only conjoins to the server's steps. `CInv` adds that an answer kept is over for good and that no cursor is past the end of a closed stream; `SInv` adds that a stream has as many pieces as were put into it (`Counted`) and that its end counts them all (`Final`), that only a client that shows nothing connects (`Resting`), and that what a connected one shows was sent before its cursor or is the text of the end (`Shown`). |
| SessionMemoryProofs | `MemoryTyped`, `SummaryAccounts`, `RecentSpared`, `ContextWhole` | `MInv`: every row written or about to be written is sound, what a question has read came before, and a question that was alone has read what is there. |
| AccountsProofs, accounts | `AccountsTyped`, `SessionsCurrent`, `AdminsKept` | `SessionsAreCurrent` is inductive with `TypeOK`: each transaction that changes a password, a status or a row closes the account's sessions, and a login overtaken before its INSERT goes to `late`. `AdminsStay` follows from `LookedAt`: what a batch has looked at was no administrator or is in `promoted`. |
| settings | `ActiveProviderFound` | `SettingsInv`: a reference to a deleted profile is overtaken, or held by a deletion that has still to read the row, or has read it naming its profile. |
| titles | `TitlesBelong`, `TitleStays` | `ExchangesStand`: by induction along the messages the first pair that `ValidExchanges` collects is a question with the message right after it. `SessionInv`: an answer stands behind its question, if not right behind it (`Answers`), a thread about to store one has asked (`Ready`), and what is held as a draft was paired so (`ExchangesBelong`). A thread reads and stores titles of its own only (`ShownElsewhere`), so a title settled when it was read is not stored again, whatever the messages are by then. |
| schema | `SchemaTyped`, `SessionLeavesNothing`, `DanglingIsExcused`, `ContentOutlives` | `FitsScript`: what the references of either script may be, by cases over them; `Now`: the same of a database of any age. `FallenIs`: where references lead no further than two steps, five rounds of the cascade are closed under it. So a statement keeps the rows `Sound` (`DeleteKeeps`), and each statement of `delete_session` finds the children of its row gone, whatever its keys say. `SchemaInv` adds that no reference to a session is ever cleared: a late write without its session would go unseen otherwise. |
| PolicyCrawlerProofs | `TickStaysCurrent`, `InterruptedStaysDue`, `LibraryKeepsUp`, `ReviewStays`, `ReviewPromiseKept` | Only the holder of the lock crawls, and all that its tick has still to do is due; a running run leaves its source due. `Follows`: at most one publication stands between a file and its task and at most one worker is at a URL that is not hurt; a row that is not between the two has the hash of the staged file; and unless a task is to come, what the worker holds or has stored is that file (`Even`). So a worker that marks a newer version's row indexed leaves that version's task behind it. `Single`, `Stands`: a candidate that is not contested is under one review at most, which began while it was pending or is a crawl's. The refinement of PolicyReview is proved for reviews by hand and one reviewer at a time; the mapping reads a candidate's status and the link to its row. |
| ReportsProofs | `ReportsTypeCorrect`, `SeedWhole`, `FactorsAreFresh`, `LinesFollow`, `LateReports`, `GroundedReports`, `AnnouncedReports` | An import has every row behind it or before it and its job at the end (`Writing`, `Seeding`), and rows are never taken away. A calculation that has loaded its factors holds none that was off since it was asked for. Whatever is extracted is a list of items that ask for a region (`Listed`, along the five loops of `Extract`), the registry is finite (`Aligned`), so the best of the factors for an activity is one of them; the items with an amount and their positions are collected together (`Upto`). A report request holds a session and the calculation it chose; whatever it stores after the session's end is late, and its announcement is the step after its INSERT. |
| RagDocumentsProofs | `DocumentsTyped`, `QuietWhole` | `DocInv`: a run is where its kind can be and its rows are the first of one cutting (`Proper`); one that is alone on its document stays so until noted otherwise (`Alone`) and knows the row and the chunks as they are (`Knows`); a document agrees with its statuses but between the clearing and the marking of its one run (`Agrees`); one that is gone has left nothing (`Gone`). |
| RetrievalProofs, caches | `RetrievalTyped`, `CachesCurrent` | `CachesInv`: what a thread builds or fetches goes into what it keeps later, and what it clears goes before what has parts of it (`Ordered`); what it is about to keep is current or owed a clear, unless a clear fell into the build (`Keeps`). The order of the clears matters here: the engine is cleared after the corpora it would be built from. |
| requests | `UploadsShown`, `FusionFair`, `MixedShares` | The sorts are shown to be permutations in the order of the scores (ranks are a bijection when no two have the same ones before them). A chunk nowhere lower has a larger sum of `1/(60 + rank)`, by arithmetic of fractions; a refill takes what the other side leaves. For uploads: what is chosen and untouched since the request is ready, so `ListChunks` has it, whatever the engine held (`Uploaded`). |

Recursive definitions are recursive functions, and facts about them are proved by
taking the least counterexample (`NoCounterexample`, from the well-foundedness of the
numbers), since the induction theorems of the library take an operator.

Only model-checked: everything live (`EveryTaskSettles`, `ClientSettles`,
`EverySourceComesRound`), which is out of the prover's reach.

## 5. Where the code and its documents part

These configurations are kept beside the runs.  Each names properties that a document
of the repository states and that TLC finds violated by what the code does; TLC stops
at the first one, so take it out to see the next.

| Configuration | Property | Says | What happens |
|---|---|---|---|
| `MCKnowledgeTasksOneOwner` | `OneOwnerPerTask` | one runner consumes queued tasks in order (`docs/PLAN/V1.1.0.md:50-52`) | a request draining the queue and the runner both read a task as queued, and both run it: the UPDATE does not ask for the old status (`knowledge/store.py:485`) |
| `MCKnowledgeLibraryClaims` | `NotLeftRunning` | an item advances to parsed, ingested, indexed (`docs/architecture/PRIVATE_KNOWLEDGE_TASK_FLOW.md:50`) | a stale row is written back over the newer one |
| | `ChangedIsRebuilt` | a changed fingerprint leads to a rebuild (same file, line 56) | a crash between marking the item and creating its task: the next scan sees nothing changed |
| `MCAskStreamDeleted` | `EveryStreamEnds` | a failure writes an error back (`docs/architecture/CHAT_STREAMING_FLOW.md:26`) | the session is deleted in mid-stream; the worker's own error handling fails and the buffer is never closed |
| `MCAskClientClaims` | `DoneIsWhole` | a broken stream is resumed, not begun again (`docs/PLAN/V1.1.13.md:8`) | a try with an old cursor joins a newer stream of the group and shows the end of its answer as the whole |
| | `OneMessagePerGroup` | a retry adds no second answer (same file, lines 159-160) | two overlapping POSTs both find no entry in the registry |
| `MCAccountsSeed` | `AdminCanReturn` | a lost administrator can be registered again (`README.md:119`) | somebody has taken "admin" as a display name (`auth/service.py:706`), which is unique: the INSERT is refused (and the next start fails) |
| `MCSessionMemoryBlank` | `AnswersAreSummarized` | older messages go into the summary (`docs/architecture/CHAT_CONTEXT_COMPACTION_RULES.md`) | an answer still being written is summarised as a blank and the cursor passes it |
| `MCReportsSwitch` | `SwitchedOffStaysOff` | enabling and disabling factors is the administrator's (`openspec/changes/carbon-factor-database-foundation/specs/frontend-shell-settings/spec.md:15`) | the seeding of a request that only calculates writes the factor of the file again, enabled |
| `MCRetrievalSelected` | `HitsAreSelected` | a corpus is cached by knowledge base and watermark (`docs/PLAN/V1.6.29.md:14`) | the key is the number of chunks and the newest of them, which two selections of files can share (`rag/retrieval/sparse.py:56-80`) |

`PolicyCrawler.PublishedIsInLibrary` (what is published enters the ingestion at once:
`openspec/changes/policy-live-crawler-admin-interaction-hotfix/specs/knowledge-rag/spec.md`)
fails too, when added to `MCPolicyCrawler.cfg`: a publication can break off after its
status is written.  So does `PolicyCrawler.RejectionStands`: with automatic publication a
crawl that finds a rejected document again calls `publish_candidate`, which refuses it
(`knowledge/policy_live_crawler.py:822`), and `_run_source` takes the refusal for a failure
of indexing and writes the candidate published (lines 1044-1054).  `ReviewIsKept` states what is
left: such a document stays decided, and everything else stays decided the same way.

Met while modelling, and worth a look:

* Policy tasks: two threads that process one URL at once (a request that publishes drains
  the queue itself) can end with the chunks of the older version under the hash of the
  newer one, since `replace_chunks` does not ask which version the row has by then.
  `LibraryFollowsReview` excuses such URLs (`hurt`).
* Settings: the defaults that a first read stores can overwrite settings stored
  meanwhile; overlapping patches lose one; an update that overlaps the deletion of a
  profile inserts it again without its key.
* Sessions: a second turn's title overwrites a rename made while the model was at work;
  so does a look that read the temporary title before the rename, and a list of sessions
  has read all titles long before (`session/service.py:70`, `:382`);
  with automatic titles off, a look still normalises a title.
* Factors and inventories: a unit the extractor knows and the converter does not loses
  the whole calculation; aliases are written in a transaction of their own; a factor
  switched off in the database is found again in the file; calculations outlive their
  session.
* Retrieval: two questions that sync at once can make two documents of one item; an
  item not ready at its sync gets a document without chunks and is not tried again;
  edits of flags by an administrator do not clear the public corpus.
* Schema: on SQLite the rows of a deleted user keep an owner that is not there, and the
  backfill, which looks for NULL, does not find them.
* After a restart an interrupted answer stays pending until its question is asked again.

## 6. Not modelled, and why

* **Policy ingestion, spider, files and parsers**: text extraction and scoring, which is
  data, and I/O.  Uploads run in the event loop one at a time, so the limits of a
  session are checked without a race.
* **Prompts, tools, thinking deltas, wire formats, embeddings, vector search, decimals**:
  data that no property tells apart.
* **`trigger_scan`, `rebuild_items`, `run_once`** of the runner: the application never
  calls them.  Workflow records are written for display only.
* **Pins, attachments, system messages, memory notes, feedback**: CRUD on rows nobody
  else changes; their deletion is in RuntimeSchema.
* **Connection tests, model discovery, encryption of keys**: calls to the outside that
  change nothing here.
* **Frontend pages**: presentation.

The map covers a little over 30 % of the implementation.

## 7. Left to do

* `CachesCurrent` with `unsaid`, the changes no cache is told of, made precise: which
  edits they come from.
* The client's plain ask after a proxy's error page (`src/frontend/src/services/sessions.ts:239`),
  which is posted without the group.
* Attachments with their uploads; document stages (RagDocuments) as an implementation of
  a queue of their own.
