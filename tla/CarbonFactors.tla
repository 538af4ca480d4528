---------------------------- MODULE CarbonFactors ----------------------------
(* The runtime database of emission factors (carbon_factors/) and the           *)
(* requests that fill it.  Every read seeds the database first                  *)
(* (ensure_seeded): the bundled CarbonStop snapshot is imported unless a        *)
(* current import job is listed, and the factor files when no factor is         *)
(* stored.  An import is a series of transactions, one per row and one more     *)
(* for its aliases, with the job row as the last; imports of different          *)
(* requests interleave row by row, and a crash or a failing write leaves the    *)
(* rows written so far.                                                         *)
EXTENDS Integers, Sequences, SequencesExt, FiniteSets

CONSTANTS Threads,        \* request threads of the server
          Rows,           \* the rows of the bundled snapshot, in order
          Readable,       \* the rows with a readable value: each is a factor
          LiveSnapshots,  \* what a live fetch of the public site may return
          FileFactors,    \* the factors of the files under data/factors
          Payloads,       \* the factor lists an administrator may import
          JobLimit,       \* list_import_jobs returns so many jobs (100)
          MaxRequests,    \* bound: requests served
          MaxJobs,        \* bound: import jobs logged
          MaxFaults,      \* bound: crashes and failing writes
          None

ASSUME FactorsAssumption ==
  /\ Rows \in Seq(ToSet(Rows)) /\ Readable \subseteq ToSet(Rows)
  /\ \A rows \in LiveSnapshots : rows \in Seq(ToSet(rows))
  /\ IsFiniteSet(FileFactors)
  /\ \A p \in Payloads : p \in Seq(ToSet(p))
  /\ JobLimit \in Nat \ {0}
  /\ None \notin {"ccdb", "admin", "files"}

VARIABLES catalog,  \* carbon_factor_catalog_entries: rows seen, readable or not
          sources,  \* carbon_factor_sources
          factor,   \* carbon_factor_records: [st: none, on or off; rev]
          alias,    \* carbon_factor_aliases: the revision they were made from
          jobs,     \* carbon_factor_import_jobs, oldest first
          pc,       \* where each thread is
          todo,     \* the transactions its import still has to run
          req,      \* the request it serves
          asked,    \* requests so far
          faults    \* crashes and failing writes so far

factorVars == <<catalog, sources, factor, alias, jobs, pc, todo, req, asked, faults>>
stored == <<catalog, sources, factor, alias, jobs>>

Factors == Readable \cup FileFactors \cup UNION {ToSet(p) : p \in Payloads}
Absent == [st |-> "none", rev |-> None]
\* Mutant of On: the search forgets the switch.
OnOrOff == {f \in Factors : factor[f].st # "none"}
On == {f \in Factors : factor[f].st = "on"}

(* The transactions of an import.                                               *)
Tx(kind, x, rev) == [kind |-> kind, x |-> x, rev |-> rev]
\* Each factor's record, and then its aliases.
RecordTxs(fs, rev) ==
  [k \in 1..(2 * Len(fs)) |->
     Tx(IF k % 2 = 1 THEN "record" ELSE "alias", fs[(k + 1) \div 2], rev)]

(* A row whose value is hidden stays in the catalogue and makes no factor.      *)
NormalizedRows(rows) ==
  LET kept[i \in 0..Len(rows)] ==
        IF i = 0 THEN <<>>
        ELSE IF rows[i] \in Readable THEN Append(kept[i - 1], rows[i]) ELSE kept[i - 1]
  IN  kept[Len(rows)]

\* Mutant of CarbonStopImport: the job is logged before its rows.
CarbonStopImportJobFirst(rows, job) ==
  <<Tx("job", job, None)>> \o [i \in 1..Len(rows) |-> Tx("catalog", rows[i], None)]
  \o <<Tx("source", "ccdb", None)>> \o RecordTxs(NormalizedRows(rows), "ccdb")

CarbonStopImport(rows, job) ==
  LET ready == NormalizedRows(rows)
  IN  [i \in 1..Len(rows) |-> Tx("catalog", rows[i], None)]
      \o (IF ready = <<>> THEN <<>> ELSE <<Tx("source", "ccdb", None)>>)
      \o RecordTxs(ready, "ccdb") \o <<Tx("job", job, None)>>

RecordsImport(fs, source, job) ==
  <<Tx("source", source, None)>> \o RecordTxs(fs, source) \o <<Tx("job", job, None)>>

(* The jobs list_import_jobs returns, and whether one of them is a CarbonStop   *)
(* import of the current mapping: a live fetch counts like the bundled one.     *)
ListedJobs == {jobs[i] : i \in {k \in 1..Len(jobs) : k > Len(jobs) - JobLimit}}
HasCurrentSeed == ListedJobs \cap {"seed", "live"} # {}

-----------------------------------------------------------------------------
FactorsInit ==
  /\ catalog = {} /\ sources = {} /\ jobs = <<>>
  /\ factor = [f \in Factors |-> Absent]
  /\ alias = [f \in Factors |-> None]
  /\ pc = [t \in Threads |-> "idle"]
  /\ todo = [t \in Threads |-> <<>>]
  /\ req = [t \in Threads |-> None]
  /\ asked = 0 /\ faults = 0

Goto(t, where) == pc' = [pc EXCEPT ![t] = where]
Finish(t) == /\ Goto(t, "idle")
             /\ req' = [req EXCEPT ![t] = None]
             /\ todo' = [todo EXCEPT ![t] = <<>>]

Arrive(t, r, where) ==
  /\ pc[t] = "idle" /\ asked < MaxRequests
  /\ asked' = asked + 1
  /\ req' = [req EXCEPT ![t] = r]
  /\ Goto(t, where)

(* Searching factors or the catalogue, a factor's page, the sources and the     *)
(* facets all seed and then read.                                               *)
Browse(t) ==
  /\ Arrive(t, [op |-> "browse"], "seed")
  /\ UNCHANGED <<stored, todo, faults>>

(* POST import job: the payload is validated as a whole before any write.       *)
AdminImport(t) ==
  \E p \in Payloads :
    /\ Len(jobs) < MaxJobs
    /\ Arrive(t, [op |-> "import"], "write")
    /\ todo' = [todo EXCEPT ![t] = RecordsImport(p, "admin", "json")]
    /\ UNCHANGED <<stored, faults>>

(* POST carbonstop-sync: the bundled rows again, or a live fetch; a fetch that   *)
(* fails changes nothing.  Neither looks at the jobs first.                     *)
AdminSync(t) ==
  \E rows \in LiveSnapshots \cup {Rows} :
    /\ Len(jobs) < MaxJobs
    /\ Arrive(t, [op |-> "import"], "write")
    /\ todo' = [todo EXCEPT ![t] =
                  CarbonStopImport(rows, IF rows = Rows THEN "seed" ELSE "live")]
    /\ UNCHANGED <<stored, faults>>

(* PATCH factor: an unknown one is refused, a known one is switched and then    *)
(* read back, which seeds like any other read.                                  *)
SwitchFactor(t) ==
  \E f \in Factors, st \in {"on", "off"} :
    /\ factor[f].st # "none"
    /\ Arrive(t, [op |-> "browse"], "seed")
    /\ factor' = [factor EXCEPT ![f].st = st]
    /\ UNCHANGED <<catalog, sources, alias, jobs, todo, faults>>

(* ensure_seeded: the job list is read and, when no current job is listed, the  *)
(* whole snapshot is imported.                                                  *)
CheckSeed(t) ==
  /\ pc[t] = "seed"
  /\ IF HasCurrentSeed
     THEN Goto(t, "count") /\ UNCHANGED todo
     ELSE /\ Goto(t, "write")
          /\ todo' = [todo EXCEPT ![t] = CarbonStopImport(Rows, "seed")]
  /\ UNCHANGED <<stored, req, asked, faults>>

(* Then the factors are counted: with none the factor files are imported.       *)
CountFactors(t) ==
  /\ pc[t] = "count"
  /\ IF \E f \in Factors : factor[f].st # "none"
     THEN Goto(t, "serve") /\ UNCHANGED todo
     ELSE /\ Goto(t, "write")
          /\ todo' = [todo EXCEPT ![t] =
                        RecordsImport(SetToSeq(FileFactors), "files", "files")]
  /\ UNCHANGED <<stored, req, asked, faults>>

UpsertCatalogEntry(x) == catalog' = catalog \cup {x} /\ UNCHANGED <<sources, factor, alias, jobs>>
UpsertSource(x) == sources' = sources \cup {x} /\ UNCHANGED <<catalog, factor, alias, jobs>>
(* The record is replaced whole, its switch included.                           *)
UpsertFactorRecord(x, rev) ==
  /\ factor' = [factor EXCEPT ![x] = [st |-> "on", rev |-> rev]]
  /\ UNCHANGED <<catalog, sources, alias, jobs>>
ReplaceAliases(x, rev) ==
  /\ alias' = [alias EXCEPT ![x] = rev]
  /\ UNCHANGED <<catalog, sources, factor, jobs>>
CreateImportJob(x) == jobs' = Append(jobs, x) /\ UNCHANGED <<catalog, sources, factor, alias>>

(* Where a thread goes after the last transaction of its import.                *)
AfterImport(t, job) ==
  IF req[t].op = "import" THEN "done" ELSE IF job = "files" THEN "serve" ELSE "count"

(* One transaction of an import.                                                *)
WriteRow(t) ==
  /\ pc[t] = "write"
  /\ LET w == Head(todo[t])
     IN  /\ \/ w.kind = "catalog" /\ UpsertCatalogEntry(w.x)
            \/ w.kind = "source" /\ UpsertSource(w.x)
            \/ w.kind = "record" /\ UpsertFactorRecord(w.x, w.rev)
            \/ w.kind = "alias" /\ ReplaceAliases(w.x, w.rev)
            \/ w.kind = "job" /\ CreateImportJob(w.x)
         /\ IF Len(todo[t]) = 1 THEN Goto(t, AfterImport(t, w.x)) ELSE UNCHANGED pc
  /\ todo' = [todo EXCEPT ![t] = Tail(@)]
  /\ UNCHANGED <<req, asked, faults>>

(* The answer of a request that only reads, or of an import.                    *)
Answer(t) ==
  /\ \/ pc[t] = "done"
     \/ pc[t] = "serve" /\ req[t].op = "browse"
  /\ Finish(t)
  /\ UNCHANGED <<stored, asked, faults>>

(* A write fails (the database is locked or away): a request that reads or      *)
(* imports answers with an error, load_registry goes on without it.             *)
WriteFails(t) ==
  /\ pc[t] = "write" /\ faults < MaxFaults
  /\ faults' = faults + 1
  /\ IF req[t].op \in {"browse", "import"}
     THEN Finish(t)
     ELSE /\ Goto(t, "serve")
          /\ todo' = [todo EXCEPT ![t] = <<>>]
          /\ UNCHANGED req
  /\ UNCHANGED <<stored, asked>>

(* The server stops: every request is lost, what was committed stays.           *)
Crash ==
  /\ faults < MaxFaults
  /\ \E t \in Threads : pc[t] # "idle"
  /\ faults' = faults + 1
  /\ pc' = [t \in Threads |-> "idle"]
  /\ todo' = [t \in Threads |-> <<>>]
  /\ req' = [t \in Threads |-> None]
  /\ UNCHANGED <<stored, asked>>

FactorStep(t) ==
  \/ Browse(t) \/ AdminImport(t) \/ AdminSync(t) \/ SwitchFactor(t)
  \/ CheckSeed(t) \/ CountFactors(t) \/ WriteRow(t) \/ Answer(t) \/ WriteFails(t)

-----------------------------------------------------------------------------
(* Seeding is all or nothing for whoever asks whether it happened: once the job *)
(* of the bundled snapshot is logged (service.py:61-99 writes it last), every   *)
(* row is in the catalogue and every readable row is a factor with its source   *)
(* and its aliases, whatever crashed, failed or ran beside it.                  *)
SeedIsWhole ==
  "seed" \in ToSet(jobs) =>
    /\ ToSet(Rows) \subseteq catalog
    /\ \A r \in Readable : factor[r].st # "none" /\ alias[r] # None /\ "ccdb" \in sources

(* The switch is an administrator's ("factor enable/disable controls            *)
(* admin-only"): a factor that is off is not switched on by the seeding of a    *)
(* request that only reads or calculates.                                       *)
SwitchedOffStaysOff ==
  [][\A f \in Factors : factor[f].st = "off" /\ factor'[f].st = "on" =>
       \A t \in Threads : pc[t] = "write" /\ todo'[t] # todo[t] => req[t].op = "import"
    ]_factorVars
=============================================================================
