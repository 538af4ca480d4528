---------------------------- MODULE RuntimeSchema ---------------------------
(***************************************************************************)
(* The runtime database: what its foreign keys do when rows are deleted,   *)
(* on PostgreSQL and on SQLite, for which each store decides itself        *)
(* whether a connection enforces them.                                     *)
(*                                                                         *)
(* There is one row per table: the account of one user, a session of his   *)
(* and all that hangs on them.  A reference of a row points to the row of  *)
(* its parent table, is NULL, or, for an owner, points to the seed admin.  *)
(* A database made by an older version has references of session rows      *)
(* that do not cascade, and lacks columns that the first start adds.       *)
(***************************************************************************)
EXTENDS Integers, Sequences, FiniteSets

CONSTANTS
  MayBeOld,  \* references to session rows that an old database may have without CASCADE
  MayLack,   \* columns that an old database may lack
  Flight     \* transactions of requests that passed their checks and have yet to write

Refs(parent, children, rule) ==
  {[child |-> c, parent |-> parent, rule |-> rule] : c \in children}

-----------------------------------------------------------------------------
(* SQLITE_SCHEMA_SCRIPT, in the order of its tables *)

SqliteSession ==
  Refs("users", {"auth_sessions", "user_settings", "user_provider_profiles",
                 "memory_notes"}, "cascade")
    \cup Refs("users", {"sessions", "files"}, "null")
    \cup Refs("sessions", {"messages", "files", "session_knowledge_items",
                           "session_private_samples"}, "cascade")
    \cup Refs("files", {"file_parse_results"}, "cascade")

SqliteKnowledge ==
  Refs("users", {"knowledge_items", "rag_knowledge_bases", "rag_documents",
                 "rag_chunks"}, "null")
    \cup Refs("files", {"knowledge_items", "rag_documents"}, "null")
    \cup Refs("knowledge_items", {"knowledge_chunks"}, "cascade")
    \cup Refs("knowledge_items", {"rag_documents"}, "null")
    \cup Refs("rag_knowledge_bases", {"rag_documents", "rag_chunks"}, "cascade")
    \cup Refs("rag_documents", {"rag_chunks"}, "cascade")

SqliteWork ==
  Refs("users", {"rag_test_qa_runs", "rag_eval_runs", "knowledge_graph_nodes",
                 "knowledge_graph_edges", "knowledge_tasks", "feedback_entries"}, "null")
    \cup Refs("rag_knowledge_bases", {"rag_test_qa_runs"}, "cascade")
    \cup Refs("rag_knowledge_bases", {"rag_eval_runs"}, "null")
    \cup Refs("rag_eval_runs", {"rag_eval_cases"}, "cascade")
    \cup Refs("knowledge_items", {"workflow_runs"}, "null")
    \cup Refs("knowledge_items", {"knowledge_tasks"}, "cascade")
    \cup Refs("workflow_runs", {"workflow_nodes", "execution_checkpoints"}, "cascade")

SqliteCarbon ==
  Refs("users", {"carbon_calculations", "carbon_factor_import_jobs",
                 "carbon_inventories"}, "null")
    \cup Refs("carbon_factor_sources", {"carbon_factor_records"}, "null")
    \cup Refs("carbon_factor_records", {"carbon_factor_aliases"}, "cascade")
    \cup Refs("carbon_inventories", {"carbon_activity_items",
                "carbon_calculation_lines", "carbon_factor_snapshots"}, "cascade")
    \cup Refs("carbon_activity_items", {"carbon_calculation_lines"}, "null")

SqliteReports ==
  Refs("carbon_inventories", {"carbon_evidence_references",
         "carbon_inventory_summaries"}, "cascade")
    \cup Refs("carbon_activity_items", {"carbon_evidence_references"}, "cascade")
    \cup Refs("sessions", {"reports"}, "cascade")
    \cup Refs("reports", {"report_sources"}, "cascade")
    \cup Refs("users", {"reports", "private_sample_catalog_overrides",
                "knowledge_refresh_tasks", "policy_crawl_runs",
                "policy_crawl_candidates"}, "null")
    \cup Refs("policy_crawl_sources", {"policy_crawl_runs",
                "policy_crawl_candidates"}, "cascade")
    \cup Refs("policy_crawl_runs", {"policy_crawl_candidates"}, "cascade")
    \cup Refs("knowledge_items", {"policy_crawl_candidates"}, "null")

Sqlite == SqliteSession \cup SqliteKnowledge \cup SqliteWork \cup SqliteCarbon
            \cup SqliteReports

-----------------------------------------------------------------------------
(* POSTGRES_SCHEMA_STATEMENTS *)

\* Mutant of PostgresSession: a session goes with its user.
PostgresSessionCascades ==
  Refs("users", {"auth_sessions", "user_settings", "user_provider_profiles",
                 "memory_notes", "sessions"}, "cascade")
    \cup Refs("users", {"files", "knowledge_items"}, "null")
    \cup Refs("sessions", {"messages", "files", "session_knowledge_items",
                           "session_private_samples"}, "cascade")
    \cup Refs("files", {"file_parse_results"}, "cascade")

PostgresSession ==
  Refs("users", {"auth_sessions", "user_settings", "user_provider_profiles",
                 "memory_notes"}, "cascade")
    \cup Refs("users", {"sessions", "files", "knowledge_items"}, "null")
    \cup Refs("sessions", {"messages", "files", "session_knowledge_items",
                           "session_private_samples"}, "cascade")
    \cup Refs("files", {"file_parse_results"}, "cascade")

PostgresKnowledge ==
  Refs("knowledge_items", {"knowledge_chunks"}, "cascade")
    \cup Refs("files", {"knowledge_items", "rag_documents"}, "null")
    \cup Refs("users", {"rag_knowledge_bases", "rag_documents", "rag_chunks"}, "null")
    \cup Refs("rag_knowledge_bases", {"rag_documents", "rag_chunks"}, "cascade")
    \cup Refs("knowledge_items", {"rag_documents"}, "null")
    \cup Refs("rag_documents", {"rag_chunks"}, "cascade")

PostgresWork ==
  Refs("users", {"rag_test_qa_runs", "knowledge_graph_nodes",
                 "knowledge_graph_edges", "knowledge_tasks", "feedback_entries"}, "null")
    \cup Refs("rag_knowledge_bases", {"rag_test_qa_runs"}, "cascade")
    \cup Refs("knowledge_items", {"knowledge_tasks"}, "cascade")
    \cup Refs("knowledge_items", {"workflow_runs"}, "null")
    \cup Refs("workflow_runs", {"workflow_nodes", "execution_checkpoints"}, "cascade")

PostgresCarbon ==
  Refs("users", {"carbon_calculations", "carbon_factor_import_jobs",
                 "carbon_inventories"}, "null")
    \cup Refs("carbon_factor_sources", {"carbon_factor_records"}, "null")
    \cup Refs("carbon_factor_records", {"carbon_factor_aliases"}, "cascade")

PostgresInventory ==
  Refs("carbon_inventories", {"carbon_activity_items", "carbon_calculation_lines",
         "carbon_factor_snapshots", "carbon_evidence_references",
         "carbon_inventory_summaries"}, "cascade")
    \cup Refs("carbon_activity_items", {"carbon_calculation_lines"}, "null")
    \cup Refs("carbon_activity_items", {"carbon_evidence_references"}, "cascade")
    \cup Refs("sessions", {"reports"}, "cascade")
    \cup Refs("reports", {"report_sources"}, "cascade")
    \cup Refs("users", {"reports", "private_sample_catalog_overrides",
                "knowledge_refresh_tasks"}, "null")

PostgresPolicy ==
  Refs("policy_crawl_sources", {"policy_crawl_runs", "policy_crawl_candidates"}, "cascade")
    \cup Refs("policy_crawl_runs", {"policy_crawl_candidates"}, "cascade")
    \cup Refs("users", {"policy_crawl_runs", "policy_crawl_candidates"}, "null")
    \cup Refs("knowledge_items", {"policy_crawl_candidates"}, "null")

PostgresEval ==
  Refs("users", {"rag_eval_runs"}, "null")
    \cup Refs("rag_knowledge_bases", {"rag_eval_runs"}, "null")
    \cup Refs("rag_eval_runs", {"rag_eval_cases"}, "cascade")

Postgres == PostgresSession \cup PostgresKnowledge \cup PostgresWork
              \cup PostgresCarbon \cup PostgresInventory \cup PostgresPolicy
              \cup PostgresEval

Script(b) == IF b = "sqlite" THEN Sqlite ELSE Postgres

Table == {r.child : r \in Sqlite} \cup {r.parent : r \in Sqlite}

\* What hangs on a session, and what is the user's alone.
OfSession == {"messages", "files", "file_parse_results", "session_knowledge_items",
              "session_private_samples", "reports", "report_sources"}
Personal  == {"users", "auth_sessions", "user_settings", "user_provider_profiles",
              "memory_notes"}

\* The rows of one transaction.
Bundle(t) == IF t = "reports" THEN {"reports", "report_sources"} ELSE {t}

-----------------------------------------------------------------------------
(* The upgrade of an older database.  Of the columns it adds, those that an    *)
(* index or a foreign key of a new database names; of the columns an index     *)
(* names, the owners and the display name: every version has the others.       *)

Owners(tables) == {<<t, "owner_user_id">> : t \in tables}
DisplayName == <<"users", "display_name">>

\* What an older database may lack: columns that came after their tables.
LaterColumns ==
  {DisplayName} \cup Owners({"sessions", "files", "knowledge_items", "knowledge_chunks",
                             "feedback_entries", "carbon_calculations", "reports"})

\* The columns ensure_sqlite_schema adds one by one, before the index script.
SqliteUpgrades ==
  {DisplayName} \cup Owners({"sessions", "files", "knowledge_items", "knowledge_chunks",
                             "feedback_entries", "carbon_calculations", "reports"})

SqliteIndexed ==
  {DisplayName} \cup Owners({"user_provider_profiles", "memory_notes", "files", "sessions",
                             "knowledge_items", "rag_knowledge_bases",
                             "knowledge_graph_nodes", "feedback_entries",
                             "carbon_calculations", "carbon_factor_import_jobs",
                             "carbon_inventories", "reports"})

\* Mutant of PostgresUpgrades: the owner of a report is forgotten.
PostgresUpgradesNoReports ==
  {DisplayName} \cup Owners({"sessions", "files", "knowledge_items", "knowledge_chunks",
                             "feedback_entries", "carbon_calculations"})

\* The ALTERs of the PostgreSQL statements, which come before the indexes.
PostgresUpgrades ==
  {DisplayName} \cup Owners({"sessions", "files", "knowledge_items", "knowledge_chunks",
                             "feedback_entries", "carbon_calculations", "reports"})

PostgresIndexed ==
  {DisplayName} \cup Owners({"user_provider_profiles", "memory_notes", "files", "sessions",
                             "knowledge_items", "rag_knowledge_bases",
                             "knowledge_graph_nodes", "feedback_entries",
                             "carbon_calculations", "carbon_factor_import_jobs",
                             "carbon_inventories", "reports"})

Upgrades(b) == IF b = "sqlite" THEN SqliteUpgrades ELSE PostgresUpgrades
Indexed(b) == IF b = "sqlite" THEN SqliteIndexed ELSE PostgresIndexed

-----------------------------------------------------------------------------

\* Old references are below a session, old columns came later, and a request writes
\* rows of a user or of a session that nothing else hangs on.
ASSUME SchemaAssumption ==
  /\ \A r \in MayBeOld : /\ r \in Sqlite /\ r.rule = "cascade"
                         /\ r.parent \in {"sessions", "files", "reports"}
  /\ MayLack \subseteq LaterColumns
  /\ Flight \subseteq Table
  /\ \A t \in Flight : \A r \in Sqlite :
       /\ r.parent \in Bundle(t) => r.child \in Bundle(t)
       /\ r.child \in Bundle(t) => r.parent \in {"users", "sessions"} \cup Bundle(t)

VARIABLES
  backend,  \* "sqlite" or "postgresql"
  old,      \* what this database has instead of CASCADE, for references in MayBeOld
  lacks,    \* columns it does not have yet
  keyless,  \* columns an upgrade added: their references have no foreign key
  db,       \* rows: the tables whose row is there; cleared: references set to NULL;
            \* ok: no statement was refused
  adopted,  \* tables whose row was given to the seed admin
  flight,   \* transactions still to come
  stray     \* history: rows written without enforcement after the session went

schema == <<backend, old, lacks, keyless>>
schemaVars == <<schema, db, adopted, flight, stray>>

OldRule == {"cascade", "restrict", "none"}

SchemaInit ==
  /\ backend \in {"sqlite", "postgresql"}
  /\ old \in [MayBeOld -> OldRule]
  /\ lacks \in {{}, MayLack} /\ keyless = {}
  /\ db = [rows |-> Table \ UNION {Bundle(t) : t \in Flight}, cleared |-> {}, ok |-> TRUE]
  /\ adopted = {} /\ flight = Flight /\ stray = {}

Declared ==
  {[r EXCEPT !.rule = IF r \in MayBeOld THEN old[r]
                      ELSE IF r.parent = "users" /\ <<r.child, "owner_user_id">> \in keyless
                      THEN "none" ELSE @] :
     r \in Script(backend)}

\* The row of the child names the row of the parent.
Names(d, r) ==
  /\ r.child \in d.rows
  /\ [child |-> r.child, parent |-> r.parent] \notin d.cleared
  /\ ~(r.parent = "users" /\ r.child \in adopted)

\* What falls with a row: no chain of references is longer than five.
Fallen(d, t) ==
  LET cascades == {r \in Declared : r.rule = "cascade" /\ Names(d, r)}
      fall[n \in 0..5] ==
        IF n = 0 THEN {t}
        ELSE LET above == fall[n - 1]
             IN above \cup {r.child : r \in {s \in cascades : s.parent \in above}}
  IN fall[5]

\* One DELETE of the row of t; a connection enforces the keys or ignores them.
DeleteStatement(d, t, keys) ==
  LET fallen == Fallen(d, t)
      hit == {r \in Declared : Names(d, r) /\ r.parent \in fallen /\ r.child \notin fallen}
  IN IF t \notin d.rows THEN d
     ELSE IF ~keys THEN [d EXCEPT !.rows = @ \ {t}]
     ELSE IF \E r \in hit : r.rule = "restrict" THEN [d EXCEPT !.ok = FALSE]
     ELSE [d EXCEPT !.rows = @ \ fallen,
                    !.cleared = @ \cup {[child |-> r.child, parent |-> r.parent] :
                                          r \in {s \in hit : s.rule = "null"}}]

\* A transaction of DELETEs; a refused one rolls everything back.
DeleteAll(tables, keys) ==
  LET after[n \in 0..Len(tables)] ==
        IF n = 0 THEN db ELSE DeleteStatement(after[n - 1], tables[n], keys)
      end == after[Len(tables)]
  IN IF end.ok THEN end ELSE [db EXCEPT !.ok = FALSE]

Missing(r) == Names(db, r) /\ r.parent \notin db.rows

-----------------------------------------------------------------------------

\* The start creates what is missing, adds the columns and then the indexes, of which
\* one that names a missing column is refused.  Rows that were there have no owner.
Upgrade ==
  LET added == lacks \cap Upgrades(backend)
      found == {t \in db.rows : <<t, "owner_user_id">> \in added}
  IN /\ lacks # {}
     /\ IF Indexed(backend) \cap (lacks \ added) # {}
        THEN db' = [db EXCEPT !.ok = FALSE] /\ UNCHANGED <<lacks, keyless>>
        ELSE /\ lacks' = lacks \ added
             /\ keyless' = keyless \cup added
             /\ db' = [db EXCEPT !.cleared =
                         @ \cup {[child |-> t, parent |-> "users"] : t \in found}]
     /\ UNCHANGED <<backend, old, adopted, flight, stray>>

\* An account is deleted, by an administrator or its user; auth_service's
\* connections do not turn the keys on.
DeleteUser ==
  /\ "users" \in db.rows
  /\ db' = DeleteAll(<<"auth_sessions", "users">>, backend = "postgresql")
  /\ UNCHANGED <<schema, adopted, flight, stray>>

\* The session's owner is signed in: its user, or the seed admin who got it.
Owned(t) ==
  \/ t \in adopted
  \/ "users" \in db.rows /\ [child |-> t, parent |-> "users"] \notin db.cleared

\* Mutant of DeleteSession: files go before what was parsed from them.
DeleteSessionFilesFirst ==
  /\ "sessions" \in db.rows /\ Owned("sessions")
  /\ db' = DeleteAll(<<"report_sources", "reports", "files", "file_parse_results",
                       "session_knowledge_items", "session_private_samples",
                       "messages", "sessions">>, TRUE)
  /\ UNCHANGED <<schema, adopted, flight, stray>>

\* Mutant of DeleteSession: the connection does not enforce the keys.
DeleteSessionNoPragma ==
  /\ "sessions" \in db.rows /\ Owned("sessions")
  /\ db' = DeleteAll(<<"report_sources", "reports", "file_parse_results",
                       "session_knowledge_items", "session_private_samples",
                       "messages", "files", "sessions">>, backend = "postgresql")
  /\ UNCHANGED <<schema, adopted, flight, stray>>

\* delete_session removes what hangs on the session itself, for old databases.
DeleteSession ==
  /\ "sessions" \in db.rows /\ Owned("sessions")
  /\ db' = DeleteAll(<<"report_sources", "reports", "file_parse_results",
                       "session_knowledge_items", "session_private_samples",
                       "messages", "files", "sessions">>, TRUE)
  /\ UNCHANGED <<schema, adopted, flight, stray>>

DeleteKb ==
  /\ "rag_knowledge_bases" \in db.rows /\ Owned("rag_knowledge_bases")
  /\ db' = DeleteAll(<<"rag_knowledge_bases">>, TRUE)
  /\ UNCHANGED <<schema, adopted, flight, stray>>

DeleteNote ==
  /\ {"users", "memory_notes"} \subseteq db.rows
  /\ db' = DeleteAll(<<"memory_notes">>, TRUE)
  /\ UNCHANGED <<schema, adopted, flight, stray>>

DeleteProfile ==
  /\ {"users", "user_provider_profiles"} \subseteq db.rows
  /\ db' = DeleteAll(<<"user_provider_profiles">>, backend = "postgresql")
  /\ UNCHANGED <<schema, adopted, flight, stray>>

\* _backfill_owner_fields, at every start: rows without an owner get the seed admin.
Backfilled == {"sessions", "files", "feedback_entries", "carbon_calculations", "reports"}

\* Mutant of Backfill: every row without an owner gets one.
BackfillAll ==
  LET found == {t \in db.rows : [child |-> t, parent |-> "users"] \in db.cleared}
  IN /\ found # {}
     /\ adopted' = adopted \cup found
     /\ db' = [db EXCEPT !.cleared = @ \ {[child |-> t, parent |-> "users"] : t \in found}]
     /\ UNCHANGED <<schema, flight, stray>>

Backfill ==
  LET found == {t \in Backfilled \cap db.rows :
                  [child |-> t, parent |-> "users"] \in db.cleared}
  IN /\ found # {}
     /\ adopted' = adopted \cup found
     /\ db' = [db EXCEPT !.cleared = @ \ {[child |-> t, parent |-> "users"] : t \in found}]
     /\ UNCHANGED <<schema, flight, stray>>

\* Whether the SQLite connection that writes a table enforces the keys.
Enforced(t) ==
  backend = "postgresql" \/ t \notin {"reports", "user_settings"}

\* A request that has looked its user and session up writes its row, whatever has been
\* deleted since: INSERT is refused when an enforced reference finds no row.
Write(t) ==
  LET new  == [db EXCEPT !.rows = @ \cup Bundle(t)]
      lost == {r \in Declared : r.child \in Bundle(t) /\ Names(new, r)
                                  /\ r.parent \notin new.rows}
  IN /\ t \in flight
     /\ flight' = flight \ {t}
     /\ IF Enforced(t) /\ \E r \in lost : r.rule # "none"
        THEN UNCHANGED <<db, stray>>
        ELSE /\ db' = new
             /\ stray' = IF \E r \in lost : r.parent = "sessions"
                         THEN stray \cup Bundle(t) ELSE stray
     /\ UNCHANGED <<schema, adopted>>

SchemaRequest ==
  \/ DeleteUser \/ DeleteSession \/ DeleteKb \/ DeleteNote \/ DeleteProfile
  \/ Backfill
  \/ \E t \in Flight : Write(t)

\* The schema is there before the first request (auth/service.py:68).
SchemaNext ==
  \/ Upgrade
  \/ lacks = {} /\ SchemaRequest

SchemaSpec == SchemaInit /\ [][SchemaNext]_schemaVars

-----------------------------------------------------------------------------

RefPair == [child : Table, parent : Table]

SchemaTypeOK ==
  /\ backend \in {"sqlite", "postgresql"}
  /\ old \in [MayBeOld -> OldRule]
  /\ lacks \subseteq MayLack /\ keyless \subseteq MayLack
  /\ db \in [rows : SUBSET Table, cleared : SUBSET RefPair, ok : BOOLEAN]
  /\ adopted \subseteq Backfilled
  /\ flight \subseteq Flight /\ stray \subseteq Table

\* Every database, however old, is upgraded without a refusal, and deleting a session
\* works on it and leaves nothing of it behind but what a connection without keys wrote afterwards.
SessionIsDeleted ==
  /\ db.ok
  /\ "sessions" \notin db.rows => OfSession \cap db.rows \subseteq stray

\* Deleting an account keeps the sessions, reports, feedback and knowledge of it.
ContentOutlivesAccount ==
  [][("users" \in db.rows /\ "users" \notin db'.rows)
       => db.rows \ db'.rows \subseteq Personal]_schemaVars

\* A row that names a row that is gone: on SQLite, after its user was deleted, or
\* written late; on PostgreSQL only the owner in a column an upgrade added (schema.py:1715
\* adds it without its foreign key).
OnlyUsersDangle ==
  \A r \in Declared : Missing(r) /\ (r.rule # "none" \/ r.parent = "users") =>
    \/ /\ backend = "sqlite"
       /\ r.parent = "users" \/ r.child \in stray
    \/ r.parent = "users" /\ <<r.child, "owner_user_id">> \in keyless
=============================================================================
