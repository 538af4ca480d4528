----------------------------- MODULE RagDocuments ----------------------------
(***************************************************************************)
(* The documents of one knowledge base of the retrieval spine              *)
(* (RagKnowledgeStore, RagSpineService): a document is parsed, cut into    *)
(* chunk rows and indexed in the vector store, by requests for one stage,  *)
(* by pipeline runs over one document or many, and by questions, which     *)
(* bring the visible knowledge items in first.  Requests run in threads,   *)
(* every statement is a transaction of its own, and nothing is locked.     *)
(*                                                                         *)
(* A chunk is <<g, i>>: the i-th of the g-th cutting of any document.  The *)
(* vector store is Milvus, whose delete and insert are two calls; a search *)
(* drops the vectors of rows that are gone, and so does the model.         *)
(***************************************************************************)
EXTENDS Naturals, FiniteSets

CONSTANTS
  Doc,         \* document ids, none of them given out twice
  Thread,
  NoDoc,
  MaxTexts,    \* bound: chunks of a document
  MaxRuns,     \* bound: requests
  MaxCuts,     \* bound: times a document is cut
  MaxCrashes   \* bound

ASSUME RagDocumentsAssumption ==
  /\ NoDoc \notin Doc /\ MaxTexts \in Nat /\ MaxRuns \in Nat
  /\ MaxCuts \in Nat /\ MaxCrashes \in Nat

Chunk == (1..MaxCuts) \X (1..MaxTexts)

VARIABLES
  kb,       \* the knowledge base
  doc,      \* its rows of rag_documents
  rows,     \* rag_chunks, by document
  vectors,  \* the vector store, by document
  runs, cuts,
  op,       \* the run each thread is in
  crashes,
  alone,    \* history: no other run has been on the document of this one
  sound     \* history: no run died half-way, and none overlapped, since it was cut by one alone

vars == <<kb, doc, rows, vectors, runs, cuts, op, crashes, alone, sound>>

Row == [here : BOOLEAN, item : BOOLEAN,  \* made for the knowledge item
        parse : {"uploaded", "parsed", "failed"},
        chunk : {"pending", "chunked", "failed"},
        index : {"pending", "indexed", "failed"},
        count : Nat, indexed : Nat]

Kind == {"parse", "chunk", "index", "pipeline", "sync"}
At   == {"idle", "make", "next", "look", "look_parsed", "look_chunked", "parse", "parsing",
         "chunk", "cut", "insert", "index", "list", "delete", "put", "mark"}

Op == [at : At, kind : Kind, doc : Doc \cup {NoDoc}, todo : SUBSET Doc, seen : Row,
       again : BOOLEAN,              \* index_document has had to cut it itself
       cut : 0..MaxCuts, size : 0..MaxTexts,
       set : SUBSET Chunk]           \* chunks inserted, or listed

NoRow == [here |-> FALSE, item |-> FALSE, parse |-> "uploaded", chunk |-> "pending",
          index |-> "pending", count |-> 0, indexed |-> 0]
NoOp  == [at |-> "idle", kind |-> "parse", doc |-> NoDoc, todo |-> {}, seen |-> NoRow,
          again |-> FALSE, cut |-> 0, size |-> 0, set |-> {}]

Init ==
  /\ kb = TRUE
  /\ doc = [d \in Doc |-> NoRow]
  /\ rows = [d \in Doc |-> {}]
  /\ vectors = [d \in Doc |-> {}]
  /\ runs = 0 /\ cuts = 0 /\ crashes = 0
  /\ op = [w \in Thread |-> NoOp]
  /\ alone = [w \in Thread |-> TRUE]
  /\ sound = [d \in Doc |-> TRUE]

D(w)    == op[w].doc
Here(w) == D(w) \in Doc /\ doc[D(w)].here
On(d)   == {w \in Thread : op[w].doc = d}

To(w, at)    == op' = [op EXCEPT ![w].at = at]
Go(w, at)    == op' = [op EXCEPT ![w] = [@ EXCEPT !.at = at, !.seen = NoRow, !.cut = 0,
                                                !.size = 0, !.set = {}]]
Saw(w, at)   == op' = [op EXCEPT ![w].at = at, ![w].seen = doc[D(w)]]
Mark(w, row) == doc' = [doc EXCEPT ![D(w)] = [row EXCEPT !.here = TRUE]]

-----------------------------------------------------------------------------

\* A thread takes a document; every run on it has company from then on.
Take(w, d, at, kind, todo) ==
  /\ op' = [op EXCEPT ![w] = [NoOp EXCEPT !.at = at, !.kind = kind, !.doc = d, !.todo = todo]]
  /\ alone' = [v \in Thread |->
                 IF v = w THEN On(d) \ {w} = {} ELSE alone[v] /\ op[v].doc # d]
  /\ sound' = [sound EXCEPT ![d] = @ /\ On(d) \ {w} = {}]

Create(d) ==
  /\ kb /\ doc[d] = NoRow
  /\ doc' = [doc EXCEPT ![d].here = TRUE]
  /\ UNCHANGED <<kb, rows, vectors, runs, cuts, op, crashes, alone, sound>>

Begin(w) == op[w] = NoOp /\ runs < MaxRuns /\ runs' = runs + 1

\* POST .../parse, .../chunk, .../index.
Stage(w, d, kind) ==
  /\ Begin(w) /\ doc[d].here
  /\ Take(w, d, kind, kind, {})
  /\ UNCHANGED <<kb, doc, rows, vectors, cuts, crashes>>

\* POST .../run-pipeline, and run-pipeline-batch: the documents asked for, or
\* those that are not indexed, or failed (error_stage is set by failures only).
Failed(row)  == "failed" \in {row.parse, row.chunk, row.index}
Overdue      == {d \in Doc : doc[d].here /\ (doc[d].index # "indexed" \/ Failed(doc[d]))}

Pipeline(w) ==
  /\ Begin(w)
  /\ \E todo \in ({{d} : d \in {e \in Doc : doc[e].here}} \cup {Overdue}) \ {{}} :
       op' = [op EXCEPT ![w].at = "next", ![w].kind = "pipeline", ![w].todo = todo]
  /\ UNCHANGED <<kb, doc, rows, vectors, cuts, crashes, alone, sound>>

PipelineNext(w) ==
  /\ op[w].at = "next"
  /\ \E d \in op[w].todo :
       doc[d].here /\ Take(w, d, "look", "pipeline", op[w].todo \ {d})
  /\ UNCHANGED <<kb, doc, rows, vectors, runs, cuts, crashes>>

\* A question without a knowledge base looks for the document of a visible
\* item, and makes one if there is none; whatever became of that one is enough.
Sync(w) ==
  /\ Begin(w) /\ kb
  /\ ~ \E d \in Doc : doc[d].here /\ doc[d].item
  /\ op' = [op EXCEPT ![w].at = "make", ![w].kind = "sync"]
  /\ UNCHANGED <<kb, doc, rows, vectors, cuts, crashes, alone, sound>>

SyncMake(w) ==
  /\ op[w].at = "make" /\ kb
  /\ \E d \in Doc :
       /\ doc[d] = NoRow
       /\ doc' = [doc EXCEPT ![d].here = TRUE, ![d].item = TRUE]
       /\ Take(w, d, "parse", "sync", {})
  /\ UNCHANGED <<kb, rows, vectors, runs, cuts, crashes>>

-----------------------------------------------------------------------------

\* A thread leaves its document, for the next of its batch if there is one.
Leave(w) ==
  /\ op' = [op EXCEPT ![w] = IF op[w].todo = {} THEN NoOp
                             ELSE [NoOp EXCEPT !.at = "next", !.kind = "pipeline",
                                               !.todo = op[w].todo]]
  /\ alone' = [alone EXCEPT ![w] = TRUE]

\* What a pipeline does next, from the row it reads before and between stages;
\* what a question or a request does next does not depend on it.
Uncut(row)     == row.chunk # "chunked" \/ row.count = 0
Unindexed(row) == row.index # "indexed" \/ row.indexed < row.count

Look(w) ==
  LET row == doc[D(w)] IN
  /\ op[w].at \in {"look", "look_parsed", "look_chunked"} /\ Here(w)
  /\ \/ row.parse # "parsed" /\ op[w].at = "look" /\ To(w, "parse") /\ UNCHANGED alone
     \/ row.parse # "parsed" /\ op[w].at = "look_parsed" /\ Leave(w)
     \/ /\ row.parse = "parsed" \/ op[w].at = "look_chunked"
        /\ \/ Uncut(row) /\ op[w].at # "look_chunked" /\ To(w, "chunk") /\ UNCHANGED alone
           \/ Uncut(row) /\ op[w].at = "look_chunked" /\ Leave(w)
           \/ ~Uncut(row) /\ Unindexed(row) /\ To(w, "index") /\ UNCHANGED alone
           \/ ~Uncut(row) /\ ~Unindexed(row) /\ Leave(w)
  /\ UNCHANGED <<kb, doc, rows, vectors, runs, cuts, crashes, sound>>

-----------------------------------------------------------------------------

Parse(w) ==
  /\ op[w].at = "parse" /\ Here(w) /\ Saw(w, "parsing")
  /\ UNCHANGED <<kb, doc, rows, vectors, runs, cuts, crashes, alone, sound>>

\* The row is written back as it was read, but for what the parser did.
ParseMark(w) ==
  /\ op[w].at = "parsing" /\ Here(w)
  /\ \E result \in {"parsed", "failed"} : Mark(w, [op[w].seen EXCEPT !.parse = result])
  /\ CASE op[w].kind = "pipeline" -> Go(w, "look_parsed") /\ UNCHANGED alone
       [] op[w].kind = "sync"     -> Go(w, "chunk") /\ UNCHANGED alone
       [] op[w].kind = "parse"    -> Leave(w)
  /\ UNCHANGED <<kb, rows, vectors, runs, cuts, crashes, sound>>

-----------------------------------------------------------------------------

\* chunk_document: as many texts as the item's chunks, or the text, come to.
Cut(w) ==
  /\ op[w].at = "chunk" /\ Here(w)
  /\ \E n \in 0..MaxTexts :
       op' = [op EXCEPT ![w].at = "cut", ![w].seen = doc[D(w)], ![w].size = n]
  /\ UNCHANGED <<kb, doc, rows, vectors, runs, cuts, crashes, alone, sound>>

\* Where the run goes once chunk_document has marked the document.
AfterCut(w) ==
  IF op[w].again THEN Go(w, "index") /\ UNCHANGED alone
  ELSE CASE op[w].kind = "pipeline" -> Go(w, "look_chunked") /\ UNCHANGED alone
         [] op[w].kind = "sync"     -> Go(w, "index") /\ UNCHANGED alone
         [] op[w].kind = "chunk"    -> Leave(w)

CutNothing(w) ==
  /\ op[w].at = "cut" /\ op[w].size = 0 /\ Here(w)
  /\ Mark(w, [op[w].seen EXCEPT !.chunk = "failed"])
  /\ AfterCut(w)
  /\ UNCHANGED <<kb, rows, vectors, runs, cuts, crashes, sound>>

DeleteRows(w) ==
  /\ op[w].at = "cut" /\ op[w].size > 0 /\ Here(w)
  /\ cuts < MaxCuts /\ cuts' = cuts + 1
  /\ rows' = [rows EXCEPT ![D(w)] = {}]
  /\ vectors' = [vectors EXCEPT ![D(w)] = {}]
  /\ op' = [op EXCEPT ![w].at = "insert", ![w].cut = cuts + 1, ![w].set = {}]
  /\ UNCHANGED <<kb, doc, runs, crashes, alone, sound>>

\* Mutant: one row too many.
InsertRowTooMany(w) ==
  LET chunk == <<op[w].cut, Cardinality(op[w].set) + 1>> IN
  /\ op[w].at = "insert" /\ Cardinality(op[w].set) <= op[w].size /\ Here(w)
  /\ rows' = [rows EXCEPT ![D(w)] = @ \cup {chunk}]
  /\ op' = [op EXCEPT ![w].set = @ \cup {chunk}]
  /\ UNCHANGED <<kb, doc, vectors, runs, cuts, crashes, alone, sound>>

InsertRow(w) ==
  LET chunk == <<op[w].cut, Cardinality(op[w].set) + 1>> IN
  /\ op[w].at = "insert" /\ Cardinality(op[w].set) < op[w].size /\ Here(w)
  /\ rows' = [rows EXCEPT ![D(w)] = @ \cup {chunk}]
  /\ op' = [op EXCEPT ![w].set = @ \cup {chunk}]
  /\ UNCHANGED <<kb, doc, vectors, runs, cuts, crashes, alone, sound>>

\* Mutant: the index is still believed of the new chunks.
CutMarkKeepsIndex(w) ==
  /\ op[w].at = "insert" /\ Cardinality(op[w].set) = op[w].size /\ Here(w)
  /\ Mark(w, [op[w].seen EXCEPT !.parse = "parsed", !.chunk = "chunked", !.count = op[w].size])
  /\ AfterCut(w)
  /\ sound' = [sound EXCEPT ![D(w)] = @ \/ alone[w]]
  /\ UNCHANGED <<kb, rows, vectors, runs, cuts, crashes>>

CutMark(w) ==
  /\ op[w].at = "insert" /\ Cardinality(op[w].set) = op[w].size /\ Here(w)
  /\ Mark(w, [op[w].seen EXCEPT !.parse = "parsed", !.chunk = "chunked", !.index = "pending",
                                !.count = op[w].size, !.indexed = 0])
  /\ AfterCut(w)
  /\ sound' = [sound EXCEPT ![D(w)] = @ \/ alone[w]]
  /\ UNCHANGED <<kb, rows, vectors, runs, cuts, crashes>>

-----------------------------------------------------------------------------

\* index_document: the row, then the chunks; without chunks it cuts, once.
Index(w) ==
  /\ op[w].at = "index" /\ Here(w) /\ Saw(w, "list")
  /\ UNCHANGED <<kb, doc, rows, vectors, runs, cuts, crashes, alone, sound>>

List(w) ==
  /\ op[w].at = "list" /\ Here(w)
  /\ \/ /\ rows[D(w)] # {}
        /\ op' = [op EXCEPT ![w].at = "delete", ![w].set = rows[D(w)]]
     \/ /\ rows[D(w)] = {} /\ ~op[w].again
        /\ op' = [op EXCEPT ![w].at = "chunk", ![w].again = TRUE]
  /\ UNCHANGED <<kb, doc, rows, vectors, runs, cuts, crashes, alone, sound>>

ListNothing(w) ==
  /\ op[w].at = "list" /\ Here(w) /\ rows[D(w)] = {} /\ op[w].again
  /\ Mark(w, [op[w].seen EXCEPT !.chunk = "failed", !.index = "failed"])
  /\ Leave(w)
  /\ UNCHANGED <<kb, rows, vectors, runs, cuts, crashes, sound>>

\* The vectors of the document go; an error here is ignored.
DeleteVectors(w) ==
  /\ op[w].at = "delete"
  /\ vectors' \in {vectors, [vectors EXCEPT ![D(w)] = {}]}
  /\ To(w, "put")
  /\ UNCHANGED <<kb, doc, rows, runs, cuts, crashes, alone, sound>>

InsertVectors(w) ==
  /\ op[w].at = "put"
  /\ vectors' = [vectors EXCEPT ![D(w)] = @ \cup (op[w].set \cap rows[D(w)])]
  /\ To(w, "mark")
  /\ UNCHANGED <<kb, doc, rows, runs, cuts, crashes, alone, sound>>

\* No embeddings, no client, or no insertion.
IndexFails(w) ==
  /\ op[w].at \in {"delete", "put"} /\ Here(w)
  /\ Mark(w, [op[w].seen EXCEPT !.chunk = "chunked", !.index = "failed", !.indexed = 0])
  /\ Leave(w)
  /\ UNCHANGED <<kb, rows, vectors, runs, cuts, crashes, sound>>

IndexMark(w) ==
  /\ op[w].at = "mark" /\ Here(w)
  /\ Mark(w, [op[w].seen EXCEPT !.parse = "parsed", !.chunk = "chunked", !.index = "indexed",
                                !.indexed = Cardinality(op[w].set)])
  /\ Leave(w)
  /\ UNCHANGED <<kb, rows, vectors, runs, cuts, crashes, sound>>

-----------------------------------------------------------------------------

\* The knowledge base goes with its documents and their chunks, not with their
\* vectors.
DeleteKb ==
  /\ kb /\ kb' = FALSE
  /\ doc' = [d \in Doc |-> NoRow]
  /\ rows' = [d \in Doc |-> {}]
  /\ vectors' = rows'
  /\ UNCHANGED <<runs, cuts, op, crashes, alone, sound>>

\* A run that dies between clearing and marking leaves the row as it was.
HalfWay(w) == op[w].at \in {"insert", "put"}

\* A request fails: the document is gone, a statement is refused.
Fault(w) ==
  /\ op[w] # NoOp
  /\ op' = [op EXCEPT ![w] = NoOp]
  /\ alone' = [alone EXCEPT ![w] = TRUE]
  /\ sound' = [d \in Doc |-> sound[d] /\ ~(D(w) = d /\ HalfWay(w))]
  /\ UNCHANGED <<kb, doc, rows, vectors, runs, cuts, crashes>>

Crash ==
  /\ crashes < MaxCrashes /\ crashes' = crashes + 1
  /\ op' = [w \in Thread |-> NoOp]
  /\ alone' = [w \in Thread |-> TRUE]
  /\ sound' = [d \in Doc |-> sound[d] /\ ~ \E w \in On(d) : HalfWay(w)]
  /\ UNCHANGED <<kb, doc, rows, vectors, runs, cuts>>

Run(w) ==
  \/ Pipeline(w) \/ PipelineNext(w) \/ Sync(w) \/ SyncMake(w) \/ Look(w)
  \/ \E d \in Doc, kind \in {"parse", "chunk", "index"} : Stage(w, d, kind)
  \/ Parse(w) \/ ParseMark(w)
  \/ Cut(w) \/ CutNothing(w) \/ DeleteRows(w) \/ InsertRow(w) \/ CutMark(w)
  \/ Index(w) \/ List(w) \/ ListNothing(w)
  \/ DeleteVectors(w) \/ InsertVectors(w) \/ IndexFails(w) \/ IndexMark(w)
  \/ Fault(w)

Next == (\E w \in Thread : Run(w)) \/ (\E d \in Doc : Create(d)) \/ DeleteKb \/ Crash

Spec == Init /\ [][Next]_vars

-----------------------------------------------------------------------------

\* Every variable keeps its type.
TypeOK ==
  /\ kb \in BOOLEAN
  /\ doc \in [Doc -> Row]
  /\ rows \in [Doc -> SUBSET Chunk]
  /\ vectors \in [Doc -> SUBSET Chunk]
  /\ runs \in 0..MaxRuns /\ cuts \in 0..MaxCuts /\ crashes \in 0..MaxCrashes
  /\ op \in [Thread -> Op]
  /\ alone \in [Thread -> BOOLEAN]
  /\ sound \in [Doc -> BOOLEAN]

\* Statuses that a pipeline run trusts, and skips a stage for: a document that
\* says it is chunked has the chunks of one cutting, as many as it says, and
\* one that says it is indexed has a vector for each of them.
Whole(d) ==
  /\ doc[d].chunk = "chunked" =>
       \E g \in 1..MaxCuts : rows[d] = {<<g, i>> : i \in 1..doc[d].count}
  /\ doc[d].index = "indexed" => rows[d] # {} /\ rows[d] \subseteq vectors[d]

\* They can be trusted of a document nobody is working on, through failures of
\* every stage and through crashes, unless a run died between clearing its
\* chunks or vectors and marking it, or two runs overlapped: and then again
\* once one run alone has cut it, whatever it found.
QuietIsWhole ==
  \A d \in Doc : doc[d].here /\ On(d) = {} /\ sound[d] => Whole(d)
=============================================================================
