-------------------------- MODULE RagDocumentsProofs -------------------------
(***************************************************************************)
(* The statuses of a document can be trusted, for any number of documents, *)
(* chunks, threads, cuttings and crashes.                                  *)
(*                                                                         *)
(* A document that is sound has at most one run on it, and that run is     *)
(* alone (Alone): what it read of the row and listed of the chunks still   *)
(* holds (Knows), and only while it is between clearing and marking does   *)
(* the row not say what the chunks and the vectors are (Agrees).  A run    *)
(* writes back the row it has read, so the number of chunks in it must be  *)
(* right whatever the statuses say (OfOneCutting).                         *)
(***************************************************************************)
EXTENDS RagDocuments, FiniteSetTheorems, FunctionTheorems, TLAPS
-----------------------------------------------------------------------------
(* What the tables hold and what each run knows *)

\* The first k chunks of the g-th cutting.
Pieces(g, k) == {<<g, i>> : i \in 1..k}

OfOneCutting(d) ==
  \/ doc[d].count = 0 /\ rows[d] = {}
  \/ doc[d].count > 0 /\ \E g \in 1..MaxCuts : rows[d] = Pieces(g, doc[d].count)

\* A document that is not there has left nothing; while the knowledge base is there
\* nobody is on such a document.
Gone ==
  /\ ~kb => \A d \in Doc : ~doc[d].here
  /\ \A d \in Doc : ~doc[d].here =>
       doc[d] = NoRow /\ rows[d] = {} /\ (kb => On(d) = {})

\* A run that was alone on its document still is.
Alone ==
  /\ \A w \in Thread : alone[w] => \A v \in Thread : D(v) = D(w) /\ D(w) \in Doc => v = w
  /\ \A d \in Doc : sound[d] => \A w \in On(d) : alone[w]

\* Where each kind of run can be, and what it has inserted, whatever others do to the
\* rows.
Looking == {"look", "look_parsed", "look_chunked"}

Proper(w) ==
  /\ op[w].at \in Looking => op[w].kind = "pipeline"
  /\ op[w].at \in {"parse", "parsing"} => op[w].kind \in {"pipeline", "sync", "parse"}
  /\ op[w].at \in {"chunk", "cut", "insert"} =>
       op[w].again \/ op[w].kind \in {"pipeline", "sync", "chunk"}
  /\ op[w].at = "insert" =>
       /\ op[w].cut \in 1..MaxCuts
       /\ \E k \in 0..op[w].size : op[w].set = Pieces(op[w].cut, k)
       /\ op[w].size > 0

\* A run that is alone has read the row as it is, and has the chunks.
Reader == {"parsing", "cut", "insert", "list", "delete", "put", "mark"}

Knows(w) ==
  Here(w) /\ alone[w] =>
    /\ op[w].at \in Reader => op[w].seen = doc[D(w)]
    /\ op[w].at = "insert" => rows[D(w)] = op[w].set
    /\ op[w].at \in {"delete", "put", "mark"} => op[w].set = rows[D(w)] /\ rows[D(w)] # {}
    /\ op[w].at = "mark" => rows[D(w)] \subseteq vectors[D(w)]

\* The rows and the vectors agree with the statuses of a document, but while the one
\* run on it is between clearing and marking.
Agrees(d) ==
  doc[d].here /\ sound[d] =>
    \/ \E w \in On(d) : op[w].at = "insert"
    \/ /\ OfOneCutting(d)
       /\ doc[d].chunk = "chunked" => rows[d] # {}
       /\ \/ \E w \in On(d) : op[w].at = "put"
          \/ doc[d].index = "indexed" => rows[d] # {} /\ rows[d] \subseteq vectors[d]

DocInv ==
  /\ TypeOK /\ Gone /\ Alone
  /\ \A w \in Thread : Proper(w) /\ Knows(w)
  /\ \A d \in Doc : Agrees(d)
-----------------------------------------------------------------------------
(* The chunks of one cutting *)

LEMMA PiecesAre ==
  ASSUME NEW g, NEW k \in Nat
  PROVE  /\ Pieces(g, 0) = {}
         /\ Pieces(g, k + 1) = Pieces(g, k) \cup {<<g, k + 1>>}
         /\ k > 0 => Pieces(g, k) # {}
         /\ IsFiniteSet(Pieces(g, k)) /\ Cardinality(Pieces(g, k)) = k
  <1>1. Pieces(g, 0) = {}
    BY DEF Pieces
  <1>2. Pieces(g, k + 1) = Pieces(g, k) \cup {<<g, k + 1>>}
    <2>1. 1..(k + 1) = (1..k) \cup {k + 1}
      OBVIOUS
    <2>2. QED
      BY <2>1 DEF Pieces
  <1>3. k > 0 => <<g, 1>> \in Pieces(g, k)
    BY DEF Pieces
  <1>4. IsFiniteSet(Pieces(g, k)) /\ Cardinality(Pieces(g, k)) = k
    <2> DEFINE f == [i \in 1..k |-> <<g, i>>]
    <2>1. f \in [1..k -> Pieces(g, k)]
      BY DEF Pieces
    <2>2. ASSUME NEW i \in 1..k, NEW j \in 1..k, f[i] = f[j] PROVE i = j
      BY <2>2
    <2>3. ASSUME NEW x \in Pieces(g, k) PROVE \E i \in 1..k : f[i] = x
      BY DEF Pieces
    <2> HIDE DEF f
    <2>4. f \in Bijection(1..k, Pieces(g, k))
      BY <2>1, <2>2, <2>3, Fun_IsBij
    <2>5. ExistsBijection(1..k, Pieces(g, k))
      BY <2>4 DEF ExistsBijection
    <2>6. QED
      BY <2>5, FS_CountingElements, FS_NatBijection
  <1>5. QED
    BY <1>1, <1>2, <1>3, <1>4

LEMMA ChunksFinite ==
  ASSUME NEW S \in SUBSET Chunk
  PROVE  IsFiniteSet(S) /\ Cardinality(S) \in Nat
  <1>1. IsFiniteSet(1..MaxCuts) /\ IsFiniteSet(1..MaxTexts)
    BY FS_Interval, RagDocumentsAssumption
  <1>2. IsFiniteSet(Chunk)
    BY <1>1, FS_Product DEF Chunk
  <1>3. QED
    BY <1>2, FS_Subset, FS_CardinalityType
-----------------------------------------------------------------------------
(* A step of a run on its own document *)

Local(w) ==
  /\ kb' = kb
  /\ \A v \in Thread \ {w} : op'[v] = op[v] /\ alone'[v] = alone[v]
  /\ \A e \in Doc : e # D(w) =>
       doc'[e] = doc[e] /\ rows'[e] = rows[e] /\ vectors'[e] = vectors[e] /\ sound'[e] = sound[e]
  /\ \/ op'[w].doc = D(w) /\ alone'[w] = alone[w]
     \/ op'[w].doc = NoDoc /\ alone'[w] = TRUE
  /\ ~Here(w) /\ D(w) \in Doc => doc'[D(w)] = doc[D(w)] /\ rows'[D(w)] = rows[D(w)]
  /\ Here(w) => doc'[D(w)].here
  /\ D(w) \in Doc /\ sound'[D(w)] => sound[D(w)] \/ alone[w]

\* The document of a run, when nobody is between clearing and marking.
Consistent(d) ==
  /\ OfOneCutting(d)
  /\ doc[d].chunk = "chunked" => rows[d] # {}
  /\ doc[d].index = "indexed" => rows[d] # {} /\ rows[d] \subseteq vectors[d]

LEMMA ConsistentAgrees ==
  ASSUME NEW d \in Doc, Consistent(d) PROVE Agrees(d)
  BY DEF Consistent, Agrees

\* A run on a sound document is alone there, and finds it consistent but where it is
\* itself between clearing and marking.
LEMMA Mine ==
  ASSUME DocInv, NEW w \in Thread, Here(w), sound[D(w)]
  PROVE  /\ alone[w] /\ On(D(w)) = {w}
         /\ op[w].at \notin {"insert", "put"} => Consistent(D(w))
         /\ op[w].at = "put" => OfOneCutting(D(w))
                                /\ (doc[D(w)].chunk = "chunked" => rows[D(w)] # {})
  <1>1. D(w) \in Doc /\ w \in On(D(w))
    BY DEF Here, On, D
  <1>2. alone[w]
    BY <1>1 DEF DocInv, Alone
  <1>3. On(D(w)) = {w}
    BY <1>1, <1>2 DEF DocInv, Alone, On, D
  <1>4. Agrees(D(w))
    BY <1>1 DEF DocInv
  <1>5. QED
    BY <1>1, <1>2, <1>3, <1>4 DEF Agrees, Consistent, Here

LEMMA LocalKeeps ==
  ASSUME DocInv, TypeOK', NEW w \in Thread, Local(w),
         Proper(w)', Knows(w)', \A d \in Doc : d = D(w) => Agrees(d)'
  PROVE  DocInv'
  <1> USE RagDocumentsAssumption
  <1>1. Gone'
    <2>1. ASSUME ~kb', NEW d \in Doc PROVE ~doc'[d].here
      <3>1. ~kb /\ ~doc[d].here
        BY <2>1 DEF Local, DocInv, Gone
      <3>2. doc'[d] = doc[d]
        BY <3>1 DEF Local, Here
      <3>3. QED
        BY <3>1, <3>2
    <2>2. ASSUME NEW d \in Doc, ~doc'[d].here
          PROVE  doc'[d] = NoRow /\ rows'[d] = {} /\ (kb' => On(d)' = {})
      <3>1. ~doc[d].here /\ doc'[d] = doc[d] /\ rows'[d] = rows[d]
        BY <2>2 DEF Local, Here
      <3>2. doc[d] = NoRow /\ rows[d] = {} /\ (kb => On(d) = {})
        BY <3>1 DEF DocInv, Gone
      <3>3. On(d)' \subseteq On(d)
        <4>1. ASSUME NEW v \in Thread, op'[v].doc = d PROVE op[v].doc = d
          BY <4>1 DEF Local, D
        <4>2. QED
          BY <4>1 DEF On
      <3>4. kb' = kb
        BY DEF Local
      <3>5. QED
        BY <3>1, <3>2, <3>3, <3>4
    <2>3. QED
      BY <2>1, <2>2 DEF Gone
  <1>2. ASSUME NEW v \in Thread PROVE op'[v].doc \in {op[v].doc, NoDoc}
    BY DEF Local, D
  <1>3. ASSUME NEW v \in Thread, op'[v].doc # NoDoc PROVE alone'[v] = alone[v] /\ op'[v].doc = op[v].doc
    BY <1>3 DEF Local, D
  <1>4. Alone'
    <2>1. ASSUME NEW u \in Thread, alone'[u], NEW v \in Thread, op'[v].doc = op'[u].doc, op'[u].doc \in Doc
          PROVE  v = u
      <3>1. op'[u].doc # NoDoc /\ op'[v].doc # NoDoc
        BY <2>1
      <3>2. alone[u] /\ op[v].doc = op[u].doc /\ op[u].doc \in Doc
        BY <1>3, <2>1, <3>1
      <3>3. QED
        BY <3>2 DEF DocInv, Alone, D
    <2>2. ASSUME NEW d \in Doc, sound'[d], NEW v \in Thread, op'[v].doc = d
          PROVE  alone'[v]
      <3>1. op'[v].doc # NoDoc
        BY <2>2
      <3>2. alone'[v] = alone[v] /\ op[v].doc = d
        BY <1>3, <2>2, <3>1
      <3>3. CASE sound[d]
        BY <3>2, <3>3 DEF DocInv, Alone, On
      <3>4. CASE ~sound[d]
        <4>1. d = D(w) /\ alone[w]
          BY <2>2, <3>4 DEF Local
        <4>2. v = w
          BY <3>2, <4>1 DEF DocInv, Alone, D
        <4>3. QED
          BY <3>2, <4>1, <4>2
      <3>5. QED
        BY <3>3, <3>4
    <2>3. QED
      BY <2>1, <2>2 DEF Alone, On, D
  <1>5. ASSUME NEW v \in Thread PROVE Proper(v)' /\ Knows(v)'
    <2>1. CASE v = w
      BY <2>1
    <2>2. CASE v # w
      <3>1. op'[v] = op[v] /\ alone'[v] = alone[v]
        BY <2>2 DEF Local
      <3>2. Proper(v) /\ Knows(v)
        BY DEF DocInv
      <3>3. Proper(v)'
        BY <3>1, <3>2 DEF Proper
      <3>4. ASSUME op[v].doc \in Doc, alone[v] PROVE op[v].doc # D(w)
        BY <2>2, <3>4 DEF DocInv, Alone, D
      <3>5. ASSUME op[v].doc \in Doc, alone[v], doc'[op[v].doc].here PROVE Knows(v)'
        <4>1. /\ doc'[op[v].doc] = doc[op[v].doc] /\ rows'[op[v].doc] = rows[op[v].doc]
              /\ vectors'[op[v].doc] = vectors[op[v].doc]
          BY <3>4, <3>5 DEF Local
        <4>2. QED
          BY <3>1, <3>2, <3>5, <4>1 DEF Knows, Here, D
      <3>6. CASE ~(op[v].doc \in Doc /\ alone[v] /\ doc'[op[v].doc].here)
        <4>1. ~(Here(v)' /\ alone'[v])
          BY <3>1, <3>6 DEF Here, D
        <4>2. QED
          BY <3>3, <4>1 DEF Knows
      <3>7. QED
        BY <3>3, <3>5, <3>6
    <2>3. QED
      BY <2>1, <2>2
  <1>6. ASSUME NEW d \in Doc PROVE Agrees(d)'
    <2>1. CASE d = D(w)
      BY <2>1
    <2>2. CASE d # D(w)
      <3>1. /\ doc'[d] = doc[d] /\ rows'[d] = rows[d] /\ vectors'[d] = vectors[d]
            /\ sound'[d] = sound[d]
        BY <2>2 DEF Local
      <3>2. ASSUME NEW v \in On(d) PROVE v \in On(d)' /\ op'[v] = op[v]
        <4>1. v # w
          BY <2>2 DEF On, D
        <4>2. op'[v] = op[v]
          BY <4>1 DEF Local, On
        <4>3. QED
          BY <4>2 DEF On
      <3>3. Agrees(d)
        BY DEF DocInv
      <3>4. OfOneCutting(d) => OfOneCutting(d)'
        BY <3>1 DEF OfOneCutting
      <3>5. QED
        BY <3>1, <3>2, <3>3, <3>4 DEF Agrees
    <2>3. QED
      BY <2>1, <2>2
  <1>7. QED
    BY <1>1, <1>4, <1>5, <1>6 DEF DocInv
-----------------------------------------------------------------------------
(* The ways a run moves *)

Steps(w) ==
  /\ op' \in [Thread -> Op] /\ alone' \in [Thread -> BOOLEAN]
  /\ \A v \in Thread \ {w} : op'[v] = op[v] /\ alone'[v] = alone[v]
  /\ \/ op'[w].doc = D(w) /\ alone'[w] = alone[w]
     \/ op'[w].doc = NoDoc /\ alone'[w] = TRUE

\* ... to a place where it knows nothing of its document.
Off(w) == Steps(w) /\ op'[w].at \notin Reader

LEMMA Turns ==
  ASSUME TypeOK, NEW w \in Thread, NEW new \in Op, op' = [op EXCEPT ![w] = new],
         \/ new.doc = D(w) /\ alone' = alone
         \/ new.doc = NoDoc /\ alone' = [alone EXCEPT ![w] = TRUE]
  PROVE  Steps(w) /\ op'[w] = new
  <1>1. op' \in [Thread -> Op] /\ op'[w] = new /\ \A v \in Thread \ {w} : op'[v] = op[v]
    BY DEF TypeOK
  <1>2. alone' \in [Thread -> BOOLEAN] /\ \A v \in Thread \ {w} : alone'[v] = alone[v]
    BY DEF TypeOK
  <1>3. CASE new.doc = D(w) /\ alone' = alone
    BY <1>1, <1>2, <1>3 DEF Steps
  <1>4. CASE new.doc = NoDoc /\ alone' = [alone EXCEPT ![w] = TRUE]
    <2>1. alone'[w] = TRUE
      BY <1>4 DEF TypeOK
    <2>2. QED
      BY <1>1, <1>2, <1>4, <2>1 DEF Steps
  <1>5. QED
    BY <1>3, <1>4

LEMMA NoOpTyped ==
  NoOp \in Op /\ NoRow \in Row
  <1>1. NoRow \in Row
    BY DEF NoRow, Row
  <1>2. NoOp \in Op
    BY <1>1, RagDocumentsAssumption DEF NoOp, Op, At, Kind
  <1>3. QED
    BY <1>1, <1>2

LEMMA Leaves ==
  ASSUME TypeOK, NEW w \in Thread, Leave(w)
  PROVE  Off(w) /\ op'[w].at \in {"idle", "next"}
  <1> DEFINE new == IF op[w].todo = {} THEN NoOp
                    ELSE [NoOp EXCEPT !.at = "next", !.kind = "pipeline", !.todo = op[w].todo]
  <1>1. op' = [op EXCEPT ![w] = new] /\ alone' = [alone EXCEPT ![w] = TRUE]
    BY DEF Leave
  <1>2. op[w].todo \in SUBSET Doc
    BY DEF TypeOK, Op
  <1>3. new \in Op /\ new.doc = NoDoc /\ new.at \in {"idle", "next"}
    <2>1. NoOp.doc = NoDoc /\ NoOp.at = "idle"
      BY DEF NoOp
    <2>2. CASE op[w].todo = {}
      BY <2>1, <2>2, NoOpTyped
    <2>3. CASE op[w].todo # {}
      <3> DEFINE further == [NoOp EXCEPT !.at = "next", !.kind = "pipeline", !.todo = op[w].todo]
      <3>1. further \in Op
        BY <1>2, NoOpTyped DEF Op, At, Kind
      <3>2. further.doc = NoDoc /\ further.at = "next"
        BY DEF NoOp
      <3> HIDE DEF further
      <3>4. new = further
        BY <2>3 DEF further
      <3> HIDE DEF new
      <3>5. QED
        BY <3>1, <3>2, <3>4
    <2>4. QED
      BY <2>2, <2>3
  <1> HIDE DEF new
  <1>4. QED
    BY <1>1, <1>3, Turns DEF Off, Reader

LEMMA GoesOff ==
  ASSUME TypeOK, NEW w \in Thread, NEW at \in At \ Reader, Go(w, at), alone' = alone
  PROVE  /\ Off(w) /\ op'[w].at = at
         /\ op'[w].kind = op[w].kind /\ op'[w].again = op[w].again
  <1> DEFINE new == [op[w] EXCEPT !.at = at, !.seen = NoRow, !.cut = 0, !.size = 0, !.set = {}]
  <1>1. op' = [op EXCEPT ![w] = new]
    BY DEF Go
  <1>2. op[w] \in Op
    BY DEF TypeOK
  <1>3. 0 \in 0..MaxCuts /\ 0 \in 0..MaxTexts
    BY RagDocumentsAssumption
  <1>4. new \in Op /\ new.doc = D(w) /\ new.at = at /\ new.kind = op[w].kind
        /\ new.again = op[w].again
    BY <1>2, <1>3, NoOpTyped DEF Op, D
  <1> HIDE DEF new
  <1>5. Steps(w) /\ op'[w] = new
    BY <1>1, <1>4, Turns
  <1>6. QED
    BY <1>4, <1>5 DEF Off

LEMMA MovesTo ==
  ASSUME TypeOK, NEW w \in Thread, NEW at \in At, To(w, at), alone' = alone
  PROVE  Steps(w) /\ op'[w] = [op[w] EXCEPT !.at = at]
  <1> DEFINE new == [op[w] EXCEPT !.at = at]
  <1>1. op' = [op EXCEPT ![w] = new]
    BY DEF To
  <1>2. new \in Op /\ new.doc = D(w)
    BY DEF TypeOK, Op, D
  <1> HIDE DEF new
  <1>3. Steps(w) /\ op'[w] = new
    BY <1>1, <1>2, Turns
  <1>4. QED
    BY <1>3 DEF new

LEMMA AfterCutOff ==
  ASSUME TypeOK, NEW w \in Thread, Proper(w), op[w].at \in {"cut", "insert"}, AfterCut(w)
  PROVE  Off(w) /\ op'[w].at \in {"idle", "next", "index", "look_chunked"}
         /\ (op'[w].at = "look_chunked" => op'[w].kind = "pipeline")
  <1>0. op[w].again \/ op[w].kind \in {"pipeline", "sync", "chunk"}
    BY DEF Proper
  <1>1. \/ Go(w, "index") /\ alone' = alone
        \/ Go(w, "look_chunked") /\ alone' = alone /\ op[w].kind = "pipeline"
        \/ Leave(w)
    BY <1>0 DEF AfterCut
  <1>2. "index" \in At \ Reader /\ "look_chunked" \in At \ Reader
    BY DEF At, Reader
  <1>3. CASE Go(w, "index") /\ alone' = alone
    BY <1>2, <1>3, GoesOff
  <1>4. CASE Go(w, "look_chunked") /\ alone' = alone /\ op[w].kind = "pipeline"
    BY <1>2, <1>4, GoesOff
  <1>5. CASE Leave(w)
    BY <1>5, Leaves
  <1>6. QED
    BY <1>1, <1>3, <1>4, <1>5
-----------------------------------------------------------------------------
(* Stages that write the document's row *)

LEMMA MarkKeeps ==
  ASSUME DocInv, NEW w \in Thread, Here(w), NEW row \in Row, Mark(w, row),
         Off(w), Proper(w)',
         kb' = kb, rows' = rows, vectors' = vectors,
         runs' = runs, cuts' = cuts, crashes' = crashes,
         sound' = sound \/ sound' = [sound EXCEPT ![D(w)] = @ \/ alone[w]],
         sound'[D(w)] =>
           /\ \/ row.count = 0 /\ rows[D(w)] = {}
              \/ row.count > 0 /\ \E g \in 1..MaxCuts : rows[D(w)] = Pieces(g, row.count)
           /\ row.chunk = "chunked" => rows[D(w)] # {}
           /\ row.index = "indexed" => rows[D(w)] # {} /\ rows[D(w)] \subseteq vectors[D(w)]
  PROVE  DocInv'
  <1> DEFINE d == D(w)
             marked == [row EXCEPT !.here = TRUE]
  <1>0. TypeOK /\ d \in Doc /\ doc[d].here
    BY DEF DocInv, Here
  <1>1. doc' = [doc EXCEPT ![d] = marked]
    BY DEF Mark
  <1>2. /\ marked \in Row /\ marked.here /\ marked.count = row.count
        /\ marked.chunk = row.chunk /\ marked.index = row.index
    BY DEF Row
  <1> HIDE DEF d, marked
  <1>3. doc' \in [Doc -> Row] /\ doc'[d] = marked /\ \A e \in Doc : e # d => doc'[e] = doc[e]
    BY <1>0, <1>1, <1>2 DEF TypeOK
  <1>4. /\ sound' \in [Doc -> BOOLEAN]
        /\ sound'[d] => sound[d] \/ alone[w]
        /\ \A e \in Doc : e # d => sound'[e] = sound[e]
    <2>1. sound \in [Doc -> BOOLEAN] /\ alone[w] \in BOOLEAN
      BY <1>0 DEF TypeOK
    <2>2. CASE sound' = sound
      BY <2>1, <2>2
    <2>3. CASE sound' = [sound EXCEPT ![d] = @ \/ alone[w]]
      BY <1>0, <2>1, <2>3
    <2>4. QED
      BY <2>2, <2>3 DEF d
  <1>5. TypeOK'
    BY <1>0, <1>3, <1>4 DEF TypeOK, Off, Steps
  <1>6. Local(w)
    BY <1>0, <1>2, <1>3, <1>4 DEF Local, Off, Steps, d, Here
  <1>7. Knows(w)'
    BY DEF Off, Knows, Reader
  <1>8. ASSUME NEW e \in Doc, e = d PROVE Agrees(e)'
    <2>1. CASE sound'[d]
      <3>1. Consistent(e)'
        BY <1>2, <1>3, <1>8, <2>1 DEF Consistent, OfOneCutting, d
      <3>2. QED
        BY <3>1 DEF Consistent, Agrees
    <2>2. CASE ~sound'[d]
      BY <1>8, <2>2 DEF Agrees
    <2>3. QED
      BY <2>1, <2>2
  <1>9. QED
    BY <1>5, <1>6, <1>7, <1>8, LocalKeeps DEF d

LEMMA ParseMarkKeeps ==
  ASSUME DocInv, NEW w \in Thread, ParseMark(w)
  PROVE  DocInv'
  <1>0. /\ TypeOK /\ Proper(w) /\ Knows(w) /\ Here(w) /\ op[w].at = "parsing" /\ op[w].seen \in Row
        /\ kb' = kb /\ rows' = rows /\ vectors' = vectors /\ sound' = sound
        /\ runs' = runs /\ cuts' = cuts /\ crashes' = crashes
    BY DEF DocInv, ParseMark, TypeOK, Op
  <1>1. PICK result \in {"parsed", "failed"} : Mark(w, [op[w].seen EXCEPT !.parse = result])
    BY DEF ParseMark
  <1> DEFINE row == [op[w].seen EXCEPT !.parse = result]
  <1>2. /\ row \in Row /\ row.count = op[w].seen.count /\ row.chunk = op[w].seen.chunk
        /\ row.index = op[w].seen.index
    BY <1>0 DEF Row
  <1>3. \/ Go(w, "look_parsed") /\ alone' = alone /\ op[w].kind = "pipeline"
        \/ Go(w, "chunk") /\ alone' = alone /\ op[w].kind = "sync"
        \/ Leave(w)
    BY <1>0 DEF ParseMark, Proper
  <1>4. Off(w) /\ Proper(w)'
    <2>1. "look_parsed" \in At \ Reader /\ "chunk" \in At \ Reader
      BY DEF At, Reader
    <2>2. CASE Go(w, "look_parsed") /\ alone' = alone /\ op[w].kind = "pipeline"
      <3>1. Off(w) /\ op'[w].at = "look_parsed" /\ op'[w].kind = "pipeline"
        BY <1>0, <2>1, <2>2, GoesOff
      <3>2. QED
        BY <3>1 DEF Proper, Looking
    <2>3. CASE Go(w, "chunk") /\ alone' = alone /\ op[w].kind = "sync"
      <3>1. Off(w) /\ op'[w].at = "chunk" /\ op'[w].kind = "sync"
        BY <1>0, <2>1, <2>3, GoesOff
      <3>2. QED
        BY <3>1 DEF Proper, Looking
    <2>4. CASE Leave(w)
      <3>1. Off(w) /\ op'[w].at \in {"idle", "next"}
        BY <1>0, <2>4, Leaves
      <3>2. QED
        BY <3>1 DEF Proper, Looking
    <2>5. QED
      BY <1>3, <2>2, <2>3, <2>4
  <1>5. ASSUME sound[D(w)]
        PROVE  /\ \/ row.count = 0 /\ rows[D(w)] = {}
                  \/ row.count > 0 /\ \E g \in 1..MaxCuts : rows[D(w)] = Pieces(g, row.count)
               /\ row.chunk = "chunked" => rows[D(w)] # {}
               /\ row.index = "indexed" => rows[D(w)] # {} /\ rows[D(w)] \subseteq vectors[D(w)]
    <2>1. alone[w] /\ Consistent(D(w))
      BY <1>0, <1>5, Mine
    <2>2. op[w].seen = doc[D(w)]
      BY <1>0, <2>1 DEF Knows, Reader
    <2> HIDE DEF row
    <2>3. QED
      BY <1>2, <2>1, <2>2 DEF Consistent, OfOneCutting
  <1> HIDE DEF row
  <1>6. Mark(w, row)
    BY <1>1 DEF row
  <1>7. QED
    BY <1>0, <1>2, <1>4, <1>5, <1>6, MarkKeeps

LEMMA CutNothingKeeps ==
  ASSUME DocInv, NEW w \in Thread, CutNothing(w)
  PROVE  DocInv'
  <1>0. /\ TypeOK /\ Proper(w) /\ Knows(w) /\ Here(w) /\ op[w].at = "cut" /\ op[w].seen \in Row
        /\ kb' = kb /\ rows' = rows /\ vectors' = vectors /\ sound' = sound
        /\ runs' = runs /\ cuts' = cuts /\ crashes' = crashes
        /\ AfterCut(w)
    BY DEF DocInv, CutNothing, TypeOK, Op
  <1> DEFINE row == [op[w].seen EXCEPT !.chunk = "failed"]
  <1>1. Mark(w, row)
    BY DEF CutNothing
  <1>2. /\ row \in Row /\ row.count = op[w].seen.count /\ row.chunk # "chunked"
        /\ row.index = op[w].seen.index
    BY <1>0 DEF Row
  <1>3. Off(w) /\ Proper(w)'
    <2>1. /\ Off(w) /\ op'[w].at \in {"idle", "next", "index", "look_chunked"}
          /\ op'[w].at = "look_chunked" => op'[w].kind = "pipeline"
      BY <1>0, AfterCutOff
    <2>2. QED
      BY <2>1 DEF Proper, Looking
  <1>4. ASSUME sound[D(w)]
        PROVE  /\ \/ row.count = 0 /\ rows[D(w)] = {}
                  \/ row.count > 0 /\ \E g \in 1..MaxCuts : rows[D(w)] = Pieces(g, row.count)
               /\ row.index = "indexed" => rows[D(w)] # {} /\ rows[D(w)] \subseteq vectors[D(w)]
    <2>1. alone[w] /\ Consistent(D(w))
      BY <1>0, <1>4, Mine
    <2>2. op[w].seen = doc[D(w)]
      BY <1>0, <2>1 DEF Knows, Reader
    <2> HIDE DEF row
    <2>3. QED
      BY <1>2, <2>1, <2>2 DEF Consistent, OfOneCutting
  <1> HIDE DEF row
  <1>5. QED
    BY <1>0, <1>1, <1>2, <1>3, <1>4, MarkKeeps

LEMMA ListNothingKeeps ==
  ASSUME DocInv, NEW w \in Thread, ListNothing(w)
  PROVE  DocInv'
  <1>0. /\ TypeOK /\ Proper(w) /\ Knows(w) /\ Here(w) /\ op[w].at = "list" /\ op[w].seen \in Row
        /\ kb' = kb /\ rows' = rows /\ vectors' = vectors /\ sound' = sound
        /\ runs' = runs /\ cuts' = cuts /\ crashes' = crashes
        /\ Leave(w) /\ rows[D(w)] = {}
    BY DEF DocInv, ListNothing, TypeOK, Op
  <1> DEFINE row == [op[w].seen EXCEPT !.chunk = "failed", !.index = "failed"]
  <1>1. Mark(w, row)
    BY DEF ListNothing
  <1>2. /\ row \in Row /\ row.count = op[w].seen.count /\ row.chunk # "chunked"
        /\ row.index # "indexed"
    BY <1>0 DEF Row
  <1>3. Off(w) /\ Proper(w)'
    <2>1. Off(w) /\ op'[w].at \in {"idle", "next"}
      BY <1>0, Leaves
    <2>2. QED
      BY <2>1 DEF Proper, Looking
  <1>4. ASSUME sound[D(w)]
        PROVE  \/ row.count = 0 /\ rows[D(w)] = {}
               \/ row.count > 0 /\ \E g \in 1..MaxCuts : rows[D(w)] = Pieces(g, row.count)
    <2>1. alone[w] /\ Consistent(D(w))
      BY <1>0, <1>4, Mine
    <2>2. op[w].seen = doc[D(w)]
      BY <1>0, <2>1 DEF Knows, Reader
    <2> HIDE DEF row
    <2>3. QED
      BY <1>2, <2>1, <2>2 DEF Consistent, OfOneCutting
  <1> HIDE DEF row
  <1>5. QED
    BY <1>0, <1>1, <1>2, <1>3, <1>4, MarkKeeps
-----------------------------------------------------------------------------
LEMMA CutMarkKeeps ==
  ASSUME DocInv, NEW w \in Thread, CutMark(w)
  PROVE  DocInv'
  <1>0. /\ TypeOK /\ Proper(w) /\ Knows(w) /\ Here(w) /\ op[w].at = "insert"
        /\ op[w].seen \in Row /\ op[w].size \in Nat /\ Alone
        /\ kb' = kb /\ rows' = rows /\ vectors' = vectors
        /\ sound' = [sound EXCEPT ![D(w)] = @ \/ alone[w]]
        /\ runs' = runs /\ cuts' = cuts /\ crashes' = crashes
        /\ AfterCut(w) /\ Cardinality(op[w].set) = op[w].size
    BY RagDocumentsAssumption DEF DocInv, CutMark, TypeOK, Op
  <1> DEFINE row == [op[w].seen EXCEPT !.parse = "parsed", !.chunk = "chunked",
                                       !.index = "pending", !.count = op[w].size, !.indexed = 0]
  <1>1. Mark(w, row)
    BY DEF CutMark
  <1>2. /\ row \in Row /\ row.count = op[w].size /\ row.index # "indexed"
    BY <1>0 DEF Row
  <1>3. Off(w) /\ Proper(w)'
    <2>1. /\ Off(w) /\ op'[w].at \in {"idle", "next", "index", "look_chunked"}
          /\ op'[w].at = "look_chunked" => op'[w].kind = "pipeline"
      BY <1>0, AfterCutOff
    <2>2. QED
      BY <2>1 DEF Proper, Looking
  <1>4. ASSUME sound'[D(w)]
        PROVE  /\ row.count > 0 /\ \E g \in 1..MaxCuts : rows[D(w)] = Pieces(g, row.count)
               /\ rows[D(w)] # {}
    <2>1. alone[w]
      <3>1. w \in On(D(w)) /\ D(w) \in Doc
        BY <1>0 DEF On, Here, D
      <3>2. sound[D(w)] \/ alone[w]
        BY <1>0, <1>4, <3>1 DEF TypeOK
      <3>3. QED
        BY <1>0, <3>1, <3>2 DEF Alone
    <2>2. rows[D(w)] = op[w].set
      BY <1>0, <2>1 DEF Knows
    <2>3. PICK k \in 0..op[w].size : op[w].set = Pieces(op[w].cut, k)
      BY <1>0 DEF Proper
    <2>4. k \in Nat /\ op[w].cut \in 1..MaxCuts /\ op[w].size > 0
      BY <1>0 DEF Proper
    <2>5. Cardinality(Pieces(op[w].cut, k)) = k
      BY <2>4, PiecesAre
    <2>6. k = op[w].size
      BY <1>0, <2>3, <2>5
    <2>7. Pieces(op[w].cut, k) # {}
      BY <2>4, <2>6, PiecesAre
    <2> HIDE DEF row
    <2>8. QED
      BY <1>2, <2>2, <2>3, <2>4, <2>6, <2>7
  <1> HIDE DEF row
  <1>5. QED
    BY <1>0, <1>1, <1>2, <1>3, <1>4, MarkKeeps

LEMMA IndexFailsKeeps ==
  ASSUME DocInv, NEW w \in Thread, IndexFails(w)
  PROVE  DocInv'
  <1>0. /\ TypeOK /\ Knows(w) /\ Here(w) /\ op[w].at \in {"delete", "put"} /\ op[w].seen \in Row
        /\ kb' = kb /\ rows' = rows /\ vectors' = vectors /\ sound' = sound
        /\ runs' = runs /\ cuts' = cuts /\ crashes' = crashes
        /\ Leave(w)
    BY DEF DocInv, IndexFails, TypeOK, Op
  <1> DEFINE row == [op[w].seen EXCEPT !.chunk = "chunked", !.index = "failed", !.indexed = 0]
  <1>1. Mark(w, row)
    BY DEF IndexFails
  <1>2. row \in Row /\ row.count = op[w].seen.count /\ row.index # "indexed"
    BY <1>0 DEF Row
  <1>3. Off(w) /\ Proper(w)'
    <2>1. Off(w) /\ op'[w].at \in {"idle", "next"}
      BY <1>0, Leaves
    <2>2. QED
      BY <2>1 DEF Proper, Looking
  <1>4. ASSUME sound[D(w)]
        PROVE  /\ \/ row.count = 0 /\ rows[D(w)] = {}
                  \/ row.count > 0 /\ \E g \in 1..MaxCuts : rows[D(w)] = Pieces(g, row.count)
               /\ rows[D(w)] # {}
    <2>1. alone[w] /\ OfOneCutting(D(w))
      BY <1>0, <1>4, Mine DEF Consistent
    <2>2. op[w].seen = doc[D(w)] /\ rows[D(w)] # {}
      BY <1>0, <2>1 DEF Knows, Reader
    <2> HIDE DEF row
    <2>3. QED
      BY <1>2, <2>1, <2>2 DEF OfOneCutting
  <1> HIDE DEF row
  <1>5. QED
    BY <1>0, <1>1, <1>2, <1>3, <1>4, MarkKeeps

LEMMA IndexMarkKeeps ==
  ASSUME DocInv, NEW w \in Thread, IndexMark(w)
  PROVE  DocInv'
  <1>0. /\ TypeOK /\ Knows(w) /\ Here(w) /\ op[w].at = "mark" /\ op[w].seen \in Row
        /\ op[w].set \in SUBSET Chunk
        /\ kb' = kb /\ rows' = rows /\ vectors' = vectors /\ sound' = sound
        /\ runs' = runs /\ cuts' = cuts /\ crashes' = crashes
        /\ Leave(w)
    BY DEF DocInv, IndexMark, TypeOK, Op
  <1> DEFINE row == [op[w].seen EXCEPT !.parse = "parsed", !.chunk = "chunked",
                                       !.index = "indexed", !.indexed = Cardinality(op[w].set)]
  <1>1. Mark(w, row)
    BY DEF IndexMark
  <1>2. row \in Row /\ row.count = op[w].seen.count
    <2>1. Cardinality(op[w].set) \in Nat
      BY <1>0, ChunksFinite
    <2>2. QED
      BY <1>0, <2>1 DEF Row
  <1>3. Off(w) /\ Proper(w)'
    <2>1. Off(w) /\ op'[w].at \in {"idle", "next"}
      BY <1>0, Leaves
    <2>2. QED
      BY <2>1 DEF Proper, Looking
  <1>4. ASSUME sound[D(w)]
        PROVE  /\ \/ row.count = 0 /\ rows[D(w)] = {}
                  \/ row.count > 0 /\ \E g \in 1..MaxCuts : rows[D(w)] = Pieces(g, row.count)
               /\ rows[D(w)] # {} /\ rows[D(w)] \subseteq vectors[D(w)]
    <2>1. alone[w] /\ Consistent(D(w))
      BY <1>0, <1>4, Mine
    <2>2. /\ op[w].seen = doc[D(w)] /\ rows[D(w)] # {}
          /\ rows[D(w)] \subseteq vectors[D(w)]
      BY <1>0, <2>1 DEF Knows, Reader
    <2> HIDE DEF row
    <2>3. QED
      BY <1>2, <2>1, <2>2 DEF Consistent, OfOneCutting
  <1> HIDE DEF row
  <1>5. QED
    BY <1>0, <1>1, <1>2, <1>3, <1>4, MarkKeeps

-----------------------------------------------------------------------------
(* Stages that only move or read *)

LEMMA StillKeeps ==
  ASSUME DocInv, NEW w \in Thread, Steps(w), Proper(w)', Knows(w)',
         op[w].at \notin {"insert", "put"},
         doc' = doc, rows' = rows, vectors' = vectors, sound' = sound, kb' = kb,
         runs' \in 0..MaxRuns, cuts' = cuts, crashes' = crashes
  PROVE  DocInv'
  <1>0. TypeOK
    BY DEF DocInv
  <1>1. TypeOK'
    BY <1>0 DEF TypeOK, Steps
  <1>2. Local(w)
    BY DEF Local, Steps, Here
  <1>3. ASSUME NEW d \in Doc, d = D(w) PROVE Agrees(d)'
    <2>1. CASE doc[d].here /\ sound[d]
      <3>1. Consistent(d)
        BY <1>3, <2>1, Mine DEF Here
      <3>2. Consistent(d)'
        BY <3>1 DEF Consistent, OfOneCutting
      <3>3. QED
        BY <3>2 DEF Consistent, Agrees
    <2>2. CASE ~(doc[d].here /\ sound[d])
      BY <2>2 DEF Agrees
    <2>3. QED
      BY <2>1, <2>2
  <1>4. QED
    BY <1>1, <1>2, <1>3, LocalKeeps

LEMMA LookKeeps ==
  ASSUME DocInv, NEW w \in Thread, Look(w)
  PROVE  DocInv'
  <1>0. /\ TypeOK /\ Proper(w) /\ op[w].at \in Looking /\ op[w].kind = "pipeline"
        /\ doc' = doc /\ rows' = rows /\ vectors' = vectors /\ sound' = sound /\ kb' = kb
        /\ runs' \in 0..MaxRuns /\ cuts' = cuts /\ crashes' = crashes
    BY DEF DocInv, Look, TypeOK, Proper, Looking
  <1>1. \/ \E at \in {"parse", "chunk", "index"} : To(w, at) /\ alone' = alone
        \/ Leave(w)
    BY DEF Look
  <1>2. Off(w) /\ Proper(w)'
    <2>1. ASSUME NEW at \in {"parse", "chunk", "index"}, To(w, at), alone' = alone
          PROVE  Off(w) /\ Proper(w)'
      <3>1. at \in At
        BY DEF At
      <3>2. Steps(w) /\ op'[w] = [op[w] EXCEPT !.at = at]
        BY <1>0, <2>1, <3>1, MovesTo
      <3>3. op'[w].at = at /\ op'[w].kind = "pipeline"
        BY <1>0, <3>2 DEF TypeOK, Op
      <3>4. QED
        BY <3>2, <3>3 DEF Off, Proper, Looking, Reader
    <2>2. CASE Leave(w)
      <3>1. Off(w) /\ op'[w].at \in {"idle", "next"}
        BY <1>0, <2>2, Leaves
      <3>2. QED
        BY <3>1 DEF Proper, Looking
    <2>3. QED
      BY <1>1, <2>1, <2>2
  <1>3. Knows(w)'
    BY <1>2 DEF Off, Knows, Reader
  <1>4. op[w].at \notin {"insert", "put"} /\ Steps(w)
    BY <1>0, <1>2 DEF Looking, Off
  <1>5. QED
    BY <1>0, <1>2, <1>3, <1>4, StillKeeps
-----------------------------------------------------------------------------
LEMMA ParseKeeps ==
  ASSUME DocInv, NEW w \in Thread, Parse(w) \/ Index(w)
  PROVE  DocInv'
  <1>0. /\ TypeOK /\ Proper(w) /\ Here(w) /\ op[w] \in Op /\ doc[D(w)] \in Row
        /\ doc' = doc /\ rows' = rows /\ vectors' = vectors /\ sound' = sound /\ kb' = kb
        /\ runs' \in 0..MaxRuns /\ cuts' = cuts /\ crashes' = crashes /\ alone' = alone
    BY DEF DocInv, Parse, Index, TypeOK, Here
  <1>1. PICK at \in {"parsing", "list"} : Saw(w, at) /\ op[w].at \in {"parse", "index"}
                                          /\ (at = "parsing" => op[w].at = "parse")
    BY DEF Parse, Index
  <1> DEFINE new == [op[w] EXCEPT !.at = at, !.seen = doc[D(w)]]
  <1>2. op' = [op EXCEPT ![w] = new]
    BY <1>1 DEF Saw
  <1>3. at \in At
    BY DEF At
  <1>4. /\ new \in Op /\ new.doc = D(w) /\ new.at = at /\ new.kind = op[w].kind
        /\ new.seen = doc[D(w)]
    BY <1>0, <1>3 DEF Op, D
  <1> HIDE DEF new
  <1>5. Steps(w) /\ op'[w] = new
    BY <1>0, <1>2, <1>4, Turns
  <1>6. Proper(w)'
    BY <1>0, <1>1, <1>4, <1>5 DEF Proper, Looking
  <1>7. Knows(w)'
    BY <1>0, <1>4, <1>5 DEF Knows, D, Reader
  <1>8. QED
    BY <1>0, <1>1, <1>5, <1>6, <1>7, StillKeeps

LEMMA CutKeeps ==
  ASSUME DocInv, NEW w \in Thread, Cut(w)
  PROVE  DocInv'
  <1>0. /\ TypeOK /\ Proper(w) /\ Here(w) /\ op[w] \in Op /\ doc[D(w)] \in Row
        /\ op[w].at = "chunk"
        /\ doc' = doc /\ rows' = rows /\ vectors' = vectors /\ sound' = sound /\ kb' = kb
        /\ runs' \in 0..MaxRuns /\ cuts' = cuts /\ crashes' = crashes /\ alone' = alone
    BY DEF DocInv, Cut, TypeOK, Here
  <1>1. PICK n \in 0..MaxTexts :
          op' = [op EXCEPT ![w].at = "cut", ![w].seen = doc[D(w)], ![w].size = n]
    BY DEF Cut
  <1> DEFINE new == [op[w] EXCEPT !.at = "cut", !.seen = doc[D(w)], !.size = n]
  <1>2. op' = [op EXCEPT ![w] = new]
    BY <1>1
  <1>3. "cut" \in At
    BY DEF At
  <1>4. /\ new \in Op /\ new.doc = D(w) /\ new.at = "cut" /\ new.kind = op[w].kind
        /\ new.again = op[w].again /\ new.seen = doc[D(w)]
    BY <1>0, <1>3 DEF Op, D
  <1> HIDE DEF new
  <1>5. Steps(w) /\ op'[w] = new
    BY <1>0, <1>2, <1>4, Turns
  <1>6. Proper(w)'
    BY <1>0, <1>4, <1>5 DEF Proper, Looking
  <1>7. Knows(w)'
    BY <1>0, <1>4, <1>5 DEF Knows, D, Reader
  <1>8. QED
    BY <1>0, <1>5, <1>6, <1>7, StillKeeps

LEMMA ListKeeps ==
  ASSUME DocInv, NEW w \in Thread, List(w)
  PROVE  DocInv'
  <1>0. /\ TypeOK /\ Knows(w) /\ Here(w) /\ op[w] \in Op /\ op[w].at = "list"
        /\ rows[D(w)] \in SUBSET Chunk
        /\ doc' = doc /\ rows' = rows /\ vectors' = vectors /\ sound' = sound /\ kb' = kb
        /\ runs' \in 0..MaxRuns /\ cuts' = cuts /\ crashes' = crashes /\ alone' = alone
    BY DEF DocInv, List, TypeOK, Here
  <1>1. "delete" \in At /\ "chunk" \in At
    BY DEF At
  <1>2. CASE rows[D(w)] # {} /\ op' = [op EXCEPT ![w].at = "delete", ![w].set = rows[D(w)]]
    <2> DEFINE new == [op[w] EXCEPT !.at = "delete", !.set = rows[D(w)]]
    <2>1. op' = [op EXCEPT ![w] = new]
      BY <1>2
    <2>2. /\ new \in Op /\ new.doc = D(w) /\ new.at = "delete" /\ new.set = rows[D(w)]
          /\ new.seen = op[w].seen
      BY <1>0, <1>1 DEF Op, D
    <2> HIDE DEF new
    <2>3. Steps(w) /\ op'[w] = new
      BY <1>0, <2>1, <2>2, Turns
    <2>4. Proper(w)'
      BY <2>2, <2>3 DEF Proper, Looking
    <2>5. Knows(w)'
      BY <1>0, <1>2, <2>2, <2>3 DEF Knows, D, Reader, Here
    <2>6. QED
      BY <1>0, <2>3, <2>4, <2>5, StillKeeps
  <1>3. CASE op' = [op EXCEPT ![w].at = "chunk", ![w].again = TRUE]
    <2> DEFINE new == [op[w] EXCEPT !.at = "chunk", !.again = TRUE]
    <2>1. op' = [op EXCEPT ![w] = new]
      BY <1>3
    <2>2. new \in Op /\ new.doc = D(w) /\ new.at = "chunk" /\ new.again
      BY <1>0, <1>1 DEF Op, D
    <2> HIDE DEF new
    <2>3. Steps(w) /\ op'[w] = new
      BY <1>0, <2>1, <2>2, Turns
    <2>4. Proper(w)'
      BY <2>2, <2>3 DEF Proper, Looking
    <2>5. Knows(w)'
      BY <2>2, <2>3 DEF Knows, Reader
    <2>6. QED
      BY <1>0, <2>3, <2>4, <2>5, StillKeeps
  <1>4. QED
    BY <1>2, <1>3 DEF List

LEMMA CallsKeep ==
  ASSUME DocInv, NEW w \in Thread, Pipeline(w) \/ Sync(w)
  PROVE  DocInv'
  <1>0. /\ TypeOK /\ op[w] = NoOp /\ op[w] \in Op
        /\ doc' = doc /\ rows' = rows /\ vectors' = vectors /\ sound' = sound /\ kb' = kb
        /\ runs' \in 0..MaxRuns /\ cuts' = cuts /\ crashes' = crashes /\ alone' = alone
    BY RagDocumentsAssumption DEF DocInv, Pipeline, Sync, Begin, TypeOK
  <1>1. NoOp \in Op /\ NoOp.doc = NoDoc /\ "next" \in At /\ "make" \in At
        /\ "pipeline" \in Kind /\ "sync" \in Kind
    BY NoOpTyped DEF NoOp, At, Kind
  <1>2. \E new \in Op : /\ op' = [op EXCEPT ![w] = new]
                        /\ new.doc = NoDoc /\ new.at \in {"next", "make"}
    <2>1. CASE Pipeline(w)
      <3>1. PICK todo \in ({{d} : d \in {e \in Doc : doc[e].here}} \cup {Overdue}) \ {{}} :
              op' = [op EXCEPT ![w].at = "next", ![w].kind = "pipeline", ![w].todo = todo]
        BY <2>1 DEF Pipeline
      <3>2. todo \in SUBSET Doc
        BY DEF Overdue
      <3> DEFINE new == [op[w] EXCEPT !.at = "next", !.kind = "pipeline", !.todo = todo]
      <3>3. op' = [op EXCEPT ![w] = new]
        BY <3>1
      <3>4. new \in Op /\ new.doc = NoDoc /\ new.at = "next"
        BY <1>0, <1>1, <3>2 DEF Op
      <3> HIDE DEF new
      <3>5. QED
        BY <3>3, <3>4
    <2>2. CASE Sync(w)
      <3> DEFINE new == [op[w] EXCEPT !.at = "make", !.kind = "sync"]
      <3>1. op' = [op EXCEPT ![w] = new]
        BY <2>2 DEF Sync
      <3>2. new \in Op /\ new.doc = NoDoc /\ new.at = "make"
        BY <1>0, <1>1 DEF Op
      <3> HIDE DEF new
      <3>3. QED
        BY <3>1, <3>2
    <2>3. QED
      BY <2>1, <2>2
  <1>3. PICK new \in Op : /\ op' = [op EXCEPT ![w] = new]
                          /\ new.doc = NoDoc /\ new.at \in {"next", "make"}
    BY <1>2
  <1>4. D(w) = NoDoc
    BY <1>0, <1>1 DEF D
  <1>6. Steps(w) /\ op'[w] = new
    BY <1>0, <1>3, <1>4, Turns
  <1>7. Proper(w)' /\ Knows(w)'
    BY <1>3, <1>6 DEF Proper, Knows, Looking, Reader
  <1>8. op[w].at \notin {"insert", "put"}
    BY <1>0 DEF NoOp
  <1>9. QED
    BY <1>0, <1>6, <1>7, <1>8, StillKeeps

-----------------------------------------------------------------------------
(* Stages that clear and fill *)

LEMMA DeleteRowsKeeps ==
  ASSUME DocInv, NEW w \in Thread, DeleteRows(w)
  PROVE  DocInv'
  <1> DEFINE d == D(w)
             new == [op[w] EXCEPT !.at = "insert", !.cut = cuts + 1, !.set = {}]
  <1>0. /\ TypeOK /\ Proper(w) /\ Knows(w) /\ op[w] \in Op /\ d \in Doc /\ doc[d].here
        /\ op[w].at = "cut" /\ op[w].size > 0 /\ cuts + 1 \in 1..MaxCuts
        /\ cuts' = cuts + 1
        /\ rows' = [rows EXCEPT ![d] = {}] /\ vectors' = [vectors EXCEPT ![d] = {}]
        /\ doc' = doc /\ sound' = sound /\ kb' = kb
        /\ runs' = runs /\ crashes' = crashes /\ alone' = alone
    BY RagDocumentsAssumption DEF DocInv, DeleteRows, TypeOK, Here
  <1>1. op' = [op EXCEPT ![w] = new]
    BY DEF DeleteRows
  <1>2. "insert" \in At /\ cuts + 1 \in 0..MaxCuts
    BY <1>0 DEF At
  <1>3. /\ new \in Op /\ new.doc = d /\ new.at = "insert" /\ new.kind = op[w].kind
        /\ new.again = op[w].again /\ new.seen = op[w].seen /\ new.size = op[w].size
        /\ new.cut = cuts + 1 /\ new.set = {}
    BY <1>0, <1>2 DEF Op, D
  <1> HIDE DEF new, d
  <1>4. Steps(w) /\ op'[w] = new
    BY <1>0, <1>1, <1>3, Turns DEF d
  <1>5. /\ rows' \in [Doc -> SUBSET Chunk] /\ vectors' \in [Doc -> SUBSET Chunk]
        /\ rows'[d] = {}
        /\ \A e \in Doc : e # d => rows'[e] = rows[e] /\ vectors'[e] = vectors[e]
    BY <1>0 DEF TypeOK
  <1>6. TypeOK'
    BY <1>0, <1>2, <1>4, <1>5 DEF TypeOK, Steps
  <1>7. Local(w)
    BY <1>0, <1>4, <1>5 DEF Local, Steps, Here, d
  <1>8. Proper(w)'
    <2>1. Pieces(cuts + 1, 0) = {} /\ 0 \in 0..op[w].size
      BY <1>0, PiecesAre DEF Op
    <2>2. QED
      BY <1>0, <1>3, <1>4, <2>1 DEF Proper, Looking
  <1>9. Knows(w)'
    BY <1>0, <1>3, <1>4, <1>5 DEF Knows, D, Reader, Here, d
  <1>10. ASSUME NEW e \in Doc, e = d PROVE Agrees(e)'
    <2>1. w \in On(e)' /\ op'[w].at = "insert"
      BY <1>3, <1>4, <1>10 DEF On
    <2>2. QED
      BY <2>1 DEF Agrees
  <1>11. QED
    BY <1>6, <1>7, <1>8, <1>9, <1>10, LocalKeeps DEF d

LEMMA InsertRowKeeps ==
  ASSUME DocInv, NEW w \in Thread, InsertRow(w)
  PROVE  DocInv'
  <1> DEFINE d == D(w)
             chunk == <<op[w].cut, Cardinality(op[w].set) + 1>>
             new == [op[w] EXCEPT !.set = @ \cup {chunk}]
  <1>0. /\ TypeOK /\ Proper(w) /\ Knows(w) /\ op[w] \in Op /\ d \in Doc /\ doc[d].here
        /\ op[w].at = "insert" /\ Cardinality(op[w].set) < op[w].size
        /\ cuts' = cuts /\ vectors' = vectors
        /\ doc' = doc /\ sound' = sound /\ kb' = kb
        /\ runs' = runs /\ crashes' = crashes /\ alone' = alone
    BY DEF DocInv, InsertRow, TypeOK, Here
  <1>1. op' = [op EXCEPT ![w] = new] /\ rows' = [rows EXCEPT ![d] = @ \cup {chunk}]
    BY DEF InsertRow
  <1>2. PICK k \in 0..op[w].size : op[w].set = Pieces(op[w].cut, k)
    BY <1>0 DEF Proper
  <1>3. /\ k \in Nat /\ op[w].cut \in 1..MaxCuts /\ op[w].size > 0
        /\ op[w].size \in 0..MaxTexts
    BY <1>0 DEF Proper, Op
  <1>4. k < op[w].size /\ chunk = <<op[w].cut, k + 1>>
    BY <1>0, <1>2, <1>3, PiecesAre
  <1>5. chunk \in Chunk
    <2>1. k + 1 \in 1..MaxTexts
      BY <1>3, <1>4, RagDocumentsAssumption
    <2>2. QED
      BY <1>3, <1>4, <2>1 DEF Chunk
  <1>6. op[w].set \cup {chunk} = Pieces(op[w].cut, k + 1) /\ k + 1 \in 0..op[w].size
    BY <1>2, <1>3, <1>4, PiecesAre
  <1> HIDE DEF chunk
  <1>7. op[w].set \cup {chunk} \in SUBSET Chunk
    BY <1>0, <1>5 DEF Op
  <1>8. /\ new \in Op /\ new.doc = d /\ new.at = "insert" /\ new.kind = op[w].kind
        /\ new.again = op[w].again /\ new.seen = op[w].seen /\ new.size = op[w].size
        /\ new.cut = op[w].cut /\ new.set = op[w].set \cup {chunk}
    BY <1>0, <1>7 DEF Op, D
  <1> HIDE DEF new, d
  <1>9. Steps(w) /\ op'[w] = new
    BY <1>0, <1>1, <1>8, Turns DEF d
  <1>10. /\ rows' \in [Doc -> SUBSET Chunk]
         /\ rows'[d] = rows[d] \cup {chunk}
         /\ \A e \in Doc : e # d => rows'[e] = rows[e]
    BY <1>0, <1>1, <1>5 DEF TypeOK
  <1>11. TypeOK'
    BY <1>0, <1>9, <1>10 DEF TypeOK, Steps
  <1>12. Local(w)
    BY <1>0, <1>9, <1>10 DEF Local, Steps, Here, d
  <1>13. Proper(w)'
    BY <1>0, <1>3, <1>6, <1>8, <1>9 DEF Proper, Looking
  <1>14. Knows(w)'
    BY <1>0, <1>8, <1>9, <1>10 DEF Knows, D, Reader, Here, d
  <1>15. ASSUME NEW e \in Doc, e = d PROVE Agrees(e)'
    <2>1. w \in On(e)' /\ op'[w].at = "insert"
      BY <1>8, <1>9, <1>15 DEF On
    <2>2. QED
      BY <2>1 DEF Agrees
  <1>16. QED
    BY <1>11, <1>12, <1>13, <1>14, <1>15, LocalKeeps DEF d
-----------------------------------------------------------------------------
LEMMA DeleteVectorsKeeps ==
  ASSUME DocInv, NEW w \in Thread, DeleteVectors(w)
  PROVE  DocInv'
  <1>0. /\ TypeOK /\ Knows(w) /\ op[w] \in Op /\ op[w].at = "delete"
        /\ cuts' = cuts /\ doc' = doc /\ sound' = sound /\ kb' = kb /\ rows' = rows
        /\ runs' = runs /\ crashes' = crashes /\ alone' = alone /\ To(w, "put")
        /\ vectors' \in {vectors, [vectors EXCEPT ![D(w)] = {}]}
    BY DEF DocInv, DeleteVectors, TypeOK
  <1>1. "put" \in At
    BY DEF At
  <1>2. Steps(w) /\ op'[w] = [op[w] EXCEPT !.at = "put"]
    BY <1>0, <1>1, MovesTo
  <1>3. /\ op'[w].at = "put" /\ op'[w].doc = op[w].doc /\ op'[w].seen = op[w].seen
        /\ op'[w].set = op[w].set
    BY <1>0, <1>2 DEF Op
  <1>4. /\ vectors' \in [Doc -> SUBSET Chunk]
        /\ \A e \in Doc : e # D(w) => vectors'[e] = vectors[e]
    BY <1>0 DEF TypeOK
  <1>5. TypeOK'
    BY <1>0, <1>2, <1>4 DEF TypeOK, Steps
  <1>6. Local(w)
    BY <1>0, <1>2, <1>4 DEF Local, Steps, Here
  <1>7. Proper(w)'
    BY <1>3 DEF Proper, Looking
  <1>8. Knows(w)'
    BY <1>0, <1>3 DEF Knows, D, Reader, Here
  <1>9. ASSUME NEW e \in Doc, e = D(w), doc[e].here, sound[e]
        PROVE  Agrees(e)'
    <2>1. OfOneCutting(e) /\ (doc[e].chunk = "chunked" => rows[e] # {})
      BY <1>0, <1>9, Mine DEF Here, Consistent
    <2>2. OfOneCutting(e)'
      BY <1>0, <2>1 DEF OfOneCutting
    <2>3. w \in On(e)' /\ op'[w].at = "put"
      BY <1>3, <1>9 DEF On, D
    <2>4. QED
      BY <1>0, <2>1, <2>2, <2>3 DEF Agrees
  <1>10. ASSUME NEW e \in Doc, e = D(w) PROVE Agrees(e)'
    <2>1. CASE doc[e].here /\ sound[e]
      BY <1>9, <1>10, <2>1
    <2>2. CASE ~(doc[e].here /\ sound[e])
      BY <1>0, <2>2 DEF Agrees
    <2>3. QED
      BY <2>1, <2>2
  <1>11. QED
    BY <1>5, <1>6, <1>7, <1>8, <1>10, LocalKeeps

LEMMA InsertVectorsKeeps ==
  ASSUME DocInv, NEW w \in Thread, InsertVectors(w)
  PROVE  DocInv'
  <1>0. /\ TypeOK /\ Knows(w) /\ op[w] \in Op /\ op[w].at = "put"
        /\ cuts' = cuts /\ doc' = doc /\ sound' = sound /\ kb' = kb /\ rows' = rows
        /\ runs' = runs /\ crashes' = crashes /\ alone' = alone /\ To(w, "mark")
        /\ vectors' = [vectors EXCEPT ![D(w)] = @ \cup (op[w].set \cap rows[D(w)])]
    BY DEF DocInv, InsertVectors, TypeOK
  <1>1. "mark" \in At
    BY DEF At
  <1>2. Steps(w) /\ op'[w] = [op[w] EXCEPT !.at = "mark"]
    BY <1>0, <1>1, MovesTo
  <1>3. /\ op'[w].at = "mark" /\ op'[w].doc = op[w].doc /\ op'[w].seen = op[w].seen
        /\ op'[w].set = op[w].set
    BY <1>0, <1>2 DEF Op
  <1>4. /\ vectors' \in [Doc -> SUBSET Chunk]
        /\ \A e \in Doc : e # D(w) => vectors'[e] = vectors[e]
        /\ D(w) \in Doc => vectors'[D(w)] = vectors[D(w)] \cup (op[w].set \cap rows[D(w)])
    <2>1. op[w].set \in SUBSET Chunk
      BY <1>0 DEF Op
    <2>2. QED
      BY <1>0, <2>1 DEF TypeOK
  <1>5. TypeOK'
    BY <1>0, <1>2, <1>4 DEF TypeOK, Steps
  <1>6. Local(w)
    BY <1>0, <1>2, <1>4 DEF Local, Steps, Here
  <1>7. Proper(w)'
    BY <1>3 DEF Proper, Looking
  <1>8. Here(w) /\ alone[w] =>
          op[w].set = rows[D(w)] /\ rows[D(w)] # {} /\ rows[D(w)] \subseteq vectors'[D(w)]
    BY <1>0, <1>4 DEF Knows, Here
  <1>9. Knows(w)'
    BY <1>0, <1>3, <1>8 DEF Knows, D, Reader, Here
  <1>10. ASSUME NEW e \in Doc, e = D(w) PROVE Agrees(e)'
    <2>1. CASE doc[e].here /\ sound[e]
      <3>1. /\ OfOneCutting(e) /\ (doc[e].chunk = "chunked" => rows[e] # {})
            /\ alone[w] /\ Here(w)
        BY <1>0, <1>10, <2>1, Mine DEF Here, Consistent
      <3>2. OfOneCutting(e)'
        BY <1>0, <3>1 DEF OfOneCutting
      <3>3. rows[e] # {} /\ rows[e] \subseteq vectors'[e]
        BY <1>8, <1>10, <3>1
      <3>4. QED
        BY <1>0, <3>1, <3>2, <3>3 DEF Agrees
    <2>2. CASE ~(doc[e].here /\ sound[e])
      BY <1>0, <2>2 DEF Agrees
    <2>3. QED
      BY <2>1, <2>2
  <1>11. QED
    BY <1>5, <1>6, <1>7, <1>9, <1>10, LocalKeeps

-----------------------------------------------------------------------------
(* A request fails, the process stops *)

LEMMA FaultKeeps ==
  ASSUME DocInv, NEW w \in Thread, Fault(w)
  PROVE  DocInv'
  <1>0. /\ TypeOK
        /\ cuts' = cuts /\ doc' = doc /\ kb' = kb /\ rows' = rows /\ vectors' = vectors
        /\ runs' = runs /\ crashes' = crashes
        /\ op' = [op EXCEPT ![w] = NoOp] /\ alone' = [alone EXCEPT ![w] = TRUE]
        /\ sound' = [d \in Doc |-> sound[d] /\ ~(D(w) = d /\ HalfWay(w))]
    BY DEF DocInv, Fault
  <1>1. NoOp \in Op /\ NoOp.doc = NoDoc /\ NoOp.at = "idle"
    BY NoOpTyped DEF NoOp
  <1>2. Steps(w) /\ op'[w] = NoOp
    BY <1>0, <1>1, Turns
  <1>3. /\ sound' \in [Doc -> BOOLEAN]
        /\ \A d \in Doc : sound'[d] => sound[d] /\ ~(D(w) = d /\ HalfWay(w))
        /\ \A d \in Doc : d # D(w) => sound'[d] = sound[d]
    BY <1>0 DEF TypeOK
  <1>4. TypeOK'
    BY <1>0, <1>2, <1>3 DEF TypeOK, Steps
  <1>5. Local(w)
    BY <1>0, <1>2, <1>3 DEF Local, Steps, Here
  <1>6. Proper(w)' /\ Knows(w)'
    BY <1>1, <1>2 DEF Proper, Looking, Knows, Reader
  <1>7. ASSUME NEW e \in Doc, e = D(w) PROVE Agrees(e)'
    <2>1. CASE doc[e].here /\ sound'[e]
      <3>1. sound[e] /\ ~HalfWay(w)
        BY <1>3, <1>7, <2>1
      <3>2. Consistent(e)
        BY <1>7, <2>1, <3>1, Mine DEF Here, HalfWay
      <3>3. Consistent(e)'
        BY <1>0, <3>2 DEF Consistent, OfOneCutting
      <3>4. QED
        BY <3>3 DEF Consistent, Agrees
    <2>2. CASE ~(doc[e].here /\ sound'[e])
      BY <1>0, <2>2 DEF Agrees
    <2>3. QED
      BY <2>1, <2>2
  <1>8. QED
    BY <1>4, <1>5, <1>6, <1>7, LocalKeeps

LEMMA CrashKeeps ==
  ASSUME DocInv, Crash
  PROVE  DocInv'
  <1>0. /\ TypeOK
        /\ cuts' = cuts /\ doc' = doc /\ kb' = kb /\ rows' = rows /\ vectors' = vectors
        /\ runs' = runs /\ crashes' \in 0..MaxCrashes
        /\ op' = [w \in Thread |-> NoOp] /\ alone' = [w \in Thread |-> TRUE]
        /\ sound' = [d \in Doc |-> sound[d] /\ ~ \E w \in On(d) : HalfWay(w)]
    BY RagDocumentsAssumption DEF DocInv, Crash, TypeOK
  <1>1. NoOp \in Op /\ NoOp.doc = NoDoc /\ NoOp.at = "idle"
    BY NoOpTyped DEF NoOp
  <1>2. TypeOK'
    <2>1. sound' \in [Doc -> BOOLEAN]
      BY <1>0 DEF TypeOK
    <2>2. op' \in [Thread -> Op] /\ alone' \in [Thread -> BOOLEAN]
      BY <1>0, <1>1
    <2>3. QED
      BY <1>0, <2>1, <2>2 DEF TypeOK
  <1>3. \A w \in Thread : op'[w] = NoOp /\ alone'[w]
    BY <1>0
  <1>4. \A d \in Doc : On(d)' = {}
    BY <1>1, <1>3, RagDocumentsAssumption DEF On
  <1>5. Gone'
    BY <1>0, <1>4 DEF DocInv, Gone
  <1>6. Alone'
    BY <1>1, <1>3, RagDocumentsAssumption DEF Alone, D, On
  <1>7. \A w \in Thread : Proper(w)' /\ Knows(w)'
    BY <1>1, <1>3 DEF Proper, Looking, Knows, Reader
  <1>8. ASSUME NEW d \in Doc PROVE Agrees(d)'
    <2>1. CASE doc[d].here /\ sound'[d]
      <3>1. sound[d] /\ ~ \E w \in On(d) : HalfWay(w)
        BY <1>0, <2>1
      <3>2. Agrees(d)
        BY DEF DocInv
      <3>3. Consistent(d)
        BY <2>1, <3>1, <3>2 DEF Agrees, Consistent, HalfWay
      <3>4. Consistent(d)'
        BY <1>0, <3>3 DEF Consistent, OfOneCutting
      <3>5. QED
        BY <3>4 DEF Consistent, Agrees
    <2>2. CASE ~(doc[d].here /\ sound'[d])
      BY <1>0, <2>2 DEF Agrees
    <2>3. QED
      BY <2>1, <2>2
  <1>9. QED
    BY <1>2, <1>5, <1>6, <1>7, <1>8 DEF DocInv

-----------------------------------------------------------------------------
(* The knowledge base and its documents come and go *)

LEMMA CreateKeeps ==
  ASSUME DocInv, NEW d \in Doc, Create(d)
  PROVE  DocInv'
  <1> DEFINE made == [NoRow EXCEPT !.here = TRUE]
  <1>0. /\ TypeOK /\ kb /\ doc[d] = NoRow /\ ~doc[d].here
        /\ cuts' = cuts /\ kb' = kb /\ rows' = rows /\ vectors' = vectors /\ sound' = sound
        /\ runs' = runs /\ crashes' = crashes /\ op' = op /\ alone' = alone
        /\ rows[d] = {} /\ On(d) = {}
    BY DEF DocInv, Create, NoRow, Gone
  <1>1. doc' = [doc EXCEPT ![d] = made]
    BY <1>0 DEF Create
  <1>2. made \in Row /\ made.here /\ made.count = 0 /\ made.chunk = "pending" /\ made.index = "pending"
    BY NoOpTyped DEF Row, NoRow
  <1> HIDE DEF made
  <1>3. doc' \in [Doc -> Row] /\ doc'[d] = made /\ \A e \in Doc : e # d => doc'[e] = doc[e]
    BY <1>0, <1>1, <1>2 DEF TypeOK
  <1>4. TypeOK'
    BY <1>0, <1>3 DEF TypeOK
  <1>5. Gone'
    BY <1>0, <1>2, <1>3 DEF DocInv, Gone, On
  <1>6. Alone'
    BY <1>0 DEF DocInv, Alone, On, D
  <1>7. ASSUME NEW w \in Thread PROVE Proper(w)' /\ Knows(w)'
    <2>1. D(w) # d
      BY <1>0 DEF On, D
    <2>2. Proper(w) /\ Knows(w)
      BY DEF DocInv
    <2>3. D(w) \in Doc => doc'[D(w)] = doc[D(w)]
      BY <1>3, <2>1
    <2>4. QED
      BY <1>0, <2>2, <2>3 DEF Proper, Knows, Here, D
  <1>8. ASSUME NEW e \in Doc PROVE Agrees(e)'
    <2>1. CASE e = d
      <3>1. Consistent(e)'
        BY <1>0, <1>2, <1>3, <2>1 DEF Consistent, OfOneCutting
      <3>2. QED
        BY <3>1 DEF Consistent, Agrees
    <2>2. CASE e # d
      <3>1. doc'[e] = doc[e] /\ Agrees(e)
        BY <1>3, <2>2 DEF DocInv
      <3>2. OfOneCutting(e) => OfOneCutting(e)'
        BY <1>0, <3>1 DEF OfOneCutting
      <3>3. QED
        BY <1>0, <3>1, <3>2 DEF Agrees, On
    <2>3. QED
      BY <2>1, <2>2
  <1>9. QED
    BY <1>4, <1>5, <1>6, <1>7, <1>8 DEF DocInv

LEMMA DeleteKbKeeps ==
  ASSUME DocInv, DeleteKb
  PROVE  DocInv'
  <1>0. /\ TypeOK /\ ~kb' /\ kb' \in BOOLEAN
        /\ doc' = [d \in Doc |-> NoRow] /\ rows' = [d \in Doc |-> {}] /\ vectors' = rows'
        /\ cuts' = cuts /\ sound' = sound
        /\ runs' = runs /\ crashes' = crashes /\ op' = op /\ alone' = alone
    BY DEF DocInv, DeleteKb
  <1>1. NoRow \in Row /\ ~NoRow.here
    BY NoOpTyped DEF NoRow
  <1>2. TypeOK'
    <2>1. doc' \in [Doc -> Row] /\ rows' \in [Doc -> SUBSET Chunk]
      BY <1>0, <1>1
    <2>2. QED
      BY <1>0, <2>1 DEF TypeOK
  <1>3. Gone'
    BY <1>0, <1>1 DEF Gone
  <1>4. Alone'
    BY <1>0 DEF DocInv, Alone, On, D
  <1>5. ASSUME NEW w \in Thread PROVE Proper(w)' /\ Knows(w)'
    <2>1. Proper(w)
      BY DEF DocInv
    <2>2. ~Here(w)'
      BY <1>0, <1>1 DEF Here, D
    <2>3. QED
      BY <1>0, <2>1, <2>2 DEF Proper, Knows
  <1>6. ASSUME NEW d \in Doc PROVE Agrees(d)'
    BY <1>0, <1>1 DEF Agrees
  <1>7. QED
    BY <1>2, <1>3, <1>4, <1>5, <1>6 DEF DocInv
-----------------------------------------------------------------------------
(* A thread takes a document *)

\* The row of a document that is there, made by this step or before it.
LEMMA TakeKeeps ==
  ASSUME DocInv, NEW w \in Thread, op[w].at \in {"idle", "next", "make"},
         NEW d \in Doc, NEW at \in {"parse", "chunk", "index", "look"}, NEW kind \in Kind,
         NEW todo \in SUBSET Doc, Take(w, d, at, kind, todo),
         at = "look" => kind = "pipeline",
         at = "parse" => kind \in {"parse", "sync"},
         at = "chunk" => kind = "chunk",
         kb' = kb, rows' = rows, vectors' = vectors,
         runs' \in 0..MaxRuns, cuts' = cuts, crashes' = crashes,
         doc' \in [Doc -> Row], \A e \in Doc : e # d => doc'[e] = doc[e], doc'[d].here, kb,
         \/ doc[d].here /\ doc'[d] = doc[d]
         \/ ~doc[d].here /\ doc'[d].count = 0 /\ doc'[d].chunk = "pending" /\ doc'[d].index = "pending"
  PROVE  DocInv'
  <1> DEFINE new == [NoOp EXCEPT !.at = at, !.kind = kind, !.doc = d, !.todo = todo]
  <1>0. /\ TypeOK
        /\ op' = [op EXCEPT ![w] = new]
        /\ alone' = [v \in Thread |->
                       IF v = w THEN On(d) \ {w} = {} ELSE alone[v] /\ op[v].doc # d]
        /\ sound' = [sound EXCEPT ![d] = @ /\ On(d) \ {w} = {}]
    BY DEF DocInv, Take
  <1>1. at \in At
    BY DEF At
  <1>2. new \in Op /\ new.doc = d /\ new.at = at /\ new.kind = kind
    BY <1>1, NoOpTyped DEF Op, NoOp
  <1> HIDE DEF new
  <1>3. /\ op' \in [Thread -> Op] /\ op'[w] = new
        /\ \A v \in Thread : v # w => op'[v] = op[v]
    BY <1>0, <1>2 DEF TypeOK
  <1>4. /\ alone' \in [Thread -> BOOLEAN]
        /\ alone'[w] => On(d) \ {w} = {}
        /\ (On(d) \ {w} = {}) => alone'[w]
        /\ \A v \in Thread : v # w => alone'[v] = (alone[v] /\ op[v].doc # d)
    BY <1>0 DEF TypeOK
  <1>5. /\ sound' \in [Doc -> BOOLEAN]
        /\ sound'[d] => sound[d] /\ On(d) \ {w} = {}
        /\ \A e \in Doc : e # d => sound'[e] = sound[e]
    BY <1>0 DEF TypeOK
  <1>6. TypeOK'
    BY <1>0, <1>3, <1>4, <1>5 DEF TypeOK
  <1>7. Gone'
    <2>1. ASSUME NEW e \in Doc, ~doc'[e].here
          PROVE  doc'[e] = NoRow /\ rows'[e] = {} /\ On(e)' = {}
      <3>1. e # d /\ doc'[e] = doc[e]
        BY <2>1
      <3>2. doc[e] = NoRow /\ rows[e] = {} /\ On(e) = {}
        BY <2>1, <3>1 DEF DocInv, Gone
      <3>3. On(e)' \subseteq On(e)
        BY <1>2, <1>3, <3>1 DEF On
      <3>4. QED
        BY <3>1, <3>2, <3>3
    <2>2. QED
      BY <2>1 DEF Gone
  <1>8. Alone'
    <2>1. ASSUME NEW u \in Thread, alone'[u], NEW v \in Thread, op'[v].doc = op'[u].doc,
                 op'[u].doc \in Doc
          PROVE  v = u
      <3>1. CASE u = w
        <4>1. op'[v].doc = d /\ On(d) \ {w} = {}
          BY <1>2, <1>3, <1>4, <2>1, <3>1
        <4>2. QED
          BY <1>3, <3>1, <4>1 DEF On
      <3>2. CASE u # w
        <4>1. op'[u] = op[u] /\ alone[u] /\ op[u].doc # d
          BY <1>3, <1>4, <2>1, <3>2
        <4>2. v # w
          BY <1>2, <1>3, <2>1, <4>1
        <4>3. op[v].doc = op[u].doc /\ op[u].doc \in Doc
          BY <1>3, <2>1, <4>1, <4>2
        <4>4. QED
          BY <4>1, <4>3 DEF DocInv, Alone, D
      <3>3. QED
        BY <3>1, <3>2
    <2>2. ASSUME NEW e \in Doc, sound'[e], NEW v \in Thread, op'[v].doc = e
          PROVE  alone'[v]
      <3>1. CASE e = d
        <4>1. On(d) \ {w} = {}
          BY <1>5, <2>2, <3>1
        <4>2. v = w
          BY <1>3, <2>2, <3>1, <4>1 DEF On
        <4>3. QED
          BY <1>4, <4>1, <4>2
      <3>2. CASE e # d
        <4>1. v # w /\ op[v].doc = e /\ sound[e]
          BY <1>2, <1>3, <1>5, <2>2, <3>2
        <4>2. alone[v]
          BY <4>1 DEF DocInv, Alone, On
        <4>3. QED
          BY <1>4, <3>2, <4>1, <4>2
      <3>3. QED
        BY <3>1, <3>2
    <2>3. QED
      BY <2>1, <2>2 DEF Alone, On, D
  <1>9. ASSUME NEW v \in Thread PROVE Proper(v)' /\ Knows(v)'
    <2>1. CASE v = w
      BY <1>2, <1>3, <2>1 DEF Proper, Looking, Knows, Reader
    <2>2. CASE v # w
      <3>1. op'[v] = op[v] /\ alone'[v] = (alone[v] /\ op[v].doc # d)
        BY <1>3, <1>4, <2>2
      <3>2. Proper(v) /\ Knows(v)
        BY DEF DocInv
      <3>3. Proper(v)'
        BY <3>1, <3>2 DEF Proper
      <3>4. ASSUME op[v].doc \in Doc, alone'[v] PROVE Knows(v)'
        <4>1. alone[v] /\ op[v].doc # d
          BY <3>1, <3>4
        <4>2. doc'[op[v].doc] = doc[op[v].doc]
          BY <3>4, <4>1
        <4>3. QED
          BY <3>1, <3>2, <4>1, <4>2 DEF Knows, Here, D
      <3>5. CASE ~(op[v].doc \in Doc /\ alone'[v])
        <4>1. ~(Here(v)' /\ alone'[v])
          BY <3>1, <3>5 DEF Here, D
        <4>2. QED
          BY <3>3, <4>1 DEF Knows
      <3>6. QED
        BY <3>3, <3>4, <3>5
    <2>3. QED
      BY <2>1, <2>2
  <1>10. ASSUME NEW e \in Doc PROVE Agrees(e)'
    <2>1. CASE e = d /\ sound'[e]
      <3>1. sound[d] /\ On(d) \ {w} = {}
        BY <1>5, <2>1
      <3>2. CASE doc[d].here /\ doc'[d] = doc[d]
        <4>1. Agrees(d)
          BY DEF DocInv
        <4>2. Consistent(d)
          BY <3>1, <3>2, <4>1 DEF Agrees, Consistent
        <4>3. Consistent(e)'
          BY <2>1, <3>2, <4>2 DEF Consistent, OfOneCutting
        <4>4. QED
          BY <4>3 DEF Consistent, Agrees
      <3>3. CASE ~doc[d].here /\ doc'[d].count = 0 /\ doc'[d].chunk = "pending" /\ doc'[d].index = "pending"
        <4>1. rows[d] = {}
          BY <3>3 DEF DocInv, Gone
        <4>2. Consistent(e)'
          BY <2>1, <3>3, <4>1 DEF Consistent, OfOneCutting
        <4>3. QED
          BY <4>2 DEF Consistent, Agrees
      <3>4. QED
        BY <3>2, <3>3
    <2>2. CASE ~sound'[e]
      BY <2>2 DEF Agrees
    <2>3. CASE e # d
      <3>1. doc'[e] = doc[e] /\ sound'[e] = sound[e] /\ Agrees(e)
        BY <1>5, <2>3 DEF DocInv
      <3>2. OfOneCutting(e) => OfOneCutting(e)'
        BY <3>1 DEF OfOneCutting
      <3>3. ASSUME NEW v \in On(e), op[v].at \in {"insert", "put"}
            PROVE  v \in On(e)' /\ op'[v].at = op[v].at
        <4>1. v # w
          BY <3>3
        <4>2. op'[v] = op[v]
          BY <1>3, <4>1 DEF On
        <4>3. QED
          BY <4>2 DEF On
      <3>4. QED
        BY <3>1, <3>2, <3>3 DEF Agrees
    <2>4. QED
      BY <2>1, <2>2, <2>3
  <1>11. QED
    BY <1>6, <1>7, <1>8, <1>9, <1>10 DEF DocInv

LEMMA StageKeeps ==
  ASSUME DocInv, NEW w \in Thread, NEW d \in Doc, NEW kind \in {"parse", "chunk", "index"},
         Stage(w, d, kind)
  PROVE  DocInv'
  <1>1. /\ op[w] = NoOp /\ doc[d].here /\ Take(w, d, kind, kind, {})
        /\ kb' = kb /\ doc' = doc /\ rows' = rows /\ vectors' = vectors
        /\ cuts' = cuts /\ crashes' = crashes
    BY DEF Stage, Begin
  <1>2. op[w].at \in {"idle", "next", "make"} /\ kind \in Kind
    BY <1>1 DEF NoOp, Kind
  <1>3. runs' \in 0..MaxRuns
    BY RagDocumentsAssumption DEF Stage, Begin, DocInv, TypeOK
  <1>4. kb /\ doc' \in [Doc -> Row] /\ doc'[d].here
    BY <1>1 DEF DocInv, TypeOK, Gone
  <1>5. kind \in {"parse", "chunk", "index", "look"} /\ {} \in SUBSET Doc /\ kind # "look"
    OBVIOUS
  <1>6. /\ kind = "parse" => kind \in {"parse", "sync"}
        /\ \A e \in Doc : e # d => doc'[e] = doc[e]
        /\ doc'[d] = doc[d]
    BY <1>1
  <1>7. QED
    BY <1>1, <1>2, <1>3, <1>4, <1>5, <1>6, TakeKeeps

LEMMA PipelineNextKeeps ==
  ASSUME DocInv, NEW w \in Thread, PipelineNext(w)
  PROVE  DocInv'
  <1>1. PICK d \in op[w].todo : doc[d].here /\ Take(w, d, "look", "pipeline", op[w].todo \ {d})
    BY DEF PipelineNext
  <1>2. /\ op[w].at \in {"idle", "next", "make"}
        /\ kb' = kb /\ doc' = doc /\ rows' = rows /\ vectors' = vectors
        /\ runs' \in 0..MaxRuns /\ cuts' = cuts /\ crashes' = crashes
    BY DEF PipelineNext, DocInv, TypeOK
  <1>3. d \in Doc /\ op[w].todo \ {d} \in SUBSET Doc
    BY DEF DocInv, TypeOK, Op
  <1>4. kb /\ doc' \in [Doc -> Row] /\ doc'[d].here
    BY <1>1, <1>2, <1>3 DEF DocInv, TypeOK, Gone
  <1>5. /\ "look" \in {"parse", "chunk", "index", "look"} /\ "pipeline" \in Kind
        /\ "look" # "parse" /\ "look" # "chunk"
    BY DEF Kind
  <1>6. (\A e \in Doc : e # d => doc'[e] = doc[e]) /\ doc'[d] = doc[d]
    BY <1>2
  <1>7. QED
    BY <1>1, <1>2, <1>3, <1>4, <1>5, <1>6, TakeKeeps

LEMMA SyncMakeKeeps ==
  ASSUME DocInv, NEW w \in Thread, SyncMake(w)
  PROVE  DocInv'
  <1>1. PICK d \in Doc : /\ doc[d] = NoRow
                         /\ doc' = [doc EXCEPT ![d].here = TRUE, ![d].item = TRUE]
                         /\ Take(w, d, "parse", "sync", {})
    BY DEF SyncMake
  <1>2. /\ op[w].at \in {"idle", "next", "make"} /\ kb
        /\ kb' = kb /\ rows' = rows /\ vectors' = vectors
        /\ runs' \in 0..MaxRuns /\ cuts' = cuts /\ crashes' = crashes
    BY DEF SyncMake, DocInv, TypeOK
  <1> DEFINE made == [NoRow EXCEPT !.here = TRUE, !.item = TRUE]
  <1>3. doc' = [doc EXCEPT ![d] = made]
    BY <1>1
  <1>4. made \in Row /\ made.here /\ made.count = 0 /\ made.chunk = "pending" /\ made.index = "pending"
    BY NoOpTyped DEF Row, NoRow
  <1> HIDE DEF made
  <1>5. doc' \in [Doc -> Row] /\ doc'[d] = made /\ \A e \in Doc : e # d => doc'[e] = doc[e]
    BY <1>3, <1>4 DEF DocInv, TypeOK
  <1>6. ~doc[d].here
    BY <1>1 DEF NoRow
  <1>7. /\ "parse" \in {"parse", "chunk", "index", "look"} /\ "sync" \in Kind
        /\ "look" # "parse" /\ "parse" # "chunk" /\ {} \in SUBSET Doc
        /\ "sync" \in {"parse", "sync"}
    BY DEF Kind
  <1>8. QED
    BY <1>1, <1>2, <1>4, <1>5, <1>6, <1>7, TakeKeeps

-----------------------------------------------------------------------------
LEMMA DocumentsBegin == Init => DocInv
  <1> SUFFICES ASSUME Init PROVE DocInv
    OBVIOUS
  <1>1. NoOp \in Op /\ NoOp.doc = NoDoc /\ NoOp.at = "idle" /\ NoRow \in Row /\ ~NoRow.here
    BY NoOpTyped DEF NoOp, NoRow
  <1>2. TypeOK
    BY <1>1, RagDocumentsAssumption DEF Init, TypeOK
  <1>3. \A w \in Thread : op[w] = NoOp /\ alone[w]
    BY DEF Init
  <1>4. \A d \in Doc : doc[d] = NoRow /\ rows[d] = {} /\ On(d) = {}
    BY <1>1, <1>3, RagDocumentsAssumption DEF Init, On
  <1>5. Gone
    BY <1>4 DEF Init, Gone
  <1>6. Alone
    BY <1>1, <1>3, RagDocumentsAssumption DEF Alone, D, On
  <1>7. ASSUME NEW w \in Thread PROVE Proper(w) /\ Knows(w)
    BY <1>1, <1>3 DEF Proper, Looking, Knows, Reader
  <1>8. ASSUME NEW d \in Doc PROVE Agrees(d)
    BY <1>1, <1>4 DEF Agrees
  <1>9. QED
    BY <1>2, <1>5, <1>6, <1>7, <1>8 DEF DocInv

LEMMA DocumentsStep == DocInv /\ [Next]_vars => DocInv'
  <1> SUFFICES ASSUME DocInv, [Next]_vars PROVE DocInv'
    OBVIOUS
  <1>1. ASSUME NEW w \in Thread, Run(w) PROVE DocInv'
    <2>1. CASE Pipeline(w) \/ Sync(w)
      BY <2>1, CallsKeep
    <2>2. CASE PipelineNext(w)
      BY <2>2, PipelineNextKeeps
    <2>3. CASE SyncMake(w)
      BY <2>3, SyncMakeKeeps
    <2>4. CASE Look(w)
      BY <2>4, LookKeeps
    <2>5. ASSUME NEW d \in Doc, NEW kind \in {"parse", "chunk", "index"}, Stage(w, d, kind)
          PROVE  DocInv'
      BY <2>5, StageKeeps
    <2>6. CASE Parse(w) \/ Index(w)
      BY <2>6, ParseKeeps
    <2>7. CASE ParseMark(w)
      BY <2>7, ParseMarkKeeps
    <2>8. CASE Cut(w)
      BY <2>8, CutKeeps
    <2>9. CASE CutNothing(w)
      BY <2>9, CutNothingKeeps
    <2>10. CASE DeleteRows(w)
      BY <2>10, DeleteRowsKeeps
    <2>11. CASE InsertRow(w)
      BY <2>11, InsertRowKeeps
    <2>12. CASE CutMark(w)
      BY <2>12, CutMarkKeeps
    <2>13. CASE List(w)
      BY <2>13, ListKeeps
    <2>14. CASE ListNothing(w)
      BY <2>14, ListNothingKeeps
    <2>15. CASE DeleteVectors(w)
      BY <2>15, DeleteVectorsKeeps
    <2>16. CASE InsertVectors(w)
      BY <2>16, InsertVectorsKeeps
    <2>17. CASE IndexFails(w)
      BY <2>17, IndexFailsKeeps
    <2>18. CASE IndexMark(w)
      BY <2>18, IndexMarkKeeps
    <2>19. CASE Fault(w)
      BY <2>19, FaultKeeps
    <2>20. QED
      BY <1>1, <2>1, <2>2, <2>3, <2>4, <2>5, <2>6, <2>7, <2>8, <2>9, <2>10, <2>11, <2>12, <2>13,
         <2>14, <2>15, <2>16, <2>17, <2>18, <2>19 DEF Run
  <1>2. ASSUME NEW d \in Doc, Create(d) PROVE DocInv'
    BY <1>2, CreateKeeps
  <1>3. CASE DeleteKb
    BY <1>3, DeleteKbKeeps
  <1>4. CASE Crash
    BY <1>4, CrashKeeps
  <1>5. CASE UNCHANGED vars
    <2>1. /\ kb' = kb /\ doc' = doc /\ rows' = rows /\ vectors' = vectors /\ runs' = runs
          /\ cuts' = cuts /\ op' = op /\ crashes' = crashes /\ alone' = alone /\ sound' = sound
      BY <1>5 DEF vars
    <2>2. TypeOK' /\ Gone' /\ Alone'
      BY <2>1 DEF DocInv, TypeOK, Gone, Alone, On, D
    <2>3. ASSUME NEW w \in Thread PROVE Proper(w)' /\ Knows(w)'
      BY <2>1 DEF DocInv, Proper, Knows, Here, D
    <2>4. ASSUME NEW d \in Doc PROVE Agrees(d)'
      BY <2>1 DEF DocInv, Agrees, OfOneCutting, On
    <2>5. QED
      BY <2>2, <2>3, <2>4 DEF DocInv
  <1>6. QED
    BY <1>1, <1>2, <1>3, <1>4, <1>5 DEF Next

\* Every reachable state is well typed.
THEOREM DocumentsTyped == Spec => []TypeOK
  <1>1. DocInv => TypeOK
    BY DEF DocInv
  <1>2. QED
    BY <1>1, DocumentsBegin, DocumentsStep, PTL DEF Spec

\* The statuses of a document that nobody works on can be trusted: it has the chunks of
\* one cutting and a vector for each, unless a run died half-way or two overlapped since
\* it was last cut by one alone.
THEOREM QuietWhole == Spec => []QuietIsWhole
  <1>1. ASSUME DocInv PROVE QuietIsWhole
    <2>1. ASSUME NEW d \in Doc, doc[d].here, On(d) = {}, sound[d] PROVE Whole(d)
      <3>1. Consistent(d)
        <4>1. Agrees(d)
          BY <1>1 DEF DocInv
        <4>2. QED
          BY <2>1, <4>1 DEF Agrees, Consistent
      <3>2. CASE doc[d].chunk = "chunked"
        <4>1. PICK g \in 1..MaxCuts : rows[d] = Pieces(g, doc[d].count)
          BY <3>1, <3>2 DEF Consistent, OfOneCutting
        <4>2. rows[d] = {<<g, i>> : i \in 1..doc[d].count}
          BY <4>1 DEF Pieces
        <4>3. QED
          BY <3>1, <4>2 DEF Whole, Consistent
      <3>3. CASE doc[d].chunk # "chunked"
        BY <3>1, <3>3 DEF Whole, Consistent
      <3>4. QED
        BY <3>2, <3>3
    <2>2. QED
      BY <2>1 DEF QuietIsWhole
  <1>2. QED
    BY <1>1, DocumentsBegin, DocumentsStep, PTL DEF Spec
=============================================================================
