------------------------------- MODULE Retrieval -------------------------------
(* What an ask finds: the request keeps the uploads that are indexed, the tools *)
(* of one registry share an engine, rag_pro_search copies missing items into    *)
(* the default knowledge base and fuses a dense and a sparse search of it (the  *)
(* older tools search the corpora of the engine instead), session_file_search   *)
(* adds the chosen uploads, and all of it goes into the prompt.  The library    *)
(* may change at any moment in between.                                         *)
EXTENDS RetrievalCaches, RankFusion

CONSTANTS Asks,        \* bound: what is asked for: tool, scope, picked items, files
                       \* and q, how well items suit the question (0: not at all)
          TopK, MaxFiles, CorpusLimit,
          MaxAsks      \* bound: requests begun

ASSUME RetrievalAssumption ==
  /\ \A a \in Asks :
       a \in [tool : {"ask", "bm25_only", "vector_only", "bm25_vector_hybrid"},
              scope : {"public", "private_sample", "mixed"},
              picked : SUBSET Items, files : SUBSET Items,
              q : [sparse : [Items -> Nat], dense : [Items -> Nat]]]
  /\ TopK \in Nat /\ MaxFiles \in Nat /\ CorpusLimit \in Nat /\ MaxAsks \in Nat

VARIABLES langchain,   \* the setting that chooses the tools of an ask
          ask,         \* per thread: the request it answers
          rag,         \* documents of the default knowledge base, one chunk each
          wanted,      \* per thread: items its sync has still to look at
          corpora,     \* the cache of sparse corpora, oldest first
          found,       \* per thread: two lists of hits and what was made of them
          shown,       \* per thread: what the prompt will show
          asks,        \* requests begun so far
          touched      \* history, per thread: items changed since its request

askVars == <<langchain, ask, rag, wanted, corpora, found, shown, asks, touched>>
vars == <<cacheVars, askVars>>

NoAsk   == [tool |-> "none"]
NotYet  == [a |-> <<>>, b |-> <<>>, hits |-> <<>>]

Init ==
  /\ CachesInit
  /\ langchain \in BOOLEAN
  /\ ask = [t \in Threads |-> NoAsk] /\ rag = {} /\ wanted = [t \in Threads |-> {}]
  /\ corpora = <<>> /\ found = [t \in Threads |-> NotYet] /\ shown = [t \in Threads |-> {}]
  /\ asks = 0 /\ touched = [t \in Threads |-> {}]

Goes(t, at) == pc' = [pc EXCEPT ![t] = at]

(* Files that are not indexed now are left out of the request.  The engine is   *)
(* fetched afterwards, when the tools are made.                                 *)
BuildChatRequest(t) ==
  /\ pc[t] = "idle" /\ asks < MaxAsks
  /\ \E a \in Asks :
       ask' = [ask EXCEPT ![t] = [a EXCEPT !.files = {f \in @ : item[f].ready}]]
  /\ Goes(t, "tools") /\ todo' = [todo EXCEPT ![t] = <<Get("engine", "engine")>>]
  /\ asks' = asks + 1 /\ touched' = [touched EXCEPT ![t] = {}]
  /\ UNCHANGED <<item, cache, held, about, changes, spoiled, unsaid>>
  /\ UNCHANGED <<langchain, rag, wanted, corpora, found, shown>>

(* The tools of an ask: one that retrieves, and one for the files chosen.       *)
HasFileSearch(a) == a.tool = "ask" /\ a.files # {}

(* Hits are found and reranked: the reranker may put them in any order or fail, *)
(* which leaves them; the first TopK go on, whichever these are.                *)
Evidence(as, chunks) == {[as |-> as, item |-> c.item, text |-> c.text] : c \in chunks}
Rerank(t, f) ==
  /\ found' = [found EXCEPT ![t] = f]
  /\ \E chosen \in kSubset(Len(First(f.hits, TopK)), ToSet(f.hits)) :
       shown' = [shown EXCEPT ![t] = Evidence("hit", chosen)]
  /\ Goes(t, IF HasFileSearch(ask[t]) THEN "files" ELSE "prompt")

Ready(t, tool) == pc[t] = "tools" /\ todo[t] = <<>> /\ ask[t].tool = tool

(* ---- rag_pro_search: sync, search, fuse ---- *)
Allowed(a) == IF a.picked # {} THEN a.picked ELSE a.files

SyncVisibleKnowledge(t) ==
  /\ Ready(t, "ask") /\ langchain
  /\ LET a == ask[t]
     IN  wanted' = [wanted EXCEPT ![t] =
           {i \in Items : /\ item[i].on
                          /\ Allowed(a) # {} => i \in Allowed(a)
                          /\ a.scope = "public" => i \in Policies}]
  /\ Goes(t, "sync")
  /\ UNCHANGED <<item, cache, todo, held, about, changes, spoiled, unsaid>>
  /\ UNCHANGED <<langchain, ask, rag, corpora, found, shown, asks, touched>>

(* In the order of the list; an item that has a document is passed over,        *)
(* whatever the document holds.                                                 *)
Missing(t) == {i \in wanted[t] : \A d \in rag : d.item # i}
SyncItem(t) ==
  /\ pc[t] = "sync" /\ Missing(t) # {}
  /\ LET i == SetToSeq(Missing(t))[1]
     IN  /\ wanted' = [wanted EXCEPT ![t] = @ \ {i}]
         /\ Goes(t, "create") /\ about' = [about EXCEPT ![t] = i]
  /\ UNCHANGED <<item, cache, todo, held, changes, spoiled, unsaid>>
  /\ UNCHANGED <<langchain, ask, rag, corpora, found, shown, asks, touched>>

(* The document is created, parsed, cut and indexed; an item that is not ready  *)
(* gets one without chunks.  Another sync may have created one meanwhile.       *)
CreateDocument(t) ==
  /\ pc[t] = "create"
  /\ rag' = rag \cup {[item |-> about[t], text |-> Current(about[t]), at |-> Cardinality(rag) + 1]}
  /\ Goes(t, "sync") /\ about' = [about EXCEPT ![t] = Nobody]
  /\ UNCHANGED <<item, cache, todo, held, changes, spoiled, unsaid>>
  /\ UNCHANGED <<langchain, ask, wanted, corpora, found, shown, asks, touched>>

(* Newest chunk first.                                                          *)
ListSearchableChunks(a) ==
  LET Seen(i) == CASE a.scope = "public" -> i \in Policies
                   [] Allowed(a) = {} -> TRUE
                   [] a.scope = "private_sample" -> i \in Allowed(a)
                   [] OTHER -> i \in Policies \cup Allowed(a)
      seen == {d \in rag : d.text # 0 /\ Seen(d.item)}
  IN  BestFirst(SetToSeq(seen), [d \in seen |-> <<d.at, 1>>])

ByItem(s, score) == [x \in ToSet(s) |-> <<score[x.item], 1>>]
Ranked(s, score, n) ==
  LET matching == Only(s, {x \in ToSet(s) : score[x.item] > 0})
  IN  First(BestFirst(matching, ByItem(matching, score)), n)

CorpusKey(chunks) == IF chunks = <<>> THEN <<0, 0>> ELSE <<Len(chunks), chunks[1].at>>
CachedCorpus(key) == {e \in ToSet(corpora) : e.key = key}
CorpusForChunks(chunks) ==
  LET cached == CachedCorpus(CorpusKey(chunks))
  IN  IF cached # {} THEN (CHOOSE e \in cached : TRUE).chunks ELSE chunks
RememberCorpus(chunks) ==
  LET grown == Append(corpora, [key |-> CorpusKey(chunks), chunks |-> chunks])
  IN  corpora' = IF CachedCorpus(CorpusKey(chunks)) # {} THEN corpora
                 ELSE IF Len(grown) > CorpusLimit THEN Tail(grown) ELSE grown

(* The dense search may be unavailable: it then finds nothing.                  *)
Search(t) ==
  /\ pc[t] = "sync" /\ Missing(t) = {}
  /\ wanted' = [wanted EXCEPT ![t] = {}]
  /\ LET q == ask[t].q
         chunks == ListSearchableChunks(ask[t])
         sparse == Ranked(CorpusForChunks(chunks), q.sparse, 4 * TopK)
     IN  /\ \E dense \in {<<>>, Ranked(chunks, q.dense, 4 * TopK)} :
              Rerank(t, [a |-> sparse, b |-> dense, hits |-> MergeWithRrf(sparse, dense)])
         /\ RememberCorpus(chunks)
  /\ UNCHANGED <<item, cache, todo, held, about, changes, spoiled, unsaid>>
  /\ UNCHANGED <<langchain, ask, rag, asks, touched>>

(* ---- the engine: keyword search of its corpora ---- *)
Chunks(leaf, allowed) ==
  LET here == {i \in DOMAIN leaf.text : leaf.text[i] # 0 /\ i \in allowed}
      s == SetToSeq(here)
  IN  [n \in DOMAIN s |-> [item |-> s[n], text |-> leaf.text[s[n]]]]
PublicSearch(leaf, q, k) == Ranked(Chunks(leaf, Policies), q.sparse, k)
PrivateSearch(leaf, allowed, q, k) == Ranked(Chunks(leaf, allowed), q.sparse, k)
\* Mutant of MixedSearch: a place that one side leaves empty stays empty.
MixedSearchUnfilled(pub, priv, q, k) ==
  BestFirst(First(pub, PublicQuota(k)) \o First(priv, PrivateQuota(k)),
            ByItem(pub \o priv, q.sparse))
MixedSearch(pub, priv, q, k) ==
  Balanced(pub, priv, k, ByItem(pub \o priv, q.sparse))

SearchCorpora(engine, a) ==
  LET Pub(slot) == PublicSearch(engine[slot], a.q, TopK)
      Priv(slot) == PrivateSearch(engine[slot], a.picked, a.q, TopK)
  IN  CASE a.scope = "public" -> [a |-> Pub("public"), b |-> <<>>, hits |-> Pub("public")]
        [] a.scope = "private_sample" -> [a |-> <<>>, b |-> Priv("private"), hits |-> Priv("private")]
        [] OTHER -> [a |-> Pub("mpub"), b |-> Priv("mpriv"),
                     hits |-> MixedSearch(Pub("mpub"), Priv("mpriv"), a.q, TopK)]

(* The older tools of an ask.                                                   *)
RetrieveFromCorpora(t) ==
  /\ Ready(t, "ask") /\ ~langchain
  /\ Rerank(t, SearchCorpora(held[t], ask[t]))
  /\ UNCHANGED <<item, cache, todo, held, about, changes, spoiled, unsaid>>
  /\ UNCHANGED <<langchain, ask, rag, wanted, corpora, asks, touched>>

(* POST /rag/retrieve with a strategy.  Without pgvector both retrievers search *)
(* the same corpora; a failing vector search counts as one without hits, and    *)
(* "vector_only" then falls back to the keyword search.                         *)
RetrieveWithStrategy(t) ==
  /\ \E strategy \in {"bm25_only", "vector_only", "bm25_vector_hybrid"} :
       /\ Ready(t, strategy)
       /\ LET bm25 == SearchCorpora(held[t], ask[t]).hits
              score == [x \in ToSet(bm25) |-> ask[t].q.sparse[x.item]]
          IN  \E vector \in {<<>>, bm25} :
                Rerank(t, [a |-> bm25, b |-> vector,
                           hits |-> CASE strategy = "bm25_only" -> bm25
                                      [] strategy = "vector_only" /\ vector # <<>> -> vector
                                      [] strategy = "vector_only" -> bm25
                                      [] OTHER -> MergeChunks(bm25, vector, score, score, TopK)])
  /\ UNCHANGED <<item, cache, todo, held, about, changes, spoiled, unsaid>>
  /\ UNCHANGED <<langchain, ask, rag, wanted, corpora, asks, touched>>

(* ---- session_file_search ---- *)
ListChunks(files) == {[item |-> f, text |-> Current(f)] : f \in {g \in files : Current(g) # 0}}
\* Mutant of UploadHits: what the search finds is all there is.
UploadHitsFoundOnly(engine, a) == PrivateSearch(engine.private, a.files, a.q, 12)
UploadHits(engine, a) ==
  LET hits == PrivateSearch(engine.private, a.files, a.q, 12)
  IN  IF hits # <<>> THEN hits ELSE SetToSeq(ListChunks(a.files))

SessionFileSearch(t) ==
  /\ pc[t] = "files"
  /\ shown' = [shown EXCEPT ![t] = @ \cup Evidence("upload", ToSet(UploadHits(held[t], ask[t])))]
  /\ found' = [found EXCEPT ![t] = NotYet]
  /\ Goes(t, "overview")
  /\ UNCHANGED <<item, cache, todo, held, about, changes, spoiled, unsaid>>
  /\ UNCHANGED <<langchain, ask, rag, wanted, corpora, asks, touched>>

(* The overviews read the library itself, after the search.                     *)
Overviews(a) == ToSet(First(SetToSeq(ListChunks(a.files)), MaxFiles))
BuildFileOverviews(t) ==
  /\ pc[t] = "overview"
  /\ shown' = [shown EXCEPT ![t] = @ \cup Evidence("overview", Overviews(ask[t]))]
  /\ Goes(t, "prompt")
  /\ UNCHANGED <<item, cache, todo, held, about, changes, spoiled, unsaid>>
  /\ UNCHANGED <<langchain, ask, rag, wanted, corpora, found, asks, touched>>

(* The prompt shows all evidence, the provider is asked, the request is over.   *)
Answer(t) ==
  /\ pc[t] = "prompt" /\ Goes(t, "idle")
  /\ ask' = [ask EXCEPT ![t] = NoAsk] /\ held' = [held EXCEPT ![t] = Nothing]
  /\ found' = [found EXCEPT ![t] = NotYet]
  /\ shown' = [shown EXCEPT ![t] = {}] /\ touched' = [touched EXCEPT ![t] = {}]
  /\ UNCHANGED <<item, cache, todo, about, changes, spoiled, unsaid>>
  /\ UNCHANGED <<langchain, rag, wanted, corpora, asks>>

Touch ==
  touched' = [t \in Threads |-> IF ask[t] = NoAsk THEN {}
                                ELSE touched[t] \cup {i \in Items : item'[i] # item[i]}]
Next ==
  \E t \in Threads :
    \/ CachesStep(t) /\ UNCHANGED askVars
    \/ /\ Change(t) /\ Touch
       /\ UNCHANGED <<langchain, ask, rag, wanted, corpora, found, shown, asks>>
    \/ BuildChatRequest(t)
    \/ SyncVisibleKnowledge(t)
    \/ SyncItem(t)
    \/ CreateDocument(t)
    \/ Search(t)
    \/ RetrieveFromCorpora(t)
    \/ RetrieveWithStrategy(t)
    \/ SessionFileSearch(t)
    \/ BuildFileOverviews(t)
    \/ Answer(t)
Spec == Init /\ [][Next]_vars

(* ---- properties ---- *)

(* A file the user chose and that was indexed when the request was built, and   *)
(* that nobody touched since, is in the prompt with its text as it is, and some *)
(* chosen file is a hit: however stale the engine of the request is.            *)
UploadsAreShown ==
  \A t \in Threads : pc[t] = "prompt" /\ ask[t].tool = "ask" =>
    LET kept == {f \in ask[t].files \ touched[t] : item[f].on}
        seen == {e \in shown[t] : e.as = "overview"}
    IN  /\ Cardinality(seen) = MaxFiles \/ \A f \in kept :
             [as |-> "overview", item |-> f, text |-> item[f].text] \in seen
        /\ kept # {} => \E e \in shown[t] : e.as = "upload" /\ e.item \in ask[t].files

(* Fusion is fair: a chunk that is nowhere lower than another, and higher in    *)
(* one of the two lists, comes first.                                           *)
Depth(s, x) == IF x \in ToSet(s) THEN RankIn(s, x) ELSE Len(s) + 1
FusionIsFair ==
  \A t \in Threads : ask[t].tool = "ask" /\ langchain =>
    LET f == found[t]
    IN  \A x, y \in ToSet(f.hits) :
          (/\ Depth(f.a, x) <= Depth(f.a, y) /\ Depth(f.b, x) <= Depth(f.b, y)
           /\ <<Depth(f.a, x), Depth(f.b, x)>> # <<Depth(f.a, y), Depth(f.b, y)>>)
          => RankIn(f.hits, x) < RankIn(f.hits, y)

(* A mixed search gives each side its places as far as it can fill them, and    *)
(* leaves no place empty while either side has more.                            *)
Least(a, b) == IF a < b THEN a ELSE b
OfSide(s, side) == Cardinality({i \in DOMAIN s : s[i].item \in side})
MixedSharesPlaces ==
  \A t \in Threads : ask[t].tool = "ask" /\ ask[t].scope = "mixed" /\ ~langchain =>
    LET f == found[t]
    IN  /\ Len(f.hits) = Least(TopK, Len(f.a) + Len(f.b))
        /\ OfSide(f.hits, Policies) >= Least(Len(f.a), PublicQuota(TopK))
        /\ OfSide(f.hits, Uploads) >= Least(Len(f.b), PrivateQuota(TopK))

(* What an ask finds in a knowledge base is a policy or one of its own items.   *)
HitsAreSelected ==
  \A t \in Threads : ask[t].tool = "ask" /\ langchain /\ Allowed(ask[t]) # {} =>
    \A x \in ToSet(found[t].hits) : x.item \in Policies \cup Allowed(ask[t])
================================================================================
