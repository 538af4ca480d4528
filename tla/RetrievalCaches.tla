---------------------------- MODULE RetrievalCaches ----------------------------
(* The corpora the keyword retrievers keep in memory, one lru_cache of one      *)
(* entry each: public (policies), private (uploads), mixed (holding a public    *)
(* and a private one) and the engine (holding all three).  They are built from  *)
(* the library when first asked for; tasks and edits of the library clear them. *)
(* A build that ends when another thread has stored its own keeps to itself.    *)
EXTENDS Naturals, Sequences, FiniteSets, SequencesExt

CONSTANTS Threads, Uploads, Policies
CONSTANTS MaxTexts, MaxChanges   \* bounds: versions of a text, tasks and edits
CONSTANT Changing                \* bound: the items these are about

Items == Uploads \cup Policies

ASSUME RetrievalCachesAssumption ==
  /\ IsFiniteSet(Items) /\ Uploads \cap Policies = {}
  /\ MaxTexts \in Nat \ {0} /\ MaxChanges \in Nat
  /\ Changing \subseteq Items

VARIABLES item,     \* per item: on (enabled), ready (indexed), text (of its chunks)
          cache,    \* per retriever: None or its corpora
          todo,     \* per thread: the clears or builds still to do
          held,     \* per thread: the corpora it has got so far
          pc,       \* per thread: what it is doing
          about,    \* per thread: the item of its task or edit
          changes,  \* tasks and edits begun so far
          spoiled,  \* history, per thread: caches cleared while it was building them
          unsaid    \* history: items that changed without the caches being told

cacheVars == <<item, cache, todo, held, pc, about, changes, spoiled, unsaid>>

None == [x \in {} |-> x]
Nobody == "nobody"
Caches == {"public", "private", "mixed", "engine"}
LeafCaches == {"public", "private"}

\* The corpora that a retriever searches.
Slots == [public |-> {"public"}, private |-> {"private"},
          mixed |-> {"mpub", "mpriv"}, engine |-> {"public", "private", "mpub", "mpriv"}]
Slot  == Slots.engine
Unread  == [text |-> None, late |-> FALSE]
Nothing == [s \in Slot |-> Unread]

Get(c, as) == [do |-> "get", c |-> c, as |-> as]
Keep(c, as) == [do |-> "keep", c |-> c, as |-> as]
Clear(c) == [do |-> "clear", c |-> c, as |-> c]
Clears(cs) == [n \in DOMAIN cs |-> Clear(cs[n])]
Next1(t) == todo[t][1]

CachesInit ==
  /\ item = [i \in Items |-> [on |-> TRUE, ready |-> TRUE, text |-> 1]]
  /\ cache = [c \in Caches |-> None]
  /\ todo = [t \in Threads |-> <<>>] /\ held = [t \in Threads |-> Nothing]
  /\ pc = [t \in Threads |-> "idle"] /\ about = [t \in Threads |-> Nobody]
  /\ changes = 0
  /\ spoiled = [t \in Threads |-> {}] /\ unsaid = {}

(* What a corpus built now holds of an item: 0 when it is off or not indexed.   *)
Current(i) == IF item[i].on /\ item[i].ready THEN item[i].text ELSE 0
Covers(c) == IF c = "public" THEN Policies ELSE Uploads
RefreshCorpus(c) == [text |-> [i \in Covers(c) |-> Current(i)], late |-> FALSE]


(* ---- asking for a retriever ---- *)
Parts(c) ==
  CASE c = "mixed" -> <<Get("public", "mpub"), Get("private", "mpriv")>>
    [] c = "engine" -> <<Get("public", "public"), Get("private", "private"), Get("mixed", "mixed")>>
    [] OTHER -> <<>>

\* A thread that takes a retriever takes all its corpora, a single one in the place it
\* is wanted for.
Fills(c, as) == IF c \in LeafCaches THEN {as} ELSE Slots[c]
Taken(t, got, c, as) ==
  [s \in Slot |-> IF s \notin Fills(c, as) THEN held[t][s]
                  ELSE IF c \in LeafCaches THEN got[c] ELSE got[s]]

GetCached(t) ==
  /\ todo[t] # <<>> /\ Next1(t).do = "get" /\ cache[Next1(t).c] # None
  /\ held' = [held EXCEPT ![t] = Taken(t, cache[Next1(t).c], Next1(t).c, Next1(t).as)]
  /\ todo' = [todo EXCEPT ![t] = Tail(@)]
  /\ UNCHANGED <<item, cache, pc, about, changes, spoiled, unsaid>>

(* A build reads the library (a corpus) or asks for its parts (mixed, engine).  *)
StartBuild(t) ==
  /\ todo[t] # <<>> /\ Next1(t).do = "get" /\ cache[Next1(t).c] = None
  /\ LET c == Next1(t).c
         as == Next1(t).as
     IN  /\ todo' = [todo EXCEPT ![t] = Parts(c) \o <<Keep(c, as)>> \o Tail(@)]
         /\ spoiled' = [spoiled EXCEPT ![t] = @ \ {c}]
         /\ IF c \in LeafCaches
            THEN held' = [held EXCEPT ![t][as] = RefreshCorpus(c)]
            ELSE UNCHANGED held
  /\ UNCHANGED <<item, cache, pc, about, changes, unsaid>>

Marked(leaf, late) == [leaf EXCEPT !.late = @ \/ late]
KeepBuilt(t) ==
  /\ todo[t] # <<>> /\ Next1(t).do = "keep"
  /\ LET c == Next1(t).c
         late == c \in spoiled[t]
         built == [s \in Slots[c] |->
                     Marked(held[t][IF c \in LeafCaches THEN Next1(t).as ELSE s], late)]
     IN  /\ held' = [held EXCEPT ![t] = Taken(t, built, c, Next1(t).as)]
         /\ cache' = [cache EXCEPT ![c] = IF @ = None THEN built ELSE @]
         /\ spoiled' = [spoiled EXCEPT ![t] = @ \ {c}]
  /\ todo' = [todo EXCEPT ![t] = Tail(@)]
  /\ UNCHANGED <<item, pc, about, changes, unsaid>>

(* ---- changing the library ---- *)
Building(u, c) == \E n \in DOMAIN todo[u] : todo[u][n].do = "keep" /\ todo[u][n].c = c
ClearCache(t) ==
  /\ todo[t] # <<>> /\ Next1(t).do = "clear"
  /\ cache' = [cache EXCEPT ![Next1(t).c] = None]
  /\ spoiled' = [u \in Threads |-> IF Building(u, Next1(t).c) THEN spoiled[u] \cup {Next1(t).c}
                                   ELSE spoiled[u]]
  /\ todo' = [todo EXCEPT ![t] = Tail(@)]
  /\ LET over == Len(todo[t]) = 1
     IN  /\ pc' = [pc EXCEPT ![t] = IF over THEN "idle" ELSE @]
         /\ about' = [about EXCEPT ![t] = IF over THEN Nobody ELSE @]
  /\ UNCHANGED <<item, held, changes, unsaid>>

(* A task: the stages say running, then the chunks are replaced, then the task  *)
(* is finished and only then the caches are cleared, the engine last.           *)
BeginTask(t, i) ==
  /\ pc[t] = "idle" /\ changes < MaxChanges
  /\ pc' = [pc EXCEPT ![t] = "indexing"] /\ about' = [about EXCEPT ![t] = i]
  /\ item' = [item EXCEPT ![i].ready = FALSE]
  /\ changes' = changes + 1
  /\ UNCHANGED <<cache, todo, held, spoiled, unsaid>>

ReplaceChunks(t) ==
  /\ pc[t] = "indexing"
  /\ pc' = [pc EXCEPT ![t] = "indexed"]
  /\ item' = [item EXCEPT ![about[t]].ready = TRUE, ![about[t]].text = (@ % MaxTexts) + 1]
  /\ UNCHANGED <<cache, todo, held, about, changes, spoiled, unsaid>>

\* Mutant of ClearPrivateRetrievalCaches: the engine goes first.
ClearEngineFirst == Clears(<<"engine", "private", "public", "mixed">>)
ClearPrivateRetrievalCaches == Clears(<<"private", "public", "mixed", "engine">>)
FinishTask(t) ==
  /\ pc[t] = "indexed"
  /\ pc' = [pc EXCEPT ![t] = "clearing"]
  /\ todo' = [todo EXCEPT ![t] = ClearPrivateRetrievalCaches]
  /\ unsaid' = unsaid \ {about[t]}
  /\ UNCHANGED <<item, cache, held, about, changes, spoiled>>

(* An error marks the item failed; nothing is cleared.                          *)
FailTask(t) ==
  /\ pc[t] \in {"indexing", "indexed"}
  /\ pc' = [pc EXCEPT ![t] = "idle"] /\ about' = [about EXCEPT ![t] = Nobody]
  /\ item' = [item EXCEPT ![about[t]].ready = FALSE]
  /\ unsaid' = unsaid \cup {about[t]}
  /\ UNCHANGED <<cache, todo, held, changes, spoiled>>

(* An administrator switches an item on or off: the public corpus is not        *)
(* cleared, whatever the item is.                                               *)
UpdateAdminKnowledgeItem(t, i) ==
  /\ pc[t] = "idle" /\ changes < MaxChanges
  /\ pc' = [pc EXCEPT ![t] = "clearing"] /\ about' = [about EXCEPT ![t] = i]
  /\ item' = [item EXCEPT ![i].on = ~@]
  /\ todo' = [todo EXCEPT ![t] = Clears(<<"private", "mixed", "engine">>)]
  /\ unsaid' = IF i \in Policies THEN unsaid \cup {i} ELSE unsaid \ {i}
  /\ changes' = changes + 1
  /\ UNCHANGED <<cache, held, spoiled>>

CachesStep(t) ==
  \/ GetCached(t)
  \/ StartBuild(t)
  \/ KeepBuilt(t)
  \/ ClearCache(t)
Change(t) ==
  \/ \E i \in Changing : BeginTask(t, i) \/ UpdateAdminKnowledgeItem(t, i)
  \/ ReplaceChunks(t)
  \/ FinishTask(t)
  \/ FailTask(t)

(* ---- properties ---- *)
Owed(i, c) ==
  \E t \in Threads : /\ about[t] = i
                     /\ \/ pc[t] \in {"indexing", "indexed"}
                        \/ \E n \in DOMAIN todo[t] : todo[t][n] = Clear(c)

(* A cached corpus agrees with the library on every item whose changes are told *)
(* to the caches, unless the clear of that cache is still to come, or fell into *)
(* the very build that stored it.                                               *)
CachesAreCurrent ==
  \A c \in Caches : cache[c] # None =>
    \A s \in Slots[c] : cache[c][s].late \/
      \A i \in DOMAIN cache[c][s].text \ unsaid :
        cache[c][s].text[i] = Current(i) \/ Owed(i, c)
================================================================================
