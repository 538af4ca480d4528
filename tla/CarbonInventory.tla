--------------------------- MODULE CarbonInventory ----------------------------
(* Carbon calculations: POST /calc-carbon and the tool of an ask that reads     *)
(* activities out of uploaded reports (carbon/service.py, factor_loader.py and  *)
(* ai_runtime/tools/report_carbon_extract_calc.py), over the factor database.   *)
(* Each calculation loads its own registry: the factor files, overridden by the *)
(* factors switched on in the database at that moment.  The tool loads one to   *)
(* extract and the calculation loads another.                                   *)
EXTENDS CarbonFactors, CarbonExtraction

CONSTANTS Sessions, Batches, Documents

ASSUME InventoryAssumption ==
  /\ \A f \in Factors : RegionOf(f) \in Regions /\ MatchScore(f) \in Int
  /\ \A f \in Factors, r \in Regions : Rank(f, r) \in Int
  /\ Patterns \in Seq(ToSet(Patterns)) /\ \A p \in ToSet(Patterns) : p.region \in Regions
  /\ \A b \in Batches : b \in Seq(ToSet(b)) /\ \A x \in ToSet(b) : x.region \in Regions
  /\ \A doc \in Documents : /\ doc \in Seq(ToSet(doc))
                            /\ \A chunk \in ToSet(doc) :
                                 /\ chunk \in Seq(ToSet(chunk))
                                 /\ \A segment \in ToSet(chunk) :
                                      segment.amounts \in Seq(ToSet(segment.amounts))

VARIABLES live,     \* the sessions there are
          calcs,    \* the stored calculations, oldest first
          reg,      \* the registry a thread has loaded
          items,    \* the activity items it calculates
          offSince  \* history: the factors off ever since its request came

calcVars == <<live, calcs, reg, items>>

NoRegistry == [ids |-> {}, db |-> {}]

InventoryInit ==
  /\ FactorsInit
  /\ live = Sessions /\ calcs = <<>>
  /\ reg = [t \in Threads |-> NoRegistry]
  /\ items = [t \in Threads |-> <<>>]
  /\ offSince = [t \in Threads |-> {}]

(* History: what was off when the request came and was not switched on since.   *)
Off == {f \in Factors : factor[f].st = "off"}
Watch == offSince' = [t \in Threads |->
           IF pc'[t] = "idle" THEN {} ELSE IF pc[t] = "idle" THEN Off' ELSE offSince[t] \cap Off']

(* A calculation asks for its session first, and for one positive activity.     *)
PostCalculation(t) ==
  \E s \in live \cup {None}, batch \in Batches :
    /\ ActiveItems(batch) # <<>>
    /\ Arrive(t, [op |-> "calc", s |-> s], "seed")
    /\ items' = [items EXCEPT ![t] = batch]
    /\ UNCHANGED <<stored, todo, faults, live, calcs, reg>>

(* The tool of an ask: the chunks of the uploads chosen for this turn.          *)
InvokeTool(t) ==
  \E s \in live, doc \in Documents :
    /\ Arrive(t, [op |-> "extract", s |-> s, doc |-> doc], "seed")
    /\ UNCHANGED <<stored, todo, faults, calcVars>>

(* The factors of the files and of the database; the database's record of a     *)
(* factor stands before the file's, and one switched off there is not read.     *)
Registry(db) == [ids |-> FileFactors \cup db, db |-> db]

LoadRegistry(t) ==
  /\ pc[t] = "serve" /\ req[t].op \in {"calc", "extract"}
  /\ \/ reg' = [reg EXCEPT ![t] = Registry(On)] /\ UNCHANGED faults
     \/ /\ faults < MaxFaults
        /\ reg' = [reg EXCEPT ![t] = Registry({})] /\ faults' = faults + 1
  /\ Goto(t, "compute")
  /\ UNCHANGED <<stored, todo, req, asked, live, calcs, items>>

(* What was extracted is calculated like a posted batch, which asks for the     *)
(* session once more; nothing found, or no session, ends the tool.              *)
ExtractActivities(t) ==
  /\ pc[t] = "compute" /\ req[t].op = "extract"
  /\ LET found == Extract(req[t].doc, reg[t].ids)
     IN  IF found = <<>> \/ req[t].s \notin live
         THEN Finish(t) /\ UNCHANGED items
         ELSE /\ items' = [items EXCEPT ![t] = found]
              /\ req' = [req EXCEPT ![t] = [op |-> "calc", s |-> req[t].s]]
              /\ Goto(t, "seed")
              /\ UNCHANGED todo
  /\ reg' = [reg EXCEPT ![t] = NoRegistry]
  /\ UNCHANGED <<stored, asked, faults, live, calcs>>

(* The lines as they are stored, each with the item it belongs to.              *)
StoredLines(t) ==
  LET lines == Breakdown(items[t], reg[t].ids)
      ids == PositiveIds(items[t])
  IN  [i \in 1..Len(lines) |-> [line |-> lines[i], item |-> IF i <= Len(ids) THEN ids[i] ELSE 0]]

(* The stored calculation: the session, the items and the lines.  The last two  *)
(* fields are history.                                                          *)
Inventory(t) ==
  [s |-> req[t].s, items |-> items[t], lines |-> StoredLines(t),
   db |-> reg[t].db, off |-> offSince[t]]

(* The inventory and the calculation are stored in one transaction.             *)
Store(t) == calcs' = Append(calcs, Inventory(t))

(* The breakdown is computed and stored, or the request fails and nothing is    *)
(* stored.                                                                      *)
Calculate(t) ==
  /\ pc[t] = "compute" /\ req[t].op = "calc"
  /\ IF CanCalculate(items[t], reg[t].ids) THEN Store(t) ELSE UNCHANGED calcs
  /\ Finish(t)
  /\ reg' = [reg EXCEPT ![t] = NoRegistry]
  /\ items' = [items EXCEPT ![t] = <<>>]
  /\ UNCHANGED <<stored, asked, faults, live>>

CalcStep(t) ==
  \/ PostCalculation(t) \/ InvokeTool(t) \/ LoadRegistry(t)
  \/ ExtractActivities(t) \/ Calculate(t)

(* The calculations of a session, and the one list_session_calculations has     *)
(* first: the newest, 0 if there is none.                                       *)
SessionCalculations(s) == {i \in 1..Len(calcs) : calcs[i].s = s}
Newest(s) ==
  LET own == SessionCalculations(s)
  IN  IF own = {} THEN 0 ELSE CHOOSE i \in own : \A k \in own : k <= i

-----------------------------------------------------------------------------
(* A line of a stored calculation stands beside the activity item it was        *)
(* computed from, with its value, and every item with an activity has exactly   *)
(* one line; the lines are matched to the items by position only                *)
(* (service.py:461-468).                                                        *)
LinesFollowItems ==
  \A i \in 1..Len(calcs) :
    LET c == calcs[i]
        owner == [k \in 1..Len(c.lines) |-> c.lines[k].item]
    IN  /\ ToSet(owner) = {k \in 1..Len(c.items) : c.items[k].value > 0}
        /\ Cardinality(ToSet(owner)) = Len(c.lines)
        /\ \A k \in 1..Len(c.lines) :
             LET line == c.lines[k].line
             IN  /\ c.items[owner[k]].act = line.act
                 /\ c.items[owner[k]].value = line.value
                 /\ ActivityOf(line.factor) = line.act

(* A factor of the database that was off when a calculation was asked for, and  *)
(* was not switched on since, does not appear in it, however long the request   *)
(* seeded, extracted or waited; the copy in a factor file is another factor.    *)
FreshFactors ==
  \A i \in 1..Len(calcs) : \A k \in 1..Len(calcs[i].lines) :
    LET f == calcs[i].lines[k].line.factor
    IN  f \in calcs[i].db => f \notin calcs[i].off
=============================================================================
