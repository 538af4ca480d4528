-------------------------------- MODULE Reports --------------------------------
(* Reports (report/): a request resolves its sources from the session, asks the *)
(* provider for the text, stores the report with its sources and then adds a    *)
(* system message to the session, each in a transaction of its own; the session *)
(* may be deleted at any moment in between.  On SQLite the connections of the   *)
(* report storage do not enforce the foreign key to the session.                *)
EXTENDS CarbonInventory

CONSTANTS MaxMessages, MaxReports

CONSTANT Citings          \* bound: the kinds of sources an answer may cite

VARIABLES messages,  \* per session: [role, cites] or [role, about]
          reports,   \* the stored reports
          drafts,    \* per thread: what its report is made from
          made       \* reports stored so far

reportVars == <<messages, reports, drafts, made>>
vars == <<factorVars, calcVars, offSince, reportVars>>

Types == {"policy_summary", "mixed_analysis", "carbon_summary"}
NoDraft == [picked |-> <<>>, calc |-> 0]

Init ==
  /\ InventoryInit
  /\ messages = [s \in Sessions |-> <<>>]
  /\ reports = {} /\ made = 0
  /\ drafts = [t \in Threads |-> NoDraft]

(* An ask is answered with citations of either kind, or none.                   *)
AnswerAsk(s) ==
  \E cites \in Citings :
    /\ s \in live /\ Len(messages[s]) < MaxMessages
    /\ messages' = [messages EXCEPT ![s] = Append(@, [role |-> "assistant", cites |-> cites])]
    /\ UNCHANGED <<factorVars, calcVars, reports, drafts, made>>

Cited(picked) == UNION {picked[i].cites : i \in 1..Len(picked)}

(* With no message chosen: the newest cited answer that suits the type, else    *)
(* the newest cited one.                                                        *)
Suits(type, m) ==
  CASE type = "mixed_analysis" -> m.cites = {"public", "private"}
    [] type = "policy_summary" -> "public" \in m.cites
    [] OTHER -> TRUE
PickDefaultMessage(ms, type) ==
  LET cited == SelectSeq(Reverse(ms), LAMBDA m : m.role = "assistant" /\ m.cites # {})
      suited == SelectSeq(cited, LAMBDA m : Suits(type, m))
  IN  IF suited # <<>> THEN <<suited[1]>> ELSE IF cited # <<>> THEN <<cited[1]>> ELSE <<>>

(* Only answers of the session can be chosen; other choices are refused.        *)
CanSelect(ms, chosen) ==
  \A i \in 1..Len(chosen) : chosen[i] \in 1..Len(ms) /\ ms[chosen[i]].role = "assistant"
SelectedMessages(ms, chosen, type) ==
  IF chosen = <<>> THEN PickDefaultMessage(ms, type)
  ELSE [i \in 1..Len(chosen) |-> ms[chosen[i]]]

(* create_report reads the session first: its messages as they are now.  What   *)
(* the newest calculation was is history.                                       *)
CreateReport(t) ==
  \E s \in live, type \in Types, calc \in 0..Len(calcs) :
    \E chosen \in {<<>>} \cup {<<i>> : i \in 1..Len(messages[s])} :
      /\ made < MaxReports
      /\ CanSelect(messages[s], chosen)
      /\ Arrive(t, [op |-> "report", s |-> s, type |-> type, calc |-> calc, newest |-> Newest(s)], "resolve")
      /\ drafts' = [drafts EXCEPT ![t].picked = SelectedMessages(messages[s], chosen, type)]
      /\ UNCHANGED <<stored, todo, faults, calcVars, messages, reports, made>>

(* The calculation: the one named, or for a carbon summary the newest of the    *)
(* session, which is looked up again; it must be one of this session.           *)
ResolvedCalculation(r) ==
  IF r.calc # 0 THEN r.calc ELSE IF r.type = "carbon_summary" THEN Newest(r.s) ELSE 0
\* Mutant of CanResolve: any calculation of the owner will do.
CanResolveAny(r) == r.calc = 0 => (r.type = "carbon_summary" => r.s \in live)
CanResolve(r) ==
  IF r.calc = 0 THEN r.type = "carbon_summary" => r.s \in live ELSE calcs[r.calc].s = r.s

ValidateSources(type, picked, calc) ==
  CASE type = "policy_summary" -> "public" \in Cited(picked)
    [] type = "mixed_analysis" -> Cited(picked) = {"public", "private"}
    [] OTHER -> calc # 0

ResolveSources(t) ==
  /\ pc[t] = "resolve"
  /\ LET r == req[t]
         calc == ResolvedCalculation(r)
     IN  IF CanResolve(r) /\ ValidateSources(r.type, drafts[t].picked, calc)
         THEN /\ drafts' = [drafts EXCEPT ![t].calc = calc]
              /\ Goto(t, "provider")
              /\ UNCHANGED <<todo, req>>
         ELSE drafts' = [drafts EXCEPT ![t] = NoDraft] /\ Finish(t)
  /\ UNCHANGED <<stored, asked, faults, calcVars, messages, reports, made>>

(* The provider writes the sections the template asks for, or the request ends. *)
Generate(t) ==
  /\ pc[t] = "provider"
  /\ \/ Goto(t, "store") /\ UNCHANGED <<todo, req, drafts>>
     \/ drafts' = [drafts EXCEPT ![t] = NoDraft] /\ Finish(t)
  /\ UNCHANGED <<stored, asked, faults, calcVars, messages, reports, made>>

(* The report and its sources are stored in one transaction, session or not.    *)
StoreReport(t) ==
  /\ pc[t] = "store"
  /\ made' = made + 1
  /\ reports' = reports \cup
       {[id |-> made', s |-> req[t].s, type |-> req[t].type, picked |-> drafts[t].picked,
         calc |-> drafts[t].calc, text |-> "generated",
          named |-> req[t].calc # 0, newest |-> req[t].newest, late |-> req[t].s \notin live, silent |-> FALSE]}
  /\ req' = [req EXCEPT ![t] = [op |-> "report", s |-> req[t].s, id |-> made']]
  /\ drafts' = [drafts EXCEPT ![t] = NoDraft]
  /\ Goto(t, "announce")
  /\ UNCHANGED <<stored, todo, asked, faults, calcVars, messages>>

(* The session is told, if it is still there: otherwise the answer is 404.      *)
\* Mutant of RecordSystemMessage: not while another report of the session is written.
RecordSystemMessageUnlessBusy(t) ==
  /\ pc[t] = "announce"
  /\ messages' = IF \/ req[t].s \notin live
                    \/ \E u \in Threads \ {t} : pc[u] = "provider" /\ req[u].s = req[t].s
                 THEN messages
                 ELSE [messages EXCEPT ![req[t].s] =
                         Append(@, [role |-> "system", about |-> req[t].id])]
  /\ Finish(t)
  /\ UNCHANGED <<stored, asked, faults, calcVars, reports, drafts, made>>
RecordSystemMessage(t) ==
  /\ pc[t] = "announce"
  /\ messages' = IF req[t].s \notin live THEN messages
                 ELSE [messages EXCEPT ![req[t].s] =
                         Append(@, [role |-> "system", about |-> req[t].id])]
  /\ Finish(t)
  /\ UNCHANGED <<stored, asked, faults, calcVars, reports, drafts, made>>

(* PATCH report: an edit of the text of a report that is there.                 *)
UpdateReport ==
  \E r \in reports :
    /\ reports' = (reports \ {r}) \cup {[r EXCEPT !.text = "edited"]}
    /\ UNCHANGED <<factorVars, calcVars, messages, drafts, made>>

(* Deleting a session takes its messages and reports along; its calculations    *)
(* stay.                                                                        *)
\* Mutant of DeleteSession: the reports are left behind.
DeleteSessionOnly(s) ==
  /\ s \in live
  /\ live' = live \ {s}
  /\ messages' = [messages EXCEPT ![s] = <<>>]
  /\ UNCHANGED <<factorVars, calcs, reg, items, reports, drafts, made>>
DeleteSession(s) ==
  /\ s \in live
  /\ live' = live \ {s}
  /\ messages' = [messages EXCEPT ![s] = <<>>]
  /\ reports' = {r \in reports : r.s # s}
  /\ UNCHANGED <<factorVars, calcs, reg, items, drafts, made>>

(* A crash before the message leaves a report that is never announced.          *)
Announcing == {req[t].id : t \in {u \in Threads : pc[u] = "announce"}}
CrashAll ==
  /\ Crash
  /\ reports' = {[r EXCEPT !.silent = @ \/ r.id \in Announcing] : r \in reports}
  /\ reg' = [t \in Threads |-> NoRegistry] /\ items' = [t \in Threads |-> <<>>]
  /\ drafts' = [t \in Threads |-> NoDraft]
  /\ UNCHANGED <<live, calcs, messages, made>>

Next ==
  \/ \E t \in Threads :
       \/ FactorStep(t) /\ UNCHANGED <<calcVars, reportVars>> /\ Watch
       \/ CalcStep(t) /\ UNCHANGED reportVars /\ Watch
       \/ CreateReport(t) /\ Watch
       \/ ResolveSources(t) /\ Watch
       \/ Generate(t) /\ Watch
       \/ StoreReport(t) /\ Watch
       \/ RecordSystemMessage(t) /\ Watch
  \/ \E s \in Sessions : AnswerAsk(s) /\ Watch
  \/ \E s \in Sessions : DeleteSession(s) /\ Watch
  \/ UpdateReport /\ Watch
  \/ CrashAll /\ Watch

Spec == Init /\ [][Next]_vars
-----------------------------------------------------------------------------
(* What a report of each type may rest on: a policy summary on an answer that   *)
(* cites public policy, a mixed analysis on public and private citations, a     *)
(* carbon summary on a calculation; a calculation is one of the report's own    *)
(* session, and the one taken by default is at least as new as the newest there *)
(* was when the report was asked for.                                           *)
ReportsAreGrounded ==
  \A r \in reports :
    /\ r.type = "policy_summary" => "public" \in Cited(r.picked)
    /\ r.type = "mixed_analysis" => {"public", "private"} \subseteq Cited(r.picked)
    /\ r.type = "carbon_summary" => r.calc # 0 /\ (~r.named => r.calc >= r.newest)
    /\ r.calc # 0 => calcs[r.calc].s = r.s

(* A report without a session is one whose session was deleted while the        *)
(* provider wrote it: deleting a session leaves no stored report behind.        *)
OnlyLateReportsDangle == \A r \in reports : r.s \in live \/ r.late

(* A session's messages announce the reports it has: each announced report is   *)
(* stored, and a stored one is announced unless its request is about to, or the *)
(* server stopped in between.                                                   *)
Announced(s) == {messages[s][i].about : i \in {k \in 1..Len(messages[s]) : messages[s][k].role = "system"}}
ReportsAreAnnounced ==
  \A s \in live :
    LET ids == {r.id : r \in {q \in reports : q.s = s}}
        silent == {r.id : r \in {q \in reports : q.silent}}
    IN  /\ Announced(s) \subseteq ids
        /\ ids \subseteq Announced(s) \cup Announcing \cup silent
=============================================================================
