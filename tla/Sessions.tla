------------------------------- MODULE Sessions -------------------------------
(***************************************************************************)
(* A session, its title and its messages (session/service.py, the store,   *)
(* and the plain and the streamed ask of api/v1/endpoints/sessions.py).    *)
(* Whoever looks at a session whose title is temporary renames it after    *)
(* its questions; an ask may have a title made while it is answered, in    *)
(* its own thread or, of a streamed one, in a thread beside it; the user   *)
(* renames and deletes.  A look reads the title and, in a later statement, *)
(* the messages; a title is an UPDATE of its own; and of what was said     *)
(* only the order, who said it and how it ended matter.  How the worker    *)
(* streams is AskStream's subject.                                         *)
(***************************************************************************)
EXTENDS Naturals, FiniteSets, SequencesExt

CONSTANTS
  Clerk,     \* request threads, with the worker a streamed ask leaves behind
  Titler,    \* bound: title threads of streamed asks at a time
  MaxTurns   \* bound: questions asked

Turn == 1..MaxTurns
None == 0

\* The default title, a name the user gives, titles after the first questions, and
\* titles a model has made.
Untitled == <<"untitled", 0>>
Given    == <<"named", 0>>
After(n) == <<"questions", n>>
Made(n)  == <<"model", n>>
Title    == 
  {Untitled, Given} \cup {After(n) : n \in 1..3} \cup {Made(n) : n \in 1..2}

Temporary(t) == t = Untitled

Message == [role : {"user", "assistant"}, turn : Turn,
            status : {"said", "done", "open"}]  \* open: pending, or failed

VARIABLES
  there,    \* the row of the session
  name,     \* its title
  history,  \* its messages
  place,    \* where each thread is
  next,     \* what it does after a look at the session
  turn,     \* the exchange it serves
  plain,    \* it serves a plain ask
  auto,     \* a streamed ask whose first token starts the title thread
  draft,    \* the title it is about to store, with the exchange it is made from
  shown     \* the title a look has read, then the one it will store in its place

sessionVars == <<there, name, history, place, next, turn, plain, auto, draft, shown>>

Hand    == Clerk \cup Titler
NoDraft == [title |-> Untitled, question |-> None, answer |-> None]

SessionsInit ==
  /\ there = TRUE
  /\ name = Untitled
  /\ history = <<>>
  /\ place = [t \in Hand |-> "free"]
  /\ next = [t \in Hand |-> "free"]
  /\ turn = [t \in Hand |-> None]
  /\ plain = [t \in Hand |-> FALSE]
  /\ auto = [t \in Hand |-> FALSE]
  /\ draft = [t \in Hand |-> NoDraft]
  /\ shown = [t \in Hand |-> Untitled]

Move(t, to) == place' = [place EXCEPT ![t] = to]

\* require_session or get_session, and then to the next step.
LookThen(t, to) ==
  /\ Move(t, "look")
  /\ next' = [next EXCEPT ![t] = to]

Leave(t) ==
  /\ Move(t, "free")
  /\ next' = [next EXCEPT ![t] = "free"]
  /\ turn' = [turn EXCEPT ![t] = None]
  /\ plain' = [plain EXCEPT ![t] = FALSE]
  /\ auto' = [auto EXCEPT ![t] = FALSE]
  /\ draft' = [draft EXCEPT ![t] = NoDraft]
  /\ shown' = [shown EXCEPT ![t] = Untitled]

-----------------------------------------------------------------------------
(* Looking *)

Least(a, b) == IF a < b THEN a ELSE b

Questions(ms) == {i \in DOMAIN ms : ms[i].role = "user"}
Asked(ms)     == Cardinality(Questions(ms))

\* _build_auto_title_from_messages: after the first three questions.
AutoTitle(ms) ==
  IF Questions(ms) = {} THEN Untitled ELSE After(Least(3, Asked(ms)))

\* _normalize_summary_title, _normalize_detail_title: what a look shows, from the
\* title it has read and the messages there are by then.
Normalised(t) == IF Temporary(shown[t]) THEN AutoTitle(history) ELSE shown[t]

\* _collect_valid_title_exchanges: a question and the answer that stands behind it,
\* by position.
Pair(acc, m) ==
  CASE m.role = "user"      -> [acc EXCEPT !.open = m.turn]
    [] m.role = "assistant" ->
         [open  |-> None,
          pairs |-> IF acc.open # None /\ m.status = "done"
                    THEN Append(acc.pairs, [question |-> acc.open, answer |-> m.turn])
                    ELSE acc.pairs]

ValidExchanges(ms) ==
  LET seen[i \in 0..Len(ms)] == IF i = 0 THEN [open |-> None, pairs |-> <<>>]
                                        ELSE Pair(seen[i - 1], ms[i])
  IN  seen[Len(ms)].pairs

\* Mutant of TitleOnUserTurn: one question more.
TitleOnUserTurnLate(ms, model) ==
  LET n == Asked(ms) IN
  IF n \in 1..3
  THEN [NoDraft EXCEPT !.title = IF model THEN Made(n) ELSE After(n)]
  ELSE NoDraft

\* maybe_generate_title_on_user_turn: after the first question and after the
\* second, by a model or, without one, from the questions.
TitleOnUserTurn(ms, model) ==
  LET n     == Asked(ms)
      valid == ValidExchanges(ms)
      made  == [NoDraft EXCEPT !.title = IF model THEN Made(n) ELSE After(n)]
  IN CASE n = 1 \/ (n = 2 /\ valid = <<>>) -> made
       [] n = 2 /\ valid # <<>> -> [made EXCEPT !.question = valid[1].question,
                                                !.answer = valid[1].answer]
       [] OTHER -> NoDraft

\* After a title, or without a new one: a title thread ends, a plain ask goes on.
Titled(t) ==
  IF t \in Titler THEN Leave(t)
  ELSE /\ LookThen(t, "reply")
       /\ draft' = [draft EXCEPT ![t] = NoDraft]
       /\ shown' = [shown EXCEPT ![t] = Untitled]
       /\ UNCHANGED <<turn, plain, auto>>

\* What follows a look; update_session_title looks once more before it stores.
Proceed(t, new) ==
  CASE next[t] = "answered" -> Leave(t)
    [] next[t] = "retitle" /\ new = NoDraft -> Titled(t)
    [] OTHER ->
         /\ IF next[t] = "retitle" THEN LookThen(t, "entitle")
                                   ELSE Move(t, next[t]) /\ UNCHANGED next
         /\ draft' = [draft EXCEPT ![t] = new]
         /\ shown' = [shown EXCEPT ![t] = Untitled]
         /\ UNCHANGED <<turn, plain, auto>>

\* A title made from what has been read, unless it is there already.
Drafts(t) ==
  IF next[t] # "retitle" THEN {draft[t]}
  ELSE LET new(model) == TitleOnUserTurn(history, model) IN
       {IF new(model).title = Normalised(t) THEN NoDraft ELSE new(model) :
          model \in IF plain[t] THEN {FALSE} ELSE BOOLEAN}

\* A look at the session reads its row.  Without it the request is answered 404, or
\* ends in an exception.  What the messages are by then matters for a temporary title
\* and for making one.
Look(t) ==
  /\ place[t] = "look"
  /\ IF ~there THEN Leave(t)
     ELSE IF Temporary(name) \/ next[t] = "retitle"
     THEN /\ Move(t, "messages")
          /\ shown' = [shown EXCEPT ![t] = name]
          /\ UNCHANGED <<next, turn, plain, auto, draft>>
     ELSE Proceed(t, draft[t])
  /\ UNCHANGED <<there, name, history>>

\* The messages, of a session that may have gone.  A title that is not shown as it
\* was read is stored.
ListMessages(t) ==
  /\ place[t] = "messages"
  /\ \E new \in Drafts(t) :
       IF Normalised(t) = shown[t] THEN Proceed(t, new)
       ELSE /\ Move(t, "normalise")
            /\ shown' = [shown EXCEPT ![t] = Normalised(t)]
            /\ draft' = [draft EXCEPT ![t] = new]
            /\ UNCHANGED <<next, turn, plain, auto>>
  /\ UNCHANGED <<there, name, history>>

\* UPDATE sessions SET title, which may find no row.
StoreTitle(new) == name' = IF there THEN new ELSE name

Normalise(t) ==
  /\ place[t] = "normalise"
  /\ StoreTitle(shown[t])
  /\ Proceed(t, draft[t])
  /\ UNCHANGED <<there, history>>

-----------------------------------------------------------------------------
(* The requests about a session *)

Open(t, to, byItself) ==
  /\ place[t] = "free"
  /\ LookThen(t, to)
  /\ plain' = [plain EXCEPT ![t] = byItself]
  /\ UNCHANGED <<there, name, history, turn, auto, draft, shown>>

Call(t) ==
  \/ \E to \in {"answered", "rename", "remove"} : Open(t, to, FALSE)
  \/ /\ Asked(history) < MaxTurns                    \* POST ask, ask/stream
     /\ Open(t, "settings", TRUE) \/ Open(t, "question", FALSE)

Rename(t) ==
  /\ place[t] = "rename"
  /\ StoreTitle(Given)
  /\ Leave(t)
  /\ UNCHANGED <<there, history>>

DeleteRow(t) ==
  /\ place[t] = "remove"
  /\ there' = FALSE
  /\ history' = <<>>
  /\ name' = Untitled
  /\ Leave(t)

-----------------------------------------------------------------------------
(* An ask *)

\* The settings and the provider.  Without one a plain ask has left nothing, and a
\* streamed one writes the error into its message.
ResolveAsk(t) ==
  /\ place[t] = "settings"
  /\ \/ /\ plain[t]
        /\ LookThen(t, "question")
        /\ UNCHANGED <<turn, plain, auto, draft, shown>>
     \/ /\ plain[t]
        /\ Leave(t)
     \/ /\ ~plain[t]
        /\ \E on \in BOOLEAN : auto' = [auto EXCEPT ![t] = on]
        /\ LookThen(t, "reply")
        /\ UNCHANGED <<turn, plain, draft, shown>>
     \/ /\ ~plain[t]
        /\ LookThen(t, "fail")
        /\ UNCHANGED <<turn, plain, auto, draft, shown>>
  /\ UNCHANGED <<there, name, history>>

\* begin_exchange: the question ...
BeginExchange(t) ==
  /\ place[t] = "question"
  /\ LET n == Asked(history) + 1 IN
     IF there /\ n \in Turn
     THEN /\ history' = Append(history, [role |-> "user", turn |-> n, status |-> "said"])
          /\ turn' = [turn EXCEPT ![t] = n]
          /\ Move(t, "placeholder")
          /\ UNCHANGED <<next, plain, auto, draft, shown>>
     ELSE Leave(t) /\ UNCHANGED history
  /\ UNCHANGED <<there, name>>

\* Mutant of AppendPlaceholder: the answer is put before its question.
InsertPlaceholder(t) ==
  /\ place[t] = "placeholder"
  /\ IF there
     THEN LET k == CHOOSE i \in DOMAIN history :
                     history[i].role = "user" /\ history[i].turn = turn[t] IN
          /\ history' = InsertAt(history, k, [role |-> "assistant", turn |-> turn[t],
                                              status |-> "open"])
          /\ IF plain[t] THEN \E to \in {"retitle", "reply"} : LookThen(t, to)
                         ELSE Move(t, "settings") /\ UNCHANGED next
          /\ UNCHANGED <<turn, plain, auto, draft, shown>>
     ELSE Leave(t) /\ UNCHANGED history
  /\ UNCHANGED <<there, name>>

\* ... and the place of the answer.
AppendPlaceholder(t) ==
  /\ place[t] = "placeholder"
  /\ IF there
     THEN /\ history' = Append(history, [role |-> "assistant", turn |-> turn[t],
                                         status |-> "open"])
          /\ IF plain[t] THEN \E to \in {"retitle", "reply"} : LookThen(t, to)
                         ELSE Move(t, "settings") /\ UNCHANGED next
          /\ UNCHANGED <<turn, plain, auto, draft, shown>>
     ELSE Leave(t) /\ UNCHANGED history
  /\ UNCHANGED <<there, name>>

UpdateSessionTitle(t) ==
  /\ place[t] = "entitle"
  /\ StoreTitle(draft[t].title)
  /\ Titled(t)
  /\ UNCHANGED <<there, history>>

\* The first token of a streamed answer starts the title thread beside it.
StartTitle(t) ==
  /\ place[t] = "reply" /\ ~plain[t] /\ auto[t]
  /\ \E h \in Titler :
       /\ place[h] = "free"
       /\ place' = [place EXCEPT ![h] = "look"]
       /\ next' = [next EXCEPT ![h] = "retitle"]
  /\ auto' = [auto EXCEPT ![t] = FALSE]
  /\ UNCHANGED <<there, name, history, turn, plain, draft, shown>>

\* The provider has answered or failed, a streamed one perhaps before a token.
Reply(t) ==
  /\ place[t] = "reply"
  /\ \/ (plain[t] \/ ~auto[t]) /\ LookThen(t, "finish")
     \/ LookThen(t, "fail")
  /\ auto' = [auto EXCEPT ![t] = FALSE]
  /\ UNCHANGED <<there, name, history, turn, plain, draft, shown>>

\* finalize_exchange: the UPDATEs of the message, which may find no row, and of the
\* session's runtime state.  A streamed ask looks at the session again.
Finalize(t) ==
  /\ place[t] \in {"finish", "fail"}
  /\ history' = [i \in DOMAIN history |->
       IF history[i].role = "assistant" /\ history[i].turn = turn[t]
       THEN [history[i] EXCEPT !.status = IF place[t] = "finish" THEN "done" ELSE "open"]
       ELSE history[i]]
  /\ IF plain[t] THEN Leave(t)
     ELSE /\ LookThen(t, "answered")
          /\ turn' = [turn EXCEPT ![t] = None]
          /\ UNCHANGED <<plain, auto, draft, shown>>
  /\ UNCHANGED <<there, name>>

\* The process stops: the tables are left as they are.
StopSessions ==
  /\ place' = [t \in Hand |-> "free"]
  /\ next' = [t \in Hand |-> "free"]
  /\ turn' = [t \in Hand |-> None]
  /\ plain' = [t \in Hand |-> FALSE]
  /\ auto' = [t \in Hand |-> FALSE]
  /\ draft' = [t \in Hand |-> NoDraft]
  /\ shown' = [t \in Hand |-> Untitled]
  /\ UNCHANGED <<there, name, history>>

Serving(t) ==
  \/ Look(t) \/ ListMessages(t) \/ Normalise(t)
  \/ Rename(t) \/ DeleteRow(t)
  \/ ResolveAsk(t) \/ BeginExchange(t) \/ AppendPlaceholder(t)
  \/ UpdateSessionTitle(t) \/ StartTitle(t)
  \/ Reply(t) \/ Finalize(t)

SessionsNext ==
  \/ \E t \in Clerk : Call(t)
  \/ \E t \in Hand : Serving(t)
  \/ StopSessions

-----------------------------------------------------------------------------
(* Properties *)

\* A thread may still store a title made from what it read before: a look has read a
\* temporary title, or a title has been made.
Retitling(t) ==
  \/ place[t] = "messages" /\ Temporary(shown[t])
  \/ place[t] = "normalise"
  \/ draft[t] # NoDraft

Settled ==
  /\ ~Temporary(name)
  /\ Asked(history) > 2
  /\ \A t \in Hand : ~Retitling(t)

\* After the second question the title is the user's: once the third one is stored
\* and no thread is about to store a title made earlier, no thread takes up a title
\* again and nobody but the user changes it, whoever looks at the session, however
\* its asks overlap, until it is deleted.
SettledTitleStays ==
  [][Settled => \/ ~there'
                \/ Settled' /\ (name' # name => \E t \in Clerk : place[t] = "rename")
    ]_sessionVars

\* Another question came between a question and the place of its answer.
Crossed ==
  \E i, j, k \in DOMAIN history :
    /\ i < j /\ j < k
    /\ history[i].role = "user" /\ history[j].role = "user"
    /\ history[k].role = "assistant" /\ history[k].turn = history[i].turn

\* A title after the second question is made from a question and its own answer,
\* though they are only found by position, among answers that are pending, failed or
\* were never begun, unless the two questions were stored at once.
ExchangesBelong ==
  there => \A t \in Hand : draft[t].question = draft[t].answer \/ Crossed
=============================================================================
