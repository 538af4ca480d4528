------------------------------ MODULE AskStream ------------------------------
(***************************************************************************)
(* The server side of one streamed question                                *)
(* (api/v1/endpoints/sessions.py, session/streaming.py, and the exchange   *)
(* methods of session/service.py): POSTs with one request_group_id open or *)
(* join a stream, a worker thread asks the provider, retries it, persists  *)
(* the answer and feeds the buffered stream, and the session may be        *)
(* deleted or the process restarted at any moment.                         *)
(*                                                                         *)
(* Exchanges are numbered: e stands for a pair of messages, the stream     *)
(* opened for it and its worker.  An answer is the number of its nonblank  *)
(* pieces.  Streams of other groups and sessions share nothing with these. *)
(* Thinking deltas carry no control and are left out.                      *)
(***************************************************************************)
EXTENDS Naturals, Sequences, FiniteSets

CONSTANTS
  Poster,        \* request threads that may serve a POST of this group
  MaxExchanges,  \* bound: exchanges ever begun
  MaxAttempts,   \* attempts at the provider (max_attempts, 5 in the code)
  AutoTitle,     \* the user's setting auto_generate_title_for_new_session
  Pieces,        \* bound: nonblank answer deltas of an attempt
  MaxDeletes,    \* bound: 1 if the session may be deleted
  MaxCrashes     \* bound: restarts of the process

ASSUME AskStreamAssumption ==
  /\ MaxExchanges \in Nat
  /\ MaxAttempts \in Nat \ {0}
  /\ AutoTitle \in BOOLEAN
  /\ Pieces \in Nat
  /\ MaxDeletes \in {0, 1}
  /\ MaxCrashes \in Nat

Exchange == 1..MaxExchanges
None     == 0

MessageStatus == {"none", "pending", "done", "provider_error", "gone"}

EventKind == {"message_start", "connecting", "reconnecting", "streaming",
              "answer_delta", "blank_delta", "session_title", "metadata",
              "status_done", "status_failed", "done", "error"}

WorkerPC == {"none", "resolve", "begin", "attempt", "stream", "check", "write",
             "emit", "complete", "ended", "dead"}

VARIABLES
  exists,    \* the session row
  status,    \* status of each exchange's assistant message, "none" before it
  content,   \* pieces in that message (0: blank, or the error notice)
  registry,  \* the stream the active registry holds for the group, or None
  events,    \* ActiveStreamSession.events of each exchange's stream
  isDone,    \* ActiveStreamSession.is_done
  first,     \* ActiveStreamSession.has_first_answer_token
  attempt,   \* the worker's attempt
  frags,     \* nonblank answer fragments of this attempt
  outcome,   \* what the worker is about to persist
  wpc,       \* where each worker is
  title,     \* where each worker's title thread is
  ppc,       \* where each request thread is
  pex,       \* the exchange it has begun, or joined
  crashes

session == <<exists, status, content>>
stream  == <<events, isDone, first>>
worker  == <<attempt, frags, outcome, wpc>>
poster  == <<ppc, pex>>

vars == <<session, registry, stream, worker, title, poster, crashes>>

Append1(e, kinds) == events' = [events EXCEPT ![e] = @ \o kinds]
WorkerAt(e, pc)   == wpc' = [wpc EXCEPT ![e] = pc]

-----------------------------------------------------------------------------
(* ask_in_session_stream, in a request thread *)

PosterAt(p, pc, e) ==
  /\ ppc' = [ppc EXCEPT ![p] = pc]
  /\ pex' = [pex EXCEPT ![p] = e]

\* The session is looked up first; without it the answer is 404.
Post(p) ==
  /\ ppc[p] = "idle"
  /\ PosterAt(p, IF exists THEN "lookup" ELSE "refused", None)
  /\ UNCHANGED <<session, registry, stream, worker, title, crashes>>

\* registry.get
Lookup(p) ==
  /\ ppc[p] = "lookup"
  /\ IF registry # None THEN PosterAt(p, "joined", registry)
                        ELSE PosterAt(p, "begin", None)
  /\ UNCHANGED <<session, registry, stream, worker, title, crashes>>

Unused(e) == status[e] = "none" /\ \A d \in Exchange : d < e => status[d] # "none"

\* begin_exchange: the user message and the pending assistant message.
BeginExchange(p) ==
  /\ ppc[p] = "begin"
  /\ \/ /\ exists
        /\ \E e \in Exchange : /\ Unused(e)
                               /\ status' = [status EXCEPT ![e] = "pending"]
                               /\ PosterAt(p, "create", e)
     \/ /\ ~exists \/ ~\E e \in Exchange : Unused(e)    \* 404, or the bound
        /\ PosterAt(p, "refused", None)
        /\ UNCHANGED status
  /\ UNCHANGED <<exists, content, registry, stream, worker, title, crashes>>

\* registry.create overwrites whatever the registry holds by now; the worker
\* thread starts.
CreateStream(p) ==
  /\ ppc[p] = "create"
  /\ registry' = pex[p]
  /\ WorkerAt(pex[p], "resolve")
  /\ PosterAt(p, "joined", pex[p])
  /\ UNCHANGED <<session, stream, attempt, frags, outcome, title, crashes>>

\* The response is over: the subscriber has gone, or has read to the end.
Leave(p) ==
  /\ ppc[p] \in {"joined", "refused"}
  /\ PosterAt(p, "idle", None)
  /\ UNCHANGED <<session, registry, stream, worker, title, crashes>>

-----------------------------------------------------------------------------
(* run_stream_worker *)

\* Mutant of Resolve: the failure returns without a terminal error.
ResolveSilently(e) ==
  /\ wpc[e] = "resolve"
  /\ WorkerAt(e, "begin") \/ WorkerAt(e, "ended")
  /\ UNCHANGED <<session, registry, stream, attempt, frags, outcome, title,
                 poster, crashes>>

\* Building the provider failed, or it did not.
Resolve(e) ==
  /\ wpc[e] = "resolve"
  /\ \/ WorkerAt(e, "begin") /\ UNCHANGED outcome
     \/ WorkerAt(e, "check") /\ outcome' = [outcome EXCEPT ![e] = "error"]
  /\ UNCHANGED <<session, registry, stream, attempt, frags, title, poster, crashes>>

Begin(e) ==
  /\ wpc[e] = "begin"
  /\ Append1(e, <<"message_start">>)
  /\ WorkerAt(e, "attempt")
  /\ UNCHANGED <<session, registry, isDone, first, attempt, frags, outcome,
                 title, poster, crashes>>

Attempt(e) ==
  /\ wpc[e] = "attempt"
  /\ Append1(e, <<IF attempt[e] = 1 THEN "connecting" ELSE "reconnecting">>)
  /\ frags' = [frags EXCEPT ![e] = 0]
  /\ WorkerAt(e, "stream")
  /\ UNCHANGED <<session, registry, isDone, first, attempt, outcome, title,
                 poster, crashes>>

\* An answer_delta of the provider.  The first one of the attempt is announced
\* and is what later forbids a retry; the first one ever starts the title.
Delta(e) ==
  /\ wpc[e] = "stream" /\ frags[e] < Pieces
  /\ \E kind \in {"answer_delta", "blank_delta"} :
       /\ kind = "blank_delta" => ~first[e]          \* bound: one blank delta
       /\ Append1(e, IF first[e] THEN <<kind>> ELSE <<"streaming", kind>>)
       /\ frags' = [frags EXCEPT ![e] = IF kind = "blank_delta" THEN @ ELSE @ + 1]
  /\ first' = [first EXCEPT ![e] = TRUE]
  /\ title' = [title EXCEPT ![e] = IF @ = "none" /\ AutoTitle THEN "running"
                                                             ELSE @]
  /\ UNCHANGED <<session, registry, isDone, attempt, outcome, wpc, poster, crashes>>

\* The provider is done; every provider refuses an empty answer.
ProviderDone(e) ==
  /\ wpc[e] = "stream" /\ frags[e] > 0
  /\ outcome' = [outcome EXCEPT ![e] = "ok"]
  /\ WorkerAt(e, "check")
  /\ UNCHANGED <<session, registry, stream, attempt, frags, title, poster, crashes>>

\* Mutants of Recover: a retry although an answer has begun; a partial answer
\* kept whatever is in it.
RecoverAgain(e, retryable) ==
  IF attempt[e] < MaxAttempts /\ retryable
  THEN /\ attempt' = [attempt EXCEPT ![e] = @ + 1]
       /\ WorkerAt(e, "attempt")
       /\ UNCHANGED outcome
  ELSE /\ outcome' = [outcome EXCEPT ![e] = IF first[e] /\ frags[e] > 0
                                            THEN "partial" ELSE "error"]
       /\ WorkerAt(e, "check")
       /\ UNCHANGED attempt

RecoverBlank(e, retryable) ==
  IF ~first[e] /\ attempt[e] < MaxAttempts /\ retryable
  THEN /\ attempt' = [attempt EXCEPT ![e] = @ + 1]
       /\ WorkerAt(e, "attempt")
       /\ UNCHANGED outcome
  ELSE /\ outcome' = [outcome EXCEPT ![e] = IF first[e] THEN "partial" ELSE "error"]
       /\ WorkerAt(e, "check")
       /\ UNCHANGED attempt

\* The except clauses: keep a partial answer, or retry before the first token,
\* or give up.
Recover(e, retryable) ==
  IF ~first[e] /\ attempt[e] < MaxAttempts /\ retryable
  THEN /\ attempt' = [attempt EXCEPT ![e] = @ + 1]
       /\ WorkerAt(e, "attempt")
       /\ UNCHANGED outcome
  ELSE /\ outcome' = [outcome EXCEPT ![e] = IF first[e] /\ frags[e] > 0
                                            THEN "partial" ELSE "error"]
       /\ WorkerAt(e, "check")
       /\ UNCHANGED attempt

\* A ChatProviderError, retryable or not, or any other exception (retryable).
ProviderFails(e) ==
  /\ wpc[e] = "stream"
  /\ \E retryable \in BOOLEAN : Recover(e, retryable)
  /\ UNCHANGED <<session, registry, stream, frags, title, poster, crashes>>

\* finalize_exchange: require_session raises if the session is gone.  In the
\* try that leads to the except clauses; in them it ends the thread.
CheckSession(e) ==
  /\ wpc[e] = "check"
  /\ \/ /\ exists
        /\ WorkerAt(e, "write")
        /\ UNCHANGED <<attempt, outcome>>
     \/ /\ ~exists
        /\ IF outcome[e] = "ok"
           THEN Recover(e, TRUE)
           ELSE WorkerAt(e, "dead") /\ UNCHANGED <<attempt, outcome>>
  /\ UNCHANGED <<session, registry, stream, frags, title, poster, crashes>>

\* Mutant of WriteMessage: the runtime's status is written as it is.
WriteOutcome(e) ==
  /\ wpc[e] = "write"
  /\ status' = [status EXCEPT ![e] = IF @ = "gone" THEN @ ELSE outcome[e]]
  /\ content' = [content EXCEPT ![e] = frags[e]]
  /\ WorkerAt(e, "emit")
  /\ UNCHANGED <<exists, registry, stream, attempt, frags, outcome, title,
                 poster, crashes>>

\* ... and the UPDATE of the assistant message, which may find no row.
WriteMessage(e) ==
  /\ wpc[e] = "write"
  /\ IF status[e] = "gone"
     THEN UNCHANGED <<status, content>>
     ELSE /\ status' = [status EXCEPT ![e] = IF outcome[e] = "error"
                                             THEN "provider_error" ELSE "done"]
          /\ content' = [content EXCEPT ![e] = IF outcome[e] = "error"
                                               THEN 0 ELSE frags[e]]
  /\ WorkerAt(e, "emit")
  /\ UNCHANGED <<exists, registry, stream, attempt, frags, outcome, title,
                 poster, crashes>>

Emit(e) ==
  /\ wpc[e] = "emit"
  /\ Append1(e, IF outcome[e] = "error" THEN <<"metadata", "status_failed", "error">>
                                        ELSE <<"metadata", "status_done", "done">>)
  /\ WorkerAt(e, "complete")
  /\ UNCHANGED <<session, registry, isDone, first, attempt, frags, outcome,
                 title, poster, crashes>>

Complete(e) ==
  /\ wpc[e] = "complete"
  /\ isDone' = [isDone EXCEPT ![e] = TRUE]
  /\ WorkerAt(e, "ended")
  /\ UNCHANGED <<session, registry, events, first, attempt, frags, outcome,
                 title, poster, crashes>>

\* The title thread ends; a changed title is announced in the stream, however
\* late.
TitleEnds(e) ==
  /\ title[e] = "running"
  /\ title' = [title EXCEPT ![e] = "ended"]
  /\ \/ UNCHANGED events
     \/ exists /\ Append1(e, <<"session_title">>)
  /\ UNCHANGED <<session, registry, isDone, first, worker, poster, crashes>>

-----------------------------------------------------------------------------
(* The world around *)

\* Mutant of Expire: the age is taken from created_at.
ExpireByAge ==
  /\ registry # None
  /\ registry' = None
  /\ UNCHANGED <<session, stream, worker, title, poster, crashes>>

\* registry._cleanup, ten minutes after complete(), at the next get or create.
Expire ==
  /\ registry # None /\ isDone[registry]
  /\ registry' = None
  /\ UNCHANGED <<session, stream, worker, title, poster, crashes>>

DeleteSession ==
  /\ MaxDeletes = 1 /\ exists
  /\ exists' = FALSE
  /\ status' = [e \in Exchange |-> IF status[e] = "none" THEN "none" ELSE "gone"]
  /\ UNCHANGED <<content, registry, stream, worker, title, poster, crashes>>

\* A crash and the restart: the registry, the streams and the threads are in
\* memory only.
Crash ==
  /\ crashes < MaxCrashes
  /\ crashes' = crashes + 1
  /\ registry' = None
  /\ events' = [e \in Exchange |-> <<>>]
  /\ isDone' = [e \in Exchange |-> FALSE]
  /\ first' = [e \in Exchange |-> FALSE]
  /\ attempt' = [e \in Exchange |-> 1]
  /\ frags' = [e \in Exchange |-> 0]
  /\ outcome' = [e \in Exchange |-> "none"]
  /\ wpc' = [e \in Exchange |-> "none"]
  /\ title' = [e \in Exchange |-> "none"]
  /\ ppc' = [p \in Poster |-> "idle"]
  /\ pex' = [p \in Poster |-> None]
  /\ UNCHANGED session

-----------------------------------------------------------------------------
Init ==
  /\ exists = TRUE
  /\ status = [e \in Exchange |-> "none"]
  /\ content = [e \in Exchange |-> 0]
  /\ registry = None
  /\ events = [e \in Exchange |-> <<>>]
  /\ isDone = [e \in Exchange |-> FALSE]
  /\ first = [e \in Exchange |-> FALSE]
  /\ attempt = [e \in Exchange |-> 1]
  /\ frags = [e \in Exchange |-> 0]
  /\ outcome = [e \in Exchange |-> "none"]
  /\ wpc = [e \in Exchange |-> "none"]
  /\ title = [e \in Exchange |-> "none"]
  /\ ppc = [p \in Poster |-> "idle"]
  /\ pex = [p \in Poster |-> None]
  /\ crashes = 0

Serve(p) == Lookup(p) \/ BeginExchange(p) \/ CreateStream(p)

Work(e) ==
  \/ Resolve(e) \/ Begin(e) \/ Attempt(e)
  \/ Delta(e) \/ ProviderDone(e) \/ ProviderFails(e)
  \/ CheckSession(e) \/ WriteMessage(e) \/ Emit(e) \/ Complete(e)

Next ==
  \/ \E p \in Poster : Post(p) \/ Serve(p) \/ Leave(p)
  \/ \E e \in Exchange : Work(e) \/ TitleEnds(e)
  \/ Expire
  \/ DeleteSession
  \/ Crash

Spec == Init /\ [][Next]_vars

\* A request being served goes on, and so does a worker: the provider's timeout
\* (httpx timeout_seconds) ends every wait for it.
Fairness ==
  /\ \A p \in Poster : WF_vars(Serve(p))
  /\ \A e \in Exchange : WF_vars(Work(e))

FairSpec == Spec /\ Fairness

-----------------------------------------------------------------------------
(* Properties *)

TypeOK ==
  /\ exists \in BOOLEAN
  /\ status \in [Exchange -> MessageStatus]
  /\ content \in [Exchange -> Nat]
  /\ registry \in Exchange \cup {None}
  /\ events \in [Exchange -> Seq(EventKind)]
  /\ isDone \in [Exchange -> BOOLEAN]
  /\ first \in [Exchange -> BOOLEAN]
  /\ attempt \in [Exchange -> Nat]
  /\ frags \in [Exchange -> Nat]
  /\ outcome \in [Exchange -> {"none", "ok", "partial", "error"}]
  /\ wpc \in [Exchange -> WorkerPC]
  /\ title \in [Exchange -> {"none", "running", "ended"}]
  /\ ppc \in [Poster -> {"idle", "lookup", "begin", "create", "joined", "refused"}]
  /\ pex \in [Poster -> Exchange \cup {None}]
  /\ crashes \in Nat

Emitted(e, kind) == \E i \in DOMAIN events[e] : events[e][i] = kind

\* What the subscribers were told at the end is what the history shows: after
\* "done" the message is done and not blank, after "error" it is the error
\* notice, unless the session has been deleted since.
StreamTellsMessage ==
  \A e \in Exchange :
    /\ Emitted(e, "done") => \/ status[e] = "done" /\ content[e] > 0
                             \/ status[e] = "gone"
    /\ Emitted(e, "error") => status[e] \in {"provider_error", "gone"}

\* b may come after a in a stream.
MayFollow(a, b) ==
  /\ a \in {"streaming", "answer_delta", "blank_delta"}
       => b \notin {"reconnecting", "streaming"}
  /\ a \in {"done", "error"} => b = "session_title"

\* A subscriber never sees the answer start twice, nor anything but a late
\* title after the end: no attempt begins after the first token, and one
\* terminal event closes the stream.
StreamReadsOnce ==
  \A e \in Exchange : \A i, j \in DOMAIN events[e] :
    i < j => MayFollow(events[e][i], events[e][j])

Answering(e) == wpc[e] \notin {"none", "ended", "dead"}

\* The POSTs of one request_group_id share one exchange while it is being
\* answered: two workers never answer the same question at once, across lost
\* connections, restarts and a deleted session (requests that do not overlap
\* on the server: see README).
OneAnswerPerGroup ==
  \A d, e \in Exchange : Answering(d) /\ Answering(e) => d = e
=============================================================================
