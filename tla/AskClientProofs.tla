--------------------------- MODULE AskClientProofs ---------------------------
(***************************************************************************)
(* Machine-checked proofs about AskStream, for every number of request     *)
(* threads, exchanges, attempts and pieces, and about AskClient: the       *)
(* composition implements the server, and what the client is told at the   *)
(* end is what the history has, for every number of tries and restarts.    *)
(***************************************************************************)
EXTENDS AskClient, SequenceTheorems, FiniteSetTheorems, TLAPS

-----------------------------------------------------------------------------
(* Types *)

LEMMA InitTyped == Init => TypeOK
  BY DEF Init, TypeOK, Exchange, None, MessageStatus, WorkerPC, EventKind

\* Appending events to one stream.
LEMMA AppendTyped ==
  ASSUME TypeOK, NEW e \in Exchange, NEW kinds \in Seq(EventKind), Append1(e, kinds)
  PROVE  /\ events' \in [Exchange -> Seq(EventKind)]
         /\ events'[e] = events[e] \o kinds
         /\ \A d \in Exchange : d # e => events'[d] = events[d]
  <1>1. events[e] \o kinds \in Seq(EventKind)
    BY ConcatProperties DEF TypeOK
  <1>2. QED
    BY <1>1 DEF TypeOK, Append1

\* A request thread's step keeps the types.
LEMMA PosterTyped ==
  ASSUME TypeOK, NEW p \in Poster, Post(p) \/ Serve(p) \/ Leave(p)
  PROVE  TypeOK'
  <1> USE DEF session, stream, worker, PosterAt, None
  <1>1. CASE Post(p)
    BY <1>1 DEF Post, TypeOK
  <1>2. CASE Lookup(p)
    BY <1>2 DEF Lookup, TypeOK
  <1>3. CASE BeginExchange(p)
    BY ZenonT(40), <1>3 DEF BeginExchange, TypeOK, MessageStatus
  <1>4. CASE CreateStream(p)
    <2>1. pex[p] \in Exchange \cup {0}
      BY DEF TypeOK
    <2>2. QED
      BY <1>4, <2>1 DEF CreateStream, TypeOK, WorkerAt, WorkerPC
  <1>5. CASE Leave(p)
    BY <1>5 DEF Leave, TypeOK
  <1>6. QED
    BY <1>1, <1>2, <1>3, <1>4, <1>5 DEF Serve

\* The except clauses give the worker a next place, attempt and outcome.
LEMMA RecoverTyped ==
  ASSUME TypeOK, NEW e \in Exchange, NEW retryable \in BOOLEAN, Recover(e, retryable)
  PROVE  /\ attempt' \in [Exchange -> Nat]
         /\ outcome' \in [Exchange -> {"none", "ok", "partial", "error"}]
         /\ wpc' \in [Exchange -> WorkerPC]
  <1>1. CASE ~first[e] /\ attempt[e] < MaxAttempts /\ retryable
    <2>1. /\ attempt' = [attempt EXCEPT ![e] = @ + 1]
          /\ WorkerAt(e, "attempt") /\ outcome' = outcome
      BY <1>1 DEF Recover
    <2>2. QED
      BY <2>1 DEF TypeOK, WorkerAt, WorkerPC
  <1>2. CASE ~(~first[e] /\ attempt[e] < MaxAttempts /\ retryable)
    <2>1. outcome' = [outcome EXCEPT ![e] = IF first[e] /\ frags[e] > 0
                                            THEN "partial" ELSE "error"]
      BY <1>2 DEF Recover
    <2>2. attempt' = attempt /\ WorkerAt(e, "check")
      BY <1>2 DEF Recover
    <2>3. QED
      BY <2>1, <2>2 DEF TypeOK, WorkerAt, WorkerPC
  <1>3. QED
    BY <1>1, <1>2

\* So does a worker's.
LEMMA WorkerTyped ==
  ASSUME TypeOK, NEW e \in Exchange, Work(e)
  PROVE  TypeOK'
  <1> USE DEF session, stream, worker, poster, WorkerAt, WorkerPC
  <1>1. CASE Resolve(e)
    BY <1>1 DEF Resolve, TypeOK
  <1>2. CASE Begin(e)
    <2>1. <<"message_start">> \in Seq(EventKind)
      BY DEF EventKind
    <2>2. QED
      BY <1>2, <2>1, AppendTyped DEF Begin, TypeOK
  <1>3. CASE Attempt(e)
    <2>1. <<IF attempt[e] = 1 THEN "connecting" ELSE "reconnecting">> \in Seq(EventKind)
      BY DEF EventKind
    <2>2. QED
      BY <1>3, <2>1, AppendTyped DEF Attempt, TypeOK
  <1>4. CASE Delta(e)
    <2>1. PICK kind \in {"answer_delta", "blank_delta"} :
            /\ Append1(e, IF first[e] THEN <<kind>> ELSE <<"streaming", kind>>)
            /\ frags' = [frags EXCEPT ![e] = IF kind = "blank_delta" THEN @ ELSE @ + 1]
      BY <1>4 DEF Delta
    <2>2. (IF first[e] THEN <<kind>> ELSE <<"streaming", kind>>) \in Seq(EventKind)
      <3>1. <<kind>> \in Seq(EventKind) /\ <<"streaming", kind>> \in Seq(EventKind)
        BY DEF EventKind
      <3>2. QED
        BY <3>1
    <2>3. events' \in [Exchange -> Seq(EventKind)]
      BY <2>1, <2>2, AppendTyped
    <2>4. frags' \in [Exchange -> Nat]
      BY <2>1 DEF TypeOK
    <2>5. title' \in [Exchange -> {"none", "running", "ended"}]
      BY <1>4 DEF Delta, TypeOK
    <2>6. QED
      BY <1>4, <2>3, <2>4, <2>5 DEF Delta, TypeOK
  <1>5. CASE ProviderDone(e)
    BY <1>5 DEF ProviderDone, TypeOK
  <1>6. CASE ProviderFails(e)
    <2>1. PICK retryable \in BOOLEAN : Recover(e, retryable)
      BY <1>6 DEF ProviderFails
    <2>2. QED
      BY <1>6, <2>1, RecoverTyped DEF ProviderFails, TypeOK
  <1>7. CASE CheckSession(e)
    <2>1. CASE Recover(e, TRUE)
      BY <1>7, <2>1, RecoverTyped DEF CheckSession, TypeOK
    <2>2. CASE WorkerAt(e, "write") /\ UNCHANGED <<attempt, outcome>>
      BY <1>7, <2>2 DEF CheckSession, TypeOK
    <2>3. CASE WorkerAt(e, "dead") /\ UNCHANGED <<attempt, outcome>>
      BY <1>7, <2>3 DEF CheckSession, TypeOK
    <2>4. QED
      BY <1>7, <2>1, <2>2, <2>3 DEF CheckSession
  <1>8. CASE WriteMessage(e)
    <2>1. CASE status[e] = "gone"
      BY <1>8, <2>1 DEF WriteMessage, TypeOK
    <2>2. CASE status[e] # "gone"
      <3>1. status' \in [Exchange -> MessageStatus]
        BY <1>8, <2>2 DEF WriteMessage, TypeOK, MessageStatus
      <3>2. content' = [content EXCEPT ![e] = IF outcome[e] = "error" THEN 0
                                                                    ELSE frags[e]]
        BY <1>8, <2>2 DEF WriteMessage
      <3>3. QED
        BY <1>8, <3>1, <3>2 DEF WriteMessage, TypeOK
    <2>3. QED
      BY <2>1, <2>2
  <1>9. CASE Emit(e)
    <2>1. (IF outcome[e] = "error" THEN <<"metadata", "status_failed", "error">>
                                   ELSE <<"metadata", "status_done", "done">>)
            \in Seq(EventKind)
      <3>1. /\ <<"metadata", "status_failed", "error">> \in Seq(EventKind)
            /\ <<"metadata", "status_done", "done">> \in Seq(EventKind)
        BY DEF EventKind
      <3>2. QED
        BY <3>1
    <2>2. QED
      BY <1>9, <2>1, AppendTyped DEF Emit, TypeOK
  <1>10. CASE Complete(e)
    BY <1>10 DEF Complete, TypeOK
  <1>11. QED
    BY <1>1, <1>2, <1>3, <1>4, <1>5, <1>6, <1>7, <1>8, <1>9, <1>10 DEF Work

LEMMA StepTyped == TypeOK /\ [Next]_vars => TypeOK'
  <1> SUFFICES ASSUME TypeOK, [Next]_vars PROVE TypeOK'
    OBVIOUS
  <1> USE DEF session, stream, worker, poster
  <1>1. ASSUME NEW e \in Exchange, TitleEnds(e) PROVE TypeOK'
    <2>1. <<"session_title">> \in Seq(EventKind)
      BY DEF EventKind
    <2>2. events' \in [Exchange -> Seq(EventKind)]
      BY <1>1, <2>1, AppendTyped DEF TitleEnds, TypeOK
    <2>3. QED
      BY <1>1, <2>2 DEF TitleEnds, TypeOK
  <1>2. CASE Expire
    BY <1>2 DEF Expire, TypeOK
  <1>3. CASE DeleteSession
    BY <1>3 DEF DeleteSession, TypeOK, MessageStatus
  <1>4. CASE Crash
    BY <1>4 DEF Crash, TypeOK, WorkerPC, None
  <1>5. CASE UNCHANGED vars
    BY <1>5 DEF vars, TypeOK
  <1>6. QED
    BY <1>1, <1>2, <1>3, <1>4, <1>5, PosterTyped, WorkerTyped DEF Next

\* Every reachable state of the server is well typed.
THEOREM StreamTyped == Spec => []TypeOK
  BY InitTyped, StepTyped, PTL DEF Spec

-----------------------------------------------------------------------------
(* Exchanges, their messages and their workers *)

TokenKind    == {"streaming", "answer_delta", "blank_delta"}
TerminalKind == {"done", "error"}
StatusKind   == {"metadata", "status_done", "status_failed"}

\* An exchange has messages before it has a worker; a request that is about to
\* create the stream of an exchange is the only one, and it has no worker yet.
Begun == \A e \in Exchange : status[e] = "none" => wpc[e] = "none"

CreatesFirst ==
  \A p \in Poster : ppc[p] = "create" =>
    /\ pex[p] \in Exchange
    /\ wpc[pex[p]] = "none" /\ status[pex[p]] # "none"

CreatesAlone ==
  \A p, q \in Poster :
    ppc[p] = "create" /\ ppc[q] = "create" /\ pex[p] = pex[q] => p = q

\* The terminal events are a worker's last, and a worker that has streamed a
\* token does not go back to an attempt.
Closed ==
  \A e \in Exchange : \A i \in DOMAIN events[e] :
    events[e][i] \in TerminalKind => wpc[e] \in {"complete", "ended"}

Streamed ==
  \A e \in Exchange : \A i \in DOMAIN events[e] :
    events[e][i] \in TokenKind =>
      first[e] /\ wpc[e] \notin {"none", "resolve", "begin", "attempt"}

\* What finalize_exchange is about to write, and what it has written.
Chosen ==
  \A e \in Exchange :
    wpc[e] \in {"check", "write", "emit"} =>
      outcome[e] = "error" \/ (outcome[e] \in {"ok", "partial"} /\ frags[e] > 0)

Written ==
  \A e \in Exchange :
    wpc[e] = "emit" =>
      \/ status[e] = "gone"
      \/ outcome[e] = "error" /\ status[e] = "provider_error"
      \/ /\ outcome[e] # "error" /\ status[e] = "done"
         /\ content[e] > 0 /\ content[e] = frags[e]

\* The text that metadata and done carry is the text of the message.
Announced ==
  \A e \in Exchange : \A i \in DOMAIN events[e] :
    /\ events[e][i] = "done" =>
         outcome[e] # "error" /\ (status[e] = "gone" \/ content[e] = frags[e])
    /\ events[e][i] = "error" => outcome[e] = "error"

IInv ==
  /\ TypeOK /\ Begun /\ CreatesFirst /\ CreatesAlone
  /\ Closed /\ Streamed /\ Chosen /\ Written /\ Announced
  /\ StreamReadsOnce /\ StreamTellsMessage

LEMMA InitInv == Init => IInv
  BY InitTyped
  DEF Init, IInv, Begun, CreatesFirst, CreatesAlone, Closed, Streamed, Chosen,
      Written, Announced, StreamReadsOnce, StreamTellsMessage, Emitted

-----------------------------------------------------------------------------
(* Events *)

\* Where the events of a longer stream come from.
LEMMA AppendedEvent ==
  ASSUME TypeOK, NEW e \in Exchange, NEW kinds \in Seq(EventKind), Append1(e, kinds),
         NEW i \in DOMAIN events'[e]
  PROVE  \/ i \in DOMAIN events[e] /\ events'[e][i] = events[e][i]
         \/ /\ i \notin DOMAIN events[e] /\ i > Len(events[e])
            /\ i - Len(events[e]) \in DOMAIN kinds
            /\ events'[e][i] = kinds[i - Len(events[e])]
  <1>1. events[e] \in Seq(EventKind)
    BY DEF TypeOK
  <1>2. events'[e] = events[e] \o kinds
    BY AppendTyped
  <1>3. QED
    BY <1>1, <1>2, ConcatProperties

\* Appending a few events keeps the order of the stream if it does for them.
LEMMA AppendedOrder ==
  ASSUME TypeOK, StreamReadsOnce,
         NEW e \in Exchange, NEW kinds \in Seq(EventKind), Append1(e, kinds),
         \A i, j \in DOMAIN kinds : i < j => MayFollow(kinds[i], kinds[j]),
         \A i \in DOMAIN events[e] : \A j \in DOMAIN kinds :
           MayFollow(events[e][i], kinds[j])
  PROVE  StreamReadsOnce'
  <1> SUFFICES ASSUME NEW d \in Exchange,
                      NEW i \in DOMAIN events'[d], NEW j \in DOMAIN events'[d], i < j
               PROVE  MayFollow(events'[d][i], events'[d][j])
    BY DEF StreamReadsOnce, MayFollow
  <1>1. CASE d # e
    <2>1. events'[d] = events[d]
      BY <1>1, AppendTyped
    <2>2. QED
      BY <2>1 DEF StreamReadsOnce
  <1>2. CASE d = e
    <2>0. /\ Len(events[e]) \in Nat /\ DOMAIN events[e] = 1..Len(events[e])
          /\ DOMAIN events'[d] = 1..Len(events'[d])
      BY LenProperties, AppendTyped DEF TypeOK
    <2>1. CASE j \in DOMAIN events[e]
      <3>1. i \in DOMAIN events[e]
        BY <1>2, <2>0, <2>1, AppendedEvent
      <3>2. events'[d][i] = events[e][i] /\ events'[d][j] = events[e][j]
        BY <1>2, <2>1, <3>1, AppendedEvent
      <3>3. QED
        BY <2>1, <3>1, <3>2 DEF StreamReadsOnce
    <2>2. CASE j \notin DOMAIN events[e]
      <3>1. /\ j - Len(events[e]) \in DOMAIN kinds
            /\ events'[d][j] = kinds[j - Len(events[e])]
        BY <1>2, <2>2, AppendedEvent
      <3>2. CASE i \in DOMAIN events[e]
        <4>1. events'[d][i] = events[e][i]
          BY <1>2, <3>2, AppendedEvent
        <4>2. QED
          BY <3>1, <3>2, <4>1
      <3>3. CASE i \notin DOMAIN events[e]
        <4>1. /\ i - Len(events[e]) \in DOMAIN kinds
              /\ events'[d][i] = kinds[i - Len(events[e])]
          BY <1>2, <3>3, AppendedEvent
        <4>2. i - Len(events[e]) < j - Len(events[e])
          BY <2>0
        <4>3. QED
          BY <3>1, <4>1, <4>2
      <3>4. QED
        BY <3>2, <3>3
    <2>3. QED
      BY <2>1, <2>2
  <1>3. QED
    BY <1>1, <1>2

-----------------------------------------------------------------------------
(* Steps of a worker *)

\* A worker touches its own exchange only, and never unmakes a message.
LEMMA WorkerFrame ==
  ASSUME TypeOK, NEW e \in Exchange, Work(e)
  PROVE  /\ wpc[e] \notin {"none", "complete", "ended", "dead"}
              \/ (wpc[e] = "complete" /\ Complete(e))
         /\ UNCHANGED <<registry, ppc, pex, crashes>>
         /\ \A d \in Exchange : d # e =>
              /\ wpc'[d] = wpc[d] /\ status'[d] = status[d] /\ content'[d] = content[d]
              /\ events'[d] = events[d] /\ first'[d] = first[d]
              /\ frags'[d] = frags[d] /\ outcome'[d] = outcome[d]
         /\ status'[e] = "none" => status[e] = "none"
  <1> USE DEF TypeOK, session, stream, worker, poster, WorkerAt
  <1>1. CASE Resolve(e)
    BY <1>1 DEF Resolve
  <1>2. CASE Begin(e)
    BY <1>2 DEF Begin, Append1
  <1>3. CASE Attempt(e)
    BY <1>3 DEF Attempt, Append1
  <1>4. CASE Delta(e)
    BY <1>4 DEF Delta, Append1
  <1>5. CASE ProviderDone(e)
    BY <1>5 DEF ProviderDone
  <1>6. CASE ProviderFails(e)
    BY <1>6 DEF ProviderFails, Recover
  <1>7. CASE CheckSession(e)
    BY <1>7 DEF CheckSession, Recover
  <1>8. CASE WriteMessage(e)
    BY <1>8 DEF WriteMessage
  <1>9. CASE Emit(e)
    BY <1>9 DEF Emit, Append1
  <1>10. CASE Complete(e)
    BY <1>10 DEF Complete
  <1>11. QED
    BY <1>1, <1>2, <1>3, <1>4, <1>5, <1>6, <1>7, <1>8, <1>9, <1>10 DEF Work

\* It does not disturb the exchanges that are being begun.
LEMMA WorkerBegun ==
  ASSUME IInv, NEW e \in Exchange, Work(e)
  PROVE  Begun' /\ CreatesFirst' /\ CreatesAlone'
  <1> USE DEF IInv
  <1>1. wpc[e] # "none"
    BY WorkerFrame
  <1>2. Begun'
    BY <1>1, WorkerFrame DEF Begun
  <1>3. CreatesFirst'
    BY <1>1, WorkerFrame DEF CreatesFirst
  <1>4. CreatesAlone'
    BY WorkerFrame DEF CreatesAlone
  <1>5. QED
    BY <1>2, <1>3, <1>4

\* finalize_exchange writes what was decided, and a partial or complete answer
\* has a nonblank piece: no failure after the first token is kept blank.
LEMMA WorkerWrites ==
  ASSUME IInv, NEW e \in Exchange, Work(e)
  PROVE  Chosen' /\ Written'
  <1> USE DEF IInv
  <1>1. ASSUME /\ wpc'[e] \in {"check", "write", "emit"} =>
                    \/ outcome'[e] = "error"
                    \/ outcome'[e] \in {"ok", "partial"} /\ frags'[e] > 0
               /\ wpc'[e] = "emit" =>
                    \/ status'[e] = "gone"
                    \/ outcome'[e] = "error" /\ status'[e] = "provider_error"
                    \/ /\ outcome'[e] # "error" /\ status'[e] = "done"
                       /\ content'[e] > 0 /\ content'[e] = frags'[e]
        PROVE  Chosen' /\ Written'
    BY <1>1, WorkerFrame DEF Chosen, Written
  <1> USE DEF TypeOK, session, stream, worker, poster, WorkerAt
  <1>2. CASE Resolve(e)
    BY <1>1, <1>2 DEF Resolve
  <1>3. CASE Begin(e) \/ Attempt(e) \/ Delta(e) \/ Emit(e) \/ Complete(e)
    BY <1>1, <1>3 DEF Begin, Attempt, Delta, Emit, Complete
  <1>4. CASE ProviderDone(e)
    BY <1>1, <1>4 DEF ProviderDone
  <1>5. CASE ProviderFails(e)
    BY <1>1, <1>5 DEF ProviderFails, Recover
  <1>6. CASE CheckSession(e)
    BY <1>1, <1>6 DEF CheckSession, Recover, Chosen
  <1>7. CASE WriteMessage(e)
    BY <1>1, <1>7 DEF WriteMessage, Chosen
  <1>8. QED
    BY <1>2, <1>3, <1>4, <1>5, <1>6, <1>7 DEF Work

\* A worker that appends no event closes no stream and starts no answer.
LEMMA WorkerQuiet ==
  ASSUME IInv, NEW e \in Exchange, Work(e), events' = events,
         first[e] => first'[e],
         wpc'[e] \in {"none", "resolve", "begin", "attempt"} =>
           \/ wpc[e] \in {"none", "resolve", "begin", "attempt"}
           \/ ~first[e]
  PROVE  Closed' /\ Streamed' /\ StreamReadsOnce'
  <1> USE DEF IInv
  <1>1. wpc[e] \in {"complete", "ended"} => wpc'[e] = "ended"
    BY WorkerFrame DEF Complete, WorkerAt, TypeOK
  <1>2. Closed'
    BY <1>1, WorkerFrame DEF Closed
  <1>3. Streamed'
    BY WorkerFrame DEF Streamed
  <1>4. StreamReadsOnce'
    BY DEF StreamReadsOnce, MayFollow
  <1>5. QED
    BY <1>2, <1>3, <1>4

\* A worker appends while its stream is open, and announces an answer once.
LEMMA WorkerAppends ==
  ASSUME IInv, NEW e \in Exchange, Work(e), NEW kinds \in Seq(EventKind),
         Append1(e, kinds), wpc[e] \in {"begin", "attempt", "stream", "emit"},
         \A i, j \in DOMAIN kinds : i < j => MayFollow(kinds[i], kinds[j]),
         \A i \in DOMAIN kinds :
           /\ kinds[i] \in TerminalKind => wpc'[e] = "complete"
           /\ kinds[i] \in TokenKind => first'[e] /\ wpc'[e] = "stream"
           /\ kinds[i] \in {"reconnecting", "streaming"} =>
                wpc[e] = "attempt" \/ ~first[e],
         first[e] => first'[e],
         wpc'[e] \in {"attempt", "stream", "complete"},
         wpc[e] \in {"stream", "emit"} => wpc'[e] \in {"stream", "complete"}
  PROVE  Closed' /\ Streamed' /\ StreamReadsOnce'
  <1> USE DEF IInv
  <1>1. \A i \in DOMAIN events[e] : events[e][i] \notin TerminalKind
    BY DEF Closed
  <1>2. Closed'
    <2> SUFFICES ASSUME NEW d \in Exchange, NEW i \in DOMAIN events'[d],
                        events'[d][i] \in TerminalKind
                 PROVE  wpc'[d] \in {"complete", "ended"}
      BY DEF Closed, TerminalKind
    <2>1. CASE d # e
      BY <2>1, WorkerFrame DEF Closed
    <2>2. CASE d = e
      BY <1>1, <2>2, AppendedEvent
    <2>3. QED
      BY <2>1, <2>2
  <1>3. Streamed'
    <2> SUFFICES ASSUME NEW d \in Exchange, NEW i \in DOMAIN events'[d],
                        events'[d][i] \in TokenKind
                 PROVE  first'[d] /\ wpc'[d] \notin {"none", "resolve", "begin", "attempt"}
      BY DEF Streamed, TokenKind
    <2>1. CASE d # e
      BY <2>1, WorkerFrame DEF Streamed
    <2>2. CASE d = e
      BY <2>2, AppendedEvent DEF Streamed
    <2>3. QED
      BY <2>1, <2>2
  <1>4. ASSUME NEW i \in DOMAIN events[e], NEW j \in DOMAIN kinds
        PROVE  MayFollow(events[e][i], kinds[j])
    BY <1>1 DEF Streamed, MayFollow, TokenKind, TerminalKind
  <1>5. StreamReadsOnce'
    BY <1>4, AppendedOrder
  <1>6. QED
    BY <1>2, <1>3, <1>5

LEMMA WorkerOrder ==
  ASSUME IInv, NEW e \in Exchange, Work(e)
  PROVE  Closed' /\ Streamed' /\ StreamReadsOnce'
  <1> USE DEF session, stream, worker, poster, WorkerAt
  <1>0. TypeOK
    BY DEF IInv
  <1>1. CASE Resolve(e)
    BY <1>0, <1>1, WorkerQuiet DEF Resolve, TypeOK
  <1>2. CASE Begin(e)
    <2> DEFINE kinds == <<"message_start">>
    <2>1. /\ kinds \in Seq(EventKind)
          /\ \A i \in DOMAIN kinds : i = 1 /\ kinds[i] = "message_start"
      BY DEF EventKind
    <2>2. /\ Append1(e, kinds) /\ wpc[e] = "begin"
          /\ wpc'[e] = "attempt" /\ first' = first
      BY <1>0, <1>2 DEF Begin, TypeOK
    <2> HIDE DEF kinds
    <2>3. QED
      BY <2>1, <2>2, WorkerAppends DEF TerminalKind, TokenKind
  <1>3. CASE Attempt(e)
    <2> DEFINE kinds == <<IF attempt[e] = 1 THEN "connecting" ELSE "reconnecting">>
    <2>1. /\ kinds \in Seq(EventKind)
          /\ \A i \in DOMAIN kinds : i = 1 /\ kinds[i] \in {"connecting", "reconnecting"}
      BY DEF EventKind
    <2>2. /\ Append1(e, kinds) /\ wpc[e] = "attempt"
          /\ wpc'[e] = "stream" /\ first' = first
      BY <1>0, <1>3 DEF Attempt, TypeOK
    <2> HIDE DEF kinds
    <2>3. QED
      BY <2>1, <2>2, WorkerAppends DEF TerminalKind, TokenKind
  <1>4. CASE Delta(e)
    <2>1. PICK kind \in {"answer_delta", "blank_delta"} :
            Append1(e, IF first[e] THEN <<kind>> ELSE <<"streaming", kind>>)
      BY <1>4 DEF Delta
    <2>2. wpc[e] = "stream" /\ wpc'[e] = "stream" /\ first'[e]
      BY <1>0, <1>4 DEF Delta, TypeOK
    <2>3. CASE first[e]
      <3> DEFINE kinds == <<kind>>
      <3>1. /\ kinds \in Seq(EventKind)
            /\ \A i \in DOMAIN kinds : i = 1 /\ kinds[i] = kind
        BY DEF EventKind
      <3>2. Append1(e, kinds)
        BY <2>1, <2>3
      <3> HIDE DEF kinds
      <3>3. QED
        BY <2>2, <3>1, <3>2, WorkerAppends DEF TerminalKind, TokenKind
    <2>4. CASE ~first[e]
      <3> DEFINE kinds == <<"streaming", kind>>
      <3>1. /\ kinds \in Seq(EventKind)
            /\ \A i \in DOMAIN kinds : \/ i = 1 /\ kinds[i] = "streaming"
                                       \/ i = 2 /\ kinds[i] = kind
        BY DEF EventKind
      <3>2. Append1(e, kinds)
        BY <2>1, <2>4
      <3> HIDE DEF kinds
      <3>3. \A i, j \in DOMAIN kinds : i < j => MayFollow(kinds[i], kinds[j])
        BY <3>1 DEF MayFollow
      <3>4. QED
        BY <2>2, <2>4, <3>1, <3>2, <3>3, WorkerAppends DEF TerminalKind, TokenKind
    <2>5. QED
      BY <2>3, <2>4
  <1>5. CASE ProviderDone(e) \/ WriteMessage(e) \/ Complete(e)
    BY ZenonT(40), <1>0, <1>5, WorkerQuiet DEF ProviderDone, WriteMessage, Complete, TypeOK
  <1>6. CASE ProviderFails(e)
    BY <1>0, <1>6, WorkerQuiet DEF ProviderFails, Recover, TypeOK
  <1>7. CASE CheckSession(e)
    BY <1>0, <1>7, WorkerQuiet DEF CheckSession, Recover, TypeOK
  <1>8. CASE Emit(e)
    <2>1. ASSUME NEW kinds \in Seq(EventKind), Append1(e, kinds),
                 \A i \in DOMAIN kinds : \/ i \in {1, 2} /\ kinds[i] \in StatusKind
                                         \/ i = 3 /\ kinds[i] \in TerminalKind
          PROVE  Closed' /\ Streamed' /\ StreamReadsOnce'
      <3>1. wpc[e] = "emit" /\ wpc'[e] = "complete" /\ first' = first
        BY <1>0, <1>8 DEF Emit, TypeOK
      <3>2. \A i, j \in DOMAIN kinds : i < j => MayFollow(kinds[i], kinds[j])
        BY <2>1 DEF MayFollow, StatusKind, TerminalKind
      <3>3. QED
        BY <2>1, <3>1, <3>2, WorkerAppends DEF StatusKind, TerminalKind, TokenKind
    <2>2. CASE outcome[e] = "error"
      <3> DEFINE kinds == <<"metadata", "status_failed", "error">>
      <3>1. /\ kinds \in Seq(EventKind)
            /\ \A i \in DOMAIN kinds : \/ i \in {1, 2} /\ kinds[i] \in StatusKind
                                       \/ i = 3 /\ kinds[i] \in TerminalKind
        BY DEF EventKind, StatusKind, TerminalKind
      <3>2. Append1(e, kinds)
        BY <1>8, <2>2 DEF Emit
      <3> HIDE DEF kinds
      <3>3. QED
        BY <2>1, <3>1, <3>2
    <2>3. CASE outcome[e] # "error"
      <3> DEFINE kinds == <<"metadata", "status_done", "done">>
      <3>1. /\ kinds \in Seq(EventKind)
            /\ \A i \in DOMAIN kinds : \/ i \in {1, 2} /\ kinds[i] \in StatusKind
                                       \/ i = 3 /\ kinds[i] \in TerminalKind
        BY DEF EventKind, StatusKind, TerminalKind
      <3>2. Append1(e, kinds)
        BY <1>8, <2>3 DEF Emit
      <3> HIDE DEF kinds
      <3>3. QED
        BY <2>1, <3>1, <3>2
    <2>4. QED
      BY <2>2, <2>3
  <1>9. QED
    BY <1>1, <1>2, <1>3, <1>4, <1>5, <1>6, <1>7, <1>8 DEF Work

\* Only Emit appends a terminal event, and what it appends is what was written.
LEMMA WorkerSays ==
  ASSUME TypeOK, NEW e \in Exchange, Work(e), ~Emit(e)
  PROVE  \/ events' = events
         \/ \E kinds \in Seq(EventKind) :
              /\ Append1(e, kinds)
              /\ \A k \in DOMAIN kinds : kinds[k] \notin TerminalKind
  <1>1. CASE Begin(e)
    <2>1. /\ <<"message_start">> \in Seq(EventKind)
          /\ \A k \in DOMAIN <<"message_start">> :
               <<"message_start">>[k] \notin TerminalKind
      BY DEF EventKind, TerminalKind
    <2>2. QED
      BY <1>1, <2>1 DEF Begin
  <1>2. CASE Attempt(e)
    <2> DEFINE kinds == <<IF attempt[e] = 1 THEN "connecting" ELSE "reconnecting">>
    <2>1. kinds \in Seq(EventKind) /\ \A k \in DOMAIN kinds : kinds[k] \notin TerminalKind
      BY DEF EventKind, TerminalKind
    <2>2. Append1(e, kinds)
      BY <1>2 DEF Attempt
    <2> HIDE DEF kinds
    <2>3. QED
      BY <2>1, <2>2
  <1>3. CASE Delta(e)
    <2>1. PICK kind \in {"answer_delta", "blank_delta"} :
            Append1(e, IF first[e] THEN <<kind>> ELSE <<"streaming", kind>>)
      BY <1>3 DEF Delta
    <2> DEFINE one == <<kind>>
               two == <<"streaming", kind>>
    <2>2. /\ one \in Seq(EventKind) /\ \A k \in DOMAIN one : one[k] \notin TerminalKind
          /\ two \in Seq(EventKind) /\ \A k \in DOMAIN two : two[k] \notin TerminalKind
      BY DEF EventKind, TerminalKind
    <2>3. Append1(e, one) \/ Append1(e, two)
      BY <2>1
    <2> HIDE DEF one, two
    <2>4. QED
      BY <2>2, <2>3
  <1>4. CASE Resolve(e) \/ ProviderDone(e) \/ ProviderFails(e) \/ CheckSession(e)
    BY <1>4 DEF Resolve, ProviderDone, ProviderFails, CheckSession, stream
  <1>5. CASE WriteMessage(e) \/ Complete(e)
    BY <1>5 DEF WriteMessage, Complete, stream
  <1>6. QED
    BY <1>1, <1>2, <1>3, <1>4, <1>5 DEF Work

LEMMA EmitTells ==
  ASSUME IInv, NEW e \in Exchange, Emit(e), NEW i \in DOMAIN events'[e],
         \A k \in DOMAIN events[e] : events[e][k] \notin TerminalKind
  PROVE  /\ events'[e][i] = "done" =>
              /\ outcome'[e] # "error"
              /\ \/ status'[e] = "gone"
                 \/ status'[e] = "done" /\ content'[e] > 0 /\ content'[e] = frags'[e]
         /\ events'[e][i] = "error" =>
              outcome'[e] = "error" /\ status'[e] \in {"provider_error", "gone"}
  <1>1. TypeOK /\ Written
    BY DEF IInv
  <1>2. wpc[e] = "emit" /\ UNCHANGED <<status, content, outcome, frags>>
    BY DEF Emit, session
  <1>3. CASE outcome[e] = "error"
    <2> DEFINE kinds == <<"metadata", "status_failed", "error">>
    <2>1. kinds \in Seq(EventKind) /\ \A k \in DOMAIN kinds : kinds[k] # "done"
      BY DEF EventKind
    <2>2. Append1(e, kinds)
      BY <1>3 DEF Emit
    <2> HIDE DEF kinds
    <2>3. events'[e][i] # "done"
      BY <1>1, <2>1, <2>2, AppendedEvent DEF TerminalKind
    <2>4. QED
      BY <1>1, <1>2, <1>3, <2>3 DEF Written
  <1>4. CASE outcome[e] # "error"
    <2> DEFINE kinds == <<"metadata", "status_done", "done">>
    <2>1. kinds \in Seq(EventKind) /\ \A k \in DOMAIN kinds : kinds[k] # "error"
      BY DEF EventKind
    <2>2. Append1(e, kinds)
      BY <1>4 DEF Emit
    <2> HIDE DEF kinds
    <2>3. events'[e][i] # "error"
      BY <1>1, <2>1, <2>2, AppendedEvent DEF TerminalKind
    <2>4. QED
      BY <1>1, <1>2, <1>4, <2>3 DEF Written
  <1>5. QED
    BY <1>3, <1>4

\* The terminal events say what finalize_exchange has written.
LEMMA WorkerTells ==
  ASSUME IInv, NEW e \in Exchange, Work(e)
  PROVE  StreamTellsMessage' /\ Announced'
  <1> USE DEF IInv
  <1>1. SUFFICES ASSUME NEW d \in Exchange, NEW i \in DOMAIN events'[d]
                 PROVE  /\ events'[d][i] = "done" =>
                             /\ outcome'[d] # "error"
                             /\ \/ status'[d] = "gone"
                                \/ /\ status'[d] = "done"
                                   /\ content'[d] > 0 /\ content'[d] = frags'[d]
                        /\ events'[d][i] = "error" =>
                             /\ outcome'[d] = "error"
                             /\ status'[d] \in {"provider_error", "gone"}
    BY DEF StreamTellsMessage, Emitted, Announced
  <1>2. CASE d # e
    BY <1>2, WorkerFrame DEF StreamTellsMessage, Emitted, Announced
  <1>3. CASE d = e
    <2>1. CASE Complete(e)
      BY <1>3, <2>1 DEF Complete, StreamTellsMessage, Emitted, Announced, session
    <2>2. CASE ~Complete(e)
      <3>1. \A k \in DOMAIN events[e] : events[e][k] \notin TerminalKind
        BY <2>2, WorkerFrame DEF Closed
      <3>2. CASE Emit(e)
        BY <1>3, <3>1, <3>2, EmitTells
      <3>3. CASE ~Emit(e)
        <4>1. \/ events' = events
              \/ \E kinds \in Seq(EventKind) :
                   /\ Append1(e, kinds)
                   /\ \A k \in DOMAIN kinds : kinds[k] \notin TerminalKind
          BY <2>2, <3>3, WorkerSays
        <4>2. QED
          BY <1>3, <3>1, <4>1, AppendedEvent DEF TerminalKind
      <3>4. QED
        BY <3>2, <3>3
    <2>3. QED
      BY <2>1, <2>2
  <1>4. QED
    BY <1>2, <1>3

-----------------------------------------------------------------------------
(* Steps of the others *)

\* What a step that appends no event and moves no worker has to keep: pending
\* messages may appear, and messages may go.
LEMMA MessageStep ==
  ASSUME IInv, UNCHANGED <<content, stream, frags, outcome, wpc>>,
         \A e \in Exchange :
           \/ status'[e] = status[e] \/ status[e] = "none"
           \/ status'[e] = "gone"
  PROVE  /\ Closed' /\ Streamed' /\ Chosen' /\ Written'
         /\ StreamReadsOnce' /\ StreamTellsMessage' /\ Announced'
  <1> USE DEF IInv, stream
  <1>1. Closed' /\ Streamed'
    BY DEF Closed, Streamed
  <1>2. Chosen' /\ Written'
    BY DEF Chosen, Written
  <1>3. StreamReadsOnce'
    BY DEF StreamReadsOnce
  <1>4. StreamTellsMessage' /\ Announced'
    BY DEF StreamTellsMessage, Emitted, Announced
  <1>5. QED
    BY <1>1, <1>2, <1>3, <1>4

LEMMA PosterInv ==
  ASSUME IInv, NEW p \in Poster, Post(p) \/ Serve(p) \/ Leave(p)
  PROVE  IInv'
  <1>0. TypeOK' /\ TypeOK
    BY PosterTyped DEF IInv
  <1> USE DEF session, worker, PosterAt
  <1>1. CASE Post(p) \/ Lookup(p) \/ Leave(p)
    <2>1. UNCHANGED <<session, stream, worker>>
      BY <1>1 DEF Post, Lookup, Leave
    <2>2. \A q \in Poster : ppc'[q] = "create" => ppc[q] = "create" /\ pex'[q] = pex[q]
      BY <1>0, <1>1 DEF Post, Lookup, Leave, TypeOK
    <2>3. Begun' /\ CreatesFirst' /\ CreatesAlone'
      BY <2>1, <2>2 DEF IInv, Begun, CreatesFirst, CreatesAlone
    <2>4. QED
      BY <1>0, <2>1, <2>3, MessageStep DEF IInv
  <1>2. CASE BeginExchange(p)
    <2>1. UNCHANGED <<content, stream, frags, outcome, wpc>>
      BY <1>2 DEF BeginExchange
    <2>2. CASE \E e \in Exchange : /\ Unused(e)
                                   /\ status' = [status EXCEPT ![e] = "pending"]
                                   /\ PosterAt(p, "create", e)
      <3>1. PICK e \in Exchange : /\ status[e] = "none"
                                  /\ status' = [status EXCEPT ![e] = "pending"]
                                  /\ PosterAt(p, "create", e)
        BY <2>2 DEF Unused
      <3>2. Begun' /\ CreatesFirst' /\ CreatesAlone'
        BY SMTT(40), <1>0, <2>1, <3>1 DEF IInv, Begun, CreatesFirst, CreatesAlone, TypeOK
      <3>3. QED
        BY <1>0, <2>1, <3>1, <3>2, MessageStep DEF IInv, TypeOK
    <2>3. CASE status' = status /\ PosterAt(p, "refused", None)
      <3>1. \A q \in Poster : ppc'[q] = "create" => ppc[q] = "create" /\ pex'[q] = pex[q]
        BY <1>0, <2>3 DEF TypeOK
      <3>2. Begun' /\ CreatesFirst' /\ CreatesAlone'
        BY <2>1, <2>3, <3>1 DEF IInv, Begun, CreatesFirst, CreatesAlone
      <3>3. QED
        BY <1>0, <2>1, <2>3, <3>2, MessageStep DEF IInv
    <2>4. QED
      BY <1>2, <2>2, <2>3 DEF BeginExchange
  <1>3. CASE CreateStream(p)
    <2> DEFINE e == pex[p]
    <2>1. /\ e \in Exchange /\ wpc[e] = "none" /\ status[e] # "none"
          /\ wpc' = [wpc EXCEPT ![e] = "resolve"]
          /\ UNCHANGED <<session, stream, frags, outcome>>
      BY <1>3 DEF CreateStream, WorkerAt, IInv, CreatesFirst
    <2>2. \A q \in Poster : ppc'[q] = "create" => /\ ppc[q] = "create" /\ pex'[q] = pex[q]
                                                 /\ pex[q] # e
      BY <1>0, <1>3 DEF CreateStream, TypeOK, IInv, CreatesAlone
    <2> HIDE DEF e
    <2>3. Begun' /\ CreatesFirst' /\ CreatesAlone'
      BY <1>0, <2>1, <2>2 DEF IInv, Begun, CreatesFirst, CreatesAlone, TypeOK
    <2>4. Closed' /\ Streamed' /\ Chosen' /\ Written'
      BY <1>0, <2>1 DEF IInv, Closed, Streamed, Chosen, Written, stream, TypeOK
    <2>5. StreamReadsOnce' /\ StreamTellsMessage' /\ Announced'
      BY <2>1 DEF IInv, StreamReadsOnce, StreamTellsMessage, Announced, Emitted, stream
    <2>6. QED
      BY <1>0, <2>3, <2>4, <2>5 DEF IInv
  <1>4. QED
    BY <1>1, <1>2, <1>3 DEF Serve

\* A late title goes behind everything else.
LEMMA TitleInv ==
  ASSUME IInv, NEW e \in Exchange, TitleEnds(e)
  PROVE  IInv'
  <1>0. TypeOK' /\ TypeOK
    BY StepTyped DEF IInv, Next
  <1>1. UNCHANGED <<session, registry, isDone, first, worker, poster>>
    BY DEF TitleEnds
  <1>2. Begun' /\ CreatesFirst' /\ CreatesAlone' /\ Chosen' /\ Written'
    BY <1>1 DEF IInv, Begun, CreatesFirst, CreatesAlone, Chosen, Written,
                session, worker, poster
  <1>3. CASE events' = events
    BY <1>0, <1>1, <1>2, <1>3
    DEF IInv, Closed, Streamed, StreamReadsOnce, StreamTellsMessage, Announced,
        Emitted, session, worker
  <1>4. CASE Append1(e, <<"session_title">>)
    <2> DEFINE kinds == <<"session_title">>
    <2>1. /\ kinds \in Seq(EventKind)
          /\ \A i \in DOMAIN kinds : i = 1 /\ kinds[i] = "session_title"
      BY DEF EventKind
    <2>2. Append1(e, kinds)
      BY <1>4
    <2> HIDE DEF kinds
    <2>3. ASSUME NEW d \in Exchange, NEW i \in DOMAIN events'[d],
                 events'[d][i] # "session_title"
          PROVE  i \in DOMAIN events[d] /\ events[d][i] = events'[d][i]
      <3>1. CASE d = e
        BY <1>0, <2>1, <2>2, <2>3, <3>1, AppendedEvent
      <3>2. CASE d # e
        BY <1>0, <2>1, <2>2, <3>2, AppendTyped
      <3>3. QED
        BY <3>1, <3>2
    <2>4. Closed' /\ Streamed'
      BY <1>1, <2>3 DEF IInv, Closed, Streamed, worker, TokenKind, TerminalKind
    <2>5. StreamTellsMessage' /\ Announced'
      BY <1>1, <2>3 DEF IInv, StreamTellsMessage, Announced, Emitted, session, worker
    <2>6. StreamReadsOnce'
      <3>1. ASSUME NEW a PROVE MayFollow(a, "session_title")
        BY DEF MayFollow
      <3>2. QED
        BY <1>0, <2>1, <2>2, <3>1, AppendedOrder DEF IInv
    <2>7. QED
      BY <1>0, <1>2, <2>4, <2>5, <2>6 DEF IInv
  <1>5. QED
    BY <1>3, <1>4 DEF TitleEnds

LEMMA CrashInv == Crash => Begun' /\ CreatesFirst' /\ CreatesAlone' /\ Closed'
                           /\ Streamed' /\ Chosen' /\ Written'
                           /\ Announced' /\ StreamReadsOnce' /\ StreamTellsMessage'
  BY DEF Crash, Begun, CreatesFirst, CreatesAlone, Closed, Streamed, Chosen,
         Written, Announced, StreamReadsOnce, StreamTellsMessage, Emitted

\* Every step keeps the invariant.
LEMMA StepInv == IInv /\ [Next]_vars => IInv'
  <1> SUFFICES ASSUME IInv, [Next]_vars PROVE IInv'
    OBVIOUS
  <1>0. TypeOK' /\ TypeOK
    BY StepTyped DEF IInv
  <1>1. ASSUME NEW e \in Exchange, Work(e) PROVE IInv'
    BY <1>0, <1>1, WorkerBegun, WorkerWrites, WorkerOrder, WorkerTells DEF IInv
  <1>2. CASE Expire \/ UNCHANGED vars
    <2>1. UNCHANGED <<session, stream, worker, poster>>
      BY <1>2 DEF Expire, vars
    <2>2. Begun' /\ CreatesFirst' /\ CreatesAlone'
      BY <2>1 DEF IInv, Begun, CreatesFirst, CreatesAlone, session, worker, poster
    <2>3. QED
      BY <1>0, <2>1, <2>2, MessageStep DEF IInv, session, worker
  <1>3. CASE DeleteSession
    <2>1. /\ UNCHANGED <<content, stream, worker, poster>>
          /\ \A e \in Exchange : status'[e] = IF status[e] = "none" THEN "none" ELSE "gone"
      BY <1>3 DEF DeleteSession
    <2>2. Begun' /\ CreatesFirst' /\ CreatesAlone'
      BY <2>1 DEF IInv, Begun, CreatesFirst, CreatesAlone, worker, poster
    <2>3. QED
      BY <1>0, <2>1, <2>2, MessageStep DEF IInv, worker
  <1>4. CASE Crash
    BY <1>0, <1>4, CrashInv DEF IInv
  <1>5. QED
    BY <1>1, <1>2, <1>3, <1>4, PosterInv, TitleInv DEF Next

\* Whatever requests, providers, titles, deletions and restarts do, the end of a
\* stream is what the history shows (exchange_runner.py puts done or error after
\* the message is written).
THEOREM StreamTells == Spec => []StreamTellsMessage
  <1>1. IInv => StreamTellsMessage
    BY DEF IInv
  <1>2. QED
    BY InitInv, StepInv, <1>1, PTL DEF Spec

\* However often a reader comes back, an answer starts once in its stream and
\* nothing follows its end.
THEOREM StreamReads == Spec => []StreamReadsOnce
  <1>1. IInv => StreamReadsOnce
    BY DEF IInv
  <1>2. QED
    BY InitInv, StepInv, <1>1, PTL DEF Spec

-----------------------------------------------------------------------------
(* One worker answers *)

\* Requests that do not overlap on the server.
Serial == \A p, q \in Poster : p = q

\* The registry holds the stream that is being answered, and a request that is
\* about to begin an exchange has found it empty.
SerialInv ==
  /\ \A e \in Exchange : Answering(e) => registry = e
  /\ \A e \in Exchange : isDone[e] => wpc[e] = "ended"
  /\ \A p \in Poster : ppc[p] \in {"begin", "create"} => registry = None

LEMMA StepSerial == Serial /\ IInv /\ SerialInv /\ [Next]_vars => SerialInv'
  <1> SUFFICES ASSUME Serial, IInv, SerialInv, [Next]_vars PROVE SerialInv'
    OBVIOUS
  <1> USE DEF SerialInv, Answering, session, stream, worker, poster
  <1>0. TypeOK /\ TypeOK'
    BY StepTyped DEF IInv
  <1>1. ASSUME NEW p \in Poster, Post(p) \/ Leave(p) PROVE SerialInv'
    BY <1>0, <1>1 DEF Post, Leave, PosterAt, TypeOK
  <1>2. ASSUME NEW p \in Poster, Lookup(p) PROVE SerialInv'
    BY <1>0, <1>2 DEF Lookup, PosterAt, TypeOK
  <1>3. ASSUME NEW p \in Poster, BeginExchange(p) PROVE SerialInv'
    <2>1. /\ UNCHANGED <<registry, isDone, wpc>>
          /\ registry = None
      BY <1>3 DEF BeginExchange
    <2>2. QED
      BY <2>1
  <1>4. ASSUME NEW p \in Poster, CreateStream(p) PROVE SerialInv'
    <2>1. /\ registry = None /\ registry' = pex[p] /\ pex[p] \in Exchange
          /\ wpc' = [wpc EXCEPT ![pex[p]] = "resolve"] /\ wpc[pex[p]] = "none"
          /\ ppc'[p] = "joined" /\ isDone' = isDone
      BY <1>0, <1>4 DEF CreateStream, WorkerAt, PosterAt, TypeOK, IInv, CreatesFirst
    <2>2. \A e \in Exchange : ~Answering(e)
      BY <2>1 DEF None, Exchange
    <2>3. \A q \in Poster : q = p
      BY <1>4 DEF Serial
    <2>4. QED
      BY <1>0, <2>1, <2>2, <2>3 DEF TypeOK
  <1>5. ASSUME NEW e \in Exchange, Work(e) PROVE SerialInv'
    <2>1. registry = e /\ registry' = registry /\ ppc' = ppc /\ wpc[e] # "ended"
      BY <1>0, <1>5, WorkerFrame
    <2>2. \A d \in Exchange : d # e => wpc'[d] = wpc[d]
      BY <1>0, <1>5, WorkerFrame
    <2>3. CASE Complete(e)
      BY <1>0, <2>1, <2>2, <2>3 DEF Complete, WorkerAt, TypeOK
    <2>4. CASE ~Complete(e)
      <3>1. isDone' = isDone
        BY <1>5, <2>4 DEF Work, Resolve, Begin, Attempt, Delta, ProviderDone,
                          ProviderFails, CheckSession, WriteMessage, Emit
      <3>2. QED
        BY <2>1, <2>2, <3>1
    <2>5. QED
      BY <2>3, <2>4
  <1>6. ASSUME NEW e \in Exchange, TitleEnds(e) PROVE SerialInv'
    BY <1>6 DEF TitleEnds
  <1>7. CASE Expire
    BY <1>7 DEF Expire
  <1>8. CASE DeleteSession
    BY <1>8 DEF DeleteSession
  <1>9. CASE Crash
    BY <1>9 DEF Crash
  <1>10. CASE UNCHANGED vars
    BY <1>10 DEF vars
  <1>11. QED
    BY <1>1, <1>2, <1>3, <1>4, <1>5, <1>6, <1>7, <1>8, <1>9, <1>10 DEF Next, Serve

\* While the POSTs of a group do not overlap on the server, two workers never
\* answer the same question at once, whatever is lost, forgotten or restarted.
THEOREM StreamAnswersOnce == Spec => [](Serial => OneAnswerPerGroup)
  <1> DEFINE SInv == IInv /\ (Serial => SerialInv)
  <1>1. Init => SInv
    BY InitInv DEF Init, SerialInv, Answering
  <1>2. SInv /\ [Next]_vars => SInv'
    BY StepInv, StepSerial DEF Serial
  <1>3. SInv => (Serial => OneAnswerPerGroup)
    BY DEF SerialInv, OneAnswerPerGroup
  <1>4. QED
    BY <1>1, <1>2, <1>3, PTL DEF Spec

-----------------------------------------------------------------------------
(* The client and its server are a server with some request threads *)

LEMMA ClientStepImplements == [ClientNext]_clientVars => [Next]_vars
  <1> SUFFICES ASSUME [ClientNext]_clientVars PROVE [Next]_vars
    OBVIOUS
  <1>1. ASSUME NEW p \in Poster, Send(p) \/ Serving(p) \/ Leaving(p)
        PROVE  [Next]_vars
    BY <1>1 DEF Send, Serving, Leaving, Next
  <1>2. ASSUME NEW e \in Exchange, Working(e) \/ Titling(e)
        PROVE  [Next]_vars
    BY <1>2 DEF Working, Titling, Next
  <1>3. CASE Connect \/ Refused \/ Read \/ End \/ Break
    BY <1>3 DEF Connect, Refused, Read, End, Break
  <1>4. CASE Deleting \/ Crashing
    BY <1>4 DEF Deleting, Crashing, Next
  <1>5. CASE UNCHANGED clientVars
    BY <1>5 DEF clientVars
  <1>6. QED
    BY <1>1, <1>2, <1>3, <1>4, <1>5 DEF ClientNext

\* Whatever the client does with its connections, the server behaves as a
\* server: the client only chooses when requests come and go.
THEOREM ClientImplementsStream == ClientSpec => Spec
  <1>1. ClientInit => Init
    BY DEF ClientInit
  <1>2. QED
    BY <1>1, ClientStepImplements, PTL DEF ClientSpec, Spec

-----------------------------------------------------------------------------
(* The client's state *)

\* A connection is a request thread that has joined the stream, or whose
\* process has gone; only a client that has been told nothing tries again.
Connection ==
  /\ cpost \in Poster /\ cidx \in Nat /\ cursor \in Nat
  /\ told \in {"none", "done", "error", "recovered"}
  /\ cpc \in {"idle", "waiting", "retry"} => told = "none"
  /\ cpc = "reading" => cex \in Exchange /\ ppc[cpost] \in {"joined", "idle"}

Joined == \A p \in Poster : ppc[p] = "joined" => pex[p] \in Exchange

Told == told \in {"done", "error"}

\* The exchange the client was told about is over: its worker has nothing left
\* to write, in this life of the process or the next.
OverForGood ==
  Told =>
    /\ cex \in Exchange /\ status[cex] # "none"
    /\ wpc[cex] \in {"none", "complete", "ended"}
    /\ \A p \in Poster : ppc[p] = "create" => pex[p] # cex

\* While the connection lasts, the terminal event is behind the client.
PastTheEnd ==
  Told /\ cpc = "reading" /\ ppc[cpost] = "joined" =>
    \E i \in DOMAIN events[cex] : i <= cidx /\ events[cex][i] \in TerminalKind

CInv == IInv /\ Connection /\ Joined /\ OverForGood /\ PastTheEnd /\ ToldIsKept

LEMMA ClientInitInv == ClientInit => CInv
  BY InitInv
  DEF ClientInit, Init, CInv, Connection, Joined, Told, OverForGood, PastTheEnd,
      ToldIsKept

-----------------------------------------------------------------------------
(* The server's steps *)

\* A request thread's step leaves the client's connection and its end alone.
LEMMA ServingInv ==
  ASSUME CInv, NEW p \in Poster, Serving(p) \/ Leaving(p)
  PROVE  CInv'
  <1> USE DEF CInv
  <1>0. TypeOK /\ TypeOK' /\ IInv'
    BY PosterInv DEF Serving, Leaving, IInv
  <1>1. UNCHANGED client /\ UNCHANGED <<stream, content>>
    BY DEF Serving, Leaving, Serve, Lookup, BeginExchange, CreateStream, Leave, session
  <1>2. PICK pc, x : /\ PosterAt(p, pc, x)
                     /\ \/ pc = "joined" /\ x \in Exchange
                        \/ pc = "create" /\ status[x] = "none" /\ x \in Exchange
                        \/ pc \in {"begin", "refused", "idle"}
    <2>1. CASE Lookup(p)
      <3>1. CASE registry # None
        BY <1>0, <2>1, <3>1 DEF Lookup, TypeOK
      <3>2. CASE registry = None
        BY <2>1, <3>2 DEF Lookup
      <3>3. QED
        BY <3>1, <3>2
    <2>2. CASE BeginExchange(p)
      BY <2>2 DEF BeginExchange, Unused
    <2>3. CASE CreateStream(p)
      BY <2>3 DEF CreateStream, IInv, CreatesFirst
    <2>4. CASE Leave(p)
      BY <2>4 DEF Leave
    <2>5. QED
      BY <2>1, <2>2, <2>3, <2>4 DEF Serving, Leaving, Serve
  <1>3. ppc[p] \in {"lookup", "begin", "create"} \/ (Leave(p) /\ ~(Connected /\ p = cpost))
    BY DEF Serving, Leaving, Serve, Lookup, BeginExchange, CreateStream
  <1>4. /\ ppc' = [ppc EXCEPT ![p] = pc] /\ pex' = [pex EXCEPT ![p] = x]
        /\ DOMAIN ppc = Poster /\ DOMAIN pex = Poster
    BY <1>0, <1>2 DEF PosterAt, TypeOK
  <1>5. cpc = "reading" => ppc'[cpost] = ppc[cpost]
    <2>1. CASE p # cpost
      BY <1>4, <2>1
    <2>2. CASE p = cpost /\ cpc = "reading"
      <3>1. Leave(p) /\ ~Connected
        BY <1>3, <2>2 DEF Connection
      <3>2. QED
        BY <2>2, <3>1 DEF Leave, Connected
    <2>3. QED
      BY <2>1, <2>2
  <1>6. Connection'
    BY <1>1, <1>5 DEF Connection, client
  <1>7. Joined'
    BY <1>2, <1>4 DEF Joined
  <1>8. Told => /\ status'[cex] = status[cex] /\ wpc'[cex] = wpc[cex]
                /\ \A q \in Poster : ppc'[q] = "create" => pex'[q] # cex
    <2> SUFFICES ASSUME Told
                 PROVE  /\ status'[cex] = status[cex] /\ wpc'[cex] = wpc[cex]
                        /\ \A q \in Poster : ppc'[q] = "create" => pex'[q] # cex
      OBVIOUS
    <2>1. \A q \in Poster : ppc'[q] = "create" => pex'[q] # cex
      BY <1>2, <1>4 DEF OverForGood
    <2>2. CASE Lookup(p) \/ Leave(p)
      BY <2>1, <2>2 DEF Lookup, Leave, session, worker
    <2>3. CASE BeginExchange(p)
      BY <1>0, <2>1, <2>3 DEF BeginExchange, Unused, TypeOK, OverForGood, worker
    <2>4. CASE CreateStream(p)
      BY <1>0, <2>1, <2>4 DEF CreateStream, WorkerAt, TypeOK, OverForGood, session
    <2>5. QED
      BY <2>2, <2>3, <2>4 DEF Serving, Leaving, Serve
  <1>9. OverForGood' /\ ToldIsKept'
    BY <1>1, <1>8 DEF OverForGood, ToldIsKept, Told, client
  <1>10. PastTheEnd'
    BY <1>1, <1>5 DEF PastTheEnd, Told, client, stream
  <1>11. QED
    BY <1>0, <1>6, <1>7, <1>9, <1>10

\* A worker writes nothing to an exchange that is over, and takes no event back.
LEMMA WorkingInv ==
  ASSUME CInv, NEW e \in Exchange, Working(e)
  PROVE  CInv'
  <1> USE DEF CInv
  <1>0. TypeOK /\ IInv'
    BY StepInv DEF Working, IInv, Next
  <1>1. UNCHANGED client /\ UNCHANGED <<ppc, pex>> /\ Work(e)
    BY <1>0, WorkerFrame DEF Working
  <1>2. Connection' /\ Joined'
    BY <1>1 DEF Connection, Joined, client
  <1>3. CASE Complete(e)
    <2>1. /\ UNCHANGED <<session, events>>
          /\ wpc' = [wpc EXCEPT ![e] = "ended"]
      BY <1>3 DEF Complete, WorkerAt
    <2>2. OverForGood' /\ ToldIsKept' /\ PastTheEnd'
      BY <1>0, <1>1, <2>1
      DEF OverForGood, ToldIsKept, PastTheEnd, Told, client, session, TypeOK
    <2>3. QED
      BY <1>0, <1>2, <2>2
  <1>4. CASE ~Complete(e)
    <2>1. Told => cex # e
      BY <1>0, <1>1, <1>4, WorkerFrame DEF OverForGood
    <2>2. OverForGood' /\ ToldIsKept' /\ PastTheEnd'
      BY <1>0, <1>1, <2>1, WorkerFrame
      DEF OverForGood, ToldIsKept, PastTheEnd, Told, client
    <2>3. QED
      BY <1>0, <1>2, <2>2
  <1>5. QED
    BY <1>3, <1>4

LEMMA TitlingInv ==
  ASSUME CInv, NEW e \in Exchange, Titling(e)
  PROVE  CInv'
  <1> USE DEF CInv
  <1>0. TypeOK /\ IInv'
    BY TitleInv DEF Titling, IInv
  <1>1. UNCHANGED client /\ UNCHANGED <<session, worker, poster>>
    BY DEF Titling, TitleEnds
  <1>2. \A d \in Exchange : \A i \in DOMAIN events[d] :
          i \in DOMAIN events'[d] /\ events'[d][i] = events[d][i]
    <2> DEFINE kinds == <<"session_title">>
    <2>1. kinds \in Seq(EventKind)
      BY DEF EventKind
    <2>2. events' = events \/ Append1(e, kinds)
      BY DEF Titling, TitleEnds
    <2> HIDE DEF kinds
    <2>3. CASE Append1(e, kinds)
      <3>1. /\ events'[e] = events[e] \o kinds
            /\ \A d \in Exchange : d # e => events'[d] = events[d]
        BY <1>0, <2>1, <2>3, AppendTyped
      <3>2. events[e] \in Seq(EventKind)
        BY <1>0 DEF TypeOK
      <3>3. \A i \in DOMAIN events[e] : /\ i \in DOMAIN (events[e] \o kinds)
                                        /\ (events[e] \o kinds)[i] = events[e][i]
        BY <2>1, <3>2, ConcatProperties, LenProperties
      <3>4. QED
        BY <3>1, <3>3
    <2>4. QED
      BY <2>2, <2>3
  <1>3. Connection' /\ Joined' /\ OverForGood' /\ ToldIsKept'
    BY <1>1 DEF Connection, Joined, OverForGood, ToldIsKept, Told, client, session,
                worker, poster
  <1>4. PastTheEnd'
    BY <1>1, <1>2 DEF PastTheEnd, Told, Connection, client, poster
  <1>5. QED
    BY <1>0, <1>3, <1>4

LEMMA WorldInv ==
  ASSUME CInv, Deleting \/ Crashing
  PROVE  CInv'
  <1> USE DEF CInv
  <1>0. TypeOK /\ IInv' /\ UNCHANGED client
    BY StepInv DEF Deleting, Crashing, IInv, Next
  <1>1. CASE Deleting
    <2>1. /\ UNCHANGED <<stream, worker, poster, content>>
          /\ status' = [e \in Exchange |-> IF status[e] = "none" THEN "none" ELSE "gone"]
      BY <1>1 DEF Deleting, DeleteSession
    <2>2. QED
      BY <1>0, <2>1 DEF Connection, Joined, OverForGood, PastTheEnd, ToldIsKept, Told,
                        client, stream, worker, poster
  <1>2. CASE Crashing
    BY <1>0, <1>2 DEF Crashing, Crash, Connection, Joined, OverForGood, PastTheEnd,
                      ToldIsKept, Told, client, session
  <1>3. QED
    BY <1>1, <1>2

-----------------------------------------------------------------------------
(* The client's steps *)

LEMMA SendInv ==
  ASSUME CInv, NEW p \in Poster, Send(p)
  PROVE  CInv'
  <1>1. TypeOK /\ IInv' /\ Post(p) /\ told = "none"
    BY PosterInv DEF Send, CInv, IInv, Connection
  <1>2. /\ cpc' = "waiting" /\ cpost' = p /\ UNCHANGED <<cidx, cursor>> /\ told' = "none"
    BY <1>1 DEF Send, ClientAt
  <1>3. Joined'
    BY <1>1 DEF Post, PosterAt, CInv, Joined, TypeOK
  <1>4. QED
    BY <1>1, <1>2, <1>3
    DEF CInv, Connection, OverForGood, PastTheEnd, ToldIsKept, Told

LEMMA ConnectInv == CInv /\ Connect => CInv'
  <1> SUFFICES ASSUME CInv, Connect PROVE CInv'
    OBVIOUS
  <1>1. TypeOK /\ UNCHANGED vars /\ told = "none" /\ told' = told
    BY DEF Connect, CInv, IInv, Connection
  <1>2. IInv' /\ Joined'
    BY <1>1, StepInv DEF CInv, Joined, vars, poster
  <1>3. cex' \in Exchange /\ ppc[cpost] = "joined" /\ cpost' = cpost
    BY DEF Connect, CInv, Joined, Connection
  <1>4. cidx' \in Nat
    <2>1. events[cex'] \in Seq(EventKind)
      BY <1>1, <1>3 DEF TypeOK
    <2>2. QED
      BY <2>1, LenProperties DEF Connect, CInv, Connection
  <1>5. QED
    BY <1>1, <1>2, <1>3, <1>4
    DEF CInv, Connect, ClientAt, Connection, OverForGood, PastTheEnd, ToldIsKept, Told,
        vars, poster

\* The end of a connection: the client may call the answer done by itself, but
\* it tries again only if it has been told nothing.
LEMMA EndInv == CInv /\ (Refused \/ End \/ Break) => CInv'
  <1> SUFFICES ASSUME CInv, Refused \/ End \/ Break PROVE CInv'
    OBVIOUS
  <1>1. /\ UNCHANGED <<vars, cpost, cex, cidx, cursor, answer>>
        /\ cpc' \in {"done", "failed", "retry"}
        /\ told' = told \/ told' = "recovered"
        /\ cpc' = "retry" => told' = "none"
    BY DEF Refused, End, Break, Retry, ClientAt, CInv, Connection
  <1>2. IInv' /\ Joined'
    BY <1>1, StepInv DEF CInv, Joined, vars, poster
  <1>3. Connection' /\ PastTheEnd'
    BY <1>1 DEF CInv, Connection, PastTheEnd
  <1>4. OverForGood' /\ ToldIsKept'
    BY <1>1 DEF CInv, OverForGood, ToldIsKept, Told, vars, session, worker, poster
  <1>5. QED
    BY <1>1, <1>2, <1>3, <1>4 DEF CInv, Connection

\* The terminal event comes with the text of the message, and after it nothing
\* but a title is read.
LEMMA ReadInv == CInv /\ Read => CInv'
  <1> SUFFICES ASSUME CInv, Read PROVE CInv'
    OBVIOUS
  <1> USE DEF CInv
  <1> DEFINE kind == events[cex][cidx']
  <1>1. /\ UNCHANGED <<vars, cpc, cpost, cex>>
        /\ cpc = "reading" /\ ppc[cpost] = "joined" /\ cex \in Exchange
        /\ cidx \in Nat /\ cidx' = cidx + 1
    BY DEF Read, Connection
  <1>2. IInv' /\ Joined' /\ TypeOK
    BY <1>1, StepInv DEF Joined, vars, poster, IInv
  <1>3. cidx' \in DOMAIN events[cex]
    <2>1. events[cex] \in Seq(EventKind)
      BY <1>1, <1>2 DEF TypeOK
    <2>2. QED
      BY <1>1, <2>1, LenProperties DEF Read
  <1>4. Connection'
    BY <1>1 DEF Read, Connection, vars, poster
  <1>5. CASE Told
    <2>1. PICK i \in DOMAIN events[cex] : i <= cidx /\ events[cex][i] \in TerminalKind
      BY <1>1, <1>5 DEF PastTheEnd
    <2>2. i < cidx' /\ i <= cidx'
      <3>1. events[cex] \in Seq(EventKind)
        BY <1>1, <1>2 DEF TypeOK
      <3>2. QED
        BY <1>1, <2>1, <3>1, LenProperties
    <2>3. kind = "session_title"
      BY <1>1, <1>3, <2>1, <2>2 DEF IInv, StreamReadsOnce, MayFollow, TerminalKind
    <2>4. answer' = answer /\ told' = told
      BY <2>3 DEF Read
    <2>5. PastTheEnd'
      BY <1>1, <2>1, <2>2 DEF PastTheEnd, vars, stream
    <2>6. OverForGood' /\ ToldIsKept'
      BY <1>1, <2>4 DEF OverForGood, ToldIsKept, Told, vars, session, worker, poster
    <2>7. QED
      BY <1>2, <1>4, <2>5, <2>6
  <1>6. CASE ~Told /\ kind \notin TerminalKind
    <2>1. ~Told'
      BY <1>6 DEF Read, Told, TerminalKind
    <2>2. QED
      BY <1>2, <1>4, <2>1 DEF OverForGood, PastTheEnd, ToldIsKept, Told
  <1>7. CASE ~Told /\ kind \in TerminalKind
    <2>1. told' = kind /\ wpc[cex] \in {"complete", "ended"}
      BY <1>1, <1>3, <1>7 DEF Read, TerminalKind, IInv, Closed
    <2>2. /\ kind = "done" => \/ status[cex] = "done" /\ content[cex] = answer'
                              \/ status[cex] = "gone"
          /\ kind = "error" => status[cex] \in {"provider_error", "gone"}
      <3>1. CASE kind = "done"
        <4>1. answer' = IF outcome[cex] = "error" THEN Notice ELSE frags[cex]
          BY <3>1, Zenon DEF Read
        <4>2. QED
          BY <1>1, <1>3, <3>1, <4>1 DEF IInv, StreamTellsMessage, Emitted, Announced
      <3>2. CASE kind = "error"
        BY <1>1, <1>3, <3>2 DEF IInv, StreamTellsMessage, Emitted
      <3>3. QED
        BY <3>1, <3>2
    <2>3. OverForGood'
      BY <1>1, <1>7, <2>1, <2>2
      DEF IInv, CreatesFirst, OverForGood, TerminalKind, vars, session, worker, poster
    <2>4. PastTheEnd'
      BY <1>1, <1>3, <1>7 DEF PastTheEnd, vars, stream
    <2>5. ToldIsKept'
      BY <1>1, <1>7, <2>1, <2>2 DEF ToldIsKept, TerminalKind, vars, session
    <2>6. QED
      BY <1>2, <1>4, <2>3, <2>4, <2>5
  <1>8. QED
    BY <1>5, <1>6, <1>7

LEMMA ClientStepInv == CInv /\ [ClientNext]_clientVars => CInv'
  <1> SUFFICES ASSUME CInv, [ClientNext]_clientVars PROVE CInv'
    OBVIOUS
  <1>1. CASE UNCHANGED clientVars
    <2>1. IInv'
      BY <1>1, StepInv DEF CInv, clientVars
    <2>2. QED
      BY <1>1, <2>1 DEF CInv, Connection, Joined, OverForGood, PastTheEnd, ToldIsKept,
                        Told, clientVars, client, vars, session, stream, worker, poster
  <1>2. QED
    BY <1>1, SendInv, ConnectInv, EndInv, ReadInv, ServingInv, WorkingInv, TitlingInv,
       WorldInv
    DEF ClientNext

\* When the server has told the client that the answer is done, or has failed,
\* the history of the session shows the very answer, or the error: with any
\* number of tries, overlapping requests, second exchanges, lost connections,
\* titles, restarts and a deleted session.
THEOREM ClientTold == ClientSpec => []ToldIsKept
  <1>1. CInv => ToldIsKept
    BY DEF CInv
  <1>2. QED
    BY ClientInitInv, ClientStepInv, <1>1, PTL DEF ClientSpec

-----------------------------------------------------------------------------
(* The pieces of an answer that a stream has sent *)

Deltas(q, n) == {i \in 1..n : q[i] = "answer_delta"}
Sent(q, n)   == Cardinality(Deltas(q, n))

LEMMA SentGrows ==
  ASSUME NEW q, NEW n \in Nat, NEW m \in Nat, n <= m
  PROVE  /\ IsFiniteSet(Deltas(q, n)) /\ Sent(q, n) \in Nat
         /\ Sent(q, n) <= Sent(q, m)
  <1>1. IsFiniteSet(1..m) /\ IsFiniteSet(1..n)
    BY FS_Interval
  <1>2. IsFiniteSet(Deltas(q, m)) /\ IsFiniteSet(Deltas(q, n))
    BY <1>1, FS_Subset, Deltas(q, m) \subseteq 1..m, Deltas(q, n) \subseteq 1..n DEF Deltas
  <1>3. Deltas(q, n) \subseteq Deltas(q, m)
    BY DEF Deltas
  <1>4. QED
    BY <1>2, <1>3, FS_Subset, FS_CardinalityType DEF Sent

LEMMA SentNext ==
  ASSUME NEW q, NEW n \in Nat
  PROVE  /\ q[n + 1] = "answer_delta" => Sent(q, n + 1) = Sent(q, n) + 1
         /\ q[n + 1] # "answer_delta" => Sent(q, n + 1) = Sent(q, n)
  <1>1. IsFiniteSet(Deltas(q, n))
    BY SentGrows
  <1>2. CASE q[n + 1] = "answer_delta"
    <2>1. Deltas(q, n + 1) = Deltas(q, n) \cup {n + 1} /\ n + 1 \notin Deltas(q, n)
      BY <1>2 DEF Deltas
    <2>2. QED
      BY <1>1, <1>2, <2>1, FS_AddElement DEF Sent
  <1>3. CASE q[n + 1] # "answer_delta"
    <2>1. Deltas(q, n + 1) = Deltas(q, n)
      BY <1>3 DEF Deltas
    <2>2. QED
      BY <1>3, <2>1 DEF Sent
  <1>4. QED
    BY <1>2, <1>3

LEMMA SentSame ==
  ASSUME NEW q, NEW r, NEW n \in Nat, \A i \in 1..n : q[i] = r[i]
  PROVE  Sent(q, n) = Sent(r, n)
  <1>1. Deltas(q, n) = Deltas(r, n)
    BY DEF Deltas
  <1>2. QED
    BY <1>1 DEF Sent

\* A few events without a piece, or with one, are appended.
LEMMA SentAppended ==
  ASSUME NEW q \in Seq(EventKind), NEW kinds \in Seq(EventKind)
  PROVE  /\ (\A i \in DOMAIN kinds : kinds[i] # "answer_delta") =>
              Sent(q \o kinds, Len(q \o kinds)) = Sent(q, Len(q))
         /\ \A j \in DOMAIN kinds :
              (\A i \in DOMAIN kinds : kinds[i] = "answer_delta" <=> i = j) =>
                Sent(q \o kinds, Len(q \o kinds)) = Sent(q, Len(q)) + 1
  <1> DEFINE r == q \o kinds
  <1>1. /\ Len(q) \in Nat /\ Len(kinds) \in Nat /\ Len(r) = Len(q) + Len(kinds)
        /\ DOMAIN kinds = 1..Len(kinds)
    BY ConcatProperties, LenProperties
  <1>2. /\ \A i \in 1..Len(q) : r[i] = q[i]
        /\ \A i \in 1..Len(r) : i > Len(q) => /\ i - Len(q) \in DOMAIN kinds
                                              /\ r[i] = kinds[i - Len(q)]
        /\ \A j \in DOMAIN kinds : Len(q) + j \in 1..Len(r) /\ Len(q) + j > Len(q)
                                   /\ (Len(q) + j) - Len(q) = j
    BY <1>1, ConcatProperties
  <1> HIDE DEF r
  <1>3. IsFiniteSet(Deltas(q, Len(q)))
    BY <1>1, SentGrows
  <1>4. ASSUME \A i \in DOMAIN kinds : kinds[i] # "answer_delta"
        PROVE  Sent(r, Len(r)) = Sent(q, Len(q))
    <2>1. \A i \in 1..Len(r) : i \in 1..Len(q) \/ r[i] # "answer_delta"
      <3>1. \A i \in 1..Len(r) : i \in 1..Len(q) \/ i > Len(q)
        BY <1>1
      <3>2. QED
        BY <1>2, <1>4, <3>1
    <2>2. 1..Len(q) \subseteq 1..Len(r)
      BY <1>1
    <2>3. Deltas(r, Len(r)) = Deltas(q, Len(q))
      BY <1>2, <2>1, <2>2 DEF Deltas
    <2>4. QED
      BY <2>3 DEF Sent
  <1>5. ASSUME NEW j \in DOMAIN kinds,
               \A i \in DOMAIN kinds : kinds[i] = "answer_delta" <=> i = j
        PROVE  Sent(r, Len(r)) = Sent(q, Len(q)) + 1
    <2>1. Len(q) + j \notin Deltas(q, Len(q))
      BY <1>1, <1>2 DEF Deltas
    <2>2. ASSUME NEW i \in 1..Len(r), i > Len(q)
          PROVE  r[i] = "answer_delta" <=> i = Len(q) + j
      <3>1. i - Len(q) \in DOMAIN kinds /\ r[i] = kinds[i - Len(q)]
        BY <1>2, <2>2
      <3>2. r[i] = "answer_delta" <=> i - Len(q) = j
        BY <1>5, <3>1
      <3>3. i \in Int /\ j \in Int
        BY <1>1, <1>5
      <3>4. QED
        BY <1>1, <3>2, <3>3
    <2>3. \A i \in 1..Len(r) : i \in 1..Len(q) \/ i > Len(q)
      BY <1>1
    <2>4. 1..Len(q) \subseteq 1..Len(r)
      BY <1>1
    <2>5. Deltas(r, Len(r)) = Deltas(q, Len(q)) \cup {Len(q) + j}
      BY <1>2, <2>2, <2>3, <2>4, <1>5 DEF Deltas
    <2>6. QED
      BY <1>3, <2>1, <2>5, FS_AddElement DEF Sent
  <1>6. QED
    BY <1>4, <1>5 DEF r

-----------------------------------------------------------------------------
(* What the stream has sent is the worker's answer, and ends with it *)

FinalKind == {"metadata", "done"}

Counted == \A e \in Exchange : Sent(events[e], Len(events[e])) = frags[e]

Final ==
  \A e \in Exchange : \A i \in DOMAIN events[e] :
    events[e][i] \in FinalKind =>
      /\ wpc[e] \in {"complete", "ended"}
      /\ \A j \in DOMAIN events[e] : j > i => events[e][j] # "answer_delta"

\* What a step of a worker, or of its title thread, does to the streams.
LEMMA AppendCounted ==
  ASSUME TypeOK, Counted, NEW e \in Exchange, NEW kinds \in Seq(EventKind), Append1(e, kinds),
         \A d \in Exchange : d # e => frags'[d] = frags[d],
         \/ frags'[e] = frags[e] /\ \A i \in DOMAIN kinds : kinds[i] # "answer_delta"
         \/ /\ frags'[e] = frags[e] + 1
            /\ \E j \in DOMAIN kinds :
                 \A i \in DOMAIN kinds : kinds[i] = "answer_delta" <=> i = j
  PROVE  Counted'
  <1>1. events[e] \in Seq(EventKind) /\ events'[e] = events[e] \o kinds
        /\ \A d \in Exchange : d # e => events'[d] = events[d]
    BY AppendTyped DEF TypeOK
  <1>2. Sent(events'[e], Len(events'[e])) = frags'[e]
    <2>1. Sent(events[e], Len(events[e])) = frags[e]
      BY DEF Counted
    <2>2. CASE frags'[e] = frags[e] /\ \A i \in DOMAIN kinds : kinds[i] # "answer_delta"
      BY <1>1, <2>1, <2>2, SentAppended
    <2>3. ASSUME NEW j \in DOMAIN kinds, frags'[e] = frags[e] + 1,
                 \A i \in DOMAIN kinds : kinds[i] = "answer_delta" <=> i = j
          PROVE  Sent(events'[e], Len(events'[e])) = frags'[e]
      BY ZenonT(40), <1>1, <2>1, <2>3, SentAppended
    <2>4. QED
      BY <2>2, <2>3
  <1>3. \A d \in Exchange : d # e => Sent(events'[d], Len(events'[d])) = frags'[d]
    BY <1>1 DEF Counted
  <1>4. ASSUME NEW d \in Exchange PROVE Sent(events[d], Len(events[d]))' = frags[d]'
    BY <1>2, <1>3
  <1>5. QED
    BY <1>4 DEF Counted

LEMMA AppendFinal ==
  ASSUME TypeOK, Final, NEW e \in Exchange, NEW kinds \in Seq(EventKind), Append1(e, kinds),
         \A d \in Exchange : d # e => wpc'[d] = wpc[d],
         wpc[e] \in {"complete", "ended"} => wpc'[e] = wpc[e],
         \/ wpc[e] \notin {"complete", "ended"}
         \/ \A i \in DOMAIN kinds : kinds[i] = "session_title",
         \/ wpc'[e] \in {"complete", "ended"}
            /\ \A i \in DOMAIN kinds : kinds[i] # "answer_delta"
         \/ \A i \in DOMAIN kinds : kinds[i] \notin FinalKind
  PROVE  Final'
  <1> SUFFICES ASSUME NEW d \in Exchange, NEW i \in DOMAIN events'[d],
                      events'[d][i] \in FinalKind
               PROVE  /\ wpc'[d] \in {"complete", "ended"}
                      /\ \A j \in DOMAIN events'[d] : j > i => events'[d][j] # "answer_delta"
    BY DEF Final, FinalKind
  <1>1. CASE d # e
    <2>1. events'[d] = events[d]
      BY <1>1, AppendTyped
    <2>2. QED
      BY <1>1, <2>1 DEF Final
  <1>2. CASE d = e /\ i \in DOMAIN events[e]
    <2>1. events'[e][i] = events[e][i]
      BY <1>2, AppendedEvent
    <2>2. wpc[e] \in {"complete", "ended"}
          /\ \A j \in DOMAIN events[e] : j > i => events[e][j] # "answer_delta"
      BY <1>2, <2>1 DEF Final
    <2>3. \A j \in DOMAIN events'[e] : j > i => events'[e][j] # "answer_delta"
      BY <2>2, AppendedEvent
    <2>4. QED
      BY <1>2, <2>2, <2>3
  <1>3. CASE d = e /\ i \notin DOMAIN events[e]
    <2>1. i > Len(events[e]) /\ i - Len(events[e]) \in DOMAIN kinds
          /\ events'[e][i] = kinds[i - Len(events[e])]
      BY <1>3, AppendedEvent
    <2>2. /\ wpc'[e] \in {"complete", "ended"}
          /\ \A k \in DOMAIN kinds : kinds[k] # "answer_delta"
      BY <1>3, <2>1 DEF FinalKind
    <2>3. \A j \in DOMAIN events'[e] : j > i => j \notin DOMAIN events[e]
      <3>1. events[e] \in Seq(EventKind) /\ events'[e] \in Seq(EventKind)
        BY AppendTyped DEF TypeOK
      <3>2. Len(events[e]) \in Nat /\ DOMAIN events[e] = 1..Len(events[e])
            /\ DOMAIN events'[e] = 1..Len(events'[e]) /\ Len(events'[e]) \in Nat
        BY <3>1, LenProperties
      <3>3. QED
        BY <1>3, <2>1, <3>2
    <2>4. QED
      BY <1>3, <2>2, <2>3, AppendedEvent
  <1>4. QED
    BY <1>1, <1>2, <1>3

-----------------------------------------------------------------------------
LEMMA WorkerCounts ==
  ASSUME IInv, Counted, Final, NEW e \in Exchange, Work(e)
  PROVE  Counted' /\ Final'
  <1> USE DEF session, stream, worker, poster, WorkerAt
  <1>0. TypeOK
    BY DEF IInv
  <1>1. /\ \A d \in Exchange : d # e => wpc'[d] = wpc[d] /\ frags'[d] = frags[d]
        /\ wpc[e] = "complete" => Complete(e)
        /\ wpc[e] # "ended"
    BY <1>0, WorkerFrame
  <1>2. ASSUME events' = events, frags' = frags, wpc[e] = "complete" => wpc'[e] = "ended"
        PROVE  Counted' /\ Final'
    BY <1>1, <1>2 DEF Counted, Final
  <1>3. CASE Resolve(e) \/ ProviderDone(e) \/ ProviderFails(e) \/ CheckSession(e)
               \/ WriteMessage(e)
    BY <1>2, <1>3 DEF Resolve, ProviderDone, ProviderFails, CheckSession, WriteMessage
  <1>4. CASE Complete(e)
    BY <1>0, <1>2, <1>4 DEF Complete, TypeOK
  <1>5. ASSUME NEW kinds \in Seq(EventKind), Append1(e, kinds),
               wpc[e] \in {"begin", "attempt", "stream", "emit"},
               \/ frags'[e] = frags[e] /\ \A i \in DOMAIN kinds : kinds[i] # "answer_delta"
               \/ /\ frags'[e] = frags[e] + 1
                  /\ \E j \in DOMAIN kinds :
                       \A i \in DOMAIN kinds : kinds[i] = "answer_delta" <=> i = j,
               \/ /\ wpc'[e] \in {"complete", "ended"}
                  /\ \A i \in DOMAIN kinds : kinds[i] # "answer_delta"
               \/ \A i \in DOMAIN kinds : kinds[i] \notin FinalKind
        PROVE  Counted' /\ Final'
    <2>1. Counted'
      BY <1>0, <1>1, <1>5, AppendCounted
    <2>2. Final'
      BY <1>0, <1>1, <1>5, AppendFinal
    <2>3. QED
      BY <2>1, <2>2
  <1>6. CASE Begin(e)
    <2> DEFINE kinds == <<"message_start">>
    <2>1. /\ kinds \in Seq(EventKind)
          /\ \A i \in DOMAIN kinds : kinds[i] \notin FinalKind \cup {"answer_delta"}
      BY DEF EventKind, FinalKind
    <2>2. Append1(e, kinds) /\ wpc[e] = "begin" /\ frags' = frags
      BY <1>6 DEF Begin
    <2> HIDE DEF kinds
    <2>3. QED
      BY <1>5, <2>1, <2>2
  <1>7. CASE Attempt(e)
    <2> DEFINE kinds == <<IF attempt[e] = 1 THEN "connecting" ELSE "reconnecting">>
    <2>1. /\ kinds \in Seq(EventKind)
          /\ \A i \in DOMAIN kinds : kinds[i] \notin FinalKind \cup {"answer_delta"}
      BY DEF EventKind, FinalKind
    <2>2. Append1(e, kinds) /\ wpc[e] = "attempt" /\ frags'[e] = 0
      BY <1>0, <1>7 DEF Attempt, TypeOK
    <2>3. frags[e] = 0
      <3>1. \A i \in DOMAIN events[e] : events[e][i] # "answer_delta"
        BY <2>2 DEF IInv, Streamed, TokenKind
      <3>2. events[e] \in Seq(EventKind)
        BY <1>0 DEF TypeOK
      <3>3. Deltas(events[e], Len(events[e])) = {}
        BY <3>1, <3>2 DEF Deltas
      <3>4. QED
        BY <3>3, FS_EmptySet DEF Counted, Sent
    <2> HIDE DEF kinds
    <2>4. QED
      BY <1>5, <2>1, <2>2, <2>3
  <1>8. CASE Delta(e)
    <2>1. PICK kind \in {"answer_delta", "blank_delta"} :
            /\ Append1(e, IF first[e] THEN <<kind>> ELSE <<"streaming", kind>>)
            /\ frags' = [frags EXCEPT ![e] = IF kind = "blank_delta" THEN @ ELSE @ + 1]
      BY <1>8 DEF Delta
    <2>2. wpc[e] = "stream" /\ frags'[e] = IF kind = "blank_delta" THEN frags[e] ELSE frags[e] + 1
      BY <1>0, <1>8, <2>1 DEF Delta, TypeOK
    <2> DEFINE kinds == IF first[e] THEN <<kind>> ELSE <<"streaming", kind>>
    <2>3. /\ kinds \in Seq(EventKind)
          /\ \A i \in DOMAIN kinds : kinds[i] \notin FinalKind
      <3>1. CASE first[e]
        BY <3>1 DEF EventKind, FinalKind
      <3>2. CASE ~first[e]
        BY <3>2 DEF EventKind, FinalKind
      <3>3. QED
        BY <3>1, <3>2
    <2>4. CASE kind = "blank_delta"
      <3>1. \A i \in DOMAIN kinds : kinds[i] # "answer_delta"
        BY <2>4
      <3> HIDE DEF kinds
      <3>2. QED
        BY <1>5, <2>1, <2>2, <2>3, <2>4, <3>1 DEF kinds
    <2>5. CASE kind = "answer_delta"
      <3>1. \E j \in DOMAIN kinds : \A i \in DOMAIN kinds : kinds[i] = "answer_delta" <=> i = j
        <4>1. CASE first[e]
          <5>1. 1 \in DOMAIN kinds /\ \A i \in DOMAIN kinds : kinds[i] = "answer_delta" <=> i = 1
            BY <2>5, <4>1
          <5>2. QED
            BY <5>1
        <4>2. CASE ~first[e]
          <5>1. 2 \in DOMAIN kinds /\ \A i \in DOMAIN kinds : kinds[i] = "answer_delta" <=> i = 2
            BY <2>5, <4>2
          <5>2. QED
            BY <5>1
        <4>3. QED
          BY <4>1, <4>2
      <3>2. Append1(e, kinds)
        BY <2>1
      <3> HIDE DEF kinds
      <3>3. QED
        BY <1>5, <2>2, <2>3, <2>5, <3>1, <3>2
    <2>6. QED
      BY <2>4, <2>5
  <1>9. CASE Emit(e)
    <2> DEFINE kinds == IF outcome[e] = "error" THEN <<"metadata", "status_failed", "error">>
                                                ELSE <<"metadata", "status_done", "done">>
    <2>1. /\ kinds \in Seq(EventKind)
          /\ \A i \in DOMAIN kinds : kinds[i] # "answer_delta"
      <3>1. CASE outcome[e] = "error"
        BY <3>1 DEF EventKind
      <3>2. CASE outcome[e] # "error"
        BY <3>2 DEF EventKind
      <3>3. QED
        BY <3>1, <3>2
    <2>2. Append1(e, kinds) /\ wpc[e] = "emit" /\ wpc'[e] = "complete" /\ frags' = frags
      BY <1>0, <1>9 DEF Emit, TypeOK
    <2> HIDE DEF kinds
    <2>3. QED
      BY <1>5, <2>1, <2>2
  <1>10. QED
    BY <1>3, <1>4, <1>6, <1>7, <1>8, <1>9 DEF Work

LEMMA StepCounts == IInv /\ Counted /\ Final /\ [Next]_vars => Counted' /\ Final'
  <1> SUFFICES ASSUME IInv, Counted, Final, [Next]_vars PROVE Counted' /\ Final'
    OBVIOUS
  <1> USE DEF session, stream, worker, poster
  <1>0. TypeOK
    BY DEF IInv
  <1>1. ASSUME NEW e \in Exchange, TitleEnds(e) PROVE Counted' /\ Final'
    <2>1. CASE events' = events
      BY <1>1, <2>1 DEF TitleEnds, Counted, Final
    <2>2. CASE events' # events
      <3> DEFINE kinds == <<"session_title">>
      <3>1. kinds \in Seq(EventKind) /\ Append1(e, kinds)
            /\ \A i \in DOMAIN kinds : kinds[i] = "session_title"
        BY <1>1, <2>2 DEF TitleEnds, EventKind
      <3>2. UNCHANGED <<wpc, frags>>
        BY <1>1 DEF TitleEnds
      <3> HIDE DEF kinds
      <3>3. Counted'
        BY <1>0, <3>1, <3>2, AppendCounted
      <3>4. Final'
        BY <1>0, <3>1, <3>2, AppendFinal DEF FinalKind
      <3>5. QED
        BY <3>3, <3>4
    <2>3. QED
      BY <2>1, <2>2
  <1>2. CASE Crash
    <2>1. /\ \A e \in Exchange : events'[e] = <<>> /\ frags'[e] = 0
      BY <1>2 DEF Crash
    <2>2. \A e \in Exchange : Deltas(events'[e], Len(events'[e])) = {}
      BY <2>1 DEF Deltas
    <2>3. ASSUME NEW e \in Exchange PROVE Sent(events[e], Len(events[e]))' = frags[e]'
      BY <2>1, <2>2, FS_EmptySet DEF Sent
    <2>4. QED
      BY <2>1, <2>3 DEF Counted, Final
  <1>3. ASSUME NEW p \in Poster, CreateStream(p) PROVE Counted' /\ Final'
    <2>1. UNCHANGED <<events, frags>> /\ wpc' = [wpc EXCEPT ![pex[p]] = "resolve"]
          /\ pex[p] \in Exchange /\ wpc[pex[p]] = "none"
      BY <1>3 DEF CreateStream, WorkerAt, IInv, CreatesFirst
    <2>2. QED
      BY <1>0, <2>1 DEF Counted, Final, TypeOK
  <1>4. ASSUME UNCHANGED <<events, frags, wpc>> PROVE Counted' /\ Final'
    BY <1>4 DEF Counted, Final
  <1>5. ASSUME NEW p \in Poster, Post(p) \/ Lookup(p) \/ BeginExchange(p) \/ Leave(p)
        PROVE Counted' /\ Final'
    BY <1>4, <1>5 DEF Post, Lookup, BeginExchange, Leave
  <1>6. CASE Expire \/ DeleteSession \/ UNCHANGED vars
    BY <1>4, <1>6 DEF Expire, DeleteSession, vars
  <1>7. QED
    BY <1>1, <1>2, <1>3, <1>5, <1>6, WorkerCounts DEF Next, Serve

-----------------------------------------------------------------------------
(* What the client shows *)

\* Only a client that shows nothing connects, and what a connected one shows was
\* sent before its place in the stream, or is the text of the end.
Resting == cpc \in {"idle", "waiting", "retry"} => answer = 0

SentBefore ==
  \/ answer <= Sent(events[cex], cidx)
  \/ /\ \E i \in DOMAIN events[cex] : i <= cidx /\ events[cex][i] \in FinalKind
     /\ answer = frags[cex]
  \/ /\ \E i \in DOMAIN events[cex] : i <= cidx /\ events[cex][i] = "metadata"
     /\ answer = Notice

Shown ==
  /\ answer \in Nat
  /\ cpc = "reading" /\ ppc[cpost] = "joined" =>
       cidx <= Len(events[cex]) /\ SentBefore

SInv == CInv /\ Counted /\ Final /\ Resting /\ Shown

LEMMA ClientInitShown == ClientInit => SInv
  <1> SUFFICES ASSUME ClientInit PROVE SInv
    OBVIOUS
  <1>1. CInv
    BY ClientInitInv
  <1>2. \A e \in Exchange : events[e] = <<>> /\ frags[e] = 0
    BY DEF ClientInit, Init
  <1>3. \A e \in Exchange : Deltas(events[e], Len(events[e])) = {}
    BY <1>2 DEF Deltas
  <1>4. Counted /\ Final
    BY SMTT(40), <1>2, <1>3, FS_EmptySet DEF Counted, Final, Sent
  <1>5. Resting /\ Shown
    BY DEF ClientInit, Resting, Shown
  <1>6. QED
    BY <1>1, <1>4, <1>5 DEF SInv

\* A connected client keeps what it shows while the stream grows.
LEMMA ShownGrows ==
  ASSUME SInv, CInv', UNCHANGED client,
         cpc = "reading" /\ ppc'[cpost] = "joined" =>
           /\ ppc[cpost] = "joined"
           /\ Len(events[cex]) <= Len(events'[cex])
           /\ \A i \in DOMAIN events[cex] : i \in DOMAIN events'[cex]
                                            /\ events'[cex][i] = events[cex][i]
           /\ wpc[cex] \in {"complete", "ended"} => frags'[cex] = frags[cex]
  PROVE  Resting' /\ Shown'
  <1> USE DEF SInv
  <1>1. UNCHANGED <<cpc, cpost, cex, cidx, answer>>
    BY DEF client
  <1>2. Resting' /\ answer' \in Nat
    BY <1>1 DEF Resting, Shown
  <1> SUFFICES ASSUME cpc' = "reading", ppc'[cpost'] = "joined"
               PROVE  cidx' <= Len(events'[cex']) /\ SentBefore'
    BY <1>2 DEF Shown
  <1>3. /\ ppc[cpost] = "joined" /\ cpc = "reading" /\ cex \in Exchange
        /\ Len(events[cex]) <= Len(events'[cex])
        /\ \A i \in DOMAIN events[cex] : i \in DOMAIN events'[cex]
                                         /\ events'[cex][i] = events[cex][i]
        /\ wpc[cex] \in {"complete", "ended"} => frags'[cex] = frags[cex]
    BY <1>1 DEF CInv, Connection
  <1>4. /\ cidx \in Nat /\ cidx <= Len(events[cex]) /\ SentBefore
        /\ events[cex] \in Seq(EventKind) /\ events'[cex] \in Seq(EventKind)
    BY <1>3 DEF Shown, CInv, Connection, IInv, TypeOK
  <1>5. Len(events[cex]) \in Nat /\ DOMAIN events[cex] = 1..Len(events[cex])
        /\ Len(events'[cex]) \in Nat
    BY <1>4, LenProperties
  <1>6. cidx <= Len(events'[cex])
    BY <1>3, <1>4, <1>5
  <1>7. Sent(events'[cex], cidx) = Sent(events[cex], cidx)
    <2>1. \A i \in 1..cidx : events'[cex][i] = events[cex][i]
      BY <1>3, <1>4, <1>5
    <2>2. QED
      BY <1>4, <2>1, SentSame
  <1>8. CASE answer <= Sent(events[cex], cidx)
    BY <1>1, <1>6, <1>7, <1>8 DEF SentBefore
  <1>9. CASE \E i \in DOMAIN events[cex] :
               /\ i <= cidx
               /\ \/ events[cex][i] \in FinalKind /\ answer = frags[cex]
                  \/ events[cex][i] = "metadata" /\ answer = Notice
    <2>1. PICK i \in DOMAIN events[cex] :
               /\ i <= cidx
               /\ \/ events[cex][i] \in FinalKind /\ answer = frags[cex]
                  \/ events[cex][i] = "metadata" /\ answer = Notice
      BY <1>9
    <2>2. i \in DOMAIN events'[cex] /\ events'[cex][i] = events[cex][i]
      BY <1>3
    <2>3. events[cex][i] \in FinalKind => frags'[cex] = frags[cex]
      BY <1>3 DEF Final
    <2>4. QED
      BY <1>1, <1>6, <2>1, <2>2, <2>3 DEF SentBefore, Notice
  <1>10. QED
    BY <1>4, <1>8, <1>9 DEF SentBefore

\* Nothing is shown twice: a piece is read once, and a final text replaces it.
LEMMA ReadShown == SInv /\ Read => Shown' /\ Resting'
  <1> SUFFICES ASSUME SInv, Read PROVE Shown' /\ Resting'
    OBVIOUS
  <1> USE DEF SInv
  <1> DEFINE n == cidx + 1
             kind == events[cex][n]
  <1>1. /\ UNCHANGED <<vars, cpc, cpost, cex>> /\ cidx' = n
        /\ cpc = "reading" /\ ppc[cpost] = "joined" /\ cex \in Exchange
        /\ cidx \in Nat /\ cidx < Len(events[cex])
    BY DEF Read, CInv, Connection
  <1>2. events[cex] \in Seq(EventKind) /\ frags[cex] \in Nat /\ Notice \in Nat
    BY <1>1, AskStreamAssumption DEF CInv, IInv, TypeOK, Notice
  <1>3. /\ n \in DOMAIN events[cex] /\ n <= Len(events[cex]) /\ n \in Nat
        /\ cidx < n
    BY <1>1, <1>2, LenProperties
  <1>4. answer \in Nat /\ SentBefore
    BY <1>1 DEF Shown
  <1>5. /\ Sent(events[cex], cidx) \in Nat
        /\ kind = "answer_delta" => Sent(events[cex], n) = Sent(events[cex], cidx) + 1
        /\ kind # "answer_delta" => Sent(events[cex], n) = Sent(events[cex], cidx)
    BY <1>1, SentNext, SentGrows
  <1>6. Resting'
    BY <1>1 DEF Resting
  <1>7. UNCHANGED <<events, frags, ppc>> /\ Notice' = Notice
    BY <1>1 DEF vars, stream, worker, poster, Notice
  <1>8. \A i \in DOMAIN events[cex] : i <= cidx => i <= n
    <2>1. DOMAIN events[cex] \subseteq Nat
      BY <1>2, LenProperties
    <2>2. QED
      BY <1>1, <2>1
  <1> HIDE DEF n
  <1>9. CASE kind = "answer_delta"
    <2>1. answer' = answer + 1
      BY <1>1, <1>9 DEF Read
    <2>2. ~\E i \in DOMAIN events[cex] : i <= cidx /\ events[cex][i] \in FinalKind
      <3>1. \A i \in DOMAIN events[cex] : i <= cidx => n > i
        BY <1>1, <1>2, <1>3, LenProperties
      <3>2. QED
        BY <1>1, <1>3, <1>9, <3>1 DEF Final
    <2>3. answer <= Sent(events[cex], cidx)
      BY <1>4, <2>2 DEF SentBefore, FinalKind
    <2>4. answer' \in Nat /\ answer' <= Sent(events[cex], n)
      BY <1>4, <1>5, <1>9, <2>1, <2>3
    <2>5. QED
      BY <1>1, <1>3, <1>6, <1>7, <2>4 DEF Shown, SentBefore
  <1>10. CASE kind \in FinalKind
    <2>1. answer' = IF outcome[cex] = "error" THEN Notice ELSE frags[cex]
      <3>1. kind # "answer_delta" /\ kind \in {"metadata", "done"}
        BY <1>10 DEF FinalKind
      <3>2. QED
        BY <1>1, <3>1 DEF Read
    <2>2. kind = "done" => outcome[cex] # "error"
      BY <1>1, <1>3 DEF CInv, IInv, Announced
    <2>3. /\ answer' \in Nat
          /\ \/ answer' = frags[cex]
             \/ kind = "metadata" /\ answer' = Notice
      BY <1>2, <1>10, <2>1, <2>2 DEF FinalKind
    <2>4. n <= n
      BY <1>3
    <2>5. \/ /\ \E i \in DOMAIN events[cex] : i <= n /\ events[cex][i] \in FinalKind
             /\ answer' = frags[cex]
          \/ /\ \E i \in DOMAIN events[cex] : i <= n /\ events[cex][i] = "metadata"
             /\ answer' = Notice
      BY <1>3, <1>10, <2>3, <2>4
    <2>6. SentBefore'
      BY <1>1, <1>7, <2>5 DEF SentBefore
    <2>7. QED
      BY <1>1, <1>3, <1>6, <1>7, <2>3, <2>6 DEF Shown
  <1>11. CASE kind # "answer_delta" /\ kind \notin FinalKind
    <2>1. answer' = answer
      BY <1>1, <1>11 DEF Read, FinalKind
    <2>2. \/ answer' <= Sent(events[cex], n)
          \/ /\ \E i \in DOMAIN events[cex] : i <= n /\ events[cex][i] \in FinalKind
             /\ answer' = frags[cex]
          \/ /\ \E i \in DOMAIN events[cex] : i <= n /\ events[cex][i] = "metadata"
             /\ answer' = Notice
      BY <1>4, <1>5, <1>8, <1>11, <2>1 DEF SentBefore
    <2>3. SentBefore'
      BY <1>1, <1>7, <2>2 DEF SentBefore
    <2>4. QED
      BY <1>1, <1>3, <1>4, <1>6, <1>7, <2>1, <2>3 DEF Shown
  <1>12. QED
    BY <1>9, <1>10, <1>11

-----------------------------------------------------------------------------
\* An append keeps the stream up to where it was.
LEMMA AppendGrows ==
  ASSUME TypeOK, NEW e \in Exchange, NEW d \in Exchange, NEW kinds \in Seq(EventKind),
         Append1(e, kinds)
  PROVE  /\ Len(events[d]) <= Len(events'[d])
         /\ \A i \in DOMAIN events[d] : i \in DOMAIN events'[d]
                                        /\ events'[d][i] = events[d][i]
  <1>1. events[d] \in Seq(EventKind) /\ events[e] \in Seq(EventKind)
    BY DEF TypeOK
  <1>2. CASE d # e
    <2>1. events'[d] = events[d]
      BY <1>2, AppendTyped
    <2>2. QED
      BY <1>1, <2>1, LenProperties
  <1>3. CASE d = e
    <2>1. events'[d] = events[d] \o kinds
      BY <1>3, AppendTyped
    <2>2. QED
      BY <1>1, <2>1, ConcatProperties, LenProperties
  <1>4. QED
    BY <1>2, <1>3

LEMMA WorkGrows ==
  ASSUME TypeOK, NEW e \in Exchange, Work(e), NEW d \in Exchange
  PROVE  /\ Len(events[d]) <= Len(events'[d])
         /\ \A i \in DOMAIN events[d] : i \in DOMAIN events'[d]
                                        /\ events'[d][i] = events[d][i]
  <1>1. ASSUME events' = events
        PROVE  /\ Len(events[d]) <= Len(events'[d])
               /\ \A i \in DOMAIN events[d] : i \in DOMAIN events'[d]
                                              /\ events'[d][i] = events[d][i]
    <2>1. Len(events[d]) \in Nat
      BY LenProperties DEF TypeOK
    <2>2. QED
      BY <1>1, <2>1
  <1>2. CASE Resolve(e) \/ ProviderDone(e) \/ ProviderFails(e) \/ CheckSession(e)
               \/ WriteMessage(e) \/ Complete(e)
    BY <1>1, <1>2 DEF Resolve, ProviderDone, ProviderFails, CheckSession, WriteMessage,
                      Complete, stream
  <1>3. CASE Begin(e)
    <2>1. <<"message_start">> \in Seq(EventKind)
      BY DEF EventKind
    <2>2. QED
      BY <1>3, <2>1, AppendGrows DEF Begin
  <1>4. CASE Attempt(e)
    <2>1. <<IF attempt[e] = 1 THEN "connecting" ELSE "reconnecting">> \in Seq(EventKind)
      BY DEF EventKind
    <2>2. QED
      BY <1>4, <2>1, AppendGrows DEF Attempt
  <1>5. CASE Delta(e)
    <2>1. PICK kind \in {"answer_delta", "blank_delta"} :
            Append1(e, IF first[e] THEN <<kind>> ELSE <<"streaming", kind>>)
      BY <1>5 DEF Delta
    <2>2. <<kind>> \in Seq(EventKind) /\ <<"streaming", kind>> \in Seq(EventKind)
      BY DEF EventKind
    <2>3. QED
      BY <2>1, <2>2, AppendGrows
  <1>6. CASE Emit(e)
    <2>1. /\ <<"metadata", "status_failed", "error">> \in Seq(EventKind)
          /\ <<"metadata", "status_done", "done">> \in Seq(EventKind)
      BY DEF EventKind
    <2>2. QED
      BY <1>6, <2>1, AppendGrows DEF Emit
  <1>7. QED
    BY <1>2, <1>3, <1>4, <1>5, <1>6 DEF Work

-----------------------------------------------------------------------------
LEMMA ServerShown ==
  ASSUME SInv, CInv',
         \/ \E p \in Poster : Serving(p) \/ Leaving(p)
         \/ \E e \in Exchange : Working(e) \/ Titling(e)
         \/ Deleting \/ Crashing
  PROVE  Resting' /\ Shown'
  <1> USE DEF SInv
  <1>0. TypeOK /\ (cpc = "reading" => cex \in Exchange /\ ppc[cpost] \in {"joined", "idle"})
        /\ (cpc = "reading" => Len(events[cex]) \in Nat)
    BY LenProperties DEF CInv, IInv, Connection, TypeOK
  <1>1. ASSUME NEW p \in Poster, Serving(p) \/ Leaving(p) PROVE Resting' /\ Shown'
    <2>1. UNCHANGED client /\ UNCHANGED <<events, frags>>
      BY <1>1 DEF Serving, Leaving, Serve, Lookup, BeginExchange, CreateStream, Leave,
                  stream, worker
    <2>2. cpc = "reading" /\ ppc'[cpost] = "joined" => ppc[cpost] = "joined"
      <3> SUFFICES ASSUME cpc = "reading", ppc[cpost] = "idle" PROVE ppc'[cpost] # "joined"
        BY <1>0
      <3>1. ppc[p] # "idle"
        BY <1>1 DEF Serving, Leaving, Serve, Lookup, BeginExchange, CreateStream, Leave
      <3>2. p # cpost
        BY <3>1
      <3>3. ppc'[cpost] = ppc[cpost]
        BY <1>0, <1>1, <3>2 DEF Serving, Leaving, Serve, Lookup, BeginExchange,
           CreateStream, Leave, PosterAt, TypeOK, CInv, Connection
      <3>4. QED
        BY <3>3
    <2>3. QED
      BY <1>0, <2>1, <2>2, ShownGrows
  <1>2. ASSUME NEW e \in Exchange, Working(e) PROVE Resting' /\ Shown'
    <2>1. Work(e) /\ UNCHANGED client
      BY <1>2 DEF Working
    <2>2. UNCHANGED ppc /\ \A d \in Exchange : wpc[d] \in {"complete", "ended"} =>
                                                 frags'[d] = frags[d]
      <3>1. CASE Complete(e)
        BY <1>0, <2>1, <3>1, WorkerFrame DEF Complete
      <3>2. CASE ~Complete(e)
        BY <1>0, <2>1, <3>2, WorkerFrame
      <3>3. QED
        BY <3>1, <3>2
    <2>3. QED
      BY <1>0, <2>1, <2>2, WorkGrows, ShownGrows
  <1>3. ASSUME NEW e \in Exchange, Titling(e) PROVE Resting' /\ Shown'
    <2>1. TitleEnds(e) /\ UNCHANGED client /\ UNCHANGED <<frags, ppc>>
      BY <1>3 DEF Titling, TitleEnds, worker, poster
    <2>2. <<"session_title">> \in Seq(EventKind)
      BY DEF EventKind
    <2>3. events' = events \/ Append1(e, <<"session_title">>)
      BY <2>1 DEF TitleEnds
    <2>4. cpc = "reading" =>
            /\ Len(events[cex]) <= Len(events'[cex])
            /\ \A i \in DOMAIN events[cex] : i \in DOMAIN events'[cex]
                                             /\ events'[cex][i] = events[cex][i]
      <3>1. CASE events' = events
        BY <1>0, <3>1
      <3>2. CASE Append1(e, <<"session_title">>)
        BY <1>0, <2>2, <3>2, AppendGrows
      <3>3. QED
        BY <2>3, <3>1, <3>2
    <2>5. QED
      BY <2>1, <2>4, ShownGrows
  <1>4. CASE Deleting
    BY <1>0, <1>4, ShownGrows DEF Deleting, DeleteSession, stream, worker, poster
  <1>5. CASE Crashing
    <2>1. UNCHANGED client /\ ppc' = [p \in Poster |-> "idle"] /\ cpost \in Poster
      BY <1>5 DEF Crashing, Crash, CInv, Connection
    <2>2. QED
      BY <2>1, ShownGrows
  <1>6. QED
    BY <1>1, <1>2, <1>3, <1>4, <1>5

\* A client that tries again shows nothing, and what it connects to comes after.
LEMMA ClientShown ==
  ASSUME SInv, Connect \/ Refused \/ End \/ Break \/ \E p \in Poster : Send(p)
  PROVE  Resting' /\ Shown'
  <1> USE DEF SInv
  <1>1. ASSUME NEW p \in Poster, Send(p) PROVE Resting' /\ Shown'
    BY <1>1 DEF Send, ClientAt, Resting, Shown
  <1>2. CASE Connect
    <2>1. /\ UNCHANGED <<vars, answer>> /\ cpc = "waiting" /\ answer = 0
          /\ cpc' = "reading" /\ ppc[cpost] = "joined" /\ cex' = pex[cpost]
          /\ cex' \in Exchange
          /\ cidx' = IF cursor < Len(events[cex']) THEN cursor ELSE Len(events[cex'])
      BY <1>2 DEF Connect, ClientAt, Resting, CInv, Joined, Connection
    <2>2. cursor \in Nat /\ Len(events[cex']) \in Nat /\ events' = events
      BY <2>1, LenProperties DEF CInv, Connection, IInv, TypeOK, vars, stream
    <2>3. cidx' \in Nat /\ cidx' <= Len(events[cex'])
      BY <2>1, <2>2
    <2>4. Sent(events[cex'], cidx') \in Nat
      BY <2>3, SentGrows
    <2>5. QED
      BY <2>1, <2>2, <2>3, <2>4 DEF Resting, Shown, SentBefore
  <1>3. CASE Refused \/ End \/ Break
    <2>1. /\ answer' = answer /\ answer \in Nat
          /\ cpc' \in {"done", "failed", "retry"}
          /\ cpc' = "retry" => answer = 0
      BY <1>3 DEF Refused, End, Break, Retry, ClientAt, Shown
    <2>2. QED
      BY <2>1 DEF Resting, Shown
  <1>4. QED
    BY <1>1, <1>2, <1>3

LEMMA StepShown == SInv /\ [ClientNext]_clientVars => SInv'
  <1> SUFFICES ASSUME SInv, [ClientNext]_clientVars PROVE SInv'
    OBVIOUS
  <1>1. CInv' /\ Counted' /\ Final'
    BY ClientStepInv, ClientStepImplements, StepCounts DEF SInv, CInv
  <1>2. CASE UNCHANGED clientVars
    <2>1. UNCHANGED <<cpc, cpost, cex, cidx, answer, ppc, events, frags>> /\ Notice' = Notice
      BY <1>2 DEF clientVars, client, vars, poster, stream, worker, Notice
    <2>2. Resting' /\ Shown'
      BY <2>1 DEF SInv, Resting, Shown, SentBefore
    <2>3. QED
      BY <1>1, <2>2 DEF SInv
  <1>3. CASE ClientNext
    BY <1>1, <1>3, ServerShown, ClientShown, ReadShown DEF ClientNext, SInv
  <1>4. QED
    BY <1>2, <1>3

\* However often connections are lost and resumed, what a connected client has
\* on the screen is no more than its stream has sent, or the notice of its end:
\* no piece is shown twice.
THEOREM ClientShows == ClientSpec => []ShownIsSent
  <1>1. SInv => ShownIsSent
    <2> SUFFICES ASSUME SInv, cpc = "reading", ppc[cpost] = "joined"
                 PROVE  answer <= frags[cex] \/ (answer = Notice /\ Emitted(cex, "metadata"))
      BY DEF ShownIsSent
    <2>1. /\ cex \in Exchange /\ cidx \in Nat /\ cidx <= Len(events[cex]) /\ SentBefore
          /\ Len(events[cex]) \in Nat /\ frags[cex] \in Nat /\ answer \in Nat
      BY LenProperties DEF SInv, Shown, CInv, Connection, IInv, TypeOK
    <2>2. /\ Sent(events[cex], cidx) <= Sent(events[cex], Len(events[cex]))
          /\ Sent(events[cex], cidx) \in Nat
      BY <2>1, SentGrows
    <2>3. Sent(events[cex], Len(events[cex])) = frags[cex]
      BY <2>1 DEF SInv, Counted
    <2>4. CASE answer <= Sent(events[cex], cidx)
      BY <2>1, <2>2, <2>3, <2>4
    <2>5. CASE answer = frags[cex]
      BY <2>1, <2>5
    <2>6. CASE answer = Notice /\ \E i \in DOMAIN events[cex] : events[cex][i] = "metadata"
      BY <2>6 DEF Emitted
    <2>7. QED
      BY <2>1, <2>4, <2>5, <2>6 DEF SentBefore
  <1>2. QED
    BY ClientInitShown, StepShown, <1>1, PTL DEF ClientSpec

=============================================================================
