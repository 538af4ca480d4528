------------------------------ MODULE AskClient ------------------------------
(***************************************************************************)
(* The browser's side of one streamed question                             *)
(* (submitSessionAskStreamRequest in services/sessions.ts) composed with    *)
(* the server of AskStream.  The client POSTs, reads the stream, and POSTs  *)
(* again with the same request_group_id and its cursor when a connection is *)
(* lost; each of its tries is a request thread of the server.  Only this    *)
(* client posts for the group, and it gives no abort signal (AskPage does   *)
(* not).  The registry keeps a finished stream for ten minutes, longer than *)
(* the client's loop, so Expire takes no part here.                         *)
(***************************************************************************)
EXTENDS AskStream

CONSTANT MaxTries      \* MAX_STREAM_RECOVERY_ATTEMPTS, 5 in the code

ASSUME AskClientAssumption == MaxTries \in Nat \ {0}

\* The answer a failure's metadata carries: not a piece of any answer.
Notice == Pieces + 1

VARIABLES
  cpc,      \* where the loop of the client is
  ctry,     \* attempt
  cpost,    \* the request thread that serves this try
  cex,      \* the exchange whose stream it has last been connected to
  cidx,     \* the index of its subscription, in events[cex]
  cursor,   \* state.last_event_seq
  answer,   \* state.answer: pieces, or Notice
  told      \* the terminal callback: "done" or "error" of the stream, or
            \* "recovered", the client's own onDone

client     == <<cpc, ctry, cpost, cex, cidx, cursor, answer, told>>
clientVars == <<vars, client>>

ClientAt(pc) == cpc' = pc

\* The client's connection: its request thread is serving it.
Connected == cpc \in {"waiting", "reading"} /\ ppc[cpost] # "idle"

-----------------------------------------------------------------------------
\* The head of the loop: fetch, with request_group_id and resume_cursor.
Send(p) ==
  /\ cpc \in {"idle", "retry"} /\ ctry < MaxTries
  /\ Post(p)
  /\ ClientAt("waiting")
  /\ ctry' = ctry + 1
  /\ cpost' = p
  /\ UNCHANGED <<cex, cidx, cursor, answer, told>>

\* The response has come: the stream is subscribed to after the cursor, which
\* skips no more than the stream holds.
Connect ==
  /\ cpc = "waiting" /\ ppc[cpost] = "joined"
  /\ cex' = pex[cpost]
  /\ cidx' = IF cursor < Len(events[cex']) THEN cursor ELSE Len(events[cex'])
  /\ ClientAt("reading")
  /\ UNCHANGED <<vars, ctry, cpost, cursor, answer, told>>

\* Mutant of Retry: the loop reconnects although an answer is on the screen.
RetryAnyway ==
  /\ ClientAt(IF ctry >= MaxTries \/ told # "none" THEN "failed" ELSE "retry")
  /\ UNCHANGED told

\* What follows a connection that ended without a terminal event: text on the
\* screen is taken for the answer, otherwise the loop goes round, or gives up.
Retry ==
  \/ /\ answer > 0 /\ told = "none"
     /\ told' = "recovered"
     /\ ClientAt("done")
  \/ /\ answer = 0 \/ told # "none"
     /\ ClientAt(IF ctry >= MaxTries \/ told # "none" THEN "failed" ELSE "retry")
     /\ UNCHANGED told

\* 404: at the first try the plain ask is tried, which is 404 as well.
Refused ==
  /\ cpc = "waiting" /\ ppc[cpost] = "refused"
  /\ IF ctry = 1 THEN ClientAt("failed") /\ UNCHANGED told ELSE Retry
  /\ UNCHANGED <<vars, ctry, cpost, cex, cidx, cursor, answer>>

\* Mutants of Read: the final text of metadata and done is appended; it is not
\* taken over.
ReadAppends ==
  /\ cpc = "reading" /\ ppc[cpost] = "joined" /\ cidx < Len(events[cex])
  /\ cidx' = cidx + 1
  /\ cursor' = IF cidx' > cursor THEN cidx' ELSE cursor
  /\ LET kind == events[cex][cidx'] IN
       /\ answer' = CASE kind = "answer_delta" -> answer + 1
                      [] kind \in {"metadata", "done"} -> answer + frags[cex]
                      [] OTHER -> answer
       /\ told' = IF kind \in {"done", "error"} THEN kind ELSE told
  /\ UNCHANGED <<vars, cpc, ctry, cpost, cex>>

ReadPieces ==
  /\ cpc = "reading" /\ ppc[cpost] = "joined" /\ cidx < Len(events[cex])
  /\ cidx' = cidx + 1
  /\ cursor' = IF cidx' > cursor THEN cidx' ELSE cursor
  /\ LET kind == events[cex][cidx'] IN
       /\ answer' = IF kind = "answer_delta" THEN answer + 1 ELSE answer
       /\ told' = IF kind \in {"done", "error"} THEN kind ELSE told
  /\ UNCHANGED <<vars, cpc, ctry, cpost, cex>>

\* applyStreamEvent
Read ==
  /\ cpc = "reading" /\ ppc[cpost] = "joined" /\ cidx < Len(events[cex])
  /\ cidx' = cidx + 1
  /\ cursor' = IF cidx' > cursor THEN cidx' ELSE cursor
  /\ LET kind == events[cex][cidx'] IN
       /\ answer' = CASE kind = "answer_delta" -> answer + 1
                      [] kind \in {"metadata", "done"} ->
                           IF outcome[cex] = "error" THEN Notice ELSE frags[cex]
                      [] OTHER -> answer
       /\ told' = IF kind \in {"done", "error"} THEN kind ELSE told
  /\ UNCHANGED <<vars, cpc, ctry, cpost, cex>>

\* The stream has been read to its end.
End ==
  /\ cpc = "reading" /\ ppc[cpost] = "joined"
  /\ isDone[cex] /\ cidx = Len(events[cex])
  /\ IF told # "none" THEN ClientAt("done") /\ UNCHANGED told ELSE Retry
  /\ UNCHANGED <<vars, ctry, cpost, cex, cidx, cursor, answer>>

\* fetch or the reader throws: the response is lost, or the process is gone.
\* The server's thread, if it lives, goes on.
Break ==
  /\ cpc \in {"waiting", "reading"}
  /\ Retry
  /\ UNCHANGED <<vars, ctry, cpost, cex, cidx, cursor, answer>>

-----------------------------------------------------------------------------
\* The server's own steps.  A request thread leaves once the client has left it.
Serving(p) == Serve(p) /\ UNCHANGED client
Working(e) == Work(e) /\ UNCHANGED client
Leaving(p) == Leave(p) /\ ~(Connected /\ p = cpost) /\ UNCHANGED client

Titling(e)    == TitleEnds(e) /\ UNCHANGED client
Deleting      == DeleteSession /\ UNCHANGED client
Crashing      == Crash /\ UNCHANGED client

ClientInit ==
  /\ Init
  /\ cpc = "idle" /\ ctry = 0
  /\ cpost \in Poster
  /\ cex = None /\ cidx = 0
  /\ cursor = 0 /\ answer = 0
  /\ told = "none"

ClientNext ==
  \/ \E p \in Poster : Send(p) \/ Serving(p) \/ Leaving(p)
  \/ Connect \/ Refused \/ Read \/ End \/ Break
  \/ \E e \in Exchange : Working(e) \/ Titling(e)
  \/ Deleting \/ Crashing

ClientSpec == ClientInit /\ [][ClientNext]_clientVars

\* The client's loop goes on, also when its server is gone, and the server is
\* fair as AskStream says and closes the requests that were left.
ClientStep ==
  \/ \E p \in Poster : Send(p)
  \/ Connect \/ Refused \/ Read \/ End
  \/ ~Connected /\ Break

ClientFairSpec ==
  /\ ClientSpec
  /\ WF_clientVars(ClientStep)
  /\ \A p \in Poster : WF_clientVars(Serving(p)) /\ WF_clientVars(Leaving(p))
  /\ \A e \in Exchange : WF_clientVars(Working(e))

-----------------------------------------------------------------------------
(* Properties *)

ClientTypeOK ==
  /\ cpc \in {"idle", "waiting", "reading", "retry", "done", "failed"}
  /\ ctry \in 0..MaxTries
  /\ cpost \in Poster
  /\ cex \in Exchange \cup {None}
  /\ cidx \in Nat /\ cursor \in Nat
  /\ answer \in 0..Notice
  /\ told \in {"none", "done", "error", "recovered"}

\* When the server has told the client that the answer is done, the history of
\* the session shows the very answer that is on the screen; when it has told of
\* an error, the history shows the error: whatever was lost, resumed or started
\* again on the way.  (A deleted session has no history.)
ToldIsKept ==
  /\ told = "done" => \/ status[cex] = "done" /\ content[cex] = answer
                      \/ status[cex] = "gone"
  /\ told = "error" => status[cex] \in {"provider_error", "gone"}

\* Text on the screen is never repeated: while the client is connected to a
\* stream, what it shows is no more than what that stream has sent so far.
ShownIsSent ==
  cpc = "reading" /\ ppc[cpost] = "joined" =>
    \/ answer <= frags[cex]
    \/ answer = Notice /\ Emitted(cex, "metadata")

\* The question the user asked comes to an end on the screen, whatever the
\* provider and the connections do, unless its session is deleted: then the
\* stream may stay open for good (MCAskStreamDeleted.cfg).
ClientSettles == (cpc = "waiting") ~> (cpc \in {"done", "failed"} \/ ~exists)
=============================================================================
