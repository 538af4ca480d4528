---------------------------- MODULE SessionMemory ----------------------------
(***************************************************************************)
(* How the questions of one session build the context they are answered    *)
(* from (MemoryService.build_session_context): the session row holds a     *)
(* summary of the messages up to summary_message_seq_upto, and a question  *)
(* first summarises what has grown past the window of recent messages.     *)
(* Questions run in threads of their own, a summary takes a call to the    *)
(* model, and every step is one transaction.                               *)
(*                                                                         *)
(* A summary stands for the messages it was made from, each with what the  *)
(* message said then; a message's sequence number is its place in the      *)
(* session.  The messages of the system are in no context and left out,    *)
(* and how many tokens a text takes is any number.                         *)
(***************************************************************************)
EXTENDS Naturals, Sequences

CONSTANTS
  Ask,          \* threads that serve a question of this session
  Keep,         \* messages of the recent window (_recent_keep_count)
  MinRecent,    \* memory_min_recent_message_count
  MaxMessages,  \* bound
  MaxCrashes    \* bound

ASSUME SessionMemoryAssumption ==
  Keep \in Nat \ {0} /\ MinRecent \in Nat /\ MaxMessages \in Nat /\ MaxCrashes \in Nat

Says  == {"question", "pending", "answer"}
State == {"idle", "compacted", "failed"}
At    == {"free", "messages", "compact", "again", "recent", "ready", "reply", "answering"}

VARIABLES
  exists,    \* the session
  messages,  \* what its messages say: "pending" is the blank answer of an open exchange
  memory,    \* the memory columns of its row
  at,        \* where each thread is
  snap,      \* the row and the messages it has read
  mine,      \* the message of its answer
  alone,     \* history: no other thread has written since it read the row
  crashes

vars == <<exists, messages, memory, at, snap, mine, alone, crashes>>

Noted  == [seq : Nat, says : Says]
Memory == [summary : Seq(Noted), upto : Nat, status : State]
Snap   == [row : Memory, said : Seq(Says)]

NoMemory == [summary |-> <<>>, upto |-> 0, status |-> "idle"]
NoSnap   == [row |-> NoMemory, said |-> <<>>]

Init ==
  /\ exists = TRUE /\ messages = <<>> /\ memory = NoMemory
  /\ at = [a \in Ask |-> "free"]
  /\ snap = [a \in Ask |-> NoSnap]
  /\ mine = [a \in Ask |-> 0]
  /\ alone = [a \in Ask |-> TRUE]
  /\ crashes = 0

To(a, place) == at' = [at EXCEPT ![a] = place]
Forget(a)    == snap' = [snap EXCEPT ![a] = NoSnap]
Wrote(a)     == alone' = [b \in Ask |-> b = a /\ alone[b]]

-----------------------------------------------------------------------------

\* The snapshot is two SELECTs; the context is built from a second one.
ReadRow(a) ==
  /\ exists /\ at[a] \in {"free", "again"}
  /\ snap' = [snap EXCEPT ![a].row = memory]
  /\ IF at[a] = "free" THEN To(a, "messages") /\ alone' = [alone EXCEPT ![a] = TRUE]
                       ELSE To(a, "recent") /\ UNCHANGED alone
  /\ UNCHANGED <<exists, messages, memory, mine, crashes>>

ReadMessages(a) ==
  /\ at[a] \in {"messages", "recent"}
  /\ snap' = [snap EXCEPT ![a].said = messages]
  /\ To(a, IF at[a] = "messages" THEN "compact" ELSE "ready")
  /\ UNCHANGED <<exists, messages, memory, mine, alone, crashes>>

-----------------------------------------------------------------------------

\* _maybe_compact, from what was read before (a session deleted between the
\* SELECTs has no messages).
Unsummarized(a) ==
  IF snap[a].row.upto < Len(snap[a].said) THEN Len(snap[a].said) - snap[a].row.upto ELSE 0
\* Mutant of Overfull: summarised one message too late.
OverfullLate(a) == Unsummarized(a) > Keep + 1

Overfull(a) == Unsummarized(a) > Keep

\* Mutant of Spared: one message less than the settings keep.
SparedOneLess(a) ==
  IF Overfull(a) THEN Keep
  ELSE IF MinRecent < Unsummarized(a) THEN MinRecent - 1 ELSE Unsummarized(a)

\* How many messages stay out of the summary.
Spared(a) ==
  IF Overfull(a) THEN Keep
  ELSE IF MinRecent < Unsummarized(a) THEN MinRecent ELSE Unsummarized(a)

\* unsummarized_messages[:-0] is empty, and so are no messages at all.
Upto(a) ==
  IF Spared(a) = 0 THEN snap[a].row.upto ELSE Len(snap[a].said) - Spared(a)

Summary(a) ==
  snap[a].row.summary \o
    [i \in 1 .. Upto(a) - snap[a].row.upto |->
       [seq |-> snap[a].row.upto + i, says |-> snap[a].said[snap[a].row.upto + i]]]

Write(a, row) ==
  /\ memory' = IF exists THEN row ELSE memory
  /\ IF exists THEN Wrote(a) ELSE UNCHANGED alone
  /\ To(a, "again")
  /\ UNCHANGED <<exists, messages, snap, mine, crashes>>

\* The context is small (its estimate is any number): the row is written back.
KeepRow(a) ==
  /\ at[a] = "compact" /\ ~Overfull(a) /\ snap[a].row.status # "failed"
  /\ Write(a, [snap[a].row EXCEPT
                 !.status = IF snap[a].row.summary = <<>> THEN "idle" ELSE "compacted"])

Skip(a) ==
  /\ at[a] = "compact"
  /\ \/ ~Overfull(a) /\ snap[a].row.status = "failed"
     \/ Upto(a) = snap[a].row.upto
  /\ To(a, "again")
  /\ UNCHANGED <<exists, messages, memory, snap, mine, alone, crashes>>

\* Mutant of Compact: new messages are added to the summary that is there now.
CompactFresh(a) ==
  /\ at[a] = "compact" /\ Upto(a) > snap[a].row.upto
  /\ Write(a, [summary |-> memory.summary \o
                             SubSeq(Summary(a), snap[a].row.upto + 1, Upto(a)),
               upto |-> Upto(a), status |-> "compacted"])

\* The model's summary, or the extract made when none is configured.
Compact(a) ==
  /\ at[a] = "compact" /\ Upto(a) > snap[a].row.upto
  /\ Write(a, [summary |-> Summary(a), upto |-> Upto(a), status |-> "compacted"])

CompactFails(a) ==
  /\ at[a] = "compact" /\ Upto(a) > snap[a].row.upto
  /\ Write(a, [snap[a].row EXCEPT !.status = "failed"])

-----------------------------------------------------------------------------

\* begin_exchange: two messages, two transactions.
Say(a, says) ==
  /\ exists /\ Len(messages) < MaxMessages
  /\ messages' = Append(messages, says)
  /\ Wrote(a)

AppendQuestion(a) ==
  /\ at[a] = "ready" /\ Say(a, "question") /\ To(a, "reply") /\ Forget(a)
  /\ UNCHANGED <<exists, memory, mine, crashes>>

AppendAnswer(a) ==
  /\ at[a] = "reply" /\ Say(a, "pending") /\ To(a, "answering")
  /\ mine' = [mine EXCEPT ![a] = Len(messages) + 1]
  /\ UNCHANGED <<exists, memory, snap, crashes>>

\* Mutant of Answer: a message says what no message says.
AnswerPartly(a) ==
  /\ exists /\ at[a] = "answering"
  /\ messages' = [messages EXCEPT ![mine[a]] = "partial"]
  /\ Wrote(a) /\ To(a, "free")
  /\ mine' = [mine EXCEPT ![a] = 0]
  /\ UNCHANGED <<exists, memory, snap, crashes>>

\* finalize_exchange, with the answer or the notice that there is none.
Answer(a) ==
  /\ exists /\ at[a] = "answering"
  /\ messages' = [messages EXCEPT ![mine[a]] = "answer"]
  /\ Wrote(a) /\ To(a, "free")
  /\ mine' = [mine EXCEPT ![a] = 0]
  /\ UNCHANGED <<exists, memory, snap, crashes>>

\* A question refused, a provider that cannot be built, a session gone.
GiveUp(a) ==
  /\ at[a] # "free" /\ (at[a] \in {"compact", "ready"} \/ ~exists)
  /\ To(a, "free") /\ Forget(a)
  /\ mine' = [mine EXCEPT ![a] = 0]
  /\ UNCHANGED <<exists, messages, memory, alone, crashes>>

-----------------------------------------------------------------------------

\* DELETE of the session: its messages go with it.
DeleteSession ==
  /\ exists /\ exists' = FALSE
  /\ messages' = <<>> /\ memory' = NoMemory
  /\ alone' = [a \in Ask |-> FALSE]
  /\ UNCHANGED <<at, snap, mine, crashes>>

\* A restart ends every question; the messages stay as they are.
Crash ==
  /\ crashes < MaxCrashes /\ crashes' = crashes + 1
  /\ at' = [a \in Ask |-> "free"]
  /\ snap' = [a \in Ask |-> NoSnap]
  /\ mine' = [a \in Ask |-> 0]
  /\ UNCHANGED <<exists, messages, memory, alone>>

Step(a) ==
  \/ ReadRow(a) \/ ReadMessages(a)
  \/ KeepRow(a) \/ Skip(a) \/ Compact(a) \/ CompactFails(a)
  \/ AppendQuestion(a) \/ AppendAnswer(a) \/ Answer(a) \/ GiveUp(a)

Next == (\E a \in Ask : Step(a)) \/ DeleteSession \/ Crash

Spec == Init /\ [][Next]_vars

-----------------------------------------------------------------------------

\* Every variable keeps its type, and a summary is as long as it says.
TypeOK ==
  /\ exists \in BOOLEAN
  /\ messages \in Seq(Says)
  /\ memory \in Memory
  /\ at \in [Ask -> At]
  /\ snap \in [Ask -> Snap]
  /\ mine \in [Ask -> Nat]
  /\ alone \in [Ask -> BOOLEAN]
  /\ crashes \in 0..MaxCrashes

\* However many questions summarise the session at once, from whatever they
\* have read, its summary is made from exactly the messages up to
\* summary_message_seq_upto: none is left out and none is told twice, so that
\* whatever the row says, the next question can go on from it.
Account(row) ==
  /\ Len(row.summary) = row.upto
  /\ \A i \in 1..row.upto : row.summary[i].seq = i

SummaryIsAccount == exists => Account(memory) /\ memory.upto <= Len(messages)

\* The end of the conversation is not summarised: as many messages as the
\* settings keep stay as they were said, whoever wrote the summary and when.
RecentIsSpared ==
  exists /\ memory.upto > 0 =>
    \/ Len(messages) - memory.upto >= MinRecent
    \/ Len(messages) - memory.upto >= Keep

\* A context misses none of the messages it was built from, each is in its
\* window or in its summary, unless summarising has failed or another question
\* has written to the session meanwhile.
InSummary(row, i) == \E n \in 1..Len(row.summary) : row.summary[n].seq = i

ContextIsWhole ==
  \A a \in Ask :
    at[a] = "ready" /\ alone[a] /\ snap[a].row.status # "failed" =>
      \A i \in 1 .. Len(snap[a].said) - Keep : InSummary(snap[a].row, i)

\* What was said is in the summary as it was said.  An answer that was still
\* being written when another question's context was summarised is in it as a
\* blank, and no later context shows it.
AnswersAreSummarized ==
  \A i \in 1..memory.upto : memory.summary[i].says = messages[i]
=============================================================================
