------------------------- MODULE SessionMemoryProofs -------------------------
(***************************************************************************)
(* Machine-checked proofs about SessionMemory, for any number of questions *)
(* at once, any window and any length of the session: its summary is made  *)
(* of the messages it says, the end of the conversation is not in it, and  *)
(* a question nobody disturbs gets a whole context.                        *)
(***************************************************************************)
EXTENDS SessionMemory, SequenceTheorems, TLAPS

USE SessionMemoryAssumption

\* What can be said of the row as anybody has read it, however long ago: its
\* summary is an account, and spares the end of the messages as they are now.
Spares(row) ==
  row.upto > 0 =>
    Len(messages) - row.upto >= MinRecent \/ Len(messages) - row.upto >= Keep

Sound(row) ==
  /\ Account(row)
  /\ exists => row.upto <= Len(messages) /\ Spares(row)

RowsAreSound == Sound(memory) /\ \A a \in Ask : Sound(snap[a].row)

\* Messages come and do not go, while the session is there.
ReadBefore ==
  exists => \A a \in Ask :
    /\ Len(snap[a].said) <= Len(messages)
    /\ at[a] = "answering" => mine[a] \in 1..Len(messages)

\* What a question nobody has disturbed knows about the session.
Fits(row, said) == row.status # "failed" => Len(said) <= row.upto + Keep

Undisturbed(a) ==
  alone[a] =>
    /\ at[a] \notin {"free", "reply", "answering"} => exists
    /\ at[a] \in {"messages", "compact"} => snap[a].row = memory
    /\ at[a] = "compact" => snap[a].said = messages
    /\ at[a] = "again" => Fits(memory, messages)
    /\ at[a] = "recent" => Fits(snap[a].row, messages)
    /\ at[a] = "ready" => Fits(snap[a].row, snap[a].said)

MInv == TypeOK /\ RowsAreSound /\ ReadBefore /\ \A a \in Ask : Undisturbed(a)

-----------------------------------------------------------------------------
(* The row a question computes *)

\* How much stays out of the summary.
LEMMA SparedIs ==
  ASSUME TypeOK, NEW a \in Ask
  PROVE  /\ Len(snap[a].said) \in Nat /\ snap[a].row.upto \in Nat
         /\ Unsummarized(a) \in Nat
         /\ Spared(a) \in Nat
         /\ Overfull(a) => Spared(a) = Keep
         /\ ~Overfull(a) => Spared(a) <= Keep
         /\ Spared(a) \in {Keep, MinRecent, Unsummarized(a)}
         /\ ~Overfull(a) /\ Spared(a) # MinRecent => Spared(a) = Unsummarized(a)
  <1>1. Len(snap[a].said) \in Nat /\ snap[a].row.upto \in Nat
    BY LenProperties DEF TypeOK, Snap, Memory
  <1>2. QED
    BY SMTT(40), <1>1 DEF Unsummarized, Overfull, Spared

\* The new row of a compaction.
LEMMA SummaryIs ==
  ASSUME TypeOK, NEW a \in Ask, Account(snap[a].row), Upto(a) > snap[a].row.upto
  PROVE  /\ Upto(a) \in Nat /\ Upto(a) = Len(snap[a].said) - Spared(a)
         /\ Spared(a) \in {Keep, MinRecent} /\ Spared(a) <= Keep
         /\ Summary(a) \in Seq(Noted)
         /\ Len(Summary(a)) = Upto(a)
         /\ \A i \in 1..Upto(a) : Summary(a)[i].seq = i
  <1> DEFINE upto == snap[a].row.upto
             old  == snap[a].row.summary
             said == snap[a].said
             note(i) == [seq |-> upto + i, says |-> said[upto + i]]
             new  == [i \in 1 .. Upto(a) - upto |-> note(i)]
  <1>1. /\ old \in Seq(Noted) /\ said \in Seq(Says) /\ upto \in Nat /\ Len(said) \in Nat
        /\ Len(old) = upto /\ \A i \in 1..upto : old[i].seq = i
    BY SparedIs DEF TypeOK, Snap, Memory, Account
  <1>2. /\ Upto(a) \in Nat /\ Upto(a) = Len(said) - Spared(a)
        /\ Spared(a) \in {Keep, MinRecent} /\ Spared(a) <= Keep
    BY SparedIs DEF Upto, Unsummarized
  <1>3. Upto(a) - upto \in Nat /\ Upto(a) <= Len(said)
    <2>1. Spared(a) \in Nat /\ Upto(a) > upto
      BY SparedIs
    <2> HIDE DEF upto, said
    <2>2. QED
      BY <1>1, <1>2, <2>1
  <1>4. \A i \in 1 .. Upto(a) - upto : note(i) \in Noted
    <2> TAKE i \in 1 .. Upto(a) - upto
    <2>1. upto + i \in 1..Len(said)
      <3> HIDE DEF upto, said
      <3>1. QED
        BY <1>1, <1>2, <1>3
    <2>2. said[upto + i] \in Says
      BY <1>1, <2>1, ElementOfSeq
    <2>3. QED
      BY <1>1, <2>2 DEF Noted
  <1>5. /\ new \in Seq(Noted) /\ Len(new) = Upto(a) - upto
        /\ \A i \in 1 .. Upto(a) - upto : new[i].seq = upto + i
    <2> HIDE DEF upto, said
    <2>1. new \in Seq(Noted)
      <3> HIDE DEF note
      <3>1. QED
        BY <1>3, <1>4
    <2>2. Len(new) = Upto(a) - upto
      BY <1>3, <2>1, LenProperties
    <2>3. QED
      BY <2>1, <2>2
  <1>6. Summary(a) = old \o new
    BY DEF Summary
  <1> HIDE DEF upto, old, said, note, new
  <1>7. /\ Summary(a) \in Seq(Noted)
        /\ Len(Summary(a)) = Upto(a)
        /\ \A i \in 1..Upto(a) :
             Summary(a)[i] = IF i <= upto THEN old[i] ELSE new[i - upto]
    <2>1. Len(old) + Len(new) = Upto(a)
      BY <1>1, <1>2, <1>3, <1>5
    <2>2. /\ old \o new \in Seq(Noted)
          /\ Len(old \o new) = Len(old) + Len(new)
          /\ \A i \in 1 .. Len(old) + Len(new) :
               (old \o new)[i] = IF i <= Len(old) THEN old[i] ELSE new[i - Len(old)]
      BY <1>1, <1>5, ConcatProperties
    <2>3. QED
      BY <1>1, <1>6, <2>1, <2>2
  <1>8. \A i \in 1..Upto(a) : Summary(a)[i].seq = i
    <2> TAKE i \in 1..Upto(a)
    <2>1. CASE i <= upto
      BY <1>1, <1>2, <1>7, <2>1
    <2>2. CASE i > upto
      <3>1. i - upto \in 1 .. Upto(a) - upto /\ ~(i <= upto)
        BY <1>1, <1>2, <2>2
      <3>2. QED
        BY <1>1, <1>2, <1>5, <1>7, <3>1
    <2>3. QED
      BY <1>1, <1>2, <2>1, <2>2
  <1>9. QED
    BY <1>2, <1>7, <1>8 DEF said

-----------------------------------------------------------------------------
(* Reading *)

LEMMA InitInv == Init => MInv
  <1> SUFFICES ASSUME Init PROVE MInv
    OBVIOUS
  <1>1. NoMemory \in Memory /\ NoSnap \in Snap
    BY EmptySeq DEF NoMemory, NoSnap, Memory, Snap, State
  <1>2. Account(NoMemory) /\ NoSnap.row = NoMemory /\ NoMemory.upto = 0
        /\ Len(NoSnap.said) = 0 /\ Len(messages) = 0 /\ messages \in Seq(Says)
    BY EmptySeq DEF Init, NoMemory, NoSnap, Account
  <1>3. TypeOK
    BY <1>1, <1>2 DEF Init, TypeOK, At
  <1>4. RowsAreSound /\ ReadBefore
    BY <1>2 DEF Init, RowsAreSound, Sound, Spares, ReadBefore
  <1>5. \A a \in Ask : Undisturbed(a)
    BY DEF Init, Undisturbed
  <1>6. QED
    BY <1>3, <1>4, <1>5 DEF MInv

LEMMA ReadRowInv == ASSUME MInv, NEW a \in Ask, ReadRow(a) PROVE MInv'
  <1>1. /\ snap' = [snap EXCEPT ![a] = [@ EXCEPT !.row = memory]]
        /\ UNCHANGED <<exists, messages, memory, mine, crashes>>
        /\ exists
    BY DEF ReadRow
  <1>2. \A b \in Ask : /\ b # a => snap'[b] = snap[b] /\ at'[b] = at[b] /\ alone'[b] = alone[b]
                       /\ snap'[b].said = snap[b].said
                       /\ snap'[b].row = IF b = a THEN memory ELSE snap[b].row
    BY <1>1 DEF MInv, TypeOK, Snap, ReadRow, To
  <1>3. at'[a] = (IF at[a] = "free" THEN "messages" ELSE "recent") /\ at[a] \in {"free", "again"}
        /\ (at[a] = "again" => alone'[a] = alone[a])
    BY DEF ReadRow, To, MInv, TypeOK
  <1>4. TypeOK'
    BY ZenonT(40), <1>1 DEF ReadRow, To, MInv, TypeOK, Snap, At
  <1>5. RowsAreSound'
    BY <1>1, <1>2 DEF MInv, RowsAreSound, Sound, Spares, Account
  <1>6. ReadBefore'
    BY <1>1, <1>2, <1>3 DEF MInv, ReadBefore
  <1>7. ASSUME NEW b \in Ask PROVE Undisturbed(b)'
    BY <1>1, <1>2, <1>3 DEF MInv, Undisturbed, Fits
  <1>8. QED
    BY <1>4, <1>5, <1>6, <1>7 DEF MInv

LEMMA ReadMessagesInv == ASSUME MInv, NEW a \in Ask, ReadMessages(a) PROVE MInv'
  <1>1. /\ snap' = [snap EXCEPT ![a] = [@ EXCEPT !.said = messages]]
        /\ UNCHANGED <<exists, messages, memory, mine, alone, crashes>>
    BY DEF ReadMessages
  <1>2. \A b \in Ask : /\ b # a => snap'[b] = snap[b] /\ at'[b] = at[b]
                       /\ snap'[b].row = snap[b].row
                       /\ snap'[b].said = IF b = a THEN messages ELSE snap[b].said
    BY <1>1 DEF MInv, TypeOK, Snap, ReadMessages, To
  <1>3. /\ at'[a] = (IF at[a] = "messages" THEN "compact" ELSE "ready")
        /\ at[a] \in {"messages", "recent"}
    BY DEF ReadMessages, To, MInv, TypeOK
  <1>4. TypeOK'
    BY ZenonT(40), <1>1 DEF ReadMessages, To, MInv, TypeOK, Snap, At
  <1>5. RowsAreSound'
    BY <1>1, <1>2 DEF MInv, RowsAreSound, Sound, Spares, Account
  <1>6. ReadBefore'
    <2>1. Len(messages) \in Nat
      BY LenProperties DEF MInv, TypeOK
    <2>2. QED
      BY <1>1, <1>2, <1>3, <2>1 DEF MInv, ReadBefore
  <1>7. ASSUME NEW b \in Ask PROVE Undisturbed(b)'
    BY <1>1, <1>2, <1>3 DEF MInv, Undisturbed, Fits
  <1>8. QED
    BY <1>4, <1>5, <1>6, <1>7 DEF MInv

-----------------------------------------------------------------------------
(* Summarising *)

\* A question writes a row that is as sound as those it has read, and that
\* fits if nobody disturbed it.
LEMMA WriteInv ==
  ASSUME MInv, NEW a \in Ask, NEW row \in Memory, at[a] = "compact", Write(a, row),
         Account(row),
         exists => row.upto <= Len(messages) /\ Spares(row),
         alone[a] => Fits(row, messages)
  PROVE  MInv'
  <1>1. /\ UNCHANGED <<exists, messages, snap, mine, crashes>>
        /\ memory' = IF exists THEN row ELSE memory
        /\ \A b \in Ask : b # a => at'[b] = at[b]
        /\ at'[a] = "again"
        /\ exists => \A b \in Ask : b # a => ~alone'[b]
        /\ \A b \in Ask : alone'[b] => alone[b]
        /\ ~exists => UNCHANGED alone
    BY DEF Write, To, Wrote, MInv, TypeOK
  <1>2. TypeOK'
    BY <1>1 DEF Write, To, Wrote, MInv, TypeOK, At
  <1>3. RowsAreSound'
    BY <1>1 DEF MInv, RowsAreSound, Sound, Spares, Account
  <1>4. ReadBefore'
    BY <1>1 DEF MInv, ReadBefore
  <1>5. ASSUME NEW b \in Ask PROVE Undisturbed(b)'
    <2>1. CASE exists
      BY <1>1, <2>1 DEF MInv, Undisturbed, Fits
    <2>2. CASE ~exists
      BY <1>1, <2>2 DEF MInv, Undisturbed, Fits
    <2>3. QED
      BY <2>1, <2>2
  <1>6. QED
    BY <1>2, <1>3, <1>4, <1>5 DEF MInv

\* The row as it was read, with another status.
LEMMA StatusInv ==
  ASSUME MInv, NEW a \in Ask, NEW status \in State, at[a] = "compact",
         Write(a, [snap[a].row EXCEPT !.status = status]),
         status = "failed" \/ ~Overfull(a)
  PROVE  MInv'
  <1> DEFINE row == [snap[a].row EXCEPT !.status = status]
  <1>1. /\ row \in Memory /\ row.status = status /\ row.upto = snap[a].row.upto
        /\ row.summary = snap[a].row.summary
    BY DEF MInv, TypeOK, Snap, Memory
  <1>2. Account(row) /\ (exists => row.upto <= Len(messages) /\ Spares(row))
    BY <1>1 DEF MInv, RowsAreSound, Sound, Spares, Account
  <1>3. alone[a] => Fits(row, messages)
    <2>1. alone[a] => snap[a].said = messages
      BY DEF MInv, Undisturbed
    <2>2. ~Overfull(a) => Len(snap[a].said) <= snap[a].row.upto + Keep
      BY SMTT(40), SparedIs DEF MInv, Unsummarized, Overfull
    <2>3. QED
      BY <1>1, <2>1, <2>2 DEF Fits
  <1>4. Write(a, row)
    OBVIOUS
  <1> HIDE DEF row
  <1>5. QED
    BY <1>1, <1>2, <1>3, <1>4, WriteInv

LEMMA CompactInv == ASSUME MInv, NEW a \in Ask, Compact(a) PROVE MInv'
  <1> DEFINE row == [summary |-> Summary(a), upto |-> Upto(a), status |-> "compacted"]
  <1>1. TypeOK /\ Account(snap[a].row) /\ Upto(a) > snap[a].row.upto
    BY DEF MInv, RowsAreSound, Sound, Compact
  <1>2. /\ Upto(a) \in Nat /\ Upto(a) = Len(snap[a].said) - Spared(a)
        /\ Spared(a) \in {Keep, MinRecent} /\ Spared(a) <= Keep
        /\ Summary(a) \in Seq(Noted) /\ Len(Summary(a)) = Upto(a)
        /\ \A i \in 1..Upto(a) : Summary(a)[i].seq = i
    BY <1>1, SummaryIs
  <1>3. row \in Memory /\ Account(row) /\ row.upto = Upto(a)
    BY <1>2 DEF Memory, State, Account
  <1>4. exists => row.upto <= Len(messages) /\ Spares(row)
    <2>1. Len(snap[a].said) \in Nat /\ Len(messages) \in Nat /\ Spared(a) \in Nat
      BY <1>1, SparedIs, LenProperties DEF TypeOK
    <2>2. exists => Len(snap[a].said) <= Len(messages)
      BY DEF MInv, ReadBefore
    <2>3. QED
      BY <1>2, <1>3, <2>1, <2>2 DEF Spares
  <1>5. alone[a] => Fits(row, messages)
    <2>1. alone[a] => snap[a].said = messages
      BY DEF MInv, Undisturbed, Compact
    <2>2. Len(snap[a].said) \in Nat /\ Spared(a) \in Nat
      BY <1>1, SparedIs
    <2>3. QED
      BY <1>2, <1>3, <2>1, <2>2 DEF Fits
  <1>6. at[a] = "compact" /\ Write(a, row)
    BY DEF Compact
  <1> HIDE DEF row
  <1>7. QED
    BY <1>3, <1>4, <1>5, <1>6, WriteInv

\* Nothing to summarise, or it has failed before: what the row says is enough.
LEMMA SkipInv == ASSUME MInv, NEW a \in Ask, Skip(a) PROVE MInv'
  <1>1. /\ UNCHANGED <<exists, messages, memory, snap, mine, alone, crashes>>
        /\ at[a] = "compact" /\ at'[a] = "again"
        /\ \A b \in Ask : b # a => at'[b] = at[b]
    BY DEF Skip, To, MInv, TypeOK
  <1>2. TypeOK'
    BY <1>1 DEF Skip, To, MInv, TypeOK, At
  <1>3. RowsAreSound' /\ ReadBefore'
    BY <1>1 DEF MInv, RowsAreSound, Sound, Spares, Account, ReadBefore
  <1>4. Fits(snap[a].row, snap[a].said)
    <2>1. TypeOK
      BY DEF MInv
    <2>2. CASE ~Overfull(a) /\ snap[a].row.status = "failed"
      BY <2>2 DEF Fits
    <2>3. CASE Upto(a) = snap[a].row.upto
      <3>1. CASE Overfull(a)
        BY <2>1, <2>3, <3>1, SparedIs DEF Fits, Upto
      <3>2. CASE ~Overfull(a)
        BY SMTT(40), <2>1, <3>2, SparedIs DEF Fits, Unsummarized, Overfull
      <3>3. QED
        BY <3>1, <3>2
    <2>4. QED
      BY <2>2, <2>3 DEF Skip
  <1>5. ASSUME NEW b \in Ask PROVE Undisturbed(b)'
    BY <1>1, <1>4 DEF MInv, Undisturbed, Fits
  <1>6. QED
    BY <1>2, <1>3, <1>5 DEF MInv

-----------------------------------------------------------------------------
(* Asking and answering *)

\* A message more, or another text of one: rows read before stay sound, and
\* everybody else has been disturbed.
LEMMA LongerInv ==
  ASSUME MInv, exists, NEW a \in Ask,
         messages' \in Seq(Says), Len(messages') >= Len(messages), Wrote(a),
         UNCHANGED <<exists, memory>>,
         at' \in [Ask -> At], at'[a] \in {"free", "reply", "answering"},
         \A b \in Ask : b # a => at'[b] = at[b] /\ mine'[b] = mine[b],
         snap' = snap \/ snap' = [snap EXCEPT ![a] = NoSnap]
  PROVE  /\ RowsAreSound'
         /\ \A b \in Ask : Undisturbed(b)'
         /\ \A b \in Ask : Len(snap[b].said)' <= Len(messages)'
  <1>1. Len(messages) \in Nat /\ Len(messages') \in Nat /\ memory.upto \in Nat
        /\ \A b \in Ask : Len(snap[b].said) \in Nat /\ snap[b].row.upto \in Nat
    BY LenProperties DEF MInv, TypeOK, Snap, Memory
  <1>2. Account(NoSnap.row) /\ NoSnap.row.upto = 0 /\ Len(NoSnap.said) = 0
    BY EmptySeq DEF NoSnap, NoMemory, Account
  <1>3. \A b \in Ask : snap'[b] = snap[b] \/ snap'[b] = NoSnap
    BY DEF MInv, TypeOK
  <1>4. \A b \in Ask : b # a => ~alone'[b]
    BY DEF Wrote
  <1>5. Sound(memory)'
    BY <1>1 DEF MInv, RowsAreSound, Sound, Spares, Account
  <1>6. ASSUME NEW b \in Ask PROVE Sound(snap[b].row)'
    <2>1. CASE snap'[b].row = NoSnap.row
      BY <1>1, <1>2, <2>1 DEF Sound, Spares, Account
    <2>2. CASE snap'[b].row = snap[b].row
      <3>1. Sound(snap[b].row)
        BY DEF MInv, RowsAreSound
      <3>2. QED
        BY SMTT(40), <1>1, <2>2, <3>1 DEF Sound, Spares, Account
    <2>3. QED
      BY <1>3, <2>1, <2>2
  <1>7. \A b \in Ask : Undisturbed(b)'
    BY <1>4 DEF Undisturbed
  <1>8. \A b \in Ask : Len(snap'[b].said) <= Len(messages')
    BY <1>1, <1>2, <1>3 DEF MInv, ReadBefore
  <1>9. QED
    BY <1>5, <1>6, <1>7, <1>8 DEF RowsAreSound

LEMMA AskInv ==
  ASSUME MInv, NEW a \in Ask, AppendQuestion(a) \/ AppendAnswer(a) \/ Answer(a)
  PROVE  MInv'
  <1> USE DEF MInv
  <1>0. /\ exists /\ UNCHANGED <<exists, memory, crashes>> /\ Wrote(a)
        /\ at' \in [Ask -> At] /\ at'[a] \in {"free", "reply", "answering"}
        /\ snap' = snap \/ snap' = [snap EXCEPT ![a] = NoSnap]
        /\ alone' \in [Ask -> BOOLEAN] /\ mine' \in [Ask -> Nat]
        /\ \A b \in Ask : b # a => at'[b] = at[b] /\ mine'[b] = mine[b]
    <2>1. mine' \in [Ask -> Nat]
      <3>1. Len(messages) + 1 \in Nat
        BY LenProperties DEF TypeOK
      <3>2. QED
        BY <3>1 DEF TypeOK, AppendQuestion, AppendAnswer, Answer
    <2>2. QED
      BY <2>1 DEF AppendQuestion, AppendAnswer, Answer, Say, Wrote, To, Forget, TypeOK, At
  <1>1. /\ messages' \in Seq(Says) /\ Len(messages') >= Len(messages)
        /\ Len(messages') \in Nat
        /\ at'[a] = "answering" => mine'[a] \in 1..Len(messages')
    <2>1. messages \in Seq(Says) /\ Len(messages) \in Nat
      BY LenProperties DEF TypeOK
    <2>2. CASE AppendQuestion(a)
      <3>1. messages' = Append(messages, "question") /\ at'[a] = "reply"
        BY <2>2 DEF AppendQuestion, Say, To, TypeOK
      <3>2. QED
        BY <2>1, <3>1, AppendProperties DEF Says
    <2>3. CASE AppendAnswer(a)
      <3>1. messages' = Append(messages, "pending") /\ mine'[a] = Len(messages) + 1
        BY <2>3 DEF AppendAnswer, Say, TypeOK
      <3>2. QED
        BY <2>1, <3>1, AppendProperties DEF Says
    <2>4. CASE Answer(a)
      <3>1. /\ messages' = [messages EXCEPT ![mine[a]] = "answer"] /\ at'[a] = "free"
            /\ mine[a] \in 1..Len(messages)
        BY <2>4 DEF Answer, To, ReadBefore, TypeOK
      <3>2. QED
        BY <2>1, <3>1, ExceptSeq DEF Says
    <2>5. QED
      BY <2>2, <2>3, <2>4
  <1>2. /\ RowsAreSound'
        /\ \A b \in Ask : Undisturbed(b)'
        /\ \A b \in Ask : Len(snap[b].said)' <= Len(messages)'
    BY <1>0, <1>1, LongerInv
  <1>3. TypeOK'
    <2>1. NoSnap \in Snap
      BY EmptySeq DEF NoMemory, NoSnap, Memory, Snap, State
    <2>2. QED
      BY <1>0, <1>1, <2>1 DEF TypeOK
  <1>4. ReadBefore'
    <2>1. Len(messages) \in Nat
      BY LenProperties DEF TypeOK
    <2>2. QED
      BY <1>0, <1>1, <1>2, <2>1 DEF ReadBefore
  <1>5. QED
    BY <1>2, <1>3, <1>4

LEMMA GiveUpInv == ASSUME MInv, NEW a \in Ask, GiveUp(a) PROVE MInv'
  <1> USE DEF MInv
  <1>1. /\ UNCHANGED <<exists, messages, memory, alone, crashes>>
        /\ \A b \in Ask : b # a => at'[b] = at[b] /\ snap'[b] = snap[b] /\ mine'[b] = mine[b]
        /\ at'[a] = "free" /\ snap'[a] = NoSnap
    BY DEF GiveUp, To, Forget, TypeOK
  <1>2. /\ NoSnap \in Snap /\ Account(NoSnap.row) /\ NoSnap.row.upto = 0
        /\ Len(NoSnap.said) = 0 /\ Len(messages) \in Nat
    BY EmptySeq, LenProperties
    DEF NoSnap, NoMemory, Account, Snap, Memory, State, TypeOK
  <1>3. TypeOK'
    BY <1>2 DEF GiveUp, To, Forget, TypeOK, At
  <1>4. RowsAreSound'
    BY SMTT(40), <1>1, <1>2 DEF RowsAreSound, Sound, Spares, Account
  <1>5. ReadBefore' /\ \A b \in Ask : Undisturbed(b)'
    BY <1>1, <1>2 DEF ReadBefore, Undisturbed, Fits
  <1>6. QED
    BY <1>3, <1>4, <1>5

LEMMA WorldInv == MInv /\ (DeleteSession \/ Crash) => MInv'
  <1> SUFFICES ASSUME MInv, DeleteSession \/ Crash PROVE MInv'
    OBVIOUS
  <1> USE DEF MInv
  <1>1. /\ NoSnap \in Snap /\ NoMemory \in Memory /\ Account(NoMemory)
        /\ NoSnap.row = NoMemory /\ NoMemory.upto = 0 /\ Len(NoSnap.said) = 0
        /\ <<>> \in Seq(Says) /\ Len(messages) \in Nat
    BY EmptySeq, LenProperties DEF NoSnap, NoMemory, Account, Snap, Memory, State, TypeOK
  <1>2. CASE DeleteSession
    <2>1. /\ ~exists' /\ memory' = NoMemory /\ UNCHANGED snap
          /\ \A a \in Ask : ~alone'[a]
      BY <1>2 DEF DeleteSession
    <2>2. TypeOK'
      BY <1>1, <1>2 DEF DeleteSession, TypeOK
    <2>3. RowsAreSound' /\ ReadBefore' /\ \A a \in Ask : Undisturbed(a)'
      BY <1>1, <2>1 DEF RowsAreSound, Sound, Account, ReadBefore, Undisturbed
    <2>4. QED
      BY <2>2, <2>3
  <1>3. CASE Crash
    <2>1. /\ UNCHANGED <<exists, messages, memory, alone>>
          /\ \A a \in Ask : at'[a] = "free" /\ snap'[a] = NoSnap
      BY <1>3 DEF Crash
    <2>2. TypeOK'
      BY <1>1, <1>3 DEF Crash, TypeOK, At
    <2>3. RowsAreSound'
      BY <1>1, <2>1 DEF RowsAreSound, Sound, Spares, Account
    <2>4. ReadBefore' /\ \A a \in Ask : Undisturbed(a)'
      BY <1>1, <2>1 DEF ReadBefore, Undisturbed
    <2>5. QED
      BY <2>2, <2>3, <2>4
  <1>4. QED
    BY <1>2, <1>3

-----------------------------------------------------------------------------
(* The theorems *)

LEMMA StepInv == MInv /\ [Next]_vars => MInv'
  <1> SUFFICES ASSUME MInv, [Next]_vars PROVE MInv'
    OBVIOUS
  <1>1. ASSUME NEW a \in Ask, KeepRow(a) \/ CompactFails(a) PROVE MInv'
    <2>1. CASE KeepRow(a)
      <3> DEFINE status == IF snap[a].row.summary = <<>> THEN "idle" ELSE "compacted"
      <3>1. status \in State
        BY DEF State
      <3>2. at[a] = "compact" /\ Write(a, [snap[a].row EXCEPT !.status = status])
            /\ ~Overfull(a)
        BY <2>1 DEF KeepRow
      <3> HIDE DEF status
      <3>3. QED
        BY <3>1, <3>2, StatusInv
    <2>2. CASE CompactFails(a)
      <3>1. at[a] = "compact" /\ Write(a, [snap[a].row EXCEPT !.status = "failed"])
        BY <2>2 DEF CompactFails
      <3>2. "failed" \in State
        BY DEF State
      <3>3. QED
        BY <3>1, <3>2, StatusInv
    <2>3. QED
      BY <1>1, <2>1, <2>2
  <1>2. ASSUME NEW a \in Ask, Step(a) PROVE MInv'
    BY <1>1, <1>2, ReadRowInv, ReadMessagesInv, SkipInv, CompactInv, AskInv, GiveUpInv
    DEF Step
  <1>3. CASE UNCHANGED vars
    BY <1>3 DEF vars, MInv, TypeOK, RowsAreSound, Sound, Spares, Account, ReadBefore,
                Undisturbed, Fits
  <1>4. QED
    BY <1>2, <1>3, WorldInv DEF Next

LEMMA SpecInv == Spec => []MInv
  BY InitInv, StepInv, PTL DEF Spec

\* Every reachable state is well typed.
THEOREM MemoryTyped == Spec => []TypeOK
  <1>1. MInv => TypeOK
    BY DEF MInv
  <1>2. QED
    BY SpecInv, <1>1, PTL

\* Whoever summarises the session, and from whatever they have read, its summary
\* is made from exactly the messages up to summary_message_seq_upto.
THEOREM SummaryAccounts == Spec => []SummaryIsAccount
  <1>1. MInv => SummaryIsAccount
    BY DEF MInv, RowsAreSound, Sound, SummaryIsAccount
  <1>2. QED
    BY SpecInv, <1>1, PTL

\* The messages the settings keep out of the summary are never in it.
THEOREM RecentSpared == Spec => []RecentIsSpared
  <1>1. MInv => RecentIsSpared
    BY DEF MInv, RowsAreSound, Sound, Spares, RecentIsSpared
  <1>2. QED
    BY SpecInv, <1>1, PTL

\* A question that nobody disturbed sees all of the conversation, in its window
\* of recent messages or in the summary, unless summarising has failed.
THEOREM ContextWhole == Spec => []ContextIsWhole
  <1>1. MInv => ContextIsWhole
    <2> SUFFICES ASSUME MInv, NEW a \in Ask, at[a] = "ready", alone[a],
                        snap[a].row.status # "failed",
                        NEW i \in 1 .. Len(snap[a].said) - Keep
                 PROVE  InSummary(snap[a].row, i)
      BY DEF ContextIsWhole
    <2>1. /\ Len(snap[a].said) <= snap[a].row.upto + Keep
          /\ Account(snap[a].row)
      BY DEF MInv, Undisturbed, Fits, RowsAreSound, Sound
    <2>2. Len(snap[a].said) \in Nat /\ snap[a].row.upto \in Nat
      BY SparedIs DEF MInv
    <2>3. i \in 1..snap[a].row.upto
      BY <2>1, <2>2
    <2>4. QED
      BY <2>1, <2>3 DEF Account, InSummary
  <1>2. QED
    BY SpecInv, <1>1, PTL
=============================================================================
