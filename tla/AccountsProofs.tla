---------------------------- MODULE AccountsProofs ---------------------------
(***************************************************************************)
(* Machine-checked proofs about Accounts, Settings, Sessions and the       *)
(* RuntimeSchema their rows are kept in, for any accounts, tokens,         *)
(* profiles, threads and questions: a sign-in session belongs to an        *)
(* account as it is now, no batch deletion takes an administrator with it, *)
(* the provider that a user's settings name is there, a title is made from *)
(* a question and its own answer, a settled title is the user's; and for   *)
(* any older database: a session is deleted whole, content outlives its    *)
(* account, and a reference dangles only where no key is enforced.         *)
(***************************************************************************)
EXTENDS Accounts, Settings, Sessions, RuntimeSchema, SequenceTheorems,
        FiniteSetTheorems, NaturalsInduction, WellFoundedInduction, TLAPS

USE AccountsAssumption

\* A target that a batch deletion has looked at has been there, and is no
\* administrator but for a role it was given since.
LookedAt ==
  \A w \in Thread :
    /\ op[w].at = "delete" => op[w].todo = {}
    /\ op[w].at \in {"look", "delete"} =>
         \A u \in op[w].who \ op[w].todo :
           user[u].at # "new" /\ (Here(u) /\ user[u].role = "admin" => u \in promoted)

AInv == TypeOK /\ SessionsAreCurrent /\ LookedAt

-----------------------------------------------------------------------------
(* Types *)

LEMMA Values ==
  /\ NoRow \in Row /\ NoSession \in Session /\ NoOp \in Op /\ NoOp.at = "idle"
  /\ \A n \in Name, p \in Password, r \in Role : Fresh(n, p, r) \in Row
  BY DEF NoRow, NoSession, NoOp, Fresh, Row, Session, Op, Role, At

LEMMA InitType == Init => TypeOK
  <1> SUFFICES ASSUME Init PROVE TypeOK
    OBVIOUS
  <1>1. Fresh(SeedName, SeedPassword, "admin") \in Row
    BY Values DEF Role
  <1>2. user \in [UserId -> Row]
    BY <1>1, Values DEF Init
  <1>3. sess \in [Token -> Session] /\ \A t \in Token : sess[t].at = "new"
    BY Values DEF Init, NoSession
  <1>4. op \in [Thread -> Op] /\ \A w \in Thread : op[w].at = "idle"
    BY Values DEF Init
  <1>5. QED
    BY <1>2, <1>3, <1>4 DEF Init, TypeOK

\* A row changed as these requests change it is a row.
LEMMA ClosedType ==
  ASSUME TypeOK, NEW S
  PROVE  /\ Close(S) \in [Token -> Session]
         /\ \A t \in Token : /\ Close(S)[t].user = sess[t].user
                             /\ Close(S)[t].pw = sess[t].pw
                             /\ Close(S)[t].at = "new" <=> sess[t].at = "new"
                             /\ Close(S)[t].at = "open" =>
                                  sess[t].at = "open" /\ sess[t].user \notin S
  BY DEF Close, TypeOK, Session

\* Requests that end, or go on, as requests do.
LEMMA DoneType ==
  ASSUME TypeOK, NEW w \in Thread, Done(w)
  PROVE  /\ op' \in [Thread -> Op]
         /\ \A v \in Thread : /\ op'[v].at \notin {"idle", "insert"} => op'[v].me \in UserId
                              /\ op'[v].at = "insert" => op'[v].name \in Name
  BY Values DEF Done, TypeOK

LEMMA ToType ==
  ASSUME TypeOK, NEW w \in Thread, NEW at \in At \ {"insert"}, op[w].at \notin {"idle", "insert"},
         To(w, at)
  PROVE  /\ op' \in [Thread -> Op]
         /\ \A v \in Thread : /\ op'[v].at \notin {"idle", "insert"} => op'[v].me \in UserId
                              /\ op'[v].at = "insert" => op'[v].name \in Name
  BY DEF To, TypeOK, Op

LEMMA InsertType ==
  ASSUME TypeOK, NEW n \in Name, NEW p \in Password, NEW r \in Role, Insert(n, p, r)
  PROVE  /\ user' \in [UserId -> Row]
         /\ \A u \in UserId : user'[u] = user[u] \/ user[u].at = "new"
  BY Values DEF Insert, TypeOK

LEMMA DeleteType ==
  ASSUME TypeOK, NEW S, Delete(S)
  PROVE  /\ user' \in [UserId -> Row] /\ sess' = Close(S)
         /\ \A u \in UserId :
              user'[u] = IF u \in S /\ Here(u) THEN [user[u] EXCEPT !.at = "gone"] ELSE user[u]
  BY DEF Delete, TypeOK, Row

\* What a request changes, apart from itself.
LEMMA AccountType ==
  ASSUME TypeOK, NEW w \in Thread,
         \/ RestoreAdmin(w) \/ DeleteOwn(w) \/ BatchDelete(w) \/ ProfileWrite(w)
         \/ RegisterInsert(w)
         \/ \E u \in UserId, r \in Role, active \in BOOLEAN : UpdateUser(w, u, r, active)
         \/ \E u \in UserId, p \in Password : ResetPassword(w, u, p)
  PROVE  TypeOK'
  <1>0. /\ op' \in [Thread -> Op]
        /\ \A v \in Thread : /\ op'[v].at \notin {"idle", "insert"} => op'[v].me \in UserId
                             /\ op'[v].at = "insert" => op'[v].name \in Name
    BY DoneType
    DEF RestoreAdmin, DeleteOwn, BatchDelete, ProfileWrite, RegisterInsert, UpdateUser,
        ResetPassword
  <1>1. writes' \in 0..MaxWrites /\ UNCHANGED <<keys, up, crashes, late>>
    <2>1. Wrote /\ UNCHANGED <<keys, up, crashes, late>>
      BY DEF RestoreAdmin, DeleteOwn, BatchDelete, ProfileWrite, RegisterInsert,
             UpdateUser, ResetPassword
    <2>2. QED
      BY <2>1 DEF Wrote, TypeOK
  <1>2. op[w] \in Op
    BY DEF TypeOK
  <1>3. ASSUME user' \in [UserId -> Row], promoted' \subseteq UserId,
               sess' = sess \/ \E S : sess' = Close(S)
        PROVE  TypeOK'
    <2>1. /\ sess' \in [Token -> Session]
          /\ \A t \in Token : sess'[t].at # "new" => sess'[t].user \in UserId
      <3>1. CASE sess' = sess
        BY <3>1 DEF TypeOK
      <3>2. ASSUME NEW S, sess' = Close(S)
            PROVE  /\ sess' \in [Token -> Session]
                   /\ \A t \in Token : sess'[t].at # "new" => sess'[t].user \in UserId
        BY <3>2, ClosedType DEF TypeOK
      <3>3. QED
        BY <1>3, <3>1, <3>2
    <2>2. QED
      BY <1>0, <1>1, <1>3, <2>1 DEF TypeOK
  <1>4. CASE RestoreAdmin(w)
    <2>1. user' \in [UserId -> Row]
      BY <1>4 DEF RestoreAdmin, TypeOK, Row, Role
    <2>2. promoted' \subseteq UserId
      BY <1>4 DEF RestoreAdmin, Promote, TypeOK
    <2>3. QED
      BY <1>3, <1>4, <2>1, <2>2 DEF RestoreAdmin
  <1>5. CASE DeleteOwn(w)
    BY <1>3, <1>5, DeleteType DEF DeleteOwn, TypeOK
  <1>6. CASE BatchDelete(w)
    BY <1>3, <1>6, DeleteType DEF BatchDelete, TypeOK
  <1>7. CASE ProfileWrite(w)
    <2>1. op[w].name \in Name \cup {Nobody}
      BY <1>2 DEF Op
    <2>2. user' \in [UserId -> Row]
      BY <1>7, <2>1 DEF ProfileWrite, TypeOK, Row
    <2>3. QED
      BY <1>3, <1>7, <2>2 DEF ProfileWrite, TypeOK
  <1>8. CASE RegisterInsert(w)
    <2>1. op[w].pw \in Password
      BY <1>2 DEF Op
    <2>2. op[w].name \in Name
      BY <1>8 DEF RegisterInsert, TypeOK
    <2>3. QED
      BY <1>3, <1>8, <2>1, <2>2, InsertType DEF RegisterInsert, TypeOK, Role
  <1>9. ASSUME NEW u \in UserId, NEW r \in Role, NEW active \in BOOLEAN,
               UpdateUser(w, u, r, active)
        PROVE  TypeOK'
    <2>1. user' \in [UserId -> Row]
      BY SMTT(40), <1>9 DEF UpdateUser, TypeOK, Row
    <2>2. promoted' \subseteq UserId
      BY <1>9 DEF UpdateUser, Promote, TypeOK
    <2>3. sess' = sess \/ \E S : sess' = Close(S)
      BY <1>9 DEF UpdateUser
    <2>4. QED
      BY <1>3, <2>1, <2>2, <2>3
  <1>10. ASSUME NEW u \in UserId, NEW p \in Password, ResetPassword(w, u, p)
         PROVE  TypeOK'
    <2>1. user' \in [UserId -> Row]
      BY <1>10 DEF ResetPassword, TypeOK, Row
    <2>2. QED
      BY <1>3, <1>10, <2>1 DEF ResetPassword, TypeOK
  <1>11. QED
    BY <1>4, <1>5, <1>6, <1>7, <1>8, <1>9, <1>10

\* A request that is taken up, or goes on, changes nothing but itself.
Continues(w) ==
  /\ UNCHANGED <<keys, user, sess, up, writes, crashes, late, promoted>>
  /\ \E new \in Op :
       /\ op' = [op EXCEPT ![w] = new]
       /\ new.at \notin {"idle", "insert"} => new.me \in UserId
       /\ new.at = "insert" => new.name \in Name

LEMMA ContinuesType == ASSUME TypeOK, NEW w \in Thread, Continues(w) PROVE TypeOK'
  BY DEF Continues, TypeOK

LEMMA BeginContinues ==
  ASSUME TypeOK, NEW w \in Thread,
         \/ \E n \in Name, p \in Password : RegisterRead(w, n, p) \/ LoginRead(w, n, p)
         \/ \E t \in Token : Authenticate(w, t)
  PROVE  Continues(w)
  <1>1. ASSUME NEW n \in Name, NEW p \in Password, RegisterRead(w, n, p)
        PROVE  Continues(w)
    <2>1. CASE op' = [op EXCEPT ![w] = [NoOp EXCEPT !.at = "insert", !.admin = TRUE]]
      <3> DEFINE new == [NoOp EXCEPT !.at = "insert", !.admin = TRUE]
      <3>1. new \in Op /\ new.at = "insert" /\ new.name \in Name
        BY DEF NoOp, Op, At
      <3> HIDE DEF new
      <3>2. QED
        BY <1>1, <2>1, <3>1 DEF Continues, RegisterRead, new
    <2>2. ASSUME NEW u \in Named(n),
                 op' = [op EXCEPT ![w] = [NoOp EXCEPT !.at = "restore", !.me = u]]
          PROVE  Continues(w)
      <3> DEFINE new == [NoOp EXCEPT !.at = "restore", !.me = u]
      <3>1. new \in Op /\ new.at = "restore" /\ new.me \in UserId
        BY DEF NoOp, Op, At, Named
      <3> HIDE DEF new
      <3>2. QED
        BY <1>1, <2>2, <3>1 DEF Continues, RegisterRead, new
    <2>3. CASE op' = [op EXCEPT ![w] = [NoOp EXCEPT !.at = "insert", !.name = n, !.pw = p]]
      <3> DEFINE new == [NoOp EXCEPT !.at = "insert", !.name = n, !.pw = p]
      <3>1. new \in Op /\ new.at = "insert" /\ new.name \in Name
        BY DEF NoOp, Op, At
      <3> HIDE DEF new
      <3>2. QED
        BY <1>1, <2>3, <3>1 DEF Continues, RegisterRead, new
    <2>4. QED
      BY <1>1, <2>1, <2>2, <2>3 DEF RegisterRead
  <1>2. ASSUME NEW n \in Name, NEW p \in Password, LoginRead(w, n, p)
        PROVE  Continues(w)
    <2>1. PICK u \in Verified(n, p) :
            op' = [op EXCEPT ![w] = [NoOp EXCEPT !.at = "session", !.me = u, !.pw = p]]
      BY <1>2 DEF LoginRead
    <2> DEFINE new == [NoOp EXCEPT !.at = "session", !.me = u, !.pw = p]
    <2>2. new \in Op /\ new.at = "session" /\ new.me \in UserId
      BY DEF NoOp, Op, At, Verified, Named
    <2> HIDE DEF new
    <2>3. QED
      BY <1>2, <2>1, <2>2 DEF Continues, LoginRead, new
  <1>3. ASSUME NEW t \in Token, Authenticate(w, t)
        PROVE  Continues(w)
    <2> DEFINE u == sess[t].user
               may == user[u].role = "admin" /\ ~user[u].must
               new == [NoOp EXCEPT !.at = "authed", !.me = u, !.admin = may]
    <2>1. u \in UserId
      BY <1>3 DEF Authenticate, Here
    <2>2. may \in BOOLEAN
      OBVIOUS
    <2>3. op' = [op EXCEPT ![w] = new]
      BY <1>3 DEF Authenticate
    <2> HIDE DEF u, may
    <2>4. new \in Op /\ new.at = "authed" /\ new.me \in UserId
      BY <2>1, <2>2 DEF NoOp, Op, At
    <2> HIDE DEF new
    <2>5. QED
      BY <1>3, <2>3, <2>4 DEF Continues, Authenticate
  <1>4. QED
    BY <1>1, <1>2, <1>3

LEMMA GoesOnContinues ==
  ASSUME TypeOK, NEW w \in Thread,
         \/ \E p \in Password : ChangeRead(w, p) \/ DeleteOwnRead(w, p)
         \/ \E S \in SUBSET UserId, p \in Password : BatchRead(w, S, p)
         \/ \E u \in UserId : LookAt(w, u)
         \/ \E n \in Name \cup {Nobody} : ProfileRead(w, n)
         \/ Relogin(w)
  PROVE  Continues(w)
  <1>1. op[w] \in Op /\ op \in [Thread -> Op]
        /\ (op[w].at \notin {"idle", "insert"} => op[w].me \in UserId)
    BY DEF TypeOK
  <1>2. ASSUME op[w].at \notin {"idle", "insert"}, NEW at \in At \ {"insert"},
               op' = [op EXCEPT ![w] = [op[w] EXCEPT !.at = at]],
               UNCHANGED <<keys, user, sess, up, writes, crashes, late, promoted>>
        PROVE  Continues(w)
    <2>1. [op[w] EXCEPT !.at = at] \in Op /\ [op[w] EXCEPT !.at = at].at # "insert"
          /\ [op[w] EXCEPT !.at = at].me \in UserId
      BY <1>1, <1>2 DEF Op
    <2>2. QED
      BY <1>2, <2>1 DEF Continues
  <1>3. ASSUME op' = [op EXCEPT ![w] = NoOp],
               UNCHANGED <<keys, user, sess, up, writes, crashes, late, promoted>>
        PROVE  Continues(w)
    BY <1>3, Values DEF Continues
  <1>4. ASSUME NEW p \in Password, ChangeRead(w, p) \/ DeleteOwnRead(w, p)
        PROVE  Continues(w)
    BY <1>1, <1>2, <1>4 DEF ChangeRead, DeleteOwnRead, Check, To, At
  <1>5. ASSUME NEW S \in SUBSET UserId, NEW p \in Password, BatchRead(w, S, p)
        PROVE  Continues(w)
    <2> DEFINE new == [op[w] EXCEPT !.at = "look", !.who = S, !.todo = S]
    <2>1. new \in Op /\ new.at = "look" /\ new.me \in UserId /\ op' = [op EXCEPT ![w] = new]
      BY <1>1, <1>5 DEF BatchRead, Op, At
    <2> HIDE DEF new
    <2>2. QED
      BY <1>5, <2>1 DEF Continues, BatchRead
  <1>6. ASSUME NEW u \in UserId, LookAt(w, u)
        PROVE  Continues(w)
    <2> DEFINE new == [op[w] EXCEPT !.todo = @ \ {u},
                         !.at = IF op[w].todo = {u} THEN "delete" ELSE @]
    <2>1. new \in Op /\ new.at \in {"look", "delete"} /\ new.me \in UserId
      BY <1>1, <1>6 DEF LookAt, Op, At
    <2>2. op' = [op EXCEPT ![w] = new] \/ op' = [op EXCEPT ![w] = NoOp]
      BY <1>1, <1>6 DEF LookAt, Done
    <2> HIDE DEF new
    <2>3. UNCHANGED <<keys, user, sess, up, writes, crashes, late, promoted>>
      BY <1>6 DEF LookAt
    <2>4. QED
      BY <1>3, <2>1, <2>2, <2>3 DEF Continues
  <1>7. ASSUME NEW n \in Name \cup {Nobody}, ProfileRead(w, n)
        PROVE  Continues(w)
    <2> DEFINE new == [op[w] EXCEPT !.at = "show", !.name = n]
    <2>1. new \in Op /\ new.at = "show" /\ new.me \in UserId /\ op' = [op EXCEPT ![w] = new]
      BY <1>1, <1>7 DEF ProfileRead, Op, At
    <2> HIDE DEF new
    <2>2. QED
      BY <1>7, <2>1 DEF Continues, ProfileRead
  <1>8. CASE Relogin(w)
    <2>1. CASE op' = [op EXCEPT ![w] = NoOp]
      BY <1>3, <1>8, <2>1 DEF Relogin
    <2>2. ASSUME NEW u \in Verified(op[w].name, op[w].pw),
                 op' = [op EXCEPT ![w] = [op[w] EXCEPT !.at = "session", !.me = u]]
          PROVE  Continues(w)
      <3> DEFINE new == [op[w] EXCEPT !.at = "session", !.me = u]
      <3>1. new \in Op /\ new.at = "session" /\ new.me \in UserId
        BY <1>1 DEF Op, At, Verified, Named
      <3> HIDE DEF new
      <3>2. QED
        BY <1>8, <2>2, <3>1 DEF Continues, Relogin, new
    <2>3. QED
      BY <1>1, <1>8, <2>1, <2>2 DEF Relogin, Done
  <1>9. QED
    BY <1>4, <1>5, <1>6, <1>7, <1>8

LEMMA SessionType ==
  ASSUME TypeOK, NEW w \in Thread,
         \/ LoginInsert(w)
         \/ \E t \in Token : Logout(w, t)
         \/ \E p \in Password : ChangeWrite(w, p)
  PROVE  TypeOK'
  <1>1. op[w] \in Op /\ op \in [Thread -> Op]
        /\ (op[w].at \notin {"idle", "insert"} => op[w].me \in UserId)
    BY DEF TypeOK
  <1>2. CASE LoginInsert(w)
    <2>1. op[w].me \in UserId /\ op[w].pw \in Password
      BY <1>1, <1>2 DEF LoginInsert, Op
    <2>2. UNCHANGED <<keys, user, up, writes, crashes, promoted>> /\ Done(w)
      BY <1>2 DEF LoginInsert
    <2>3. /\ sess' \in [Token -> Session] /\ late' \subseteq Token
          /\ \A t \in Token : sess'[t].at # "new" => sess'[t].user \in UserId
      <3>1. CASE UNCHANGED <<sess, late>>
        BY <3>1 DEF TypeOK
      <3>2. ASSUME NEW t \in Token,
                   sess' = [sess EXCEPT ![t] = [at |-> "open", user |-> op[w].me, pw |-> op[w].pw]],
                   late' = late \/ late' = late \cup {t}
            PROVE  /\ sess' \in [Token -> Session] /\ late' \subseteq Token
                   /\ \A s \in Token : sess'[s].at # "new" => sess'[s].user \in UserId
        <4> DEFINE new == [at |-> "open", user |-> op[w].me, pw |-> op[w].pw]
        <4>1. new \in Session /\ new.user \in UserId
          BY <2>1 DEF Session
        <4>2. sess' = [sess EXCEPT ![t] = new]
          BY <3>2
        <4> HIDE DEF new
        <4>3. QED
          BY <3>2, <4>1, <4>2 DEF TypeOK
      <3>3. \/ UNCHANGED <<sess, late>>
            \/ \E t \in Token :
                 /\ sess' = [sess EXCEPT ![t] = [at |-> "open", user |-> op[w].me,
                                                pw |-> op[w].pw]]
                 /\ late' = late \/ late' = late \cup {t}
        BY <1>2 DEF LoginInsert
      <3>4. QED
        BY <3>1, <3>2, <3>3
    <2>4. QED
      BY <2>2, <2>3, DoneType DEF TypeOK
  <1>3. ASSUME NEW t \in Token, Logout(w, t) PROVE TypeOK'
    <2>1. UNCHANGED <<keys, user, up, writes, crashes, late, promoted>> /\ Done(w)
      BY <1>3 DEF Logout
    <2>2. /\ sess' \in [Token -> Session]
          /\ \A s \in Token : sess'[s].at # "new" => sess'[s].user \in UserId
      BY <1>3 DEF Logout, TypeOK, Session
    <2>3. QED
      BY <2>1, <2>2, DoneType DEF TypeOK
  <1>4. ASSUME NEW p \in Password, ChangeWrite(w, p) PROVE TypeOK'
    <2>1. /\ UNCHANGED <<keys, up, crashes, late, promoted>> /\ Wrote /\ op[w].me \in UserId
          /\ sess' = Close({op[w].me})
      BY <1>1, <1>4 DEF ChangeWrite
    <2>2. user' \in [UserId -> Row]
      <3>1. \/ UNCHANGED user
            \/ user' = [user EXCEPT ![op[w].me] = [user[op[w].me] EXCEPT !.pw = p, !.must = FALSE]]
        BY <1>4 DEF ChangeWrite
      <3>2. [user[op[w].me] EXCEPT !.pw = p, !.must = FALSE] \in Row
        <4>1. user[op[w].me] \in Row
          BY <2>1 DEF TypeOK
        <4>2. QED
          BY <1>4, <4>1 DEF Row
      <3>3. QED
        BY <3>1, <3>2 DEF TypeOK
    <2>3. /\ op' \in [Thread -> Op]
          /\ \A v \in Thread : /\ op'[v].at \notin {"idle", "insert"} => op'[v].me \in UserId
                               /\ op'[v].at = "insert" => op'[v].name \in Name
      <3>1. CASE Done(w)
        BY <3>1, DoneType
      <3>2. CASE /\ Here(op[w].me)
                 /\ op' = [op EXCEPT ![w].at = "relogin", ![w].pw = p,
                                     ![w].name = user[op[w].me].name]
        <4> DEFINE new == [op[w] EXCEPT !.at = "relogin", !.pw = p,
                             !.name = user[op[w].me].name]
        <4>1. user[op[w].me].name \in Name
          BY <2>1 DEF TypeOK, Row
        <4>2. new \in Op /\ new.at = "relogin" /\ new.me \in UserId
          BY <1>1, <2>1, <4>1 DEF Op, At
        <4>3. op' = [op EXCEPT ![w] = new]
          BY <1>1, <3>2
        <4> HIDE DEF new
        <4>4. QED
          BY <1>1, <4>2, <4>3 DEF TypeOK
      <3>3. QED
        BY <1>4, <3>1, <3>2 DEF ChangeWrite
    <2>4. writes' \in 0..MaxWrites
      BY <2>1 DEF Wrote, TypeOK
    <2>5. QED
      BY <2>1, <2>2, <2>3, <2>4, ClosedType DEF TypeOK
  <1>5. QED
    BY <1>2, <1>3, <1>4

LEMMA WorldType ==
  ASSUME TypeOK, Crash \/ Boot \/ \E t \in Token : Expire(t)
  PROVE  TypeOK'
  <1>1. CASE Crash
    <2>1. /\ op' \in [Thread -> Op] /\ \A w \in Thread : op'[w].at = "idle"
      BY <1>1, Values DEF Crash
    <2>2. crashes' \in 0..MaxCrashes
      BY <1>1 DEF Crash, TypeOK
    <2>3. QED
      BY <1>1, <2>1, <2>2 DEF Crash, TypeOK
  <1>2. CASE Boot
    <2>1. user' \in [UserId -> Row]
      BY <1>2, InsertType DEF Boot, TypeOK, Role
    <2>2. QED
      BY <1>2, <2>1 DEF Boot, TypeOK
  <1>3. ASSUME NEW t \in Token, Expire(t) PROVE TypeOK'
    <2>1. /\ sess' \in [Token -> Session]
          /\ \A s \in Token : sess'[s].at # "new" => sess'[s].user \in UserId
      BY <1>3 DEF Expire, TypeOK, Session
    <2>2. QED
      BY <1>3, <2>1 DEF Expire, TypeOK
  <1>4. QED
    BY <1>1, <1>2, <1>3

LEMMA StepType == TypeOK /\ [Next]_vars => TypeOK'
  <1> SUFFICES ASSUME TypeOK, [Next]_vars PROVE TypeOK'
    OBVIOUS
  <1>1. ASSUME NEW w \in Thread, Request(w) PROVE TypeOK'
    BY <1>1, AccountType, BeginContinues, GoesOnContinues, ContinuesType, SessionType
    DEF Request
  <1>2. CASE UNCHANGED vars
    BY <1>2 DEF vars, TypeOK
  <1>3. QED
    BY <1>1, <1>2, WorldType DEF Next

\* Every reachable state is well typed.
THEOREM AccountsTyped == Spec => []TypeOK
  BY InitType, StepType, PTL DEF Spec

-----------------------------------------------------------------------------
(* Open sessions *)

\* A row a session has been opened on may change where the session does not look.
LEMMA StillCurrent ==
  ASSUME TypeOK, SessionsAreCurrent, late \subseteq late',
         \A t \in Token : sess'[t].at = "open" =>
           /\ sess[t].at = "open" /\ sess'[t].user = sess[t].user /\ sess'[t].pw = sess[t].pw
           /\ LET u == sess[t].user
              IN Here(u) => user'[u].at = "here" /\ user'[u].active = user[u].active
                              /\ user'[u].pw = user[u].pw
  PROVE  SessionsAreCurrent'
  BY DEF SessionsAreCurrent, Here

LEMMA InsertKeeps ==
  ASSUME TypeOK, NEW n \in Name, NEW p \in Password, NEW r \in Role, Insert(n, p, r)
  PROVE  \A u : Here(u) => user'[u] = user[u]
  BY InsertType DEF Here

\* Before an account's row is written, its open sessions are closed.
LEMMA CloseKeeps ==
  ASSUME TypeOK, SessionsAreCurrent, NEW S, sess' = Close(S), late' = late,
         \A u \in UserId \ S : Here(u) =>
           user'[u].at = "here" /\ user'[u].active = user[u].active /\ user'[u].pw = user[u].pw
  PROVE  SessionsAreCurrent'
  <1>1. \A t \in Token : sess'[t].at = "open" =>
          /\ sess[t].at = "open" /\ sess'[t].user = sess[t].user /\ sess'[t].pw = sess[t].pw
          /\ sess[t].user \notin S
    BY DEF Close, TypeOK, Session
  <1>2. \A t \in Token : sess[t].at = "open" => sess[t].user \in UserId
    BY DEF TypeOK
  <1>3. QED
    BY <1>1, <1>2 DEF SessionsAreCurrent, Here

\* A change of a row that the sessions do not look at.
LEMMA RowsKeep ==
  ASSUME TypeOK, SessionsAreCurrent, sess' = sess, late' = late,
         \A u \in UserId : Here(u) =>
           user'[u].at = "here" /\ user'[u].active = user[u].active /\ user'[u].pw = user[u].pw
  PROVE  SessionsAreCurrent'
  BY DEF SessionsAreCurrent, Here

LEMMA RequestCurrent ==
  ASSUME TypeOK, SessionsAreCurrent, NEW w \in Thread, Request(w)
  PROVE  SessionsAreCurrent'
  <1> USE DEF Here
  <1>1. CASE UNCHANGED <<user, sess, late>>
    BY <1>1 DEF SessionsAreCurrent
  <1>2. CASE RegisterInsert(w)
    <2>1. PICK n \in Name, p \in Password, r \in Role : Insert(n, p, r)
      <3>1. op[w].at = "insert" /\ op[w] \in Op /\ op[w].name \in Name
        BY <1>2 DEF RegisterInsert, TypeOK
      <3>2. QED
        BY <1>2, <3>1 DEF RegisterInsert, Op, Role
    <2>2. \A u \in UserId : Here(u) => user'[u] = user[u]
      BY <2>1, InsertKeeps
    <2>3. QED
      BY <1>2, <2>2, RowsKeep DEF RegisterInsert
  <1>3. CASE RestoreAdmin(w)
    <2>1. /\ sess' = Close({op[w].me}) /\ late' = late
          /\ \A u \in UserId \ {op[w].me} : user'[u] = user[u]
      BY <1>3 DEF RestoreAdmin, TypeOK
    <2>2. QED
      BY <2>1, CloseKeeps
  <1>4. CASE LoginInsert(w)
    <2>1. op[w].me \in UserId /\ user' = user
      BY <1>4 DEF LoginInsert, TypeOK
    <2>2. CASE UNCHANGED <<sess, late>>
      BY <1>1, <2>1, <2>2
    <2>3. ASSUME NEW t \in Token,
                 sess' = [sess EXCEPT ![t] = [at |-> "open", user |-> op[w].me, pw |-> op[w].pw]],
                 late' = IF /\ Here(op[w].me) /\ user[op[w].me].active
                            /\ user[op[w].me].pw = op[w].pw
                         THEN late ELSE late \cup {t}
          PROVE  SessionsAreCurrent'
      <3>1. /\ \A s \in Token \ {t} : sess'[s] = sess[s]
            /\ sess'[t] = [at |-> "open", user |-> op[w].me, pw |-> op[w].pw]
        BY <2>3 DEF TypeOK
      <3>2. QED
        BY <2>1, <2>3, <3>1 DEF SessionsAreCurrent
    <2>4. QED
      BY <1>4, <2>2, <2>3 DEF LoginInsert
  <1>5. ASSUME NEW t \in Token, Logout(w, t) PROVE SessionsAreCurrent'
    BY <1>5 DEF Logout, SessionsAreCurrent, TypeOK
  <1>6. ASSUME NEW p \in Password, ChangeWrite(w, p) PROVE SessionsAreCurrent'
    <2>1. /\ sess' = Close({op[w].me}) /\ late' = late
          /\ \A u \in UserId \ {op[w].me} : user'[u] = user[u]
      BY <1>6 DEF ChangeWrite, TypeOK
    <2>2. QED
      BY <2>1, CloseKeeps
  <1>7. CASE DeleteOwn(w) \/ BatchDelete(w)
    <2>1. PICK S : Delete(S) /\ late' = late
      BY <1>7 DEF DeleteOwn, BatchDelete
    <2>2. /\ sess' = Close(S) /\ \A u \in UserId \ S : user'[u] = user[u]
      BY <2>1, DeleteType
    <2>3. QED
      BY <2>1, <2>2, CloseKeeps
  <1>8. CASE ProfileWrite(w)
    <2>1. /\ sess' = sess /\ late' = late
          /\ user' = user \/ user' = [user EXCEPT ![op[w].me].shown = op[w].name]
      BY <1>8 DEF ProfileWrite
    <2>2. \A u \in UserId : /\ user'[u].at = user[u].at /\ user'[u].active = user[u].active
                            /\ user'[u].pw = user[u].pw
      BY <2>1 DEF TypeOK, Row
    <2>3. QED
      BY <2>1, <2>2, RowsKeep
  <1>9. ASSUME NEW u \in UserId, NEW r \in Role, NEW active \in BOOLEAN,
               UpdateUser(w, u, r, active)
        PROVE  SessionsAreCurrent'
    <2>1. /\ \A v \in UserId \ {u} : user'[v] = user[v]
          /\ user'[u].at = user[u].at /\ user'[u].active = active /\ user'[u].pw = user[u].pw
          /\ late' = late
      BY <1>9 DEF UpdateUser, TypeOK, Row
    <2>2. CASE active
      <3>1. \A t \in Token : sess[t].at = "open" => sess[t].user \in UserId
        BY DEF TypeOK
      <3>2. sess' = sess
        BY <1>9, <2>2 DEF UpdateUser
      <3>3. QED
        BY ZenonT(40), <2>1, <2>2, <3>1, <3>2 DEF SessionsAreCurrent
    <2>3. CASE ~active
      <3>1. sess' = Close({u})
        BY <1>9, <2>3 DEF UpdateUser
      <3>2. QED
        BY <2>1, <3>1, CloseKeeps
    <2>4. QED
      BY <2>2, <2>3
  <1>10. ASSUME NEW u \in UserId, NEW p \in Password, ResetPassword(w, u, p)
         PROVE  SessionsAreCurrent'
    <2>1. /\ sess' = Close({u}) /\ late' = late
          /\ \A v \in UserId \ {u} : user'[v] = user[v]
      BY <1>10 DEF ResetPassword, TypeOK
    <2>2. QED
      BY <2>1, CloseKeeps
  <1>11. QED
    BY <1>1, <1>2, <1>3, <1>4, <1>5, <1>6, <1>7, <1>8, <1>9, <1>10
    DEF Request, RegisterRead, LoginRead, Authenticate, ChangeRead, DeleteOwnRead, Check,
        Relogin, BatchRead, LookAt, ProfileRead

LEMMA WorldCurrent ==
  ASSUME TypeOK, SessionsAreCurrent, Crash \/ Boot \/ \E t \in Token : Expire(t)
  PROVE  SessionsAreCurrent'
  <1> USE DEF Here
  <1>1. CASE Crash
    BY <1>1 DEF Crash, SessionsAreCurrent
  <1>2. CASE Boot
    <2>1. user' = user \/ Insert(SeedName, SeedPassword, "admin")
      BY <1>2 DEF Boot
    <2>2. \A u \in UserId : Here(u) => user'[u] = user[u]
      BY <2>1, InsertKeeps DEF Role
    <2>3. QED
      BY <1>2, <2>2, RowsKeep DEF Boot
  <1>3. ASSUME NEW t \in Token, Expire(t) PROVE SessionsAreCurrent'
    BY <1>3 DEF Expire, SessionsAreCurrent, TypeOK
  <1>4. QED
    BY <1>1, <1>2, <1>3

\* An open session belongs to an account that is there, is active and has the
\* password it was opened with, unless its login was overtaken.
THEOREM SessionsCurrent == Spec => []SessionsAreCurrent
  <1>1. Init => SessionsAreCurrent
    BY DEF Init, NoSession, SessionsAreCurrent
  <1>2. TypeOK /\ SessionsAreCurrent /\ [Next]_vars => SessionsAreCurrent'
    <2> SUFFICES ASSUME TypeOK, SessionsAreCurrent, [Next]_vars PROVE SessionsAreCurrent'
      OBVIOUS
    <2>1. CASE UNCHANGED vars
      BY <2>1 DEF vars, SessionsAreCurrent, Here
    <2>2. QED
      BY <2>1, RequestCurrent, WorldCurrent DEF Next
  <1>3. QED
    BY <1>1, <1>2, AccountsTyped, PTL DEF Spec

-----------------------------------------------------------------------------
(* Administrators *)

\* Rows and requests that a step leaves as they are, as far as a deletion cares.
LEMMA StillLookedAt ==
  ASSUME TypeOK, LookedAt, promoted \subseteq promoted',
         \A w \in Thread : op'[w].at \in {"look", "delete"} => op'[w] = op[w],
         \A u \in UserId : user[u].at # "new" =>
           /\ user'[u].at # "new"
           /\ (user'[u].at = "here" /\ user'[u].role = "admin" /\ Deciding(u)) =>
                (Here(u) /\ user[u].role = "admin") \/ u \in promoted'
  PROVE  LookedAt'
  <1> SUFFICES ASSUME NEW w \in Thread
               PROVE  /\ op'[w].at = "delete" => op'[w].todo = {}
                      /\ op'[w].at \in {"look", "delete"} =>
                           \A u \in op'[w].who \ op'[w].todo :
                             user'[u].at # "new" /\ ((u \in UserId /\ user'[u].at = "here")
                               /\ user'[u].role = "admin" => u \in promoted')
    BY DEF LookedAt, Here
  <1>1. op[w].who \subseteq UserId
    BY DEF TypeOK, Op
  <1>2. CASE op'[w].at \in {"look", "delete"}
    <2>1. op'[w] = op[w]
      BY <1>2
    <2>2. \A u \in op[w].who : Deciding(u)
      BY <1>2, <2>1 DEF Deciding
    <2>3. QED
      BY <1>1, <1>2, <2>1, <2>2 DEF LookedAt
  <1>3. QED
    BY <1>2

LEMMA DoneLookedAt ==
  ASSUME TypeOK, NEW w \in Thread, Done(w)
  PROVE  \A v \in Thread : op'[v].at \in {"look", "delete"} => op'[v] = op[v]
  BY DEF Done, TypeOK, NoOp

LEMMA ReadsLookedAt ==
  ASSUME TypeOK, LookedAt, NEW w \in Thread,
         \/ \E n \in Name, p \in Password : RegisterRead(w, n, p) \/ LoginRead(w, n, p)
         \/ \E n \in Name \cup {Nobody} : ProfileRead(w, n)
         \/ LoginInsert(w) \/ Relogin(w)
         \/ \E t \in Token : Authenticate(w, t) \/ Logout(w, t)
         \/ \E p \in Password : ChangeRead(w, p) \/ DeleteOwnRead(w, p)
  PROVE  LookedAt'
  <1>1. UNCHANGED <<user, promoted>>
    BY DEF RegisterRead, LoginRead, LoginInsert, Authenticate, Logout, ChangeRead,
           DeleteOwnRead, Check, Relogin, ProfileRead
  <1>2. op[w] \in Op /\ op \in [Thread -> Op]
    BY DEF TypeOK
  <1>3. \A v \in Thread : op'[v].at \in {"look", "delete"} => op'[v] = op[v]
    <2>1. CASE \E n \in Name, p \in Password : RegisterRead(w, n, p) \/ LoginRead(w, n, p)
      <3>1. PICK n \in Name, p \in Password : RegisterRead(w, n, p) \/ LoginRead(w, n, p)
        BY <2>1
      <3>2. CASE RegisterRead(w, n, p)
        <4>1. CASE n # SeedName \/ Named(n) = {}
          BY <1>2, <3>2, <4>1 DEF RegisterRead, NoOp
        <4>2. CASE n = SeedName /\ Named(n) # {}
          BY <1>2, <3>2, <4>2 DEF RegisterRead, NoOp
        <4>3. QED
          BY <4>1, <4>2
      <3>3. CASE LoginRead(w, n, p)
        BY <1>2, <3>3 DEF LoginRead, NoOp
      <3>4. QED
        BY <3>1, <3>2, <3>3
    <2>2. CASE LoginInsert(w) \/ \E t \in Token : Logout(w, t)
      BY <2>2, DoneLookedAt DEF LoginInsert, Logout
    <2>3. CASE \E t \in Token : Authenticate(w, t)
      <3>1. PICK t \in Token :
              op' = [op EXCEPT ![w] = [NoOp EXCEPT !.at = "authed", !.me = sess[t].user,
                       !.admin = user[sess[t].user].role = "admin" /\ ~user[sess[t].user].must]]
        BY <2>3 DEF Authenticate
      <3> DEFINE new == [NoOp EXCEPT !.at = "authed", !.me = sess[t].user,
                          !.admin = user[sess[t].user].role = "admin" /\ ~user[sess[t].user].must]
      <3>2. new.at = "authed"
        BY DEF NoOp
      <3> HIDE DEF new
      <3>3. op' = [op EXCEPT ![w] = new]
        BY <3>1 DEF new
      <3>4. QED
        BY <1>2, <3>2, <3>3
    <2>4. CASE \E p \in Password : ChangeRead(w, p) \/ DeleteOwnRead(w, p)
      BY <1>2, <2>4 DEF ChangeRead, DeleteOwnRead, Check, To, Op
    <2>5. CASE Relogin(w)
      <3>1. CASE Done(w)
        BY <3>1, DoneLookedAt
      <3>2. ASSUME NEW u, op' = [op EXCEPT ![w].at = "session", ![w].me = u]
            PROVE  \A v \in Thread : op'[v].at \in {"look", "delete"} => op'[v] = op[v]
        BY <1>2, <3>2 DEF Op
      <3>3. QED
        BY <2>5, <3>1, <3>2 DEF Relogin
    <2>6. CASE \E n \in Name \cup {Nobody} : ProfileRead(w, n)
      <3>1. PICK n \in Name \cup {Nobody} :
              op' = [op EXCEPT ![w] = [op[w] EXCEPT !.at = "show", !.name = n]]
        BY <1>2, <2>6 DEF ProfileRead
      <3>2. [op[w] EXCEPT !.at = "show", !.name = n].at = "show"
        BY <1>2 DEF Op
      <3>3. QED
        BY <1>2, <3>1, <3>2
    <2>7. QED
      BY <2>1, <2>2, <2>3, <2>4, <2>5, <2>6
  <1>4. \A u \in UserId : user'[u] = user[u]
    BY <1>1
  <1>5. QED
    BY <1>1, <1>3, StillLookedAt DEF Here

LEMMA InsertLookedAt ==
  ASSUME TypeOK, LookedAt, promoted' = promoted,
         NEW n \in Name, NEW p \in Password, NEW r \in Role, Insert(n, p, r),
         \A v \in Thread : op'[v].at \in {"look", "delete"} => op'[v] = op[v]
  PROVE  LookedAt'
  BY InsertType, StillLookedAt DEF Here, Deciding, TypeOK, Op

LEMMA WritesLookedAt ==
  ASSUME TypeOK, LookedAt, NEW w \in Thread,
         \/ RegisterInsert(w) \/ RestoreAdmin(w)
         \/ \E p \in Password : ChangeWrite(w, p)
         \/ DeleteOwn(w) \/ BatchDelete(w) \/ ProfileWrite(w)
         \/ \E u \in UserId, r \in Role, active \in BOOLEAN : UpdateUser(w, u, r, active)
         \/ \E u \in UserId, p \in Password : ResetPassword(w, u, p)
  PROVE  LookedAt'
  <1> USE DEF Here
  <1>1. CASE RegisterInsert(w)
    <2>1. PICK n \in Name, p \in Password, r \in Role : Insert(n, p, r)
      <3>1. op[w].at = "insert" /\ op[w] \in Op /\ op[w].name \in Name
        BY <1>1 DEF RegisterInsert, TypeOK
      <3>2. QED
        BY <1>1, <3>1 DEF RegisterInsert, Op, Role
    <2>2. QED
      BY <1>1, <2>1, DoneLookedAt, InsertLookedAt DEF RegisterInsert
  <1>2. CASE RestoreAdmin(w)
    <2>1. op[w].me \in UserId /\ Done(w) /\ promoted' = Promote(op[w].me)
      BY <1>2 DEF RestoreAdmin, TypeOK
    <2>2. \A u \in UserId \ {op[w].me} : user'[u] = user[u]
      BY <1>2 DEF RestoreAdmin, TypeOK
    <2>3. user'[op[w].me].at = user[op[w].me].at
      BY <1>2 DEF RestoreAdmin, TypeOK, Row
    <2>4. QED
      BY <2>1, <2>2, <2>3, DoneLookedAt, StillLookedAt DEF Promote
  <1>3. ASSUME NEW p \in Password, ChangeWrite(w, p) PROVE LookedAt'
    <2>1. \A u \in UserId : user'[u].at = user[u].at /\ user'[u].role = user[u].role
      <3>1. \/ UNCHANGED user
            \/ user' = [user EXCEPT ![op[w].me] = [user[op[w].me] EXCEPT !.pw = p, !.must = FALSE]]
        BY <1>3 DEF ChangeWrite
      <3> DEFINE new == [user[op[w].me] EXCEPT !.pw = p, !.must = FALSE]
      <3>2. op[w].me \in UserId => new.at = user[op[w].me].at /\ new.role = user[op[w].me].role
        BY DEF TypeOK, Row
      <3> HIDE DEF new
      <3>3. user' = user \/ user' = [user EXCEPT ![op[w].me] = new]
        BY <3>1 DEF new
      <3>4. QED
        BY <3>2, <3>3 DEF TypeOK
    <2>2. \A v \in Thread : op'[v].at \in {"look", "delete"} => op'[v] = op[v]
      <3>1. CASE Done(w)
        BY <3>1, DoneLookedAt
      <3>2. CASE op' = [op EXCEPT ![w].at = "relogin", ![w].pw = p,
                                  ![w].name = user[op[w].me].name]
        BY <3>2 DEF TypeOK, Op
      <3>3. QED
        BY <1>3, <3>1, <3>2 DEF ChangeWrite
    <2>3. QED
      BY <1>3, <2>1, <2>2, StillLookedAt DEF ChangeWrite
  <1>4. CASE DeleteOwn(w) \/ BatchDelete(w)
    <2>1. PICK S : Delete(S)
      BY <1>4 DEF DeleteOwn, BatchDelete
    <2>2. \A u \in UserId :
            /\ user[u].at # "new" => user'[u].at # "new"
            /\ user'[u].at = "here" => user'[u] = user[u]
      BY <2>1, DeleteType DEF TypeOK, Row
    <2>3. Done(w) /\ promoted' = promoted
      BY <1>4 DEF DeleteOwn, BatchDelete
    <2>4. \A v \in Thread : op'[v].at \in {"look", "delete"} => op'[v] = op[v]
      BY <2>3, DoneLookedAt
    <2>5. \A u \in UserId : user[u].at # "new" =>
            /\ user'[u].at # "new"
            /\ user'[u].at = "here" /\ user'[u].role = "admin" =>
                 user[u].at = "here" /\ user[u].role = "admin"
      BY <2>2
    <2>6. QED
      BY <2>3, <2>4, <2>5, StillLookedAt
  <1>5. CASE ProfileWrite(w)
    <2>1. user' = user \/ user' = [user EXCEPT ![op[w].me].shown = op[w].name]
      BY <1>5 DEF ProfileWrite
    <2>2. \A u \in UserId : user'[u].at = user[u].at /\ user'[u].role = user[u].role
      BY <2>1 DEF TypeOK, Row
    <2>3. QED
      BY <1>5, <2>2, DoneLookedAt, StillLookedAt DEF ProfileWrite
  <1>6. ASSUME NEW u \in UserId, NEW r \in Role, NEW active \in BOOLEAN,
               UpdateUser(w, u, r, active)
        PROVE  LookedAt'
    <2>1. /\ \A v \in UserId \ {u} : user'[v] = user[v]
          /\ user'[u].at = user[u].at /\ user'[u].role = r
      BY <1>6 DEF UpdateUser, TypeOK, Row
    <2>2. Done(w) /\ promoted' = IF r = "admin" THEN Promote(u) ELSE promoted
      BY <1>6 DEF UpdateUser
    <2>3. QED
      BY <2>1, <2>2, DoneLookedAt, StillLookedAt DEF Promote
  <1>7. ASSUME NEW u \in UserId, NEW p \in Password, ResetPassword(w, u, p)
        PROVE  LookedAt'
    <2>1. \A v \in UserId : user'[v].at = user[v].at /\ user'[v].role = user[v].role
      BY <1>7 DEF ResetPassword, TypeOK, Row
    <2>2. QED
      BY <1>7, <2>1, DoneLookedAt, StillLookedAt DEF ResetPassword
  <1>8. QED
    BY <1>1, <1>2, <1>3, <1>4, <1>5, <1>6, <1>7

\* A batch deletion begins with nothing looked at, and looks at one target after another.
LEMMA BatchLookedAt ==
  ASSUME TypeOK, LookedAt, NEW w \in Thread,
         \/ \E S \in SUBSET UserId, p \in Password : BatchRead(w, S, p)
         \/ \E u \in UserId : LookAt(w, u)
  PROVE  LookedAt'
  <1>1. UNCHANGED <<user, promoted>> /\ op[w] \in Op /\ op \in [Thread -> Op]
    BY DEF BatchRead, LookAt, TypeOK
  <1>2. ASSUME NEW S \in SUBSET UserId, NEW p \in Password, BatchRead(w, S, p)
        PROVE  LookedAt'
    <2>1. /\ \A v \in Thread \ {w} : op'[v] = op[v]
          /\ op'[w].at = "look" /\ op'[w].who = S /\ op'[w].todo = S
      BY <1>1, <1>2 DEF BatchRead, Op
    <2>2. QED
      BY <1>1, <2>1 DEF LookedAt, Here
  <1>3. ASSUME NEW u \in UserId, LookAt(w, u) PROVE LookedAt'
    <2>1. CASE Here(u) /\ user[u].role # "admin"
      <3>1. /\ \A v \in Thread \ {w} : op'[v] = op[v]
            /\ op'[w].at = IF op[w].todo = {u} THEN "delete" ELSE op[w].at
            /\ op'[w].who = op[w].who /\ op'[w].todo = op[w].todo \ {u}
            /\ op[w].at = "look"
        BY <1>1, <1>3, <2>1 DEF LookAt, Op
      <3>2. op'[w].at = "delete" => op'[w].todo = {}
        BY <3>1
      <3>3. \A v \in op'[w].who \ op'[w].todo : v = u \/ v \in op[w].who \ op[w].todo
        BY <3>1
      <3>4. QED
        BY <1>1, <2>1, <3>1, <3>2, <3>3 DEF LookedAt, Here
    <2>2. CASE Done(w)
      BY <1>1, <2>2, DoneLookedAt, StillLookedAt DEF Here
    <2>3. QED
      BY <1>3, <2>1, <2>2 DEF LookAt
  <1>4. QED
    BY <1>2, <1>3

LEMMA WorldLookedAt ==
  ASSUME TypeOK, LookedAt, Crash \/ Boot \/ \E t \in Token : Expire(t)
  PROVE  LookedAt'
  <1>1. CASE Crash
    <2>1. \A w \in Thread : op'[w].at = "idle"
      BY <1>1 DEF Crash, NoOp
    <2>2. QED
      BY <2>1 DEF LookedAt
  <1>2. CASE Boot
    <2>1. CASE user' = user
      BY <1>2, <2>1 DEF Boot, LookedAt, Here
    <2>2. CASE Insert(SeedName, SeedPassword, "admin")
      BY <1>2, <2>2, InsertLookedAt DEF Boot, Role
    <2>3. QED
      BY <1>2, <2>1, <2>2 DEF Boot
  <1>3. ASSUME NEW t \in Token, Expire(t) PROVE LookedAt'
    BY <1>3 DEF Expire, LookedAt, Here
  <1>4. QED
    BY <1>1, <1>2, <1>3

LEMMA AlwaysLookedAt == Spec => []LookedAt
  <1>1. Init => LookedAt
    BY DEF Init, NoOp, LookedAt
  <1>2. TypeOK /\ LookedAt /\ [Next]_vars => LookedAt'
    <2> SUFFICES ASSUME TypeOK, LookedAt, [Next]_vars PROVE LookedAt'
      OBVIOUS
    <2>1. CASE UNCHANGED vars
      BY <2>1 DEF vars, LookedAt, Here
    <2>2. ASSUME NEW w \in Thread, Request(w) PROVE LookedAt'
      BY <2>2, ReadsLookedAt, WritesLookedAt, BatchLookedAt DEF Request
    <2>3. QED
      BY <2>1, <2>2, WorldLookedAt DEF Next
  <1>3. QED
    BY <1>1, <1>2, AccountsTyped, PTL DEF Spec

\* A row goes away with its own account's request or with a batch deletion.
LEMMA StepKeepsAdmins ==
  ASSUME TypeOK, LookedAt, Next, NEW u \in UserId,
         Here(u), user[u].role = "admin", user'[u].at = "gone"
  PROVE  u \in promoted \/ \E w \in Thread : op[w].at = "delete_own" /\ op[w].me = u
  <1>1. ASSUME NEW w \in Thread, DeleteOwn(w) PROVE op[w].at = "delete_own" /\ op[w].me = u
    <2>1. Delete({op[w].me}) /\ op[w].at = "delete_own"
      BY <1>1 DEF DeleteOwn
    <2>2. u \notin {op[w].me} => user'[u] = user[u]
      BY <2>1, DeleteType
    <2>3. QED
      BY <2>1, <2>2 DEF Here
  <1>2. ASSUME NEW w \in Thread, BatchDelete(w) PROVE u \in promoted
    <2>1. Delete(op[w].who) /\ op[w].at = "delete"
      BY <1>2 DEF BatchDelete
    <2>2. u \in op[w].who
      BY <2>1, DeleteType DEF Here
    <2>3. QED
      BY <2>1, <2>2 DEF LookedAt
  <1>3. \/ \E w \in Thread : DeleteOwn(w) \/ BatchDelete(w)
        \/ user'[u].at = "here"
    <2>1. ASSUME NEW n \in Name, NEW p \in Password, NEW r \in Role, Insert(n, p, r)
          PROVE  user'[u].at = "here"
      BY <2>1, InsertKeeps DEF Here
    <2>2. ASSUME NEW w \in Thread, RegisterInsert(w) PROVE user'[u].at = "here"
      <3>1. op[w].at = "insert" /\ op[w] \in Op /\ op[w].name \in Name
        BY <2>2 DEF RegisterInsert, TypeOK
      <3>2. QED
        BY <2>1, <2>2, <3>1 DEF RegisterInsert, Op, Role
    <2>3. CASE Boot
      BY <2>1, <2>3 DEF Boot, Here, Role
    <2>4. ASSUME NEW w \in Thread, NEW p \in Password, ChangeWrite(w, p)
          PROVE  user'[u].at = "here"
      BY <2>4 DEF ChangeWrite, TypeOK, Row, Here
    <2>5. ASSUME NEW w \in Thread, RestoreAdmin(w) PROVE user'[u].at = "here"
      BY <2>5 DEF RestoreAdmin, TypeOK, Row, Here
    <2>6. ASSUME NEW w \in Thread, ProfileWrite(w) PROVE user'[u].at = "here"
      BY <2>6 DEF ProfileWrite, TypeOK, Row, Here
    <2>7. ASSUME NEW w \in Thread, NEW v \in UserId, NEW r \in Role, NEW active \in BOOLEAN,
                 UpdateUser(w, v, r, active)
          PROVE  user'[u].at = "here"
      BY <2>7 DEF UpdateUser, TypeOK, Row, Here
    <2>8. ASSUME NEW w \in Thread, NEW v \in UserId, NEW p \in Password,
                 ResetPassword(w, v, p)
          PROVE  user'[u].at = "here"
      BY <2>8 DEF ResetPassword, TypeOK, Row, Here
    <2>9. CASE UNCHANGED user
      BY <2>9 DEF Here
    <2>10. QED
      BY ZenonT(40), <2>2, <2>3, <2>4, <2>5, <2>6, <2>7, <2>8, <2>9
      DEF Next, Request, RegisterRead, LoginRead, LoginInsert, Authenticate, Logout,
          ChangeRead, DeleteOwnRead, Check, Relogin, BatchRead, LookAt, ProfileRead,
          Expire, Crash
  <1>4. QED
    BY <1>1, <1>2, <1>3

\* A batch deletion never takes an administrator with it, unless the role was
\* given while it was deciding.
THEOREM AdminsKept == Spec => AdminsStay
  <1>1. TypeOK /\ LookedAt /\ [Next]_vars =>
          [\A u \in UserId :
             (Here(u) /\ user[u].role = "admin" /\ user'[u].at = "gone")
               => u \in promoted \/ \E w \in Thread : op[w].at = "delete_own" /\ op[w].me = u]_vars
    BY StepKeepsAdmins
  <1>2. QED
    BY <1>1, AccountsTyped, AlwaysLookedAt, PTL DEF Spec, AdminsStay

-----------------------------------------------------------------------------
(* Settings.  That a deletion is still falling back is not inductive by    *)
(* itself: it falls back only if the settings it has read name its profile.*)

SettingsSpec == SettingsInit /\ [][SettingsNext]_settingsVars

USE SettingsAssumption

\* Whoever writes or compares has read; whoever reads about a profile falls back.
DesksKnow ==
  \A t \in Desk :
    /\ desk[t] \in {"write", "compare"} => seen[t] \in SettingsRow
    /\ desk[t] \in {"row", "default"} => then[t] # "free"
    /\ desk[t] \in {"row", "default"} /\ handled[t] \in Profile
         => then[t] \in {"compare", "write"}

\* A deletion that falls back unless the row is written first.
Catches(t, p) ==
  /\ handled[t] = p
  /\ \/ desk[t] \in {"row", "default", "write"}
     \/ desk[t] = "compare" /\ seen[t].active = p

Caught ==
  \A p \in Profile :
    row # Nothing /\ row.active = p /\ ~Live(p)
      => p \in overtaken \/ \E t \in Desk : Catches(t, p)

SettingsInv == SettingsTypeOK /\ DesksKnow /\ Caught

-----------------------------------------------------------------------------

\* There are no settings at the start.
LEMMA InvInit == SettingsInit => SettingsInv
  BY DEF SettingsInit, SettingsInv, SettingsTypeOK, DesksKnow, Caught, Stored,
         Change, NoChange

\* Whoever catches a stale reference is falling back.
LEMMA InvAnswers == SettingsInv => ActiveProviderIsThere
  BY DEF SettingsInv, SettingsTypeOK, SettingsRow, Ref, Caught, ActiveProviderIsThere,
         Resolves, Catches, Falling

\* A request that is over is at no stop where it must know anything.
LEMMA InvTyped ==
  ASSUME SettingsTypeOK, DesksKnow, SettingsNext
  PROVE  SettingsTypeOK' /\ DesksKnow'
<1> USE DEF SettingsTypeOK, DesksKnow, Go, AnswerDesk, BeginAt, NoChange, Change,
            SettingsRow, Ref, Switch, Stored, Default, Put, Upserted
<1>1. ASSUME NEW t \in Desk, OpenSettings(t) PROVE SettingsTypeOK' /\ DesksKnow'
  <2>1. ASSUME NEW stop \in {"row", "insert", "existing", "remove"},
               NEW onward \in {"write", "answer"}, NEW new \in Change,
               NEW p \in Profile \cup {Nothing},
               stop = "row" => p = Nothing,
               BeginAt(t, stop, onward, new, p)
        PROVE  SettingsTypeOK' /\ DesksKnow'
    BY <2>1
  <2>2. CASE BeginAt(t, "row", "answer", NoChange, Nothing)
    BY <2>1, <2>2
  <2>3. ASSUME NEW titles \in Switch,
               BeginAt(t, "row", "write", [titles |-> titles, active |-> Nothing], Nothing)
        PROVE  SettingsTypeOK' /\ DesksKnow'
    BY <2>1, <2>3
  <2>4. ASSUME NEW r \in Ref,
               BeginAt(t, "row", "write", [titles |-> Nothing, active |-> r], Nothing)
        PROVE  SettingsTypeOK' /\ DesksKnow'
    BY <2>1, <2>4
  <2>5. ASSUME NEW p \in Profile, NEW stop \in {"insert", "existing", "remove"},
               BeginAt(t, stop, "answer", NoChange, p)
        PROVE  SettingsTypeOK' /\ DesksKnow'
    BY <2>1, <2>5
  <2> QED
    BY ONLY <1>1, <2>2, <2>3, <2>4, <2>5 DEF OpenSettings
<1>2. ASSUME NEW t \in Desk, ReadSettings(t) PROVE SettingsTypeOK' /\ DesksKnow'
  <2>1. CASE row = Nothing
    BY <1>2, <2>1, SMTT(60) DEF ReadSettings
  <2>2. CASE row # Nothing
    <3>1. desk' = [desk EXCEPT ![t] = then[t]] /\ seen' = [seen EXCEPT ![t] = row]
      BY <1>2, <2>2 DEF ReadSettings
    <3>2. seen'[t] \in SettingsRow /\ \A u \in Desk \ {t} : desk'[u] = desk[u] /\ seen'[u] = seen[u]
      BY <2>2, <3>1
    <3>3. desk'[t] = then[t] /\ UNCHANGED <<row, profiles, then, change, handled, overtaken>>
      BY <1>2, <3>1 DEF ReadSettings
    <3>4. SettingsTypeOK'
      BY <2>2, <3>1, <3>3
    <3> QED
      BY <3>2, <3>3, <3>4, SMTT(60)
  <2> QED
    BY <2>1, <2>2
<1>3. ASSUME NEW t \in Desk, StoreDefaults(t) PROVE SettingsTypeOK' /\ DesksKnow'
  BY <1>3, SMTT(60) DEF StoreDefaults
<1>4. ASSUME NEW t \in Desk, UpdateUserSettings(t) PROVE SettingsTypeOK' /\ DesksKnow'
  BY <1>4, SMTT(60) DEF UpdateUserSettings, Or
<1>5. ASSUME NEW t \in Desk, CreateProviderProfile(t) PROVE SettingsTypeOK' /\ DesksKnow'
  BY <1>5, SMTT(60) DEF CreateProviderProfile
<1>6. ASSUME NEW t \in Desk, ReadProfile(t) PROVE SettingsTypeOK' /\ DesksKnow'
  <2>1. CASE AnswerDesk(t)
    BY <1>6, <2>1 DEF ReadProfile
  <2>2. CASE Go(t, "upsert") /\ UNCHANGED <<then, seen, change, handled>>
    BY <1>6, <2>2 DEF ReadProfile
  <2> QED
    BY ONLY <1>6, <2>1, <2>2 DEF ReadProfile
<1>7. ASSUME NEW t \in Desk, UpdateProviderProfile(t) PROVE SettingsTypeOK' /\ DesksKnow'
  BY <1>7, SMTT(60) DEF UpdateProviderProfile, Live
<1>8. ASSUME NEW t \in Desk, DeleteProviderProfile(t) PROVE SettingsTypeOK' /\ DesksKnow'
  <2>1. CASE AnswerDesk(t) /\ UNCHANGED profiles
    BY <1>8, <2>1 DEF DeleteProviderProfile
  <2>2. CASE /\ desk[t] = "remove"
             /\ Put(handled[t], "deleted")
             /\ Go(t, "row")
             /\ then' = [then EXCEPT ![t] = "compare"]
             /\ UNCHANGED <<row, overtaken, seen, change, handled>>
    <3>1. then' \in [Desk -> {"free", "write", "compare", "answer"}] /\ then'[t] = "compare"
      BY <2>2
    <3>2. desk'[t] = "row" /\ \A u \in Desk \ {t} : desk'[u] = desk[u] /\ then'[u] = then[u]
      BY <2>2
    <3>3. SettingsTypeOK'
      BY <2>2, <3>1
    <3> QED
      BY <2>2, <3>1, <3>2, <3>3
  <2> QED
    BY ONLY <1>8, <2>1, <2>2 DEF DeleteProviderProfile
<1>9. ASSUME NEW t \in Desk, FallBack(t) PROVE SettingsTypeOK' /\ DesksKnow'
  <2>1. CASE AnswerDesk(t) /\ UNCHANGED <<row, profiles, overtaken>>
    BY <2>1
  <2>2. CASE /\ desk[t] = "compare"
             /\ Go(t, "row")
             /\ then' = [then EXCEPT ![t] = "write"]
             /\ change' = [change EXCEPT ![t] = [titles |-> Nothing, active |-> "cloud"]]
             /\ UNCHANGED <<row, profiles, overtaken, seen, handled>>
    <3>1. then' \in [Desk -> {"free", "write", "compare", "answer"}] /\ then'[t] = "write"
      BY <2>2
    <3>2. desk'[t] = "row" /\ \A u \in Desk \ {t} : desk'[u] = desk[u] /\ then'[u] = then[u]
      BY <2>2
    <3>3. [titles |-> Nothing, active |-> "cloud"] \in Change
      OBVIOUS
    <3>4. SettingsTypeOK'
      BY <2>2, <3>1, <3>3
    <3> QED
      BY <2>2, <3>1, <3>2, <3>4
  <2> QED
    BY ONLY <1>9, <2>1, <2>2 DEF FallBack
<1>10. ASSUME NEW t \in Desk, ShowSettings(t) PROVE SettingsTypeOK' /\ DesksKnow'
  BY <1>10, SMTT(60) DEF ShowSettings
<1>11. ASSUME StopDesks PROVE SettingsTypeOK' /\ DesksKnow'
  BY <1>11, SMTT(60) DEF StopDesks
<1> QED
  BY <1>1, <1>2, <1>3, <1>4, <1>5, <1>6, <1>7, <1>8, <1>9, <1>10, <1>11 DEF SettingsNext

\* A stale reference is known to a deletion under way, or is written down as
\* overtaken: whoever stops knowing has read another reference or written one.
LEMMA InvCaught ==
  ASSUME SettingsInv, SettingsNext
  PROVE  Caught'
<1> USE DEF SettingsInv, SettingsTypeOK
<1> DEFINE Kept == row' = row /\ overtaken' = overtaken
           Others(t) == \A u \in Desk \ {t} : desk'[u] = desk[u] /\ handled'[u] = handled[u]
                                               /\ seen'[u] = seen[u]
           NoFewer == \A p \in Profile : Live(p) => Live(p)'
\* A step that leaves the row alone and what its request has caught.
<1>1. ASSUME NEW t \in Desk, Kept, NoFewer, Others(t),
             \A p \in Profile : row # Nothing /\ row.active = p /\ Catches(t, p)
                                => Catches(t, p)'
      PROVE  Caught'
  <2> SUFFICES ASSUME NEW p \in Profile, row' # Nothing, row'.active = p, ~Live(p)'
               PROVE  p \in overtaken' \/ \E u \in Desk : Catches(u, p)'
    BY DEF Caught
  <2>1. p \in overtaken \/ \E u \in Desk : Catches(u, p)
    BY <1>1 DEF Caught
  <2>2. ASSUME NEW u \in Desk, Catches(u, p) PROVE Catches(u, p)'
    <3>1. CASE u = t
      BY <1>1, <2>2, <3>1
    <3>2. CASE u # t
      BY <1>1, <2>2, <3>2 DEF Catches
    <3> QED
      BY <3>1, <3>2
  <2> QED
    BY <1>1, <2>1, <2>2
\* A request that has caught nothing.
<1>2. ASSUME NEW t \in Desk, desk[t] \notin {"row", "default", "write", "compare"}
      PROVE  \A p \in Profile : ~Catches(t, p)
  BY <1>2 DEF Catches
<1>3. ASSUME NEW t \in Desk, AnswerDesk(t) PROVE Others(t)
  BY <1>3 DEF AnswerDesk, Go
<1>4. ASSUME UNCHANGED profiles PROVE NoFewer
  BY <1>4 DEF Live
<1>5. ASSUME NEW t \in Desk, OpenSettings(t) PROVE Caught'
  <2>1. ASSUME NEW stop, NEW onward, NEW new, NEW p, BeginAt(t, stop, onward, new, p)
        PROVE  Caught'
    <3>1. desk[t] = "free" /\ Kept /\ UNCHANGED profiles /\ Others(t)
      BY <2>1 DEF BeginAt, Go
    <3> QED
      BY <1>1, <1>2, <1>4, <3>1
  <2> QED
    BY ONLY <1>5, <2>1 DEF OpenSettings
<1>6. ASSUME NEW t \in Desk, ReadSettings(t) PROVE Caught'
  <2>1. Kept /\ UNCHANGED profiles /\ Others(t) /\ UNCHANGED handled /\ desk[t] = "row"
    BY <1>6 DEF ReadSettings, Go
  <2>2. ASSUME NEW p \in Profile, row # Nothing, row.active = p, Catches(t, p)
        PROVE  Catches(t, p)'
    <3>1. desk'[t] = then[t] /\ seen'[t] = row
      BY <1>6, <2>2 DEF ReadSettings, Go
    <3>2. then[t] \in {"compare", "write"}
      BY <2>1, <2>2 DEF Catches, DesksKnow
    <3> QED
      BY <2>1, <2>2, <3>1, <3>2 DEF Catches
  <2> QED
    BY <1>1, <1>4, <2>1, <2>2
<1>7. ASSUME NEW t \in Desk, StoreDefaults(t) PROVE Caught'
  BY <1>7 DEF StoreDefaults, Upserted, Default, Caught
<1>8. ASSUME NEW t \in Desk, UpdateUserSettings(t) PROVE Caught'
  BY <1>8 DEF UpdateUserSettings, Upserted, Caught, Live
<1>9. ASSUME NEW t \in Desk, CreateProviderProfile(t) PROVE Caught'
  <2>1. Kept /\ desk[t] = "insert" /\ AnswerDesk(t)
    BY <1>9 DEF CreateProviderProfile
  <2>2. NoFewer
    BY <1>9 DEF CreateProviderProfile, Put, Live, Stored
  <2> QED
    BY <1>1, <1>2, <1>3, <2>1, <2>2
<1>10. ASSUME NEW t \in Desk, ReadProfile(t) PROVE Caught'
  <2>1. Kept /\ UNCHANGED profiles /\ desk[t] = "existing" /\ Others(t)
    BY <1>10, <1>3 DEF ReadProfile, Go
  <2> QED
    BY <1>1, <1>2, <1>4, <2>1
<1>11. ASSUME NEW t \in Desk, UpdateProviderProfile(t) PROVE Caught'
  <2>1. Kept /\ desk[t] = "upsert" /\ AnswerDesk(t)
    BY <1>11 DEF UpdateProviderProfile
  <2>2. NoFewer
    BY <1>11 DEF UpdateProviderProfile, Put, Live, Stored
  <2> QED
    BY <1>1, <1>2, <1>3, <2>1, <2>2
<1>12. ASSUME NEW t \in Desk, DeleteProviderProfile(t) PROVE Caught'
  <2>1. CASE Live(handled[t])
    <3>1. Kept /\ Others(t) /\ UNCHANGED handled /\ desk[t] = "remove" /\ desk'[t] = "row"
      BY <1>12, <2>1 DEF DeleteProviderProfile, Go
    <3>2. \A p \in Profile \ {handled[t]} : profiles'[p] = profiles[p]
      BY <1>12, <2>1 DEF DeleteProviderProfile, Put
    <3> SUFFICES ASSUME NEW p \in Profile, row' # Nothing, row'.active = p, ~Live(p)'
                 PROVE  p \in overtaken' \/ \E u \in Desk : Catches(u, p)'
      BY DEF Caught
    <3>3. CASE p = handled[t]
      BY <3>1, <3>3 DEF Catches
    <3>4. CASE p # handled[t]
      <4>1. p \in overtaken \/ \E u \in Desk \ {t} : Catches(u, p)
        BY <1>2, <3>1, <3>2, <3>4 DEF Caught, Live
      <4> QED
        BY <3>1, <4>1 DEF Catches
    <3> QED
      BY <3>3, <3>4
  <2>2. CASE ~Live(handled[t])
    <3>1. Kept /\ UNCHANGED profiles /\ desk[t] = "remove" /\ AnswerDesk(t)
      BY <1>12, <2>2 DEF DeleteProviderProfile
    <3> QED
      BY <1>1, <1>2, <1>3, <1>4, <3>1
  <2> QED
    BY <2>1, <2>2
<1>13. ASSUME NEW t \in Desk, FallBack(t) PROVE Caught'
  <2>1. Kept /\ UNCHANGED profiles /\ Others(t) /\ desk[t] = "compare"
    BY <1>13, <1>3 DEF FallBack, Go
  <2>2. ASSUME NEW p \in Profile, Catches(t, p) PROVE Catches(t, p)'
    BY <1>13, <2>1, <2>2 DEF FallBack, Go, Catches
  <2> QED
    BY <1>1, <1>4, <2>1, <2>2
<1>14. ASSUME NEW t \in Desk, ShowSettings(t) PROVE Caught'
  BY <1>1, <1>2, <1>3, <1>4, <1>14 DEF ShowSettings
<1>15. ASSUME StopDesks PROVE Caught'
  BY <1>15 DEF StopDesks, Caught, Catches, Falling, Live
<1> QED
  BY <1>5, <1>6, <1>7, <1>8, <1>9, <1>10, <1>11, <1>12, <1>13, <1>14, <1>15 DEF SettingsNext

\* A question finds the provider that the settings name, whatever the number of
\* requests, profiles and stops: delete_provider_profile falls back in time, or
\* a later write named the profile, or the process stopped in between.
THEOREM ActiveProviderFound == SettingsSpec => []ActiveProviderIsThere
<1>1. ASSUME SettingsInv, SettingsNext PROVE SettingsInv'
  BY <1>1, InvTyped, InvCaught DEF SettingsInv
<1>2. ASSUME SettingsInv, UNCHANGED settingsVars PROVE SettingsInv'
  BY <1>2 DEF SettingsInv, SettingsTypeOK, DesksKnow, Caught, Catches, Live, settingsVars
<1>3. SettingsInv /\ [SettingsNext]_settingsVars => SettingsInv'
  BY <1>1, <1>2
<1> QED
  BY <1>3, InvInit, InvAnswers, PTL DEF SettingsSpec

-----------------------------------------------------------------------------
(* A session, its questions and its title.  ValidExchanges knows question and  *)
(* answer only by their positions in the list (ExchangesStand, by induction    *)
(* over the messages).  That they belong together needs that every answer      *)
(* stands behind its question (Answers), and so that a thread about to append  *)
(* the place of an answer has appended the question (Ready).                   *)

HIDE AccountsAssumption

\* Induction: no set of counterexamples has a least member.
LEMMA NoCounterexample ==
  ASSUME NEW T, T \subseteq Nat, 0 \notin T, \A n \in Nat : n + 1 \in T => n \in T
  PROVE  T = {}
  <1> SUFFICES ASSUME T # {} PROVE FALSE
    OBVIOUS
  <1>1. PICK x \in T : \A y \in T : ~(<<y, x>> \in OpToRel(<, Nat))
    <2>1. IsWellFoundedOn(OpToRel(<, Nat), Nat)
      BY NatLessThanWellFounded
    <2>2. \E x \in T : \A y \in T : ~(<<y, x>> \in OpToRel(<, Nat))
      <3>1. QED
        BY <2>1, WFMin
    <2>3. QED
      BY <2>2
  <1>2. x \in Nat /\ x # 0
    OBVIOUS
  <1>3. x - 1 \in Nat /\ (x - 1) + 1 = x /\ x - 1 < x
    BY <1>2
  <1>4. x - 1 \in T
    BY <1>3
  <1>5. <<x - 1, x>> \in OpToRel(<, Nat)
    BY <1>2, <1>3 DEF OpToRel
  <1>6. QED
    BY <1>1, <1>4, <1>5

-----------------------------------------------------------------------------
(* Questions and answers, by position *)

\* The question of x stands right before its answer.
Stands(ms, x, k) ==
  /\ k - 1 \in DOMAIN ms /\ ms[k - 1].role = "user" /\ ms[k - 1].turn = x.question
  /\ ms[k].role = "assistant" /\ ms[k].turn = x.answer

\* A scan of the messages finds only such pairs.
LEMMA ExchangesStand ==
  ASSUME NEW ms \in Seq(Message), ValidExchanges(ms) # <<>>
  PROVE  \E k \in DOMAIN ms : Stands(ms, ValidExchanges(ms)[1], k)
  <1> DEFINE Unseen == [open |-> None, pairs |-> <<>>]
             Loop(f, n) == [i \in 0..n |-> IF i = 0 THEN Unseen ELSE Pair(f[i - 1], ms[i])]
             T == {n \in Nat : n <= Len(ms) /\ ~ \E f : f = Loop(f, n)}
  <1>1. 0 \notin T
    <2>1. [i \in 0..0 |-> Unseen] = Loop([i \in 0..0 |-> Unseen], 0)
      OBVIOUS
    <2>2. QED
      BY <2>1
  <1>2. ASSUME NEW n \in Nat, n + 1 \in T
        PROVE  n \in T
    <2> SUFFICES ASSUME NEW f, f = Loop(f, n) PROVE FALSE
      BY <1>2
    <2> DEFINE g == [i \in 0..(n + 1) |-> IF i <= n THEN f[i] ELSE Pair(f[n], ms[n + 1])]
    <2>1. ASSUME NEW i \in 0..(n + 1)
          PROVE  g[i] = Loop(g, n + 1)[i]
      <3>1. CASE i = 0
        BY <3>1
      <3>2. CASE i # 0 /\ i <= n
        <4>1. i - 1 \in 0..(n + 1) /\ i - 1 <= n /\ i \in 0..n
          BY <3>2
        <4>2. g[i - 1] = f[i - 1] /\ g[i] = f[i]
          BY <3>2, <4>1
        <4>3. f[i] = Pair(f[i - 1], ms[i])
          BY <3>2, <4>1
        <4>4. QED
          BY <3>2, <4>2, <4>3
      <3>3. CASE i = n + 1
        BY <3>3
      <3>4. QED
        BY <3>1, <3>2, <3>3
    <2>2. g = Loop(g, n + 1)
      <3>1. DOMAIN g = 0..(n + 1)
        OBVIOUS
      <3>2. g = [i \in 0..(n + 1) |-> g[i]]
        OBVIOUS
      <3> HIDE DEF g
      <3>3. QED
        BY <2>1, <3>1, <3>2
    <2>3. QED
      BY <1>2, <2>2
  <1>3. T = {}
    <2>1. T \subseteq Nat
      OBVIOUS
    <2> HIDE DEF T
    <2>2. QED
      BY <1>1, <1>2, <2>1, NoCounterexample
  <1>4. Len(ms) \in Nat /\ DOMAIN ms = 1..Len(ms)
    OBVIOUS
  <1>5. \E f : f = Loop(f, Len(ms))
    <2> SUFFICES ASSUME ~ \E f : f = Loop(f, Len(ms)) PROVE FALSE
      OBVIOUS
    <2>1. Len(ms) \in T
      BY <1>4
    <2> HIDE DEF T
    <2>2. QED
      BY <1>3, <2>1
  <1> DEFINE upto == CHOOSE f : f = Loop(f, Len(ms))
  <1>6. upto = Loop(upto, Len(ms))
    BY <1>5
  <1>7. ValidExchanges(ms) = upto[Len(ms)].pairs
    BY DEF ValidExchanges
  <1> HIDE DEF upto
  <1>8. upto[0] = Unseen
    BY <1>4, <1>6
  <1>9. ASSUME NEW n \in Nat, n + 1 <= Len(ms)
        PROVE  upto[n + 1] = Pair(upto[n], ms[n + 1])
    <2>1. n + 1 \in 0..Len(ms) /\ n + 1 # 0 /\ (n + 1) - 1 = n
      BY <1>4, <1>9
    <2>2. QED
      BY <1>6, <2>1
  <1> DEFINE Found(x) == \E k \in DOMAIN ms : Stands(ms, x, k)
             X == {x \in [question : Turn \cup {None}, answer : Turn \cup {None}] : Found(x)}
             Good(n) == /\ upto[n].pairs \in Seq(X)
                        /\ upto[n].open = None
                             \/ /\ n \in DOMAIN ms /\ ms[n].role = "user"
                                /\ ms[n].turn = upto[n].open
             B == {n \in Nat : n <= Len(ms) /\ ~ Good(n)}
  <1>10. 0 \notin B
    <2>1. <<>> \in Seq(X)
      OBVIOUS
    <2>2. Good(0)
      BY <1>8, <2>1
    <2>3. QED
      BY <2>2
  <1>11. ASSUME NEW n \in Nat, n + 1 \in B
         PROVE  n \in B
    <2> SUFFICES ASSUME Good(n) PROVE Good(n + 1)
      BY <1>4, <1>11
    <2> DEFINE m == ms[n + 1]
    <2>1. /\ n + 1 \in DOMAIN ms /\ m \in Message
          /\ (n + 1) - 1 = n
      BY <1>4, <1>11
    <2>2. upto[n + 1] = Pair(upto[n], m)
      BY <1>4, <1>9, <2>1
    <2>3. CASE m.role = "user"
      <3>1. upto[n + 1] = [upto[n] EXCEPT !.open = m.turn]
        BY <2>2, <2>3 DEF Pair
      <3>2. QED
        BY <2>1, <2>3, <3>1
    <2>4. CASE m.role = "assistant"
      <3>1. /\ upto[n + 1].open = None
            /\ upto[n + 1].pairs =
                 IF upto[n].open # None /\ m.status = "done"
                 THEN Append(upto[n].pairs, [question |-> upto[n].open, answer |-> m.turn])
                 ELSE upto[n].pairs
        BY <2>2, <2>4 DEF Pair
      <3>2. CASE upto[n].open # None /\ m.status = "done"
        <4> DEFINE x == [question |-> upto[n].open, answer |-> m.turn]
        <4>1. n \in DOMAIN ms /\ ms[n].role = "user" /\ ms[n].turn = upto[n].open
              /\ ms[n] \in Message
          BY <1>4, <3>2
        <4>2. x \in [question : Turn \cup {None}, answer : Turn \cup {None}]
          BY <2>1, <4>1 DEF Message
        <4>3. Stands(ms, x, n + 1)
          BY <2>1, <2>4, <4>1 DEF Stands
        <4>4. x \in X
          BY <2>1, <4>2, <4>3
        <4>5. upto[n].pairs \in Seq(X)
          OBVIOUS
        <4>6. upto[n + 1].pairs = Append(upto[n].pairs, x)
          BY <3>1, <3>2
        <4> HIDE DEF x, X
        <4>7. upto[n + 1].pairs \in Seq(X)
          BY <4>4, <4>5, <4>6, AppendProperties
        <4>8. QED
          BY <3>1, <4>7
      <3>3. CASE ~(upto[n].open # None /\ m.status = "done")
        BY <3>1, <3>3
      <3>4. QED
        BY <3>2, <3>3
    <2>5. QED
      BY <2>1, <2>3, <2>4 DEF Message
  <1>12. B = {}
    <2>1. B \subseteq Nat
      OBVIOUS
    <2> HIDE DEF B
    <2>2. QED
      BY <1>10, <1>11, <2>1, NoCounterexample
  <1>13. Good(Len(ms))
    <2>1. Len(ms) \notin B
      BY <1>12
    <2> HIDE DEF Good
    <2>2. QED
      BY <1>4, <2>1
  <1>14. ValidExchanges(ms) \in Seq(X)
    BY <1>7, <1>13
  <1> HIDE DEF X
  <1>15. ValidExchanges(ms)[1] \in X
    BY <1>14
  <1>16. QED
    BY <1>15 DEF X
-----------------------------------------------------------------------------
(* What the messages keep and what each thread holds *)

SessionsSpec == SessionsInit /\ [][SessionsNext]_sessionVars

Draft == [title : Title, question : Turn \cup {None}, answer : Turn \cup {None}]
Place == {"free", "look", "messages", "normalise", "settings", "question", "placeholder",
          "entitle", "reply", "finish", "fail", "rename", "remove"}
Errand == {"free", "answered", "rename", "remove", "settings", "question", "retitle",
           "entitle", "reply", "finish", "fail"}

\* Where a thread may hold a title it has read.
Titling == {"messages", "normalise"}
USE DEF Titling

Hands ==
  /\ place \in [Hand -> Place]
  /\ next \in [Hand -> Errand]
  /\ turn \in [Hand -> Turn \cup {None}]
  /\ plain \in [Hand -> BOOLEAN]
  /\ auto \in [Hand -> BOOLEAN]
  /\ draft \in [Hand -> Draft]

Shows == shown = [t \in Hand |-> shown[t]]

HasAsked(n) == \E i \in DOMAIN history : history[i].role = "user" /\ history[i].turn = n

\* The place of an answer stands behind its question, if not right behind it.
Answers ==
  /\ there \in BOOLEAN
  /\ history \in Seq(Message)
  /\ \A k \in DOMAIN history :
       history[k].role = "assistant" =>
         \E i \in DOMAIN history :
           i < k /\ history[i].role = "user" /\ history[i].turn = history[k].turn

Ready(t) ==
  /\ place[t] = "placeholder" => turn[t] \in Turn /\ (there => HasAsked(turn[t]))
  /\ place[t] \in {"entitle", "rename"} => next[t] = place[t]
  /\ next[t] = "entitle" => draft[t] # NoDraft
  /\ next[t] = "rename" => t \in Clerk

SessionInv ==
  /\ Hands
  /\ Shows
  /\ Answers
  /\ \A t \in Hand : Ready(t)
  /\ ExchangesBelong

\* A step keeps every question, or the session is gone.
Keeps ==
  there' => /\ there
            /\ \A i \in DOMAIN history :
                 /\ i \in DOMAIN history'
                 /\ history'[i].role = history[i].role
                 /\ history'[i].turn = history[i].turn

Same(u) ==
  /\ place'[u] = place[u] /\ next'[u] = next[u]
  /\ turn'[u] = turn[u] /\ draft'[u] = draft[u]

Fits(d) == d.question = d.answer \/ Crossed

\* What a step of t does to the threads.
Goes(t) ==
  /\ Hands'
  /\ \A u \in Hand \ {t} : Same(u)
  /\ Ready(t)'
  /\ draft'[t] = draft[t] \/ Fits(draft'[t])
-----------------------------------------------------------------------------
(* Questions are only added *)

LEMMA QuestionsFinite ==
  ASSUME NEW ms \in Seq(Message)
  PROVE  IsFiniteSet(Questions(ms)) /\ Asked(ms) \in Nat
  <1>1. Len(ms) \in Nat /\ DOMAIN ms = 1..Len(ms)
    OBVIOUS
  <1>2. IsFiniteSet(1..Len(ms))
    BY <1>1, FS_Interval
  <1>3. Questions(ms) \subseteq 1..Len(ms)
    BY <1>1 DEF Questions
  <1>4. IsFiniteSet(Questions(ms))
    BY <1>2, <1>3, FS_Subset
  <1>5. QED
    BY <1>4, FS_CardinalityType DEF Asked

LEMMA QuestionAdded ==
  ASSUME NEW ms \in Seq(Message), NEW m \in Message
  PROVE  /\ Append(ms, m) \in Seq(Message)
         /\ DOMAIN Append(ms, m) = DOMAIN ms \cup {Len(ms) + 1}
         /\ \A i \in DOMAIN ms : Append(ms, m)[i] = ms[i] /\ i < Len(ms) + 1
         /\ Append(ms, m)[Len(ms) + 1] = m
         /\ Asked(Append(ms, m)) >= Asked(ms)
  <1> DEFINE new == Append(ms, m)
  <1>1. /\ new \in Seq(Message) /\ Len(ms) \in Nat
        /\ DOMAIN new = 1..(Len(ms) + 1) /\ DOMAIN ms = 1..Len(ms)
        /\ \A i \in 1..Len(ms) : new[i] = ms[i]
        /\ new[Len(ms) + 1] = m
    BY AppendProperties
  <1> HIDE DEF new
  <1>2. /\ DOMAIN new = DOMAIN ms \cup {Len(ms) + 1}
        /\ \A i \in DOMAIN ms : new[i] = ms[i] /\ i < Len(ms) + 1
    BY <1>1
  <1>3. Questions(ms) \subseteq Questions(new)
    BY <1>2 DEF Questions
  <1>4. IsFiniteSet(Questions(new))
    BY <1>1, QuestionsFinite
  <1>5. Cardinality(Questions(ms)) <= Cardinality(Questions(new))
    BY <1>3, <1>4, FS_Subset
  <1>6. Asked(new) \in Nat /\ Asked(ms) \in Nat
    BY <1>1, QuestionsFinite
  <1>7. Asked(new) >= Asked(ms)
    BY <1>5, <1>6 DEF Asked
  <1>8. QED
    BY <1>1, <1>2, <1>7 DEF new

-----------------------------------------------------------------------------
(* The ways a thread moves *)

LEMMA Leaves ==
  ASSUME Hands, NEW t \in Hand, Leave(t)
  PROVE  Goes(t) /\ place'[t] = "free" /\ draft'[t] = NoDraft
  <1>1. NoDraft \in Draft
    BY DEF NoDraft, Draft, Title, None
  <1>2. /\ place' \in [Hand -> Place]
        /\ next' \in [Hand -> Errand]
        /\ turn' \in [Hand -> Turn \cup {None}]
    BY DEF Hands, Leave, Move, Place, Errand
  <1>3. plain' \in [Hand -> BOOLEAN] /\ auto' \in [Hand -> BOOLEAN]
    BY DEF Hands, Leave
  <1>4. draft' \in [Hand -> Draft]
    BY <1>1 DEF Hands, Leave
  <1>5. /\ place'[t] = "free" /\ next'[t] = "free" /\ draft'[t] = NoDraft
        /\ \A u \in Hand \ {t} : Same(u)
    BY DEF Hands, Leave, Move, Same
  <1>6. NoDraft.question = NoDraft.answer
    BY DEF NoDraft
  <1>7. Ready(t)'
    BY <1>5 DEF Ready
  <1>8. Hands'
    BY <1>2, <1>3, <1>4 DEF Hands
  <1>9. QED
    BY <1>5, <1>6, <1>7, <1>8 DEF Goes, Fits

\* A look that leads elsewhere than to a title or a name.
LEMMA Looks ==
  ASSUME Hands, NEW t \in Hand, NEW to \in Errand, LookThen(t, to),
         to = "rename" => t \in Clerk,
         turn' \in [Hand -> Turn \cup {None}], \A u \in Hand \ {t} : turn'[u] = turn[u],
         plain' \in [Hand -> BOOLEAN], auto' \in [Hand -> BOOLEAN],
         NEW new \in Draft, draft' = [draft EXCEPT ![t] = new],
         new = draft[t] \/ Fits(new),
         to = "entitle" => new # NoDraft
  PROVE  Goes(t) /\ place'[t] = "look" /\ draft'[t] = new
  <1>1. /\ place' \in [Hand -> Place]
        /\ next' \in [Hand -> Errand]
    BY DEF Hands, LookThen, Move, Place
  <1>2. draft' \in [Hand -> Draft]
    BY DEF Hands
  <1>3. /\ place'[t] = "look" /\ next'[t] = to /\ draft'[t] = new
        /\ \A u \in Hand \ {t} : Same(u)
    BY DEF Hands, LookThen, Move, Same
  <1>4. Ready(t)'
    BY <1>3 DEF Ready
  <1>5. Hands'
    BY <1>1, <1>2 DEF Hands
  <1>6. QED
    BY <1>3, <1>4, <1>5 DEF Goes

LEMMA TitleDone ==
  ASSUME Hands, NEW t \in Hand, Titled(t)
  PROVE  Goes(t) /\ place'[t] \notin Titling /\ draft'[t] = NoDraft
  <1>1. CASE t \in Titler
    BY <1>1, Leaves DEF Titled
  <1>2. CASE t \notin Titler
    <2>1. /\ LookThen(t, "reply") /\ draft' = [draft EXCEPT ![t] = NoDraft]
          /\ turn' = turn /\ plain' = plain /\ auto' = auto
      BY <1>2 DEF Titled
    <2>2. NoDraft \in Draft /\ Fits(NoDraft)
      BY DEF NoDraft, Draft, Title, None, Fits
    <2>3. /\ turn' \in [Hand -> Turn \cup {None}] /\ plain' \in [Hand -> BOOLEAN]
          /\ auto' \in [Hand -> BOOLEAN] /\ \A u \in Hand \ {t} : turn'[u] = turn[u]
      BY <2>1 DEF Hands
    <2>4. "reply" \in Errand /\ "reply" # "entitle" /\ "reply" # "rename"
      BY DEF Errand
    <2>5. Goes(t) /\ place'[t] = "look" /\ draft'[t] = NoDraft
      BY <2>1, <2>2, <2>3, <2>4, Looks, ZenonT(30)
    <2>6. QED
      BY <2>5
  <1>3. QED
    BY <1>1, <1>2

LEMMA Proceeds ==
  ASSUME Hands, NEW t \in Hand, Ready(t), NEW new \in Draft, Proceed(t, new),
         next[t] = "entitle" => new # NoDraft,
         new = draft[t] \/ Fits(new)
  PROVE  Goes(t) /\ place'[t] \notin Titling /\ draft'[t] \in {new, NoDraft}
  <1>1. CASE next[t] = "answered"
    <2>1. Leave(t)
      BY <1>1 DEF Proceed
    <2>2. QED
      BY <2>1, Leaves
  <1>2. CASE next[t] = "retitle" /\ new = NoDraft
    <2>1. Titled(t)
      BY <1>2 DEF Proceed
    <2>2. QED
      BY <2>1, TitleDone
  <1>3. CASE next[t] # "answered" /\ ~(next[t] = "retitle" /\ new = NoDraft)
    <2>1. /\ IF next[t] = "retitle" THEN LookThen(t, "entitle")
                                    ELSE Move(t, next[t]) /\ UNCHANGED next
          /\ draft' = [draft EXCEPT ![t] = new]
          /\ turn' = turn /\ plain' = plain /\ auto' = auto
      BY <1>3 DEF Proceed
    <2>2. /\ turn' \in [Hand -> Turn \cup {None}] /\ plain' \in [Hand -> BOOLEAN]
          /\ auto' \in [Hand -> BOOLEAN] /\ \A u \in Hand \ {t} : turn'[u] = turn[u]
      BY <2>1 DEF Hands
    <2>3. CASE next[t] = "retitle"
      <3>1. LookThen(t, "entitle")
        BY <2>1, <2>3
      <3>2. "entitle" \in Errand /\ "entitle" # "rename" /\ new # NoDraft
        BY <1>3, <2>3 DEF Errand
      <3>3. Goes(t) /\ place'[t] = "look" /\ draft'[t] = new
        BY <2>1, <2>2, <3>1, <3>2, Looks
      <3>4. QED
        BY <3>3
    <2>4. CASE next[t] # "retitle"
      <3>1. place' = [place EXCEPT ![t] = next[t]] /\ next' = next
        BY <2>1, <2>4 DEF Move
      <3>2. next[t] \in Place /\ next[t] \notin {"messages", "normalise", "placeholder"}
        BY <1>3, <2>4 DEF Hands, Errand, Place
      <3>3. place' \in [Hand -> Place] /\ next' \in [Hand -> Errand]
        BY <3>1, <3>2 DEF Hands
      <3>4. draft' \in [Hand -> Draft]
        BY <2>1 DEF Hands
      <3>5. /\ place'[t] = next[t] /\ next'[t] = next[t] /\ draft'[t] = new
            /\ \A u \in Hand \ {t} : Same(u)
        BY <2>1, <3>1 DEF Hands, Same
      <3>6. Ready(t)'
        BY <3>2, <3>5 DEF Ready
      <3>7. Hands'
        BY <2>2, <3>3, <3>4 DEF Hands
      <3>8. QED
        BY <3>2, <3>5, <3>6, <3>7 DEF Goes
    <2>5. QED
      BY <2>3, <2>4
  <1>4. QED
    BY <1>1, <1>2, <1>3
-----------------------------------------------------------------------------
(* Titles are made from a question and its own answer *)

LEMMA DraftsFit ==
  ASSUME Hands, Answers, NEW t \in Hand, Ready(t), NEW new \in Drafts(t)
  PROVE  /\ new \in Draft
         /\ new = draft[t] \/ Fits(new)
         /\ next[t] = "entitle" => new # NoDraft
  <1>1. CASE next[t] # "retitle"
    <2>1. new = draft[t]
      BY <1>1 DEF Drafts
    <2>2. QED
      BY <2>1 DEF Hands, Ready
  <1>2. CASE next[t] = "retitle"
    <2>0. NoDraft \in Draft /\ Fits(NoDraft)
      BY DEF NoDraft, Draft, Title, None, Fits
    <2>1. \/ new = NoDraft
          \/ \E model \in BOOLEAN : new = TitleOnUserTurn(history, model)
      BY <1>2 DEF Drafts
    <2>2. CASE new = NoDraft
      BY <1>2, <2>0, <2>2
    <2>3. ASSUME NEW model \in BOOLEAN, new = TitleOnUserTurn(history, model)
          PROVE  new \in Draft /\ Fits(new)
      <3> DEFINE n     == Asked(history)
                 valid == ValidExchanges(history)
                 made  == [NoDraft EXCEPT !.title = IF model THEN Made(n) ELSE After(n)]
                 both  == [made EXCEPT !.question = valid[1].question,
                                       !.answer = valid[1].answer]
      <3>1. \/ (n = 1 \/ n = 2) /\ new = made
            \/ n = 2 /\ valid # <<>> /\ new = both
            \/ new = NoDraft
        BY <2>3 DEF TitleOnUserTurn
      <3>2. n \in {1, 2} => made \in Draft /\ made.question = None /\ made.answer = None
        BY DEF Draft, NoDraft, Title, None
      <3>3. CASE (n = 1 \/ n = 2) /\ new = made
        BY <3>2, <3>3 DEF Fits
      <3>4. CASE n = 2 /\ valid # <<>> /\ new = both
        <4>1. PICK k \in DOMAIN history : Stands(history, valid[1], k)
          BY <3>4, ExchangesStand DEF Answers
        <4> DEFINE q == valid[1].question
                   a == valid[1].answer
        <4>2. /\ k - 1 \in DOMAIN history
              /\ history[k - 1].role = "user" /\ history[k - 1].turn = q
              /\ history[k].role = "assistant" /\ history[k].turn = a
          BY <4>1 DEF Stands
        <4>3. q \in Turn /\ a \in Turn
          <5>1. history[k - 1] \in Message /\ history[k] \in Message
            BY <4>2 DEF Answers
          <5>2. QED
            BY <4>2, <5>1 DEF Message
        <4>4. n = 2
          BY <3>4
        <4> HIDE DEF q, a, n
        <4>5. made \in Draft
          BY <3>2, <4>4
        <4>6. new = [made EXCEPT !.question = q, !.answer = a]
          BY <3>4 DEF q, a
        <4> HIDE DEF made
        <4>7. new \in Draft /\ new.question = q /\ new.answer = a
          BY <4>3, <4>5, <4>6 DEF Draft
        <4>8. CASE q = a
          BY <4>7, <4>8 DEF Fits
        <4>9. CASE q # a
          <5>1. PICK i \in DOMAIN history :
                  i < k /\ history[i].role = "user" /\ history[i].turn = history[k].turn
            BY <4>2 DEF Answers
          <5>2. i # k - 1
            BY <4>2, <4>9, <5>1
          <5>3. i \in Nat /\ k \in Nat
            BY <5>1 DEF Answers
          <5>4. i < k - 1 /\ k - 1 < k
            BY <5>1, <5>2, <5>3
          <5>5. Crossed
            BY <4>2, <5>1, <5>4 DEF Crossed
          <5>6. QED
            BY <4>7, <5>5 DEF Fits
        <4>10. QED
          BY <4>8, <4>9
      <3>5. CASE new = NoDraft
        BY <2>0, <3>5
      <3>6. QED
        BY <3>1, <3>3, <3>4, <3>5
    <2>4. QED
      BY <1>2, <2>1, <2>2, <2>3
  <1>3. QED
    BY <1>1, <1>2

-----------------------------------------------------------------------------
(* What a step leaves of the messages *)

LEMMA MessageAppended ==
  ASSUME Answers, there' = there, NEW m \in Message, history' = Append(history, m),
         m.role = "assistant" => HasAsked(m.turn)
  PROVE  Answers' /\ Keeps
  <1>1. /\ history' \in Seq(Message)
        /\ DOMAIN history' = DOMAIN history \cup {Len(history) + 1}
        /\ \A i \in DOMAIN history : history'[i] = history[i] /\ i < Len(history) + 1
        /\ history'[Len(history) + 1] = m
    BY QuestionAdded DEF Answers
  <1>2. ASSUME NEW k \in DOMAIN history', history'[k].role = "assistant"
        PROVE  \E i \in DOMAIN history' : /\ i < k /\ history'[i].role = "user"
                                          /\ history'[i].turn = history'[k].turn
    <2>1. CASE k \in DOMAIN history
      <3>1. PICK i \in DOMAIN history :
              i < k /\ history[i].role = "user" /\ history[i].turn = history[k].turn
        BY <1>1, <1>2, <2>1 DEF Answers
      <3>2. QED
        BY <1>1, <2>1, <3>1
    <2>2. CASE k = Len(history) + 1
      <3>1. m.role = "assistant"
        BY <1>1, <1>2, <2>2
      <3>2. PICK i \in DOMAIN history : history[i].role = "user" /\ history[i].turn = m.turn
        BY <3>1 DEF HasAsked
      <3>3. QED
        BY <1>1, <2>2, <3>2
    <2>3. QED
      BY <1>1, <2>1, <2>2
  <1>3. Answers'
    BY <1>1, <1>2 DEF Answers
  <1>4. Keeps
    BY <1>1 DEF Keeps
  <1>5. QED
    BY <1>3, <1>4

LEMMA MessagesKept ==
  ASSUME Answers, there' = there, history' = history
  PROVE  Answers' /\ Keeps
  BY DEF Answers, Keeps

LEMMA StatusWritten ==
  ASSUME Answers, Hands, NEW t \in Hand, Finalize(t)
  PROVE  /\ Answers' /\ Keeps /\ there' = there
         /\ Asked(history') = Asked(history)
  <1> DEFINE ended == IF place[t] = "finish" THEN "done" ELSE "open"
             Own(i) == history[i].role = "assistant" /\ history[i].turn = turn[t]
  <1>1. /\ history' = [i \in DOMAIN history |->
              IF Own(i) THEN [history[i] EXCEPT !.status = ended] ELSE history[i]]
        /\ there' = there
    BY DEF Finalize
  <1>2. /\ Len(history) \in Nat /\ DOMAIN history = 1..Len(history)
        /\ \A i \in DOMAIN history : history[i] \in Message
    BY DEF Answers
  <1>3. ASSUME NEW i \in DOMAIN history
        PROVE  /\ history'[i] \in Message
               /\ history'[i].role = history[i].role
               /\ history'[i].turn = history[i].turn
    <2>1. history'[i] = IF Own(i) THEN [history[i] EXCEPT !.status = ended] ELSE history[i]
      BY <1>1
    <2>2. ended \in {"done", "open"} /\ history[i] \in Message
      BY <1>2
    <2> HIDE DEF ended
    <2>3. QED
      BY <2>1, <2>2 DEF Message
  <1>4. DOMAIN history' = DOMAIN history
    BY <1>1
  <1>5. history' \in Seq(Message)
    <2>1. history' = [i \in 1..Len(history) |-> history'[i]]
      BY <1>1, <1>2
    <2>2. \A i \in 1..Len(history) : history'[i] \in Message
      BY <1>2, <1>3
    <2>3. QED
      BY <1>2, <2>1, <2>2
  <1>6. Answers'
    BY <1>1, <1>3, <1>4, <1>5 DEF Answers
  <1>7. Keeps
    BY <1>1, <1>3, <1>4 DEF Keeps
  <1>8. Questions(history') = Questions(history)
    BY <1>3, <1>4 DEF Questions
  <1>9. QED
    BY <1>1, <1>6, <1>7, <1>8 DEF Asked

\* What held of a message and what crossed stays so.
LEMMA KeptAre ==
  ASSUME Keeps, there'
  PROVE  /\ there
         /\ Crossed => Crossed'
         /\ \A n : HasAsked(n) => HasAsked(n)'
  <1>1. /\ there
        /\ \A i \in DOMAIN history :
             /\ i \in DOMAIN history'
             /\ history'[i].role = history[i].role
             /\ history'[i].turn = history[i].turn
    BY DEF Keeps
  <1>2. ASSUME Crossed PROVE Crossed'
    <2>1. PICK i, j, k \in DOMAIN history :
            /\ i < j /\ j < k
            /\ history[i].role = "user" /\ history[j].role = "user"
            /\ history[k].role = "assistant" /\ history[k].turn = history[i].turn
      BY <1>2 DEF Crossed
    <2>2. /\ i \in DOMAIN history' /\ j \in DOMAIN history' /\ k \in DOMAIN history'
          /\ history'[i].role = "user" /\ history'[j].role = "user"
          /\ history'[k].role = "assistant" /\ history'[k].turn = history'[i].turn
      BY <1>1, <2>1
    <2>3. QED
      BY <2>1, <2>2 DEF Crossed
  <1>3. ASSUME NEW n, HasAsked(n) PROVE HasAsked(n)'
    BY <1>1, <1>3 DEF HasAsked
  <1>4. QED
    BY <1>1, <1>2, <1>3
-----------------------------------------------------------------------------
(* One step of a thread *)

\* A look that leads to an errand of the thread's own and leaves its title alone.
LEMMA LooksOn ==
  ASSUME Hands, NEW t \in Hand, NEW to \in Errand, LookThen(t, to),
         to # "entitle", to = "rename" => t \in Clerk,
         turn' \in [Hand -> Turn \cup {None}], \A u \in Hand \ {t} : turn'[u] = turn[u],
         plain' \in [Hand -> BOOLEAN], auto' \in [Hand -> BOOLEAN], draft' = draft
  PROVE  Goes(t) /\ place'[t] = "look" /\ draft'[t] = draft[t]
  <1>1. draft[t] \in Draft /\ draft' = [draft EXCEPT ![t] = draft[t]]
    BY DEF Hands
  <1>2. QED
    BY <1>1, Looks

LEMMA CallGoes ==
  ASSUME SessionInv, NEW t \in Clerk, Call(t)
  PROVE  /\ Goes(t) /\ place'[t] \notin Titling /\ draft'[t] = draft[t]
         /\ UNCHANGED <<there, name, history>>
  <1>1. PICK to \in {"answered", "rename", "remove", "settings", "question"}, b \in BOOLEAN :
          Open(t, to, b)
    BY DEF Call
  <1>2. /\ LookThen(t, to) /\ plain' = [plain EXCEPT ![t] = b]
        /\ turn' = turn /\ auto' = auto /\ draft' = draft
        /\ UNCHANGED <<there, name, history>>
    BY <1>1 DEF Open
  <1>3. Hands /\ t \in Hand /\ to \in Errand /\ to # "entitle"
    BY DEF SessionInv, Hand, Errand
  <1>4. /\ turn' \in [Hand -> Turn \cup {None}] /\ \A u \in Hand \ {t} : turn'[u] = turn[u]
        /\ plain' \in [Hand -> BOOLEAN] /\ auto' \in [Hand -> BOOLEAN]
    BY <1>2, <1>3 DEF Hands
  <1>5. Goes(t) /\ place'[t] = "look" /\ draft'[t] = draft[t]
    BY <1>2, <1>3, <1>4, LooksOn
  <1>6. QED
    BY <1>2, <1>5

LEMMA LookGoes ==
  ASSUME SessionInv, NEW t \in Hand, Look(t)
  PROVE  /\ Goes(t) /\ UNCHANGED <<there, name, history>>
         /\ place'[t] \in Titling =>
              place'[t] = "messages" /\ shown'[t] = name /\ draft'[t] = draft[t]
         /\ draft'[t] \in {draft[t], NoDraft}
  <1>0. Hands /\ Shows /\ Ready(t) /\ UNCHANGED <<there, name, history>>
    BY DEF SessionInv, Look
  <1>1. CASE Leave(t)
    BY <1>0, <1>1, Leaves
  <1>2. CASE Proceed(t, draft[t])
    <2>1. draft[t] \in Draft /\ (next[t] = "entitle" => draft[t] # NoDraft)
      BY <1>0 DEF Hands, Ready
    <2>2. QED
      BY <1>0, <1>2, <2>1, Proceeds
  <1>3. CASE /\ Move(t, "messages") /\ shown' = [shown EXCEPT ![t] = name]
             /\ UNCHANGED <<next, turn, plain, auto, draft>>
    <2>1. place' \in [Hand -> Place]
      BY <1>0, <1>3 DEF Hands, Place, Move
    <2>2. Hands'
      BY <1>0, <1>3, <2>1 DEF Hands
    <2>3. /\ place'[t] = "messages" /\ draft'[t] = draft[t] /\ next'[t] = next[t]
          /\ \A u \in Hand \ {t} : Same(u)
      BY <1>0, <1>3 DEF Hands, Same, Move
    <2>4. Ready(t)'
      BY <1>0, <2>3 DEF Ready
    <2>5. shown'[t] = name
      BY <1>0, <1>3 DEF Shows
    <2>6. QED
      BY <1>0, <2>2, <2>3, <2>4, <2>5 DEF Goes
  <1>4. QED
    BY <1>1, <1>2, <1>3 DEF Look

LEMMA ReadGoes ==
  ASSUME SessionInv, NEW t \in Hand, ListMessages(t)
  PROVE  Goes(t) /\ UNCHANGED <<there, name, history>>
  <1>0. Hands /\ Answers /\ Ready(t) /\ UNCHANGED <<there, name, history>>
    BY DEF SessionInv, ListMessages
  <1>1. PICK new \in Drafts(t) :
          IF Normalised(t) = shown[t] THEN Proceed(t, new)
          ELSE /\ Move(t, "normalise")
               /\ shown' = [shown EXCEPT ![t] = Normalised(t)]
               /\ draft' = [draft EXCEPT ![t] = new]
               /\ UNCHANGED <<next, turn, plain, auto>>
    BY DEF ListMessages
  <1>2. /\ new \in Draft
        /\ new = draft[t] \/ Fits(new)
        /\ next[t] = "entitle" => new # NoDraft
    BY <1>0, DraftsFit
  <1>3. CASE Normalised(t) = shown[t]
    <2>1. Proceed(t, new)
      BY <1>1, <1>3
    <2>2. QED
      BY <1>0, <1>2, <2>1, Proceeds
  <1>4. CASE Normalised(t) # shown[t]
    <2>1. /\ place' = [place EXCEPT ![t] = "normalise"]
          /\ draft' = [draft EXCEPT ![t] = new]
          /\ next' = next /\ turn' = turn /\ plain' = plain /\ auto' = auto
      BY <1>1, <1>4 DEF Move
    <2>2. place' \in [Hand -> Place] /\ draft' \in [Hand -> Draft]
      BY <1>0, <1>2, <2>1 DEF Hands, Place
    <2>3. Hands'
      BY <1>0, <2>1, <2>2 DEF Hands
    <2>4. /\ place'[t] = "normalise" /\ draft'[t] = new
          /\ \A u \in Hand \ {t} : Same(u)
      BY <1>0, <2>1 DEF Hands, Same
    <2>5. Ready(t)'
      BY <1>0, <1>2, <2>1, <2>4 DEF Ready
    <2>6. QED
      BY <1>0, <1>2, <2>3, <2>4, <2>5 DEF Goes
  <1>5. QED
    BY <1>3, <1>4

LEMMA NormaliseGoes ==
  ASSUME SessionInv, NEW t \in Hand, Normalise(t)
  PROVE  Goes(t) /\ UNCHANGED <<there, history>>
  <1>1. /\ Hands /\ Ready(t) /\ draft[t] \in Draft
        /\ Proceed(t, draft[t]) /\ UNCHANGED <<there, history>>
    BY DEF SessionInv, Hands, Normalise
  <1>2. next[t] = "entitle" => draft[t] # NoDraft
    BY <1>1 DEF Ready
  <1>3. Goes(t)
    BY <1>1, <1>2, Proceeds
  <1>4. QED
    BY <1>1, <1>3

LEMMA RenameGoes ==
  ASSUME SessionInv, NEW t \in Hand, Rename(t)
  PROVE  Goes(t) /\ place'[t] = "free" /\ draft'[t] = NoDraft /\ UNCHANGED <<there, history>>
  <1>1. Hands /\ Leave(t) /\ UNCHANGED <<there, history>>
    BY DEF SessionInv, Rename
  <1>2. QED
    BY <1>1, Leaves

LEMMA DeleteGoes ==
  ASSUME SessionInv, NEW t \in Hand, DeleteRow(t)
  PROVE  Goes(t) /\ ~there' /\ Answers' /\ Keeps
  <1>1. Hands /\ Leave(t) /\ ~there' /\ there' \in BOOLEAN /\ history' = <<>>
    BY DEF SessionInv, DeleteRow
  <1>2. Answers'
    BY <1>1 DEF Answers
  <1>3. Keeps
    BY <1>1 DEF Keeps
  <1>4. QED
    BY <1>1, <1>2, <1>3, Leaves

LEMMA ResolveGoes ==
  ASSUME SessionInv, NEW t \in Hand, ResolveAsk(t)
  PROVE  /\ Goes(t) /\ place'[t] \notin Titling /\ draft'[t] \in {draft[t], NoDraft}
         /\ UNCHANGED <<there, name, history>>
  <1>0. Hands /\ UNCHANGED <<there, name, history>>
    BY DEF SessionInv, ResolveAsk
  <1>1. CASE Leave(t)
    BY <1>0, <1>1, Leaves
  <1>2. ASSUME NEW to \in {"question", "reply", "fail"}, LookThen(t, to),
               turn' = turn, plain' = plain, draft' = draft,
               auto' = auto \/ \E on \in BOOLEAN : auto' = [auto EXCEPT ![t] = on]
        PROVE  Goes(t) /\ place'[t] \notin Titling /\ draft'[t] \in {draft[t], NoDraft}
    <2>1. to \in Errand /\ to # "entitle" /\ to # "rename"
      BY DEF Errand
    <2>2. auto' \in [Hand -> BOOLEAN]
      BY <1>0, <1>2 DEF Hands
    <2>3. /\ turn' \in [Hand -> Turn \cup {None}] /\ \A u \in Hand \ {t} : turn'[u] = turn[u]
          /\ plain' \in [Hand -> BOOLEAN]
      BY <1>0, <1>2 DEF Hands
    <2>4. Goes(t) /\ place'[t] = "look" /\ draft'[t] = draft[t]
      BY <1>0, <1>2, <2>1, <2>2, <2>3, LooksOn
    <2>5. QED
      BY <2>4
  <1>3. \/ Leave(t)
        \/ \E to \in {"question", "reply", "fail"} :
             /\ LookThen(t, to)
             /\ turn' = turn /\ plain' = plain /\ draft' = draft
             /\ auto' = auto \/ \E on \in BOOLEAN : auto' = [auto EXCEPT ![t] = on]
    BY DEF ResolveAsk
  <1>4. QED
    BY <1>0, <1>1, <1>2, <1>3

LEMMA QuestionGoes ==
  ASSUME SessionInv, NEW t \in Hand, BeginExchange(t)
  PROVE  /\ Goes(t) /\ place'[t] \notin Titling /\ draft'[t] \in {draft[t], NoDraft}
         /\ UNCHANGED <<there, name>> /\ Answers' /\ Keeps
         /\ Asked(history') >= Asked(history)
  <1>0. Hands /\ Answers /\ UNCHANGED <<there, name>> /\ there' = there
    BY DEF SessionInv, BeginExchange
  <1>1. CASE Leave(t) /\ UNCHANGED history
    <2>1. Asked(history') >= Asked(history)
      <3>1. Asked(history) \in Nat
        BY <1>0, QuestionsFinite DEF Answers
      <3>2. QED
        BY <1>1, <3>1
    <2>2. Answers' /\ Keeps
      BY <1>0, <1>1, MessagesKept
    <2>3. Goes(t) /\ place'[t] = "free" /\ draft'[t] = NoDraft
      BY <1>0, <1>1, Leaves
    <2>4. QED
      BY <1>0, <2>1, <2>2, <2>3
  <1>2. CASE ~(Leave(t) /\ UNCHANGED history)
    <2> DEFINE n == Asked(history) + 1
               m == [role |-> "user", turn |-> n, status |-> "said"]
    <2>1. /\ there /\ n \in Turn /\ history' = Append(history, m)
          /\ turn' = [turn EXCEPT ![t] = n]
          /\ place' = [place EXCEPT ![t] = "placeholder"]
          /\ next' = next /\ plain' = plain /\ auto' = auto /\ draft' = draft
          /\ place[t] = "question"
      BY <1>2 DEF BeginExchange, Move
    <2>2. m \in Message /\ m.role # "assistant" /\ m.turn = n /\ m.role = "user"
      BY <2>1 DEF Message
    <2> HIDE DEF m, n
    <2>3. Answers' /\ Keeps
      BY <1>0, <2>1, <2>2, MessageAppended
    <2>4. /\ Asked(history') >= Asked(history)
          /\ Len(history) + 1 \in DOMAIN history' /\ history'[Len(history) + 1] = m
      BY <1>0, <2>1, <2>2, QuestionAdded DEF Answers
    <2>5. \E i \in DOMAIN history' : history'[i].role = "user" /\ history'[i].turn = n
      BY <2>2, <2>4
    <2>6. place' \in [Hand -> Place]
      BY <1>0, <2>1 DEF Hands, Place
    <2>7. turn' \in [Hand -> Turn \cup {None}]
      BY <1>0, <2>1 DEF Hands
    <2>8. Hands'
      BY <1>0, <2>1, <2>6, <2>7 DEF Hands
    <2>9. /\ place'[t] = "placeholder" /\ turn'[t] = n /\ draft'[t] = draft[t]
          /\ next'[t] = next[t] /\ \A u \in Hand \ {t} : Same(u)
      BY <1>0, <2>1 DEF Hands, Same
    <2>10. HasAsked(turn[t])'
      BY <2>5, <2>9 DEF HasAsked
    <2>11. Ready(t)
      BY DEF SessionInv
    <2>12. Ready(t)'
      BY <2>1, <2>9, <2>10, <2>11 DEF Ready
    <2>13. Goes(t)
      BY <2>8, <2>9, <2>12 DEF Goes
    <2>14. QED
      BY <1>0, <2>3, <2>4, <2>9, <2>13
  <1>3. QED
    BY <1>1, <1>2
-----------------------------------------------------------------------------
LEMMA PlaceholderGoes ==
  ASSUME SessionInv, NEW t \in Hand, AppendPlaceholder(t)
  PROVE  /\ Goes(t) /\ place'[t] \notin Titling /\ draft'[t] \in {draft[t], NoDraft}
         /\ UNCHANGED <<there, name>> /\ Answers' /\ Keeps
         /\ Asked(history') >= Asked(history)
  <1>0. Hands /\ Answers /\ Ready(t) /\ UNCHANGED <<there, name>> /\ there' = there
    BY DEF SessionInv, AppendPlaceholder
  <1>1. CASE ~there
    <2>0. Leave(t) /\ history' = history
      BY <1>1 DEF AppendPlaceholder
    <2>1. Asked(history') >= Asked(history)
      <3>1. Asked(history) \in Nat
        BY <1>0, QuestionsFinite DEF Answers
      <3>2. QED
        BY <2>0, <3>1
    <2>2. Answers' /\ Keeps
      BY <1>0, <2>0, MessagesKept
    <2>3. Goes(t) /\ place'[t] = "free" /\ draft'[t] = NoDraft
      BY <1>0, <2>0, Leaves
    <2>4. QED
      BY <1>0, <2>1, <2>2, <2>3
  <1>2. CASE there
    <2> DEFINE m == [role |-> "assistant", turn |-> turn[t], status |-> "open"]
    <2>1. /\ place[t] = "placeholder" /\ history' = Append(history, m)
          /\ IF plain[t] THEN \E to \in {"retitle", "reply"} : LookThen(t, to)
                         ELSE Move(t, "settings") /\ UNCHANGED next
          /\ turn' = turn /\ plain' = plain /\ auto' = auto /\ draft' = draft
      BY <1>2 DEF AppendPlaceholder
    <2>2. turn[t] \in Turn /\ HasAsked(turn[t])
      BY <1>0, <1>2, <2>1 DEF Ready
    <2>3. m \in Message /\ HasAsked(m.turn)
      BY <2>2 DEF Message
    <2> HIDE DEF m
    <2>4. Answers' /\ Keeps
      BY <1>0, <2>1, <2>3, MessageAppended
    <2>5. Asked(history') >= Asked(history)
      BY <1>0, <2>1, <2>3, QuestionAdded DEF Answers
    <2>6. /\ turn' \in [Hand -> Turn \cup {None}] /\ \A u \in Hand \ {t} : turn'[u] = turn[u]
          /\ plain' \in [Hand -> BOOLEAN] /\ auto' \in [Hand -> BOOLEAN]
      BY <1>0, <2>1 DEF Hands
    <2>7. CASE plain[t]
      <3>1. PICK to \in {"retitle", "reply"} : LookThen(t, to)
        BY <2>1, <2>7
      <3>2. to \in Errand /\ to # "entitle" /\ to # "rename"
        BY DEF Errand
      <3>3. Goes(t) /\ place'[t] = "look" /\ draft'[t] = draft[t]
        BY <1>0, <2>1, <2>6, <3>1, <3>2, LooksOn
      <3>4. QED
        BY <1>0, <2>4, <2>5, <3>3
    <2>8. CASE ~plain[t]
      <3>1. place' = [place EXCEPT ![t] = "settings"] /\ next' = next
        BY <2>1, <2>8 DEF Move
      <3>2. place' \in [Hand -> Place]
        BY <1>0, <3>1 DEF Hands, Place
      <3>3. Hands'
        BY <1>0, <2>1, <3>1, <3>2 DEF Hands
      <3>4. /\ place'[t] = "settings" /\ draft'[t] = draft[t] /\ next'[t] = next[t]
            /\ \A u \in Hand \ {t} : Same(u)
        BY <1>0, <2>1, <3>1 DEF Hands, Same
      <3>5. Ready(t)'
        BY <1>0, <3>4 DEF Ready
      <3>6. Goes(t)
        BY <3>3, <3>4, <3>5 DEF Goes
      <3>7. QED
        BY <1>0, <2>4, <2>5, <3>4, <3>6
    <2>9. QED
      BY <2>7, <2>8
  <1>3. QED
    BY <1>1, <1>2

LEMMA EntitleGoes ==
  ASSUME SessionInv, NEW t \in Hand, UpdateSessionTitle(t)
  PROVE  /\ Goes(t) /\ UNCHANGED <<there, history>>
         /\ place[t] = "entitle" /\ draft[t] # NoDraft
  <1>1. /\ Hands /\ Ready(t) /\ Titled(t) /\ UNCHANGED <<there, history>>
        /\ place[t] = "entitle"
    BY DEF SessionInv, UpdateSessionTitle
  <1>2. Goes(t)
    BY <1>1, TitleDone
  <1>3. draft[t] # NoDraft
    BY <1>1 DEF Ready
  <1>4. QED
    BY <1>1, <1>2, <1>3

\* The one step that moves another thread: the worker starts a title thread h.
LEMMA StartGoes ==
  ASSUME SessionInv, NEW t \in Hand, StartTitle(t)
  PROVE  /\ \E h \in Titler : Goes(h) /\ place'[h] \notin Titling /\ draft'[h] = draft[h]
         /\ UNCHANGED <<there, name, history>>
  <1>1. PICK h \in Titler : /\ place[h] = "free"
                            /\ place' = [place EXCEPT ![h] = "look"]
                            /\ next' = [next EXCEPT ![h] = "retitle"]
    BY DEF StartTitle
  <1>2. /\ auto' = [auto EXCEPT ![t] = FALSE]
        /\ turn' = turn /\ plain' = plain /\ draft' = draft
        /\ UNCHANGED <<there, name, history>>
    BY DEF StartTitle
  <1>3. Hands /\ h \in Hand
    BY DEF SessionInv, Hand
  <1>4. LookThen(h, "retitle") /\ "retitle" \in Errand
    BY <1>1 DEF LookThen, Move, Errand
  <1>5. "retitle" # "entitle" /\ "retitle" # "rename"
    OBVIOUS
  <1>6. /\ turn' \in [Hand -> Turn \cup {None}] /\ \A u \in Hand \ {h} : turn'[u] = turn[u]
        /\ plain' \in [Hand -> BOOLEAN]
    BY <1>2, <1>3 DEF Hands
  <1>7. auto' \in [Hand -> BOOLEAN]
    BY <1>2, <1>3 DEF Hands
  <1>8. Goes(h) /\ place'[h] = "look" /\ draft'[h] = draft[h]
    BY <1>2, <1>3, <1>4, <1>5, <1>6, <1>7, LooksOn
  <1>9. QED
    BY <1>2, <1>8

LEMMA ReplyGoes ==
  ASSUME SessionInv, NEW t \in Hand, Reply(t)
  PROVE  /\ Goes(t) /\ place'[t] \notin Titling /\ draft'[t] = draft[t]
         /\ UNCHANGED <<there, name, history>>
  <1>1. PICK to \in {"finish", "fail"} : LookThen(t, to)
    BY DEF Reply
  <1>2. /\ auto' = [auto EXCEPT ![t] = FALSE]
        /\ turn' = turn /\ plain' = plain /\ draft' = draft
        /\ UNCHANGED <<there, name, history>>
    BY DEF Reply
  <1>3. Hands /\ to \in Errand /\ to # "entitle" /\ to # "rename"
    BY DEF SessionInv, Errand
  <1>4. /\ turn' \in [Hand -> Turn \cup {None}] /\ \A u \in Hand \ {t} : turn'[u] = turn[u]
        /\ plain' \in [Hand -> BOOLEAN]
    BY <1>2, <1>3 DEF Hands
  <1>5. auto' \in [Hand -> BOOLEAN]
    BY <1>2, <1>3 DEF Hands
  <1>6. Goes(t) /\ place'[t] = "look" /\ draft'[t] = draft[t]
    BY <1>1, <1>2, <1>3, <1>4, <1>5, LooksOn
  <1>7. QED
    BY <1>2, <1>6

LEMMA FinalizeGoes ==
  ASSUME SessionInv, NEW t \in Hand, Finalize(t)
  PROVE  /\ Goes(t) /\ place'[t] \notin Titling /\ draft'[t] \in {draft[t], NoDraft}
         /\ UNCHANGED <<there, name>>
  <1>0. Hands /\ UNCHANGED <<there, name>>
    BY DEF SessionInv, Finalize
  <1>1. CASE plain[t]
    <2>1. Leave(t)
      BY <1>1 DEF Finalize
    <2>2. Goes(t) /\ place'[t] = "free" /\ draft'[t] = NoDraft
      BY <1>0, <2>1, Leaves
    <2>3. QED
      BY <1>0, <2>2
  <1>2. CASE ~plain[t]
    <2>1. /\ LookThen(t, "answered") /\ turn' = [turn EXCEPT ![t] = None]
          /\ plain' = plain /\ auto' = auto /\ draft' = draft
      BY <1>2 DEF Finalize
    <2>2. "answered" \in Errand /\ "answered" # "entitle" /\ "answered" # "rename"
      BY DEF Errand
    <2>3. turn' \in [Hand -> Turn \cup {None}] /\ \A u \in Hand \ {t} : turn'[u] = turn[u]
      BY <1>0, <2>1 DEF Hands
    <2>4. plain' \in [Hand -> BOOLEAN] /\ auto' \in [Hand -> BOOLEAN]
      BY <1>0, <2>1 DEF Hands
    <2>5. Goes(t) /\ place'[t] = "look" /\ draft'[t] = draft[t]
      BY <1>0, <2>1, <2>2, <2>3, <2>4, LooksOn
    <2>6. QED
      BY <1>0, <2>5
  <1>3. QED
    BY <1>1, <1>2

\* A thread reads and stores titles of its own only.
LEMMA ShownElsewhere ==
  ASSUME Shows, NEW t \in Hand, Serving(t)
  PROVE  Shows' /\ \A u \in Hand \ {t} : shown'[u] = shown[u]
  <1>1. ASSUME Leave(t) PROVE \E x : shown' = [shown EXCEPT ![t] = x]
    BY <1>1 DEF Leave
  <1>2. ASSUME NEW new, Proceed(t, new) PROVE \E x : shown' = [shown EXCEPT ![t] = x]
    BY <1>1, <1>2 DEF Proceed, Titled
  <1>3. ASSUME Titled(t) PROVE \E x : shown' = [shown EXCEPT ![t] = x]
    BY <1>1, <1>3 DEF Titled
  <1>4. shown' = shown \/ \E x : shown' = [shown EXCEPT ![t] = x]
    <2>1. CASE Look(t)
      BY <1>1, <1>2, <2>1 DEF Look
    <2>2. CASE ListMessages(t)
      BY <1>2, <2>2 DEF ListMessages
    <2>3. CASE Normalise(t)
      BY <1>2, <2>3 DEF Normalise
    <2>4. CASE Rename(t) \/ DeleteRow(t)
      BY <1>1, <2>4 DEF Rename, DeleteRow
    <2>5. CASE ResolveAsk(t)
      BY <1>1, <2>5 DEF ResolveAsk
    <2>6. CASE BeginExchange(t)
      BY <1>1, <2>6 DEF BeginExchange
    <2>7. CASE AppendPlaceholder(t)
      BY <1>1, <2>7 DEF AppendPlaceholder
    <2>8. CASE UpdateSessionTitle(t)
      BY <1>3, <2>8 DEF UpdateSessionTitle
    <2>9. CASE StartTitle(t) \/ Reply(t)
      BY <2>9 DEF StartTitle, Reply
    <2>10. CASE Finalize(t)
      BY <1>1, <2>10 DEF Finalize
    <2>11. QED
      BY <2>1, <2>2, <2>3, <2>4, <2>5, <2>6, <2>7, <2>8, <2>9, <2>10 DEF Serving
  <1>5. QED
    BY <1>4 DEF Shows

-----------------------------------------------------------------------------
(* ... and what it comes to *)

LEMMA GoesOn ==
  ASSUME SessionInv, NEW t \in Hand, Goes(t), Shows', Answers', Keeps
  PROVE  SessionInv'
  <1>1. ASSUME NEW u \in Hand PROVE Ready(u)'
    <2>1. CASE u = t
      BY <2>1 DEF Goes
    <2>2. CASE u # t
      <3>1. Same(u) /\ Ready(u)
        BY <2>2 DEF Goes, SessionInv
      <3>2. there' => there /\ \A n : HasAsked(n) => HasAsked(n)'
        BY KeptAre
      <3>3. there' /\ HasAsked(turn[u]) => HasAsked(turn[u])'
        <4>1. \A n : there' /\ HasAsked(n) =>
                \E i \in DOMAIN history' : history'[i].role = "user" /\ history'[i].turn = n
          BY <3>2 DEF HasAsked
        <4>2. turn'[u] = turn[u]
          BY <3>1 DEF Same
        <4>3. QED
          BY <4>1, <4>2 DEF HasAsked
      <3>4. QED
        BY <3>1, <3>2, <3>3 DEF Ready, Same
    <2>3. QED
      BY <2>1, <2>2
  <1>2. ASSUME there', NEW u \in Hand
        PROVE  draft'[u].question = draft'[u].answer \/ Crossed'
    <2>1. there /\ (Crossed => Crossed')
      BY <1>2, KeptAre
    <2>2. Fits(draft[u])
      BY <2>1 DEF SessionInv, ExchangesBelong, Fits
    <2>3. draft'[u] = draft[u] \/ Fits(draft'[u])
      BY DEF Goes, Same
    <2>4. QED
      BY <2>1, <2>2, <2>3 DEF Fits
  <1>3. Hands'
    BY DEF Goes
  <1>4. ExchangesBelong'
    BY <1>2 DEF ExchangesBelong
  <1>5. QED
    BY <1>1, <1>3, <1>4 DEF SessionInv
-----------------------------------------------------------------------------
LEMMA SessionsBegin ==
  SessionsInit => SessionInv
  <1> SUFFICES ASSUME SessionsInit PROVE SessionInv
    OBVIOUS
  <1>1. NoDraft \in Draft /\ NoDraft.question = NoDraft.answer
    BY DEF NoDraft, Draft, Title, None
  <1>2. Hands
    BY <1>1 DEF SessionsInit, Hands, Place, Errand
  <1>3. Answers /\ Shows
    <2>1. history = <<>> /\ there \in BOOLEAN
      BY DEF SessionsInit
    <2>2. Shows
      BY DEF SessionsInit, Shows
    <2>3. QED
      BY <2>1, <2>2 DEF Answers
  <1>4. ASSUME NEW t \in Hand
        PROVE  Ready(t) /\ draft[t].question = draft[t].answer
    <2>1. place[t] = "free" /\ next[t] = "free" /\ draft[t] = NoDraft
      BY DEF SessionsInit
    <2>2. QED
      BY <1>1, <2>1 DEF Ready
  <1>5. QED
    BY <1>2, <1>3, <1>4 DEF SessionInv, ExchangesBelong

LEMMA StopKeeps ==
  ASSUME SessionInv, StopSessions
  PROVE  SessionInv'
  <1>1. NoDraft \in Draft /\ NoDraft.question = NoDraft.answer
    BY DEF NoDraft, Draft, Title, None
  <1>2. Hands'
    BY <1>1 DEF StopSessions, Hands, Place, Errand
  <1>3. there' = there /\ history' = history
    BY DEF StopSessions
  <1>4. Answers' /\ Shows'
    <2>1. Shows'
      BY DEF StopSessions, Shows
    <2>2. QED
      BY <1>3, <2>1, MessagesKept DEF SessionInv
  <1>5. ASSUME NEW t \in Hand
        PROVE  Ready(t)' /\ draft'[t].question = draft'[t].answer
    <2>1. place'[t] = "free" /\ next'[t] = "free" /\ draft'[t] = NoDraft
      BY DEF StopSessions
    <2>2. QED
      BY <1>1, <2>1 DEF Ready
  <1>6. QED
    BY <1>2, <1>4, <1>5 DEF SessionInv, ExchangesBelong

LEMMA ServingKeeps ==
  ASSUME SessionInv, NEW t \in Hand, Serving(t)
  PROVE  SessionInv'
  <1>0. Answers /\ Hands /\ Shows'
    BY ShownElsewhere DEF SessionInv
  <1>1. ASSUME NEW h \in Hand, Goes(h), there' = there, history' = history
        PROVE  SessionInv'
    BY <1>0, <1>1, MessagesKept, GoesOn
  <1>2. CASE Look(t)
    BY <1>1, <1>2, LookGoes
  <1>3. CASE ListMessages(t)
    BY <1>1, <1>3, ReadGoes
  <1>4. CASE Normalise(t)
    BY <1>1, <1>4, NormaliseGoes
  <1>5. CASE Rename(t)
    BY <1>1, <1>5, RenameGoes
  <1>6. CASE DeleteRow(t)
    BY <1>0, <1>6, DeleteGoes, GoesOn
  <1>7. CASE ResolveAsk(t)
    BY <1>1, <1>7, ResolveGoes
  <1>8. CASE BeginExchange(t)
    BY <1>0, <1>8, QuestionGoes, GoesOn
  <1>9. CASE AppendPlaceholder(t)
    BY <1>0, <1>9, PlaceholderGoes, GoesOn
  <1>10. CASE UpdateSessionTitle(t)
    BY <1>1, <1>10, EntitleGoes
  <1>11. CASE StartTitle(t)
    <2>1. /\ \E h \in Titler : Goes(h)
          /\ there' = there /\ history' = history
      BY <1>11, StartGoes
    <2>2. PICK h \in Hand : Goes(h)
      BY <2>1 DEF Hand
    <2>3. QED
      BY <1>1, <2>1, <2>2
  <1>12. CASE Reply(t)
    BY <1>1, <1>12, ReplyGoes
  <1>13. CASE Finalize(t)
    BY <1>0, <1>13, StatusWritten, FinalizeGoes, GoesOn
  <1>14. QED
    BY <1>2, <1>3, <1>4, <1>5, <1>6, <1>7, <1>8, <1>9, <1>10, <1>11, <1>12, <1>13 DEF Serving

LEMMA SessionsStep ==
  SessionInv /\ [SessionsNext]_sessionVars => SessionInv'
  <1> SUFFICES ASSUME SessionInv, [SessionsNext]_sessionVars PROVE SessionInv'
    OBVIOUS
  <1>1. ASSUME NEW t \in Clerk, Call(t) PROVE SessionInv'
    <2>1. /\ Goes(t) /\ there' = there /\ history' = history /\ t \in Hand
      BY <1>1, CallGoes DEF Hand
    <2>2. Answers' /\ Keeps
      BY <2>1, MessagesKept DEF SessionInv
    <2>3. Shows'
      BY <1>1 DEF SessionInv, Shows, Call, Open
    <2>4. QED
      BY <2>1, <2>2, <2>3, GoesOn
  <1>2. ASSUME NEW t \in Hand, Serving(t) PROVE SessionInv'
    BY <1>2, ServingKeeps
  <1>3. CASE StopSessions
    BY <1>3, StopKeeps
  <1>4. CASE UNCHANGED sessionVars
    <2>1. /\ place' = place /\ next' = next /\ turn' = turn /\ plain' = plain
          /\ auto' = auto /\ draft' = draft /\ there' = there /\ history' = history
          /\ shown' = shown
      BY <1>4 DEF sessionVars
    <2>2. Hands' /\ Shows' /\ Answers'
      BY <2>1 DEF SessionInv, Hands, Shows, Answers
    <2>3. ASSUME NEW t \in Hand PROVE Ready(t)'
      <3>1. Ready(t)
        BY DEF SessionInv
      <3>2. QED
        BY <2>1, <3>1 DEF Ready, HasAsked
    <2>4. ExchangesBelong'
      BY <2>1 DEF SessionInv, ExchangesBelong, Crossed
    <2>5. QED
      BY <2>2, <2>3, <2>4 DEF SessionInv
  <1>5. QED
    BY <1>1, <1>2, <1>3, <1>4 DEF SessionsNext

\* A title after the second question is made from a question and its own answer,
\* though _collect_valid_title_exchanges only knows them by position, unless another
\* question came between the two.
THEOREM TitlesBelong == SessionsSpec => []ExchangesBelong
  <1>1. SessionInv => ExchangesBelong
    BY DEF SessionInv
  <1>2. QED
    BY <1>1, SessionsBegin, SessionsStep, PTL DEF SessionsSpec

-----------------------------------------------------------------------------
(* A title is settled after the second question *)

\* The step of a settled title.
Stays == \/ ~there'
         \/ Settled' /\ (name' # name => \E t \in Clerk : place[t] = "rename")

\* A thread that moves on without a title leaves a settled title settled.
LEMMA SettledOn ==
  ASSUME SessionInv, Settled, NEW t \in Hand, Goes(t),
         \A u \in Hand \ {t} : shown'[u] = shown[u],
         place'[t] # "normalise", place'[t] = "messages" => ~Temporary(shown'[t]),
         draft'[t] \in {draft[t], NoDraft},
         Asked(history') >= Asked(history), history' \in Seq(Message),
         ~Temporary(name'), name' # name => \E u \in Clerk : place[u] = "rename"
  PROVE  Stays
  <1>1. ASSUME NEW u \in Hand
        PROVE  /\ place'[u] # "normalise" /\ draft'[u] = NoDraft
               /\ place'[u] = "messages" => ~Temporary(shown'[u])
    <2>1. /\ place[u] # "normalise" /\ draft[u] = NoDraft
          /\ place[u] = "messages" => ~Temporary(shown[u])
      BY DEF Settled, Retitling
    <2>2. CASE u = t
      BY <2>1, <2>2
    <2>3. CASE u # t
      BY <2>1, <2>3 DEF Goes, Same
    <2>4. QED
      BY <2>2, <2>3
  <1>2. Asked(history) \in Nat /\ Asked(history') \in Nat
    BY QuestionsFinite DEF SessionInv, Answers
  <1>3. Asked(history') > 2
    BY <1>2 DEF Settled
  <1>4. Settled'
    BY <1>1, <1>3 DEF Settled, Retitling
  <1>5. QED
    BY <1>4 DEF Stays

LEMMA SettledLook ==
  ASSUME SessionInv, Settled, NEW t \in Hand, Look(t)
  PROVE  Stays
  <1>1. /\ Goes(t) /\ name' = name /\ history' = history
        /\ place'[t] \in Titling =>
             place'[t] = "messages" /\ shown'[t] = name
        /\ draft'[t] \in {draft[t], NoDraft}
    BY LookGoes
  <1>2. Asked(history) \in Nat /\ history \in Seq(Message) /\ ~Temporary(name)
    BY QuestionsFinite DEF SessionInv, Answers, Settled
  <1>3. Asked(history') >= Asked(history) /\ history' \in Seq(Message) /\ ~Temporary(name')
    BY <1>1, <1>2
  <1>4. \A u \in Hand \ {t} : shown'[u] = shown[u]
    BY ShownElsewhere DEF SessionInv, Serving
  <1>5. place'[t] # "normalise" /\ (place'[t] = "messages" => ~Temporary(shown'[t]))
    BY <1>1, <1>2
  <1>6. QED
    BY <1>1, <1>3, <1>4, <1>5, SettledOn

\* The messages change nothing of a title that was settled when it was read.
LEMMA SettledRead ==
  ASSUME SessionInv, Settled, NEW t \in Hand, ListMessages(t)
  PROVE  Stays
  <1>0. /\ Hands /\ Answers /\ Ready(t) /\ Goes(t)
        /\ there' = there /\ name' = name /\ history' = history
    BY ReadGoes DEF SessionInv
  <1>1. Normalised(t) = shown[t]
    BY DEF Settled, Retitling, ListMessages, Normalised
  <1>2. PICK new \in Drafts(t) : Proceed(t, new)
    BY <1>1 DEF ListMessages
  <1>3. /\ new \in Draft
        /\ new = draft[t] \/ Fits(new)
        /\ next[t] = "entitle" => new # NoDraft
    BY <1>0, DraftsFit
  <1>4. draft[t] = NoDraft
    BY DEF Settled, Retitling
  <1>5. new = NoDraft
    <2>1. ASSUME NEW model PROVE TitleOnUserTurn(history, model) = NoDraft
      <3>1. Asked(history) > 2 /\ Asked(history) \in Nat
        BY <1>0, QuestionsFinite DEF Settled, Answers
      <3>2. Asked(history) # 1 /\ Asked(history) # 2
        BY <3>1
      <3>3. QED
        BY <3>2 DEF TitleOnUserTurn
    <2>2. QED
      BY <1>2, <1>4, <2>1 DEF Drafts
  <1>6. place'[t] \notin Titling /\ draft'[t] = NoDraft
    BY <1>0, <1>2, <1>3, <1>5, Proceeds
  <1>7. Asked(history') >= Asked(history) /\ history' \in Seq(Message)
    <2>1. Asked(history) \in Nat
      BY <1>0, QuestionsFinite DEF Answers
    <2>2. QED
      BY <1>0, <2>1 DEF Answers
  <1>8. ~Temporary(name')
    BY <1>0 DEF Settled
  <1>9. \A u \in Hand \ {t} : shown'[u] = shown[u]
    BY ShownElsewhere DEF SessionInv, Serving
  <1>10. QED
    BY <1>0, <1>6, <1>7, <1>8, <1>9, SettledOn

LEMMA SettledServing ==
  ASSUME SessionInv, Settled, NEW t \in Hand, Serving(t)
  PROVE  Stays
  <1>0. Answers /\ Hands /\ ~Temporary(name) /\ Asked(history) \in Nat
    BY QuestionsFinite DEF SessionInv, Settled, Answers
  <1>1. \A u \in Hand \ {t} : shown'[u] = shown[u]
    BY ShownElsewhere DEF SessionInv
  <1>2. ASSUME NEW h \in Hand, Goes(h), \A u \in Hand \ {h} : shown'[u] = shown[u],
               place'[h] \notin Titling,
               draft'[h] \in {draft[h], NoDraft}, name' = name, history' = history
        PROVE  Stays
    <2>1. Asked(history') >= Asked(history) /\ history' \in Seq(Message) /\ ~Temporary(name')
      BY <1>0, <1>2 DEF Answers
    <2>2. QED
      BY <1>2, <2>1, SettledOn
  <1>3. CASE Look(t)
    BY <1>3, SettledLook
  <1>4. CASE ListMessages(t)
    BY <1>4, SettledRead
  <1>5. CASE Normalise(t)
    BY <1>5 DEF Normalise, Settled, Retitling
  <1>6. CASE Rename(t)
    <2>1. /\ Goes(t) /\ place'[t] = "free" /\ draft'[t] = NoDraft
          /\ history' = history
      BY <1>6, RenameGoes
    <2>2. place[t] = "rename" /\ t \in Clerk
      BY <1>6 DEF Rename, SessionInv, Ready
    <2>3. ~Temporary(name')
      BY <1>0, <1>6 DEF Rename, StoreTitle, Temporary, Given, Untitled
    <2>4. Asked(history') >= Asked(history) /\ history' \in Seq(Message)
      BY <1>0, <2>1 DEF Answers
    <2>5. QED
      BY <1>1, <2>1, <2>2, <2>3, <2>4, SettledOn
  <1>7. CASE DeleteRow(t)
    BY <1>7, DeleteGoes DEF Stays
  <1>8. CASE ResolveAsk(t)
    BY <1>1, <1>2, <1>8, ResolveGoes
  <1>9. CASE BeginExchange(t)
    <2>1. /\ Goes(t) /\ place'[t] \notin Titling /\ draft'[t] \in {draft[t], NoDraft}
          /\ name' = name /\ Answers' /\ Asked(history') >= Asked(history)
      BY <1>9, QuestionGoes
    <2>2. history' \in Seq(Message) /\ ~Temporary(name')
      BY <1>0, <2>1 DEF Answers
    <2>3. QED
      BY <1>1, <2>1, <2>2, SettledOn
  <1>10. CASE AppendPlaceholder(t)
    <2>1. /\ Goes(t) /\ place'[t] \notin Titling /\ draft'[t] \in {draft[t], NoDraft}
          /\ name' = name /\ Answers' /\ Asked(history') >= Asked(history)
      BY <1>10, PlaceholderGoes
    <2>2. history' \in Seq(Message) /\ ~Temporary(name')
      BY <1>0, <2>1 DEF Answers
    <2>3. QED
      BY <1>1, <2>1, <2>2, SettledOn
  <1>11. CASE UpdateSessionTitle(t)
    BY <1>11, EntitleGoes DEF Settled, Retitling
  <1>12. CASE StartTitle(t)
    <2>1. /\ \E h \in Titler :
               Goes(h) /\ place'[h] \notin Titling /\ draft'[h] = draft[h]
          /\ name' = name /\ history' = history
      BY <1>12, StartGoes
    <2>2. PICK h \in Hand :
            Goes(h) /\ place'[h] \notin Titling /\ draft'[h] = draft[h]
      BY <2>1 DEF Hand
    <2>3. shown' = shown
      BY <1>12 DEF StartTitle
    <2>4. QED
      BY <1>2, <2>1, <2>2, <2>3
  <1>13. CASE Reply(t)
    BY <1>1, <1>2, <1>13, ReplyGoes
  <1>14. CASE Finalize(t)
    <2>1. /\ Goes(t) /\ place'[t] \notin Titling /\ draft'[t] \in {draft[t], NoDraft}
          /\ name' = name
      BY <1>14, FinalizeGoes
    <2>2. Answers' /\ Asked(history') = Asked(history)
      BY <1>0, <1>14, StatusWritten
    <2>3. history' \in Seq(Message) /\ ~Temporary(name') /\ Asked(history') >= Asked(history)
      BY <1>0, <2>1, <2>2 DEF Answers
    <2>4. QED
      BY <1>1, <2>1, <2>3, SettledOn
  <1>15. QED
    BY <1>3, <1>4, <1>5, <1>6, <1>7, <1>8, <1>9, <1>10, <1>11, <1>12, <1>13, <1>14
    DEF Serving

LEMMA SettledStep ==
  ASSUME SessionInv, Settled, SessionsNext
  PROVE  Stays
  <1>1. ASSUME NEW t \in Clerk, Call(t) PROVE Stays
    <2>1. /\ Goes(t) /\ place'[t] \notin Titling /\ draft'[t] = draft[t] /\ t \in Hand
          /\ name' = name /\ history' = history
      BY <1>1, CallGoes DEF Hand
    <2>2. Asked(history) \in Nat /\ history \in Seq(Message) /\ ~Temporary(name)
      BY QuestionsFinite DEF SessionInv, Answers, Settled
    <2>3. Asked(history') >= Asked(history) /\ history' \in Seq(Message) /\ ~Temporary(name')
      BY <2>1, <2>2
    <2>4. \A u \in Hand \ {t} : shown'[u] = shown[u]
      BY <1>1 DEF Call, Open
    <2>5. QED
      BY <2>1, <2>3, <2>4, SettledOn
  <1>2. ASSUME NEW t \in Hand, Serving(t) PROVE Stays
    BY <1>2, SettledServing
  <1>3. CASE StopSessions
    <2>1. name' = name /\ history' = history
      BY <1>3 DEF StopSessions
    <2>2. \A t \in Hand : place'[t] = "free" /\ draft'[t] = NoDraft
      BY <1>3 DEF StopSessions
    <2>3. Settled'
      BY <2>1, <2>2 DEF Settled, Retitling
    <2>4. QED
      BY <2>1, <2>3 DEF Stays
  <1>4. QED
    BY <1>1, <1>2, <1>3 DEF SessionsNext

\* Once three questions are stored and no thread is about to store a title made
\* earlier, no thread takes up a title again and nobody but the user changes it.
THEOREM TitleStays == SessionsSpec => SettledTitleStays
  <1>1. SessionInv /\ [SessionsNext]_sessionVars =>
          [Settled => Stays]_sessionVars
    BY SettledStep
  <1>2. QED
    BY <1>1, SessionsBegin, SessionsStep, PTL DEF SessionsSpec, SettledTitleStays, Stays

HIDE SettingsAssumption DEF Titling

-----------------------------------------------------------------------------
(* The references of the two scripts *)

LEMMA RefIs ==
  ASSUME NEW p, NEW C, NEW rule, NEW r \in Refs(p, C, rule)
  PROVE  /\ r.child \in C /\ r.parent = p /\ r.rule = rule
         /\ r = [child |-> r.child, parent |-> p, rule |-> rule]
  BY DEF Refs

LEMMA RefIn ==
  ASSUME NEW p, NEW C, NEW rule, NEW c \in C
  PROVE  [child |-> c, parent |-> p, rule |-> rule] \in Refs(p, C, rule)
  BY DEF Refs

\* Nothing hangs on the rows of these tables.
LeafTables == {"auth_sessions", "user_settings", "user_provider_profiles", "memory_notes",
           "messages", "file_parse_results", "session_knowledge_items",
           "session_private_samples", "report_sources", "rag_chunks", "rag_test_qa_runs"}

\* What a reference of a new database may be.
FitsScript(r) ==
  /\ r = [child |-> r.child, parent |-> r.parent, rule |-> r.rule]
  /\ r.rule \in {"cascade", "null"} /\ r.child # "users" /\ r.parent \notin LeafTables
  /\ r.parent = "users" /\ r.rule = "cascade" => r.child \in Personal \ {"users"}
  /\ r.parent = "sessions" =>
       /\ r.rule = "cascade"
       /\ r.child \in {"messages", "files", "session_knowledge_items", "session_private_samples",
                       "reports"}
  /\ r.parent = "files" /\ r.rule = "cascade" => r.child = "file_parse_results"
  /\ r.parent = "reports" => r.child = "report_sources"
  /\ r.parent = "rag_knowledge_bases" /\ r.rule = "cascade" =>
       r.child \in {"rag_documents", "rag_chunks", "rag_test_qa_runs"}
  /\ r.parent = "rag_documents" => r.child = "rag_chunks"

LEMMA SqliteRefs == \A r \in Sqlite : FitsScript(r)
  <1>1. \A r \in SqliteSession : FitsScript(r)
    BY RefIs DEF SqliteSession, FitsScript, LeafTables, Personal
  <1>2. \A r \in SqliteKnowledge : FitsScript(r)
    BY RefIs DEF SqliteKnowledge, FitsScript, LeafTables, Personal
  <1>3. \A r \in SqliteWork : FitsScript(r)
    BY RefIs DEF SqliteWork, FitsScript, LeafTables, Personal
  <1>4. \A r \in SqliteCarbon : FitsScript(r)
    BY RefIs DEF SqliteCarbon, FitsScript, LeafTables, Personal
  <1>5. \A r \in SqliteReports : FitsScript(r)
    BY RefIs DEF SqliteReports, FitsScript, LeafTables, Personal
  <1>6. QED
    BY <1>1, <1>2, <1>3, <1>4, <1>5 DEF Sqlite

\* Every reference of the PostgreSQL statements is one of the SQLite script.
LEMMA PostgresIs == Postgres \subseteq Sqlite
  <1>1. PostgresSession \subseteq Sqlite
    BY RefIs, RefIn DEF PostgresSession, Sqlite, SqliteSession, SqliteKnowledge
  <1>2. PostgresKnowledge \subseteq Sqlite
    BY RefIs, RefIn DEF PostgresKnowledge, Sqlite, SqliteKnowledge
  <1>3. PostgresWork \subseteq Sqlite
    BY RefIs, RefIn DEF PostgresWork, Sqlite, SqliteWork
  <1>4. PostgresCarbon \subseteq Sqlite
    BY RefIs, RefIn DEF PostgresCarbon, Sqlite, SqliteCarbon
  <1>5. PostgresInventory \subseteq Sqlite
    BY RefIs, RefIn DEF PostgresInventory, Sqlite, SqliteCarbon, SqliteReports
  <1>6. PostgresPolicy \subseteq Sqlite
    BY RefIs, RefIn DEF PostgresPolicy, Sqlite, SqliteReports
  <1>7. PostgresEval \subseteq Sqlite
    BY RefIs, RefIn DEF PostgresEval, Sqlite, SqliteWork
  <1>8. QED
    BY <1>1, <1>2, <1>3, <1>4, <1>5, <1>6, <1>7 DEF Postgres

\* The references of what hangs on a session, on either backend.
LEMMA SessionRefs ==
  ASSUME NEW b
  PROVE  /\ \A c \in {"messages", "files", "session_knowledge_items", "session_private_samples",
                      "reports"} :
              [child |-> c, parent |-> "sessions", rule |-> "cascade"] \in Script(b)
         /\ [child |-> "file_parse_results", parent |-> "files", rule |-> "cascade"] \in Script(b)
         /\ [child |-> "report_sources", parent |-> "reports", rule |-> "cascade"] \in Script(b)
  <1>1. \A c \in {"messages", "files", "session_knowledge_items", "session_private_samples"} :
           [child |-> c, parent |-> "sessions", rule |-> "cascade"] \in Script(b)
    BY RefIn DEF Script, Sqlite, SqliteSession, Postgres, PostgresSession
  <1>2. /\ [child |-> "reports", parent |-> "sessions", rule |-> "cascade"] \in Script(b)
        /\ [child |-> "report_sources", parent |-> "reports", rule |-> "cascade"] \in Script(b)
    BY RefIn DEF Script, Sqlite, SqliteReports, Postgres, PostgresInventory
  <1>3. [child |-> "file_parse_results", parent |-> "files", rule |-> "cascade"] \in Script(b)
    BY RefIn DEF Script, Sqlite, SqliteSession, Postgres, PostgresSession
  <1>4. QED
    BY <1>1, <1>2, <1>3

\* A loop whose turns stay in a set runs, and stays in it.
Turns(step, N, Acc) == \A i \in 1..N : \A a \in Acc : step[i][a] \in Acc
Runs(f, base, step, N) == f[0] = base /\ \A i \in 1..N : f[i] = step[i][f[i - 1]]

LEMMA LoopRuns ==
  ASSUME NEW N \in Nat, NEW Acc, NEW base \in Acc, NEW step, Turns(step, N, Acc)
  PROVE  \E f \in [0..N -> Acc] : Runs(f, base, step, N)
  <1> DEFINE Loop(f, n) == [i \in 0..n |-> IF i = 0 THEN base ELSE step[i][f[i - 1]]]
             T == {n \in Nat : n <= N /\ ~ \E f \in [0..n -> Acc] : f = Loop(f, n)}
  <1>1. 0 \notin T
    <2> DEFINE f == [i \in 0..0 |-> base]
    <2>1. f \in [0..0 -> Acc] /\ f = Loop(f, 0)
      OBVIOUS
    <2>2. QED
      BY <2>1
  <1>2. ASSUME NEW n \in Nat, n + 1 \in T
        PROVE  n \in T
    <2>. n \in T \/ \E f \in [0..n -> Acc] : f = Loop(f, n)
      <3>1. n <= N
        BY <1>2
      <3> HIDE DEF Loop
      <3>2. QED
        BY <3>1
    <2> SUFFICES ASSUME NEW f \in [0..n -> Acc], f = Loop(f, n) PROVE FALSE
      <3> HIDE DEF Loop, T
      <3>1. QED
        OBVIOUS
    <2>0. n + 1 \in 1..N /\ n \in 0..n
      BY <1>2
    <2> DEFINE g == [i \in 0..(n + 1) |-> IF i <= n THEN f[i] ELSE step[n + 1][f[n]]]
    <2>1. g \in [0..(n + 1) -> Acc]
      <3>1. step[n + 1][f[n]] \in Acc
        BY <2>0 DEF Turns
      <3>2. ASSUME NEW i \in 0..(n + 1), i <= n PROVE f[i] \in Acc
        <4>1. i \in 0..n
          BY <3>2
        <4>2. QED
          BY <4>1
      <3>3. QED
        BY <3>1, <3>2
    <2>2. ASSUME NEW i \in 0..(n + 1)
          PROVE  g[i] = Loop(g, n + 1)[i]
      <3>1. CASE i = 0
        <4>1. 0 \in 0..n /\ f[0] = base
          OBVIOUS
        <4>2. QED
          BY <3>1, <4>1
      <3>2. CASE i # 0 /\ i <= n
        <4>1. i - 1 \in 0..(n + 1) /\ i - 1 <= n /\ i \in 0..n
          BY <3>2
        <4>2. g[i - 1] = f[i - 1] /\ g[i] = f[i]
          BY <3>2, <4>1
        <4>3. f[i] = step[i][f[i - 1]]
          BY <3>2, <4>1
        <4>4. QED
          BY <3>2, <4>2, <4>3
      <3>3. CASE i = n + 1
        <4>1. i # 0 /\ ~(i <= n) /\ i - 1 = n /\ n \in 0..(n + 1) /\ n <= n
          BY <3>3
        <4>2. g[i] = step[n + 1][f[n]] /\ g[n] = f[n]
          BY <4>1
        <4>3. QED
          BY <3>3, <4>1, <4>2
      <3>4. i = 0 \/ (i # 0 /\ i <= n) \/ i = n + 1
        OBVIOUS
      <3> HIDE DEF g, Loop
      <3>5. QED
        BY <3>1, <3>2, <3>3, <3>4
    <2>3. g = Loop(g, n + 1)
      <3>1. DOMAIN g = 0..(n + 1)
        OBVIOUS
      <3>2. g = [i \in 0..(n + 1) |-> g[i]]
        OBVIOUS
      <3> HIDE DEF g
      <3>3. QED
        BY <2>2, <3>1, <3>2
    <2>4. QED
      <3> HIDE DEF g
      <3>1. QED
        BY <1>2, <2>1, <2>3
  <1>3. T = {}
    <2>1. T \subseteq Nat
      OBVIOUS
    <2> HIDE DEF T
    <2>2. QED
      BY <1>1, <1>2, <2>1, NoCounterexample
  <1>4. PICK f \in [0..N -> Acc] : f = Loop(f, N)
    BY <1>3
  <1>5. f[0] = base
    BY <1>4
  <1>6. ASSUME NEW i \in 1..N PROVE f[i] = step[i][f[i - 1]]
    BY <1>4
  <1>7. QED
    BY <1>5, <1>6 DEF Runs

LEMMA LoopStays ==
  ASSUME NEW N \in Nat, NEW Acc, NEW g, g[0] \in Acc,
         \A i \in 1..N : g[i - 1] \in Acc => g[i] \in Acc
  PROVE  \A i \in 0..N : g[i] \in Acc
  <1> DEFINE T == {n \in Nat : n <= N /\ g[n] \notin Acc}
  <1>1. 0 \notin T
    OBVIOUS
  <1>2. ASSUME NEW n \in Nat, n + 1 \in T
        PROVE  n \in T
    <2>1. n + 1 \in 1..N /\ (n + 1) - 1 = n /\ n <= N
      BY <1>2
    <2>2. g[n] \notin Acc
      BY <1>2, <2>1
    <2>3. QED
      BY <2>1, <2>2
  <1>3. T = {}
    <2>1. T \subseteq Nat
      OBVIOUS
    <2> HIDE DEF T
    <2>2. QED
      BY <1>1, <1>2, <2>1, NoCounterexample
  <1>4. QED
    BY <1>3

-----------------------------------------------------------------------------
(* The references a database has *)

\* What a reference may be, of whatever age the database is.
Now(r) ==
  /\ r.rule \in OldRule \cup {"null"} /\ r.child # "users" /\ r.parent \notin LeafTables
  /\ r.rule = "restrict" => r.parent \in {"sessions", "files", "reports"}
  /\ r.parent = "users" /\ r.rule = "none" => <<r.child, "owner_user_id">> \in keyless
  /\ r.parent = "users" /\ r.rule = "cascade" => r.child \in Personal \ {"users"}
  /\ r.parent = "sessions" =>
       /\ r.rule # "null"
       /\ r.child \in {"messages", "files", "session_knowledge_items", "session_private_samples",
                       "reports"}
  /\ r.parent = "files" /\ r.rule # "null" => r.child = "file_parse_results"
  /\ r.parent = "reports" => r.child = "report_sources"
  /\ r.parent = "rag_knowledge_bases" /\ r.rule = "cascade" =>
       r.child \in {"rag_documents", "rag_chunks", "rag_test_qa_runs"}
  /\ r.parent = "rag_documents" => r.child = "rag_chunks"

\* The rule a reference of the script has in this database.
RuleNow(s) ==
  IF s \in MayBeOld THEN old[s]
  ELSE IF s.parent = "users" /\ <<s.child, "owner_user_id">> \in keyless THEN "none" ELSE s.rule

LEMMA ScriptIs == \A s \in Script(backend) : FitsScript(s) /\ s \in Sqlite
  BY SqliteRefs, PostgresIs DEF Script

LEMMA DeclaredFrom ==
  /\ \A r \in Declared : \E s \in Script(backend) :
       r.child = s.child /\ r.parent = s.parent /\ r.rule = RuleNow(s)
  /\ \A s \in Script(backend) : \E r \in Declared :
       r.child = s.child /\ r.parent = s.parent /\ r.rule = RuleNow(s)
  <1>1. Declared = {[s EXCEPT !.rule = RuleNow(s)] : s \in Script(backend)}
    <2> DEFINE Stated(s) == [s EXCEPT !.rule =
                 IF s \in MayBeOld THEN old[s]
                 ELSE IF s.parent = "users" /\ <<s.child, "owner_user_id">> \in keyless
                 THEN "none" ELSE @]
               Ruled(s) == [s EXCEPT !.rule = RuleNow(s)]
    <2>1. ASSUME NEW s \in Script(backend) PROVE Stated(s) = Ruled(s)
      BY DEF RuleNow
    <2>2. Declared = {Stated(s) : s \in Script(backend)}
      BY DEF Declared
    <2>3. {Stated(s) : s \in Script(backend)} = {Ruled(s) : s \in Script(backend)}
      <3> HIDE DEF Stated, Ruled
      <3>1. QED
        BY <2>1
    <2>4. QED
      BY <2>2, <2>3
  <1>2. ASSUME NEW s \in Script(backend), NEW x
        PROVE  LET r == [s EXCEPT !.rule = x]
               IN  r.child = s.child /\ r.parent = s.parent /\ r.rule = x
    <2>1. s = [child |-> s.child, parent |-> s.parent, rule |-> s.rule]
      BY ScriptIs DEF FitsScript
    <2>2. [s EXCEPT !.rule = x] = [child |-> s.child, parent |-> s.parent, rule |-> x]
      BY <2>1
    <2>3. QED
      BY <2>2
  <1>3. ASSUME NEW s \in Script(backend)
        PROVE  \E r \in Declared : r.child = s.child /\ r.parent = s.parent /\ r.rule = RuleNow(s)
    <2>1. [s EXCEPT !.rule = RuleNow(s)] \in Declared
      BY <1>1
    <2>2. QED
      BY <1>2, <2>1
  <1>4. ASSUME NEW r \in Declared
        PROVE  \E s \in Script(backend) :
                 r.child = s.child /\ r.parent = s.parent /\ r.rule = RuleNow(s)
    <2>1. PICK s \in Script(backend) : r = [s EXCEPT !.rule = RuleNow(s)]
      BY <1>1
    <2>2. QED
      BY <1>2, <2>1
  <1>5. QED
    BY <1>3, <1>4

LEMMA DeclaredAre ==
  ASSUME SchemaTypeOK, NEW r \in Declared
  PROVE  Now(r)
  <1>1. PICK s \in Script(backend) : r.child = s.child /\ r.parent = s.parent /\ r.rule = RuleNow(s)
    BY DeclaredFrom
  <1>2. FitsScript(s)
    BY ScriptIs
  <1>3. CASE s \in MayBeOld
    <2>1. r.rule \in OldRule
      BY <1>1, <1>3 DEF RuleNow, SchemaTypeOK
    <2>2. s.rule = "cascade" /\ s.parent \in {"sessions", "files", "reports"}
      BY <1>3, SchemaAssumption
    <2>3. QED
      BY <1>1, <1>2, <2>1, <2>2 DEF Now, FitsScript, OldRule
  <1>4. CASE s \notin MayBeOld /\ s.parent = "users" /\ <<s.child, "owner_user_id">> \in keyless
    BY <1>1, <1>2, <1>4 DEF Now, FitsScript, RuleNow, OldRule
  <1>5. CASE s \notin MayBeOld /\ ~(s.parent = "users" /\ <<s.child, "owner_user_id">> \in keyless)
    <2>1. r.rule = s.rule
      BY <1>1, <1>5 DEF RuleNow
    <2>2. QED
      BY <1>1, <1>2, <2>1 DEF Now, FitsScript, OldRule
  <1>6. QED
    BY <1>3, <1>4, <1>5

-----------------------------------------------------------------------------
(* What falls with a row *)

Cascades(d, r) == r.rule = "cascade" /\ Names(d, r)

\* From t the references lead to K1, from there to K2 and no further.
Chain(d, t, K1, K2) ==
  \A r \in Declared : Cascades(d, r) =>
    /\ r.parent = t => r.child \in K1
    /\ r.parent \in K1 => r.child \in K2
    /\ r.parent \notin K2

LEMMA FallenIs ==
  ASSUME NEW d, NEW t, NEW K1, NEW K2, Chain(d, t, K1, K2)
  PROVE  /\ t \in Fallen(d, t) /\ Fallen(d, t) \subseteq {t} \cup K1 \cup K2
         /\ \A r \in Declared :
              Cascades(d, r) /\ r.parent \in Fallen(d, t) => r.child \in Fallen(d, t)
  <1> DEFINE cascades == {r \in Declared : r.rule = "cascade" /\ Names(d, r)}
             More(S) == S \cup {r.child : r \in {s \in cascades : s.parent \in S}}
             Loop(f) == [n \in 0..5 |-> IF n = 0 THEN {t} ELSE More(f[n - 1])]
             All == {t} \cup {r.child : r \in cascades}
             Acc == SUBSET All
             step == [n \in 1..5 |-> [S \in Acc |-> More(S)]]
             fall == CHOOSE f : f = Loop(f)
  <1>1. Fallen(d, t) = fall[5]
    BY DEF Fallen
  <1>2. \A r \in Declared : Cascades(d, r) <=> r \in cascades
    BY DEF Cascades
  <1>3. \E f : f = Loop(f)
    <2>1. \A S \in Acc : More(S) \in Acc
      OBVIOUS
    <2>2. {t} \in Acc
      OBVIOUS
    <2> HIDE DEF More, Acc
    <2>3. Turns(step, 5, Acc)
      BY <2>1 DEF Turns
    <2>4. \A n \in 1..5 : \A S \in Acc : step[n][S] = More(S)
      OBVIOUS
    <2> HIDE DEF step
    <2>5. PICK f \in [0..5 -> Acc] : Runs(f, {t}, step, 5)
      <3>1. 5 \in Nat
        OBVIOUS
      <3>2. QED
        BY <2>2, <2>3, <3>1, LoopRuns
    <2>6. f[0] = {t} /\ \A n \in 1..5 : f[n] = step[n][f[n - 1]]
      BY <2>5 DEF Runs
    <2>7. \A n \in 1..5 : n - 1 \in 0..5
      OBVIOUS
    <2>8. \A n \in 0..5 : f[n] = IF n = 0 THEN {t} ELSE More(f[n - 1])
      BY <2>4, <2>5, <2>6, <2>7
    <2>9. QED
      BY <2>5, <2>8
  <1>4. fall = Loop(fall)
    BY <1>3
  <1> HIDE DEF fall
  <1>5. fall[0] = {t} /\ \A n \in 1..5 : fall[n] = More(fall[n - 1])
    BY <1>4
  <1>6. /\ fall[1] = More({t}) /\ fall[2] = More(fall[1]) /\ fall[3] = More(fall[2])
        /\ fall[4] = More(fall[3]) /\ fall[5] = More(fall[4])
    BY <1>5
  <1> HIDE DEF Loop
  <1>7. \A r \in cascades : /\ r.parent = t => r.child \in K1
                            /\ r.parent \in K1 => r.child \in K2
                            /\ r.parent \notin K2
    BY <1>2 DEF Chain
  <1>8. fall[1] \subseteq {t} \cup K1
    BY <1>6, <1>7
  <1>9. fall[2] \subseteq {t} \cup K1 \cup K2 /\ t \in fall[2]
    BY <1>6, <1>7, <1>8
  <1>10. \A r \in cascades : r.parent \in fall[2] => r.child \in fall[2]
    <2> SUFFICES ASSUME NEW r \in cascades, r.parent \in fall[2] PROVE r.child \in fall[2]
      OBVIOUS
    <2>1. CASE r.parent \in fall[1]
      BY <1>6, <2>1
    <2>2. CASE r.parent \notin fall[1]
      <3>1. PICK s \in cascades : s.parent \in fall[1] /\ s.child = r.parent
        BY <1>6, <2>2
      <3>2. s.parent # t
        BY <1>6, <2>2, <3>1
      <3>3. s.child \in K2
        BY <1>7, <1>8, <3>1, <3>2
      <3>4. QED
        BY <1>7, <3>1, <3>3
    <2>3. QED
      BY <2>1, <2>2
  <1>11. More(fall[2]) = fall[2]
    BY <1>10
  <1>12. fall[5] = fall[2]
    <2> HIDE DEF More
    <2>1. QED
      BY <1>6, <1>11
  <1>13. QED
    BY <1>1, <1>2, <1>9, <1>10, <1>12

-----------------------------------------------------------------------------
(* Deleting *)

DbType == [rows : SUBSET Table, cleared : SUBSET RefPair, ok : BOOLEAN]

Dangles(d, r) == Names(d, r) /\ r.parent \notin d.rows
Excused(r) ==
  \/ /\ backend = "sqlite"
     /\ r.parent = "users" \/ r.child \in stray
  \/ r.parent = "users" /\ <<r.child, "owner_user_id">> \in keyless

\* Rows in which nothing was refused and only the allowed references dangle; no
\* reference to a session is ever cleared.
Sound(d) ==
  /\ d \in DbType /\ d.ok
  /\ \A x : [child |-> x, parent |-> "sessions"] \notin d.cleared
  /\ \A r \in Declared : Dangles(d, r) /\ (r.rule # "none" \/ r.parent = "users") => Excused(r)

\* No reference to these that is left forbids the deletion.
Unhindered(d, t, K1, K2) ==
  \A r \in Declared : r.rule = "restrict" /\ Names(d, r) => r.parent \notin {t} \cup K1 \cup K2

\* The statement takes the row of t, of the others at most these, and the rest is sound.
Deletes(d, t, K1, K2) ==
  LET e == DeleteStatement(d, t, TRUE)
  IN  /\ Sound(e) /\ t \notin e.rows /\ e.rows \subseteq d.rows
      /\ d.rows \ e.rows \subseteq {t} \cup K1 \cup K2

LEMMA DeleteKeeps ==
  ASSUME SchemaTypeOK, NEW d, Sound(d), NEW t, NEW K1, NEW K2, Chain(d, t, K1, K2),
         Unhindered(d, t, K1, K2)
  PROVE  Deletes(d, t, K1, K2)
  <1> DEFINE e == DeleteStatement(d, t, TRUE)
             F == Fallen(d, t)
             hit == {r \in Declared : Names(d, r) /\ r.parent \in F /\ r.child \notin F}
             gone == {[child |-> r.child, parent |-> r.parent] :
                        r \in {s \in hit : s.rule = "null"}}
  <1>1. /\ t \in F /\ F \subseteq {t} \cup K1 \cup K2
        /\ \A r \in Declared : Cascades(d, r) /\ r.parent \in F => r.child \in F
    BY FallenIs
  <1>2. e = IF t \notin d.rows THEN d
            ELSE IF \E r \in hit : r.rule = "restrict" THEN [d EXCEPT !.ok = FALSE]
            ELSE [d EXCEPT !.rows = @ \ F, !.cleared = @ \cup gone]
    BY DEF DeleteStatement
  <1>3. \A r \in Declared : Now(r)
    BY DeclaredAre
  <1>4. CASE t \notin d.rows
    BY <1>2, <1>4 DEF Deletes
  <1>5. CASE t \in d.rows
    <2>1. ~ \E r \in hit : r.rule = "restrict"
      BY <1>1 DEF Unhindered
    <2>2. d \in DbType /\ d.ok
      BY DEF Sound
    <2> HIDE DEF F, hit, gone
    <2>3. e = [d EXCEPT !.rows = @ \ F, !.cleared = @ \cup gone]
      BY <1>2, <1>5, <2>1
    <2> HIDE DEF e
    <2>4. e.rows = d.rows \ F /\ e.cleared = d.cleared \cup gone /\ e.ok
      BY <2>2, <2>3 DEF DbType
    <2>5. gone \subseteq RefPair
      <3>1. \A r \in hit : r.child \in Table /\ r.parent \in Table
        BY ScriptIs, DeclaredFrom DEF hit, Table
      <3>2. QED
        BY <3>1 DEF gone, RefPair
    <2>6. e \in DbType
      BY <2>2, <2>3, <2>5 DEF DbType
    <2>7. ASSUME NEW x
          PROVE  [child |-> x, parent |-> "sessions"] \notin e.cleared
      <3>1. ASSUME [child |-> x, parent |-> "sessions"] \in gone
            PROVE  FALSE
        <4>1. PICK r \in hit : /\ r.rule = "null"
                               /\ [child |-> x, parent |-> "sessions"] =
                                  [child |-> r.child, parent |-> r.parent]
          BY <3>1 DEF gone
        <4>2. r.parent = "sessions"
          BY <4>1
        <4>3. Now(r)
          BY <1>3 DEF hit
        <4>4. QED
          BY <4>1, <4>2, <4>3 DEF Now
      <3>2. QED
        BY <2>4, <3>1 DEF Sound
    <2>8. ASSUME NEW r \in Declared, Dangles(e, r), r.rule # "none" \/ r.parent = "users"
          PROVE  Excused(r)
      <3>1. /\ Names(d, r) /\ r.child \in e.rows
            /\ [child |-> r.child, parent |-> r.parent] \notin gone
        BY <2>4, <2>8 DEF Dangles, Names
      <3>2. CASE r.parent \notin d.rows
        BY <2>8, <3>1, <3>2 DEF Sound, Dangles
      <3>3. CASE r.parent \in d.rows
        <4>1. r.parent \in F /\ r.child \notin F
          BY <2>4, <2>8, <3>1, <3>3 DEF Dangles
        <4>2. r \in hit
          BY <3>1, <4>1 DEF hit
        <4>3. r.rule # "null"
          BY <3>1, <4>2 DEF gone
        <4>4. r.rule # "cascade"
          BY <1>1, <3>1, <4>1 DEF Cascades
        <4>5. r.rule # "restrict"
          BY <2>1, <4>2
        <4>6. r.rule = "none"
          BY <1>3, <4>3, <4>4, <4>5 DEF Now, OldRule
        <4>7. <<r.child, "owner_user_id">> \in keyless /\ r.parent = "users"
          BY <1>3, <2>8, <4>6 DEF Now
        <4>8. QED
          BY <4>7 DEF Excused
      <3>4. QED
        BY <3>2, <3>3
    <2>9. Sound(e)
      BY <2>4, <2>6, <2>7, <2>8 DEF Sound
    <2>10. QED
      BY <1>1, <2>4, <2>9 DEF e, Deletes
  <1>6. QED
    BY <1>4, <1>5

\* A row on which nothing hangs.
LEMMA LeafDeleted ==
  ASSUME SchemaTypeOK, NEW d, Sound(d), NEW t,
         \A r \in Declared : Names(d, r) /\ r.parent = t => r.rule = "null"
  PROVE  LET e == DeleteStatement(d, t, TRUE) IN Sound(e) /\ e.rows = d.rows \ {t}
  <1> DEFINE e == DeleteStatement(d, t, TRUE)
  <1>1. Chain(d, t, {}, {}) /\ Unhindered(d, t, {}, {})
    BY DEF Chain, Unhindered, Cascades
  <1>2. /\ Sound(e) /\ t \notin e.rows /\ e.rows \subseteq d.rows
        /\ d.rows \ e.rows \subseteq {t} \cup {} \cup {}
    BY <1>1, DeleteKeeps DEF Deletes
  <1>3. QED
    BY <1>2

\* A connection that ignores the keys.
LEMMA DeletedUnkeyed ==
  ASSUME SchemaTypeOK, NEW d, Sound(d), NEW t,
         t \in LeafTables \/ (t = "users" /\ backend = "sqlite")
  PROVE  LET e == DeleteStatement(d, t, FALSE) IN Sound(e) /\ e.rows = d.rows \ {t}
  <1> DEFINE e == DeleteStatement(d, t, FALSE)
  <1>1. e = IF t \notin d.rows THEN d ELSE [d EXCEPT !.rows = @ \ {t}]
    BY DEF DeleteStatement
  <1>2. CASE t \notin d.rows
    BY <1>1, <1>2
  <1>3. CASE t \in d.rows
    <2>1. d \in DbType /\ d.ok
      BY DEF Sound
    <2>2. e = [d EXCEPT !.rows = @ \ {t}]
      BY <1>1, <1>3
    <2> HIDE DEF e
    <2>3. e \in DbType /\ e.rows = d.rows \ {t} /\ e.cleared = d.cleared /\ e.ok
      BY <2>1, <2>2 DEF DbType
    <2>4. ASSUME NEW r \in Declared, Dangles(e, r), r.rule # "none" \/ r.parent = "users"
          PROVE  Excused(r)
      <3>1. Names(d, r)
        BY <2>3, <2>4 DEF Dangles, Names
      <3>2. CASE r.parent = t
        BY <3>2, DeclaredAre DEF Now, Excused
      <3>3. CASE r.parent # t
        BY <2>3, <2>4, <3>1, <3>3 DEF Dangles, Sound
      <3>4. QED
        BY <3>2, <3>3
    <2>5. Sound(e)
      BY <2>3, <2>4 DEF Sound
    <2>6. QED
      BY <2>3, <2>5 DEF e
  <1>4. QED
    BY <1>2, <1>3

\* A transaction, statement by statement.
LEMMA DeleteRuns ==
  ASSUME SchemaTypeOK, NEW tables, Len(tables) \in Nat, NEW keyed \in BOOLEAN
  PROVE  \E after :
           /\ after[0] = db
           /\ \A n \in 1..Len(tables) : after[n] = DeleteStatement(after[n - 1], tables[n], keyed)
           /\ after[Len(tables)].ok => DeleteAll(tables, keyed) = after[Len(tables)]
  <1> DEFINE N == Len(tables)
             Loop(f) == [n \in 0..N |->
                           IF n = 0 THEN db ELSE DeleteStatement(f[n - 1], tables[n], keyed)]
             step == [n \in 1..N |-> [d \in DbType |-> DeleteStatement(d, tables[n], keyed)]]
             after == CHOOSE f : f = Loop(f)
  <1>1. ASSUME NEW d \in DbType, NEW t
        PROVE  DeleteStatement(d, t, keyed) \in DbType
    <2> DEFINE F == Fallen(d, t)
               hit == {r \in Declared : Names(d, r) /\ r.parent \in F /\ r.child \notin F}
               gone == {[child |-> r.child, parent |-> r.parent] :
                        r \in {s \in hit : s.rule = "null"}}
    <2>1. DeleteStatement(d, t, keyed) \in {d, [d EXCEPT !.rows = @ \ {t}], [d EXCEPT !.ok = FALSE],
                                     [d EXCEPT !.rows = @ \ F, !.cleared = @ \cup gone]}
      BY DEF DeleteStatement
    <2>2. gone \subseteq RefPair
      <3>1. \A r \in Declared : r.child \in Table /\ r.parent \in Table
        BY ScriptIs, DeclaredFrom DEF Table
      <3>2. QED
        BY <3>1 DEF RefPair
    <2> HIDE DEF F, gone
    <2>3. QED
      BY <2>1, <2>2 DEF DbType
  <1>2. db \in DbType /\ N \in Nat
    BY DEF SchemaTypeOK, DbType
  <1>3. DeleteAll(tables, keyed) = IF after[N].ok THEN after[N] ELSE [db EXCEPT !.ok = FALSE]
    BY DEF DeleteAll
  <1> HIDE DEF N
  <1>4. Turns(step, N, DbType)
    BY <1>1 DEF Turns
  <1>5. PICK f \in [0..N -> DbType] : Runs(f, db, step, N)
    <2> HIDE DEF step
    <2>1. QED
      BY <1>2, <1>4, LoopRuns
  <1>6. f[0] = db /\ \A n \in 1..N : f[n] = step[n][f[n - 1]]
    BY <1>5 DEF Runs
  <1>7. \A n \in 0..N : n = 0 \/ (n \in 1..N /\ n # 0 /\ n - 1 \in 0..N)
    BY <1>2
  <1>8. \A n \in 0..N : f[n] = IF n = 0 THEN db ELSE DeleteStatement(f[n - 1], tables[n], keyed)
    BY <1>5, <1>6, <1>7
  <1>9. f = Loop(f)
    BY <1>5, <1>8
  <1>10. after = Loop(after)
    BY <1>9
  <1> HIDE DEF after
  <1>11. after[0] = db
    BY <1>2, <1>10
  <1>12. \A n \in 1..N : n \in 0..N /\ n # 0
    BY <1>2
  <1>13. \A n \in 1..N : after[n] = DeleteStatement(after[n - 1], tables[n], keyed)
    BY <1>10, <1>12
  <1>14. QED
    BY <1>3, <1>11, <1>13 DEF N

-----------------------------------------------------------------------------
(* The invariant *)

\* No reference to a session is ever set to NULL: it cascades or is older than that.
SessionsKept == \A x : [child |-> x, parent |-> "sessions"] \notin db.cleared

SchemaInv == SchemaTypeOK /\ SessionIsDeleted /\ OnlyUsersDangle /\ SessionsKept

\* What a step does to the content of an account that it removes.
Outlives ==
  "users" \in db.rows /\ "users" \notin db'.rows => db.rows \ db'.rows \subseteq Personal

LEMMA InvIsSound ==
  SchemaInv <=> /\ SchemaTypeOK /\ Sound(db)
                /\ "sessions" \notin db.rows => OfSession \cap db.rows \subseteq stray
  <1>1. SchemaTypeOK => db \in DbType
    BY DEF SchemaTypeOK, DbType
  <1>2. \A r : Missing(r) <=> Dangles(db, r)
    BY DEF Missing, Dangles
  <1>3. OnlyUsersDangle <=> \A r \in Declared :
           Dangles(db, r) /\ (r.rule # "none" \/ r.parent = "users") => Excused(r)
    BY <1>2 DEF OnlyUsersDangle, Excused
  <1>4. QED
    BY <1>1, <1>3 DEF SchemaInv, SessionIsDeleted, SessionsKept, Sound

LEMMA BundleIn ==
  ASSUME NEW t \in Flight
  PROVE  Bundle(t) \subseteq Table /\ t \in Bundle(t)
  <1>1. t \in Table /\ t \in Bundle(t)
    BY SchemaAssumption DEF Bundle
  <1>2. {"reports", "report_sources"} \subseteq Table
    <2>1. [child |-> "report_sources", parent |-> "reports", rule |-> "cascade"] \in Sqlite
      BY SessionRefs, PostgresIs DEF Script
    <2>2. QED
      BY <2>1 DEF Table
  <1>3. QED
    BY <1>1, <1>2 DEF Bundle

\* No request inserts a session.
LEMMA SessionsNotWritten ==
  /\ "sessions" \in Table
  /\ \A t \in Flight : "sessions" \notin Bundle(t)
  <1>1. /\ [child |-> "messages", parent |-> "sessions", rule |-> "cascade"] \in Sqlite
        /\ [child |-> "files", parent |-> "sessions", rule |-> "cascade"] \in Sqlite
    BY SessionRefs, PostgresIs DEF Script
  <1>2. \A t : {"sessions", "messages"} \subseteq Bundle(t) => FALSE
    BY DEF Bundle
  <1>3. QED
    BY <1>1, <1>2, SchemaAssumption DEF Table

LEMMA SchemaStarts == SchemaInit => SchemaInv
  <1> SUFFICES ASSUME SchemaInit PROVE SchemaInv
    OBVIOUS
  <1> DEFINE unwritten == UNION {Bundle(t) : t \in Flight}
  <1>1. db.rows = Table \ unwritten /\ db.cleared = {} /\ db.ok
    BY DEF SchemaInit
  <1>2. SchemaTypeOK
    <2>1. db \in [rows : SUBSET Table, cleared : SUBSET RefPair, ok : BOOLEAN]
      BY DEF SchemaInit
    <2>2. QED
      BY <2>1 DEF SchemaInit, SchemaTypeOK
  <1>3. "sessions" \in db.rows
    BY <1>1, SessionsNotWritten
  <1>4. ASSUME NEW r \in Declared, Dangles(db, r)
        PROVE  FALSE
    <2>1. PICK s \in Script(backend) : r.child = s.child /\ r.parent = s.parent
      BY DeclaredFrom
    <2>2. s \in Sqlite
      BY ScriptIs
    <2>3. s.parent \in Table /\ s.parent \notin Table \ unwritten /\ s.child \notin unwritten
      BY <1>1, <1>4, <2>1, <2>2 DEF Dangles, Names, Table
    <2>4. PICK t \in Flight : s.parent \in Bundle(t)
      BY <2>3
    <2>5. s.child \in Bundle(t)
      BY <2>2, <2>4, SchemaAssumption
    <2>6. QED
      BY <2>3, <2>5
  <1>5. Sound(db)
    <2>1. db \in DbType
      BY <1>2 DEF SchemaTypeOK, DbType
    <2>2. QED
      BY <1>1, <1>4, <2>1 DEF Sound
  <1>6. QED
    BY <1>2, <1>3, <1>5, InvIsSound

\* A step that leaves sound rows and the session or nothing of it.
LEMMA RowsGo ==
  ASSUME SchemaInv, Sound(db'), db'.rows \subseteq db.rows,
         UNCHANGED <<schema, adopted, flight, stray>>,
         \/ "sessions" \notin db.rows \ db'.rows
         \/ OfSession \cap db'.rows = {}
  PROVE  SchemaInv'
  <1>1. UNCHANGED <<backend, old, lacks, keyless, adopted, flight, stray>>
    BY DEF schema
  <1>2. Declared' = Declared
    BY <1>1 DEF Declared
  <1>3. SchemaTypeOK'
    <2>1. db' \in [rows : SUBSET Table, cleared : SUBSET RefPair, ok : BOOLEAN]
      BY DEF Sound, DbType
    <2>2. QED
      BY <1>1, <2>1 DEF SchemaInv, SchemaTypeOK
  <1>4. SessionsKept' /\ db'.ok
    BY DEF Sound, SessionsKept
  <1>5. ("sessions" \notin db.rows => OfSession \cap db.rows \subseteq stray)
    BY DEF SchemaInv, SessionIsDeleted
  <1>6. SessionIsDeleted'
    BY <1>1, <1>4, <1>5 DEF SessionIsDeleted
  <1>7. OnlyUsersDangle'
    <2>1. \A r : Missing(r)' <=> Dangles(db', r)
      BY <1>1 DEF Missing, Dangles, Names
    <2>2. \A r \in Declared :
            Dangles(db', r) /\ (r.rule # "none" \/ r.parent = "users") => Excused(r)
      BY DEF Sound
    <2>3. QED
      BY <1>1, <1>2, <2>1, <2>2 DEF OnlyUsersDangle, Excused
  <1>8. QED
    BY <1>3, <1>4, <1>6, <1>7 DEF SchemaInv

-----------------------------------------------------------------------------
(* The transactions *)

\* One statement.
LEMMA DeletesOne ==
  ASSUME SchemaTypeOK, NEW t, NEW keyed \in BOOLEAN, DeleteStatement(db, t, keyed).ok
  PROVE  DeleteAll(<<t>>, keyed) = DeleteStatement(db, t, keyed)
  <1>1. Len(<<t>>) = 1 /\ <<t>>[1] = t /\ 1 \in 1..1 /\ 1 - 1 = 0
    OBVIOUS
  <1>2. PICK after : /\ after[0] = db
                     /\ \A n \in 1..1 : after[n] = DeleteStatement(after[n - 1], <<t>>[n], keyed)
                     /\ after[1].ok => DeleteAll(<<t>>, keyed) = after[1]
    BY <1>1, DeleteRuns
  <1>3. after[1] = DeleteStatement(db, t, keyed)
    BY <1>1, <1>2
  <1>4. QED
    BY <1>2, <1>3

\* Two statements.
LEMMA DeletesTwo ==
  ASSUME SchemaTypeOK, NEW s, NEW t, NEW keyed \in BOOLEAN,
         DeleteStatement(DeleteStatement(db, s, keyed), t, keyed).ok
  PROVE  DeleteAll(<<s, t>>, keyed) = DeleteStatement(DeleteStatement(db, s, keyed), t, keyed)
  <1>1. /\ Len(<<s, t>>) = 2 /\ <<s, t>>[1] = s /\ <<s, t>>[2] = t
        /\ 1 \in 1..2 /\ 2 \in 1..2 /\ 1 - 1 = 0 /\ 2 - 1 = 1
    OBVIOUS
  <1>2. PICK after : /\ after[0] = db
                     /\ \A n \in 1..2 : after[n] = DeleteStatement(after[n - 1], <<s, t>>[n], keyed)
                     /\ after[2].ok => DeleteAll(<<s, t>>, keyed) = after[2]
    BY <1>1, DeleteRuns
  <1>3. after[1] = DeleteStatement(db, s, keyed)
    BY <1>1, <1>2
  <1>4. after[2] = DeleteStatement(after[1], t, keyed)
    BY <1>1, <1>2
  <1>5. QED
    BY <1>2, <1>3, <1>4

\* A row of LeafTables, whether the keys are enforced or not.
LEMMA LeafGoes ==
  ASSUME SchemaTypeOK, NEW d, Sound(d), NEW t \in LeafTables, NEW keyed \in BOOLEAN
  PROVE  LET e == DeleteStatement(d, t, keyed) IN Sound(e) /\ e.rows = d.rows \ {t}
  <1>1. \A r \in Declared : r.parent # t
    BY DeclaredAre DEF Now
  <1>2. CASE keyed = TRUE
    BY <1>1, <1>2, LeafDeleted
  <1>3. CASE keyed = FALSE
    BY <1>3, DeletedUnkeyed
  <1>4. QED
    BY <1>2, <1>3

LEMMA UserDeleted == SchemaInv /\ DeleteUser => SchemaInv' /\ Outlives
  <1> SUFFICES ASSUME SchemaInv, DeleteUser PROVE SchemaInv' /\ Outlives
    OBVIOUS
  <1> DEFINE keyed == (backend = "postgresql")
             d == DeleteStatement(db, "auth_sessions", keyed)
             e == DeleteStatement(d, "users", keyed)
  <1>1. SchemaTypeOK /\ Sound(db) /\ keyed \in BOOLEAN
    BY InvIsSound
  <1>2. Sound(d) /\ d.rows = db.rows \ {"auth_sessions"}
    BY <1>1, LeafGoes DEF LeafTables
  <1> HIDE DEF d
  <1>3. Sound(e) /\ e.rows \subseteq d.rows /\ d.rows \ e.rows \subseteq Personal
    <2>1. CASE keyed
      <3> DEFINE K == Personal \ {"users"}
      <3>1. \A r \in Declared : Now(r)
        BY <1>1, DeclaredAre
      <3>2. K \subseteq LeafTables
        BY DEF Personal, LeafTables
      <3>3. Chain(d, "users", K, {})
        BY <3>1, <3>2 DEF Chain, Now, Cascades
      <3>4. Unhindered(d, "users", K, {})
        BY <3>1 DEF Unhindered, Now, Personal
      <3>5. keyed = TRUE
        BY <2>1
      <3>6. {"users"} \cup K \cup {} = Personal
        BY DEF Personal
      <3> HIDE DEF K, keyed
      <3>7. Deletes(d, "users", K, {})
        BY <1>1, <1>2, <3>3, <3>4, DeleteKeeps
      <3>8. QED
        BY <3>5, <3>6, <3>7 DEF Deletes
    <2>2. CASE ~keyed
      <3>1. backend = "sqlite" /\ keyed = FALSE
        BY <1>1, <2>2 DEF SchemaTypeOK
      <3> HIDE DEF keyed
      <3>2. LET x == DeleteStatement(d, "users", FALSE) IN Sound(x) /\ x.rows = d.rows \ {"users"}
        BY <1>1, <1>2, <3>1, DeletedUnkeyed
      <3>3. QED
        BY <3>1, <3>2 DEF Personal
    <2>3. QED
      BY <2>1, <2>2
  <1>4. db' = e
    <2>1. e.ok
      BY <1>3 DEF Sound
    <2>2. DeleteAll(<<"auth_sessions", "users">>, keyed) = e
      <3> HIDE DEF keyed
      <3>1. QED
        BY <1>1, <2>1, DeletesTwo DEF d
    <2>3. QED
      BY <2>2 DEF DeleteUser
  <1> HIDE DEF e, keyed
  <1>5. db'.rows \subseteq db.rows /\ db.rows \ db'.rows \subseteq Personal
    BY <1>2, <1>3, <1>4 DEF Personal
  <1>6. "sessions" \notin db.rows \ db'.rows
    BY <1>5 DEF Personal
  <1>7. UNCHANGED <<schema, adopted, flight, stray>>
    BY DEF DeleteUser
  <1>8. SchemaInv'
    BY <1>3, <1>4, <1>5, <1>6, <1>7, RowsGo
  <1>9. QED
    BY <1>5, <1>8 DEF Outlives

\* Whatever one sound statement that leaves sessions and users alone deletes.
LEMMA OneDeleted ==
  ASSUME SchemaInv, NEW t, NEW keyed \in BOOLEAN, db' = DeleteAll(<<t>>, keyed),
         Sound(DeleteStatement(db, t, keyed)),
         DeleteStatement(db, t, keyed).rows \subseteq db.rows,
         {"sessions", "users"} \cap (db.rows \ DeleteStatement(db, t, keyed).rows) = {},
         UNCHANGED <<schema, adopted, flight, stray>>
  PROVE  SchemaInv' /\ Outlives
  <1>1. SchemaTypeOK
    BY InvIsSound
  <1>2. DeleteStatement(db, t, keyed).ok
    BY DEF Sound
  <1>3. db' = DeleteStatement(db, t, keyed)
    BY <1>1, <1>2, DeletesOne
  <1>4. SchemaInv'
    <2>1. Sound(db') /\ db'.rows \subseteq db.rows /\ "sessions" \notin db.rows \ db'.rows
      BY <1>3
    <2>2. QED
      BY <2>1, RowsGo
  <1>5. QED
    BY <1>3, <1>4 DEF Outlives

LEMMA LeafActions == SchemaInv /\ (DeleteNote \/ DeleteProfile) => SchemaInv' /\ Outlives
  <1>1. ASSUME SchemaInv, NEW t \in {"memory_notes", "user_provider_profiles"},
               NEW keyed \in BOOLEAN, db' = DeleteAll(<<t>>, keyed),
               UNCHANGED <<schema, adopted, flight, stray>>
        PROVE  SchemaInv' /\ Outlives
    <2>1. SchemaTypeOK /\ Sound(db) /\ t \in LeafTables
      BY <1>1, InvIsSound DEF LeafTables
    <2>2. Sound(DeleteStatement(db, t, keyed)) /\ DeleteStatement(db, t, keyed).rows = db.rows \ {t}
      BY <2>1, LeafGoes
    <2>3. {"sessions", "users"} \cap (db.rows \ DeleteStatement(db, t, keyed).rows) = {}
      BY <2>2
    <2>4. QED
      BY <1>1, <2>2, <2>3, OneDeleted
  <1>2. CASE SchemaInv /\ DeleteNote
    BY <1>1, <1>2 DEF DeleteNote
  <1>3. CASE SchemaInv /\ DeleteProfile
    <2>1. (backend = "postgresql") \in BOOLEAN
      OBVIOUS
    <2>2. QED
      BY <1>1, <1>3, <2>1 DEF DeleteProfile
  <1>4. QED
    BY <1>2, <1>3

LEMMA KbDeleted == SchemaInv /\ DeleteKb => SchemaInv' /\ Outlives
  <1> SUFFICES ASSUME SchemaInv, DeleteKb PROVE SchemaInv' /\ Outlives
    OBVIOUS
  <1> DEFINE K1 == {"rag_documents", "rag_chunks", "rag_test_qa_runs"}
             K2 == {"rag_chunks"}
             t == "rag_knowledge_bases"
             e == DeleteStatement(db, t, TRUE)
  <1>1. SchemaTypeOK /\ Sound(db)
    BY InvIsSound
  <1>2. \A r \in Declared : Now(r)
    BY <1>1, DeclaredAre
  <1>3. Chain(db, t, K1, K2)
    BY <1>2 DEF Chain, Cascades, Now, LeafTables
  <1>4. Unhindered(db, t, K1, K2)
    BY <1>2 DEF Unhindered, Now
  <1>5. Sound(e) /\ e.rows \subseteq db.rows /\ db.rows \ e.rows \subseteq {t} \cup K1 \cup K2
    <2> HIDE DEF K1, K2, t
    <2>1. Deletes(db, t, K1, K2)
      BY <1>1, <1>3, <1>4, DeleteKeeps
    <2>2. QED
      BY <2>1 DEF Deletes
  <1>6. {"sessions", "users"} \cap (db.rows \ e.rows) = {}
    BY <1>5
  <1>7. db' = DeleteAll(<<t>>, TRUE) /\ UNCHANGED <<schema, adopted, flight, stray>>
    BY DEF DeleteKb
  <1>8. QED
    <2> HIDE DEF t
    <2>1. QED
      BY <1>5, <1>6, <1>7, OneDeleted

LEMMA SessionDeletes == SchemaInv /\ DeleteSession => SchemaInv' /\ Outlives
  <1> SUFFICES ASSUME SchemaInv, DeleteSession PROVE SchemaInv' /\ Outlives
    OBVIOUS
  <1> DEFINE list == <<"report_sources", "reports", "file_parse_results",
                       "session_knowledge_items", "session_private_samples",
                       "messages", "files", "sessions">>
             Without(d, S) == Sound(d) /\ d.rows = db.rows \ S
  <1>1. SchemaTypeOK /\ Sound(db)
    BY InvIsSound
  <1>2. \A r \in Declared : Now(r)
    BY <1>1, DeclaredAre
  <1>3. /\ Len(list) = 8 /\ list[1] = "report_sources" /\ list[2] = "reports"
        /\ list[3] = "file_parse_results" /\ list[4] = "session_knowledge_items"
        /\ list[5] = "session_private_samples" /\ list[6] = "messages"
        /\ list[7] = "files" /\ list[8] = "sessions"
    OBVIOUS
  <1>4. db' = DeleteAll(list, TRUE) /\ UNCHANGED <<schema, adopted, flight, stray>>
    BY DEF DeleteSession
  <1> HIDE DEF list
  <1>5. PICK after : /\ after[0] = db
                     /\ \A n \in 1..8 : after[n] = DeleteStatement(after[n - 1], list[n], TRUE)
                     /\ after[8].ok => DeleteAll(list, TRUE) = after[8]
    <2>1. Len(list) \in Nat
      BY <1>3
    <2>2. \E after :
            /\ after[0] = db
            /\ \A n \in 1..Len(list) : after[n] = DeleteStatement(after[n - 1], list[n], TRUE)
            /\ after[Len(list)].ok => DeleteAll(list, TRUE) = after[Len(list)]
      BY <1>1, <2>1, DeleteRuns
    <2>3. QED
      BY <1>3, <2>2
  <1>6. ASSUME NEW n \in 1..8, NEW m \in 0..7, n = m + 1
        PROVE  after[n] = DeleteStatement(after[m], list[n], TRUE)
    <2>1. n - 1 = m
      BY <1>6
    <2>2. after[n] = DeleteStatement(after[n - 1], list[n], TRUE)
      BY <1>5
    <2>3. QED
      BY <2>1, <2>2
  <1>7. ASSUME NEW d, NEW S, Without(d, S), NEW t,
               \A r \in Declared : r.parent = t /\ r.rule # "null" => r.child \in S
        PROVE  Without(DeleteStatement(d, t, TRUE), S \cup {t})
    <2>1. \A r \in Declared : Names(d, r) /\ r.parent = t => r.rule = "null"
      BY <1>7 DEF Names
    <2>2. Sound(DeleteStatement(d, t, TRUE)) /\ DeleteStatement(d, t, TRUE).rows = d.rows \ {t}
      BY <1>1, <1>7, <2>1, LeafDeleted
    <2>3. QED
      BY <1>7, <2>2
  <1>8. ASSUME NEW d, NEW S, Without(d, S), NEW t \in LeafTables
        PROVE  Without(DeleteStatement(d, t, TRUE), S \cup {t})
    <2>1. \A r \in Declared : r.parent # t
      BY <1>2 DEF Now
    <2>2. QED
      BY <1>7, <1>8, <2>1
  <1>9. Without(after[0], {})
    BY <1>1, <1>5
  <1>10. Without(after[1], {"report_sources"})
    <2>1. after[1] = DeleteStatement(after[0], "report_sources", TRUE)
      <3>1. 1 \in 1..8 /\ 0 \in 0..7 /\ 1 = 0 + 1
        OBVIOUS
      <3>2. after[1] = DeleteStatement(after[0], list[1], TRUE)
        BY <1>6, <3>1
      <3>3. QED
        BY <1>3, <3>2
    <2> HIDE DEF Without
    <2>2. Without(DeleteStatement(after[0], "report_sources", TRUE), {} \cup {"report_sources"})
      BY <1>8, <1>9 DEF LeafTables
    <2>3. QED
      BY <2>1, <2>2
  <1> DEFINE S2 == {"report_sources", "reports"}
             S3 == S2 \cup {"file_parse_results"}
             S4 == S3 \cup {"session_knowledge_items"}
             S5 == S4 \cup {"session_private_samples"}
             S6 == S5 \cup {"messages"}
             S7 == S6 \cup {"files"}
             S8 == S7 \cup {"sessions"}
  <1>11. Without(after[2], S2)
    <2>1. after[2] = DeleteStatement(after[1], "reports", TRUE)
      <3>1. 2 \in 1..8 /\ 1 \in 0..7 /\ 2 = 1 + 1
        OBVIOUS
      <3>2. after[2] = DeleteStatement(after[1], list[2], TRUE)
        BY <1>6, <3>1
      <3>3. QED
        BY <1>3, <3>2
    <2>2. \A r \in Declared :
            r.parent = "reports" /\ r.rule # "null" => r.child \in {"report_sources"}
      BY <1>2 DEF Now
    <2> HIDE DEF Without
    <2>3. Without(DeleteStatement(after[1], "reports", TRUE), {"report_sources"} \cup {"reports"})
      BY <1>7, <1>10, <2>2
    <2>4. S2 = {"report_sources"} \cup {"reports"}
      OBVIOUS
    <2>5. QED
      BY <2>1, <2>3, <2>4
  <1>12. ASSUME NEW n \in 1..8, NEW m \in 0..7, n = m + 1, NEW S, Without(after[m], S),
                list[n] \in LeafTables
         PROVE  Without(after[n], S \cup {list[n]})
    <2>1. after[n] = DeleteStatement(after[m], list[n], TRUE)
      BY <1>6, <1>12
    <2> HIDE DEF Without
    <2>2. Without(DeleteStatement(after[m], list[n], TRUE), S \cup {list[n]})
      BY <1>8, <1>12
    <2>3. QED
      BY <2>1, <2>2
  <1>13. {list[3], list[4], list[5], list[6]} \subseteq LeafTables
    BY <1>3 DEF LeafTables
  <1>14. Without(after[3], S3)
    <2> HIDE DEF Without, S2
    <2>1. QED
      BY <1>3, <1>11, <1>12, <1>13
  <1>15. Without(after[4], S4)
    <2> HIDE DEF Without, S3
    <2>1. QED
      BY <1>3, <1>14, <1>12, <1>13
  <1>16. Without(after[5], S5)
    <2> HIDE DEF Without, S4
    <2>1. QED
      BY <1>3, <1>15, <1>12, <1>13
  <1>17. Without(after[6], S6)
    <2> HIDE DEF Without, S5
    <2>1. QED
      BY <1>3, <1>16, <1>12, <1>13
  <1>18. Without(after[7], S7)
    <2>1. after[7] = DeleteStatement(after[6], "files", TRUE)
      <3>1. 7 \in 1..8 /\ 6 \in 0..7 /\ 7 = 6 + 1
        OBVIOUS
      <3>2. after[7] = DeleteStatement(after[6], list[7], TRUE)
        BY <1>6, <3>1
      <3>3. QED
        BY <1>3, <3>2
    <2>2. \A r \in Declared : r.parent = "files" /\ r.rule # "null" => r.child \in S6
      BY <1>2 DEF Now
    <2>3. S7 = S6 \cup {"files"}
      OBVIOUS
    <2> HIDE DEF Without, S6, S7
    <2>4. Without(DeleteStatement(after[6], "files", TRUE), S6 \cup {"files"})
      BY <1>7, <1>17, <2>2
    <2>5. QED
      BY <2>1, <2>3, <2>4
  <1>19. Without(after[8], S8)
    <2>1. after[8] = DeleteStatement(after[7], "sessions", TRUE)
      <3>1. 8 \in 1..8 /\ 7 \in 0..7 /\ 8 = 7 + 1
        OBVIOUS
      <3>2. after[8] = DeleteStatement(after[7], list[8], TRUE)
        BY <1>6, <3>1
      <3>3. QED
        BY <1>3, <3>2
    <2>2. \A r \in Declared : r.parent = "sessions" /\ r.rule # "null" => r.child \in S7
      BY <1>2 DEF Now
    <2>3. S8 = S7 \cup {"sessions"}
      OBVIOUS
    <2> HIDE DEF Without, S7, S8
    <2>4. Without(DeleteStatement(after[7], "sessions", TRUE), S7 \cup {"sessions"})
      BY <1>7, <1>18, <2>2
    <2>5. QED
      BY <2>1, <2>3, <2>4
  <1>20. db' = after[8]
    BY <1>4, <1>5, <1>19 DEF Sound
  <1>21. Sound(db') /\ db'.rows = db.rows \ S8
    BY <1>19, <1>20
  <1>22. OfSession \cap db'.rows = {} /\ "users" \notin S8
    BY <1>21 DEF OfSession
  <1>23. SchemaInv'
    <2> HIDE DEF S8
    <2>1. QED
      BY <1>4, <1>21, <1>22, RowsGo
  <1>24. QED
    BY <1>21, <1>22, <1>23 DEF Outlives

-----------------------------------------------------------------------------
(* The starts and the requests *)

LEMMA BackfillKeeps == SchemaInv /\ Backfill => SchemaInv' /\ Outlives
  <1> SUFFICES ASSUME SchemaInv, Backfill PROVE SchemaInv' /\ Outlives
    OBVIOUS
  <1> DEFINE found == {t \in Backfilled \cap db.rows :
                         [child |-> t, parent |-> "users"] \in db.cleared}
             given == {[child |-> t, parent |-> "users"] : t \in found}
  <1>1. /\ UNCHANGED <<backend, old, lacks, keyless, flight, stray>>
        /\ adopted' = adopted \cup found
        /\ db' = [db EXCEPT !.cleared = @ \ given]
    BY DEF Backfill, schema
  <1>2. /\ SchemaTypeOK /\ Sound(db)
        /\ "sessions" \notin db.rows => OfSession \cap db.rows \subseteq stray
    BY InvIsSound
  <1>3. /\ db'.rows = db.rows /\ db'.cleared = db.cleared \ given /\ db'.ok
        /\ db' \in [rows : SUBSET Table, cleared : SUBSET RefPair, ok : BOOLEAN]
    <2>1. db \in [rows : SUBSET Table, cleared : SUBSET RefPair, ok : BOOLEAN] /\ db.ok
      BY <1>2 DEF SchemaTypeOK, Sound
    <2> HIDE DEF given
    <2>2. QED
      BY <1>1, <2>1
  <1>4. SchemaTypeOK'
    <2>1. found \subseteq Backfilled
      OBVIOUS
    <2> HIDE DEF found, given
    <2>2. QED
      BY <1>1, <1>2, <1>3, <2>1 DEF SchemaTypeOK
  <1>5. SessionIsDeleted' /\ SessionsKept'
    BY <1>1, <1>2, <1>3 DEF SessionIsDeleted, SessionsKept, Sound
  <1>6. Declared' = Declared
    BY <1>1 DEF Declared
  <1>7. ASSUME NEW r \in Declared, Missing(r)'
        PROVE  Missing(r)
    <2>1. /\ r.child \in db.rows /\ r.parent \notin db.rows
          /\ [child |-> r.child, parent |-> r.parent] \notin db.cleared \ given
          /\ ~(r.parent = "users" /\ r.child \in adopted \cup found)
      BY <1>1, <1>3, <1>7 DEF Missing, Names
    <2>2. [child |-> r.child, parent |-> r.parent] \notin given
      BY <2>1
    <2>3. QED
      BY <2>1, <2>2 DEF Missing, Names
  <1>8. OnlyUsersDangle'
    BY <1>1, <1>6, <1>7 DEF SchemaInv, OnlyUsersDangle
  <1>9. QED
    BY <1>3, <1>4, <1>5, <1>8 DEF SchemaInv, Outlives

\* DeclaredFrom of the next state.
LEMMA DeclaredFromNext ==
  (\A r \in Declared : \E s \in Script(backend) :
     r.child = s.child /\ r.parent = s.parent /\ r.rule = RuleNow(s))'
  <1>1. \A r \in Declared : \E s \in Script(backend) :
          r.child = s.child /\ r.parent = s.parent /\ r.rule = RuleNow(s)
    BY DeclaredFrom
  <1>2. QED
    BY <1>1, PTL

LEMMA UpgradeKeeps == SchemaInv /\ Upgrade => SchemaInv' /\ Outlives
  <1> SUFFICES ASSUME SchemaInv, Upgrade PROVE SchemaInv' /\ Outlives
    OBVIOUS
  <1> DEFINE added == lacks \cap Upgrades(backend)
             found == {t \in db.rows : <<t, "owner_user_id">> \in added}
             nulled == {[child |-> t, parent |-> "users"] : t \in found}
  <1>1. /\ SchemaTypeOK /\ Sound(db)
        /\ "sessions" \notin db.rows => OfSession \cap db.rows \subseteq stray
    BY InvIsSound
  <1>2. lacks \ added = {}
    <2>1. lacks \subseteq LaterColumns
      BY <1>1, SchemaAssumption DEF SchemaTypeOK
    <2>2. LaterColumns \subseteq Upgrades(backend)
      BY DEF LaterColumns, Upgrades, SqliteUpgrades, PostgresUpgrades
    <2>3. QED
      BY <2>1, <2>2
  <1>3. /\ UNCHANGED <<backend, old, adopted, flight, stray>>
        /\ lacks' = {} /\ keyless' = keyless \cup added
        /\ db' = [db EXCEPT !.cleared = @ \cup nulled]
    BY <1>2 DEF Upgrade
  <1>4. nulled \subseteq RefPair
    <2>1. "users" \in Table
      <3>1. [child |-> "auth_sessions", parent |-> "users", rule |-> "cascade"] \in Sqlite
        BY RefIn DEF Sqlite, SqliteSession
      <3>2. QED
        BY <3>1 DEF Table
    <2>2. db.rows \subseteq Table
      BY <1>1 DEF SchemaTypeOK
    <2>3. \A t \in found : t \in Table
      BY <2>2
    <2> HIDE DEF found
    <2>4. QED
      BY <2>1, <2>3 DEF RefPair
  <1>5. /\ db'.rows = db.rows /\ db'.cleared = db.cleared \cup nulled /\ db'.ok
        /\ db' \in [rows : SUBSET Table, cleared : SUBSET RefPair, ok : BOOLEAN]
    <2>1. db \in [rows : SUBSET Table, cleared : SUBSET RefPair, ok : BOOLEAN] /\ db.ok
      BY <1>1 DEF SchemaTypeOK, Sound
    <2> HIDE DEF nulled
    <2>2. QED
      BY <1>3, <1>4, <2>1
  <1>6. SchemaTypeOK'
    <2>1. added \subseteq MayLack
      BY <1>1 DEF SchemaTypeOK
    <2> HIDE DEF added, nulled
    <2>2. QED
      BY <1>1, <1>3, <1>5, <2>1 DEF SchemaTypeOK
  <1>7. SessionIsDeleted' /\ SessionsKept'
    BY <1>1, <1>3, <1>5 DEF SessionIsDeleted, SessionsKept, Sound
  <1>8. ASSUME NEW r \in Declared', Missing(r)', r.rule # "none" \/ r.parent = "users"
        PROVE  Excused(r)'
    <2>1. PICK s \in Script(backend)' :
            r.child = s.child /\ r.parent = s.parent /\ r.rule = RuleNow(s)'
      BY DeclaredFromNext
    <2>2. s \in Script(backend)
      BY <1>3, <2>1 DEF Script
    <2>3. PICK q \in Declared : q.child = s.child /\ q.parent = s.parent /\ q.rule = RuleNow(s)
      BY <2>2, DeclaredFrom
    <2>4. Dangles(db, q)
      BY <1>3, <1>5, <1>8, <2>1, <2>3 DEF Missing, Names, Dangles
    <2>5. q.rule # "none" \/ q.parent = "users"
      BY <1>3, <1>8, <2>1, <2>3 DEF RuleNow
    <2>6. Excused(q)
      BY <1>1, <2>4, <2>5 DEF Sound
    <2>7. QED
      BY <1>3, <2>1, <2>3, <2>6 DEF Excused
  <1>9. OnlyUsersDangle'
    BY <1>8 DEF OnlyUsersDangle, Excused
  <1>10. QED
    BY <1>5, <1>6, <1>7, <1>9 DEF SchemaInv, Outlives

LEMMA WriteKeeps ==
  ASSUME SchemaInv, NEW t \in Flight, Write(t)
  PROVE  SchemaInv' /\ Outlives
  <1> DEFINE B == Bundle(t)
             new == [db EXCEPT !.rows = @ \cup B]
             lost == {r \in Declared : r.child \in B /\ Names(new, r) /\ r.parent \notin new.rows}
  <1>1. /\ SchemaTypeOK /\ Sound(db)
        /\ "sessions" \notin db.rows => OfSession \cap db.rows \subseteq stray
    BY InvIsSound
  <1>2. /\ UNCHANGED <<backend, old, lacks, keyless, adopted>>
        /\ flight' = flight \ {t}
        /\ IF Enforced(t) /\ \E r \in lost : r.rule # "none"
           THEN UNCHANGED <<db, stray>>
           ELSE /\ db' = new
                /\ stray' = IF \E r \in lost : r.parent = "sessions" THEN stray \cup B ELSE stray
    BY DEF Write, schema
  <1>3. Declared' = Declared
    BY <1>2 DEF Declared
  <1>4. B \subseteq Table
    BY BundleIn
  <1>5. CASE UNCHANGED <<db, stray>>
    <2>1. SchemaTypeOK'
      BY <1>1, <1>2, <1>5 DEF SchemaTypeOK
    <2>2. SessionIsDeleted' /\ SessionsKept'
      BY <1>2, <1>5 DEF SchemaInv, SessionIsDeleted, SessionsKept
    <2>3. OnlyUsersDangle'
      BY <1>2, <1>3, <1>5 DEF SchemaInv, OnlyUsersDangle, Missing, Names
    <2>4. QED
      BY <1>5, <2>1, <2>2, <2>3 DEF SchemaInv, Outlives
  <1>6. CASE /\ Enforced(t) => \A r \in lost : r.rule = "none"
             /\ db' = new
             /\ stray' = IF \E r \in lost : r.parent = "sessions" THEN stray \cup B ELSE stray
    <2>1. /\ db'.rows = db.rows \cup B /\ db'.cleared = db.cleared /\ db'.ok
          /\ db' \in [rows : SUBSET Table, cleared : SUBSET RefPair, ok : BOOLEAN]
      <3>1. db \in [rows : SUBSET Table, cleared : SUBSET RefPair, ok : BOOLEAN] /\ db.ok
        BY <1>1 DEF SchemaTypeOK, Sound
      <3>2. db' = [db EXCEPT !.rows = @ \cup B]
        BY <1>6
      <3> HIDE DEF B, new, lost
      <3>3. QED
        BY <1>4, <3>1, <3>2
    <2>2. \A r \in Declared :
            r.child \in B /\ Names(db', r) /\ r.parent \notin db'.rows => r \in lost
      BY <1>6
    <2>3. stray \subseteq stray' /\ stray' \subseteq stray \cup B
      BY <1>6
    <2>4. (\E r \in lost : r.parent = "sessions") => B \subseteq stray'
      BY <1>6
    <2>5. Enforced(t) => \A r \in lost : r.rule = "none"
      BY <1>6
    <2>6. \A r \in Declared : r.child \in B => r.parent \in {"users", "sessions"} \cup B
      <3> SUFFICES ASSUME NEW r \in Declared, r.child \in B
                   PROVE  r.parent \in {"users", "sessions"} \cup B
        OBVIOUS
      <3>1. PICK s \in Script(backend) : r.child = s.child /\ r.parent = s.parent
        BY DeclaredFrom
      <3>2. s \in Sqlite
        BY ScriptIs
      <3>3. QED
        BY <3>1, <3>2, SchemaAssumption
    <2> HIDE DEF new, lost
    <2>7. SchemaTypeOK'
      BY <1>1, <1>2, <1>4, <2>1, <2>3 DEF SchemaTypeOK
    <2>8. SessionsKept'
      BY <2>1 DEF SchemaInv, SessionsKept
    <2>9. OnlyUsersDangle'
      <3> SUFFICES ASSUME NEW r \in Declared, Missing(r)', r.rule # "none" \/ r.parent = "users"
                   PROVE  Excused(r)'
        BY <1>3 DEF OnlyUsersDangle, Excused
      <3>1. r.child \in db.rows \cup B /\ r.parent \notin db.rows \cup B /\ Names(db', r)
        BY <1>2, <2>1 DEF Missing, Names
      <3>2. CASE r.child \in db.rows
        <4>1. Dangles(db, r)
          BY <2>1, <3>1, <3>2 DEF Dangles, Names
        <4>2. Excused(r)
          BY <1>1, <4>1 DEF Sound
        <4>3. QED
          BY <1>2, <2>3, <4>2 DEF Excused
      <3>3. CASE r.child \in B
        <4>1. r \in lost /\ r.parent \in {"users", "sessions"}
          BY <2>1, <2>2, <2>6, <3>1, <3>3
        <4>2. CASE Enforced(t)
          <5>1. r.rule = "none" /\ Now(r)
            BY <1>1, <2>5, <4>1, <4>2, DeclaredAre
          <5>2. QED
            BY <1>2, <5>1 DEF Now, Excused
        <4>3. CASE ~Enforced(t)
          <5>1. backend = "sqlite"
            BY <1>1, <4>3 DEF Enforced, SchemaTypeOK
          <5>2. r.parent = "sessions" => r.child \in stray'
            BY <2>4, <3>3, <4>1
          <5>3. QED
            BY <1>2, <4>1, <5>1, <5>2 DEF Excused
        <4>4. QED
          BY <4>2, <4>3
      <3>4. QED
        BY <3>1, <3>2, <3>3
    <2>10. SessionIsDeleted'
      <3> SUFFICES ASSUME "sessions" \notin db.rows, NEW c \in OfSession \cap B
                   PROVE  c \in stray'
        BY <1>1, <2>1, <2>3 DEF SessionIsDeleted
      <3>1. PICK p \in {"sessions", "files", "reports"} :
              [child |-> c, parent |-> p, rule |-> "cascade"] \in Script(backend)
        BY SessionRefs DEF OfSession
      <3>2. p # "files"
        <4>1. [child |-> "file_parse_results", parent |-> "files", rule |-> "cascade"] \in Sqlite
          BY SessionRefs, PostgresIs DEF Script
        <4>2. p = "files" => [child |-> c, parent |-> "files", rule |-> "cascade"] \in Sqlite
          BY <3>1, ScriptIs
        <4>3. p = "files" => "files" \in B
          BY <4>2, SchemaAssumption
        <4>4. "files" \in B => "file_parse_results" \in B
          BY <4>1, SchemaAssumption
        <4>5. ~({"files", "file_parse_results"} \subseteq B)
          BY DEF Bundle
        <4>6. QED
          BY <4>3, <4>4, <4>5
      <3>3. \E x \in B :
              [child |-> x, parent |-> "sessions", rule |-> "cascade"] \in Script(backend)
        <4>1. CASE p = "sessions"
          BY <3>1, <4>1
        <4>2. CASE p = "reports"
          <5>1. [child |-> c, parent |-> "reports", rule |-> "cascade"] \in Sqlite
            BY <3>1, <4>2, ScriptIs
          <5>2. "reports" \in B
            BY <5>1, SchemaAssumption
          <5>3. QED
            BY <5>2, SessionRefs
        <4>3. QED
          BY <3>2, <4>1, <4>2
      <3>4. PICK x \in B :
              [child |-> x, parent |-> "sessions", rule |-> "cascade"] \in Script(backend)
        BY <3>3
      <3>5. PICK r \in Declared : r.child = x /\ r.parent = "sessions"
        BY <3>4, DeclaredFrom
      <3>6. "sessions" \notin db'.rows
        BY <2>1, SessionsNotWritten
      <3>7. Names(db', r)
        BY <1>1, <2>1, <3>4, <3>5 DEF Names, Sound
      <3>8. r \in lost
        BY <2>2, <3>4, <3>5, <3>6, <3>7
      <3>9. QED
        BY <2>4, <3>5, <3>8
    <2>11. QED
      BY <2>1, <2>7, <2>8, <2>9, <2>10 DEF SchemaInv, Outlives
  <1>7. QED
    BY <1>2, <1>5, <1>6

LEMMA SchemaSteps ==
  ASSUME SchemaInv, [SchemaNext]_schemaVars
  PROVE  SchemaInv' /\ Outlives
  <1>1. CASE Upgrade
    BY <1>1, UpgradeKeeps
  <1>2. CASE SchemaRequest
    <2>1. CASE DeleteUser
      BY <2>1, UserDeleted
    <2>2. CASE DeleteSession
      BY <2>2, SessionDeletes
    <2>3. CASE DeleteKb
      BY <2>3, KbDeleted
    <2>4. CASE DeleteNote \/ DeleteProfile
      BY <2>4, LeafActions
    <2>5. CASE Backfill
      BY <2>5, BackfillKeeps
    <2>6. CASE \E t \in Flight : Write(t)
      BY <2>6, WriteKeeps
    <2>7. QED
      BY <1>2, <2>1, <2>2, <2>3, <2>4, <2>5, <2>6 DEF SchemaRequest
  <1>3. CASE UNCHANGED schemaVars
    <2>1. UNCHANGED <<backend, old, lacks, keyless, db, adopted, flight, stray>>
      BY <1>3 DEF schemaVars, schema
    <2>2. SchemaTypeOK' /\ SessionIsDeleted' /\ SessionsKept'
      BY <2>1 DEF SchemaInv, SchemaTypeOK, SessionIsDeleted, SessionsKept
    <2>3. OnlyUsersDangle'
      BY <2>1 DEF SchemaInv, OnlyUsersDangle, Declared, Missing, Names
    <2>4. QED
      BY <2>1, <2>2, <2>3 DEF SchemaInv, Outlives
  <1>4. QED
    BY <1>1, <1>2, <1>3 DEF SchemaNext

LEMMA SchemaInvHolds == SchemaSpec => []SchemaInv
  <1>1. SchemaInv /\ [SchemaNext]_schemaVars => SchemaInv'
    BY SchemaSteps
  <1>2. QED
    BY SchemaStarts, <1>1, PTL DEF SchemaSpec

\* The rows, the cleared references and the columns of a database stay what they are, through
\* every start, deletion and write of a request.
THEOREM SchemaTyped == SchemaSpec => []SchemaTypeOK
  <1>1. SchemaInv => SchemaTypeOK
    BY DEF SchemaInv
  <1>2. QED
    BY SchemaInvHolds, <1>1, PTL

\* No statement of an upgrade or a deletion is ever refused, whatever references an old database
\* has without CASCADE and whatever later columns it lacks, and nothing of a deleted session
\* stays but what a connection without keys wrote afterwards (session_store's delete_session).
THEOREM SessionLeavesNothing == SchemaSpec => []SessionIsDeleted
  <1>1. SchemaInv => SessionIsDeleted
    BY DEF SchemaInv
  <1>2. QED
    BY SchemaInvHolds, <1>1, PTL

\* A row names a row that is gone only where a connection did not enforce the keys, or as the
\* owner in a column that an upgrade added without its foreign key.
THEOREM DanglingIsExcused == SchemaSpec => []OnlyUsersDangle
  <1>1. SchemaInv => OnlyUsersDangle
    BY DEF SchemaInv
  <1>2. QED
    BY SchemaInvHolds, <1>1, PTL

\* Deleting an account takes nothing with it but what is the user's alone (users, auth_sessions,
\* user_settings, user_provider_profiles, memory_notes): content is set free of its owner.
THEOREM ContentOutlives == SchemaSpec => ContentOutlivesAccount
  <1>1. SchemaInv /\ [SchemaNext]_schemaVars =>
          ["users" \in db.rows /\ "users" \notin db'.rows
             => db.rows \ db'.rows \subseteq Personal]_schemaVars
    BY SchemaSteps DEF Outlives
  <1>2. QED
    BY SchemaInvHolds, <1>1, PTL DEF SchemaSpec, ContentOutlivesAccount
=============================================================================
