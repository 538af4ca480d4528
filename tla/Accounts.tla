------------------------------- MODULE Accounts ------------------------------
(***************************************************************************)
(* Accounts and their sign-in sessions (AuthService).  Requests run in     *)
(* threads of their own, and every step is one transaction: a method that  *)
(* reads a row, checks it and writes later writes to what is there then.   *)
(* A password stands for its hash; the display name is the only other      *)
(* column that is unique, and a new account displays its username.         *)
(***************************************************************************)
EXTENDS Naturals, FiniteSets

CONSTANTS
  UserId,      \* user ids, none of them given out twice
  Name,        \* usernames and display names
  Password,
  Token,       \* tokens of sign-in sessions, none of them given out twice
  Thread,
  Seed,        \* the user id of the first seed admin
  Nobody,      \* no user id, and no display name
  MaxWrites,   \* bound: accounts made and changed after the start
  MaxCrashes   \* bound

SeedName     == "admin"    \* SEED_ADMIN_USERNAME
SeedPassword == "123456"   \* SEED_ADMIN_PASSWORD

ASSUME AccountsAssumption ==
  /\ SeedName \in Name /\ SeedPassword \in Password /\ Seed \in UserId
  /\ Nobody \notin UserId \cup Name
  /\ MaxWrites \in Nat /\ MaxCrashes \in Nat

Role == {"user", "admin"}
At   == {"idle", "insert", "restore", "session", "authed", "change", "relogin",
         "delete_own", "look", "delete", "show"}

VARIABLES
  keys,      \* the database enforces its foreign keys (PostgreSQL)
  user,      \* users, by user_id
  sess,      \* auth_sessions, by token; pw is the password the login checked
  op,        \* the request each thread is in
  up,        \* the process runs
  writes, crashes,
  late,      \* history: tokens of logins whose account had changed before the INSERT
  promoted   \* history: accounts made admin while a deletion was deciding on them

vars == <<keys, user, sess, op, up, writes, crashes, late, promoted>>

Row == [at : {"new", "here", "gone"}, name : Name, shown : Name \cup {Nobody}, pw : Password,
        role : Role, active : BOOLEAN, must : BOOLEAN]  \* password_must_change
Session == [at : {"new", "open", "closed"}, user : UserId \cup {Nobody}, pw : Password]
Op == [at : At, me : UserId \cup {Nobody},
       admin : BOOLEAN,                  \* an administrator's request, or account
       name : Name \cup {Nobody}, pw : Password, who : SUBSET UserId, todo : SUBSET UserId]

Fresh(n, p, r) ==
  [at |-> "here", name |-> n, shown |-> n, pw |-> p, role |-> r, active |-> TRUE,
   must |-> r = "admin"]
NoRow == [Fresh(SeedName, SeedPassword, "user") EXCEPT !.at = "new"]
NoSession == [at |-> "new", user |-> Nobody, pw |-> SeedPassword]
NoOp == [at |-> "idle", me |-> Nobody, admin |-> FALSE, name |-> SeedName,
         pw |-> SeedPassword, who |-> {}, todo |-> {}]

Here(u) == u \in UserId /\ user[u].at = "here"

Init ==
  /\ keys \in BOOLEAN
  /\ user = [u \in UserId |-> IF u = Seed THEN Fresh(SeedName, SeedPassword, "admin")
                                          ELSE NoRow]
  /\ sess = [t \in Token |-> NoSession]
  /\ op = [w \in Thread |-> NoOp]
  /\ up = TRUE /\ writes = 0 /\ crashes = 0
  /\ late = {} /\ promoted = {}

-----------------------------------------------------------------------------

\* The rows of a username, and whether one could be inserted with it.
Named(n) == {u \in UserId : Here(u) /\ user[u].name = n}
Free(n)  == \A u \in UserId : Here(u) => user[u].name # n /\ user[u].shown # n

Idle(w)   == up /\ op[w].at = "idle"
Done(w)   == op' = [op EXCEPT ![w] = NoOp]
To(w, at) == op' = [op EXCEPT ![w].at = at]
Close(S)  == [t \in Token |-> IF sess[t].at = "open" /\ sess[t].user \in S
                              THEN [sess[t] EXCEPT !.at = "closed"] ELSE sess[t]]
Wrote     == writes < MaxWrites /\ writes' = writes + 1

\* INSERT INTO users: refused when the username or the display name is taken.
Insert(n, p, r) ==
  IF Free(n)
  THEN \E u \in UserId : user[u].at = "new" /\ user' = [user EXCEPT ![u] = Fresh(n, p, r)]
  ELSE UNCHANGED user

\* register and recover_seed_admin look the username up.
RegisterRead(w, n, p) ==
  /\ Idle(w)
  /\ IF n = SeedName
     THEN /\ p = SeedPassword
          /\ IF Named(n) = {}
             THEN op' = [op EXCEPT ![w] = [NoOp EXCEPT !.at = "insert", !.admin = TRUE]]
             ELSE \E u \in Named(n) :
                    op' = [op EXCEPT ![w] = [NoOp EXCEPT !.at = "restore", !.me = u]]
     ELSE /\ Named(n) = {}
          /\ op' = [op EXCEPT ![w] = [NoOp EXCEPT !.at = "insert", !.name = n, !.pw = p]]
  /\ UNCHANGED <<keys, user, sess, up, writes, crashes, late, promoted>>

RegisterInsert(w) ==
  /\ op[w].at = "insert" /\ Wrote
  /\ Insert(op[w].name, op[w].pw, IF op[w].admin THEN "admin" ELSE "user")
  /\ Done(w)
  /\ UNCHANGED <<keys, sess, up, crashes, late, promoted>>

\* Deciding on a set of accounts: a batch deletion has begun and not ended.
Deciding(u) == \E w \in Thread : op[w].at \in {"look", "delete"} /\ u \in op[w].who
Promote(u)  == IF Deciding(u) THEN promoted \cup {u} ELSE promoted

RestoreAdmin(w) ==
  LET u == op[w].me
  IN /\ op[w].at = "restore" /\ Wrote
     /\ IF Here(u)
        THEN user' = [user EXCEPT ![u].pw = SeedPassword, ![u].role = "admin",
                                  ![u].active = TRUE, ![u].must = TRUE]
        ELSE UNCHANGED user
     /\ sess' = Close({u})
     /\ promoted' = Promote(u)
     /\ Done(w)
     /\ UNCHANGED <<keys, up, crashes, late>>

-----------------------------------------------------------------------------
(* Sessions *)

Verified(n, p) == {u \in Named(n) : user[u].pw = p /\ user[u].active}

\* Mutant of LoginRead: the account found is not kept.
LoginReadForgets(w, n, p) ==
  /\ Idle(w) /\ Verified(n, p) # {}
  /\ op' = [op EXCEPT ![w] = [NoOp EXCEPT !.at = "session", !.pw = p]]
  /\ UNCHANGED <<keys, user, sess, up, writes, crashes, late, promoted>>

LoginRead(w, n, p) ==
  /\ Idle(w)
  /\ \E u \in Verified(n, p) :
       op' = [op EXCEPT ![w] = [NoOp EXCEPT !.at = "session", !.me = u, !.pw = p]]
  /\ UNCHANGED <<keys, user, sess, up, writes, crashes, late, promoted>>

\* The session is stored in a later transaction than the one that read the row.
LoginInsert(w) ==
  LET u == op[w].me
      p == op[w].pw
      current == Here(u) /\ user[u].active /\ user[u].pw = p
  IN /\ op[w].at = "session"
     /\ IF keys /\ ~Here(u)
        THEN UNCHANGED <<sess, late>>
        ELSE \E t \in Token :
               /\ sess[t].at = "new"
               /\ sess' = [sess EXCEPT ![t] = [at |-> "open", user |-> u, pw |-> p]]
               /\ late' = IF current THEN late ELSE late \cup {t}
     /\ Done(w)
     /\ UNCHANGED <<keys, user, up, writes, crashes, promoted>>

Expire(t) ==
  /\ sess[t].at = "open"
  /\ sess' = [sess EXCEPT ![t].at = "closed"]
  /\ UNCHANGED <<keys, user, op, up, writes, crashes, late, promoted>>

\* get_user_from_token joins the session with its account.
Authenticate(w, t) ==
  LET u == sess[t].user
  IN /\ Idle(w) /\ sess[t].at = "open" /\ Here(u)
     /\ op' = [op EXCEPT ![w] = [NoOp EXCEPT !.at = "authed", !.me = u,
                            !.admin = user[u].role = "admin" /\ ~user[u].must]]
     /\ UNCHANGED <<keys, user, sess, up, writes, crashes, late, promoted>>

Logout(w, t) ==
  /\ op[w].at = "authed" /\ sess[t].at = "open" /\ sess[t].user = op[w].me
  /\ sess' = [sess EXCEPT ![t].at = "closed"]
  /\ Done(w)
  /\ UNCHANGED <<keys, user, up, writes, crashes, late, promoted>>

\* _verify_user_password, on a row read after the token.
Check(w, p, at) ==
  /\ op[w].at = "authed" /\ Here(op[w].me) /\ user[op[w].me].pw = p
  /\ To(w, at)
  /\ UNCHANGED <<keys, user, sess, up, writes, crashes, late, promoted>>

ChangeRead(w, p) == Check(w, p, "change")

\* Mutant of ChangeWrite: the sessions of the account stay.
ChangeWriteKeepsSessions(w, p) ==
  LET u == op[w].me
  IN /\ op[w].at = "change" /\ Wrote
     /\ IF Here(u) THEN /\ user' = [user EXCEPT ![u].pw = p, ![u].must = FALSE]
                        /\ op' = [op EXCEPT ![w].at = "relogin", ![w].pw = p,
                                            ![w].name = user[u].name]
                   ELSE Done(w) /\ UNCHANGED user
     /\ UNCHANGED <<keys, sess, up, crashes, late, promoted>>

ChangeWrite(w, p) ==
  LET u == op[w].me
  IN /\ op[w].at = "change" /\ Wrote
     /\ IF Here(u) THEN /\ user' = [user EXCEPT ![u].pw = p, ![u].must = FALSE]
                        /\ op' = [op EXCEPT ![w].at = "relogin", ![w].pw = p,
                                            ![w].name = user[u].name]
                   ELSE Done(w) /\ UNCHANGED user
     /\ sess' = Close({u})
     /\ UNCHANGED <<keys, up, crashes, late, promoted>>

\* The endpoint signs in again with the new password.
Relogin(w) ==
  LET found == Verified(op[w].name, op[w].pw)
  IN /\ op[w].at = "relogin"
     /\ IF found = {} THEN Done(w)
        ELSE \E u \in found : op' = [op EXCEPT ![w].at = "session", ![w].me = u]
     /\ UNCHANGED <<keys, user, sess, up, writes, crashes, late, promoted>>

-----------------------------------------------------------------------------
(* Deleting, changing and renaming accounts *)

Delete(S) ==
  /\ user' = [u \in UserId |-> IF u \in S /\ Here(u) THEN [user[u] EXCEPT !.at = "gone"]
                               ELSE user[u]]
  /\ sess' = Close(S)

DeleteOwnRead(w, p) == Check(w, p, "delete_own")

DeleteOwn(w) ==
  /\ op[w].at = "delete_own" /\ Wrote
  /\ Delete({op[w].me})
  /\ Done(w)
  /\ UNCHANGED <<keys, up, crashes, late, promoted>>

\* delete_non_admin_users: the administrator's password, then the targets.
BatchRead(w, S, p) ==
  /\ op[w].at = "authed" /\ op[w].admin
  /\ Here(op[w].me) /\ user[op[w].me].pw = p
  /\ S # {} /\ op[w].me \notin S
  /\ op' = [op EXCEPT ![w].at = "look", ![w].who = S, ![w].todo = S]
  /\ UNCHANGED <<keys, user, sess, up, writes, crashes, late, promoted>>

\* Mutant of LookAt: the role of a target does not matter.
LookAtAny(w, u) ==
  /\ op[w].at = "look" /\ u \in op[w].todo
  /\ IF Here(u)
     THEN op' = [op EXCEPT ![w].todo = @ \ {u},
                           ![w].at = IF op[w].todo = {u} THEN "delete" ELSE @]
     ELSE Done(w)
  /\ UNCHANGED <<keys, user, sess, up, writes, crashes, late, promoted>>

\* Each target is read by itself; one that is missing or an admin ends it all.
LookAt(w, u) ==
  /\ op[w].at = "look" /\ u \in op[w].todo
  /\ IF Here(u) /\ user[u].role # "admin"
     THEN op' = [op EXCEPT ![w].todo = @ \ {u},
                           ![w].at = IF op[w].todo = {u} THEN "delete" ELSE @]
     ELSE Done(w)
  /\ UNCHANGED <<keys, user, sess, up, writes, crashes, late, promoted>>

BatchDelete(w) ==
  /\ op[w].at = "delete" /\ Wrote
  /\ Delete(op[w].who)
  /\ Done(w)
  /\ UNCHANGED <<keys, up, crashes, late, promoted>>

\* update_user and reset_password ask nothing of the row.
UpdateUser(w, u, r, active) ==
  /\ op[w].at = "authed" /\ op[w].admin /\ Here(u) /\ Wrote
  /\ user' = [user EXCEPT ![u].role = r, ![u].active = active]
  /\ sess' = IF active THEN sess ELSE Close({u})
  /\ promoted' = IF r = "admin" THEN Promote(u) ELSE promoted
  /\ Done(w)
  /\ UNCHANGED <<keys, up, crashes, late>>

ResetPassword(w, u, p) ==
  /\ op[w].at = "authed" /\ op[w].admin /\ Here(u) /\ Wrote
  /\ user' = [user EXCEPT ![u].pw = p, ![u].must = TRUE]
  /\ sess' = Close({u})
  /\ Done(w)
  /\ UNCHANGED <<keys, up, crashes, late, promoted>>

\* update_profile: the display name is looked up, and the index has the last word.
Taken(n, u) ==
  n # Nobody /\ \E v \in UserId \ {u} : Here(v) /\ user[v].shown = n

ProfileRead(w, n) ==
  /\ op[w].at = "authed" /\ Here(op[w].me) /\ ~Taken(n, op[w].me)
  /\ op' = [op EXCEPT ![w].at = "show", ![w].name = n]
  /\ UNCHANGED <<keys, user, sess, up, writes, crashes, late, promoted>>

ProfileWrite(w) ==
  LET u == op[w].me
  IN /\ op[w].at = "show" /\ Wrote
     /\ IF Here(u) /\ ~Taken(op[w].name, u)
        THEN user' = [user EXCEPT ![u].shown = op[w].name] ELSE UNCHANGED user
     /\ Done(w)
     /\ UNCHANGED <<keys, sess, up, crashes, late, promoted>>

-----------------------------------------------------------------------------

Crash ==
  /\ up /\ crashes < MaxCrashes
  /\ up' = FALSE /\ crashes' = crashes + 1
  /\ op' = [w \in Thread |-> NoOp]
  /\ UNCHANGED <<keys, user, sess, writes, late, promoted>>

\* ensure_seed_admin_and_backfill: without its row the process does not start.
Boot ==
  /\ ~up
  /\ IF Named(SeedName) # {} THEN UNCHANGED user
     ELSE Free(SeedName) /\ Insert(SeedName, SeedPassword, "admin")
  /\ up' = TRUE
  /\ UNCHANGED <<keys, sess, op, writes, crashes, late, promoted>>

Request(w) ==
  \/ \E n \in Name, p \in Password : RegisterRead(w, n, p) \/ LoginRead(w, n, p)
  \/ RegisterInsert(w) \/ RestoreAdmin(w) \/ LoginInsert(w)
  \/ \E t \in Token : Authenticate(w, t) \/ Logout(w, t)
  \/ \E p \in Password : ChangeRead(w, p) \/ ChangeWrite(w, p) \/ DeleteOwnRead(w, p)
  \/ Relogin(w) \/ DeleteOwn(w) \/ BatchDelete(w) \/ ProfileWrite(w)
  \/ \E S \in SUBSET UserId, p \in Password : BatchRead(w, S, p)
  \/ \E u \in UserId : LookAt(w, u)
  \/ \E u \in UserId, r \in Role, active \in BOOLEAN : UpdateUser(w, u, r, active)
  \/ \E u \in UserId, p \in Password : ResetPassword(w, u, p)
  \/ \E n \in Name \cup {Nobody} : ProfileRead(w, n)

Next ==
  \/ \E w \in Thread : Request(w)
  \/ \E t \in Token : Expire(t)
  \/ Crash \/ Boot

Spec == Init /\ [][Next]_vars

-----------------------------------------------------------------------------

TypeOK ==
  /\ keys \in BOOLEAN /\ up \in BOOLEAN
  /\ user \in [UserId -> Row] /\ sess \in [Token -> Session] /\ op \in [Thread -> Op]
  /\ \A t \in Token : sess[t].at # "new" => sess[t].user \in UserId
  /\ \A w \in Thread : /\ op[w].at \notin {"idle", "insert"} => op[w].me \in UserId
                       /\ op[w].at = "insert" => op[w].name \in Name
  /\ writes \in 0..MaxWrites /\ crashes \in 0..MaxCrashes
  /\ late \subseteq Token /\ promoted \subseteq UserId

\* A change of password, a reset, a lock and a deletion end the sessions of the
\* account: unless its login was overtaken by one of them, an open session belongs
\* to an account that is there, is active and has the password it was opened with.
SessionsAreCurrent ==
  \A t \in Token : sess[t].at = "open" /\ t \notin late =>
    LET u == sess[t].user
    IN Here(u) /\ user[u].active /\ user[u].pw = sess[t].pw

\* A batch deletion never takes an administrator with it, unless the role was
\* given while it was deciding.
AdminsStay ==
  [][\A u \in UserId :
       (Here(u) /\ user[u].role = "admin" /\ user'[u].at = "gone")
         => u \in promoted \/ \E w \in Thread : op[w].at = "delete_own" /\ op[w].me = u]_vars

\* README.md:119: when the admin account is lost, registering admin / 123456
\* brings it back: its INSERT is not refused.
AdminCanReturn == Named(SeedName) = {} => Free(SeedName)
=============================================================================
