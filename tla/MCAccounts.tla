----------------------------- MODULE MCAccounts -----------------------------
(***************************************************************************)
(* The seed admin and up to two more accounts, and the settings of a user. *)
(* The two share threads and no variable, so one of them moves in a        *)
(* behaviour and the other stays where it began.                           *)
(***************************************************************************)
EXTENDS Accounts, Settings, TLC

CONSTANTS u0, u1, u2, t1, t2, w1, w2, p1

MCUserId    == {u0, u1, u2}
MCName      == {SeedName, "ann"}
MCPassword  == {SeedPassword, "secret"}
MCToken     == {t1, t2}
MCThread    == {w1, w2}
MCOneThread == {w1}
MCProfile   == {p1}
MCSymmetry  == UNION {Permutations(S) : S \in {{u1, u2}, MCToken, MCThread}}

VARIABLE
  moving  \* which of the two moves

MCInit ==
  /\ moving \in {"accounts", "settings"}
  /\ Init /\ (keys => moving = "accounts")
  /\ SettingsInit

MCNext ==
  /\ UNCHANGED moving
  /\ \/ moving = "accounts" /\ Next /\ UNCHANGED settingsVars
     \/ moving = "settings" /\ SettingsNext /\ UNCHANGED vars
=============================================================================
