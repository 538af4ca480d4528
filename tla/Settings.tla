------------------------------- MODULE Settings -------------------------------
(***************************************************************************)
(* A user's settings and model providers (settings/service.py,             *)
(* settings/storage.py): one row of settings, written back whole, with the *)
(* reference of the active provider, and the provider profiles the account *)
(* keeps.  Every statement is a transaction of its own and requests of one *)
(* user overlap.  Of the four sections of the row one is modelled, whether *)
(* sessions get automatic titles; the others move like it.                 *)
(***************************************************************************)
EXTENDS Naturals

CONSTANTS
  Desk,      \* request threads
  Profile,   \* ids of provider profiles, each made at most once
  Nothing    \* a field that a request leaves out, a row that is not there

Ref         == {"cloud", "local"} \cup Profile
Switch      == {"on", "off"}
SettingsRow == [titles : Switch, active : Ref]
Change      == [titles : Switch \cup {Nothing}, active : Ref \cup {Nothing}]
Stored      == {"unused", "deleted", "keyed", "bare"}
Default     == [titles |-> "on", active |-> "cloud"]

NoChange == [titles |-> Nothing, active |-> Nothing]

ASSUME SettingsAssumption ==
  /\ {"cloud", "local", Nothing} \cap Profile = {}
  /\ Nothing \notin {"cloud", "local", "on", "off"} \cup SettingsRow

VARIABLES
  row,       \* the user's row of user_settings
  profiles,  \* user_provider_profiles: with an api key, without, or no row
  desk,      \* where each request is
  then,      \* what it does once it has the settings
  seen,      \* the settings it has read
  change,    \* the settings it writes
  handled,   \* the profile it is about
  overtaken  \* history: profiles named active by a write that came after their deletion

settingsVars == <<row, profiles, desk, then, seen, change, handled, overtaken>>

Live(p) == profiles[p] \in {"keyed", "bare"}

SettingsInit ==
  /\ row = Nothing
  /\ profiles = [p \in Profile |-> "unused"]
  /\ desk = [t \in Desk |-> "free"]
  /\ then = [t \in Desk |-> "free"]
  /\ seen = [t \in Desk |-> Nothing]
  /\ change = [t \in Desk |-> NoChange]
  /\ handled = [t \in Desk |-> Nothing]
  /\ overtaken = {}

Go(t, place) == desk' = [desk EXCEPT ![t] = place]

\* The request is answered and nothing of it is left.
AnswerDesk(t) ==
  /\ Go(t, "free")
  /\ then' = [then EXCEPT ![t] = "free"]
  /\ seen' = [seen EXCEPT ![t] = Nothing]
  /\ change' = [change EXCEPT ![t] = NoChange]
  /\ handled' = [handled EXCEPT ![t] = Nothing]

BeginAt(t, place, next, new, p) ==
  /\ desk[t] = "free"
  /\ Go(t, place)
  /\ then' = [then EXCEPT ![t] = next]
  /\ change' = [change EXCEPT ![t] = new]
  /\ handled' = [handled EXCEPT ![t] = p]
  /\ UNCHANGED <<row, profiles, seen, overtaken>>

\* A page offers the user the profiles it has listed.
OpenSettings(t) ==
  \/ BeginAt(t, "row", "answer", NoChange, Nothing)                    \* GET, lists, asks
  \/ \E titles \in Switch :                                           \* PATCH
       BeginAt(t, "row", "write", [titles |-> titles, active |-> Nothing], Nothing)
  \/ \E r \in {q \in Ref : q \in Profile => Live(q)} :
       BeginAt(t, "row", "write", [titles |-> Nothing, active |-> r], Nothing)
  \/ \E p \in Profile :
       \/ profiles[p] = "unused" /\ BeginAt(t, "insert", "answer", NoChange, p)
       \/ Live(p) /\ \E place \in {"existing", "remove"} :
                       BeginAt(t, place, "answer", NoChange, p)

\* get_user_settings; the first one stores the defaults.
ReadSettings(t) ==
  /\ desk[t] = "row"
  /\ IF row = Nothing THEN Go(t, "default") /\ UNCHANGED seen
                      ELSE Go(t, then[t]) /\ seen' = [seen EXCEPT ![t] = row]
  /\ UNCHANGED <<row, profiles, then, change, handled, overtaken>>

Upserted(new) ==
  /\ row' = new
  /\ overtaken' = IF new.active \in Profile /\ ~Live(new.active)
                  THEN overtaken \cup {new.active} ELSE overtaken

\* ON CONFLICT DO UPDATE: over a row that another request has stored meanwhile.
StoreDefaults(t) ==
  /\ desk[t] = "default"
  /\ Upserted(Default)
  /\ seen' = [seen EXCEPT ![t] = Default]
  /\ Go(t, then[t])
  /\ UNCHANGED <<profiles, then, change, handled>>

Or(a, b) == IF a = Nothing THEN b ELSE a

\* update_user_settings: what the request leaves out stays as it was read.
UpdateUserSettings(t) ==
  /\ desk[t] = "write"
  /\ Upserted([titles |-> Or(change[t].titles, seen[t].titles),
               active |-> Or(change[t].active, seen[t].active)])
  /\ AnswerDesk(t)
  /\ UNCHANGED profiles

Put(p, stored) == profiles' = [profiles EXCEPT ![p] = stored]

CreateProviderProfile(t) ==
  /\ desk[t] = "insert"
  /\ IF profiles[handled[t]] = "unused"
     THEN \E key \in {"keyed", "bare"} : Put(handled[t], key)
     ELSE UNCHANGED profiles                        \* the bound on ids
  /\ AnswerDesk(t)
  /\ UNCHANGED <<row, overtaken>>

\* update_provider_profile reads the profile it is to update ...
ReadProfile(t) ==
  /\ desk[t] = "existing"
  /\ IF Live(handled[t])
     THEN Go(t, "upsert") /\ UNCHANGED <<then, seen, change, handled>>
     ELSE AnswerDesk(t)                             \* 404
  /\ UNCHANGED <<row, profiles, overtaken>>

\* ... and upserts it: COALESCE keeps a key that the request does not bring, and
\* a profile deleted meanwhile is inserted again.
UpdateProviderProfile(t) ==
  /\ desk[t] = "upsert"
  /\ \/ Put(handled[t], "keyed")
     \/ Put(handled[t], IF Live(handled[t]) THEN profiles[handled[t]] ELSE "bare")
  /\ AnswerDesk(t)
  /\ UNCHANGED <<row, overtaken>>

DeleteProviderProfile(t) ==
  /\ desk[t] = "remove"
  /\ IF Live(handled[t])
     THEN /\ Put(handled[t], "deleted")
          /\ Go(t, "row")
          /\ then' = [then EXCEPT ![t] = "compare"]
          /\ UNCHANGED <<seen, change, handled>>
     ELSE AnswerDesk(t) /\ UNCHANGED profiles       \* 404
  /\ UNCHANGED <<row, overtaken>>

\* Mutant of FallBack: the built-in provider is only for requests that name none.
FallBackNever(t) ==
  /\ desk[t] = "compare"
  /\ AnswerDesk(t)
  /\ UNCHANGED <<row, profiles, overtaken>>

\* A user whose active profile has gone goes back to the built-in provider.
FallBack(t) ==
  /\ desk[t] = "compare"
  /\ IF seen[t].active = handled[t]
     THEN /\ Go(t, "row")
          /\ then' = [then EXCEPT ![t] = "write"]
          /\ change' = [change EXCEPT ![t] = [titles |-> Nothing, active |-> "cloud"]]
          /\ UNCHANGED <<seen, handled>>
     ELSE AnswerDesk(t)
  /\ UNCHANGED <<row, profiles, overtaken>>

\* resolve_provider_config: what an ask or a report without a provider of its own
\* gets, or the error that there is none.
Resolves(ref) == ref = "cloud" \/ (ref \in Profile /\ Live(ref))

\* The listings only show what they have read, and so does a provider in use.
ShowSettings(t) ==
  /\ desk[t] = "answer"
  /\ AnswerDesk(t)
  /\ UNCHANGED <<row, profiles, overtaken>>

\* A deletion that has yet to fall back.
Falling(p) ==
  \E t \in Desk : handled[t] = p /\ desk[t] \in {"row", "default", "compare", "write"}

\* Everything but the tables is gone; a deletion that is cut off never falls back.
StopDesks ==
  /\ desk' = [t \in Desk |-> "free"]
  /\ then' = [t \in Desk |-> "free"]
  /\ seen' = [t \in Desk |-> Nothing]
  /\ change' = [t \in Desk |-> NoChange]
  /\ handled' = [t \in Desk |-> Nothing]
  /\ overtaken' = overtaken \cup {p \in Profile : Falling(p)}
  /\ UNCHANGED <<row, profiles>>

SettingsNext ==
  \/ \E t \in Desk :
       \/ OpenSettings(t) \/ ReadSettings(t) \/ StoreDefaults(t)
       \/ UpdateUserSettings(t) \/ CreateProviderProfile(t)
       \/ ReadProfile(t) \/ UpdateProviderProfile(t) \/ DeleteProviderProfile(t)
       \/ FallBack(t) \/ ShowSettings(t)
  \/ StopDesks

SettingsTypeOK ==
  /\ row \in SettingsRow \cup {Nothing}
  /\ profiles \in [Profile -> Stored]
  /\ desk \in [Desk -> {"free", "row", "default", "write", "insert", "existing",
                        "upsert", "remove", "compare", "answer"}]
  /\ then \in [Desk -> {"free", "write", "compare", "answer"}]
  /\ seen \in [Desk -> SettingsRow \cup {Nothing}]
  /\ change \in [Desk -> Change]
  /\ handled \in [Desk -> Profile \cup {Nothing}]
  /\ overtaken \subseteq Profile

\* Questions find a provider: the active reference of the settings never names a
\* profile that is gone, but for the moment its deletion takes to fall back, and
\* unless another request wrote the reference after the deletion, from what it
\* had read or offered before, or the process stopped in that moment.
ActiveProviderIsThere ==
  row # Nothing /\ ~Resolves(row.active)
    => row.active = "local" \/ Falling(row.active) \/ row.active \in overtaken
=============================================================================
