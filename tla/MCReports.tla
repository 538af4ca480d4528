------------------------------- MODULE MCReports -------------------------------
(* Two threads, two sessions, two rows of the snapshot (the first readable), a  *)
(* factor of the files that an administrator may also import, and documents     *)
(* that name electricity and gas.                                               *)
EXTENDS Reports, TLC

CONSTANTS t1, t2, s1, s2

MCThreads == {t1, t2}
MCSessions == {s1, s2}
MCRows == <<"gas", "hidden">>
MCReadable == {"gas"}
MCLiveSnapshots == {<<>>}
MCFileFactors == {"grid"}
MCPayloads == {<<"grid">>}
MCPatterns == <<[act |-> "electricity", unit |-> "kWh", names |-> <<"power", "grid">>,
                 region |-> "CN"]>>
MCActivityOf(f) == IF f = "gas" THEN "gas" ELSE "electricity"
MCUnitOf(f) == IF f = "gas" THEN "m^3" ELSE "kWh"
MCTermsOf(f) == {f}
MCRegions == {"CN", "any"}
MCRegionOf(f) == IF f = "grid" THEN "CN" ELSE "any"
MCRank(f, region) == IF f = "grid" THEN 60 ELSE 0
MCMatchScore(f) == IF f = "grid" THEN 2 ELSE 1

Item(act, value, unit) ==
  [chunk |-> 0, act |-> act, region |-> "any", value |-> value, unit |-> unit, wish |-> "none"]
MCBatches == {<<Item("gas", 0, "m^3"), Item("electricity", 1, "MWh"), Item("gas", 2, "m^3")>>}

Amount(v, u) == [value |-> v, unit |-> u]
Segment(names, amounts) == [names |-> names, amounts |-> amounts]
MCDocuments ==
  {<<<<Segment({"grid", "gas"}, <<Amount(1, "kWh"), Amount(2, "m3")>>)>>>>}
MCCitings == {{}, {"public"}, {"public", "private"}}

(* A second start: a database that a finished seeding has filled, from where    *)
(* one request more is served and no fault happens.                             *)
SeededInit ==
  /\ catalog = ToSet(MCRows) /\ sources = {"ccdb"} /\ jobs = <<"seed">>
  /\ factor = [f \in Factors |-> IF f = "gas" THEN [st |-> "on", rev |-> "ccdb"] ELSE Absent]
  /\ alias = [f \in Factors |-> IF f = "gas" THEN "ccdb" ELSE None]
  /\ pc = [t \in Threads |-> "idle"] /\ todo = [t \in Threads |-> <<>>]
  /\ req = [t \in Threads |-> None] /\ asked = -1 /\ faults = MaxFaults
  /\ live = Sessions /\ calcs = <<>>
  /\ reg = [t \in Threads |-> NoRegistry] /\ items = [t \in Threads |-> <<>>]
  /\ offSince = [t \in Threads |-> {}]
  /\ messages = [s \in Sessions |-> <<>>] /\ reports = {} /\ made = 0
  /\ drafts = [t \in Threads |-> NoDraft]
MCSpec == (Init \/ SeededInit) /\ [][Next]_vars

Symmetry == Permutations(MCThreads) \cup Permutations(MCSessions)
================================================================================
