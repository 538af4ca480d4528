--------------------------- MODULE CarbonExtraction ---------------------------
(* From the text of an uploaded report to carbon lines, as functions: finding   *)
(* the amounts of a text (carbon/report_extraction.py), choosing a factor for   *)
(* each (carbon/factors/registry.py), converting its unit (carbon/units.py) and *)
(* the breakdown of the engine (carbon/engine.py).                              *)
(*                                                                              *)
(* A text is a sequence of segments.  A segment is the set of names that occur  *)
(* in it and the amounts it holds, each a value with a unit; the regular        *)
(* expressions that find them, and the wording, are left out.                   *)
EXTENDS Integers, Sequences, SequencesExt, FiniteSets

CONSTANTS Patterns,       \* the built-in activities, in order: [act, unit, names, region]
          ActivityOf(_),  \* the activity a factor is for (scope, category, name)
          UnitOf(_),      \* the unit a factor counts its activity in, as spelled
          TermsOf(_),     \* the names by which a factor is recognized in a text
          Regions,        \* what an item may ask of its factor: a region, a year, a method
          RegionOf(_),    \* the one a factor is for
          Rank(_, _),     \* registry: how well a factor suits a region
          MatchScore(_),  \* extraction: how high a recognized factor scores
          NoFactor

(* Units.  The extractor and the converter each keep a table of spellings.      *)
(* "cbm" stands for a spelling of m3 that both know; "m^3" (m with a raised 3)  *)
(* and "du" (a kilowatt-hour) are known to the extractor only.                  *)
CanonicalUnit(u) ==
  CASE u \in {"cbm", "m^3"} -> "m3" [] u = "du" -> "kWh" [] OTHER -> u
ConverterUnit(u) == IF u = "cbm" THEN "m3" ELSE u

IsCompatibleUnit(unit, expected) ==
  \/ unit = expected
  \/ <<unit, expected>> \in {<<"MWh", "kWh">>, <<"t", "kg">>, <<"kg", "t">>}

Conversions == {<<"MWh", "kWh">>, <<"g", "kg">>, <<"kg", "g">>, <<"t", "kg">>, <<"kg", "t">>}
CanConvert(from, to) ==
  \/ ConverterUnit(from) = ConverterUnit(to)
  \/ <<ConverterUnit(from), ConverterUnit(to)>> \in Conversions

(* The best of a set by a score.                                                *)
BestOf(score) == CHOOSE f \in DOMAIN score : \A g \in DOMAIN score : score[g] <= score[f]

-----------------------------------------------------------------------------
(* Extraction.  An activity: the chunk it was found in, what it is, how much,   *)
(* the region and the factor it asks for.                                       *)
Activity(k, act, region, amount, wish) ==
  [chunk |-> k, act |-> act, region |-> region,
   value |-> amount.value, unit |-> amount.unit, wish |-> wish]

(* The amounts a scan takes of a segment: the positive ones, and for a built-in *)
(* activity those of a unit that suits it.                                      *)
FindAnyQuantities(segment) ==
  {i \in 1..Len(segment.amounts) : segment.amounts[i].value > 0}
FindQuantities(segment, unit) ==
  {i \in FindAnyQuantities(segment) : IsCompatibleUnit(segment.amounts[i].unit, unit)}

(* The factors recognized in a segment for an amount of this unit, and the best *)
(* of them.                                                                     *)
FactorCandidates(registry, segment, unit) ==
  {f \in registry : /\ IsCompatibleUnit(unit, CanonicalUnit(UnitOf(f)))
                    /\ TermsOf(f) \cap segment.names # {}}
LocalFactor(registry, segment, unit) ==
  LET C == FactorCandidates(registry, segment, unit)
  IN  IF C = {} THEN NoFactor ELSE BestOf([f \in C |-> MatchScore(f)])

(* What a scan has found: the activities, the amounts each built-in activity    *)
(* took under each of its names, and the amounts anything took, by chunk.       *)
Nothing == [out |-> <<>>, taken |-> {}, amounts |-> {}]
Found(found, activity, key, k, a) ==
  [out |-> Append(found.out, activity), taken |-> found.taken \cup key,
   amounts |-> found.amounts \cup {<<k, a>>}]

(* The first of the names of a built-in activity that occurs in the segment.    *)
Named(p, segment) == {i \in DOMAIN p.names : p.names[i] \in segment.names}
MatchedAlias(p, segment) == p.names[Min(Named(p, segment))]

(* A built-in activity named in the segment takes every amount of a unit that   *)
(* suits it, unless it took it before under the same name; a factor recognized  *)
(* in the segment becomes its wish.                                             *)
TakeForPattern(k, segment, registry, p, found, a) ==
  LET key == <<k, p.act, a, MatchedAlias(p, segment)>>
  IN  IF key \in found.taken THEN found
      ELSE Found(found,
                 Activity(k, p.act, p.region, a, LocalFactor(registry, segment, a.unit)),
                 {key}, k, a)
ScanPattern(k, segment, registry, p, found) ==
  LET after[i \in 0..Len(segment.amounts)] ==
        IF i = 0 THEN found
        ELSE IF i \notin FindQuantities(segment, p.unit) THEN after[i - 1]
        ELSE TakeForPattern(k, segment, registry, p, after[i - 1], segment.amounts[i])
  IN  IF Named(p, segment) = {} THEN found ELSE after[Len(segment.amounts)]

(* Then each amount of the segment nothing took in this chunk goes to the       *)
(* factor recognized in the segment, if there is one.                           *)
TakeForFactor(k, segment, registry, found, a) ==
  LET f == LocalFactor(registry, segment, a.unit)
  IN  IF <<k, a>> \in found.amounts \/ f = NoFactor THEN found
      ELSE Found(found, Activity(k, ActivityOf(f), RegionOf(f), a, f), {}, k, a)
ExtractLocalFactorMatches(k, segment, registry, found) ==
  LET after[i \in 0..Len(segment.amounts)] ==
        IF i = 0 THEN found
        ELSE IF i \notin FindAnyQuantities(segment) THEN after[i - 1]
        ELSE TakeForFactor(k, segment, registry, after[i - 1], segment.amounts[i])
  IN  after[Len(segment.amounts)]

ScanSegment(k, segment, registry, found) ==
  LET after[i \in 0..Len(Patterns)] ==
        IF i = 0 THEN found ELSE ScanPattern(k, segment, registry, Patterns[i], after[i - 1])
  IN  ExtractLocalFactorMatches(k, segment, registry, after[Len(Patterns)])

ScanChunk(k, segments, registry, found) ==
  LET after[i \in 0..Len(segments)] ==
        IF i = 0 THEN found ELSE ScanSegment(k, segments[i], registry, after[i - 1])
  IN  after[Len(segments)]

(* The activities of a document, chunk by chunk and segment by segment.         *)
Extract(chunks, registry) ==
  LET after[k \in 0..Len(chunks)] ==
        IF k = 0 THEN Nothing ELSE ScanChunk(k, chunks[k], registry, after[k - 1])
  IN  after[Len(chunks)].out

-----------------------------------------------------------------------------
(* Calculation.  The factor of an item: the one it asks for if that is a factor *)
(* for its activity, otherwise the one that suits it best.                      *)
SelectFactor(registry, item) ==
  LET C == {f \in registry : ActivityOf(f) = item.act}
  IN  IF C = {} THEN NoFactor
      ELSE IF item.wish \in C THEN item.wish
      ELSE BestOf([f \in C |-> Rank(f, item.region)])

(* The engine leaves out the items without an amount.                           *)
ActiveItems(items) ==
  LET kept[i \in 0..Len(items)] ==
        IF i = 0 THEN <<>>
        ELSE IF items[i].value > 0 THEN Append(kept[i - 1], items[i]) ELSE kept[i - 1]
  IN  kept[Len(items)]

(* One item without a factor, or with a unit that does not convert to its       *)
(* factor's, fails the whole calculation.                                       *)
CanCalculate(items, registry) ==
  \A i \in 1..Len(ActiveItems(items)) :
    LET item == ActiveItems(items)[i]
        f == SelectFactor(registry, item)
    IN  f # NoFactor /\ CanConvert(item.unit, UnitOf(f))

(* The breakdown, one line per active item, and the line as it is stored: it    *)
(* points at the item with its position among the positive ones.                *)
Breakdown(items, registry) ==
  [i \in 1..Len(ActiveItems(items)) |->
     LET item == ActiveItems(items)[i]
     IN  [act |-> item.act, value |-> item.value, factor |-> SelectFactor(registry, item)]]

\* Mutant of PositiveIds: the position among all items.
AllIds(items) == [i \in 1..Len(items) |-> i]
PositiveIds(items) ==
  LET kept[i \in 0..Len(items)] ==
        IF i = 0 THEN <<>>
        ELSE IF items[i].value > 0 THEN Append(kept[i - 1], i) ELSE kept[i - 1]
  IN  kept[Len(items)]
=============================================================================
