---------------------------- MODULE MCAuditReads -----------------------------
EXTENDS AuditReads, TLC
CONSTANTS d1, d2, d3, w, s, td, tw, g1, g2, g3, p1, p2
\* Two doors of one type in one wall, a third without, and a sheet.
Cat == (d1 :> "doors") @@ (d2 :> "doors") @@ (d3 :> "doors") @@ (w :> "walls") @@ (s :> "sheets")
TypesOf == (d1 :> td) @@ (d2 :> td) @@ (d3 :> NoThing) @@ (w :> tw) @@ (s :> NoThing)
HostsOf == (d1 :> w) @@ (d2 :> w) @@ (d3 :> NoThing) @@ (w :> NoThing) @@ (s :> NoThing)
Catalog == [l \in {"Doors", "Door", "Walls", "Sheets", "Ducts", "Ghosts"} |->
              CASE l \in {"Doors", "Door"} -> "doors" [] l = "Walls" -> "walls"
                [] l = "Sheets" -> "sheets" [] l = "Ducts" -> "ducts"
                [] OTHER -> NoCategory]
Names == [c \in {"doors", "walls", "sheets", "ducts"} |->
            CASE c = "doors" -> "Doors" [] c = "walls" -> "Walls"
              [] c = "sheets" -> "Sheets" [] OTHER -> "Ducts"]
Asked == <<"Walls", "Ghosts", "Doors", "Ducts", "Sheets">>
\* A target that only the catalog's aliases know, and two spellings of one, for
\* promises that fail (README, section 6).
Alias == <<"Walls", "Door">>
Twice == <<"Doors", "Door">>
Rule(requirement, category) ==
  [requirement |-> requirement, category |-> category, pattern |-> {},
   scope |-> [kind |-> "none", finds |-> {}], threshold |-> 1,
   operator |-> "none", other |-> "none", lookup |-> FALSE, table |-> {}, human |-> FALSE,
   broken |-> "no", unit |-> FALSE]
DoorRating ==
  [Rule("relation_compare", "Doors") EXCEPT !.other = "host",
     !.lookup = TRUE, !.table = {[when |-> 90, minutes |-> 60]}]
Marks == Rule("unique_in_set", AnyLabel)
Format == [Rule("canonical_format", "Walls") EXCEPT
             !.scope = [kind |-> "pattern", finds |-> {"nr", "1 hr"}]]
Sized == [Rule("numeric_min", AnyLabel) EXCEPT !.unit = TRUE]
Named == [Rule("not_matches_regex", "Doors") EXCEPT !.broken = "malformed"]
AliasRule == Rule("present_and_nonempty", "Door")
AllRules == {DoorRating, Marks, Format, Sized, Named}
AliasRules == {Marks, AliasRule}
SomeModels ==
  {[t \in Things |-> CASE t \in {d1, d3, td} -> "60 min" [] t = d2 -> "blank"
      [] t = tw -> "90 min" [] t = w -> "1 hr" [] OTHER -> "12"]}
Unlike == {[t \in Things |-> IF t = d1 THEN "nr" ELSE "60 min"]}
\* Two rules that one call answers, two that look alike but must not be, a
\* maximum in a link that is asked for more than the answer may hold, one
\* that cannot be measured, one in a link that is not there, and one of a
\* kind that is not dispatched.
Geo == [low |-> [kind |-> "min", way |-> "below", least |-> 2, link |-> "host",
                 spaces |-> Everywhere],
        high |-> [kind |-> "min", way |-> "below", least |-> 3, link |-> "host",
                  spaces |-> {p1}],
        wide |-> [kind |-> "min", way |-> "horizontal", least |-> 3,
                  link |-> "host", spaces |-> Everywhere],
        tight |-> [kind |-> "min", way |-> "horizontal", least |-> 1,
                   link |-> "host", spaces |-> Everywhere],
        reach |-> [kind |-> "max", way |-> "below", least |-> 1,
                   link |-> "linked", spaces |-> {p1}],
        side |-> [kind |-> "max", way |-> "horizontal", least |-> 1,
                  link |-> "host", spaces |-> Everywhere],
        gone |-> [kind |-> "min", way |-> "below", least |-> 1, link |-> "gone",
                  spaces |-> Everywhere],
        sight |-> [kind |-> "sight", way |-> "below", least |-> 1,
                   link |-> "host", spaces |-> Everywhere]]
Kinds == [r \in GeoRules |-> Geo[r].kind]
Directions == [r \in GeoRules |-> Geo[r].way]
Views == [r \in GeoRules |-> "any"]
Thresholds == [r \in GeoRules |-> Geo[r].least]
Pairs == [r \in GeoRules |-> "pipes and slabs"]
Links == [r \in GeoRules |-> Geo[r].link]
Filters == [r \in GeoRules |-> Geo[r].spaces]
Readouts ==
  [q \in {Question(r) : r \in GeoRules} |->
     [o \in Solids |->
        IF q.model = "host"
        THEN CASE o = g1 -> {2, 7} [] o = g2 -> {5} [] OTHER -> {}
        ELSE CASE o = g1 -> {2, 3} [] o = g2 -> {0, 3} [] OTHER -> {5}]]
Places == [o \in Solids |->
             CASE o = g1 -> p1 [] o = g2 -> p2 [] OTHER -> "outside"]
\* The halves share no state: a ruleset of each kind stands for one of both.
Either == {{"parameters"}, {"geometry"}}
=============================================================================
