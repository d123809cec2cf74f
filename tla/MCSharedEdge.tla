---------------------------- MODULE MCSharedEdge ----------------------------
(* What each source can say of one pair: a few statements with the dates,     *)
(* stakes and markers that make the writers disagree.                         *)
EXTENDS SharedEdge

CONSTANT GleifSays   \* which of GLEIF's records: "direct" or "sameday"

Day0 == [day |-> 0, bound |-> FALSE]
On(d) == [day |-> d, bound |-> FALSE]
By(d) == [day |-> d, bound |-> TRUE]

State(stake, start, until, marker, link) ==
  [kind |-> "states", stake |-> stake, start |-> start, until |-> until,
   marker |-> marker, link |-> link]
End(until, marker, link) ==
  [kind |-> "ends", stake |-> FALSE, start |-> Day0, until |-> until,
   marker |-> marker, link |-> link]

\* A subsidiary list with its layout, a 13D with a stake, a 13D/A exit.
SecSays == {State(FALSE, By(1), 0, "direct", "none"),
            State(TRUE, On(2), 0, "none", "none"),
            State(FALSE, Day0, 3, "none", "none")}

\* A banded appointment, its correction, its successor and its withdrawal.
PscSays == {State(TRUE, On(2), 0, "none", "old"), State(TRUE, On(2), 3, "none", "old"),
            State(FALSE, By(1), 0, "none", "new"), End(3, "none", "old")}

\* An accounting parent, with and without a share, and its end.
Directly == {State(FALSE, On(2), 0, "direct", "none"), State(TRUE, On(1), 0, "direct", "none"),
             End(3, "direct", "none")}

\* The immediate and the ultimate parent are one company since one day.
SameDay == {State(FALSE, On(1), 0, "direct", "none"), End(2, "direct", "none"),
            State(FALSE, On(1), 0, "indirect", "none")}

WikidataSays == {State(FALSE, On(1), 0, "none", "none"), State(FALSE, On(1), 2, "none", "none")}

MCSays(s) ==
  CASE s = "sec"      -> SecSays
    [] s = "psc"      -> PscSays
    [] s = "wikidata" -> WikidataSays
    [] s = "gleif" /\ GleifSays = "direct"  -> Directly
    [] s = "gleif" /\ GleifSays = "sameday" -> SameDay
=============================================================================
