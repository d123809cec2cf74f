---------------------------- MODULE MCGleifDelta ----------------------------
(* Two companies and the relationship between them.                           *)
EXTENDS GleifDelta

CONSTANTS a, b, ab

MCParent == [r \in Rel |-> a]
MCChild  == [r \in Rel |-> b]

\* One publish a day, the week and the month shortened: the gap each window is
\* taken for stays one below it, but for the day's own.
DailyWindow == [LastDay |-> 1, LastWeek |-> 3, LastMonth |-> 4]
DailyMaxGap == [LastDay |-> 1, LastWeek |-> 2, LastMonth |-> 3]

\* Two publishes a day: 1.5 days are three of them, the last day's delta holds two.
HalfDayWindow == [LastDay |-> 2, LastWeek |-> 5, LastMonth |-> 7]
HalfDayMaxGap == [LastDay |-> 3, LastWeek |-> 4, LastMonth |-> 6]
=============================================================================
