------------------------------ MODULE MCPasses ------------------------------
(* The components that state and withdraw what a source says, side by side:   *)
(* each behaviour is one component at work, the others standing still.        *)
EXTENDS MCSharedEdge

\* What GLEIF can say of a company whose direct and ultimate parent are one.
Stating(start, marker) == [kind |-> "states", stake |-> FALSE, start |-> On(start), until |-> 0, marker |-> marker, link |-> "none"]
Ending(until, marker)  == [kind |-> "ends", stake |-> FALSE, start |-> On(0), until |-> until, marker |-> marker, link |-> "none"]
PairSays == {Stating(2, "direct"), Ending(2, "direct"),
                Stating(1, "indirect"), Stating(3, "indirect"), Ending(3, "indirect")}

\* A director two sources date, a return, and a departure.
Seated(by, since, until, filed) == [by |-> by, since |-> since, until |-> until, filed |-> filed]
Appointments == {Seated("sec", 0, 0, 5), Seated("sec", 4, 0, 5), Seated("sec", 8, 0, 8),
  Seated("wikidata", 3, 0, 0), Seated("wikidata", 4, 7, 0), Seated("wikidata", 8, 0, 0),
  Seated("departure", 0, 5, 5)}

\* A list with a joint holding, one a level deeper, one that drops a company,
\* and an exhibit that refers to another filing's.
Row(parent, co) == [parent |-> parent, co |-> co]
List(rows)      == [own |-> "list", rows |-> rows]
Exhibits == {List([s \in {"a", "b"} |-> IF s = "a" THEN Row("F", {}) ELSE Row("F", {"a"})]),
             List([s \in {"a", "b"} |-> IF s = "a" THEN Row("F", {}) ELSE Row("a", {})]),
             List([s \in {"a"} |-> Row("F", {})]),
             [own |-> "see", rows |-> <<>>]}

\* The seats, the pair and the lists are proved about, so their parameters are this
\* module's too.
CONSTANTS
  SeatsStated, SeatsDeaths, SeatsCalls,
  PairSlots, PairDays, PairRecords, PairStatements,
  ListFiler, ListSubs, ListExhibits, ListDeals, ListRelated, ListYears,
  ListQuarters, ListGleifs, ListCrashes, ListBeside
Recorded(s) == PairRecords

Purchases == {[sub |-> "a", closing |-> 1]}
KnownPairs == {<<"F", "b">>}

VARIABLE part   \* the component at work; the others stand still

(* the two GLEIF relationships of one pair *)
VARIABLES
  gleif_edge, gleif_job, gleif_fold, gleif_redo, gleif_rr, gleif_given,
  gleif_reopened, gleif_made, gleif_crashes
Gleif == INSTANCE SharedEdge WITH
  Slot <- PairSlots, LastDay <- PairDays, Writer <- {"gleif"}, Says <- Recorded,
  MaxStatements <- PairStatements, MaxCrashes <- 0, Overlap <- FALSE, edge <- gleif_edge,
  job <- gleif_job, fold <- gleif_fold, redo <- gleif_redo, rr <- gleif_rr,
  given <- gleif_given, reopened <- gleif_reopened, made <- gleif_made,
  crashes <- gleif_crashes
gleifVars == <<gleif_edge, gleif_job, gleif_fold, gleif_redo, gleif_rr, gleif_given,
            gleif_reopened, gleif_made, gleif_crashes>>

(* one person's seats in one post *)
VARIABLES
  seats_seats, seats_claims, seats_death, seats_call, seats_calls, seats_met,
  seats_lowered
Seats == INSTANCE Seats WITH
  Stated <- SeatsStated, Deaths <- SeatsDeaths, MaxCalls <- SeatsCalls,
  seats <- seats_seats, claims <- seats_claims, death <- seats_death,
  call <- seats_call, calls <- seats_calls, met <- seats_met,
  lowered <- seats_lowered
seatsVars == <<seats_seats, seats_claims, seats_death, seats_call, seats_calls, seats_met,
            seats_lowered>>

(* one filer's subsidiary lists *)
VARIABLES
  lists_filed, lists_quarters, lists_edge, lists_claim, lists_ingested,
  lists_dealt, lists_job, lists_gleifs, lists_crashes, lists_torn
Lists == INSTANCE Subsidiaries WITH
  Filer <- ListFiler, Sub <- ListSubs, Exhibits <- ListExhibits,
  Deals <- ListDeals, Related <- ListRelated, MaxYears <- ListYears,
  MaxQuarters <- ListQuarters, MaxGleif <- ListGleifs, MaxCrashes <- ListCrashes,
  Beside <- ListBeside, filed <- lists_filed, quarters <- lists_quarters,
  edge <- lists_edge, claim <- lists_claim, ingested <- lists_ingested,
  dealt <- lists_dealt, job <- lists_job, gleifs <- lists_gleifs,
  crashes <- lists_crashes, torn <- lists_torn
listsVars == <<lists_filed, lists_quarters, lists_edge, lists_claim, lists_ingested,
            lists_dealt, lists_job, lists_gleifs, lists_crashes, lists_torn>>

(* one filer's list, row by row *)
VARIABLES
  x_style, x_doc, x_path, x_section, x_drawn, x_read
Drawn == INSTANCE Exhibit WITH
  Co <- 1 .. 4,
  Styles <- {{"indent"}, {"heading"}, {"column"}, {"indent", "heading"}},
  MaxItems <- 6, style <- x_style, doc <- x_doc, path <- x_path,
  section <- x_section, drawn <- x_drawn, read <- x_read
xVars == <<x_style, x_doc, x_path, x_section, x_drawn, x_read>>

Parts == {"writers", "pair", "seats", "lists", "tree"}

SuiteInit ==
  /\ part \in Parts
  /\ Init
  /\ Gleif!Init
  /\ Seats!Init
  /\ Lists!Init
  /\ Drawn!Init

SuiteNext ==
  \/ /\ part = "writers" /\ Next
     /\ UNCHANGED <<part, gleifVars, seatsVars, listsVars, xVars>>
  \/ /\ part = "pair" /\ Gleif!Next
     /\ UNCHANGED <<part, vars, seatsVars, listsVars, xVars>>
  \/ /\ part = "seats" /\ Seats!Next
     /\ UNCHANGED <<part, vars, gleifVars, listsVars, xVars>>
  \/ /\ part = "lists" /\ Lists!Next
     /\ UNCHANGED <<part, vars, gleifVars, seatsVars, xVars>>
  \/ /\ part = "tree" /\ Drawn!Next
     /\ UNCHANGED <<part, vars, gleifVars, seatsVars, listsVars>>

SuiteSpec == SuiteInit /\ [][SuiteNext]_<<part, vars, gleifVars, seatsVars, listsVars, xVars>>

\* The tree that is read is the tree the list draws.
TreeRead == Drawn!TreeRead

\* Of two relationships on one edge, one retired leaves the other one live.
GleifPairStands == Gleif!OtherRelationshipStands

\* The dead hold no seat that began in their lifetime.
DeadHoldNoSeat == Seats!DeadHoldNoSeat

\* After a list was drawn to its end, the graph shows that list, and what it no
\* longer names is dimmed.
ListStands == Lists!GraphShowsList /\ Lists!UnlistedDimmed

\* The edge says what a claim of its source says.
AnswerIsClaimed == Lists!AnswerIsClaimed
=============================================================================
