----------------------------- MODULE ThirteenF ------------------------------
(***************************************************************************)
(* One company's institutional holders, read quarter by quarter from the   *)
(* managers' Form 13F tables (runner.run_sec_13f over sec_edgar's          *)
(* full-text search, sec_writer.mark_13f_stale).                           *)
(*                                                                         *)
(* A tick is 45 days: in tick 2q the filings for quarter q come in, at its *)
(* end they are due, in tick 2q+1 some are late.  A table either names the *)
(* company or does not; how many shares, of which class, at what percent,  *)
(* is left out.  A manager who sold simply no longer names the company.    *)
(***************************************************************************)
EXTENDS Naturals, FiniteSets

CONSTANTS
  Filers,      \* the managers
  Present,       \* those in the graph before the first run
  Spelled,     \* those whose tables spell a name the company is known by
  Corroborate, \* filers who must state a CUSIP before it is believed
  Limit,       \* the runner's limit: managers not yet in the graph it reads
  MaxTime,     \* bound: the calendar
  MaxRuns,     \* bound: runs
  MaxFaults    \* bound: searches or documents lost to the network

VARIABLES
  now,        \* the tick
  filings,    \* EDGAR: [by, quarter, at, names]
  cusip,      \* the company's CUSIP is known
  holding,    \* the 13F edge of each manager, or NoEdge
  stamped,    \* sec_13f_scraped_at: the tick of the last completed run, or 0
  prior,      \* the filings there were when that run searched
  run,        \* the run under way
  runs,       \* runs so far
  faults      \* searches and documents lost so far

vars == <<now, filings, cusip, holding, stamped, prior, run, runs, faults>>

NoEdge == [quarter |-> 0, stale |-> FALSE]
Idle   == [at |-> "idle"]

QuarterOf(t)   == t \div 2
InSeason(t)    == t % 2 = 0
\* latest_13f_deadline: the last tick that follows one.
LastDeadline   == IF InSeason(now) THEN now - 1 ELSE now
WindowTicks    == 3     \* _13F_WINDOW_DAYS

TypeOK ==
  /\ now \in 2 .. MaxTime /\ stamped \in 0 .. MaxTime
  /\ filings \subseteq [by : Filers, quarter : Nat, at : 2 .. MaxTime, names : BOOLEAN]
  /\ holding \in [Filers -> [quarter : Nat, stale : BOOLEAN]]
  /\ cusip \in BOOLEAN /\ prior \subseteq filings
  /\ runs \in 0 .. MaxRuns /\ faults \in 0 .. MaxFaults

Init ==
  /\ now = 2 /\ filings = {} /\ cusip = FALSE
  /\ holding = [f \in Filers |-> NoEdge]
  /\ stamped = 0 /\ prior = {} /\ run = Idle /\ runs = 0 /\ faults = 0

-----------------------------------------------------------------------------
(* EDGAR *)

\* A manager files for the quarter, once; some late, some not at all.
File(f, names) ==
  LET filing == [by |-> f, quarter |-> QuarterOf(now), at |-> now, names |-> names]
  IN /\ \A n \in filings : n.by = f => n.quarter < filing.quarter
     /\ filings' = filings \cup {filing}
     /\ UNCHANGED <<now, cusip, holding, stamped, prior, run, runs, faults>>

Tick ==
  /\ now < MaxTime /\ run = Idle
  /\ now' = now + 1
  /\ UNCHANGED <<filings, cusip, holding, stamped, prior, run, runs, faults>>

-----------------------------------------------------------------------------
(* The search *)

\* Broken form: a run reads what was filed after the last one, with no overlap.
InWindow_Exact(overlap) ==
  {n \in filings : n.at + WindowTicks >= now /\ (stamped # 0 => n.at > stamped)}

\* The window: 135 days, or since the last completed run and seven days before
\* it, of which the overlap is what was filed in that run's own tick.
InWindow(overlap) ==
  {n \in filings : n.at + WindowTicks >= now /\ (stamped # 0 => n \notin prior \/ n \in overlap)}

\* A table turns up when it states a CUSIP already known, or a known name.
Matches(n, known) == n.names /\ (known \/ n.by \in Spelled)

\* Newest of each filer: of the tables that name the company.
NewestOf(found) == {n \in found : \A m \in found : m.by = n.by => m.quarter <= n.quarter}

InGraph == Present \cup {f \in Filers : holding[f] # NoEdge}

\* Filers the graph knows are asked for by CIK; of the others the sweep brings
\* what it ranks first, up to the limit.
Picked(found) ==
  {{n \in found : n.by \in InGraph} \cup others :
     others \in {o \in SUBSET {n \in found : n.by \notin InGraph} :
                   Cardinality(o) = LET left == Cardinality({n \in found : n.by \notin InGraph})
                                    IN IF left < Limit THEN left ELSE Limit}}

\* fetch_13f_holders, without what the network lost.
Holders(known, overlap, lost) ==
  {p \ lost : p \in Picked(NewestOf({n \in InWindow(overlap) : Matches(n, known)}))}

Learns(found) == Cardinality({n.by : n \in found}) >= Corroborate

\* The first holder's period: the graph's own filers come first.
Periods(found) ==
  LET first == {n \in found : n.by \in InGraph}
  IN {n.quarter : n \in IF first # {} THEN first ELSE found}

Fresh == stamped >= LastDeadline /\ stamped # 0

\* A run past its gate searches, learns the CUSIP from the tables it read, and
\* searches again with it for filers the first search missed.
Search(force) ==
  /\ run = Idle /\ runs < MaxRuns /\ (force \/ ~Fresh)
  /\ runs' = runs + 1
  /\ \E overlap \in SUBSET {n \in prior : n.at = stamped}, lost \in SUBSET filings :
       /\ faults + Cardinality(lost) <= MaxFaults /\ faults' = faults + Cardinality(lost)
       /\ \E first \in Holders(cusip, overlap, lost) :
            /\ cusip' = (cusip \/ Learns(first))
            /\ \E second \in IF cusip' = cusip THEN {{}} ELSE Holders(TRUE, overlap, lost) :
                 LET extra == {n \in second : \A m \in first : m.by # n.by}
                 IN \E period \in IF first = {} THEN {0} ELSE Periods(first) :
                      run' = [at |-> "write", todo |-> first \cup extra, wrote |-> FALSE,
                              period |-> period, of |-> filings]
  /\ UNCHANGED <<now, filings, holding, stamped, prior>>

-----------------------------------------------------------------------------
(* The writing *)

\* _upsert_owns_sec: the edge takes the period and is fresh again.
Write ==
  /\ run.at = "write"
  /\ \E n \in run.todo :
       /\ holding' = [holding EXCEPT ![n.by] = [quarter |-> n.quarter, stale |-> FALSE]]
       /\ run' = [run EXCEPT !.todo = @ \ {n}, !.wrote = TRUE]
  /\ UNCHANGED <<now, filings, cusip, stamped, prior, runs, faults>>

Unconfirmed(f, period) == holding[f] # NoEdge /\ holding[f].quarter < period

\* mark_13f_stale: what the quarter just read did not confirm is dimmed.
Mark ==
  /\ run.at = "write" /\ run.todo = {}
  /\ holding' = [f \in Filers |->
       IF run.wrote /\ run.period # 0 /\ Unconfirmed(f, run.period)
       THEN [holding[f] EXCEPT !.stale = TRUE] ELSE holding[f]]
  /\ run' = [run EXCEPT !.at = "stamp"]
  /\ UNCHANGED <<now, filings, cusip, stamped, prior, runs, faults>>

\* Only a completed run counts as fresh.
Stamp ==
  /\ run.at = "stamp"
  /\ stamped' = now /\ prior' = run.of /\ run' = Idle
  /\ UNCHANGED <<now, filings, cusip, holding, runs, faults>>

Die ==
  /\ run # Idle /\ run' = Idle
  /\ UNCHANGED <<now, filings, cusip, holding, stamped, prior, runs, faults>>

Next ==
  \/ \E f \in Filers, names \in BOOLEAN : File(f, names)
  \/ \E force \in BOOLEAN : Search(force)
  \/ Tick \/ Write \/ Mark \/ Stamp \/ Die

Spec == Init /\ [][Next]_vars

-----------------------------------------------------------------------------
(* Properties *)

\* A manager the graph knew who named the company for this quarter, by a name it
\* is known by, is drawn for it and not dimmed when a run completes, whichever
\* runs read the quarter before it and whichever of them died, while the network
\* lost nothing.
ConfirmedStands ==
  [][run.at = "stamp" /\ run' = Idle /\ stamped' = now /\ faults = 0 =>
       \A n \in run.of :
         n.names /\ n.by \in Present \cap Spelled /\ n.quarter = QuarterOf(now)
           => holding'[n.by] = [quarter |-> n.quarter, stale |-> FALSE]]_vars

\* Who no longer names the company is dimmed by the run that reads the quarter.
SoldIsDimmed ==
  [][run.at = "stamp" /\ run' = Idle /\ stamped' = now /\ ~InSeason(now)
       /\ (\E n \in run.of : n.names /\ n.by \in Present \cap Spelled /\ n.quarter = QuarterOf(now))
       => \A f \in Filers : holding'[f] # NoEdge /\ holding'[f].quarter < QuarterOf(now)
                              => holding'[f].stale]_vars
=============================================================================
