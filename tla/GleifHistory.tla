---------------------------- MODULE GleifHistory ----------------------------
(* The history of GLEIF's relationships, rebuilt from presence alone           *)
(* (gleif_rr_history.py): one file a month is read from the archive, oldest    *)
(* first, each pair's periods of presence are kept in an intervals file, and   *)
(* the periods are written beside the edges the importer drew (gleif_rr.py).   *)
(* A pair gone from the next file has ended by then; a file much shorter than  *)
(* the ones around it is not believed; a pair that comes back with the same    *)
(* stated start never left; and a start stated before the last month in which  *)
(* the child was itself a top parent is refuted.                               *)
EXTENDS Integers, Sequences, FiniteSets, SequencesExt

CONSTANTS
  Copies,      \* the files GLEIF may publish: their relationship records and their length
  Here,        \* the pairs whose two companies are in the graph
  DipPct,      \* the share a believed file may be shorter than the one before (_DIP)
  MaxMonths,   \* bound: monthly files
  MaxLoads,    \* bound: loads of the golden copy into an empty graph
  MaxRuns,     \* bound: runs of the history
  MaxFaults    \* bound: runs that die

VARIABLES
  archive,     \* GLEIF's files, oldest first
  edges,       \* the relationships in the graph
  claims,      \* what GLEIF is on record for, per pair
  intervals,   \* the intervals file: the pairs' periods
  job,         \* the run at work: what is left of its plan
  loads, runs, faults,
  settled      \* the graph as a whole run left it: nothing was written since

vars == <<archive, edges, claims, intervals, job, loads, runs, faults, settled>>

Unstated == 0
Open     == 0
NoClaim  == [since |-> 0, until |-> 0, made |-> FALSE]

Newest == archive[Len(archive)]

\* --- The archive ------------------------------------------------------------

Back(length, before) == 100 * length >= before * (100 - DipPct)

\* The months read: a short file is held for a month, believed if the next one
\* is short as well and skipped if it is not; the latest is believed at once.
Believed(files) ==
  LET read[n \in 0 .. Len(files)] ==
        IF n = 0 THEN [days |-> <<>>, before |-> 0, held |-> 0]
        ELSE LET s      == read[n - 1]
                 fell   == s.held # 0 /\ ~Back(files[n].length, s.before)
                 days   == IF fell THEN Append(s.days, s.held) ELSE s.days
                 before == IF fell THEN files[s.held].length ELSE s.before
             IN IF before # 0 /\ ~Back(files[n].length, before) /\ n < Len(files)
                THEN [days |-> days, before |-> before, held |-> n]
                ELSE [days |-> Append(days, n), before |-> files[n].length, held |-> 0]
  IN read[Len(files)].days

Earliest(starts) ==
  LET stated == starts \ {Unstated}
  IN IF stated = {} THEN Unstated ELSE Min(stated)

Marked(markers) == IF "direct" \in markers THEN "direct" ELSE "indirect"

Live(file, p) == {r \in file.says : r.pair = p /\ r.until = Open}
Listed(file)  == {r.pair : r \in {q \in file.says : q.until = Open}}

\* The records of one pair are one relationship: direct if either is, since the
\* earlier of the two starts.
Folded(rs) == [marker |-> Marked({r.marker : r \in rs}), since |-> Earliest({r.since : r \in rs})]

\* A pair's periods of presence in the files believed.
Periods(files) ==
  LET days == Believed(files)
      Lists(k, p) == k \in DOMAIN days /\ p \in Listed(files[days[k]])
      Period(p, i, j) ==
        LET said == Folded(UNION {Live(files[days[k]], p) : k \in i .. j})
        IN [pair |-> p, first |-> days[i], last |-> days[j],
            until |-> IF j = Len(days) THEN Open ELSE days[j + 1],
            marker |-> said.marker, since |-> said.since]
      pairs == UNION {Listed(files[n]) : n \in DOMAIN files}
  IN {Period(t[1], t[2], t[3]) : t \in
        {u \in pairs \X (DOMAIN days) \X (DOMAIN days) :
           /\ u[2] <= u[3] /\ \A k \in u[2] .. u[3] : Lists(k, u[1])
           /\ ~Lists(u[2] - 1, u[1]) /\ ~Lists(u[3] + 1, u[1])}}

\* --- The plan ---------------------------------------------------------------

\* Broken form: a hole in the file ends the relationship.
Joined_Never(ps) == SetToSortSeq(ps, LAMBDA x, y : x.first < y.first)

\* One pair's periods, the holes closed that have the same stated start on both
\* sides.
Joined(ps) ==
  LET Join(done, p) ==
        LET k == Len(done)
        IN IF k > 0 /\ p.since # Unstated /\ done[k].since = p.since
           THEN [done EXCEPT ![k].last = p.last, ![k].until = p.until,
                             ![k].marker = Marked({done[k].marker, p.marker})]
           ELSE Append(done, p)
  IN FoldLeft(Join, <<>>, SetToSortSeq(ps, LAMBDA x, y : x.first < y.first))

\* The last month a company was named the top of somebody's tree.
TopUntil(ps, company) ==
  LET named == {p.last : p \in {q \in ps : q.marker = "indirect" /\ q.pair[1] = company}}
  IN IF named = {} THEN 0 ELSE Max(named)

\* The month that refutes a stated start: a top has no parent.
RefutedBy(p, ps) ==
  LET top == TopUntil(ps, p.pair[2])
  IN IF p.since # Unstated /\ p.since < top /\ top < p.first THEN top ELSE 0

Current(p, es) == {e \in es : e.pair = p /\ e.until = Open}

\* Broken form: the same period is the one with the same stated start.
Written_SameStart(p, since, es) == \E e \in es : e.pair = p.pair /\ e.until # Open /\ e.since = p.since

\* Part of the period is on an ended edge already: this module's, or the importer's.
Written(p, since, es) ==
  \E e \in es :
    /\ e.pair = p.pair /\ e.until # Open /\ e.until >= since
    /\ e.since = Unstated \/ e.since <= p.until

\* The ended edge a period is drawn as.
Drawn(p, refuted) ==
  LET stated == p.since # Unstated /\ refuted = 0
  IN [pair |-> p.pair, told |-> p.since, since |-> IF stated THEN p.since ELSE p.first,
      basis |-> IF stated THEN "stated" ELSE "first_seen", until |-> p.until,
      reason |-> "gleif_dropped", floor |-> refuted]

\* What applying the file would write.
Plan(ps, es) ==
  LET Of(pair)  == Joined({p \in ps : p.pair = pair})
      At        == {at \in {p.pair : p \in ps} \X (1 .. Len(archive)) : at[1] \in Here /\ at[2] <= Len(Of(at[1]))}
      P(at)     == Of(at[1])[at[2]]
      Ref(at)   == RefutedBy(P(at), ps)
      Refuses(at, e) == Ref(at) # 0 /\ e.since = P(at).since /\ e.basis # "first_seen"
      opened    == {o \in At \X es : P(o[1]).until = Open /\ o[2] \in Current(o[1][1], es)}
      Since(at) == Drawn(P(at), Ref(at)).since
      ended     == {at \in At :
                      /\ P(at).until # Open
                      /\ ~(at[2] = Len(Of(at[1])) /\ Current(at[1], es) # {})
                      /\ ~Written(P(at), Since(at), es)
                      /\ ~(P(at).since # Unstated /\ Ref(at) = 0
                           /\ \E e \in Current(at[1], es) : e.since = P(at).since)}
  IN [create  |-> {Drawn(P(at), Ref(at)) : at \in ended},
      claim   |-> {Drawn(P(at), Ref(at)) : at \in {a \in ended : Current(a[1], es) = {}}},
      fill    |-> {[edge |-> o[2], since |-> P(o[1]).first] :
                     o \in {x \in opened : ~Refuses(x[1], x[2]) /\ x[2].since = Unstated}},
      correct |-> {[edge |-> o[2], since |-> P(o[1]).first, floor |-> Ref(o[1])] :
                     o \in {x \in opened : Refuses(x[1], x[2])}}]

Nothing == [create |-> {}, claim |-> {}, fill |-> {}, correct |-> {}]
Idle    == [at |-> "idle", plan |-> Nothing]

Init ==
  /\ archive = <<>> /\ edges = {} /\ claims = [p \in Here |-> NoClaim]
  /\ intervals = {} /\ job = Idle
  /\ loads = 0 /\ runs = 0 /\ faults = 0 /\ settled = FALSE

\* --- The golden copy --------------------------------------------------------

\* GLEIF publishes the month's file; nothing in it lies ahead.
Publish(copy) ==
  /\ job = Idle /\ Len(archive) < MaxMonths
  /\ \A r \in copy.says : r.since <= Len(archive) + 1 /\ r.until <= Len(archive) + 1
  /\ archive' = Append(archive, copy)
  /\ UNCHANGED <<edges, claims, intervals, job, loads, runs, faults, settled>>

\* The relationships of one file: an ended one beside the current one, unless
\* the pair is listed with the very same start.
Relationships(copy) ==
  LET Edge(p, since, until, reason) ==
        [pair |-> p, told |-> since, since |-> since, basis |-> "stated",
         until |-> until, reason |-> reason, floor |-> 0]
      ended == {r \in copy.says : r.until # Open /\ r.pair \in Here}
      Same(r) == r.since # Unstated /\ \E l \in Live(copy, r.pair) : l.since = r.since
  IN {Edge(p, Folded(Live(copy, p)).since, Open, "none") : p \in Listed(copy) \cap Here}
     \cup {Edge(r.pair, r.since, r.until, "gleif_inactive") : r \in {x \in ended : ~Same(x)}}

\* The claims are written after the ended ones, the current one's last.
Claimed(es, was) ==
  [p \in Here |->
     LET live == {e \in es : e.pair = p /\ e.until = Open}
         told == IF live # {} THEN live ELSE {e \in es : e.pair = p /\ \A f \in es : f.pair = p => f.until <= e.until}
     IN IF told = {} THEN was[p]
        ELSE LET e == CHOOSE x \in told : TRUE IN [since |-> e.since, until |-> e.until, made |-> TRUE]]

\* The load of the newest file, into an empty graph.
Load ==
  /\ job = Idle /\ archive # <<>> /\ loads < MaxLoads
  /\ edges' = Relationships(Newest)
  /\ claims' = Claimed(edges', [p \in Here |-> NoClaim])
  /\ loads' = loads + 1 /\ settled' = FALSE
  /\ UNCHANGED <<archive, intervals, job, runs, faults>>

\* --- The history ------------------------------------------------------------

\* The archive is read and the intervals file renamed into place; the run plans
\* over the graph it finds.
Begin(fresh) ==
  /\ job = Idle /\ loads > 0 /\ runs < MaxRuns
  /\ fresh \/ intervals # {}
  /\ intervals' = IF fresh THEN Periods(archive) ELSE intervals
  /\ job' = [at |-> "create", plan |-> Plan(intervals', edges)]
  /\ runs' = runs + 1 /\ settled' = FALSE
  /\ UNCHANGED <<archive, edges, claims, loads, faults>>

\* The ended edges, then their claims, then the starts.
Create ==
  /\ job.at = "create"
  /\ edges' = edges \cup job.plan.create
  /\ job' = [job EXCEPT !.at = "claim"]
  /\ UNCHANGED <<archive, claims, intervals, loads, runs, faults, settled>>

Claim ==
  /\ job.at = "claim"
  /\ claims' = Claimed(job.plan.claim, claims)
  /\ job' = [job EXCEPT !.at = "fill"]
  /\ UNCHANGED <<archive, edges, intervals, loads, runs, faults, settled>>

\* A start is filled in where there is still none.
Fill ==
  /\ job.at = "fill"
  /\ LET filled == {f \in job.plan.fill : f.edge \in edges}
     IN edges' = (edges \ {f.edge : f \in filled})
                 \cup {[f.edge EXCEPT !.since = f.since, !.basis = "first_seen"] : f \in filled}
  /\ job' = [job EXCEPT !.at = "correct"]
  /\ UNCHANGED <<archive, claims, intervals, loads, runs, faults, settled>>

\* A refuted start is corrected where the edge still carries it.
Correct ==
  /\ job.at = "correct"
  /\ LET done == {c \in job.plan.correct : c.edge \in edges}
     IN edges' = (edges \ {c.edge : c \in done})
                 \cup {[c.edge EXCEPT !.since = c.since, !.basis = "first_seen", !.floor = c.floor] : c \in done}
  /\ job' = Idle /\ settled' = TRUE
  /\ UNCHANGED <<archive, claims, intervals, loads, runs, faults>>

\* The run dies; what it wrote stays.
Die ==
  /\ job # Idle /\ faults < MaxFaults
  /\ job' = Idle /\ faults' = faults + 1
  /\ UNCHANGED <<archive, edges, claims, intervals, loads, runs, settled>>

Next ==
  \/ \E copy \in Copies : Publish(copy)
  \/ Load
  \/ \E fresh \in BOOLEAN : Begin(fresh)
  \/ Create \/ Claim \/ Fill \/ Correct
  \/ Die

Spec == Init /\ [][Next]_vars

\* --- Properties -------------------------------------------------------------

\* Applying the file again writes nothing, whatever runs died before: a period
\* is recognised on the edge it was drawn as, a filled start is a start, and a
\* corrected one is not the refuted one any more.
RerunWritesNothing == settled => Plan(intervals, edges) = Nothing

\* No edge says that a relationship ended which the graph holds as current: a
\* lapse, a hole or a short file in the archive is no end of a relationship that
\* is listed with the same stated start today, however old the intervals are.
NoEndOfTheLiving ==
  \A d \in edges : d.reason = "gleif_dropped" /\ d.told # Unstated =>
    ~\E e \in edges : e.pair = d.pair /\ e.until = Open /\ e.told = d.told
=============================================================================
