----------------------------- MODULE SharedEdge -----------------------------
(***************************************************************************)
(* One active OWNS edge per (owner, owned) pair, whichever sources assert  *)
(* it (scraper/owns_merge): the four writers that share the pair's edge -  *)
(* SEC, the UK register of persons with significant control (PSC), GLEIF   *)
(* and Wikidata - and the clean-up that folds duplicates.                  *)
(*                                                                         *)
(* The module is about one pair.  Each writer looks the pair up and then   *)
(* writes by a condition over the edges, in separate statements, so a      *)
(* writer's job remembers the statement it applies and the edge it saw.    *)
(* A stake is stated or not; dates are days, 0 for none; of an answer's    *)
(* fields only the source, stake, score, date and end are kept.            *)
(***************************************************************************)
EXTENDS Integers, FiniteSets

CONSTANTS
  Slot,           \* bound: the OWNS edges the pair can have at once
  LastDay,        \* bound: days
  Writer,         \* the sources that write, a subset of Source
  Says(_),        \* the statements each source can make
  MaxStatements,  \* bound: statements applied
  MaxCrashes,     \* bound: jobs that die between two statements
  Overlap         \* may two writers work on the pair at the same time

Source == {"sec", "psc", "gleif", "wikidata"}
Day    == 0 .. LastDay
Marker == {"none", "direct", "indirect"}
Link   == {"none", "old", "new"}       \* psc_self_link: an appointment's link
Start  == [day : Day, bound : BOOLEAN] \* since; bound when since_basis is set
Edge   == [by : Source, score : Source, dated : Source \cup {"none"},
           stake : BOOLEAN, start : Start, until : Day, marker : Marker,
           inferred : BOOLEAN, also : BOOLEAN, ultimate : Day, link : Link]
Kind == {"states", "ends"}
Statement == [kind : Kind, stake : BOOLEAN, start : Start, until : Day,
              marker : Marker, link : Link]

ASSUME SlotAssumption   == Slot \in SUBSET Nat /\ IsFiniteSet(Slot)
ASSUME DayAssumption    == LastDay \in Nat
ASSUME WriterAssumption == Writer \subseteq Source /\ \A s \in Writer : Says(s) \subseteq Statement
ASSUME BoundAssumption  == MaxStatements \in Nat /\ MaxCrashes \in Nat
ASSUME OverlapAssumption == Overlap \in BOOLEAN
\* A retired relationship has an end, else its record is skipped; so is a PSC record
\* that names no appointment.
ASSUME StatementAssumption ==
  /\ \A s \in Writer : \A st \in Says(s) : st.kind = "ends" => st.until # 0
  /\ "psc" \in Writer => \A st \in Says("psc") : st.link # "none"

NoEdge == [by |-> "none"]
NoJob  == [step |-> "none"]
Unstarted == [day |-> 0, bound |-> FALSE]

VARIABLES
  edge,      \* the pair's edges: Slot -> Edge, or NoEdge
  job,       \* each writer's statement being applied, and what it saw
  fold,      \* the clean-up: edges folded into a survivor and still to delete
  redo,      \* records of an unfinished delta run, applied again by the next
  rr,        \* history: GLEIF's two relationship records, as last applied
  given,     \* history: the starts each source gave
  reopened,  \* history: a write opened an ended edge beside an active one
  made,      \* statements so far
  crashes    \* crashes so far

vars == <<edge, job, fold, redo, rr, given, reopened, made, crashes>>

Steps == {"adopt", "takeover", "update", "claim", "create", "own", "share",
          "write", "retire", "close", "succeed", "confirm"}

TypeOK ==
  /\ edge \in [Slot -> Edge \cup {NoEdge}]
  /\ \A i \in Slot : edge[i] # NoEdge /\ edge[i].inferred => edge[i].marker # "none"
  /\ \A s \in Source : job[s] = NoJob \/
       (/\ job[s].step \in Steps
        /\ job[s].st \in Says(s)
        /\ job[s].seen \in Edge \cup {NoEdge})
  /\ fold \subseteq Slot
  /\ \A s \in Source : redo[s] \subseteq Says(s) /\ Cardinality(redo[s]) <= 1
  /\ rr \in [{"direct", "indirect"} -> [on : BOOLEAN, day : Day]]
  /\ given \in [Source -> SUBSET Start]
  /\ reopened \in {"never", "yes", "cleaned"}
  /\ made \in 0 .. MaxStatements
  /\ crashes \in 0 .. MaxCrashes

Init ==
  /\ edge = [i \in Slot |-> NoEdge]
  /\ job = [s \in Source |-> NoJob]
  /\ fold = {}
  /\ redo = [s \in Source |-> {}]
  /\ rr = [m \in {"direct", "indirect"} |-> [on |-> FALSE, day |-> 0]]
  /\ given = [s \in Source |-> {}]
  /\ reopened = "never"
  /\ made = 0
  /\ crashes = 0

-----------------------------------------------------------------------------
(* owns_merge: who answers, and since when *)

Credibility == [sec |-> 98, psc |-> 97, gleif |-> 92, wikidata |-> 80]
Official(s) == Credibility[s] >= 90

\* answer_rank, compared: the official tier, then a stated stake, then credibility.
Above(s, stake, t, otherStake) ==
  IF Official(s) # Official(t) THEN Official(s)
  ELSE IF stake # otherStake THEN stake
  ELSE Credibility[s] > Credibility[t]

Outranks(s, st, e) == Above(s, st.stake, e.score, e.stake)

\* combine_since: the earliest start any candidate gives; on one day a stated
\* start over a lower bound.
Combine(candidates) ==
  LET dated == {c \in candidates : c.day # 0} IN
  IF dated = {} THEN Unstarted
  ELSE CHOOSE c \in dated :
         \A d \in dated : c.day < d.day \/ (c.day = d.day /\ (d.bound \/ ~c.bound))

\* The register's own rule for its rows: on one day a stored start stays unless
\* it is a bound and the record labels its own.
PscStart(held, new) ==
  IF /\ held.day # 0
     /\ \/ new.day = 0
        \/ held.day < new.day
        \/ held.day = new.day /\ (~held.bound \/ ~new.bound)
  THEN held ELSE new

-----------------------------------------------------------------------------
(* The edges *)

Edges   == {i \in Slot : edge[i] # NoEdge}
Open    == {i \in Edges : edge[i].until = 0}
Ended   == Edges \ Open
Own(i)  == edge[i].marker # "none" /\ ~edge[i].inferred   \* GLEIF's stated marker
Begun(i, day) == edge[i].start.day <= day

\* UPDATE: every edge in hit gets Changed(its edge).
Rewrite(hit, Changed(_)) ==
  /\ edge' = [i \in Slot |-> IF i \in hit THEN Changed(edge[i]) ELSE edge[i]]
  /\ reopened' = IF /\ \E i \in hit \cap Ended : Changed(edge[i]).until = 0
                    /\ Open \ hit # {} \/ Cardinality(hit) > 1
                 THEN "yes" ELSE reopened

\* CREATE.
Draw(e) ==
  /\ Edges # Slot
  /\ edge' = [edge EXCEPT ![CHOOSE i \in Slot \ Edges : \A j \in Slot \ Edges : i <= j] = e]
  /\ UNCHANGED reopened

\* The first of the lookups that finds an edge.
FirstOf(a, b) == IF a # {} THEN a ELSE b

Fresh(s, st) ==
  [by |-> s, score |-> s, dated |-> s, stake |-> st.stake, start |-> st.start,
   until |-> st.until, marker |-> st.marker,
   inferred |-> s = "sec" /\ st.marker # "none", also |-> FALSE, ultimate |-> 0,
   link |-> st.link]

\* A writer takes up a statement.  Without Overlap it waits for the others; a
\* delta run that died begins again with the record it died on.
Takes(s, st, step, seen) ==
  /\ job[s] = NoJob
  /\ made < MaxStatements
  /\ Overlap \/ (fold = {} /\ \A t \in Source : job[t] = NoJob)
  /\ redo[s] = {} \/ st \in redo[s]
  /\ job' = [job EXCEPT ![s] = [step |-> step, st |-> st, seen |-> seen]]
  /\ made' = made + 1
  /\ given' = [given EXCEPT ![s] = @ \cup {st.start}]
  /\ UNCHANGED <<edge, fold, redo, rr, reopened, crashes>>

At(s, step) == job[s] # NoJob /\ job[s].step = step

\* The job's next statement to the database, or its end.
Then(s, step) ==
  /\ job' = [job EXCEPT ![s].step = step]
  /\ UNCHANGED <<fold, redo, rr, given, made, crashes>>

Finish(s) ==
  /\ job' = [job EXCEPT ![s] = NoJob]
  /\ redo' = [redo EXCEPT ![s] = {}]
  /\ UNCHANGED <<fold, given, made, crashes>>

Done(s) == Finish(s) /\ UNCHANGED rr

-----------------------------------------------------------------------------
(* SEC: _write_owns_sec and _share_owns_edge *)

\* The edges a statement may be about: SEC's own - for an exit, the one already
\* carrying that end first, else the open one it ends - then another source's.
SecOwn(until) ==
  IF until = 0 THEN {i \in Open : edge[i].by = "sec"}
  ELSE FirstOf({i \in Ended : edge[i].by = "sec" /\ edge[i].until = until /\ Begun(i, until)},
               {i \in Open : edge[i].by = "sec" /\ Begun(i, until)})

SecShared(until) == {i \in Open : until = 0 \/ Begun(i, until)}

\* Broken form: each source looks only for the edge it drew itself.
SecFinds_OwnOnly(st) ==
  LET own == SecOwn(st.until) IN
  IF own # {} THEN \E i \in own : Takes("sec", st, "own", edge[i])
  ELSE Takes("sec", st, "create", NoEdge)

SecFinds(st) ==
  LET own == SecOwn(st.until)
      shared == SecShared(st.until)
  IN
  IF own # {} THEN \E i \in own : Takes("sec", st, "own", edge[i])
  ELSE IF shared # {} THEN \E i \in shared : Takes("sec", st, "share", edge[i])
  ELSE Takes("sec", st, "create", NoEdge)

\* Broken form: a statement that shows no place in the group still counts as one.
Laid_Blank(e, st) ==
  IF e.marker = "none" \/ e.inferred
  THEN [e EXCEPT !.marker = st.marker, !.inferred = TRUE] ELSE e

\* A marker read off the filer's layout never replaces a stated one.
Laid(e, st) ==
  IF st.marker # "none" /\ (e.marker = "none" \/ e.inferred)
  THEN [e EXCEPT !.marker = st.marker, !.inferred = TRUE] ELSE e

SecUpdatesOwn ==
  LET st == job["sec"].st
      seen == job["sec"].seen
      Now(e) == Laid([e EXCEPT !.until = st.until, !.stake = st.stake, !.dated = "sec",
                               !.start = Combine({seen.start, st.start})], st)
  IN
  /\ At("sec", "own")
  /\ Rewrite({i \in Edges : /\ edge[i].by = "sec" /\ edge[i].until = seen.until
                            /\ st.until = 0 \/ Begun(i, st.until)}, Now)
  /\ Done("sec")

\* The answer moves as a unit.
Answered(s, st, e) ==
  [e EXCEPT !.by = s, !.score = s, !.dated = s, !.stake = st.stake, !.until = st.until]

\* Broken form: the answer is taken over whoever holds it.
SecShares_Always ==
  LET st == job["sec"].st
      Now(e) == [Answered("sec", st, e) EXCEPT !.start = Combine({job["sec"].seen.start, st.start})]
  IN
  /\ At("sec", "share")
  /\ Rewrite(Open, Now)
  /\ Done("sec")

SecShares ==
  LET st == job["sec"].st
      seen == job["sec"].seen
      Marked(e) == IF seen.marker = "none" \/ seen.inferred
                   THEN [e EXCEPT !.marker = IF st.marker = "none" THEN @ ELSE st.marker,
                                  !.inferred = @ \/ st.marker # "none"]
                   ELSE e
      Now(e) == LET a == IF Outranks("sec", st, seen) THEN Answered("sec", st, e) ELSE e
                IN  Marked([a EXCEPT !.start = Combine({seen.start, st.start})])
  IN
  /\ At("sec", "share")
  /\ Rewrite(Open, Now)
  /\ Done("sec")

Creates(s) ==
  /\ At(s, "create")
  /\ Draw(Fresh(s, job[s].st))
  /\ Done(s)

SecStep ==
  \/ \E st \in Says("sec") : SecFinds(st)
  \/ SecUpdatesOwn \/ SecShares \/ Creates("sec")

-----------------------------------------------------------------------------
(* Wikidata: graph_writer._upsert_owns *)

\* An ended holding gets a closed edge of its own, once; a current one confirms
\* the open edge or draws one.
WikidataFinds(st) ==
  IF st.until # 0
  THEN /\ ~\E i \in Ended : edge[i].until = st.until /\ edge[i].start.day = st.start.day
       /\ Takes("wikidata", st, "create", NoEdge)
  ELSE IF Open # {} THEN \E i \in Open : Takes("wikidata", st, "confirm", edge[i])
  ELSE Takes("wikidata", st, "create", NoEdge)

\* The date is backfilled, never replaced; the start is combined when it moves.
WikidataConfirms ==
  LET st == job["wikidata"].st
      seen == job["wikidata"].seen
      start == Combine({seen.start, st.start})
      Now(e) == [e EXCEPT !.dated = IF @ = "none" THEN "wikidata" ELSE @,
                          !.start = IF start = seen.start THEN @ ELSE start]
  IN
  /\ At("wikidata", "confirm")
  /\ Rewrite(Open, Now)
  /\ Done("wikidata")

WikidataStep ==
  \/ \E st \in Says("wikidata") : WikidataFinds(st)
  \/ WikidataConfirms \/ Creates("wikidata")

-----------------------------------------------------------------------------
(* PSC: _PscEdgeWriter and close_vanished *)

Linked(link) == {i \in Edges : edge[i].link = link}

\* A known link is updated; a new current appointment takes over the link of the
\* register's open edge, or shares another source's; a ceased one stands alone.
PscFinds(st) ==
  /\ st.kind = "states"
  /\ IF Linked(st.link) # {} THEN Takes("psc", st, "update", NoEdge)
     ELSE IF st.until # 0 \/ Open = {} THEN Takes("psc", st, "create", NoEdge)
     ELSE IF \E i \in Open : edge[i].link # "none" THEN Takes("psc", st, "adopt", NoEdge)
     ELSE \E i \in Open :
            Takes("psc", st, IF Outranks("psc", st, edge[i]) THEN "takeover" ELSE "claim", edge[i])

PscAdopts ==
  LET Now(e) == [e EXCEPT !.link = job["psc"].st.link] IN
  /\ At("psc", "adopt")
  /\ Rewrite({i \in Open : edge[i].link # "none"}, Now)
  /\ Then("psc", "update")

\* Link and source first; the answer follows with the update.
PscTakesOver ==
  LET Now(e) == [e EXCEPT !.link = job["psc"].st.link, !.by = "psc"] IN
  /\ At("psc", "takeover")
  /\ Rewrite(Open, Now)
  /\ Then("psc", "update")

\* _flush_updates: only while PSC holds the edge's answer.
PscUpdates ==
  LET st == job["psc"].st
      Now(e) == [Answered("psc", st, e) EXCEPT !.start = PscStart(e.start, st.start)]
  IN
  /\ At("psc", "update")
  /\ Rewrite({i \in Linked(st.link) : edge[i].by = "psc"}, Now)
  /\ Done("psc")

PscClaims ==
  LET seen == job["psc"].seen
      start == Combine({seen.start, job["psc"].st.start})
      Now(e) == [e EXCEPT !.start = IF start.day = seen.start.day THEN @ ELSE start]
  IN
  /\ At("psc", "claim")
  /\ Rewrite(Open, Now)
  /\ Done("psc")

\* A record gone from the snapshot ends the edge PSC holds, on the snapshot's day.
PscVanished(st) ==
  LET Now(e) == [e EXCEPT !.until = st.until] IN
  /\ st.kind = "ends"
  /\ job["psc"] = NoJob /\ made < MaxStatements
  /\ Overlap \/ (fold = {} /\ \A t \in Source : job[t] = NoJob)
  /\ redo["psc"] = {}
  /\ Rewrite({i \in Linked(st.link) \cap Open : edge[i].by = "psc"}, Now)
  /\ made' = made + 1
  /\ UNCHANGED <<job, fold, redo, rr, given, crashes>>

PscStep ==
  \/ \E st \in Says("psc") : PscFinds(st) \/ PscVanished(st)
  \/ PscAdopts \/ PscTakesOver \/ PscUpdates \/ PscClaims \/ Creates("psc")

-----------------------------------------------------------------------------
(* GLEIF: _existing_consolidation_edge, _write_owns_edge and _close_owns *)

\* GLEIF's own edge, open first, else an ended one of the same period; else the
\* pair's open edge, whoever drew it.
Existing(day) ==
  FirstOf({i \in Open : Own(i)},
          FirstOf({i \in Ended : Own(i) /\ day <= edge[i].until}, Open))

GleifFinds(st) ==
  /\ st.kind = "states"
  /\ LET found == Existing(st.start.day) IN
     IF found = {} THEN Takes("gleif", st, "create", NoEdge)
     ELSE \E i \in found : Takes("gleif", st, "write", edge[i])

\* The record of a relationship, as applied.
Applied(st) ==
  rr' = [rr EXCEPT ![st.marker] = [on |-> st.kind = "states" /\ st.until = 0, day |-> st.start.day]]

GleifCreates ==
  /\ At("gleif", "create")
  /\ Draw(Fresh("gleif", job["gleif"].st))
  /\ Finish("gleif") /\ Applied(job["gleif"].st)

\* GLEIF's own answer, or one it outranks; another's it leaves as it is.
GleifAnswers(e) ==
  LET st == job["gleif"].st
      seen == job["gleif"].seen
  IN  IF seen.by # "gleif" /\ Outranks("gleif", st, seen) THEN Answered("gleif", st, e)
      ELSE IF seen.by = "gleif" THEN [e EXCEPT !.until = st.until, !.score = "gleif", !.dated = "gleif"]
      ELSE e

\* The same relationship restated, or another source's edge adopted.
GleifRestates ==
  LET st == job["gleif"].st
      seen == job["gleif"].seen
      adopts == seen.marker = "none" \/ seen.inferred
      hit == IF adopts THEN {i \in Open : ~Own(i)}
             ELSE {i \in Edges : Own(i) /\ edge[i].marker = st.marker /\ edge[i].until = seen.until}
      Now(e) ==
        LET a == GleifAnswers(e) IN
        [a EXCEPT !.marker = IF adopts THEN st.marker ELSE @,
                  !.inferred = IF adopts THEN FALSE ELSE @,
                  !.stake = IF seen.by = "gleif" /\ (st.stake \/ ~seen.also) THEN st.stake ELSE @,
                  !.start = Combine({seen.start, st.start})]
  IN
  /\ At("gleif", "write")
  /\ adopts \/ seen.marker = st.marker
  /\ Rewrite(hit, Now)
  /\ Finish("gleif") /\ Applied(st)

\* Stated both ways: the direct relationship owns the edge, with its own start,
\* and the ultimate one is recorded on it.
GleifFolds ==
  LET st == job["gleif"].st
      seen == job["gleif"].seen
      mine == seen.by = "gleif" \/ Outranks("gleif", st, seen)
      kept == IF st.marker = "indirect" \/ st.start.day = 0 THEN seen.start.day ELSE st.start.day
      other == IF st.marker = "indirect" THEN st.start.day ELSE seen.start.day
      Now(e) ==
        LET a == GleifAnswers(e) IN
        [a EXCEPT !.marker = "direct", !.also = TRUE,
                  !.ultimate = IF other = kept THEN 0 ELSE other,
                  !.stake = IF mine /\ st.stake /\ (st.marker = "direct" \/ ~seen.stake)
                            THEN TRUE ELSE @,
                  !.start = Combine({[day |-> kept, bound |-> FALSE]} \cup
                                    {c \in {seen.start} : c.bound})]
  IN
  /\ At("gleif", "write")
  /\ seen.marker # "none" /\ ~seen.inferred /\ seen.marker # st.marker
  /\ Rewrite({i \in Edges : Own(i) /\ edge[i].until = seen.until}, Now)
  /\ Finish("gleif") /\ Applied(st)

\* A retired relationship.  On an edge that carries both, the other goes on.
GleifEnds(st) ==
  LET both == {i \in Open : edge[i].also} IN
  /\ st.kind = "ends"
  /\ IF both # {} /\ st.marker = "direct"
     THEN \E i \in both : Takes("gleif", st, "close", edge[i])
     ELSE Takes("gleif", st, "retire", NoEdge)

\* Broken form: the edge that carries both relationships is closed.
GleifRetires_Closes ==
  LET st == job["gleif"].st
      Now(e) == [e EXCEPT !.until = st.until]
  IN
  /\ At("gleif", "retire")
  /\ Rewrite({i \in Open : edge[i].also \/ (Own(i) /\ edge[i].marker = st.marker)}, Now)
  /\ Finish("gleif") /\ Applied(st)

GleifRetires ==
  LET st == job["gleif"].st
      Ultimate(e) == [e EXCEPT !.also = FALSE, !.ultimate = 0]
      Now(e) == [e EXCEPT !.until = st.until]
  IN
  /\ At("gleif", "retire")
  /\ IF \E i \in Open : edge[i].also
     THEN Rewrite({i \in Edges : edge[i].also}, Ultimate)
     ELSE Rewrite({i \in Open : Own(i) /\ edge[i].marker = st.marker /\ edge[i].by = "gleif"}, Now)
  /\ Finish("gleif") /\ Applied(st)

\* The direct period is closed as it stands ...
GleifCloses ==
  LET Now(e) == [e EXCEPT !.until = job["gleif"].st.until, !.also = FALSE] IN
  /\ At("gleif", "close")
  /\ Rewrite({i \in Open : edge[i].also}, Now)
  /\ Then("gleif", "succeed")

\* ... and the ultimate relationship continues as its own edge.
GleifSucceeds ==
  LET seen == job["gleif"].seen IN
  /\ At("gleif", "succeed")
  /\ Draw([by |-> seen.by, score |-> seen.score, dated |-> "none", stake |-> FALSE,
           start |-> [day |-> seen.ultimate, bound |-> FALSE], until |-> 0,
           marker |-> "indirect", inferred |-> FALSE, also |-> FALSE, ultimate |-> 0,
           link |-> "none"])
  /\ Finish("gleif") /\ Applied(job["gleif"].st)

GleifStep ==
  \/ \E st \in Says("gleif") : GleifFinds(st) \/ GleifEnds(st)
  \/ GleifCreates \/ GleifRestates \/ GleifFolds
  \/ GleifRetires \/ GleifCloses \/ GleifSucceeds

-----------------------------------------------------------------------------
(* deduplicate_owns_edges: of the open edges, or of those ended on one day, one
   stays; it is given what the others said, and they are deleted. *)

\* _losers: a stake first (the larger of two), then a marker, then a direct one.
Preferred(e, f) ==
  \/ e.stake /\ ~f.stake
  \/ /\ e.stake = f.stake
     /\ \/ e.stake
        \/ f.marker = "none"
        \/ e.marker = "direct"
        \/ e.marker = f.marker

\* fold: the highest-ranked answer; the survivor's on a tie, or its own source's
\* later statement.
Top(group, survivor) ==
  LET AtLeast(e, f) == ~Above(f.score, f.stake, e.score, e.stake)
      best == {i \in group : \A j \in group : AtLeast(edge[i], edge[j])}
  IN  IF survivor \in best THEN {i \in best : edge[i].by = edge[survivor].by} ELSE best

\* A field the survivor leaves blank is filled from one of the others that has it.
Given(own, blank, all) == IF own = blank /\ all # {blank} THEN all \ {blank} ELSE {own}

\* The survivor takes the answer of top, the earliest start, and what it lacks.
FoldsInto(group, survivor, top) ==
  LET e == edge[survivor]
      t == edge[top]
  IN
  \E m \in Given(<<e.marker, e.inferred>>, <<"none", FALSE>>,
                 {<<edge[i].marker, edge[i].inferred>> : i \in group}),
     l \in Given(e.link, "none", {edge[i].link : i \in group}),
     b \in Given(e.also, FALSE, {edge[i].also : i \in group}),
     u \in Given(e.ultimate, 0, {edge[i].ultimate : i \in group}) :
       edge' = [edge EXCEPT ![survivor] =
         [e EXCEPT !.by = t.by, !.score = t.score, !.dated = t.dated, !.stake = t.stake,
                   !.start = Combine({edge[i].start : i \in group}),
                   !.marker = m[1], !.inferred = m[2], !.link = l, !.also = b, !.ultimate = u]]

DedupFolds ==
  /\ fold = {}
  /\ Overlap \/ \A s \in Source : job[s] = NoJob
  /\ \E day \in Day :
       LET group == {i \in Edges : edge[i].until = day} IN
       /\ Cardinality(group) > 1
       /\ \E k \in {i \in group : \A j \in group : Preferred(edge[i], edge[j])} :
            /\ \E top \in Top(group, k) : FoldsInto(group, k, top)
            /\ fold' = group \ {k}
  /\ UNCHANGED <<job, redo, rr, given, reopened, made, crashes>>

DedupDeletes ==
  /\ fold # {}
  /\ edge' = [i \in Slot |-> IF i \in fold THEN NoEdge ELSE edge[i]]
  /\ fold' = {}
  /\ reopened' = IF reopened = "yes" /\ Cardinality(Open \ fold) <= 1 THEN "cleaned" ELSE reopened
  /\ UNCHANGED <<job, redo, rr, given, made, crashes>>

-----------------------------------------------------------------------------
\* Broken form: the delta's state is stored before its records are applied.
Crash_StateFirst(s) ==
  /\ job[s] # NoJob
  /\ crashes < MaxCrashes
  /\ crashes' = crashes + 1
  /\ job' = [job EXCEPT ![s] = NoJob]
  /\ UNCHANGED <<edge, fold, redo, rr, given, reopened, made>>

\* A run dies between two statements.  A delta's state is stored last, so the
\* next run applies its records again.
Crash(s) ==
  /\ job[s] # NoJob
  /\ crashes < MaxCrashes
  /\ crashes' = crashes + 1
  /\ redo' = IF s \in {"psc", "gleif"} THEN [redo EXCEPT ![s] = {job[s].st}] ELSE redo
  /\ job' = [job EXCEPT ![s] = NoJob]
  /\ UNCHANGED <<edge, fold, rr, given, reopened, made>>

Next ==
  \/ "sec" \in Writer /\ SecStep
  \/ "wikidata" \in Writer /\ WikidataStep
  \/ "psc" \in Writer /\ PscStep
  \/ "gleif" \in Writer /\ GleifStep
  \/ DedupFolds \/ DedupDeletes
  \/ \E s \in Writer : Crash(s)

Spec == Init /\ [][Next]_vars

-----------------------------------------------------------------------------

AtRest == fold = {} /\ \A s \in Source : job[s] = NoJob

\* One active OWNS edge per (owner, owned) pair, whichever sources assert it.
OneActiveEdge == AtRest => Cardinality(Open) <= 1

\* Writers that work one after another draw a second active edge only beside one
\* that a delta reopened.
OneActiveUnlessReopened == reopened # "yes" => OneActiveEdge

\* An answer moves to a source that ranks strictly higher, so two sources that
\* assert the pair night after night cannot flip it back and forth.
HigherAnswerKept ==
  [][\A i \in Open :
       reopened = "never" /\ i \in Open' /\ edge'[i].score # edge[i].score =>
         Above(edge'[i].score, edge'[i].stake, edge[i].score, edge[i].stake)]_vars

\* The id, stake and score on an edge describe one source, and the date that
\* source or none, whatever crashed - once the delta has been applied again, on
\* a pair that never had two active edges for a writer to rewrite together.
AnswerOfOneSource ==
  AtRest /\ (\A s \in Source : redo[s] = {}) /\ reopened = "never" =>
    \A i \in Edges : edge[i].score = edge[i].by /\ edge[i].dated \in {edge[i].by, "none"}

\* Retiring one of GLEIF's two relationships leaves the other a live holding.
OtherRelationshipStands ==
  AtRest /\ redo["gleif"] = {} /\ (\E m \in {"direct", "indirect"} : rr[m].on) => Open # {}

\* The direct relationship over, the ultimate one goes on from its own start.
UltimateStartRestored ==
  AtRest =>
    \A i \in Open : edge[i].by = "gleif" /\ edge[i].marker = "indirect" /\ rr["indirect"].day # 0 =>
      edge[i].start.day \in 1 .. rr["indirect"].day
=============================================================================
