---------------------------- MODULE Subsidiaries ----------------------------
(***************************************************************************)
(* A filer's annual subsidiary lists (10-K Exhibit 21, 20-F Exhibit 8.1)   *)
(* and the three passes that draw its group from the filings: the newest   *)
(* list (run_sec_ex21), the oldest listing of each subsidiary              *)
(* (run_sec_ex21_history), and the acquisitions its statements name        *)
(* (run_sec_acquisitions) - beside each other, beside GLEIF's relationship *)
(* records, and each dying between two of its statements.                  *)
(*                                                                         *)
(* A pair has at most one active edge here (SharedEdge is about the pair)  *)
(* and no edge ends; stakes and layout markers are left out.  Year y's     *)
(* list describes the day 3y-1 and is filed on the day 3y.                 *)
(***************************************************************************)
EXTENDS Naturals, Sequences, FiniteSets

CONSTANTS
  Filer,       \* the company that files
  Sub,         \* the companies its lists name
  Exhibits,    \* what an annual filing may hold: [own, rows]
  Deals,       \* the acquisitions its statements name: [sub, closing]
  MaxYears,    \* bound: annual filings
  MaxQuarters, \* bound: quarterly reports
  MaxGleif,    \* bound: relationships GLEIF states
  MaxCrashes,  \* bound: passes that die
  Related,     \* the pairs GLEIF may state
  Beside       \* bound: may two passes run beside each other

Node == Sub \cup {Filer}
Pair == {p \in Node \X Sub : p[1] # p[2]}
None == "none"

VARIABLES
  filed,      \* the annual filings: a sequence of exhibits
  quarters,   \* the quarterly reports so far
  edge,       \* the active OWNS edge of each pair
  claim,      \* the claims of each pair: the SEC's by filing family, GLEIF's
  ingested,   \* Entity.sec_ex21_ingested: the list, by its year, last drawn
  dealt,      \* Entity.sec_acquisitions_ingested: the report last read
  job,        \* what each pass is doing
  gleifs,     \* GLEIF's statements so far
  crashes,    \* crashes so far
  torn        \* history: the pairs whose withdrawal a crash cut in two

vars == <<filed, quarters, edge, claim, ingested, dealt, job, gleifs, crashes, torn>>

NoEdge  == [src |-> None, form |-> None, url |-> 0, stale |-> FALSE, since |-> 0, basis |-> None]
NoClaim == [made |-> FALSE, since |-> 0, basis |-> None]
Family  == {"list", "deal", "gleif"}
Basis   == {None, "first_listed", "newly_listed"}
Pass    == {"list", "dates", "deals"}
Idle    == [at |-> "idle"]

TypeOK ==
  /\ filed \in Seq(Exhibits) /\ Len(filed) <= MaxYears /\ quarters \in 0 .. MaxQuarters
  /\ edge \in [Pair -> [src : {None, "sec", "gleif"}, form : {None, "list", "deal"},
                        url : 0 .. MaxYears, stale : BOOLEAN, since : Nat, basis : Basis]]
  /\ claim \in [Pair -> [Family -> [made : BOOLEAN, since : Nat, basis : Basis]]]
  /\ ingested \in 0 .. Len(filed) /\ dealt \in 0 .. quarters
  /\ crashes \in 0 .. MaxCrashes /\ torn \subseteq Pair

Init ==
  /\ filed = <<>> /\ quarters = 0
  /\ edge = [p \in Pair |-> NoEdge]
  /\ claim = [p \in Pair |-> [f \in Family |-> NoClaim]]
  /\ ingested = 0 /\ dealt = 0
  /\ job = [p \in Pass |-> Idle]
  /\ gleifs = 0 /\ crashes = 0 /\ torn = {}

AsOf(y) == 3 * y - 1

-----------------------------------------------------------------------------
(* What the filings say *)

Years       == DOMAIN filed
HasOwn(y)   == filed[y].own = "list"
Rows(y)     == filed[y].rows
Named(y)    == DOMAIN Rows(y)
OwnBefore(y) == {x \in 1 .. y : HasOwn(x)}

\* fetch_subsidiaries: the list of the newest annual filing, or the earlier
\* one that filing incorporates by reference; 0 when it has none.
NewestList ==
  IF filed = <<>> \/ filed[Len(filed)].own = None \/ OwnBefore(Len(filed)) = {} THEN 0
  ELSE CHOOSE y \in OwnBefore(Len(filed)) : \A x \in OwnBefore(Len(filed)) : x <= y

Holder(y, s)  == Rows(y)[s].parent
CoHolders(y, s) == Rows(y)[s].co \ {Holder(y, s), s}
Holders(y)    == {Filer} \cup {Holder(y, s) : s \in Named(y)}
Nested(y, s)  == Holder(y, s) # Filer

\* fetch_subsidiary_history: a filing without a list of its own is a gap.
Lists(y, s) == HasOwn(y) /\ s \in Named(y)

\* The unbroken run of lists that name s, counted back from the newest filing.
Run(s) == {y \in Years : \A x \in y .. Len(filed) : Lists(x, s)}

\* earliest_listing, for a name the newest filing lists.
EarliestListing(s) ==
  LET first == CHOOSE y \in Run(s) : \A x \in Run(s) : y <= x IN
  [since |-> AsOf(first),
   basis |-> IF first > 1 /\ HasOwn(first - 1) /\ ~\E x \in 1 .. first - 1 : Lists(x, s)
             THEN "newly_listed" ELSE "first_listed"]

-----------------------------------------------------------------------------
(* The writers of one pair *)

\* combine_since: the earliest date, a stated one before a bound.
Combine(old, new) ==
  IF new.since = 0 \/ (old.since # 0 /\ old.since < new.since)
       \/ (old.since = new.since /\ old.basis = None) THEN old
  ELSE [old EXCEPT !.since = new.since, !.basis = new.basis]

Undated == [since |-> 0, basis |-> None]

\* _write_owns_sec: the SEC's edge is updated, GLEIF's taken over (98 against
\* 92), or one is created; each way the edge is current again.
Stated(e, form, url, dates) ==
  [Combine(e, dates) EXCEPT !.src = "sec", !.form = form, !.url = url, !.stale = FALSE]

\* write_acquisition_sec: an edge of the SEC's that another filing drew is
\* dated, and confirmed.
Bought(e, closing) ==
  LET dates == [since |-> closing, basis |-> None] IN
  IF e.src = "sec" /\ e.form # "deal" THEN [Combine(e, dates) EXCEPT !.stale = FALSE]
  ELSE Stated(e, "deal", 0, dates)

\* set_since_lower_bound, on an edge and on a claim: earlier, or the same day
\* with the other listing basis.
Bounded(x, bound) ==
  IF \/ x.since = 0 \/ bound.since < x.since
     \/ bound.since = x.since /\ x.basis \notin {None, bound.basis}
  THEN [x EXCEPT !.since = bound.since, !.basis = bound.basis] ELSE x

\* edge_values_from(claims_for) after a withdrawal: the answer that is left.
Reanswered(e, c) ==
  CASE c["deal"].made  -> [e EXCEPT !.src = "sec", !.form = "deal", !.url = 0,
                                    !.since = c["deal"].since, !.basis = c["deal"].basis]
    [] ~c["deal"].made /\ c["gleif"].made ->
         [e EXCEPT !.src = "gleif", !.form = None, !.url = 0, !.since = 0, !.basis = None]
    [] OTHER -> NoEdge

Do(p, j)     == job' = [job EXCEPT ![p] = j]
At(p, place) == job[p].at = place
Free(p) == \A q \in Pass : (q = p \/ ~Beside) => At(q, "idle")
Claimed(p, f, dates) ==
  claim' = [claim EXCEPT ![p][f] = [made |-> TRUE, since |-> dates.since, basis |-> dates.basis]]

-----------------------------------------------------------------------------
(* The world *)

FileAnnual(x) ==
  /\ Len(filed) < MaxYears
  /\ filed' = Append(filed, x)
  /\ UNCHANGED <<quarters, edge, claim, ingested, dealt, job, gleifs, crashes, torn>>

FileQuarterly ==
  /\ quarters < MaxQuarters
  /\ quarters' = quarters + 1
  /\ UNCHANGED <<filed, edge, claim, ingested, dealt, job, gleifs, crashes, torn>>

\* A relationship record of GLEIF's: it ranks below the SEC and confirms
\* nothing that the SEC drew.
GleifStates(p) ==
  /\ gleifs < MaxGleif
  /\ gleifs' = gleifs + 1
  /\ Claimed(p, "gleif", Undated)
  /\ edge' = [edge EXCEPT ![p] = IF @ = NoEdge THEN [NoEdge EXCEPT !.src = "gleif"] ELSE @]
  /\ UNCHANGED <<filed, quarters, ingested, dealt, job, crashes, torn>>

-----------------------------------------------------------------------------
(* run_sec_ex21 *)

\* Broken form: a pass that dies has already put its stamp.
OpenList_Stamped(force) ==
  /\ Free("list") /\ NewestList # 0
  /\ force \/ ingested # NewestList
  /\ ingested' = NewestList
  /\ Do("list", [at |-> "rows", y |-> NewestList, rows |-> Named(NewestList), row |-> None])
  /\ UNCHANGED <<filed, quarters, edge, claim, dealt, gleifs, crashes, torn>>

\* One list is drawn once, unless it is forced.
OpenList(force) ==
  /\ Free("list") /\ NewestList # 0
  /\ force \/ ingested # NewestList
  /\ Do("list", [at |-> "rows", y |-> NewestList, rows |-> Named(NewestList), row |-> None])
  /\ UNCHANGED <<filed, quarters, edge, claim, ingested, dealt, gleifs, crashes, torn>>

\* One row of the list: the co-holders' edges, then the holder's.
DrawRow(s) ==
  /\ At("list", "rows") /\ s \in job["list"].rows
  /\ LET y == job["list"].y
         drawn == {<<o, s>> : o \in CoHolders(y, s) \cup {Holder(y, s)}}
     IN /\ edge' = [p \in Pair |-> IF p \in drawn THEN Stated(edge[p], "list", y, Undated) ELSE edge[p]]
        \* the claim keeps the bound a list dated it by (_LISTING_DATE_KEPT)
        /\ claim' = [p \in Pair |-> IF p \in drawn THEN [claim[p] EXCEPT !["list"].made = TRUE] ELSE claim[p]]
        /\ Do("list", [job["list"] EXCEPT !.at = IF Nested(y, s) THEN "withdraw" ELSE "rows",
                                          !.rows = @ \ {s}, !.row = s])
        /\ torn' = torn \ drawn
  /\ UNCHANGED <<filed, quarters, ingested, dealt, gleifs, crashes>>

\* detach_owns_sec: the claim that the filer holds the row directly ...
Withdraw ==
  /\ At("list", "withdraw")
  /\ LET p == <<Filer, job["list"].row>> IN
     /\ claim' = [claim EXCEPT ![p]["list"] = NoClaim]
     /\ Do("list", [job["list"] EXCEPT !.at = "detach"])
  /\ UNCHANGED <<filed, quarters, edge, ingested, dealt, gleifs, crashes, torn>>

\* Broken form: the edge goes whatever else is claimed of the pair.
Detach_Always ==
  /\ At("list", "detach")
  /\ LET p == <<Filer, job["list"].row>> IN
     /\ edge' = [edge EXCEPT ![p] = IF @.src = "sec" THEN NoEdge ELSE @]
     /\ torn' = torn \ {p}
  /\ Do("list", [job["list"] EXCEPT !.at = "rows"])
  /\ UNCHANGED <<filed, quarters, claim, ingested, dealt, gleifs, crashes>>

\* ... then the edge, if it is the SEC's: deleted, or the answer of another claim.
Detach ==
  /\ At("list", "detach")
  /\ LET p == <<Filer, job["list"].row>> IN
     /\ edge' = [edge EXCEPT ![p] = IF @.src = "sec" THEN Reanswered(@, claim[p]) ELSE @]
     /\ torn' = torn \ {p}
  /\ Do("list", [job["list"] EXCEPT !.at = "rows"])
  /\ UNCHANGED <<filed, quarters, claim, ingested, dealt, gleifs, crashes>>

\* Broken form: only what the list before this one drew.
Unlisted_YearBefore(p, y) ==
  p[1] \in Holders(y) /\ edge[p].form = "list" /\ edge[p].url + 1 = y

\* mark_ex21_stale: an edge that hangs off a holder of this list and that an
\* older list drew.
Unlisted(p, y) ==
  p[1] \in Holders(y) /\ edge[p].form = "list" /\ edge[p].url < y

Dim ==
  /\ At("list", "rows") /\ job["list"].rows = {}
  /\ LET y == job["list"].y IN
     /\ edge' = [p \in Pair |-> IF Unlisted(p, y) THEN [edge[p] EXCEPT !.stale = TRUE] ELSE edge[p]]
     /\ Do("list", [job["list"] EXCEPT !.at = "stamp"])
  /\ UNCHANGED <<filed, quarters, claim, ingested, dealt, gleifs, crashes, torn>>

Stamp ==
  /\ At("list", "stamp")
  /\ ingested' = job["list"].y
  /\ Do("list", Idle)
  /\ UNCHANGED <<filed, quarters, edge, claim, dealt, gleifs, crashes, torn>>

-----------------------------------------------------------------------------
(* run_sec_ex21_history *)

\* The listed edges below the filer, walked from it down: over a subsidiary
\* the first edge that reaches it.
Below(owners) == {p[2] : p \in {q \in Pair : q[1] \in owners /\ edge[q] # NoEdge /\ claim[q]["list"].made}}
Tree == LET closed == {t \in SUBSET Node : Filer \in t /\ Below(t) \subseteq t}
        IN CHOOSE t \in closed : \A u \in closed : t \subseteq u

OpenHistory ==
  /\ Free("dates") /\ filed # <<>>
  /\ \E todo \in SUBSET {p \in Pair : p[1] \in Tree /\ edge[p] # NoEdge /\ claim[p]["list"].made} :
       /\ todo # {} /\ {p[2] : p \in todo} = Below(Tree)
       /\ \A p, q \in todo : p[2] = q[2] => p = q
       /\ Do("dates", [at |-> "date", todo |-> todo])
  /\ UNCHANGED <<filed, quarters, edge, claim, ingested, dealt, gleifs, crashes, torn>>

Date(p) ==
  /\ At("dates", "date") /\ p \in job["dates"].todo
  /\ IF Run(p[2]) # {} /\ claim[p]["list"].made
     THEN LET bound == EarliestListing(p[2]) IN
          /\ edge' = [edge EXCEPT ![p] = IF @ = NoEdge THEN @ ELSE Bounded(@, bound)]
          /\ claim' = [claim EXCEPT ![p]["list"] = Bounded(@, bound)]
     ELSE UNCHANGED <<edge, claim>>
  /\ Do("dates", IF job["dates"].todo = {p} THEN Idle ELSE [job["dates"] EXCEPT !.todo = @ \ {p}])
  /\ UNCHANGED <<filed, quarters, ingested, dealt, gleifs, crashes, torn>>

-----------------------------------------------------------------------------
(* run_sec_acquisitions *)

\* A newer 10-Q opens the gate, and every report within reach is read again.
OpenReports(force) ==
  /\ Free("deals") /\ quarters > 0
  /\ force \/ dealt # quarters
  /\ Do("deals", [at |-> "deal", todo |-> Deals, quarter |-> quarters])
  /\ UNCHANGED <<filed, quarters, edge, claim, ingested, dealt, gleifs, crashes, torn>>

Acquire(d) ==
  /\ At("deals", "deal") /\ d \in job["deals"].todo
  /\ LET p == <<Filer, d.sub>> IN
     /\ edge' = [edge EXCEPT ![p] = Bought(@, d.closing)]
     /\ Claimed(p, "deal", [since |-> d.closing, basis |-> None])
  /\ Do("deals", [job["deals"] EXCEPT !.todo = @ \ {d}])
  /\ UNCHANGED <<filed, quarters, ingested, dealt, gleifs, crashes, torn>>

StampReports ==
  /\ At("deals", "deal") /\ job["deals"].todo = {}
  /\ dealt' = job["deals"].quarter
  /\ Do("deals", Idle)
  /\ UNCHANGED <<filed, quarters, edge, claim, ingested, gleifs, crashes, torn>>

Die(p) ==
  /\ ~At(p, "idle") /\ crashes < MaxCrashes
  /\ crashes' = crashes + 1
  /\ Do(p, Idle)
  /\ torn' = IF p = "list" /\ At(p, "detach") THEN torn \cup {<<Filer, job[p].row>>} ELSE torn
  /\ UNCHANGED <<filed, quarters, edge, claim, ingested, dealt, gleifs>>

Next ==
  \/ \E x \in Exhibits : FileAnnual(x)
  \/ FileQuarterly
  \/ \E p \in Related : GleifStates(p)
  \/ \E p \in Pair : Date(p)
  \/ \E force \in BOOLEAN : OpenList(force) \/ OpenReports(force)
  \/ \E s \in Sub : DrawRow(s)
  \/ Withdraw \/ Detach \/ Dim \/ Stamp
  \/ OpenHistory
  \/ \E d \in Deals : Acquire(d)
  \/ StampReports
  \/ \E p \in Pass : Die(p)

Spec == Init /\ [][Next]_vars

-----------------------------------------------------------------------------

\* The newest list has been drawn, and no pass is drawing it again.
Drawn == At("list", "idle") /\ NewestList # 0 /\ ingested = NewestList

ListedPairs(y) == UNION {{<<o, s>> : o \in CoHolders(y, s) \cup {Holder(y, s)}} : s \in Named(y)}

\* Whatever died on the way, once a list is drawn every holding it states is a
\* current edge of its holder, and a row under an intermediate parent hangs off
\* that parent and not off the filer.
GraphShowsList ==
  Drawn =>
    /\ \A p \in ListedPairs(ingested) \ {<<Filer, s>> : s \in {t \in Named(ingested) : Nested(ingested, t)}} :
         edge[p].form = "list" /\ ~edge[p].stale
    /\ \A s \in Named(ingested) : Nested(ingested, s) => edge[<<Filer, s>>].form # "list"

\* The edges of the list's holders that it no longer names are dimmed, but for
\* those an acquisition is claimed of.
UnlistedDimmed ==
  Drawn => \A p \in Pair \ ListedPairs(ingested) :
    p[1] \in Holders(ingested) /\ edge[p].form = "list" /\ ~claim[p]["deal"].made => edge[p].stale

\* An edge never cites a source for what that source withdrew, and a withdrawal
\* takes no other source's answer along: an edge stands where a claim stands,
\* and a claim of the source it cites.  A pass that dies between the two statements
\* of a withdrawal leaves the edge behind, until a list names the company again.
AnswerIsClaimed ==
  Drawn => \A p \in Pair \ torn :
    /\ (edge[p] = NoEdge) = (\A f \in Family : ~claim[p][f].made)
    /\ edge[p] # NoEdge => claim[p][IF edge[p].src = "sec" THEN edge[p].form ELSE "gleif"].made

\* detach_owns_sec: the edge "never keeps citing SEC for a fact SEC withdrew".
NeverCitesWithdrawn ==
  Drawn => \A p \in Pair : edge[p].form = "list" => claim[p]["list"].made

\* mark_ex21_stale: "Dim the subsidiary edges the newest Exhibit 21/8.1 no
\* longer lists."
ListedOrDimmed ==
  Drawn => \A p \in Pair \ ListedPairs(ingested) : edge[p].form = "list" => edge[p].stale

\* run_sec_ex21: a cell naming co-holders "draws each co-holder's stake too, when
\* the co-holder is itself on the list or is the filer".
CoHoldersDrawn ==
  Drawn => \A p \in ListedPairs(ingested) : edge[p].form = "list"
=============================================================================
