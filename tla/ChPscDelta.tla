----------------------------- MODULE ChPscDelta -----------------------------
(***************************************************************************)
(* The UK register of persons with significant control: the first load of  *)
(* a snapshot (companies_house_psc) and the refresh that computes the      *)
(* delta the register does not publish (ch_psc_incremental), by comparing  *)
(* today's file with the digest of the last one applied.                   *)
(*                                                                         *)
(* A record of the snapshot is an appointment, and carries the link its    *)
(* edge is found by.  Appointments of one owner in one company share the   *)
(* pair: the claim is the pair's, and a new appointment takes over the     *)
(* live edge of an older one.  Days are snapshot dates.  Edges other       *)
(* sources draw or hold are SharedEdge's, and nodes a merge folded away    *)
(* MergeRedirect's.                                                        *)
(***************************************************************************)
EXTENDS Naturals, Sequences, FiniteSets

CONSTANTS
  Rec,             \* appointments, by data.links.self
  Pair, PairOf,    \* an owner and a company; the pair of an appointment
  FirstFiles,      \* the snapshots there can be to begin with
  MaxDay,          \* bound: snapshots published
  MaxMoves,        \* bound: records that change from one day to the next
  Scopes,          \* the scopes of a first load: "full", "subset"
  ChurnPct,        \* max_churn_pct, for one day
  ChurnCeiling,    \* MAX_CHURN_CEILING_PCT
  MaxFaults        \* bound: crashes, records that raise, clean-ups that fail,
                   \* and the operator's escapes, --force and --rebuild-digest

ASSUME RecAssumption   == IsFiniteSet(Rec)
ASSUME PairAssumption  == PairOf \in [Rec -> Pair]
ASSUME FirstAssumption == FirstFiles \subseteq [Rec -> {"absent", "live", "ceased"}]
ASSUME BoundAssumption == MaxDay \in Nat /\ MaxMoves \in Nat /\ MaxFaults \in Nat
ASSUME ScopeAssumption == Scopes \subseteq {"full", "subset"}
ASSUME ChurnAssumption == ChurnPct \in Nat /\ ChurnCeiling \in Nat

VARIABLES
  log,      \* the snapshots published so far
  here,     \* the pairs whose company the database holds
  edges,    \* the OWNS edges
  claim,    \* of each pair, PSC's claim
  digest,   \* the snapshot the live digest file describes, or 0: no file
  scope,    \* ImportState ch-psc-full-load
  last,     \* ImportState ch-psc-refresh: snapshot_date
  job,      \* the import or refresh under the import lock
  faults,   \* faults so far
  settled,  \* history: the snapshot the graph was last said to show
  work,     \* history: the records the last unfinished run wrote, of which day
  stray,    \* history: records a dead run wrote and no later one rewrote
  owed,     \* history: records passed over, forfeited or left out
  twins     \* history: pairs that had two live appointments in one snapshot

files  == <<digest, scope, last>>
memory == <<settled, work, stray, owed, twins>>
vars   == <<log, here, edges, claim, digest, scope, last, job, faults, settled, work, stray, owed, twins>>

Statement == {"absent", "live", "ceased"}
EdgeRow   == [link : Rec, state : {"live", "ceased", "withdrawn"}]
Idle      == [at |-> "idle"]
Fault     == faults < MaxFaults /\ faults' = faults + 1

Stated(day, r) == IF day = 0 THEN "absent" ELSE log[day][r]
Of(p)          == {r \in Rec : PairOf[r] = p}
LiveIn(day, p) == {r \in Of(p) : Stated(day, r) = "live"}
OpenOf(p)      == {e \in edges : PairOf[e.link] = p /\ e.state = "live"}
Twinned(day)   == {p \in Pair : Cardinality(LiveIn(day, p)) > 1}

TypeOK ==
  /\ \A d \in DOMAIN log : log[d] \in [Rec -> Statement]
  /\ here \subseteq Pair /\ edges \subseteq EdgeRow
  /\ claim \in [Pair -> {"none", "live", "ended"}]
  /\ digest \in 0 .. Len(log) /\ last \in 0 .. Len(log) /\ settled \in 0 .. Len(log)
  /\ scope \in {"none", "full", "subset"}
  /\ job = Idle \/ (job.day \in DOMAIN log /\ job.todo \subseteq Rec /\ job.gone \subseteq Rec)
  /\ work.recs \subseteq Rec /\ stray \subseteq Rec /\ owed \subseteq Rec /\ twins \subseteq Pair
  /\ faults \in 0 .. MaxFaults

Init ==
  /\ log \in [1 .. 1 -> FirstFiles]
  /\ here \in SUBSET Pair
  /\ edges = {}
  /\ claim = [p \in Pair |-> "none"]
  /\ digest = 0 /\ scope = "none" /\ last = 0
  /\ job = Idle
  /\ faults = 0
  /\ settled = 0 /\ work = [day |-> 0, recs |-> {}] /\ stray = {} /\ owed = {} /\ twins = {}

At(place)   == job.at = place
Goto(place) == job' = [job EXCEPT !.at = place]
Doing(place, day, todo, gone, known) ==
  [at |-> place, day |-> day, todo |-> todo, gone |-> gone, known |-> known]

-----------------------------------------------------------------------------
(* The world: the register, and the rest of the database *)

Publish ==
  /\ Len(log) < MaxDay
  /\ \E today \in [Rec -> Statement] :
       /\ Cardinality({r \in Rec : today[r] # log[Len(log)][r]}) <= MaxMoves
       /\ log' = Append(log, today)
  /\ UNCHANGED <<here, edges, claim, files, job, faults, memory>>

\* Another import loads a company.
Join(p) ==
  /\ p \notin here
  /\ here' = here \cup {p}
  /\ UNCHANGED <<log, edges, claim, files, job, faults, memory>>

-----------------------------------------------------------------------------
(* The edges of one record *)

\* Broken form: an appointment that has ended is drawn as one that stands.
Mapped_Live(statement) == IF statement = "absent" THEN "ceased" ELSE "live"

\* psc_record: what the record says of the edge, and of the pair's claim.
Mapped(statement) == IF statement = "live" THEN "live" ELSE "ceased"
Claimed(statement) == IF statement = "live" THEN "live" ELSE "ended"

Known(r) == \E e \in edges : e.link = r

\* _flush_updates: the record is the whole truth about its appointment, so a
\* correction reopens the edge as well.
Updated(r, statement) ==
  {[e EXCEPT !.state = IF e.link = r THEN Mapped(statement) ELSE @] : e \in edges}

\* A live appointment without an edge takes over the live edge of its pair; a
\* ceased one is history and keeps its own.
Adopted(r, statement) == IF ~Known(r) /\ statement = "live" THEN OpenOf(PairOf[r]) ELSE {}

\* _create.
Created(r, statement) ==
  (edges \ Adopted(r, statement)) \cup {[link |-> r, state |-> Mapped(statement)]}

\* _PscEdgeWriter.flush sorts a batch into updates and creates.
Written(r, statement) == IF Known(r) THEN Updated(r, statement) ELSE Created(r, statement)

\* Records are written from the job's file, and edges are taken from others.
Wrote(rs, taken) ==
  /\ work' = [work EXCEPT !.recs = @ \cup rs \cup taken]
  /\ owed' = owed \ rs
  /\ stray' = stray \ rs
  /\ UNCHANGED <<settled, twins>>

\* A run on another file than the one that died leaves astray what that one wrote.
Begin(day) ==
  /\ work' = [day |-> day, recs |-> IF work.day = day THEN work.recs ELSE {}]
  /\ stray' = IF work.day = day THEN stray ELSE stray \cup work.recs
  /\ twins' = twins \cup Twinned(day)

\* The graph is said to show the day.
Settled(day) == settled' = day /\ work' = [day |-> 0, recs |-> {}]

-----------------------------------------------------------------------------
(* import_ch_psc, run_import_ch_psc: the first load *)

\* A narrowed load takes some companies' records only; its digest describes the
\* whole snapshot all the same.  A record the graph shows live from a load that
\* died, and which no longer is, is not corrected by a load.
StartLoad(day, extent) ==
  /\ job = Idle /\ scope = "none"
  /\ \E chosen \in (IF extent = "full" THEN {Pair} ELSE SUBSET Pair) :
       LET stated == {r \in Rec : Stated(day, r) # "absent"}
           mine   == {r \in stated : PairOf[r] \in chosen}
       IN /\ job' = Doing("load", day, mine, {}, {extent})
          /\ here' = here \cup {PairOf[r] : r \in mine}
          /\ owed' = (owed \cup (stated \ mine))
                     \cup {e.link : e \in {o \in edges : o.state = "live" /\ Stated(day, o.link) # "live"}}
  /\ Begin(day)
  /\ UNCHANGED <<log, edges, claim, files, faults, settled>>

\* _BatchWriter.owns: a load always draws an edge of its own.
LoadRecord(r) ==
  /\ At("load") /\ r \in job.todo
  /\ LET statement == Stated(job.day, r) IN
     /\ edges' = edges \cup {[link |-> r, state |-> Mapped(statement)]}
     /\ claim' = [claim EXCEPT ![PairOf[r]] = Claimed(statement)]
     /\ job' = [job EXCEPT !.todo = @ \ {r}]
  /\ work' = [work EXCEPT !.recs = @ \cup {r}]
  /\ UNCHANGED <<log, here, files, faults, settled, stray, owed, twins>>

\* The sidecar is finished after the last batch, then the scope is marked, then
\* the snapshot's date.
FinishDigest ==
  /\ At("load") /\ job.todo = {}
  /\ digest' = job.day
  /\ Settled(job.day)
  /\ Goto("mark")
  /\ UNCHANGED <<log, here, edges, claim, scope, last, faults, stray, owed, twins>>

MarkLoad ==
  /\ At("mark")
  /\ scope' = CHOOSE extent \in job.known : TRUE
  /\ Goto("loaded")
  /\ UNCHANGED <<log, here, edges, claim, digest, last, faults, memory>>

DateLoad ==
  /\ At("loaded")
  /\ last' = job.day
  /\ Goto("clean-up")
  /\ UNCHANGED <<log, here, edges, claim, digest, scope, faults, memory>>

\* deduplicate_owns_edges: of the active edges of a pair one stays.
CleanUp ==
  /\ At("clean-up")
  /\ \E kept \in SUBSET {e \in edges : e.state = "live"} :
       /\ \A p \in Pair : OpenOf(p) # {} => Cardinality(kept \cap OpenOf(p)) = 1
       /\ edges' = {e \in edges : e.state # "live"} \cup kept
       /\ stray' = stray \cup {e.link : e \in {o \in edges \ kept : o.state = "live"}}
  /\ job' = Idle
  /\ UNCHANGED <<log, here, claim, files, faults, settled, work, owed, twins>>

CleanUpFails ==
  /\ At("clean-up")
  /\ Fault
  /\ job' = Idle
  /\ UNCHANGED <<log, here, edges, claim, files, memory>>

-----------------------------------------------------------------------------
(* run_ch_psc_update: the refresh *)

\* Broken form: only what was there before is compared.
Touched_ChangedOnly(from, to) ==
  {r \in Rec : Stated(from, r) # "absent" /\ Stated(to, r) \notin {"absent", Stated(from, r)}}

\* diff_digests.
Touched(from, to) == {r \in Rec : Stated(to, r) \notin {"absent", Stated(from, r)}}
Gone(from, to)    == {r \in Rec : Stated(from, r) # "absent" /\ Stated(to, r) = "absent"}

Records(day) == Cardinality({r \in Rec : Stated(day, r) # "absent"})
Smaller(a, b) == IF a < b THEN a ELSE b

\* churn_allowed, for the days since the last snapshot applied.
Plausible(from, to) ==
  LET gap   == IF last = 0 \/ Len(log) <= last THEN 1 ELSE Len(log) - last
      base  == IF Records(from) # 0 THEN Records(from) ELSE Records(to)
      moved == Cardinality(Touched(from, to) \cup Gone(from, to))
  IN moved * 100 <= Smaller(ChurnPct * gap, ChurnCeiling) * base

\* Every check comes before the first write.  The digest of the new file stays in
\* a temporary file.  A subset baseline refreshes only companies it holds.
Refresh(day, force) ==
  /\ job = Idle
  /\ scope # "none" /\ digest # 0
  /\ IF force THEN Fault ELSE day > last /\ Plausible(digest, day) /\ UNCHANGED faults
  /\ job' = Doing("apply", day, Touched(digest, day), Gone(digest, day),
                  IF scope = "full" THEN Pair ELSE here)
  /\ Begin(day)
  /\ UNCHANGED <<log, here, edges, claim, files, settled, owed>>

ApplyRecord(r) ==
  /\ At("apply") /\ r \in job.todo
  /\ job' = [job EXCEPT !.todo = @ \ {r}]
  /\ IF PairOf[r] \in job.known
     THEN LET statement == Stated(job.day, r) IN
          /\ edges' = Written(r, statement)
          /\ claim' = [claim EXCEPT ![PairOf[r]] = Claimed(statement)]
          /\ Wrote({r}, {e.link : e \in Adopted(r, statement)})
     ELSE /\ owed' = owed \cup {r}
          /\ UNCHANGED <<edges, claim, settled, work, stray, twins>>
  /\ UNCHANGED <<log, here, files, faults>>

\* One bad line must not abort: a record that raises is counted and passed over.
PassOver(r) ==
  /\ At("apply") /\ r \in job.todo
  /\ Fault
  /\ job' = [job EXCEPT !.todo = @ \ {r}]
  /\ owed' = owed \cup {r}
  /\ UNCHANGED <<log, here, edges, claim, files, settled, work, stray, twins>>

\* close_vanished: the edges first.  A ceased edge keeps its end.
CloseEdges ==
  /\ At("apply") /\ job.todo = {}
  /\ edges' = {[e EXCEPT !.state = IF e.link \in job.gone /\ @ = "live" THEN "withdrawn" ELSE @] : e \in edges}
  /\ Wrote(job.gone, {})
  /\ Goto("claims")
  /\ UNCHANGED <<log, here, claim, files, faults>>

\* The claims are reached through the edges that carry the links.
CloseClaims ==
  /\ At("claims")
  /\ LET ends == {PairOf[e.link] : e \in {o \in edges : o.link \in job.gone}} IN
     claim' = [p \in Pair |-> IF p \in ends THEN "ended" ELSE claim[p]]
  /\ Goto("rotate")
  /\ UNCHANGED <<log, here, edges, files, faults, memory>>

\* rotate_digest: the live digest becomes the previous one, the new one live.
Retire ==
  /\ At("rotate")
  /\ digest' = 0
  /\ Goto("install")
  /\ UNCHANGED <<log, here, edges, claim, scope, last, faults, memory>>

Install ==
  /\ At("install")
  /\ digest' = job.day
  /\ Settled(job.day)
  /\ Goto("date")
  /\ UNCHANGED <<log, here, edges, claim, scope, last, faults, stray, owed, twins>>

\* write_last_snapshot.
DateRefresh ==
  /\ At("date")
  /\ last' = job.day
  /\ job' = Idle
  /\ UNCHANGED <<log, here, edges, claim, digest, scope, faults, memory>>

\* --rebuild-digest: a baseline without a graph; what changed since the last one
\* is forfeited.
Rebuild(day) ==
  /\ job = Idle
  /\ Fault
  /\ digest' = day
  /\ job' = Doing("date", day, {}, {}, {})
  /\ owed' = owed \cup {r \in Rec : Stated(settled, r) # Stated(day, r)}
  /\ stray' = stray \cup work.recs
  /\ twins' = twins \cup Twinned(day)
  /\ Settled(day)
  /\ UNCHANGED <<log, here, edges, claim, scope, last>>

\* The process dies: files and rows stay as they are, a temporary digest is
\* never looked for again.
Crash ==
  /\ job # Idle
  /\ Fault
  /\ job' = Idle
  /\ UNCHANGED <<log, here, edges, claim, files, memory>>

\* The file at hand is today's, or the one fetched the day before.
Files == {day \in DOMAIN log : day >= Len(log) - 1}

Step ==
  \/ \E r \in Rec : LoadRecord(r) \/ ApplyRecord(r)
  \/ FinishDigest \/ MarkLoad \/ DateLoad \/ CleanUp
  \/ CloseEdges \/ CloseClaims \/ Retire \/ Install \/ DateRefresh

Next ==
  \/ Step
  \/ Publish
  \/ \E p \in Pair : Join(p)
  \/ \E day \in Files :
       \/ \E extent \in Scopes : StartLoad(day, extent)
       \/ \E force \in BOOLEAN : Refresh(day, force)
       \/ Rebuild(day)
  \/ \E r \in Rec : PassOver(r)
  \/ CleanUpFails
  \/ Crash

Spec == Init /\ [][Next]_vars

-----------------------------------------------------------------------------

\* A pair the run vouches for: none of its records was passed over, forfeited or
\* left by a run that died, and it never had two live appointments at once.
Vouched(p) == Of(p) \cap (owed \cup stray \cup work.recs) = {} /\ p \notin twins

\* Between runs the graph shows each pair as the snapshot last settled states it:
\* one live edge exactly when an appointment is live - whatever was adopted,
\* reopened, withdrawn, interrupted and done again in between.
GraphMirrorsSnapshot ==
  job = Idle =>
    \A p \in Pair : Vouched(p) =>
      Cardinality(OpenOf(p)) = (IF LiveIn(settled, p) # {} THEN 1 ELSE 0)

\* rotate_digest's promise: a run that died costs nothing once another one has
\* come through.
CrashCostsNothing ==
  job = Idle /\ work.recs = {} =>
    \A p \in Pair : Of(p) \cap owed = {} /\ p \notin twins =>
      Cardinality(OpenOf(p)) = (IF LiveIn(settled, p) # {} THEN 1 ELSE 0)

\* close_vanished's promise: the provenance does not contradict the graph.
ClaimFollowsEdge ==
  job = Idle =>
    \A p \in Pair : Vouched(p) => (claim[p] = "live" <=> OpenOf(p) # {})

-----------------------------------------------------------------------------

\* The appointments that are alone on their pair, to the abstract mirror.
Solo == {r \in Rec : Of(PairOf[r]) = {r}}

View(r) ==
  IF \E e \in edges : e.link = r /\ e.state = "live" THEN "live"
  ELSE IF [link |-> r, state |-> "ceased"] \in edges THEN "ceased"
  ELSE IF [link |-> r, state |-> "withdrawn"] \in edges THEN "withdrawn"
  ELSE "none"

Mirror == INSTANCE RegisterMirror WITH
  Key   <- Solo,
  log   <- [d \in DOMAIN log |-> [r \in Solo |-> log[d][r]]],
  asOf  <- settled,
  shown <- [r \in Solo |-> View(r)],
  owed  <- Solo \cap (owed \cup stray)

\* The load, the refresh and their files implement the mirror.
MirrorSpec == Mirror!Spec
=============================================================================
