----------------------------- MODULE GleifDelta -----------------------------
(***************************************************************************)
(* The nightly GLEIF delta (runner.run_gleif_update, gleif_incremental) on *)
(* top of the full golden copy (ops.sh import: runner.                     *)
(* run_import_gleif_lei_cdf and run_import_gleif_rr).                      *)
(*                                                                         *)
(* GLEIF publishes again and again; a delta file of a publish holds every  *)
(* record changed within its window, as it stands in that publish.  The    *)
(* update keeps a checkpoint, the last publish it has applied, and picks   *)
(* the smallest window that reaches back to it.  Time is counted in        *)
(* publishes and kept as ages: 0 is the newest publish.  How a record is   *)
(* written onto an edge that others share is SharedEdge's subject.         *)
(***************************************************************************)
EXTENDS Naturals

CONSTANTS
  Lei,             \* legal entities
  Rel,             \* consolidation relationships
  Parent, Child,   \* of a relationship
  Window,          \* how far back each delta reaches
  MaxGap,          \* _INTERVAL_MAX_GAP_DAYS: the gap each is taken for
  MaxChanges,      \* bound: records GLEIF changes
  MaxRun,          \* bound: publishes that come while one job runs
  MaxEvents        \* bound: crashes, bad records, spot checks, databases dropped

Item     == Lei \cup Rel
Interval == {"LastDay", "LastWeek", "LastMonth"}

ASSUME EndsAssumption   == Parent \in [Rel -> Lei] /\ Child \in [Rel -> Lei] /\ Lei \cap Rel = {}
ASSUME WindowAssumption == Window \in [Interval -> Nat] /\ MaxGap \in [Interval -> Nat]
ASSUME OrderAssumption  == /\ Window["LastDay"] <= Window["LastWeek"]
                           /\ Window["LastWeek"] <= Window["LastMonth"]
                           /\ MaxGap["LastDay"] <= MaxGap["LastWeek"]
                           /\ MaxGap["LastWeek"] <= MaxGap["LastMonth"]
                           /\ MaxGap["LastMonth"] <= Window["LastMonth"]
ASSUME BoundAssumption  == MaxChanges \in Nat /\ MaxRun \in Nat /\ MaxEvents \in Nat

VARIABLES
  gleif,    \* what GLEIF states of each record
  changed,  \* the age of the publish that last changed it
  held,     \* what the database holds of it
  scope,    \* the baseline marker
  last,     \* the checkpoint: the age of the last publish applied, or NoPublish
  job,      \* the import or the update that runs; the import lock admits one
  loaded,   \* history: was it the golden copy's relationships too; its age when no
            \* update has come through yet; has the first one reached back to it
  dropped,  \* history: records an update has passed over as bad
  changes, events

vars == <<gleif, changed, held, scope, last, job, loaded, dropped, changes, events>>

Far       == Window["LastMonth"] + 1    \* no window reaches so far
NoPublish == Far + 1
Ages      == 0 .. Far
Statement == {"none", "active", "inactive"}
Idle      == [at |-> "idle"]
NoLoad    == [age |-> 0, relationships |-> FALSE, reached |-> FALSE]

Importing == [at : {"entities", "relationships"}, scope : {"full", "subset"}, says : [Item -> Statement],
              only : SUBSET Lei, of : Ages]
Updating  == [at : {"lei", "edges", "done"}, says : [Item -> Statement], todo : SUBSET Item,
              known : SUBSET Lei, onlyExisting : BOOLEAN, limited : BOOLEAN, of : Ages]

TypeOK ==
  /\ gleif \in [Item -> Statement]
  /\ changed \in [Item -> Ages]
  /\ \A e \in Lei : held[e] \in Statement \cup {"stub"}
  /\ \A r \in Rel : held[r] \in Statement
  /\ scope \in {"none", "subset", "full"}
  /\ last \in Ages \cup {NoPublish}
  /\ job \in {Idle} \cup Importing \cup Updating
  /\ loaded \in [age : Ages, relationships : BOOLEAN, reached : BOOLEAN]
  /\ dropped \subseteq Item
  /\ changes \in 0 .. MaxChanges /\ events \in 0 .. MaxEvents

Ends(r)  == {Parent[r], Child[r]}
\* existing_lei_ids
Here     == {e \in Lei : held[e] # "none"}
Event    == events < MaxEvents /\ events' = events + 1
At(step) == job.at = step

Empty == [i \in Item |-> "none"]

Init ==
  /\ gleif \in [Item -> {"none", "active"}]
  /\ \A r \in Rel : gleif[r] = "active" => \A e \in Ends(r) : gleif[e] = "active"
  /\ changed = [i \in Item |-> Far]
  /\ held = Empty
  /\ scope = "none" /\ last = NoPublish
  /\ job = Idle
  /\ loaded = NoLoad /\ dropped = {}
  /\ changes = 0 /\ events = 0

-----------------------------------------------------------------------------
(* GLEIF *)

Older(age) == IF age < Far THEN age + 1 ELSE age

\* A record is issued, ends or is retired, or comes back.
NextStatement(i) == IF gleif[i] = "active" THEN "inactive" ELSE "active"
Issued(i) == i \in Rel => \A e \in Ends(i) : gleif[e] # "none"

Publish ==
  /\ job # Idle => job.of < MaxRun
  /\ \E S \in SUBSET {i \in Item : Issued(i)} :
       /\ changes < MaxChanges \/ S = {}
       /\ \A i, j \in S : i = j
       /\ gleif' = [i \in Item |-> IF i \in S THEN NextStatement(i) ELSE gleif[i]]
       /\ changed' = [i \in Item |-> IF i \in S THEN 0 ELSE Older(changed[i])]
       /\ changes' = IF S = {} THEN changes ELSE changes + 1
  /\ last' = IF last = NoPublish THEN last ELSE Older(last)
  /\ loaded' = IF scope # "none" /\ last = NoPublish THEN [loaded EXCEPT !.age = Older(@)] ELSE loaded
  /\ job' = IF job = Idle THEN job ELSE [job EXCEPT !.of = Older(@)]
  /\ UNCHANGED <<held, scope, dropped, events>>

-----------------------------------------------------------------------------
(* ops.sh import, on an empty database *)

\* The golden copies are downloaded; the curated import takes a family of
\* companies, whole.
StartImport(mode, only) ==
  /\ job = Idle /\ scope = "none" /\ held = Empty
  /\ only # {} /\ (mode = "full" => only = Lei)
  /\ mode = "subset" => \A r \in Rel : gleif[r] = "active" /\ Ends(r) \cap only # {} => Ends(r) \subseteq only
  /\ job' = [at |-> "entities", scope |-> mode, says |-> gleif, only |-> only, of |-> 0]
  /\ UNCHANGED <<gleif, changed, held, scope, last, loaded, dropped, changes, events>>

Loads(e) == e \in job.only /\ job.says[e] # "none"

\* Broken form: the marker is stamped when the load begins.
EntityMarker_Early == job.scope

\* The marker a load that dies has stamped.
EntityMarker == "none"

\* run_import_gleif_lei_cdf: the entities, then the marker.
LoadEntities ==
  /\ At("entities")
  /\ held' = [i \in Item |-> IF i \in Lei /\ Loads(i) THEN job.says[i] ELSE held[i]]
  /\ scope' = job.scope
  /\ loaded' = [NoLoad EXCEPT !.age = job.of]
  /\ job' = [job EXCEPT !.at = "relationships"]
  /\ UNCHANGED <<gleif, changed, last, dropped, changes, events>>

\* A load that dies halfway.
LoadDies ==
  /\ At("entities") /\ Event
  /\ \E S \in SUBSET Lei :
       held' = [i \in Item |-> IF i \in S /\ Loads(i) THEN job.says[i] ELSE held[i]]
  /\ scope' = EntityMarker
  /\ job' = Idle
  /\ UNCHANGED <<gleif, changed, last, loaded, dropped, changes>>

\* run_import_gleif_rr; an ended relationship comes as a closed edge.
LoadRelationships ==
  /\ At("relationships")
  /\ held' = [i \in Item |-> IF i \in Rel /\ Ends(i) \subseteq job.only THEN job.says[i] ELSE held[i]]
  /\ loaded' = [loaded EXCEPT !.relationships = TRUE]
  /\ job' = Idle
  /\ UNCHANGED <<gleif, changed, scope, last, dropped, changes, events>>

\* The database is dropped, markers and all.
Drop ==
  /\ job = Idle /\ Event
  /\ held' = Empty
  /\ scope' = "none" /\ last' = NoPublish
  /\ loaded' = NoLoad /\ dropped' = {}
  /\ UNCHANGED <<gleif, changed, job, changes>>

-----------------------------------------------------------------------------
(* run_gleif_update *)

Covers(interval, gap) == gap <= MaxGap[interval]

\* choose_catchup_interval: the smallest window; the widest without a checkpoint.
Chosen(interval) ==
  IF last = NoPublish THEN interval = "LastMonth"
  ELSE /\ Covers(interval, last)
       /\ interval = "LastWeek" => ~Covers("LastDay", last)
       /\ interval = "LastMonth" => ~Covers("LastDay", last) /\ ~Covers("LastWeek", last)

\* A delta file of the newest publish.
Delta(interval) == {i \in Item : changed[i] < Window[interval]}

\* Downloaded; a subset takes what it already holds.
Fetch(interval, records, limited) ==
  /\ job = Idle /\ scope # "none"
  /\ Chosen(interval)
  /\ job' = [at |-> "lei", says |-> [i \in Item |-> IF i \in records THEN gleif[i] ELSE "none"],
             todo |-> records, known |-> IF scope = "full" THEN {} ELSE Here,
             onlyExisting |-> scope # "full", limited |-> limited, of |-> 0]
  /\ UNCHANGED <<gleif, changed, held, scope, last, loaded, dropped, changes>>

\* One LEI record, which a subset ignores when it does not carry the company.
ApplyEntity(e) ==
  /\ At("lei") /\ e \in job.todo
  /\ held' = IF job.onlyExisting /\ e \notin job.known THEN held ELSE [held EXCEPT ![e] = job.says[e]]
  /\ dropped' = dropped \ {e}
  /\ job' = [job EXCEPT !.todo = @ \ {e}, !.says[e] = "none"]
  /\ UNCHANGED <<gleif, changed, scope, last, loaded, changes, events>>

\* A record that fails is counted, logged and passed over.
BadRecord(i) ==
  /\ At("lei") /\ i \in job.todo
  /\ Event
  /\ dropped' = dropped \cup {i}
  /\ job' = [job EXCEPT !.todo = @ \ {i}, !.says[i] = "none"]
  /\ UNCHANGED <<gleif, changed, held, scope, last, loaded, changes>>

\* The relationships to apply: in a subset, both ends must be there.
Wanted == {r \in job.todo : job.onlyExisting => Ends(r) \subseteq Here}

\* import_rr_delta reads the file and makes sure of the endpoints.
ReadRelationships ==
  /\ At("lei") /\ job.todo \subseteq Rel
  /\ held' = [i \in Item |-> IF held[i] = "none" /\ i \in UNION {Ends(r) : r \in Wanted} THEN "stub" ELSE held[i]]
  /\ job' = [job EXCEPT !.at = IF Wanted = {} THEN "done" ELSE "edges", !.todo = Wanted, !.says = [i \in Item |-> IF i \in Wanted THEN @[i] ELSE "none"]]
  /\ dropped' = dropped \ (job.todo \ Wanted)
  /\ UNCHANGED <<gleif, changed, scope, last, loaded, changes, events>>

\* The active relationships first, then those that have ended.
Ready(r) == \/ job.says[r] = "active"
            \/ \A o \in job.todo : job.says[o] # "active"

\* Broken form: ended relationships are left as they are.
Edge_NoClosure(r) == IF job.says[r] = "active" THEN "active" ELSE held[r]

\* _owns_edge_upsert; _close_owns closes what is there and open.
Edge(r) == IF job.says[r] = "active" THEN "active"
           ELSE IF held[r] = "active" THEN "inactive" ELSE held[r]

ApplyRelationship(r) ==
  /\ At("edges") /\ r \in job.todo /\ Ready(r)
  /\ held' = [held EXCEPT ![r] = Edge(r)]
  /\ dropped' = dropped \ {r}
  /\ job' = [job EXCEPT !.todo = @ \ {r}, !.says[r] = "none", !.at = IF job.todo = {r} THEN "done" ELSE "edges"]
  /\ UNCHANGED <<gleif, changed, scope, last, loaded, changes, events>>

\* Broken form: a spot check moves the checkpoint too.
Checkpoint_Always == job.of

\* write_last_publish, after a clean apply of the whole delta.
Checkpoint == IF job.limited THEN last ELSE job.of

Finish ==
  /\ At("done")
  /\ last' = Checkpoint
  /\ loaded' = IF last = NoPublish /\ last' # NoPublish
               THEN [loaded EXCEPT !.age = 0, !.reached = loaded.age < Far] ELSE loaded
  /\ job' = Idle
  /\ UNCHANGED <<gleif, changed, held, scope, dropped, changes, events>>

\* The job dies between two steps; what it wrote stays.
Crash ==
  /\ job # Idle /\ ~At("entities") /\ Event
  /\ job' = Idle
  /\ UNCHANGED <<gleif, changed, held, scope, last, loaded, dropped, changes>>

Step ==
  \/ LoadEntities \/ LoadRelationships
  \/ \E e \in Lei : ApplyEntity(e)
  \/ ReadRelationships
  \/ \E r \in Rel : ApplyRelationship(r)
  \/ Finish

Nightly == \E interval \in Interval : Fetch(interval, Delta(interval), FALSE) /\ UNCHANGED events

\* A spot check (--limit) reads the first records only and moves no checkpoint.
SpotCheck ==
  \E interval \in Interval : \E records \in SUBSET Delta(interval) :
    Fetch(interval, records, TRUE) /\ Event

Next ==
  \/ Publish
  \/ \E mode \in {"full", "subset"}, only \in SUBSET Lei : StartImport(mode, only)
  \/ Nightly
  \/ SpotCheck
  \/ Step
  \/ \E i \in Item : BadRecord(i)
  \/ LoadDies \/ Crash \/ Drop

Spec == Init /\ [][Next]_vars

\* A job goes on, and the nightly update comes round.
FairSpec == Spec /\ WF_vars(Step) /\ WF_vars(Nightly)

-----------------------------------------------------------------------------

\* A record whose relationships, or whose own company, the database is to hold.
Within(i) ==
  /\ i \notin dropped
  /\ i \in Rel => loaded.relationships /\ (scope = "subset" => Ends(i) \subseteq Here)
  /\ i \in Lei => (scope = "subset" => i \in Here)

\* A relationship is shown exactly when GLEIF states it; a company as GLEIF has it.
Agrees(i) == IF i \in Rel THEN (held[i] = "active") = (gleif[i] = "active") ELSE held[i] = gleif[i]

\* Nothing is missed: a record that has not changed since the checkpoint is held as
\* GLEIF has it, whatever nights were missed, whichever runs died or were spot
\* checks - bad records apart, and as long as the golden copy is not so old that
\* the first delta did not reach back to it.
NothingMissed ==
  scope # "none" /\ loaded.reached /\ last < Far
  => \A i \in Item : Within(i) /\ changed[i] >= last => Agrees(i)

\* The database is in step again and again, unless the update refuses: no load, a
\* load that lost its relationships or is out of reach, a gap too wide.
Refused == \/ scope = "none" \/ (last # NoPublish /\ ~loaded.reached)
           \/ last # NoPublish /\ last > MaxGap["LastMonth"]
CatchesUp == []<>(Refused \/ \A i \in Item : Within(i) => Agrees(i))
=============================================================================
