---------------------------- MODULE MergeRedirect ----------------------------
(***************************************************************************)
(* Folding duplicate nodes together and keeping every id they ever had     *)
(* working: the merges (scraper/maintenance._apply_entity_merge,           *)
(* routers/persons.merge_person_records), the re-keying of a node that     *)
(* learns a better id (node_ids.key_on_learning), and the MergedId table   *)
(* of forwarding addresses both keep (app/merged_ids.py).                  *)
(*                                                                         *)
(* A node is known by its id.  What it carries is abstracted to the hard   *)
(* ids stamped on it and the facts (edges and claims) recorded about it.   *)
(* A merge is a run of statements with no transaction around them, so a    *)
(* worker holds its place in the sequence and the ids it read earlier.     *)
(***************************************************************************)
EXTENDS Integers, FiniteSets

CONSTANTS
  Id,          \* node ids
  Rank,        \* an id's place in node_ids._RANK, best first; the last is a uuid
  Uuid,        \* the rank of a uuid: it keys on nothing and is never minted twice
  Fact,        \* edges and claims
  Ref,         \* rows that store a node id: flags, pins, suppressions, run-log rows
  Worker,      \* threads and jobs that merge or re-key
  NoId,        \* no id
  MaxHops,     \* merged_ids._MAX_HOPS
  MaxFaults,   \* bound: crashes and failed statements per behaviour
  Overlap      \* may two operations touch the same node at the same time

ASSUME IdAssumption      == NoId \notin Id
ASSUME RankAssumption    == Uuid \in Nat /\ Rank \in [Id -> 0 .. Uuid]
ASSUME BoundAssumption   == MaxHops \in Nat \ {0} /\ MaxFaults \in Nat
ASSUME OverlapAssumption == Overlap \in BOOLEAN

VARIABLES
  live,      \* the ids that a node has now
  hard,      \* the keyed ids a node's hard ids (LEI, CIK, Wikidata item) give
  holds,     \* the facts recorded about a node
  redirect,  \* MergedId: old_id -> new_id, or NoId
  refs,      \* the node id each reference row stores
  pc,        \* each worker's place in its operation
  keep,      \* the survivor, or the node being re-keyed, by the id it was read under
  dead,      \* the node being folded into it
  todo,      \* the rest of the group to fold into it
  apart,     \* NOT_DUPLICATE: pairs a human confirmed are different
  marks,     \* those pairs, as each worker read them before its group
  first,     \* history: the survivor's id when the group was read
  asserted,  \* history: every fact ever recorded
  issued,    \* history: every id a node ever had
  faults     \* crashes and failed statements so far

graph == <<live, hard, holds, apart>>
task  == <<pc, keep, dead, todo, marks, first>>
vars  == <<graph, redirect, refs, task, asserted, issued, faults>>

Keyed == {i \in Id : Rank[i] < Uuid}

Places == {"idle", "next", "carry", "coalesce", "repoint", "upsert", "refs", "delete",
           "rekey", "rename", "unredirect", "rerepoint", "reupsert", "rerefs",
           "carryonly", "deleteonly"}

Pairs == {{i, j} : i, j \in Id}

TypeOK ==
  /\ live \subseteq Id
  /\ hard \in [Id -> SUBSET Keyed]
  /\ holds \in [Id -> SUBSET Fact]
  /\ redirect \in [Id -> Id \cup {NoId}]
  /\ refs \in [Ref -> Id \cup {NoId}]
  /\ pc \in [Worker -> Places]
  /\ keep \in [Worker -> Id \cup {NoId}]
  /\ dead \in [Worker -> Id \cup {NoId}]
  /\ todo \in [Worker -> SUBSET Id]
  /\ apart \subseteq Pairs
  /\ marks \in [Worker -> SUBSET Pairs]
  /\ first \in [Worker -> Id \cup {NoId}]
  /\ \A w \in Worker : pc[w] = "idle" => keep[w] = NoId /\ dead[w] = NoId /\ todo[w] = {}
  /\ asserted \subseteq Fact
  /\ issued \subseteq Id
  /\ faults \in 0 .. MaxFaults

Init ==
  /\ live = {}
  /\ hard = [i \in Id |-> {}]
  /\ holds = [i \in Id |-> {}]
  /\ redirect = [i \in Id |-> NoId]
  /\ refs = [r \in Ref |-> NoId]
  /\ pc = [w \in Worker |-> "idle"]
  /\ keep = [w \in Worker |-> NoId]
  /\ dead = [w \in Worker |-> NoId]
  /\ todo = [w \in Worker |-> {}]
  /\ apart = {}
  /\ marks = [w \in Worker |-> {}]
  /\ first = [w \in Worker |-> NoId]
  /\ asserted = {}
  /\ issued = {}
  /\ faults = 0

-----------------------------------------------------------------------------
(* Lookups *)

\* The ids reached from i in 0, 1, 2, ... hops.
Path(i) ==
  LET hop[n \in 0 .. MaxHops] ==
        IF n = 0 THEN i
        ELSE IF redirect[hop[n-1]] = NoId THEN hop[n-1] ELSE redirect[hop[n-1]]
  IN  hop

\* resolve_current_id: follow the rows; NoId when there is none or they cycle.
Resolve(i) ==
  LET p == Path(i) IN
  IF \/ redirect[i] = NoId
     \/ \E m, n \in 0 .. MaxHops : m < n /\ p[m] = p[n] /\ redirect[p[m]] # NoId
  THEN NoId
  ELSE p[MaxHops]

\* Callers resolve only after a direct lookup misses.
Lookup(i) == IF i \in live THEN i ELSE Resolve(i)

\* canonical_id: the end of the rows from i, the last id before they repeat;
\* importers ask it without looking whether i is live.
Canonical(i) ==
  LET p == Path(i)
      fresh == {n \in 0 .. MaxHops : \A m \in 0 .. n - 1 : p[m] # p[n]}
  IN  p[CHOOSE n \in fresh : \A m \in fresh : m <= n]

-----------------------------------------------------------------------------
(* The other writers of the graph *)

Touched == UNION {{keep[w], dead[w]} \cup todo[w] : w \in Worker}
\* Without Overlap, an operation waits for nodes another one is working on.
Free(i) == Overlap \/ i \notin Touched

\* A writer creates a node under a minted id, after its lookup by the hard ids
\* found none.
Create(i) ==
  /\ i \notin live
  /\ i \in Keyed => \A n \in live : i \notin hard[n]
  /\ i \in issued => i \in Keyed
  /\ Overlap \/ \A w \in Worker : pc[w] = "idle"
  /\ live' = live \cup {i}
  /\ hard' = [hard EXCEPT ![i] = {i} \cap Keyed]
  /\ holds' = [holds EXCEPT ![i] = {}]
  /\ issued' = issued \cup {i}
  /\ UNCHANGED <<redirect, refs, apart, task, asserted, faults>>

\* A writer records a fact about a node.
Record(i, f) ==
  /\ i \in live /\ Free(i)
  /\ f \notin asserted
  /\ holds' = [holds EXCEPT ![i] = @ \cup {f}]
  /\ asserted' = asserted \cup {f}
  /\ UNCHANGED <<live, hard, redirect, refs, apart, task, issued, faults>>

\* A moderator flags or pins a node; the row stores its id.
Refer(r, i) ==
  /\ i \in live /\ Free(i)
  /\ refs[r] = NoId
  /\ refs' = [refs EXCEPT ![r] = i]
  /\ UNCHANGED <<graph, redirect, task, asserted, issued, faults>>

\* keep-separate: a human confirms that two nodes are different.
KeepSeparate(i, j) ==
  /\ i # j /\ {i, j} \subseteq live /\ Free(i) /\ Free(j)
  /\ apart = {}
  /\ apart' = {{i, j}}
  /\ UNCHANGED <<live, hard, holds, redirect, refs, task, asserted, issued, faults>>

-----------------------------------------------------------------------------
(* Steps of an operation *)

Goto(w, place) == pc' = [pc EXCEPT ![w] = place]

Idle(w) ==
  /\ Goto(w, "idle")
  /\ keep' = [keep EXCEPT ![w] = NoId]
  /\ dead' = [dead EXCEPT ![w] = NoId]
  /\ todo' = [todo EXCEPT ![w] = {}]
  /\ marks' = [marks EXCEPT ![w] = {}]
  /\ first' = [first EXCEPT ![w] = NoId]

\* _REPOINT_CHAIN and _UPSERT_REDIRECT of record_merge(old, new).
RepointChain(old, new) ==
  redirect' = [i \in Id |-> IF redirect[i] = old THEN new ELSE redirect[i]]
UpsertRedirect(old, new) == redirect' = [redirect EXCEPT ![old] = new]
RepointRefs(old, new) ==
  refs' = [r \in Ref |-> IF refs[r] = old THEN new ELSE refs[r]]

Fault == faults < MaxFaults /\ faults' = faults + 1

\* A dedup reads the keep-separate marks and a group of duplicates, and picks
\* the survivor.
BeginMerge(w, k, ds) ==
  /\ pc[w] = "idle"
  /\ ds # {} /\ k \notin ds /\ {k} \cup ds \subseteq live
  /\ \A i \in {k} \cup ds : Free(i)
  /\ Goto(w, "next")
  /\ keep' = [keep EXCEPT ![w] = k]
  /\ todo' = [todo EXCEPT ![w] = ds]
  /\ marks' = [marks EXCEPT ![w] = apart]
  /\ first' = [first EXCEPT ![w] = k]
  /\ UNCHANGED <<graph, redirect, refs, dead, asserted, issued, faults>>

\* Broken form: the marks are not asked for.
FoldNext_Unmarked(w) ==
  /\ pc[w] = "next"
  /\ \E d \in todo[w] :
       /\ todo' = [todo EXCEPT ![w] = @ \ {d}]
       /\ Goto(w, "carry") /\ dead' = [dead EXCEPT ![w] = d]
  /\ UNCHANGED <<graph, redirect, refs, keep, marks, first, asserted, issued, faults>>

\* The group's next member, passed over when it is marked apart from the
\* survivor.
FoldNext(w) ==
  /\ pc[w] = "next"
  /\ \E d \in todo[w] :
       /\ todo' = [todo EXCEPT ![w] = @ \ {d}]
       /\ IF {keep[w], d} \in marks[w]
          THEN UNCHANGED <<pc, dead>>
          ELSE Goto(w, "carry") /\ dead' = [dead EXCEPT ![w] = d]
  /\ UNCHANGED <<graph, redirect, refs, keep, marks, first, asserted, issued, faults>>

EndGroup(w) ==
  /\ pc[w] = "next" /\ todo[w] = {}
  /\ Idle(w)
  /\ UNCHANGED <<graph, redirect, refs, asserted, issued, faults>>

\* A writer stamps a hard id the node did not have, and re-keys it.
Learn(w, i, h) ==
  /\ pc[w] = "idle"
  /\ i \in live /\ Free(i)
  /\ \A n \in live : h \notin hard[n]
  /\ \A g \in hard[i] : Rank[g] # Rank[h]
  /\ hard' = [hard EXCEPT ![i] = @ \cup {h}]
  /\ Goto(w, "rekey")
  /\ keep' = [keep EXCEPT ![w] = i]
  /\ UNCHANGED <<live, holds, apart, redirect, refs, dead, todo, marks, first,
                 asserted, issued, faults>>

\* _migrate_entity_edges, _migrate_person_edges, migrate_claims: recreated on
\* the survivor, if it is there.
CarryFacts(k, d) ==
  holds' = IF {k, d} \subseteq live THEN [holds EXCEPT ![k] = @ \cup holds[d]] ELSE holds

\* DETACH DELETE: the node goes, with every fact and mark still on it.
Detach(d) ==
  /\ live' = live \ {d}
  /\ hard' = [hard EXCEPT ![d] = {}]
  /\ holds' = [holds EXCEPT ![d] = {}]
  /\ apart' = {a \in apart : d \notin a}

Carry(w) ==
  /\ pc[w] = "carry"
  /\ CarryFacts(keep[w], dead[w])
  /\ Goto(w, "coalesce")
  /\ UNCHANGED <<live, hard, apart, redirect, refs, keep, dead, todo, marks, first,
                 asserted, issued, faults>>

\* _coalesce_entity_props: the survivor's gaps are filled from the loser.
Coalesce(w) ==
  /\ pc[w] = "coalesce"
  /\ hard' = IF {keep[w], dead[w]} \subseteq live
             THEN [hard EXCEPT ![keep[w]] =
                     @ \cup {h \in hard[dead[w]] : \A g \in @ : Rank[g] # Rank[h]}]
             ELSE hard
  /\ Goto(w, "repoint")
  /\ UNCHANGED <<live, holds, apart, redirect, refs, keep, dead, todo, marks, first,
                 asserted, issued, faults>>

Repoint(w) ==
  /\ pc[w] = "repoint"
  /\ RepointChain(dead[w], keep[w])
  /\ Goto(w, "upsert")
  /\ UNCHANGED <<graph, refs, keep, dead, todo, marks, first, asserted, issued, faults>>

\* Broken form: the forwarding row is written the other way round.
Upsert_Swapped(w) ==
  /\ pc[w] = "upsert"
  /\ UpsertRedirect(keep[w], dead[w])
  /\ Goto(w, "refs")
  /\ UNCHANGED <<graph, refs, keep, dead, todo, marks, first, asserted, issued, faults>>

Upsert(w) ==
  /\ pc[w] = "upsert"
  /\ UpsertRedirect(dead[w], keep[w])
  /\ Goto(w, "refs")
  /\ UNCHANGED <<graph, refs, keep, dead, todo, marks, first, asserted, issued, faults>>

\* Broken form: the stored references stay behind.
References_Skipped(w) ==
  /\ pc[w] = "refs"
  /\ Goto(w, "delete")
  /\ UNCHANGED <<graph, redirect, refs, keep, dead, todo, marks, first,
                 asserted, issued, faults>>

References(w) ==
  /\ pc[w] = "refs"
  /\ RepointRefs(dead[w], keep[w])
  /\ Goto(w, "delete")
  /\ UNCHANGED <<graph, redirect, keep, dead, todo, marks, first, asserted, issued, faults>>

Delete(w) ==
  /\ pc[w] = "delete"
  /\ Detach(dead[w])
  /\ Goto(w, "rekey")
  /\ UNCHANGED <<redirect, refs, keep, dead, todo, marks, first, asserted, issued, faults>>

-----------------------------------------------------------------------------
(* Re-keying: key_on_learning and rename_node_id *)

\* The id the node's hard ids give, if it is better than the one it has.
Better(i) == {h \in hard[i] : Rank[h] < Rank[i] /\ \A g \in hard[i] : Rank[h] <= Rank[g]}

\* Nothing to do, or the better id is taken (a twin for the dedup).
KeepId(w) ==
  /\ pc[w] = "rekey"
  /\ keep[w] \notin live \/ Better(keep[w]) \subseteq live
  /\ Goto(w, "next")
  /\ UNCHANGED <<graph, redirect, refs, keep, dead, todo, marks, first, asserted, issued, faults>>

\* The better id is free: dead[w] now holds it, as rename_node_id's new_id.
StartRename(w) ==
  /\ pc[w] = "rekey"
  /\ keep[w] \in live
  /\ \E new \in Better(keep[w]) \ live : dead' = [dead EXCEPT ![w] = new]
  /\ Goto(w, "rename")
  /\ UNCHANGED <<graph, redirect, refs, keep, todo, marks, first, asserted, issued, faults>>

\* SET n.id: the UNIQUE index refuses an id taken since, and the caller fails.
Rename(w) ==
  LET old == keep[w]
      new == dead[w]
      Now(i) == IF i = old THEN new ELSE i
  IN
  /\ pc[w] = "rename"
  /\ new \notin live
  /\ IF old \in live
     THEN /\ live' = (live \ {old}) \cup {new}
          /\ hard' = [hard EXCEPT ![new] = hard[old], ![old] = {}]
          /\ holds' = [holds EXCEPT ![new] = holds[old], ![old] = {}]
          /\ apart' = {{Now(i) : i \in a} : a \in apart}
          /\ issued' = issued \cup {new}
     ELSE UNCHANGED <<graph, issued>>
  /\ Goto(w, "unredirect")
  /\ UNCHANGED <<redirect, refs, keep, dead, todo, marks, first, asserted, faults>>

\* The new id may have been forwarded away before: it is a live id again.
Unredirect(w) ==
  /\ pc[w] = "unredirect"
  /\ redirect' = [redirect EXCEPT ![dead[w]] = NoId]
  /\ Goto(w, "rerepoint")
  /\ UNCHANGED <<graph, refs, keep, dead, todo, marks, first, asserted, issued, faults>>

RenameRepoint(w) ==
  /\ pc[w] = "rerepoint"
  /\ RepointChain(keep[w], dead[w])
  /\ Goto(w, "reupsert")
  /\ UNCHANGED <<graph, refs, keep, dead, todo, marks, first, asserted, issued, faults>>

\* Broken form: a rename sends the old rows on, but leaves none of its own.
RenameUpsert_Skipped(w) ==
  /\ pc[w] = "reupsert"
  /\ Goto(w, "rerefs")
  /\ UNCHANGED <<graph, redirect, refs, keep, dead, todo, marks, first,
                 asserted, issued, faults>>

RenameUpsert(w) ==
  /\ pc[w] = "reupsert"
  /\ UpsertRedirect(keep[w], dead[w])
  /\ Goto(w, "rerefs")
  /\ UNCHANGED <<graph, refs, keep, dead, todo, marks, first, asserted, issued, faults>>

\* Broken form: the caller's group goes on under the id that is gone.
RenameReferences_OldId(w) ==
  /\ pc[w] = "rerefs"
  /\ RepointRefs(keep[w], dead[w])
  /\ Goto(w, "next")
  /\ UNCHANGED <<graph, redirect, keep, dead, todo, marks, first, asserted, issued, faults>>

\* The references follow; the caller's group goes on under the new id.
RenameReferences(w) ==
  /\ pc[w] = "rerefs"
  /\ RepointRefs(keep[w], dead[w])
  /\ keep' = [keep EXCEPT ![w] = dead[w]]
  /\ Goto(w, "next")
  /\ UNCHANGED <<graph, redirect, dead, todo, marks, first, asserted, issued, faults>>

-----------------------------------------------------------------------------
(* deduplicate_person_nodes: persons whose names are each other's reversal are
   folded with their edges and claims, and nothing else. *)

BeginReversed(w, k, d) ==
  /\ pc[w] = "idle"
  /\ k # d /\ {k, d} \subseteq live /\ Free(k) /\ Free(d)
  /\ Goto(w, "carryonly")
  /\ keep' = [keep EXCEPT ![w] = k]
  /\ dead' = [dead EXCEPT ![w] = d]
  /\ UNCHANGED <<graph, redirect, refs, todo, marks, first, asserted, issued, faults>>

CarryReversed(w) ==
  /\ pc[w] = "carryonly"
  /\ CarryFacts(keep[w], dead[w])
  /\ Goto(w, "deleteonly")
  /\ UNCHANGED <<live, hard, apart, redirect, refs, keep, dead, todo, marks, first,
                 asserted, issued, faults>>

DeleteReversed(w) ==
  /\ pc[w] = "deleteonly"
  /\ Detach(dead[w])
  /\ Idle(w)
  /\ UNCHANGED <<redirect, refs, asserted, issued, faults>>

-----------------------------------------------------------------------------
(* Failures *)

\* Coalescing, the forwarding row and the references are best-effort in a
\* merge: a failure is logged and the merge goes on without it.
FailBestEffort(w) ==
  /\ Fault
  /\ \/ pc[w] = "coalesce" /\ Goto(w, "repoint")
     \/ pc[w] \in {"repoint", "upsert"} /\ Goto(w, "refs")
     \/ pc[w] = "refs" /\ Goto(w, "delete")
  /\ UNCHANGED <<graph, redirect, refs, keep, dead, todo, marks, first, asserted, issued>>

\* Broken form: the next operation starts with what this one left.
Abort_KeepsGroup(w) ==
  /\ pc[w] # "idle"
  /\ Fault
  /\ Goto(w, "idle")
  /\ UNCHANGED <<graph, redirect, refs, keep, dead, todo, marks, first, asserted, issued>>

\* Any other failure, or a crash, ends the operation where it stands.
Abort(w) ==
  /\ pc[w] # "idle"
  /\ Fault
  /\ Idle(w)
  /\ UNCHANGED <<graph, redirect, refs, asserted, issued>>

MergeStep(w) ==
  \/ FoldNext(w) \/ EndGroup(w)
  \/ Carry(w) \/ Coalesce(w) \/ Repoint(w) \/ Upsert(w) \/ References(w) \/ Delete(w)

RekeyStep(w) ==
  \/ KeepId(w) \/ StartRename(w) \/ Rename(w) \/ Unredirect(w)
  \/ RenameRepoint(w) \/ RenameUpsert(w) \/ RenameReferences(w)

Next ==
  \/ \E i \in Id : Create(i)
  \/ \E i \in Id, f \in Fact : Record(i, f)
  \/ \E r \in Ref, i \in Id : Refer(r, i)
  \/ \E i, j \in Id : KeepSeparate(i, j)
  \/ \E w \in Worker :
       \/ \E k \in Id, ds \in SUBSET Id : BeginMerge(w, k, ds)
       \/ \E i \in Id, h \in Keyed : Learn(w, i, h)
       \/ MergeStep(w)
       \/ RekeyStep(w)
       \/ FailBestEffort(w)
       \/ Abort(w)

Spec == Init /\ [][Next]_vars

\* With the person clean-up job beside the merges.
ReversedStep(w) ==
  \/ \E k, d \in Id : BeginReversed(w, k, d)
  \/ CarryReversed(w)
  \/ DeleteReversed(w)

SpecWithReversals == Init /\ [][Next \/ \E w \in Worker : ReversedStep(w)]_vars

-----------------------------------------------------------------------------

AtRest == \A w \in Worker : pc[w] = "idle"
Renaming == \E w \in Worker : pc[w] \in {"unredirect", "rerepoint", "reupsert"}

\* A merge loses nothing: whatever was recorded about a node is on some node
\* that is still there, at every step, and whatever fails.
FactsSurvive == \A f \in asserted : \E i \in live : f \in holds[i]

\* A shared link, a client's cache, a peer's copy: every id that was ever
\* handed out leads to a live node, except while one is just being renamed.
EveryIdResolves ==
  faults = 0 /\ ~Renaming => \A i \in issued : Lookup(i) \in live

\* An importer that addresses a node by its derived id meets a live node, not a
\* hole it would fill with a twin.
ImportersMeetSurvivor ==
  faults = 0 /\ AtRest => \A i \in issued : Canonical(i) \in live

\* A moderator's decision never names a node that is gone.
ReferencesFollow ==
  faults = 0 /\ AtRest => \A r \in Ref : refs[r] # NoId => refs[r] \in live

\* What was handed out keeps working: ids, importers' addresses, references.
IdsFollow == EveryIdResolves /\ ImportersMeetSurvivor /\ ReferencesFollow

\* Never merge a pair a human has confirmed is two different companies: the
\* node about to be folded is not marked apart from its survivor.
KeptSeparate ==
  \A w \in Worker : pc[w] = "carry" => {keep[w], dead[w]} \notin apart

\* It can happen only to a survivor re-keyed since its group was read: the marks
\* then name it by the id it had.
KeptSeparateUnlessRekeyed ==
  \A w \in Worker :
    pc[w] = "carry" /\ keep[w] = first[w] => {keep[w], dead[w]} \notin apart
=============================================================================
