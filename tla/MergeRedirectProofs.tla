------------------------- MODULE MergeRedirectProofs -------------------------
(***************************************************************************)
(* What MergeRedirect guarantees for any set of ids, facts and workers and *)
(* any number of crashes and failed statements, as long as two operations  *)
(* never work on the same node.                                            *)
(***************************************************************************)
EXTENDS MergeRedirect, NaturalsInduction, WellFoundedInduction, TLAPS

Carried  == {"coalesce", "repoint", "upsert", "refs", "delete"}
Folding  == Carried \cup {"carry"}
Keeping  == {"next", "rekey", "rename"}
Renamed  == {"unredirect", "rerepoint", "reupsert", "rerefs"}

\* A rename goes to an id that ranks strictly better.
RenamesUpward ==
  \A w \in Worker : pc[w] \in Renamed \cup {"rename"} =>
    /\ keep[w] \in Id /\ dead[w] \in Id
    /\ Rank[dead[w]] < Rank[keep[w]]

Typed == TypeOK /\ RenamesUpward

\* The nodes a worker's operation still needs, by the ids they have now.
Claimed(w) ==
  todo[w] \cup
  (IF pc[w] \in Folding \cup Keeping THEN {keep[w]} ELSE {}) \cup
  (IF pc[w] \in Folding \cup Renamed THEN {dead[w]} ELSE {})

\* They are there, no other worker needs them, and each is named once.
ClaimsHold ==
  /\ \A w \in Worker : Claimed(w) \subseteq live
  /\ \A v, w \in Worker : v # w => Claimed(v) \cap Claimed(w) = {}
  /\ \A w \in Worker :
       /\ pc[w] \in Folding \cup Keeping => keep[w] \notin todo[w]
       /\ pc[w] \in Folding \cup Renamed => dead[w] \notin todo[w]
       /\ pc[w] \in Folding => dead[w] # keep[w]

\* Once carried, the survivor has everything the loser still has.
CarriedOver ==
  \A w \in Worker : pc[w] \in Carried => holds[dead[w]] \subseteq holds[keep[w]]

\* The inductive invariant for the facts: FactsSurvive alone does not survive
\* Delete, which relies on what was carried over several statements before and
\* on nobody having touched the two nodes since.
FactsInv == Typed /\ ClaimsHold /\ CarriedOver /\ FactsSurvive

\* While the survivor has the id its group was read under, the marks the worker
\* read hold every pair marked apart among the nodes it needs.
MarksRead ==
  \A w \in Worker : pc[w] \notin Renamed /\ keep[w] = first[w] =>
    \A a \in apart : a # {} /\ a \subseteq Claimed(w) => a \in marks[w]

\* The survivor's id only ever gets better than the one it was read under, so
\* it never comes back to it.
FirstIsWorst ==
  \A w \in Worker :
    /\ pc[w] = "idle" => first[w] = NoId
    /\ first[w] # NoId => keep[w] \in Id /\ Rank[keep[w]] <= Rank[first[w]]

\* The member being folded was not marked.
PickedUnmarked ==
  \A w \in Worker : pc[w] = "carry" => {keep[w], dead[w]} \notin marks[w]

\* The inductive invariant for the pairs kept apart.
ApartInv == Typed /\ ClaimsHold /\ MarksRead /\ FirstIsWorst /\ PickedUnmarked

Coalesced == {"repoint", "upsert", "refs", "delete"}

\* An id is new, live, or stamped on the node that took it over; only then is it
\* free to be created again.
IdsKnown ==
  /\ live \subseteq issued
  /\ \A i \in Id : redirect[i] # NoId => i \in issued
  /\ \A i \in live \cap Keyed : i \in hard[i]
  /\ \A i \in (issued \cap Keyed) \ live : \E n \in live : i \in hard[n]

\* What a fold or a rename does to those stamps.
StampsFollow ==
  \A w \in Worker :
    /\ pc[w] \in Coalesced => hard[dead[w]] \subseteq hard[keep[w]]
    /\ pc[w] = "rename" => dead[w] \in hard[keep[w]]
    /\ pc[w] \in Renamed /\ keep[w] \in Keyed => keep[w] \in hard[dead[w]]

\* Two nodes have a stamp in common only while one is folded into the other.
StampsApart ==
  \A m, n \in live, h \in Keyed : m # n /\ h \in hard[m] /\ h \in hard[n] =>
    \E w \in Worker :
      /\ pc[w] \in Coalesced
      /\ \/ m = keep[w] /\ n = dead[w]
         \/ m = dead[w] /\ n = keep[w]

\* A node that is gone left a row, and a row leads to a live node, but for the
\* id a rename is taking away.
RowsLead ==
  /\ \A i \in issued \ live : redirect[i] # NoId \/
       \E w \in Worker : pc[w] \in Renamed \ {"rerefs"} /\ i = keep[w]
  /\ \A i \in Id : redirect[i] \in live \cup {NoId} \/
       \E w \in Worker : pc[w] \in {"unredirect", "rerepoint"} /\ redirect[i] = keep[w]

\* A live node has no row of its own, but for one on its way out or just back.
RowsEnd ==
  /\ \A i \in live : redirect[i] = NoId \/
       \E w \in Worker : pc[w] \in {"refs", "delete", "unredirect"} /\ i = dead[w]
  /\ \A w \in Worker :
       /\ pc[w] \in {"upsert", "refs", "delete"} => \A i \in Id : redirect[i] # dead[w]
       /\ pc[w] \in {"refs", "delete"} => redirect[dead[w]] = keep[w]

\* The id a rename takes away is no node's, and no other rename's.
OldIdsGone ==
  /\ \A w \in Worker :
       /\ pc[w] \in Renamed => keep[w] \in issued /\ keep[w] \notin live
       /\ pc[w] \in Renamed \ {"rerefs"} => redirect[keep[w]] = NoId
  /\ \A v, w \in Worker :
       v # w /\ pc[v] \in Renamed /\ pc[w] \in Renamed => keep[v] # keep[w]

\* A stored reference names a live node, or the id a rename is taking away.
RefsLead ==
  /\ \A r \in Ref : refs[r] \in live \cup {NoId} \/
       \E w \in Worker : pc[w] \in Renamed /\ refs[r] = keep[w]
  /\ \A w \in Worker : pc[w] = "delete" => \A r \in Ref : refs[r] # dead[w]

\* While nothing failed, every row and every reference can be followed.
Traced ==
  /\ IdsKnown /\ StampsFollow /\ StampsApart
  /\ RowsLead /\ RowsEnd /\ OldIdsGone /\ RefsLead

IdsInv == Typed /\ ClaimsHold /\ (faults = 0 => Traced)

\* One company: it has at most one id of each kind that is not a uuid.
OneIdPerRank == \A i, j \in Keyed : Rank[i] = Rank[j] => i = j

\* ClaimsHold, spelt out for the two nodes of each operation.
NodesApart ==
  /\ \A w \in Worker :
       /\ pc[w] \in Folding \cup Keeping => keep[w] \in live
       /\ pc[w] \in Folding \cup Renamed => dead[w] \in live
       /\ pc[w] \in Folding => keep[w] # dead[w]
  /\ \A v, w \in Worker : v # w =>
       /\ pc[v] \in Folding \cup Keeping /\ pc[w] \in Folding \cup Keeping =>
            keep[v] # keep[w]
       /\ pc[v] \in Folding \cup Keeping /\ pc[w] \in Folding \cup Renamed =>
            keep[v] # dead[w]
       /\ pc[v] \in Folding \cup Renamed /\ pc[w] \in Folding \cup Renamed =>
            dead[v] # dead[w]

USE IdAssumption, RankAssumption, BoundAssumption, OverlapAssumption

-----------------------------------------------------------------------------

\* A typed state stays typed.
LEMMA NextPreservesType == Typed /\ [Next]_vars => Typed'
<1> SUFFICES ASSUME Typed, [Next]_vars PROVE Typed'
  OBVIOUS
<1> USE DEF Typed, RenamesUpward, TypeOK, Places, Renamed, Goto, graph, task
<1>1. ASSUME NEW i \in Id, Create(i) PROVE Typed'
  BY <1>1 DEF Create, Keyed
<1>2. ASSUME NEW i \in Id, NEW f \in Fact, Record(i, f) PROVE Typed'
  BY <1>2 DEF Record
<1>3. ASSUME NEW r \in Ref, NEW i \in Id, Refer(r, i) PROVE Typed'
  BY <1>3 DEF Refer
<1>4. ASSUME NEW i \in Id, NEW j \in Id, KeepSeparate(i, j) PROVE Typed'
  BY <1>4 DEF KeepSeparate, Pairs
<1>5. ASSUME NEW w \in Worker, NEW k \in Id, NEW ds \in SUBSET Id,
            BeginMerge(w, k, ds) PROVE Typed'
  BY <1>5 DEF BeginMerge
<1>6. ASSUME NEW w \in Worker, NEW i \in Id, NEW h \in Keyed, Learn(w, i, h)
      PROVE Typed'
  BY <1>6 DEF Learn
<1>7. ASSUME NEW w \in Worker, FoldNext(w) PROVE Typed'
  BY <1>7 DEF FoldNext
<1>8. ASSUME NEW w \in Worker, EndGroup(w) PROVE Typed'
  BY <1>8 DEF EndGroup, Idle
<1>9. ASSUME NEW w \in Worker, Carry(w) PROVE Typed'
  BY <1>9 DEF Carry, CarryFacts
<1>10. ASSUME NEW w \in Worker, Coalesce(w) PROVE Typed'
  BY <1>10 DEF Coalesce
<1>11. ASSUME NEW w \in Worker, Repoint(w) PROVE Typed'
  BY <1>11 DEF Repoint, RepointChain
<1>12. ASSUME NEW w \in Worker, Upsert(w) PROVE Typed'
  BY <1>12 DEF Upsert, UpsertRedirect
<1>13. ASSUME NEW w \in Worker, References(w) PROVE Typed'
  BY <1>13 DEF References, RepointRefs
<1>14. ASSUME NEW w \in Worker, Delete(w) PROVE Typed'
  BY <1>14 DEF Delete, Detach
<1>15. ASSUME NEW w \in Worker, KeepId(w) PROVE Typed'
  BY <1>15 DEF KeepId
<1>16. ASSUME NEW w \in Worker, StartRename(w) PROVE Typed'
  BY <1>16 DEF StartRename, Better, Keyed
<1>17. ASSUME NEW w \in Worker, Rename(w) PROVE Typed'
  <2> DEFINE Now(i) == IF i = keep[w] THEN dead[w] ELSE i
  <2>1. dead[w] \in Id
    BY <1>17 DEF Rename
  <2>2. {{Now(i) : i \in a} : a \in apart} \subseteq Pairs
    <3> SUFFICES ASSUME NEW a \in apart PROVE {Now(i) : i \in a} \in Pairs
      OBVIOUS
    <3>1. PICK i, j \in Id : a = {i, j}
      BY DEF Pairs
    <3>2. {Now(x) : x \in a} = {Now(i), Now(j)}
      BY <3>1
    <3>3. {Now(i), Now(j)} \in Pairs
      BY <2>1 DEF Pairs
    <3> QED
      BY <3>2, <3>3
  <2>3. apart' \subseteq Pairs
    BY <1>17, <2>2 DEF Rename
  <2> QED
    BY <1>17, <2>1, <2>3 DEF Rename
<1>18. ASSUME NEW w \in Worker, Unredirect(w) PROVE Typed'
  BY <1>18 DEF Unredirect
<1>19. ASSUME NEW w \in Worker, RenameRepoint(w) PROVE Typed'
  BY <1>19 DEF RenameRepoint, RepointChain
<1>20. ASSUME NEW w \in Worker, RenameUpsert(w) PROVE Typed'
  BY <1>20 DEF RenameUpsert, UpsertRedirect
<1>21. ASSUME NEW w \in Worker, RenameReferences(w) PROVE Typed'
  BY <1>21 DEF RenameReferences, RepointRefs
<1>22. ASSUME NEW w \in Worker, FailBestEffort(w) PROVE Typed'
  BY <1>22 DEF FailBestEffort, Fault
<1>23. ASSUME NEW w \in Worker, Abort(w) PROVE Typed'
  BY <1>23 DEF Abort, Idle, Fault
<1>24. CASE UNCHANGED vars
  BY <1>24 DEF vars
<1> QED
  BY <1>1, <1>2, <1>3, <1>4, <1>5, <1>6, <1>7, <1>8, <1>9, <1>10, <1>11,
     <1>12, <1>13, <1>14, <1>15, <1>16, <1>17, <1>18, <1>19, <1>20, <1>21,
     <1>22, <1>23, <1>24
  DEF Next, MergeStep, RekeyStep

\* No step makes two workers need the same node, or one that is gone.
LEMMA NextPreservesClaims ==
  ASSUME ~Overlap, Typed, ClaimsHold, [Next]_vars PROVE ClaimsHold'
<1> USE DEF Typed, RenamesUpward, TypeOK, ClaimsHold, Claimed, Carried, Folding,
            Keeping, Renamed, Places, Goto, graph, task
<1>1. ASSUME NEW i \in Id, Create(i) PROVE ClaimsHold'
  BY <1>1 DEF Create, Free, Touched
<1>2. ASSUME NEW i \in Id, NEW f \in Fact, Record(i, f) PROVE ClaimsHold'
  BY <1>2 DEF Record, Free, Touched
<1>3. ASSUME NEW r \in Ref, NEW i \in Id, Refer(r, i) PROVE ClaimsHold'
  BY <1>3 DEF Refer
<1>4. ASSUME NEW i \in Id, NEW j \in Id, KeepSeparate(i, j) PROVE ClaimsHold'
  BY <1>4 DEF KeepSeparate, Free, Touched
<1>5. ASSUME NEW w \in Worker, NEW k \in Id, NEW ds \in SUBSET Id,
            BeginMerge(w, k, ds) PROVE ClaimsHold'
  BY <1>5 DEF BeginMerge, Free, Touched
<1>6. ASSUME NEW w \in Worker, NEW i \in Id, NEW h \in Keyed, Learn(w, i, h)
      PROVE ClaimsHold'
  BY <1>6 DEF Learn, Free, Touched
<1>7. ASSUME NEW w \in Worker, FoldNext(w) PROVE ClaimsHold'
  BY <1>7 DEF FoldNext
<1>8. ASSUME NEW w \in Worker, EndGroup(w) PROVE ClaimsHold'
  BY <1>8 DEF EndGroup, Idle
<1>9. ASSUME NEW w \in Worker, Carry(w) PROVE ClaimsHold'
  BY <1>9 DEF Carry, CarryFacts
<1>10. ASSUME NEW w \in Worker, Coalesce(w) PROVE ClaimsHold'
  BY <1>10 DEF Coalesce
<1>11. ASSUME NEW w \in Worker, Repoint(w) PROVE ClaimsHold'
  BY <1>11 DEF Repoint, RepointChain
<1>12. ASSUME NEW w \in Worker, Upsert(w) PROVE ClaimsHold'
  BY <1>12 DEF Upsert, UpsertRedirect
<1>13. ASSUME NEW w \in Worker, References(w) PROVE ClaimsHold'
  BY <1>13 DEF References, RepointRefs
<1>14. ASSUME NEW w \in Worker, Delete(w) PROVE ClaimsHold'
  BY <1>14 DEF Delete, Detach
<1>15. ASSUME NEW w \in Worker, KeepId(w) PROVE ClaimsHold'
  BY <1>15 DEF KeepId
<1>16. ASSUME NEW w \in Worker, StartRename(w) PROVE ClaimsHold'
  BY <1>16 DEF StartRename, Better, Keyed
<1>17. ASSUME NEW w \in Worker, Rename(w) PROVE ClaimsHold'
  BY <1>17 DEF Rename
<1>18. ASSUME NEW w \in Worker, Unredirect(w) PROVE ClaimsHold'
  BY <1>18 DEF Unredirect
<1>19. ASSUME NEW w \in Worker, RenameRepoint(w) PROVE ClaimsHold'
  BY <1>19 DEF RenameRepoint, RepointChain
<1>20. ASSUME NEW w \in Worker, RenameUpsert(w) PROVE ClaimsHold'
  BY <1>20 DEF RenameUpsert, UpsertRedirect
<1>21. ASSUME NEW w \in Worker, RenameReferences(w) PROVE ClaimsHold'
  BY <1>21 DEF RenameReferences, RepointRefs
<1>22. ASSUME NEW w \in Worker, FailBestEffort(w) PROVE ClaimsHold'
  BY <1>22 DEF FailBestEffort, Fault
<1>23. ASSUME NEW w \in Worker, Abort(w) PROVE ClaimsHold'
  BY <1>23 DEF Abort, Idle, Fault
<1>24. ASSUME UNCHANGED vars PROVE ClaimsHold'
  BY <1>24 DEF vars
<1> HIDE DEF ClaimsHold
<1> QED
  BY <1>1, <1>2, <1>3, <1>4, <1>5, <1>6, <1>7, <1>8, <1>9, <1>10, <1>11,
     <1>12, <1>13, <1>14, <1>15, <1>16, <1>17, <1>18, <1>19, <1>20, <1>21,
     <1>22, <1>23, <1>24
  DEF Next, MergeStep, RekeyStep

\* What was carried over stays so until the loser is deleted.
LEMMA NextPreservesCarried ==
  ASSUME ~Overlap, Typed, ClaimsHold, CarriedOver, [Next]_vars PROVE CarriedOver'
<1> USE DEF Typed, TypeOK, ClaimsHold, CarriedOver, Claimed, Carried, Folding,
            Keeping, Renamed, Places, Goto, graph, task
<1>1. ASSUME NEW i \in Id, Create(i) PROVE CarriedOver'
  BY <1>1 DEF Create, Free, Touched
<1>2. ASSUME NEW i \in Id, NEW f \in Fact, Record(i, f) PROVE CarriedOver'
  BY <1>2 DEF Record, Free, Touched
<1>3. ASSUME NEW r \in Ref, NEW i \in Id, Refer(r, i) PROVE CarriedOver'
  BY <1>3 DEF Refer
<1>4. ASSUME NEW i \in Id, NEW j \in Id, KeepSeparate(i, j) PROVE CarriedOver'
  BY <1>4 DEF KeepSeparate
<1>5. ASSUME NEW w \in Worker, NEW k \in Id, NEW ds \in SUBSET Id,
            BeginMerge(w, k, ds) PROVE CarriedOver'
  BY <1>5 DEF BeginMerge
<1>6. ASSUME NEW w \in Worker, NEW i \in Id, NEW h \in Keyed, Learn(w, i, h)
      PROVE CarriedOver'
  BY <1>6 DEF Learn
<1>7. ASSUME NEW w \in Worker, FoldNext(w) PROVE CarriedOver'
  BY <1>7 DEF FoldNext
<1>8. ASSUME NEW w \in Worker, EndGroup(w) PROVE CarriedOver'
  BY <1>8 DEF EndGroup, Idle
<1>9. ASSUME NEW w \in Worker, Carry(w) PROVE CarriedOver'
  BY <1>9 DEF Carry, CarryFacts
<1>10. ASSUME NEW w \in Worker, Coalesce(w) PROVE CarriedOver'
  BY <1>10 DEF Coalesce
<1>11. ASSUME NEW w \in Worker, Repoint(w) PROVE CarriedOver'
  BY <1>11 DEF Repoint, RepointChain
<1>12. ASSUME NEW w \in Worker, Upsert(w) PROVE CarriedOver'
  BY <1>12 DEF Upsert, UpsertRedirect
<1>13. ASSUME NEW w \in Worker, References(w) PROVE CarriedOver'
  BY <1>13 DEF References, RepointRefs
<1>14. ASSUME NEW w \in Worker, Delete(w) PROVE CarriedOver'
  BY <1>14 DEF Delete, Detach
<1>15. ASSUME NEW w \in Worker, KeepId(w) PROVE CarriedOver'
  BY <1>15 DEF KeepId
<1>16. ASSUME NEW w \in Worker, StartRename(w) PROVE CarriedOver'
  BY <1>16 DEF StartRename, Better, Keyed
<1>17. ASSUME NEW w \in Worker, Rename(w) PROVE CarriedOver'
  BY <1>17 DEF Rename
<1>18. ASSUME NEW w \in Worker, Unredirect(w) PROVE CarriedOver'
  BY <1>18 DEF Unredirect
<1>19. ASSUME NEW w \in Worker, RenameRepoint(w) PROVE CarriedOver'
  BY <1>19 DEF RenameRepoint, RepointChain
<1>20. ASSUME NEW w \in Worker, RenameUpsert(w) PROVE CarriedOver'
  BY <1>20 DEF RenameUpsert, UpsertRedirect
<1>21. ASSUME NEW w \in Worker, RenameReferences(w) PROVE CarriedOver'
  BY <1>21 DEF RenameReferences, RepointRefs
<1>22. ASSUME NEW w \in Worker, FailBestEffort(w) PROVE CarriedOver'
  BY <1>22 DEF FailBestEffort, Fault
<1>23. ASSUME NEW w \in Worker, Abort(w) PROVE CarriedOver'
  BY <1>23 DEF Abort, Idle, Fault
<1>24. ASSUME UNCHANGED vars PROVE CarriedOver'
  BY <1>24 DEF vars
<1> HIDE DEF CarriedOver
<1> QED
  BY <1>1, <1>2, <1>3, <1>4, <1>5, <1>6, <1>7, <1>8, <1>9, <1>10, <1>11,
     <1>12, <1>13, <1>14, <1>15, <1>16, <1>17, <1>18, <1>19, <1>20, <1>21,
     <1>22, <1>23, <1>24
  DEF Next, MergeStep, RekeyStep

\* No step loses a fact.
LEMMA NextPreservesFacts ==
  ASSUME ~Overlap, FactsInv, [Next]_vars PROVE FactsSurvive'
<1> USE DEF FactsInv
<1>1. ASSUME UNCHANGED <<live, holds, asserted>> PROVE FactsSurvive'
  BY <1>1 DEF FactsSurvive
<1>2. ASSUME NEW i \in Id, Create(i) PROVE FactsSurvive'
  BY <1>2 DEF Create, FactsSurvive, Typed, TypeOK
<1>3. ASSUME NEW i \in Id, NEW f \in Fact, Record(i, f) PROVE FactsSurvive'
  BY <1>3 DEF Record, FactsSurvive, Typed, TypeOK
<1>4. ASSUME NEW w \in Worker, Carry(w) PROVE FactsSurvive'
  BY <1>4 DEF Carry, CarryFacts, FactsSurvive, Typed, TypeOK
<1>5. ASSUME NEW w \in Worker, Delete(w) PROVE FactsSurvive'
  <2> SUFFICES ASSUME NEW f \in asserted PROVE \E i \in live' : f \in holds'[i]
    BY <1>5 DEF Delete, Detach, FactsSurvive
  <2>1. PICK i \in live : f \in holds[i]
    BY DEF FactsSurvive
  <2>2. /\ keep[w] \in live /\ keep[w] # dead[w]
        /\ holds[dead[w]] \subseteq holds[keep[w]]
    BY <1>5 DEF Delete, ClaimsHold, Claimed, CarriedOver, Carried, Folding
  <2> QED
    BY <1>5, <2>1, <2>2 DEF Delete, Detach, Typed, TypeOK
<1>6. ASSUME NEW w \in Worker, Rename(w) PROVE FactsSurvive'
  <2> SUFFICES ASSUME NEW f \in asserted PROVE \E i \in live' : f \in holds'[i]
    BY <1>6 DEF Rename, FactsSurvive
  <2>1. PICK i \in live : f \in holds[i]
    BY DEF FactsSurvive
  <2>2. dead[w] \notin live /\ dead[w] \in Id
    BY <1>6 DEF Rename, Typed, RenamesUpward
  <2> QED
    BY <1>6, <2>1, <2>2 DEF Rename, graph, Typed, TypeOK
<1> QED
  <2>1. ASSUME NEW w \in Worker, ~Carry(w), ~Delete(w), ~Rename(w),
               MergeStep(w) \/ RekeyStep(w) \/ FailBestEffort(w) \/ Abort(w)
        PROVE  UNCHANGED <<live, holds, asserted>>
    BY <2>1 DEF MergeStep, RekeyStep, FoldNext, EndGroup, Coalesce, Repoint, Upsert,
       References, KeepId, StartRename, Unredirect, RenameRepoint, RenameUpsert,
       RenameReferences, FailBestEffort, Abort, graph
  <2>2. ASSUME NEW w \in Worker, MergeStep(w) \/ RekeyStep(w) \/ FailBestEffort(w) \/ Abort(w)
        PROVE  FactsSurvive'
    BY <1>1, <1>4, <1>5, <1>6, <2>1, <2>2
  <2>3. ASSUME NEW r \in Ref, NEW i \in Id, Refer(r, i) PROVE FactsSurvive'
    BY <1>1, <2>3 DEF Refer, graph
  <2>4. ASSUME NEW i \in Id, NEW j \in Id, KeepSeparate(i, j) PROVE FactsSurvive'
    BY <1>1, <2>4 DEF KeepSeparate
  <2>5. ASSUME NEW w \in Worker, NEW k \in Id, NEW ds \in SUBSET Id, BeginMerge(w, k, ds)
        PROVE  FactsSurvive'
    BY <1>1, <2>5 DEF BeginMerge, graph
  <2>6. ASSUME NEW w \in Worker, NEW i \in Id, NEW h \in Keyed, Learn(w, i, h)
        PROVE  FactsSurvive'
    BY <1>1, <2>6 DEF Learn
  <2>7. ASSUME UNCHANGED vars PROVE FactsSurvive'
    BY <1>1, <2>7 DEF vars, graph
  <2> HIDE DEF FactsInv
  <2> QED
    BY <1>2, <1>3, <2>2, <2>3, <2>4, <2>5, <2>6, <2>7 DEF Next

\* A survivor's id only gets better, and a marked member is never picked.
LEMMA NextPreservesFirst ==
  ASSUME Typed, FirstIsWorst, PickedUnmarked, [Next]_vars
  PROVE  FirstIsWorst' /\ PickedUnmarked'
<1> DEFINE Goal == FirstIsWorst /\ PickedUnmarked
<1> USE DEF Typed, RenamesUpward, TypeOK, FirstIsWorst, PickedUnmarked, Renamed,
            Goto, Idle, graph, task
<1>1. ASSUME NEW i \in Id, Create(i) PROVE Goal'
  BY <1>1 DEF Create
<1>2. ASSUME NEW i \in Id, NEW f \in Fact, Record(i, f) PROVE Goal'
  BY <1>2 DEF Record
<1>3. ASSUME NEW r \in Ref, NEW i \in Id, Refer(r, i) PROVE Goal'
  BY <1>3 DEF Refer
<1>4. ASSUME NEW i \in Id, NEW j \in Id, KeepSeparate(i, j) PROVE Goal'
  BY <1>4 DEF KeepSeparate
<1>5. ASSUME NEW w \in Worker, NEW k \in Id, NEW ds \in SUBSET Id,
            BeginMerge(w, k, ds) PROVE Goal'
  BY <1>5 DEF BeginMerge
<1>6. ASSUME NEW w \in Worker, NEW i \in Id, NEW h \in Keyed, Learn(w, i, h)
      PROVE Goal'
  BY <1>6 DEF Learn
<1>7. ASSUME NEW w \in Worker, FoldNext(w) PROVE Goal'
  BY <1>7 DEF FoldNext
<1>8. ASSUME NEW w \in Worker, EndGroup(w) PROVE Goal'
  BY <1>8 DEF EndGroup
<1>9. ASSUME NEW w \in Worker, Carry(w) PROVE Goal'
  BY <1>9 DEF Carry
<1>10. ASSUME NEW w \in Worker, Coalesce(w) PROVE Goal'
  BY <1>10 DEF Coalesce
<1>11. ASSUME NEW w \in Worker, Repoint(w) PROVE Goal'
  BY <1>11 DEF Repoint
<1>12. ASSUME NEW w \in Worker, Upsert(w) PROVE Goal'
  BY <1>12 DEF Upsert
<1>13. ASSUME NEW w \in Worker, References(w) PROVE Goal'
  BY <1>13 DEF References
<1>14. ASSUME NEW w \in Worker, Delete(w) PROVE Goal'
  BY <1>14 DEF Delete
<1>15. ASSUME NEW w \in Worker, KeepId(w) PROVE Goal'
  BY <1>15 DEF KeepId
<1>16. ASSUME NEW w \in Worker, StartRename(w) PROVE Goal'
  BY <1>16 DEF StartRename
<1>17. ASSUME NEW w \in Worker, Rename(w) PROVE Goal'
  BY <1>17 DEF Rename
<1>18. ASSUME NEW w \in Worker, Unredirect(w) PROVE Goal'
  BY <1>18 DEF Unredirect
<1>19. ASSUME NEW w \in Worker, RenameRepoint(w) PROVE Goal'
  BY <1>19 DEF RenameRepoint
<1>20. ASSUME NEW w \in Worker, RenameUpsert(w) PROVE Goal'
  BY <1>20 DEF RenameUpsert
<1>21. ASSUME NEW w \in Worker, RenameReferences(w) PROVE Goal'
  BY <1>21 DEF RenameReferences
<1>22. ASSUME NEW w \in Worker, FailBestEffort(w) PROVE Goal'
  BY <1>22 DEF FailBestEffort
<1>23. ASSUME NEW w \in Worker, Abort(w) PROVE Goal'
  BY <1>23 DEF Abort, Idle
<1>24. ASSUME UNCHANGED vars PROVE Goal'
  BY <1>24 DEF vars
<1>25. Goal'
  <2> HIDE DEF Goal
  <2> QED
    BY <1>1, <1>2, <1>3, <1>4, <1>5, <1>6, <1>7, <1>8, <1>9, <1>10, <1>11,
       <1>12, <1>13, <1>14, <1>15, <1>16, <1>17, <1>18, <1>19, <1>20, <1>21,
       <1>22, <1>23, <1>24
    DEF Next, MergeStep, RekeyStep
<1> QED
  BY <1>25

\* The marks a worker read stay complete for the nodes it needs.
LEMMA NextPreservesMarks ==
  ASSUME ~Overlap, ApartInv, [Next]_vars PROVE MarksRead'
<1> USE DEF ApartInv, Typed, RenamesUpward, TypeOK, ClaimsHold, MarksRead,
            FirstIsWorst,
            Claimed, Carried, Folding, Keeping, Renamed, Places, Goto, graph, task
<1>0. ASSUME UNCHANGED <<apart, keep, first, marks>>,
             \A v \in Worker : Claimed(v)' = Claimed(v) /\ (pc'[v] \in Renamed <=> pc[v] \in Renamed)
      PROVE  MarksRead'
  <2> HIDE DEF Claimed, Renamed
  <2> QED
    BY <1>0
<1>1. ASSUME NEW i \in Id, Create(i) PROVE MarksRead'
  BY <1>1 DEF Create, Free, Touched
<1>2. ASSUME NEW i \in Id, NEW f \in Fact, Record(i, f) PROVE MarksRead'
  BY <1>2 DEF Record
<1>3. ASSUME NEW r \in Ref, NEW i \in Id, Refer(r, i) PROVE MarksRead'
  BY <1>3 DEF Refer
<1>4. ASSUME NEW i \in Id, NEW j \in Id, KeepSeparate(i, j) PROVE MarksRead'
  BY <1>4 DEF KeepSeparate, Free, Touched
<1>5. ASSUME NEW w \in Worker, NEW k \in Id, NEW ds \in SUBSET Id,
            BeginMerge(w, k, ds) PROVE MarksRead'
  BY <1>5 DEF BeginMerge, Free, Touched
<1>6. ASSUME NEW w \in Worker, NEW i \in Id, NEW h \in Keyed, Learn(w, i, h)
      PROVE MarksRead'
  BY <1>6 DEF Learn, Free, Touched
<1>7. ASSUME NEW w \in Worker, FoldNext(w) PROVE MarksRead'
  BY <1>7 DEF FoldNext
<1>8. ASSUME NEW w \in Worker, EndGroup(w) PROVE MarksRead'
  BY <1>8 DEF EndGroup, Idle
<1>9. ASSUME NEW w \in Worker, Carry(w) PROVE MarksRead'
  <2>1. \A v \in Worker : Claimed(v)' = Claimed(v) /\ (pc'[v] \in Renamed <=> pc[v] \in Renamed)
    BY <1>9 DEF Carry
  <2> QED
    BY <1>0, <1>9, <2>1 DEF Carry
<1>10. ASSUME NEW w \in Worker, Coalesce(w) PROVE MarksRead'
  BY <1>10 DEF Coalesce
<1>11. ASSUME NEW w \in Worker, Repoint(w) PROVE MarksRead'
  <2>1. \A v \in Worker : Claimed(v)' = Claimed(v) /\ (pc'[v] \in Renamed <=> pc[v] \in Renamed)
    BY <1>11 DEF Repoint
  <2> QED
    BY <1>0, <1>11, <2>1 DEF Repoint
<1>12. ASSUME NEW w \in Worker, Upsert(w) PROVE MarksRead'
  <2>1. \A v \in Worker : Claimed(v)' = Claimed(v) /\ (pc'[v] \in Renamed <=> pc[v] \in Renamed)
    BY <1>12 DEF Upsert
  <2> QED
    BY <1>0, <1>12, <2>1 DEF Upsert
<1>13. ASSUME NEW w \in Worker, References(w) PROVE MarksRead'
  <2>1. \A v \in Worker : Claimed(v)' = Claimed(v) /\ (pc'[v] \in Renamed <=> pc[v] \in Renamed)
    BY <1>13 DEF References
  <2> QED
    BY <1>0, <1>13, <2>1 DEF References
<1>14. ASSUME NEW w \in Worker, Delete(w) PROVE MarksRead'
  BY <1>14 DEF Delete, Detach
<1>15. ASSUME NEW w \in Worker, KeepId(w) PROVE MarksRead'
  BY <1>15 DEF KeepId
<1>16. ASSUME NEW w \in Worker, StartRename(w) PROVE MarksRead'
  <2>1. \A v \in Worker : Claimed(v)' = Claimed(v) /\ (pc'[v] \in Renamed <=> pc[v] \in Renamed)
    BY <1>16 DEF StartRename
  <2> QED
    BY <1>0, <1>16, <2>1 DEF StartRename
<1>17. ASSUME NEW w \in Worker, Rename(w) PROVE MarksRead'
  <2> SUFFICES ASSUME NEW v \in Worker, pc'[v] \notin Renamed, keep'[v] = first'[v],
                      NEW a \in apart', a # {}, a \subseteq Claimed(v)'
               PROVE  a \in marks'[v]
    OBVIOUS
  <2>1. v # w /\ keep[v] = first[v] /\ pc[v] \notin Renamed /\ marks'[v] = marks[v]
    BY <1>17 DEF Rename
  <2>2. Claimed(v)' = Claimed(v)
    BY <1>17, <2>1 DEF Rename
  <2>3. a \in apart
    <3> DEFINE Now(i) == IF i = keep[w] THEN dead[w] ELSE i
    <3>1. CASE keep[w] \notin live
      BY <1>17, <3>1 DEF Rename
    <3>2. CASE keep[w] \in live
      <4>. apart' = {{Now(i) : i \in b} : b \in apart}
        BY <1>17, <3>2 DEF Rename
      <4>1. PICK b \in apart : a = {Now(i) : i \in b}
        OBVIOUS
      <4>2. dead[w] \notin a
        BY <1>17, <2>2 DEF Rename
      <4>3. keep[w] \notin b
        BY <4>1, <4>2
      <4>4. \A i \in b : Now(i) = i
        BY <4>3
      <4>5. a = b
        BY <4>1, <4>4
      <4> QED
        BY <4>5
    <3> QED
      BY <3>1, <3>2
  <2> QED
    BY <2>1, <2>2, <2>3
<1>18. ASSUME NEW w \in Worker, Unredirect(w) PROVE MarksRead'
  BY <1>18 DEF Unredirect
<1>19. ASSUME NEW w \in Worker, RenameRepoint(w) PROVE MarksRead'
  BY <1>19 DEF RenameRepoint, RepointChain
<1>20. ASSUME NEW w \in Worker, RenameUpsert(w) PROVE MarksRead'
  BY <1>20 DEF RenameUpsert, UpsertRedirect
<1>21. ASSUME NEW w \in Worker, RenameReferences(w) PROVE MarksRead'
  BY <1>21 DEF RenameReferences, RepointRefs
<1>22. ASSUME NEW w \in Worker, FailBestEffort(w) PROVE MarksRead'
  BY <1>22 DEF FailBestEffort, Fault
<1>23. ASSUME NEW w \in Worker, Abort(w) PROVE MarksRead'
  BY <1>23 DEF Abort, Idle, Fault
<1>24. ASSUME UNCHANGED vars PROVE MarksRead'
  BY <1>24 DEF vars
<1> HIDE DEF MarksRead
<1> QED
  BY <1>1, <1>2, <1>3, <1>4, <1>5, <1>6, <1>7, <1>8, <1>9, <1>10, <1>11,
     <1>12, <1>13, <1>14, <1>15, <1>16, <1>17, <1>18, <1>19, <1>20, <1>21,
     <1>22, <1>23, <1>24
  DEF Next, MergeStep, RekeyStep

-----------------------------------------------------------------------------

\* The empty graph satisfies both invariants.
LEMMA InitEstablishes == Init => FactsInv /\ ApartInv
<1> SUFFICES ASSUME Init PROVE FactsInv /\ ApartInv
  OBVIOUS
<1>1. TypeOK
  <2>1. /\ live \subseteq Id /\ issued \subseteq Id /\ asserted \subseteq Fact
        /\ apart \subseteq Pairs /\ faults \in 0 .. MaxFaults
    BY DEF Init
  <2>2. hard \in [Id -> SUBSET Keyed] /\ holds \in [Id -> SUBSET Fact]
    BY DEF Init
  <2>3. redirect \in [Id -> Id \cup {NoId}] /\ refs \in [Ref -> Id \cup {NoId}]
    BY DEF Init
  <2>4. pc \in [Worker -> Places] /\ keep \in [Worker -> Id \cup {NoId}]
    BY DEF Init, Places
  <2>5. dead \in [Worker -> Id \cup {NoId}] /\ first \in [Worker -> Id \cup {NoId}]
    BY DEF Init
  <2>6. todo \in [Worker -> SUBSET Id] /\ marks \in [Worker -> SUBSET Pairs]
    BY DEF Init
  <2>7. \A w \in Worker : keep[w] = NoId /\ dead[w] = NoId /\ todo[w] = {}
    BY DEF Init
  <2> QED
    BY <2>1, <2>2, <2>3, <2>4, <2>5, <2>6, <2>7 DEF TypeOK
<1>2. \A w \in Worker : pc[w] = "idle" /\ Claimed(w) = {}
  BY DEF Init, Claimed, Carried, Folding, Keeping, Renamed
<1>3. RenamesUpward /\ ClaimsHold /\ CarriedOver /\ PickedUnmarked
  BY <1>2 DEF RenamesUpward, ClaimsHold, CarriedOver, PickedUnmarked, Carried, Folding, Keeping, Renamed
<1>4. FactsSurvive /\ MarksRead /\ FirstIsWorst
  BY DEF Init, FactsSurvive, MarksRead, FirstIsWorst
<1> QED
  BY <1>1, <1>3, <1>4 DEF FactsInv, ApartInv, Typed

\* Every state has the types declared, whether operations overlap or not.
THEOREM TypeCorrect == Spec => []TypeOK
<1>1. Init => Typed
  BY InitEstablishes DEF FactsInv
<1>2. Typed /\ [Next]_vars => Typed'
  BY NextPreservesType
<1>3. Typed => TypeOK
  BY DEF Typed
<1> QED
  BY <1>1, <1>2, <1>3, PTL DEF Spec

\* A merge loses nothing (maintenance._apply_entity_merge, rename_node_id), for
\* any nodes, facts and workers and whatever fails: what was recorded about a
\* node is, at every step, on some node that is still there.
THEOREM NothingLost == ASSUME ~Overlap PROVE Spec => []FactsSurvive
<1>1. Init => FactsInv
  BY InitEstablishes
<1>2. FactsInv /\ [Next]_vars => FactsInv'
  BY NextPreservesType, NextPreservesClaims, NextPreservesCarried, NextPreservesFacts
  DEF FactsInv
<1>3. FactsInv => FactsSurvive
  BY DEF FactsInv
<1> QED
  BY <1>1, <1>2, <1>3, PTL DEF Spec

\* A pair a human confirmed to be two companies is merged only by a group whose
\* survivor was re-keyed since its marks were read (deduplicate_entities_for),
\* for any group, marks and number of workers.
THEOREM ApartUnlessRekeyed == ASSUME ~Overlap PROVE Spec => []KeptSeparateUnlessRekeyed
<1>1. Init => ApartInv
  BY InitEstablishes
<1>2. ApartInv /\ [Next]_vars => ApartInv'
  BY NextPreservesType, NextPreservesClaims, NextPreservesFirst, NextPreservesMarks
  DEF ApartInv
<1>3. ApartInv => KeptSeparateUnlessRekeyed
  <2> SUFFICES ASSUME ApartInv, NEW w \in Worker, pc[w] = "carry", keep[w] = first[w]
               PROVE  {keep[w], dead[w]} \notin apart
    BY DEF KeptSeparateUnlessRekeyed
  <2>1. {keep[w], dead[w]} \subseteq Claimed(w) /\ pc[w] \notin Renamed
    BY DEF Claimed, Folding, Carried, Renamed
  <2>2. {keep[w], dead[w]} \notin marks[w]
    BY DEF ApartInv, PickedUnmarked
  <2> QED
    BY <2>1, <2>2 DEF ApartInv, MarksRead
<1> QED
  BY <1>1, <1>2, <1>3, PTL DEF Spec

-----------------------------------------------------------------------------

\* What ClaimsHold says of the two nodes of each operation.
LEMMA ClaimsApart == ASSUME Typed, ClaimsHold PROVE NodesApart
  BY DEF Typed, TypeOK, ClaimsHold, NodesApart, Claimed

\* A stamp stays on one node: a writer looks for a new stamp before it sets it, and
\* a rename takes every stamp along.
LEMMA KeepsStampsApart ==
  ASSUME ~Overlap, OneIdPerRank, Typed, NodesApart, Traced, [Next]_vars, faults' = 0
  PROVE  StampsApart'
<1> USE DEF Typed, TypeOK, NodesApart, Carried, Folding, Keeping, Renamed,
            Coalesced, Places, Goto, Free, Touched, graph, task, Traced,
            StampsApart, IdsKnown
<1>1. ASSUME NEW i \in Id, Create(i) PROVE StampsApart'
  BY <1>1 DEF Create
<1>2. ASSUME NEW i \in Id, NEW f \in Fact, Record(i, f) PROVE StampsApart'
  BY <1>2 DEF Record
<1>3. ASSUME NEW r \in Ref, NEW i \in Id, Refer(r, i) PROVE StampsApart'
  BY <1>3 DEF Refer
<1>4. ASSUME NEW i \in Id, NEW j \in Id, KeepSeparate(i, j) PROVE StampsApart'
  BY <1>4 DEF KeepSeparate
<1>5. ASSUME NEW w \in Worker, NEW k \in Id, NEW ds \in SUBSET Id, BeginMerge(w, k, ds)
      PROVE  StampsApart'
  BY <1>5 DEF BeginMerge
<1>6. ASSUME NEW w \in Worker, NEW i \in Id, NEW h \in Keyed, Learn(w, i, h)
      PROVE  StampsApart'
  BY <1>6 DEF Learn
<1>7. ASSUME NEW w \in Worker, FoldNext(w) PROVE StampsApart'
  BY <1>7 DEF FoldNext
<1>8. ASSUME NEW w \in Worker, EndGroup(w) PROVE StampsApart'
  BY <1>8 DEF EndGroup, Idle
<1>9. ASSUME NEW w \in Worker, Carry(w) PROVE StampsApart'
  BY <1>9 DEF Carry, CarryFacts
<1>10. ASSUME NEW w \in Worker, Coalesce(w) PROVE StampsApart'
  BY <1>10 DEF Coalesce
<1>11. ASSUME NEW w \in Worker, Repoint(w) PROVE StampsApart'
  BY <1>11 DEF Repoint, RepointChain
<1>12. ASSUME NEW w \in Worker, Upsert(w) PROVE StampsApart'
  BY <1>12 DEF Upsert, UpsertRedirect
<1>13. ASSUME NEW w \in Worker, References(w) PROVE StampsApart'
  BY <1>13 DEF References, RepointRefs
<1>14. ASSUME NEW w \in Worker, Delete(w) PROVE StampsApart'
  BY <1>14 DEF Delete, Detach
<1>15. ASSUME NEW w \in Worker, KeepId(w) PROVE StampsApart'
  BY <1>15 DEF KeepId
<1>16. ASSUME NEW w \in Worker, StartRename(w) PROVE StampsApart'
  BY <1>16 DEF StartRename, Better, Keyed
<1>17. ASSUME NEW w \in Worker, Rename(w) PROVE StampsApart'
  <2>1. /\ keep[w] \in live /\ dead[w] \in Id /\ dead[w] \notin live /\ keep[w] # dead[w]
        /\ live' = (live \ {keep[w]}) \cup {dead[w]}
        /\ hard'[dead[w]] = hard[keep[w]]
        /\ \A x \in live : x # keep[w] => hard'[x] = hard[x]
    BY <1>17 DEF Rename, RenamesUpward

  <2> SUFFICES ASSUME NEW m \in live', NEW n \in live', NEW h \in Keyed,
                      m # n, h \in hard'[m], h \in hard'[n]
               PROVE  \E v \in Worker :
                        /\ pc'[v] \in Coalesced
                        /\ \/ m = keep'[v] /\ n = dead'[v]
                           \/ m = dead'[v] /\ n = keep'[v]
    BY DEF StampsApart
  <2> DEFINE Was(x) == IF x = dead[w] THEN keep[w] ELSE x
  <2>2. /\ Was(m) \in live /\ Was(n) \in live /\ Was(m) # Was(n)
        /\ h \in hard[Was(m)] /\ h \in hard[Was(n)]
    BY <2>1
  <2>3. PICK v \in Worker : /\ pc[v] \in Coalesced
                            /\ \/ Was(m) = keep[v] /\ Was(n) = dead[v]
                               \/ Was(m) = dead[v] /\ Was(n) = keep[v]
    <3> HIDE DEF Was
    <3> QED
      BY <2>2 DEF StampsApart
  <2>4. v # w /\ keep[v] # keep[w] /\ dead[v] # keep[w] /\ pc'[v] = pc[v] /\ UNCHANGED <<keep, dead>>
    BY <1>17, <2>3 DEF Rename, NodesApart
  <2>5. Was(m) = m /\ Was(n) = n
    BY <2>3, <2>4
  <2> QED
    BY <2>3, <2>4, <2>5
<1>18. ASSUME NEW w \in Worker, Unredirect(w) PROVE StampsApart'
  BY <1>18 DEF Unredirect
<1>19. ASSUME NEW w \in Worker, RenameRepoint(w) PROVE StampsApart'
  BY <1>19 DEF RenameRepoint, RepointChain
<1>20. ASSUME NEW w \in Worker, RenameUpsert(w) PROVE StampsApart'
  BY <1>20 DEF RenameUpsert, UpsertRedirect
<1>21. ASSUME NEW w \in Worker, RenameReferences(w) PROVE StampsApart'
  BY <1>21 DEF RenameReferences, RepointRefs
<1>22. ASSUME NEW w \in Worker, FailBestEffort(w) PROVE StampsApart'
  BY <1>22 DEF FailBestEffort, Fault
<1>23. ASSUME NEW w \in Worker, Abort(w) PROVE StampsApart'
  BY <1>23 DEF Abort, Idle, Fault
<1>24. ASSUME UNCHANGED vars PROVE StampsApart'
  BY <1>24 DEF vars
<1> QED
    BY <1>1, <1>2, <1>3, <1>4, <1>5, <1>6, <1>7, <1>8, <1>9, <1>10, <1>11, <1>12,
     <1>13, <1>14, <1>15, <1>16, <1>17, <1>18, <1>19, <1>20, <1>21, <1>22, <1>23,
     <1>24
  DEF Next, MergeStep, RekeyStep

\* An id that was taken over stays stamped on the node that took it over.
LEMMA KeepsIdsKnown ==
  ASSUME ~Overlap, OneIdPerRank, Typed, NodesApart, Traced, [Next]_vars, faults' = 0
  PROVE  IdsKnown'
<1> USE DEF Typed, TypeOK, NodesApart, Carried, Folding, Keeping, Renamed,
            Coalesced, Places, Goto, Free, Touched, graph, task, Traced, IdsKnown,
            StampsFollow, OneIdPerRank, RowsEnd, RenamesUpward, OldIdsGone
<1>1. ASSUME NEW i \in Id, Create(i) PROVE IdsKnown'
  BY <1>1 DEF Create
<1>2. ASSUME NEW i \in Id, NEW f \in Fact, Record(i, f) PROVE IdsKnown'
  BY <1>2 DEF Record
<1>3. ASSUME NEW r \in Ref, NEW i \in Id, Refer(r, i) PROVE IdsKnown'
  BY <1>3 DEF Refer
<1>4. ASSUME NEW i \in Id, NEW j \in Id, KeepSeparate(i, j) PROVE IdsKnown'
  BY <1>4 DEF KeepSeparate
<1>5. ASSUME NEW w \in Worker, NEW k \in Id, NEW ds \in SUBSET Id, BeginMerge(w, k, ds)
      PROVE  IdsKnown'
  BY <1>5 DEF BeginMerge
<1>6. ASSUME NEW w \in Worker, NEW i \in Id, NEW h \in Keyed, Learn(w, i, h)
      PROVE  IdsKnown'
  BY <1>6 DEF Learn
<1>7. ASSUME NEW w \in Worker, FoldNext(w) PROVE IdsKnown'
  BY <1>7 DEF FoldNext
<1>8. ASSUME NEW w \in Worker, EndGroup(w) PROVE IdsKnown'
  BY <1>8 DEF EndGroup, Idle
<1>9. ASSUME NEW w \in Worker, Carry(w) PROVE IdsKnown'
  BY <1>9 DEF Carry, CarryFacts
<1>10. ASSUME NEW w \in Worker, Coalesce(w) PROVE IdsKnown'
  BY <1>10 DEF Coalesce
<1>11. ASSUME NEW w \in Worker, Repoint(w) PROVE IdsKnown'
  BY <1>11 DEF Repoint, RepointChain
<1>12. ASSUME NEW w \in Worker, Upsert(w) PROVE IdsKnown'
  BY <1>12 DEF Upsert, UpsertRedirect
<1>13. ASSUME NEW w \in Worker, References(w) PROVE IdsKnown'
  BY <1>13 DEF References, RepointRefs
<1>14. ASSUME NEW w \in Worker, Delete(w) PROVE IdsKnown'
  BY <1>14 DEF Delete, Detach
<1>15. ASSUME NEW w \in Worker, KeepId(w) PROVE IdsKnown'
  BY <1>15 DEF KeepId
<1>16. ASSUME NEW w \in Worker, StartRename(w) PROVE IdsKnown'
  BY <1>16 DEF StartRename, Better, Keyed
<1>17. ASSUME NEW w \in Worker, Rename(w) PROVE IdsKnown'
  <2>1. /\ keep[w] \in live /\ dead[w] \in Id /\ dead[w] \notin live /\ keep[w] # dead[w]
        /\ live' = (live \ {keep[w]}) \cup {dead[w]}
        /\ hard'[dead[w]] = hard[keep[w]]
        /\ \A x \in live : x # keep[w] => hard'[x] = hard[x]
    BY <1>17 DEF Rename, RenamesUpward

  <2>2. /\ issued' = issued \cup {dead[w]} /\ redirect' = redirect
        /\ keep[w] \in issued /\ dead[w] \in hard[keep[w]]
        /\ hard[keep[w]] \subseteq Keyed
    BY <1>17, <2>1 DEF Rename
  <2>3. live' \subseteq issued' /\ \A i \in Id : redirect'[i] # NoId => i \in issued'
    BY <2>1, <2>2
  <2>4. \A i \in live' \cap Keyed : i \in hard'[i]
    BY <2>1, <2>2
  <2>5. ASSUME NEW i \in (issued' \cap Keyed) \ live' PROVE \E n \in live' : i \in hard'[n]
    <3>1. CASE i = keep[w]
      BY <2>1, <3>1
    <3>2. CASE i # keep[w]
      <4>1. PICK n \in live : i \in hard[n]
        BY <2>1, <2>2, <3>2
      <4>2. CASE n = keep[w]
        BY <2>1, <4>1, <4>2
      <4>3. CASE n # keep[w]
        BY <2>1, <4>1, <4>3
      <4> QED
        BY <4>2, <4>3
    <3> QED
      BY <3>1, <3>2
  <2> QED
    BY <2>3, <2>4, <2>5
<1>18. ASSUME NEW w \in Worker, Unredirect(w) PROVE IdsKnown'
  BY <1>18 DEF Unredirect
<1>19. ASSUME NEW w \in Worker, RenameRepoint(w) PROVE IdsKnown'
  BY <1>19 DEF RenameRepoint, RepointChain
<1>20. ASSUME NEW w \in Worker, RenameUpsert(w) PROVE IdsKnown'
  BY <1>20 DEF RenameUpsert, UpsertRedirect
<1>21. ASSUME NEW w \in Worker, RenameReferences(w) PROVE IdsKnown'
  BY <1>21 DEF RenameReferences, RepointRefs
<1>22. ASSUME NEW w \in Worker, FailBestEffort(w) PROVE IdsKnown'
  BY <1>22 DEF FailBestEffort, Fault
<1>23. ASSUME NEW w \in Worker, Abort(w) PROVE IdsKnown'
  BY <1>23 DEF Abort, Idle, Fault
<1>24. ASSUME UNCHANGED vars PROVE IdsKnown'
  BY <1>24 DEF vars
<1> QED
    BY <1>1, <1>2, <1>3, <1>4, <1>5, <1>6, <1>7, <1>8, <1>9, <1>10, <1>11, <1>12,
     <1>13, <1>14, <1>15, <1>16, <1>17, <1>18, <1>19, <1>20, <1>21, <1>22, <1>23,
     <1>24
  DEF Next, MergeStep, RekeyStep

\* A fold and a rename carry every stamp: one of a rank the survivor already has
\* is the survivor's own.
LEMMA KeepsStampsFollow ==
  ASSUME ~Overlap, OneIdPerRank, Typed, NodesApart, Traced, [Next]_vars, faults' = 0
  PROVE  StampsFollow'
<1> USE DEF Typed, TypeOK, NodesApart, Carried, Folding, Keeping, Renamed,
            Coalesced, Places, Goto, Free, Touched, graph, task, Traced, IdsKnown,
            StampsFollow, OneIdPerRank, RowsEnd, RenamesUpward, OldIdsGone
<1>1. ASSUME NEW i \in Id, Create(i) PROVE StampsFollow'
  BY <1>1 DEF Create
<1>2. ASSUME NEW i \in Id, NEW f \in Fact, Record(i, f) PROVE StampsFollow'
  BY <1>2 DEF Record
<1>3. ASSUME NEW r \in Ref, NEW i \in Id, Refer(r, i) PROVE StampsFollow'
  BY <1>3 DEF Refer
<1>4. ASSUME NEW i \in Id, NEW j \in Id, KeepSeparate(i, j) PROVE StampsFollow'
  BY <1>4 DEF KeepSeparate
<1>5. ASSUME NEW w \in Worker, NEW k \in Id, NEW ds \in SUBSET Id, BeginMerge(w, k, ds)
      PROVE  StampsFollow'
  BY <1>5 DEF BeginMerge
<1>6. ASSUME NEW w \in Worker, NEW i \in Id, NEW h \in Keyed, Learn(w, i, h)
      PROVE  StampsFollow'
  BY <1>6 DEF Learn
<1>7. ASSUME NEW w \in Worker, FoldNext(w) PROVE StampsFollow'
  BY <1>7 DEF FoldNext
<1>8. ASSUME NEW w \in Worker, EndGroup(w) PROVE StampsFollow'
  BY <1>8 DEF EndGroup, Idle
<1>9. ASSUME NEW w \in Worker, Carry(w) PROVE StampsFollow'
  BY <1>9 DEF Carry, CarryFacts
<1>10. ASSUME NEW w \in Worker, Coalesce(w) PROVE StampsFollow'
  BY <1>10 DEF Coalesce
<1>11. ASSUME NEW w \in Worker, Repoint(w) PROVE StampsFollow'
  BY <1>11 DEF Repoint, RepointChain
<1>12. ASSUME NEW w \in Worker, Upsert(w) PROVE StampsFollow'
  BY <1>12 DEF Upsert, UpsertRedirect
<1>13. ASSUME NEW w \in Worker, References(w) PROVE StampsFollow'
  BY <1>13 DEF References, RepointRefs
<1>14. ASSUME NEW w \in Worker, Delete(w) PROVE StampsFollow'
  BY <1>14 DEF Delete, Detach
<1>15. ASSUME NEW w \in Worker, KeepId(w) PROVE StampsFollow'
  BY <1>15 DEF KeepId
<1>16. ASSUME NEW w \in Worker, StartRename(w) PROVE StampsFollow'
  BY <1>16 DEF StartRename, Better, Keyed
<1>17. ASSUME NEW w \in Worker, Rename(w) PROVE StampsFollow'
  BY <1>17 DEF Rename
<1>18. ASSUME NEW w \in Worker, Unredirect(w) PROVE StampsFollow'
  BY <1>18 DEF Unredirect
<1>19. ASSUME NEW w \in Worker, RenameRepoint(w) PROVE StampsFollow'
  BY <1>19 DEF RenameRepoint, RepointChain
<1>20. ASSUME NEW w \in Worker, RenameUpsert(w) PROVE StampsFollow'
  BY <1>20 DEF RenameUpsert, UpsertRedirect
<1>21. ASSUME NEW w \in Worker, RenameReferences(w) PROVE StampsFollow'
  BY <1>21 DEF RenameReferences, RepointRefs
<1>22. ASSUME NEW w \in Worker, FailBestEffort(w) PROVE StampsFollow'
  BY <1>22 DEF FailBestEffort, Fault
<1>23. ASSUME NEW w \in Worker, Abort(w) PROVE StampsFollow'
  BY <1>23 DEF Abort, Idle, Fault
<1>24. ASSUME UNCHANGED vars PROVE StampsFollow'
  BY <1>24 DEF vars
<1> QED
    BY <1>1, <1>2, <1>3, <1>4, <1>5, <1>6, <1>7, <1>8, <1>9, <1>10, <1>11, <1>12,
     <1>13, <1>14, <1>15, <1>16, <1>17, <1>18, <1>19, <1>20, <1>21, <1>22, <1>23,
     <1>24
  DEF Next, MergeStep, RekeyStep

\* The rows keep leading to live nodes.
LEMMA KeepsRowsLead ==
  ASSUME ~Overlap, OneIdPerRank, Typed, NodesApart, Traced, [Next]_vars, faults' = 0
  PROVE  RowsLead'
<1> USE DEF Typed, TypeOK, NodesApart, Carried, Folding, Keeping, Renamed,
            Coalesced, Places, Goto, Free, Touched, graph, task, Traced, IdsKnown,
            RowsLead, RowsEnd, RenamesUpward, OldIdsGone
<1>1. ASSUME NEW i \in Id, Create(i) PROVE RowsLead'
  BY <1>1 DEF Create
<1>2. ASSUME NEW i \in Id, NEW f \in Fact, Record(i, f) PROVE RowsLead'
  BY <1>2 DEF Record
<1>3. ASSUME NEW r \in Ref, NEW i \in Id, Refer(r, i) PROVE RowsLead'
  BY <1>3 DEF Refer
<1>4. ASSUME NEW i \in Id, NEW j \in Id, KeepSeparate(i, j) PROVE RowsLead'
  BY <1>4 DEF KeepSeparate
<1>5. ASSUME NEW w \in Worker, NEW k \in Id, NEW ds \in SUBSET Id, BeginMerge(w, k, ds)
      PROVE  RowsLead'
  BY <1>5 DEF BeginMerge
<1>6. ASSUME NEW w \in Worker, NEW i \in Id, NEW h \in Keyed, Learn(w, i, h)
      PROVE  RowsLead'
  BY <1>6 DEF Learn
<1>7. ASSUME NEW w \in Worker, FoldNext(w) PROVE RowsLead'
  BY <1>7 DEF FoldNext
<1>8. ASSUME NEW w \in Worker, EndGroup(w) PROVE RowsLead'
  BY <1>8 DEF EndGroup, Idle
<1>9. ASSUME NEW w \in Worker, Carry(w) PROVE RowsLead'
  BY <1>9 DEF Carry, CarryFacts
<1>10. ASSUME NEW w \in Worker, Coalesce(w) PROVE RowsLead'
  BY <1>10 DEF Coalesce
<1>11. ASSUME NEW w \in Worker, Repoint(w) PROVE RowsLead'
  BY <1>11 DEF Repoint, RepointChain
<1>12. ASSUME NEW w \in Worker, Upsert(w) PROVE RowsLead'
  BY <1>12 DEF Upsert, UpsertRedirect
<1>13. ASSUME NEW w \in Worker, References(w) PROVE RowsLead'
  BY <1>13 DEF References, RepointRefs
<1>14. ASSUME NEW w \in Worker, Delete(w) PROVE RowsLead'
  BY <1>14 DEF Delete, Detach
<1>15. ASSUME NEW w \in Worker, KeepId(w) PROVE RowsLead'
  BY <1>15 DEF KeepId
<1>16. ASSUME NEW w \in Worker, StartRename(w) PROVE RowsLead'
  BY <1>16 DEF StartRename, Better, Keyed
<1>17. ASSUME NEW w \in Worker, Rename(w) PROVE RowsLead'
  BY <1>17 DEF Rename
<1>18. ASSUME NEW w \in Worker, Unredirect(w) PROVE RowsLead'
  BY <1>18 DEF Unredirect
<1>19. ASSUME NEW w \in Worker, RenameRepoint(w) PROVE RowsLead'
  BY <1>19 DEF RenameRepoint, RepointChain
<1>20. ASSUME NEW w \in Worker, RenameUpsert(w) PROVE RowsLead'
  BY <1>20 DEF RenameUpsert, UpsertRedirect
<1>21. ASSUME NEW w \in Worker, RenameReferences(w) PROVE RowsLead'
  BY <1>21 DEF RenameReferences, RepointRefs
<1>22. ASSUME NEW w \in Worker, FailBestEffort(w) PROVE RowsLead'
  BY <1>22 DEF FailBestEffort, Fault
<1>23. ASSUME NEW w \in Worker, Abort(w) PROVE RowsLead'
  BY <1>23 DEF Abort, Idle, Fault
<1>24. ASSUME UNCHANGED vars PROVE RowsLead'
  BY <1>24 DEF vars
<1> QED
    BY <1>1, <1>2, <1>3, <1>4, <1>5, <1>6, <1>7, <1>8, <1>9, <1>10, <1>11, <1>12,
     <1>13, <1>14, <1>15, <1>16, <1>17, <1>18, <1>19, <1>20, <1>21, <1>22, <1>23,
     <1>24
  DEF Next, MergeStep, RekeyStep

\* A row ends where it leads: no live node is forwarded further.
LEMMA KeepsRowsEnd ==
  ASSUME ~Overlap, OneIdPerRank, Typed, NodesApart, Traced, [Next]_vars, faults' = 0
  PROVE  RowsEnd'
<1> USE DEF Typed, TypeOK, NodesApart, Carried, Folding, Keeping, Renamed,
            Coalesced, Places, Goto, Free, Touched, graph, task, Traced, IdsKnown,
            RowsLead, RowsEnd, RenamesUpward, OldIdsGone
<1>1. ASSUME NEW i \in Id, Create(i) PROVE RowsEnd'
  BY <1>1 DEF Create
<1>2. ASSUME NEW i \in Id, NEW f \in Fact, Record(i, f) PROVE RowsEnd'
  BY <1>2 DEF Record
<1>3. ASSUME NEW r \in Ref, NEW i \in Id, Refer(r, i) PROVE RowsEnd'
  BY <1>3 DEF Refer
<1>4. ASSUME NEW i \in Id, NEW j \in Id, KeepSeparate(i, j) PROVE RowsEnd'
  BY <1>4 DEF KeepSeparate
<1>5. ASSUME NEW w \in Worker, NEW k \in Id, NEW ds \in SUBSET Id, BeginMerge(w, k, ds)
      PROVE  RowsEnd'
  BY <1>5 DEF BeginMerge
<1>6. ASSUME NEW w \in Worker, NEW i \in Id, NEW h \in Keyed, Learn(w, i, h)
      PROVE  RowsEnd'
  BY <1>6 DEF Learn
<1>7. ASSUME NEW w \in Worker, FoldNext(w) PROVE RowsEnd'
  BY <1>7 DEF FoldNext
<1>8. ASSUME NEW w \in Worker, EndGroup(w) PROVE RowsEnd'
  BY <1>8 DEF EndGroup, Idle
<1>9. ASSUME NEW w \in Worker, Carry(w) PROVE RowsEnd'
  BY <1>9 DEF Carry, CarryFacts
<1>10. ASSUME NEW w \in Worker, Coalesce(w) PROVE RowsEnd'
  BY <1>10 DEF Coalesce
<1>11. ASSUME NEW w \in Worker, Repoint(w) PROVE RowsEnd'
  BY <1>11 DEF Repoint, RepointChain
<1>12. ASSUME NEW w \in Worker, Upsert(w) PROVE RowsEnd'
  BY <1>12 DEF Upsert, UpsertRedirect
<1>13. ASSUME NEW w \in Worker, References(w) PROVE RowsEnd'
  BY <1>13 DEF References, RepointRefs
<1>14. ASSUME NEW w \in Worker, Delete(w) PROVE RowsEnd'
  BY <1>14 DEF Delete, Detach
<1>15. ASSUME NEW w \in Worker, KeepId(w) PROVE RowsEnd'
  BY <1>15 DEF KeepId
<1>16. ASSUME NEW w \in Worker, StartRename(w) PROVE RowsEnd'
  BY <1>16 DEF StartRename, Better, Keyed
<1>17. ASSUME NEW w \in Worker, Rename(w) PROVE RowsEnd'
  BY <1>17 DEF Rename
<1>18. ASSUME NEW w \in Worker, Unredirect(w) PROVE RowsEnd'
  BY <1>18 DEF Unredirect
<1>19. ASSUME NEW w \in Worker, RenameRepoint(w) PROVE RowsEnd'
  BY <1>19 DEF RenameRepoint, RepointChain
<1>20. ASSUME NEW w \in Worker, RenameUpsert(w) PROVE RowsEnd'
  BY <1>20 DEF RenameUpsert, UpsertRedirect
<1>21. ASSUME NEW w \in Worker, RenameReferences(w) PROVE RowsEnd'
  BY <1>21 DEF RenameReferences, RepointRefs
<1>22. ASSUME NEW w \in Worker, FailBestEffort(w) PROVE RowsEnd'
  BY <1>22 DEF FailBestEffort, Fault
<1>23. ASSUME NEW w \in Worker, Abort(w) PROVE RowsEnd'
  BY <1>23 DEF Abort, Idle, Fault
<1>24. ASSUME UNCHANGED vars PROVE RowsEnd'
  BY <1>24 DEF vars
<1> QED
    BY <1>1, <1>2, <1>3, <1>4, <1>5, <1>6, <1>7, <1>8, <1>9, <1>10, <1>11, <1>12,
     <1>13, <1>14, <1>15, <1>16, <1>17, <1>18, <1>19, <1>20, <1>21, <1>22, <1>23,
     <1>24
  DEF Next, MergeStep, RekeyStep

\* An id that a rename is taking away is stamped on the renamed node, so no other
\* node has it to learn or to be renamed to.
LEMMA KeepsOldIdsGone ==
  ASSUME ~Overlap, OneIdPerRank, Typed, NodesApart, Traced, [Next]_vars, faults' = 0
  PROVE  OldIdsGone'
<1> USE DEF Typed, TypeOK, NodesApart, Carried, Folding, Keeping, Renamed,
            Coalesced, Places, Goto, Free, Touched, graph, task, Traced, IdsKnown,
            RowsEnd, RenamesUpward, OldIdsGone, StampsFollow
<1>1. ASSUME NEW i \in Id, Create(i) PROVE OldIdsGone'
  BY <1>1 DEF Create
<1>2. ASSUME NEW i \in Id, NEW f \in Fact, Record(i, f) PROVE OldIdsGone'
  BY <1>2 DEF Record
<1>3. ASSUME NEW r \in Ref, NEW i \in Id, Refer(r, i) PROVE OldIdsGone'
  BY <1>3 DEF Refer
<1>4. ASSUME NEW i \in Id, NEW j \in Id, KeepSeparate(i, j) PROVE OldIdsGone'
  BY <1>4 DEF KeepSeparate
<1>5. ASSUME NEW w \in Worker, NEW k \in Id, NEW ds \in SUBSET Id, BeginMerge(w, k, ds)
      PROVE  OldIdsGone'
  BY <1>5 DEF BeginMerge
<1>6. ASSUME NEW w \in Worker, NEW i \in Id, NEW h \in Keyed, Learn(w, i, h)
      PROVE  OldIdsGone'
  BY <1>6 DEF Learn
<1>7. ASSUME NEW w \in Worker, FoldNext(w) PROVE OldIdsGone'
  BY <1>7 DEF FoldNext
<1>8. ASSUME NEW w \in Worker, EndGroup(w) PROVE OldIdsGone'
  BY <1>8 DEF EndGroup, Idle
<1>9. ASSUME NEW w \in Worker, Carry(w) PROVE OldIdsGone'
  BY <1>9 DEF Carry, CarryFacts
<1>10. ASSUME NEW w \in Worker, Coalesce(w) PROVE OldIdsGone'
  BY <1>10 DEF Coalesce
<1>11. ASSUME NEW w \in Worker, Repoint(w) PROVE OldIdsGone'
  BY <1>11 DEF Repoint, RepointChain
<1>12. ASSUME NEW w \in Worker, Upsert(w) PROVE OldIdsGone'
  BY <1>12 DEF Upsert, UpsertRedirect
<1>13. ASSUME NEW w \in Worker, References(w) PROVE OldIdsGone'
  BY <1>13 DEF References, RepointRefs
<1>14. ASSUME NEW w \in Worker, Delete(w) PROVE OldIdsGone'
  BY <1>14 DEF Delete, Detach
<1>15. ASSUME NEW w \in Worker, KeepId(w) PROVE OldIdsGone'
  BY <1>15 DEF KeepId
<1>16. ASSUME NEW w \in Worker, StartRename(w) PROVE OldIdsGone'
  BY <1>16 DEF StartRename, Better, Keyed
<1>17. ASSUME NEW w \in Worker, Rename(w) PROVE OldIdsGone'
  <2>1. /\ keep[w] \in live /\ dead[w] \in Id /\ dead[w] \notin live /\ keep[w] # dead[w]
        /\ live' = (live \ {keep[w]}) \cup {dead[w]}
        /\ hard'[dead[w]] = hard[keep[w]]
        /\ \A x \in live : x # keep[w] => hard'[x] = hard[x]
    BY <1>17 DEF Rename, RenamesUpward

  <2>2. /\ issued' = issued \cup {dead[w]} /\ redirect' = redirect
        /\ keep[w] \in issued /\ dead[w] \in hard[keep[w]] /\ dead[w] \in Keyed
        /\ UNCHANGED <<keep, dead>> /\ pc'[w] = "unredirect"
        /\ \A v \in Worker : v # w => pc'[v] = pc[v]
    BY <1>17, <2>1 DEF Rename
  <2>3. ASSUME NEW v \in Worker, v # w, pc[v] \in Renamed
        PROVE  keep[v] # dead[w] /\ keep[v] # keep[w]
    <3>1. dead[v] \in live /\ dead[v] # keep[w]
      BY <1>17, <2>3 DEF Rename, NodesApart
    <3>2. ASSUME NEW u \in Worker, pc[u] \in Coalesced PROVE keep[w] # keep[u] /\ keep[w] # dead[u]
      BY <1>17, <3>2 DEF Rename, NodesApart
    <3>3. dead[w] \notin hard[dead[v]]
      BY <2>1, <2>2, <3>1, <3>2 DEF StampsApart
    <3> QED
      BY <2>1, <2>2, <2>3, <3>3
  <2>4. redirect[keep[w]] = NoId
    <3>1. ASSUME NEW v \in Worker, pc[v] \in {"refs", "delete", "unredirect"} PROVE keep[w] # dead[v]
      BY <1>17, <3>1 DEF Rename, NodesApart
    <3> QED
      BY <2>1, <3>1 DEF RowsEnd
  <2>5. keep[w] # dead[w] /\ keep[w] \notin live'
    BY <2>1
  <2>6. ASSUME NEW v \in Worker, pc'[v] \in Renamed
        PROVE  /\ keep'[v] \in issued' /\ keep'[v] \notin live'
               /\ pc'[v] # "rerefs" => redirect'[keep'[v]] = NoId
    <3>1. CASE v = w
      BY <2>2, <2>4, <2>5, <3>1
    <3>2. CASE v # w
      <4>1. pc[v] \in Renamed /\ keep[v] # dead[w] /\ pc'[v] = pc[v] /\ keep'[v] = keep[v]
        BY <2>2, <2>3, <2>6, <3>2
      <4>2. keep[v] \in issued /\ keep[v] \notin live /\ (pc[v] # "rerefs" => redirect[keep[v]] = NoId)
        BY <4>1 DEF OldIdsGone
      <4> QED
        BY <2>1, <2>2, <4>1, <4>2
    <3> QED
      BY <3>1, <3>2
  <2>7. ASSUME NEW u \in Worker, NEW v \in Worker, u # v, pc'[u] \in Renamed, pc'[v] \in Renamed
        PROVE  keep'[u] # keep'[v]
    <3>1. CASE u # w /\ v # w
      BY <2>2, <2>7, <3>1 DEF OldIdsGone
    <3>2. CASE u = w
      BY <2>2, <2>3, <2>7, <3>2
    <3>3. CASE v = w
      BY <2>2, <2>3, <2>7, <3>3
    <3> QED
      BY <3>1, <3>2, <3>3
  <2> QED
    BY <2>6, <2>7 DEF OldIdsGone
<1>18. ASSUME NEW w \in Worker, Unredirect(w) PROVE OldIdsGone'
  BY <1>18 DEF Unredirect
<1>19. ASSUME NEW w \in Worker, RenameRepoint(w) PROVE OldIdsGone'
  BY <1>19 DEF RenameRepoint, RepointChain
<1>20. ASSUME NEW w \in Worker, RenameUpsert(w) PROVE OldIdsGone'
  BY <1>20 DEF RenameUpsert, UpsertRedirect
<1>21. ASSUME NEW w \in Worker, RenameReferences(w) PROVE OldIdsGone'
  BY <1>21 DEF RenameReferences, RepointRefs
<1>22. ASSUME NEW w \in Worker, FailBestEffort(w) PROVE OldIdsGone'
  BY <1>22 DEF FailBestEffort, Fault
<1>23. ASSUME NEW w \in Worker, Abort(w) PROVE OldIdsGone'
  BY <1>23 DEF Abort, Idle, Fault
<1>24. ASSUME UNCHANGED vars PROVE OldIdsGone'
  BY <1>24 DEF vars
<1> QED
    BY <1>1, <1>2, <1>3, <1>4, <1>5, <1>6, <1>7, <1>8, <1>9, <1>10, <1>11, <1>12,
     <1>13, <1>14, <1>15, <1>16, <1>17, <1>18, <1>19, <1>20, <1>21, <1>22, <1>23,
     <1>24
  DEF Next, MergeStep, RekeyStep

\* The references keep naming live nodes.
LEMMA KeepsRefsLead ==
  ASSUME ~Overlap, OneIdPerRank, Typed, NodesApart, Traced, [Next]_vars, faults' = 0
  PROVE  RefsLead'
<1> USE DEF Typed, TypeOK, NodesApart, Carried, Folding, Keeping, Renamed,
            Coalesced, Places, Goto, Free, Touched, graph, task, Traced, RefsLead,
            OldIdsGone, IdsKnown, RenamesUpward
<1>1. ASSUME NEW i \in Id, Create(i) PROVE RefsLead'
  BY <1>1 DEF Create
<1>2. ASSUME NEW i \in Id, NEW f \in Fact, Record(i, f) PROVE RefsLead'
  BY <1>2 DEF Record
<1>3. ASSUME NEW r \in Ref, NEW i \in Id, Refer(r, i) PROVE RefsLead'
  BY <1>3 DEF Refer
<1>4. ASSUME NEW i \in Id, NEW j \in Id, KeepSeparate(i, j) PROVE RefsLead'
  BY <1>4 DEF KeepSeparate
<1>5. ASSUME NEW w \in Worker, NEW k \in Id, NEW ds \in SUBSET Id, BeginMerge(w, k, ds)
      PROVE  RefsLead'
  BY <1>5 DEF BeginMerge
<1>6. ASSUME NEW w \in Worker, NEW i \in Id, NEW h \in Keyed, Learn(w, i, h)
      PROVE  RefsLead'
  BY <1>6 DEF Learn
<1>7. ASSUME NEW w \in Worker, FoldNext(w) PROVE RefsLead'
  BY <1>7 DEF FoldNext
<1>8. ASSUME NEW w \in Worker, EndGroup(w) PROVE RefsLead'
  BY <1>8 DEF EndGroup, Idle
<1>9. ASSUME NEW w \in Worker, Carry(w) PROVE RefsLead'
  BY <1>9 DEF Carry, CarryFacts
<1>10. ASSUME NEW w \in Worker, Coalesce(w) PROVE RefsLead'
  BY <1>10 DEF Coalesce
<1>11. ASSUME NEW w \in Worker, Repoint(w) PROVE RefsLead'
  BY <1>11 DEF Repoint, RepointChain
<1>12. ASSUME NEW w \in Worker, Upsert(w) PROVE RefsLead'
  BY <1>12 DEF Upsert, UpsertRedirect
<1>13. ASSUME NEW w \in Worker, References(w) PROVE RefsLead'
  BY <1>13 DEF References, RepointRefs
<1>14. ASSUME NEW w \in Worker, Delete(w) PROVE RefsLead'
  BY <1>14 DEF Delete, Detach
<1>15. ASSUME NEW w \in Worker, KeepId(w) PROVE RefsLead'
  BY <1>15 DEF KeepId
<1>16. ASSUME NEW w \in Worker, StartRename(w) PROVE RefsLead'
  BY <1>16 DEF StartRename, Better, Keyed
<1>17. ASSUME NEW w \in Worker, Rename(w) PROVE RefsLead'
  BY <1>17 DEF Rename
<1>18. ASSUME NEW w \in Worker, Unredirect(w) PROVE RefsLead'
  BY <1>18 DEF Unredirect
<1>19. ASSUME NEW w \in Worker, RenameRepoint(w) PROVE RefsLead'
  BY <1>19 DEF RenameRepoint, RepointChain
<1>20. ASSUME NEW w \in Worker, RenameUpsert(w) PROVE RefsLead'
  BY <1>20 DEF RenameUpsert, UpsertRedirect
<1>21. ASSUME NEW w \in Worker, RenameReferences(w) PROVE RefsLead'
  <2>1. /\ pc[w] = "rerefs" /\ keep[w] \in Id /\ dead[w] \in live
        /\ keep' = [keep EXCEPT ![w] = dead[w]] /\ UNCHANGED <<dead, live>>
        /\ \A r \in Ref : refs'[r] = IF refs[r] = keep[w] THEN dead[w] ELSE refs[r]
        /\ \A v \in Worker : v # w => pc'[v] = pc[v] /\ keep'[v] = keep[v]
        /\ pc'[w] = "next"
    BY <1>21 DEF RenameReferences, RepointRefs, RenamesUpward, NodesApart
  <2>2. ASSUME NEW r \in Ref
        PROVE  refs'[r] \in live' \cup {NoId} \/
                 \E v \in Worker : pc'[v] \in Renamed /\ refs'[r] = keep'[v]
    <3>1. CASE refs[r] = keep[w]
      BY <2>1, <3>1
    <3>2. CASE refs[r] # keep[w] /\ refs[r] \in live \cup {NoId}
      BY <2>1, <3>2
    <3>3. CASE refs[r] # keep[w] /\ \E v \in Worker : pc[v] \in Renamed /\ refs[r] = keep[v]
      <4>1. PICK v \in Worker : pc[v] \in Renamed /\ refs[r] = keep[v]
        BY <3>3
      <4>2. v # w /\ refs'[r] = refs[r]
        BY <2>1, <3>3, <4>1
      <4> QED
        BY <2>1, <4>1, <4>2
    <3> QED
      BY <3>1, <3>2, <3>3 DEF RefsLead
  <2>3. ASSUME NEW v \in Worker, pc'[v] = "delete", NEW r \in Ref PROVE refs'[r] # dead'[v]
    <3>1. v # w /\ pc[v] = "delete"
      BY <2>1, <2>3
    <3>2. dead[v] # dead[w]
      BY <2>1, <3>1 DEF NodesApart
    <3> QED
      BY <2>1, <3>1, <3>2 DEF RefsLead
  <2> QED
    BY <2>2, <2>3 DEF RefsLead
<1>22. ASSUME NEW w \in Worker, FailBestEffort(w) PROVE RefsLead'
  BY <1>22 DEF FailBestEffort, Fault
<1>23. ASSUME NEW w \in Worker, Abort(w) PROVE RefsLead'
  BY <1>23 DEF Abort, Idle, Fault
<1>24. ASSUME UNCHANGED vars PROVE RefsLead'
  BY <1>24 DEF vars
<1> QED
    BY <1>1, <1>2, <1>3, <1>4, <1>5, <1>6, <1>7, <1>8, <1>9, <1>10, <1>11, <1>12,
     <1>13, <1>14, <1>15, <1>16, <1>17, <1>18, <1>19, <1>20, <1>21, <1>22, <1>23,
     <1>24
  DEF Next, MergeStep, RekeyStep

\* A set of numbers has a least one.
LEMMA Least ==
  ASSUME NEW D \in SUBSET Nat, D # {}
  PROVE  \E n \in D : \A m \in D : n <= m
<1> DEFINE R == {ss \in Nat \X Nat : ss[1] < ss[2]}
<1>1. IsWellFoundedOn(R, Nat)
  BY NatLessThanWellFounded DEF OpToRel
<1>2. \A n, m \in Nat : n < m => <<n, m>> \in R
  OBVIOUS
<1> HIDE DEF R
<1>3. PICK n \in D : \A m \in D : ~(<<m, n>> \in R)
  BY <1>1, WFMin
<1>4. ASSUME NEW m \in D PROVE n <= m
  <2>1. m \in Nat /\ n \in Nat /\ ~(<<m, n>> \in R)
    BY <1>3
  <2>2. ~(m < n)
    BY <1>2, <2>1
  <2> QED
    BY <2>1, <2>2
<1> QED
  BY <1>3, <1>4

\* Where the row of an id leads to an id without one, the path is one hop long.
LEMMA PathIsOneHop ==
  ASSUME redirect \in [Id -> Id \cup {NoId}], NEW i \in Id, NEW j \in Id,
         j = IF redirect[i] = NoId THEN i ELSE redirect[i], redirect[j] = NoId
  PROVE  \A n \in 0 .. MaxHops : Path(i)[n] = IF n = 0 THEN i ELSE j
<1> DEFINE hop == Path(i)
           Hops(f) == [n \in 0 .. MaxHops |->
                         IF n = 0 THEN i
                         ELSE IF redirect[f[n-1]] = NoId THEN f[n-1] ELSE redirect[f[n-1]]]
           g == [n \in 0 .. MaxHops |-> IF n = 0 THEN i ELSE j]
<1>1. g = Hops(g)
  <2>1. ASSUME NEW n \in 0 .. MaxHops PROVE g[n] = Hops(g)[n]
    <3>1. CASE n = 0
      BY <3>1
    <3>2. CASE n # 0
      <4>1. n - 1 \in 0 .. MaxHops
        BY <3>2
      <4>2. g[n-1] = IF n - 1 = 0 THEN i ELSE j
        BY <4>1
      <4> HIDE DEF g
      <4>3. (IF redirect[g[n-1]] = NoId THEN g[n-1] ELSE redirect[g[n-1]]) = j
        BY <4>2
      <4>4. g[n] = j
        BY <3>2 DEF g
      <4> QED
        BY <3>2, <4>3, <4>4
    <3> QED
      BY <3>1, <3>2
  <2> QED
    BY <2>1
<1>2. hop = CHOOSE f : f = Hops(f)
  BY DEF Path
<1>3. hop = Hops(hop)
  <2> HIDE DEF g, Hops, hop
  <2> QED
    BY <1>1, <1>2
<1>4. /\ hop[0] = i
      /\ \A n \in 1 .. MaxHops :
           hop[n] = IF redirect[hop[n-1]] = NoId THEN hop[n-1] ELSE redirect[hop[n-1]]
  <2>1. ASSUME NEW n \in 0 .. MaxHops PROVE hop[n] = Hops(hop)[n]
    <3> HIDE DEF hop, Hops
    <3> QED
      BY <1>3
  <2> HIDE DEF hop
  <2>2. 0 \in 0 .. MaxHops /\ \A n \in 1 .. MaxHops : n \in 0 .. MaxHops /\ n # 0
    OBVIOUS
  <2> QED
    BY <2>1, <2>2
<1> HIDE DEF hop, Hops, g
<1> DEFINE Off == {n \in 1 .. MaxHops : hop[n] # j}
<1>5. Off = {}
  <2> SUFFICES ASSUME Off # {} PROVE FALSE
    OBVIOUS
  <2>1. Off \in SUBSET Nat
    OBVIOUS
  <2> HIDE DEF Off
  <2>2. PICK n \in Off : \A m \in Off : n <= m
    BY <2>1, Least
  <2>3. n \in 1 .. MaxHops /\ hop[n] # j
    BY <2>2 DEF Off
  <2>4. CASE n = 1
    BY <1>4, <2>3, <2>4
  <2>5. CASE n # 1
    <3>1. n - 1 \in 1 .. MaxHops /\ n - 1 \notin Off
      BY <2>2, <2>3, <2>5
    <3>2. hop[n-1] = j
      BY <3>1 DEF Off
    <3> QED
      BY <1>4, <2>3, <3>2
  <2> QED
    BY <2>4, <2>5
<1> QED
  <2>1. ASSUME NEW n \in 0 .. MaxHops PROVE hop[n] = IF n = 0 THEN i ELSE j
    BY <1>4, <1>5
  <2> QED
    BY <2>1 DEF hop

\* Then both look-ups give its end.
LEMMA LookupsEnd ==
  ASSUME redirect \in [Id -> Id \cup {NoId}], NEW i \in Id, NEW j \in Id,
         j = IF redirect[i] = NoId THEN i ELSE redirect[i], redirect[j] = NoId
  PROVE  /\ redirect[i] # NoId => Resolve(i) = j
         /\ Canonical(i) = j
<1> DEFINE p == Path(i)
<1>1. \A n \in 0 .. MaxHops : p[n] = IF n = 0 THEN i ELSE j
  BY PathIsOneHop
<1> HIDE DEF p
<1>2. MaxHops \in Nat /\ MaxHops \in 0 .. MaxHops /\ MaxHops # 0
  OBVIOUS
<1>3. ASSUME redirect[i] # NoId PROVE Resolve(i) = j
  <2>1. i # j
    BY <1>3
  <2>2. ~ \E m, n \in 0 .. MaxHops : m < n /\ p[m] = p[n] /\ redirect[p[m]] # NoId
    <3> SUFFICES ASSUME NEW m \in 0 .. MaxHops, NEW n \in 0 .. MaxHops, m < n, p[m] = p[n],
                        redirect[p[m]] # NoId
                 PROVE  FALSE
      OBVIOUS
    <3>1. p[m] = i /\ m = 0
      BY <1>1
    <3>2. n # 0 /\ p[n] = j
      BY <1>1
    <3> QED
      BY <2>1, <3>1, <3>2
  <2>3. p[MaxHops] = j
    BY <1>1, <1>2
  <2> QED
    BY <1>3, <2>2, <2>3 DEF Resolve, p
<1> DEFINE fresh == {n \in 0 .. MaxHops : \A m \in 0 .. n - 1 : p[m] # p[n]}
           last  == CHOOSE n \in fresh : \A m \in fresh : m <= n
<1>4. p[last] = j
  <2>1. CASE redirect[i] = NoId
    <3>1. i = j
      BY <2>1
    <3>2. 0 \in fresh /\ \A m \in fresh : m <= 0
      BY <1>1, <3>1
    <3>3. last \in fresh
      <4> HIDE DEF fresh
      <4> QED
        BY <3>2
    <3> QED
      BY <1>1, <3>1, <3>3
  <2>2. CASE redirect[i] # NoId
    <3>1. i # j
      BY <2>2
    <3>2. 1 \in fresh
      BY <1>1, <1>2, <3>1
    <3>3. ASSUME NEW m \in fresh PROVE m <= 1
      <4>1. m \in 0 .. MaxHops /\ \A n \in 0 .. m - 1 : p[n] # p[m]
        OBVIOUS
      <4>2. CASE m > 1
        <5>1. 1 \in 0 .. m - 1 /\ 1 \in 0 .. MaxHops
          BY <4>1, <4>2
        <5>2. p[1] = j /\ p[m] = j
          BY <1>1, <4>1, <4>2, <5>1
        <5> QED
          BY <4>1, <5>1, <5>2
      <4> QED
        BY <4>1, <4>2
    <3>4. last \in fresh /\ 1 <= last
      <4> HIDE DEF fresh
      <4> QED
        BY <3>2, <3>3
    <3>5. last \in 0 .. MaxHops /\ last # 0
      <4> HIDE DEF last
      <4> QED
        BY <3>4
    <3> HIDE DEF last
    <3> QED
      BY <1>1, <3>5
  <2> QED
    BY <2>1, <2>2
<1>5. Canonical(i) = p[last]
  BY DEF Canonical, p
<1> QED
  BY <1>3, <1>4, <1>5

\* What is traced can be followed.
LEMMA FollowedWhereTraced ==
  ASSUME Typed, NodesApart, Traced PROVE EveryIdResolves /\ ImportersMeetSurvivor /\ ReferencesFollow
<1> USE DEF Typed, TypeOK, Traced
<1>1. ASSUME ~Renaming, NEW i \in issued, i \notin live PROVE Resolve(i) \in live
  <2>1. ASSUME NEW w \in Worker PROVE pc[w] \notin {"unredirect", "rerepoint", "reupsert"}
    BY <1>1 DEF Renaming
  <2>2. redirect[i] # NoId
    BY <1>1, <2>1 DEF RowsLead, Renamed
  <2>3. redirect[i] \in live
    BY <2>1, <2>2 DEF RowsLead
  <2>4. redirect[redirect[i]] = NoId
    <3>1. ASSUME NEW w \in Worker, pc[w] \in {"refs", "delete", "unredirect"} PROVE redirect[i] # dead[w]
      BY <2>1, <3>1 DEF RowsEnd
    <3> QED
      BY <2>3, <3>1 DEF RowsEnd
  <2> QED
    BY <2>2, <2>3, <2>4, LookupsEnd
<1>2. EveryIdResolves
  BY <1>1 DEF EveryIdResolves, Lookup
<1>3. ASSUME AtRest, NEW i \in issued PROVE Canonical(i) \in live
  <2>1. ASSUME NEW w \in Worker PROVE pc[w] = "idle"
    BY <1>3 DEF AtRest
  <2>2. \A j \in live : redirect[j] = NoId
    BY <2>1 DEF RowsEnd
  <2> DEFINE j == IF redirect[i] = NoId THEN i ELSE redirect[i]
  <2>3. j \in live
    BY <2>1 DEF RowsLead, Renamed
  <2>4. redirect[j] = NoId
    BY <2>2, <2>3
  <2>5. i \in Id /\ j \in Id
    BY <2>3
  <2>6. Canonical(i) = j
    BY <2>4, <2>5, LookupsEnd
  <2> QED
    BY <2>3, <2>6
<1>4. ImportersMeetSurvivor
  BY <1>3 DEF ImportersMeetSurvivor
<1>5. ReferencesFollow
  BY DEF ReferencesFollow, AtRest, RefsLead, Renamed
<1> QED
  BY <1>2, <1>4, <1>5

\* Every step keeps the ids traceable, but for one that counts a failure.
LEMMA NextPreservesTraced ==
  ASSUME ~Overlap, OneIdPerRank, IdsInv, [Next]_vars PROVE faults' = 0 => Traced'
<1> SUFFICES ASSUME faults' = 0 PROVE Traced'
  OBVIOUS
<1>1. Typed /\ NodesApart
  BY ClaimsApart DEF IdsInv
<1>2. faults = 0
  <2>1. faults' = faults \/ faults' = faults + 1
    BY DEF Next, vars, Create, Record, Refer, KeepSeparate, BeginMerge, Learn, MergeStep, RekeyStep,
       FoldNext, EndGroup, Carry, Coalesce, Repoint, Upsert, References, Delete, KeepId, StartRename,
       Rename, Unredirect, RenameRepoint, RenameUpsert, RenameReferences, FailBestEffort, Abort, Fault
  <2> QED
    BY <1>1, <2>1 DEF Typed, TypeOK
<1>3. Traced
  BY <1>2 DEF IdsInv
<1>4. IdsKnown' /\ StampsFollow' /\ StampsApart'
  BY <1>1, <1>3, KeepsIdsKnown, KeepsStampsFollow, KeepsStampsApart
<1>5. RowsLead' /\ RowsEnd' /\ OldIdsGone' /\ RefsLead'
  BY <1>1, <1>3, KeepsRowsLead, KeepsRowsEnd, KeepsOldIdsGone, KeepsRefsLead
<1> QED
  BY <1>4, <1>5 DEF Traced

\* For one company under any number of ids, at most one of each kind beside its
\* uuids, and any number of workers: while nothing failed, every id it ever had
\* leads to a live node (merged_ids.resolve_current_id), an importer that
\* addresses it by such an id meets that node (canonical_id), and no flag, pin
\* or run names a node that is gone (repoint_references).
THEOREM EveryIdFollows == ASSUME ~Overlap, OneIdPerRank PROVE Spec => []IdsFollow
<1>1. Init => IdsInv
  <2> SUFFICES ASSUME Init PROVE IdsInv
    OBVIOUS
  <2>1. Typed /\ ClaimsHold
    BY InitEstablishes DEF FactsInv
  <2>2. Traced
    BY DEF Init, Traced, IdsKnown, StampsFollow, StampsApart, RowsLead, RowsEnd, OldIdsGone, RefsLead,
           Coalesced, Renamed
  <2> QED
    BY <2>1, <2>2 DEF IdsInv
<1>2. IdsInv /\ [Next]_vars => IdsInv'
  BY NextPreservesType, NextPreservesClaims, NextPreservesTraced DEF IdsInv
<1>3. IdsInv => IdsFollow
  <2>1. CASE faults = 0
    BY <2>1, ClaimsApart, FollowedWhereTraced DEF IdsInv, IdsFollow
  <2>2. CASE faults # 0
    BY <2>2 DEF IdsFollow, EveryIdResolves, ImportersMeetSurvivor, ReferencesFollow
  <2> QED
    BY <2>1, <2>2
<1> QED
  BY <1>1, <1>2, <1>3, PTL DEF Spec

=============================================================================
