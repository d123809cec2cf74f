-------------------------- MODULE GleifDeltaProofs --------------------------
(***************************************************************************)
(* What the nightly GLEIF update guarantees for any number of companies    *)
(* and relationships, any calendar of publishes, and whatever nights are   *)
(* missed and runs die - as long as no window is trusted with a longer gap *)
(* than it reaches back.                                                   *)
(***************************************************************************)
EXTENDS GleifDelta, TLAPS

\* Each delta reaches back over the gap it is chosen for.  The code's own figures
\* satisfy it when GLEIF publishes once a day.
WindowsReach == \A interval \in Interval : MaxGap[interval] <= Window[interval]

Typed == TypeOK /\ held \in [Item -> Statement \cup {"stub"}]

\* A record that was issued stays one, and has changed at some time; the ends of an
\* issued relationship are issued.
Issues ==
  /\ \A i \in Item : gleif[i] = "none" => changed[i] = Far
  /\ \A r \in Rel : gleif[r] # "none" => \A e \in Ends(r) : gleif[e] # "none"

\* What the database answers for: the publish of the checkpoint, or, before there
\* is one, the golden copy's.
Ref      == IF last = NoPublish THEN loaded.age ELSE last
Reaching == IF last = NoPublish THEN loaded.age < Far ELSE loaded.reached

\* What has not changed since then is held as GLEIF has it.
Base ==
  scope # "none" /\ Reaching /\ Ref < Far =>
    \A i \in Item : Within(i) /\ changed[i] >= Ref => Agrees(i)

\* A load copies what GLEIF stated in the publish it downloaded.
ImportKnows ==
  /\ scope = "none" => last = NoPublish
  /\ At("entities") => /\ scope = "none" /\ held = Empty
                       /\ job.scope = "full" => job.only = Lei
  /\ At("relationships") => /\ scope = job.scope /\ last = NoPublish /\ loaded.age = job.of
                            /\ scope = "full" => job.only = Lei
                            /\ Here \subseteq job.only
  /\ At("entities") \/ At("relationships") =>
       (job.of < Far => \A i \in Item : changed[i] >= job.of => job.says[i] = gleif[i])

\* An update that is not a spot check leaves nothing stale but what it still has to
\* do; its publish is no older than what the database answers for.
UpdateKnows ==
  At("lei") \/ At("edges") \/ At("done") =>
    /\ scope # "none" /\ job.onlyExisting = (scope # "full")
    /\ scope = "subset" => Here = job.known
    /\ job.of <= Ref
    /\ \A i \in job.todo :
         /\ gleif[i] # "none" /\ job.says[i] # "none"
         /\ job.of < Far /\ changed[i] >= job.of => job.says[i] = gleif[i]
    /\ At("edges") => job.todo \subseteq Rel
    /\ At("done") => job.todo = {}
    /\ ~job.limited /\ job.of < Far /\ Reaching =>
         \A i \in Item \ job.todo : Within(i) /\ changed[i] >= job.of => Agrees(i)

Inv == Typed /\ Issues /\ Base /\ ImportKnows /\ UpdateKnows

USE EndsAssumption, WindowAssumption, OrderAssumption, BoundAssumption

-----------------------------------------------------------------------------
(* Ages and types *)

LEMMA AgesAre ==
  /\ Far \in Nat /\ Far >= 1 /\ NoPublish = Far + 1 /\ NoPublish \notin Ages
  /\ Ages = 0 .. Far
  /\ \A interval \in Interval : Window[interval] \in Nat /\ Window[interval] < Far
  /\ \A interval \in Interval : MaxGap[interval] \in Nat /\ MaxGap[interval] < Far
BY DEF Far, NoPublish, Ages, Interval

\* An age grows, and stops at what no window reaches.
LEMMA OlderAge ==
  ASSUME NEW age \in Ages
  PROVE  /\ age \in Nat /\ Older(age) \in Nat
         /\ Older(age) \in Ages /\ Older(age) >= 1 /\ Older(age) >= age
         /\ Older(age) < Far => age < Far
         /\ age < Far => Older(age) = age + 1
BY AgesAre DEF Older

LEMMA OlderOrder ==
  ASSUME NEW x \in Ages, NEW y \in Ages
  PROVE  /\ x <= y => Older(x) <= Older(y)
         /\ Older(y) < Far /\ Older(x) >= Older(y) => x >= y
BY AgesAre DEF Older

LEMMA EndsAreLei == \A r \in Rel : Ends(r) \subseteq Lei
BY DEF Ends

\* Which kind of job runs is told by its place.
LEMMA JobAt ==
  ASSUME TypeOK
  PROVE  /\ At("entities") \/ At("relationships") <=> job \in Importing
         /\ At("lei") \/ At("edges") \/ At("done") <=> job \in Updating
         /\ job = Idle \/ job \in Importing \/ job \in Updating
         /\ job = Idle <=> job.at = "idle"
BY DEF TypeOK, At, Importing, Updating, Idle

LEMMA InitTyped == Init => Typed
<1> SUFFICES ASSUME Init PROVE Typed
  OBVIOUS
<1>1. changed \in [Item -> Ages] /\ held \in [Item -> {"none"}]
  BY AgesAre DEF Init, Empty
<1>2. NoLoad \in [age : Ages, relationships : BOOLEAN, reached : BOOLEAN]
  BY AgesAre DEF NoLoad
<1> QED
  BY <1>1, <1>2 DEF Init, Typed, TypeOK, Statement, Item

\* A typed state stays typed.
LEMMA NextPreservesType == Typed /\ [Next]_vars => Typed'
<1> SUFFICES ASSUME Typed, [Next]_vars PROVE Typed'
  OBVIOUS
<1> USE DEF Typed, Event
<1>0. /\ gleif \in [Item -> Statement] /\ changed \in [Item -> Ages]
      /\ held \in [Item -> Statement \cup {"stub"}]
      /\ \A e \in Lei : held[e] \in Statement \cup {"stub"}
      /\ \A r \in Rel : held[r] \in Statement
      /\ Item = Lei \cup Rel /\ Statement = {"none", "active", "inactive"}
  BY DEF TypeOK, Statement, Item
<1>1. CASE Publish
  <2>1. PICK S \in SUBSET {i \in Item : Issued(i)} :
          /\ changes < MaxChanges \/ S = {}
          /\ gleif' = [i \in Item |-> IF i \in S THEN NextStatement(i) ELSE gleif[i]]
          /\ changed' = [i \in Item |-> IF i \in S THEN 0 ELSE Older(changed[i])]
          /\ changes' = IF S = {} THEN changes ELSE changes + 1
    BY <1>1 DEF Publish
  <2>2. gleif' \in [Item -> Statement]
    BY <1>0, <2>1 DEF NextStatement
  <2>3. changed' \in [Item -> Ages]
    <3>1. 0 \in Ages /\ \A i \in Item : Older(changed[i]) \in Ages
      BY <1>0, OlderAge, AgesAre
    <3> QED
      BY <1>0, <2>1, <3>1
  <2>4. last' \in Ages \cup {NoPublish}
    BY <1>1, OlderAge DEF Publish, TypeOK
  <2>5. loaded' \in [age : Ages, relationships : BOOLEAN, reached : BOOLEAN]
    <3>1. Older(loaded.age) \in Ages
      BY OlderAge DEF TypeOK
    <3> QED
      BY <1>1, <3>1 DEF Publish, TypeOK
  <2>6. job' \in {Idle} \cup Importing \cup Updating
    <3>1. CASE job = Idle
      BY <1>1, <3>1 DEF Publish
    <3>2. CASE job # Idle
      <4>1. job \in Importing \cup Updating /\ Older(job.of) \in Ages
        BY <3>2, OlderAge DEF TypeOK, Importing, Updating
      <4>2. job' = [job EXCEPT !.of = Older(@)]
        BY <1>1, <3>2 DEF Publish
      <4> QED
        BY <4>1, <4>2 DEF Importing, Updating
    <3> QED
      BY <3>1, <3>2
  <2>7. changes' \in 0 .. MaxChanges
    BY <2>1 DEF TypeOK
  <2>8. UNCHANGED <<held, scope, dropped, events>>
    BY <1>1 DEF Publish
  <2> QED
    BY <2>2, <2>3, <2>4, <2>5, <2>6, <2>7, <2>8 DEF TypeOK
<1>2. ASSUME NEW mode \in {"full", "subset"}, NEW only \in SUBSET Lei, StartImport(mode, only)
      PROVE  Typed'
  <2>1. job' \in Importing
    BY <1>0, <1>2, AgesAre DEF StartImport, Importing
  <2> QED
    BY <1>2, <2>1 DEF StartImport, TypeOK
<1>3. CASE LoadEntities
  <2>1. job \in Importing
    BY <1>3, JobAt DEF LoadEntities
  <2>2. held' \in [Item -> Statement \cup {"stub"}] /\ \A r \in Rel : held'[r] = held[r]
    BY <1>0, <1>3, <2>1 DEF LoadEntities, Importing
  <2>3. job' \in Importing /\ job'.at = "relationships"
    BY <1>3, <2>1 DEF LoadEntities, Importing
  <2>4. loaded' \in [age : Ages, relationships : BOOLEAN, reached : BOOLEAN]
    BY <1>3, <2>1 DEF LoadEntities, Importing, NoLoad
  <2>5. scope' \in {"none", "subset", "full"}
    BY <1>3, <2>1 DEF LoadEntities, Importing
  <2> QED
    BY <1>0, <1>3, <2>2, <2>3, <2>4, <2>5 DEF LoadEntities, TypeOK
<1>4. CASE LoadDies
  <2>1. job \in Importing
    BY <1>4, JobAt DEF LoadDies
  <2>2. held' \in [Item -> Statement \cup {"stub"}] /\ \A r \in Rel : held'[r] = held[r]
    <3>1. PICK S \in SUBSET Lei :
            held' = [i \in Item |-> IF i \in S /\ Loads(i) THEN job.says[i] ELSE held[i]]
      BY <1>4 DEF LoadDies
    <3> QED
      BY <1>0, <2>1, <3>1 DEF Importing
  <2> QED
    BY <1>0, <1>4, <2>2 DEF LoadDies, TypeOK, EntityMarker
<1>5. CASE LoadRelationships
  <2>1. job \in Importing
    BY <1>5, JobAt DEF LoadRelationships
  <2>2. /\ held' \in [Item -> Statement \cup {"stub"}]
        /\ \A r \in Rel : held'[r] \in Statement
    BY <1>0, <1>5, <2>1 DEF LoadRelationships, Importing
  <2>3. loaded' \in [age : Ages, relationships : BOOLEAN, reached : BOOLEAN]
    BY <1>5 DEF LoadRelationships, TypeOK
  <2> QED
    BY <1>0, <1>5, <2>2, <2>3 DEF LoadRelationships, TypeOK
<1>6. CASE Drop
  <2>1. NoLoad \in [age : Ages, relationships : BOOLEAN, reached : BOOLEAN]
    BY AgesAre DEF NoLoad
  <2>2. held' \in [Item -> {"none"}]
    BY <1>6 DEF Drop, Empty
  <2> QED
    BY <1>0, <1>6, <2>1, <2>2 DEF Drop, TypeOK
<1>7. ASSUME NEW interval \in Interval, NEW records \in SUBSET Delta(interval),
             NEW limited \in BOOLEAN, Fetch(interval, records, limited),
             UNCHANGED events \/ Event
      PROVE  Typed'
  <2>1. records \subseteq Item /\ (IF scope = "full" THEN {} ELSE Here) \subseteq Lei
    BY DEF Delta, Here
  <2>2. job' \in Updating
    BY <1>0, <1>7, <2>1, AgesAre DEF Fetch, Updating
  <2> QED
    BY <1>7, <2>2 DEF Fetch, TypeOK
<1>8. ASSUME NEW e \in Lei, ApplyEntity(e) PROVE Typed'
  <2>1. job \in Updating
    BY <1>8, JobAt DEF ApplyEntity
  <2>2. held' \in [Item -> Statement \cup {"stub"}] /\ \A r \in Rel : held'[r] = held[r]
    BY <1>0, <1>8, <2>1 DEF ApplyEntity, Updating
  <2>3. job' \in Updating
    BY <1>0, <1>8, <2>1 DEF ApplyEntity, Updating
  <2> QED
    BY <1>0, <1>8, <2>2, <2>3 DEF ApplyEntity, TypeOK
<1>9. ASSUME NEW i \in Item, BadRecord(i) PROVE Typed'
  <2>1. job \in Updating
    BY <1>9, JobAt DEF BadRecord
  <2>2. job' \in Updating
    BY <1>0, <1>9, <2>1 DEF BadRecord, Updating
  <2> QED
    BY <1>0, <1>9, <2>2 DEF BadRecord, TypeOK
<1>10. CASE ReadRelationships
  <2>1. job \in Updating
    BY <1>10, JobAt DEF ReadRelationships
  <2>2. Wanted \subseteq Item
    BY <2>1 DEF Wanted, Updating
  <2>3. UNION {Ends(r) : r \in Wanted} \subseteq Lei
    BY <1>10, EndsAreLei DEF Wanted, ReadRelationships
  <2>4. held' \in [Item -> Statement \cup {"stub"}] /\ \A r \in Rel : held'[r] = held[r]
    BY <1>0, <1>10, <2>3 DEF ReadRelationships
  <2>5. job' \in Updating
    <3>1. (IF Wanted = {} THEN "done" ELSE "edges") \in {"lei", "edges", "done"}
      OBVIOUS
    <3>2. [i \in Item |-> IF i \in Wanted THEN job.says[i] ELSE "none"] \in [Item -> Statement]
      BY <1>0, <2>1 DEF Updating
    <3> QED
      BY <1>10, <2>1, <2>2, <3>1, <3>2 DEF ReadRelationships, Updating
  <2> QED
    BY <1>0, <1>10, <2>4, <2>5 DEF ReadRelationships, TypeOK
<1>11. ASSUME NEW r \in Rel, ApplyRelationship(r) PROVE Typed'
  <2>1. job \in Updating
    BY <1>11, JobAt DEF ApplyRelationship
  <2>2. Edge(r) \in Statement
    BY <1>0 DEF Edge
  <2>3. job' \in Updating
    BY <1>0, <1>11, <2>1 DEF ApplyRelationship, Updating
  <2> QED
    BY <1>0, <1>11, <2>2, <2>3 DEF ApplyRelationship, TypeOK
<1>12. CASE Finish
  <2>1. job \in Updating
    BY <1>12, JobAt DEF Finish
  <2>2. last' \in Ages \cup {NoPublish}
    BY <1>12, <2>1 DEF Finish, Checkpoint, Updating, TypeOK
  <2>3. loaded' \in [age : Ages, relationships : BOOLEAN, reached : BOOLEAN]
    <3>1. /\ loaded \in [age : Ages, relationships : BOOLEAN, reached : BOOLEAN] /\ 0 \in Ages
          /\ loaded' = loaded \/ loaded' = [loaded EXCEPT !.age = 0, !.reached = loaded.age < Far]
      BY <1>12, AgesAre DEF Finish, TypeOK
    <3>2. [loaded EXCEPT !.age = 0, !.reached = loaded.age < Far]
             \in [age : Ages, relationships : BOOLEAN, reached : BOOLEAN]
      <4> DEFINE far == loaded.age < Far
      <4>1. far \in BOOLEAN
        OBVIOUS
      <4> HIDE DEF far
      <4>2. [loaded EXCEPT !.age = 0, !.reached = far]
               \in [age : Ages, relationships : BOOLEAN, reached : BOOLEAN]
        BY <3>1, <4>1
      <4> QED
        BY <4>2 DEF far
    <3> QED
      BY <3>1, <3>2
  <2> QED
    BY <1>12, <2>2, <2>3 DEF Finish, TypeOK
<1>13. CASE Crash
  BY <1>13 DEF Crash, TypeOK
<1>14. CASE UNCHANGED vars
  BY <1>14 DEF vars, TypeOK, Here
<1> QED
  <2>1. ASSUME Nightly \/ SpotCheck PROVE Typed'
    BY <1>7, <2>1 DEF Nightly, SpotCheck
  <2> QED
    BY <1>1, <1>2, <1>3, <1>4, <1>5, <1>6, <1>8, <1>9, <1>10, <1>11, <1>12, <1>13, <1>14,
       <2>1 DEF Next, Step

\* Type correctness of the register, the database, the jobs and the checkpoint.
THEOREM TypeCorrect == Spec => []TypeOK
<1>1. Typed => TypeOK
  BY DEF Typed
<1> QED
  BY <1>1, InitTyped, NextPreservesType, PTL DEF Spec

-----------------------------------------------------------------------------
(* What is in step *)

Known == Issues /\ Base /\ ImportKnows /\ UpdateKnows

LEMMA Types ==
  ASSUME Typed
  PROVE  /\ gleif \in [Item -> Statement] /\ changed \in [Item -> Ages]
         /\ held \in [Item -> Statement \cup {"stub"}]
         /\ \A r \in Rel : held[r] \in Statement
         /\ Ref \in Ages /\ loaded.age \in Ages
         /\ last # NoPublish => last \in Ages
         /\ job # Idle => job.of \in Ages
BY AgesAre DEF Typed, TypeOK, Ref, Importing, Updating

LEMMA InitKnows == Init => Known
<1> SUFFICES ASSUME Init PROVE Known
  OBVIOUS
<1>1. Issues
  BY EndsAreLei DEF Init, Issues, Item
<1>2. Base /\ ImportKnows /\ UpdateKnows
  BY DEF Init, Base, ImportKnows, UpdateKnows, At, Idle
<1> QED
  BY <1>1, <1>2 DEF Known

\* A publish ages everything but what it changes.
LEMMA PublishKeeps == ASSUME Inv, Publish PROVE Known'
<1>0. Typed /\ Far \in Nat
  BY AgesAre DEF Inv
<1>1. PICK S \in SUBSET {i \in Item : Issued(i)} :
        /\ gleif' = [i \in Item |-> IF i \in S THEN NextStatement(i) ELSE gleif[i]]
        /\ changed' = [i \in Item |-> IF i \in S THEN 0 ELSE Older(changed[i])]
  BY DEF Publish
<1>2. /\ UNCHANGED <<held, scope, dropped>>
      /\ last' = IF last = NoPublish THEN last ELSE Older(last)
      /\ loaded' = IF scope # "none" /\ last = NoPublish THEN [loaded EXCEPT !.age = Older(@)] ELSE loaded
      /\ job' = IF job = Idle THEN job ELSE [job EXCEPT !.of = Older(@)]
  BY DEF Publish
<1>3. ASSUME NEW i \in Item, NEW age \in Ages, Older(age) < Far, changed'[i] >= Older(age)
      PROVE  changed[i] >= age /\ gleif'[i] = gleif[i]
  <2>1. i \notin S
    <3>1. Older(age) >= 1 /\ Older(age) \in Nat
      BY OlderAge
    <3>2. i \in S => changed'[i] = 0
      BY <1>1
    <3> QED
      BY <1>3, <3>1, <3>2
  <2> QED
    BY <1>0, <1>1, <1>3, <2>1, OlderOrder, Types
<1>4. Issues'
  <2>1. ASSUME NEW i \in Item, gleif'[i] = "none" PROVE changed'[i] = Far
    <3>1. i \notin S /\ gleif[i] = "none"
      BY <1>1, <2>1 DEF NextStatement
    <3> QED
      BY <1>0, <1>1, <3>1 DEF Inv, Issues, Older
  <2>2. ASSUME NEW r \in Rel, gleif'[r] # "none", NEW e \in Ends(r) PROVE gleif'[e] # "none"
    <3>1. r \in Item /\ e \in Item
      BY EndsAreLei DEF Item
    <3>2. gleif[e] # "none"
      BY <1>1, <2>2, <3>1 DEF Inv, Issues, Issued
    <3> QED
      BY <1>1, <3>1, <3>2 DEF NextStatement
  <2> QED
    BY <2>1, <2>2 DEF Issues, Ends
<1>5. loaded'.relationships = loaded.relationships /\ loaded'.reached = loaded.reached
  BY <1>0, <1>2 DEF Typed, TypeOK
<1>6. \A i \in Item : Within(i)' = Within(i)
  BY <1>2, <1>5 DEF Within, Here, Ends
<1>7. ASSUME scope # "none"
      PROVE  Ref' = Older(Ref) /\ (Reaching' => Reaching)
  <2>1. CASE last = NoPublish
    <3>1. last' = NoPublish /\ loaded'.age = Older(loaded.age)
      BY <1>0, <1>2, <1>7, <2>1 DEF Typed, TypeOK
    <3> QED
      BY <1>0, <2>1, <3>1, Types, OlderAge DEF Ref, Reaching
  <2>2. CASE last # NoPublish
    <3>1. last' = Older(last) /\ last' # NoPublish
      BY <1>0, <1>2, <2>2, Types, OlderAge, AgesAre
    <3> QED
      BY <1>5, <2>2, <3>1 DEF Ref, Reaching
  <2> QED
    BY <2>1, <2>2
<1>8. Base'
  <2> SUFFICES ASSUME scope # "none", Reaching', Ref' < Far,
                      NEW i \in Item, Within(i), changed'[i] >= Ref'
               PROVE  Agrees(i)'
    BY <1>2, <1>6 DEF Base
  <2>1. Reaching /\ Ref' = Older(Ref) /\ Ref \in Ages /\ Ref < Far
    BY <1>0, <1>7, Types, OlderAge
  <2>2. changed[i] >= Ref /\ gleif'[i] = gleif[i]
    BY <1>3, <2>1
  <2>3. Agrees(i)
    BY <2>1, <2>2 DEF Inv, Base
  <2> QED
    BY <1>2, <2>2, <2>3 DEF Agrees
<1>9. ASSUME job # Idle
      PROVE  /\ job.of \in Ages /\ job'.of = Older(job.of) /\ job'.at = job.at
             /\ job \in Importing => job'.says = job.says /\ job'.only = job.only
                                     /\ job'.scope = job.scope
             /\ job \in Updating => /\ job'.says = job.says /\ job'.todo = job.todo
                                    /\ job'.known = job.known /\ job'.limited = job.limited
                                    /\ job'.onlyExisting = job.onlyExisting
  BY <1>0, <1>2, <1>9, Types DEF Typed, TypeOK, Importing, Updating
<1>10. ImportKnows'
  <2>1. scope' = "none" => last' = NoPublish
    BY <1>2 DEF Inv, ImportKnows
  <2>2. CASE job \notin Importing
    <3>1. ~(At("entities") \/ At("relationships"))'
      <4>1. job'.at = job.at
        BY <1>2, <1>9
      <4> QED
        BY <1>0, <2>2, <4>1, JobAt DEF At, Typed
    <3> QED
      BY <2>1, <3>1 DEF ImportKnows, At
  <2>3. CASE job \in Importing
    <3>1. /\ job # Idle /\ job.of \in Ages /\ job'.of = Older(job.of) /\ job'.at = job.at
          /\ job'.says = job.says /\ job'.only = job.only /\ job'.scope = job.scope
      BY <1>0, <1>9, <2>3 DEF Importing, Idle
    <3>2. job'.of < Far => \A i \in Item : changed'[i] >= job'.of => job'.says[i] = gleif'[i]
      <4> SUFFICES ASSUME Older(job.of) < Far, NEW i \in Item, changed'[i] >= Older(job.of)
                   PROVE  job.says[i] = gleif'[i]
        BY <3>1
      <4>1. changed[i] >= job.of /\ gleif'[i] = gleif[i] /\ job.of < Far
        BY <1>0, <1>3, <3>1, OlderAge
      <4> QED
        BY <1>0, <2>3, <4>1, JobAt DEF Inv, ImportKnows, Typed
    <3>3. At("relationships")' => loaded'.age = job'.of
      <4> SUFFICES ASSUME job.at = "relationships" PROVE loaded'.age = job'.of
        BY <3>1 DEF At
      <4>1. scope # "none" /\ last = NoPublish /\ loaded.age = job.of
        BY <2>3 DEF Inv, ImportKnows, At, Importing
      <4> QED
        BY <1>0, <1>2, <3>1, <4>1 DEF Typed, TypeOK
    <3> QED
      BY <1>2, <2>1, <3>1, <3>2, <3>3 DEF Inv, ImportKnows, At, Here, Empty
  <2> QED
    BY <2>2, <2>3
<1>11. UpdateKnows'
  <2>1. CASE job \notin Updating
    <3>1. job'.at = job.at
      BY <1>2, <1>9
    <3> QED
      BY <1>0, <2>1, <3>1, JobAt DEF UpdateKnows, At, Typed
  <2>2. CASE job \in Updating
    <3>1. /\ job # Idle /\ job.of \in Ages /\ job'.of = Older(job.of) /\ job'.at = job.at
          /\ job'.says = job.says /\ job'.todo = job.todo
          /\ job'.known = job.known /\ job'.limited = job.limited
          /\ job'.onlyExisting = job.onlyExisting /\ job.todo \subseteq Item
      BY <1>0, <1>9, <2>2 DEF Updating, Idle
    <3>2. /\ scope # "none" /\ job.of <= Ref
          /\ \A i \in job.todo : /\ gleif[i] # "none" /\ job.says[i] # "none"
                                 /\ job.of < Far /\ changed[i] >= job.of => job.says[i] = gleif[i]
          /\ ~job.limited /\ job.of < Far /\ Reaching =>
               \A i \in Item \ job.todo : Within(i) /\ changed[i] >= job.of => Agrees(i)
      BY <1>0, <2>2, JobAt DEF Inv, UpdateKnows, Typed
    <3>3. (job.of <= Ref)'
      BY <1>0, <1>7, <3>1, <3>2, Types, OlderOrder
    <3>4. ASSUME NEW i \in job.todo
          PROVE  /\ gleif'[i] # "none"
                 /\ job'.of < Far /\ changed'[i] >= job'.of => job.says[i] = gleif'[i]
      <4>1. gleif'[i] # "none"
        BY <1>1, <3>1, <3>2 DEF NextStatement
      <4>2. ASSUME job'.of < Far, changed'[i] >= job'.of PROVE job.says[i] = gleif'[i]
        <5>1. changed[i] >= job.of /\ gleif'[i] = gleif[i] /\ job.of < Far
          BY <1>0, <1>3, <3>1, <4>2, OlderAge
        <5> QED
          BY <3>2, <5>1
      <4> QED
        BY <4>1, <4>2
    <3>5. ASSUME ~job.limited, job'.of < Far, Reaching',
                 NEW i \in Item \ job.todo, Within(i), changed'[i] >= job'.of
          PROVE  Agrees(i)'
      <4>1. changed[i] >= job.of /\ gleif'[i] = gleif[i] /\ job.of < Far
        BY <1>0, <1>3, <3>1, <3>5, OlderAge
      <4>2. Agrees(i)
        BY <1>7, <3>2, <3>5, <4>1
      <4> QED
        BY <1>2, <4>1, <4>2 DEF Agrees
    <3>6. Here' = Here
      BY <1>2 DEF Here
    <3>7. /\ job.onlyExisting = (scope # "full")
          /\ scope = "subset" => Here = job.known
          /\ At("edges") => job.todo \subseteq Rel
          /\ At("done") => job.todo = {}
      BY <1>0, <2>2, JobAt DEF Inv, UpdateKnows, Typed
    <3> QED
      BY <1>2, <1>6, <3>1, <3>2, <3>3, <3>4, <3>5, <3>6, <3>7 DEF UpdateKnows, At
  <2> QED
    BY <2>1, <2>2
<1> QED
  BY <1>4, <1>8, <1>10, <1>11 DEF Known


\* The golden copy's entities, then its relationships.
LEMMA StartImportKeeps ==
  ASSUME Inv, NEW mode \in {"full", "subset"}, NEW only \in SUBSET Lei, StartImport(mode, only)
  PROVE  Known'
<1>1. /\ UNCHANGED <<gleif, changed, held, scope, last, loaded, dropped>>
      /\ scope = "none" /\ held = Empty
      /\ job' = [at |-> "entities", scope |-> mode, says |-> gleif, only |-> only, of |-> 0]
      /\ mode = "full" => only = Lei
  BY DEF StartImport
<1>2. Issues'
  BY <1>1 DEF Inv, Issues, Ends
<1>3. Base'
  BY <1>1 DEF Base
<1>4. ImportKnows'
  BY <1>1 DEF Inv, ImportKnows, At, Empty
<1>5. UpdateKnows'
  BY <1>1 DEF UpdateKnows, At
<1> QED
  BY <1>2, <1>3, <1>4, <1>5 DEF Known

LEMMA LoadEntitiesKeeps == ASSUME Inv, LoadEntities PROVE Known'
<1>0. Typed /\ Typed'
  BY NextPreservesType DEF Inv, Next, Step
<1>1. job \in Importing /\ job # Idle /\ job.of \in Ages
  BY <1>0, JobAt, Types DEF LoadEntities, Typed, Importing, Idle
<1>2. /\ UNCHANGED <<gleif, changed, last, dropped>>
      /\ held' = [i \in Item |-> IF i \in Lei /\ Loads(i) THEN job.says[i] ELSE held[i]]
      /\ scope' = job.scope /\ scope' \in {"full", "subset"}
      /\ loaded' = [age |-> job.of, relationships |-> FALSE, reached |-> FALSE]
      /\ job' = [job EXCEPT !.at = "relationships"]
  BY <1>1 DEF LoadEntities, NoLoad, Importing
<1>3. /\ scope = "none" /\ last = NoPublish /\ held = Empty
      /\ job.scope = "full" => job.only = Lei
      /\ job.of < Far => \A i \in Item : changed[i] >= job.of => job.says[i] = gleif[i]
  BY DEF Inv, ImportKnows, LoadEntities
<1>4. job'.at = "relationships" /\ job'.of = job.of /\ job'.says = job.says
      /\ job'.only = job.only /\ job'.scope = job.scope
  BY <1>1, <1>2 DEF Importing
<1>5. Issues'
  BY <1>2 DEF Inv, Issues, Ends
<1>6. \A e \in Lei : /\ held'[e] = IF Loads(e) THEN job.says[e] ELSE "none"
                     /\ held'[e] # "none" => e \in job.only
  BY <1>2, <1>3 DEF Empty, Item, Loads
<1>7. Base'
  <2> SUFFICES ASSUME job.of < Far, NEW i \in Item, Within(i)', changed[i] >= job.of
               PROVE  Agrees(i)'
    BY <1>2, <1>3 DEF Base, Ref
  <2>1. i \in Lei /\ i \notin Rel
    BY <1>2 DEF Within, Item
  <2>2. Loads(i) \/ job.says[i] = "none"
    BY <1>2, <1>3, <1>6, <2>1 DEF Within, Here, Loads
  <2>3. held'[i] = job.says[i]
    BY <1>6, <2>1, <2>2
  <2> QED
    BY <1>2, <1>3, <2>1, <2>3 DEF Agrees
<1>8. ImportKnows'
  BY <1>2, <1>3, <1>4, <1>6 DEF ImportKnows, At, Here
<1>9. UpdateKnows'
  BY <1>4 DEF UpdateKnows, At
<1> QED
  BY <1>5, <1>7, <1>8, <1>9 DEF Known

LEMMA LoadRelationshipsKeeps == ASSUME Inv, LoadRelationships PROVE Known'
<1>0. Typed /\ Typed'
  BY NextPreservesType DEF Inv, Next, Step
<1>1. job \in Importing
  BY <1>0, JobAt DEF LoadRelationships, Typed
<1>2. /\ UNCHANGED <<gleif, changed, scope, last, dropped>>
      /\ held' = [i \in Item |-> IF i \in Rel /\ Ends(i) \subseteq job.only THEN job.says[i] ELSE held[i]]
      /\ loaded'.age = loaded.age /\ job' = Idle
  BY <1>0 DEF LoadRelationships, Typed, TypeOK
<1>3. /\ scope = job.scope /\ last = NoPublish /\ loaded.age = job.of
      /\ scope = "full" => job.only = Lei
      /\ Here \subseteq job.only
      /\ job.of < Far => \A i \in Item : changed[i] >= job.of => job.says[i] = gleif[i]
  BY DEF Inv, ImportKnows, LoadRelationships
<1>4. Issues'
  BY <1>2 DEF Inv, Issues, Ends
<1>5. \A e \in Lei : held'[e] = held[e]
  BY <1>2 DEF Item
<1>6. Here' = Here
  BY <1>5 DEF Here
<1>7. Base'
  <2> SUFFICES ASSUME scope # "none", job.of < Far, NEW i \in Item, Within(i)', changed[i] >= job.of
               PROVE  Agrees(i)'
    BY <1>2, <1>3 DEF Base, Ref, Reaching
  <2>1. CASE i \in Rel
    <3>1. Ends(i) \subseteq job.only
      BY <1>0, <1>1, <1>2, <1>3, <1>6, <2>1, EndsAreLei DEF Within, Importing, Ends
    <3>2. held'[i] = job.says[i] /\ job.says[i] = gleif[i]
      BY <1>2, <1>3, <2>1, <3>1
    <3> QED
      BY <1>2, <2>1, <3>2 DEF Agrees
  <2>2. CASE i \in Lei
    <3>1. Within(i)
      BY <1>2, <1>6, <2>2 DEF Within
    <3>2. Agrees(i)
      BY <1>3, <3>1 DEF Inv, Base, Ref, Reaching
    <3> QED
      BY <1>2, <1>5, <2>2, <3>2 DEF Agrees
  <2> QED
    BY <2>1, <2>2 DEF Item
<1>8. ImportKnows'
  BY <1>2, <1>3 DEF Inv, ImportKnows, At, Idle
<1>9. UpdateKnows'
  BY <1>2 DEF UpdateKnows, At, Idle
<1> QED
  BY <1>4, <1>7, <1>8, <1>9 DEF Known

\* A load that dies stamps no marker; a database that is dropped has none.
LEMMA NoMarkerKeeps == ASSUME Inv, LoadDies \/ Drop PROVE Known'
<1>1. UNCHANGED <<gleif, changed>> /\ scope' = "none" /\ last' = NoPublish /\ job'.at = "idle"
  BY DEF LoadDies, Drop, EntityMarker, Idle, Inv, ImportKnows, Typed, TypeOK, At
<1>2. Issues'
  BY <1>1 DEF Inv, Issues, Ends
<1>3. Base' /\ ImportKnows' /\ UpdateKnows'
  BY <1>1 DEF Base, ImportKnows, UpdateKnows, At
<1> QED
  BY <1>2, <1>3 DEF Known

\* A run that dies leaves what it wrote, which is in step.
LEMMA StopKeeps ==
  ASSUME Inv, UNCHANGED <<gleif, changed, held, scope, last, loaded, dropped>>, job' = Idle
  PROVE  Known'
<1>1. Issues' /\ Base'
  BY DEF Inv, Issues, Base, Ref, Reaching, Within, Here, Ends, Agrees
<1>2. ImportKnows' /\ UpdateKnows'
  BY DEF Inv, ImportKnows, UpdateKnows, At, Idle
<1> QED
  BY <1>1, <1>2 DEF Known


\* What a delta does not hold has not changed since the checkpoint.
LEMMA FetchKeeps ==
  ASSUME WindowsReach, Inv, NEW interval \in Interval, NEW records \in SUBSET Delta(interval),
         NEW limited \in BOOLEAN, limited \/ records = Delta(interval),
         Fetch(interval, records, limited)
  PROVE  Known'
<1>0. Typed
  BY DEF Inv
<1>1. /\ UNCHANGED <<gleif, changed, held, scope, last, loaded, dropped>>
      /\ scope # "none" /\ Chosen(interval)
      /\ job' = [at |-> "lei", says |-> [i \in Item |-> IF i \in records THEN gleif[i] ELSE "none"],
                 todo |-> records, known |-> IF scope = "full" THEN {} ELSE Here,
                 onlyExisting |-> scope # "full", limited |-> limited, of |-> 0]
  BY DEF Fetch
<1>2. Issues' /\ Base'
  BY <1>1 DEF Inv, Issues, Base, Ref, Reaching, Within, Here, Ends, Agrees
<1>3. ImportKnows'
  BY <1>1 DEF Inv, ImportKnows, At
<1>4. records \subseteq Item /\ \A i \in records : gleif[i] # "none"
  BY <1>0, AgesAre, Types DEF Inv, Issues, Delta
<1>5. ASSUME ~limited, Reaching, NEW i \in Item \ records, Within(i) PROVE Agrees(i)
  <2>1. changed[i] \in Ages /\ changed[i] >= Window[interval]
    BY <1>0, <1>5, AgesAre, Types DEF Delta
  <2>2. Ref <= Window[interval]
    <3>1. CASE last = NoPublish
      BY <1>0, <1>1, <1>5, <3>1, AgesAre, Types DEF Chosen, Ref, Reaching, Far
    <3>2. CASE last # NoPublish
      <4>1. last <= MaxGap[interval] /\ MaxGap[interval] <= Window[interval] /\ last \in Ages
        BY <1>0, <1>1, <3>2, Types DEF Chosen, Covers, WindowsReach
      <4> QED
        BY <3>2, <4>1, AgesAre DEF Ref
    <3> QED
      BY <3>1, <3>2
  <2>3. Ref < Far /\ changed[i] >= Ref
    BY <1>0, <2>1, <2>2, AgesAre, Types
  <2> QED
    BY <1>1, <1>5, <2>3 DEF Inv, Base
<1>6. UpdateKnows'
  <2>1. Ref' = Ref /\ Ref >= 0 /\ Reaching' = Reaching /\ Here' = Here
    BY <1>0, <1>1, AgesAre, Types DEF Ref, Reaching, Here
  <2>2. \A i \in Item : Within(i)' = Within(i) /\ Agrees(i)' = Agrees(i)
    BY <1>1 DEF Within, Agrees, Here, Ends
  <2> QED
    BY <1>1, <1>4, <1>5, <2>1, <2>2 DEF UpdateKnows, At
<1> QED
  BY <1>2, <1>3, <1>6 DEF Known

\* What an update knows where it stands.
LEMMA Underway ==
  ASSUME Inv, At("lei") \/ At("edges") \/ At("done")
  PROVE  /\ Typed /\ job \in Updating /\ job # Idle /\ job.todo \subseteq Item /\ job.of \in Ages
         /\ scope \in {"subset", "full"} /\ job.onlyExisting = (scope # "full")
         /\ scope = "subset" => Here = job.known
         /\ job.of <= Ref /\ Ref \in Ages
         /\ \A i \in job.todo :
              /\ gleif[i] # "none" /\ job.says[i] # "none"
              /\ job.of < Far /\ changed[i] >= job.of => job.says[i] = gleif[i]
         /\ ~job.limited /\ job.of < Far /\ Reaching =>
              \A i \in Item \ job.todo : Within(i) /\ changed[i] >= job.of => Agrees(i)
<1>1. Typed /\ job \in Updating
  BY JobAt DEF Inv, Typed
<1>2. job # Idle /\ job.todo \subseteq Item /\ job.of \in Ages /\ Ref \in Ages
  BY <1>1, Types DEF Updating, Idle
<1>3. scope \in {"subset", "full"}
  BY <1>1 DEF Inv, UpdateKnows, Typed, TypeOK
<1> QED
  BY <1>1, <1>2, <1>3 DEF Inv, UpdateKnows

\* A record written as the publish states it is in step, if it has not changed since.
LEMMA ApplyEntityKeeps == ASSUME Inv, NEW e \in Lei, ApplyEntity(e) PROVE Known'
<1>0. /\ Typed /\ job \in Updating /\ job.todo \subseteq Item /\ job.of \in Ages
      /\ scope \in {"subset", "full"} /\ job.onlyExisting = (scope # "full")
      /\ scope = "subset" => Here = job.known
      /\ job.of <= Ref /\ Ref \in Ages /\ At("lei") /\ e \in job.todo
      /\ \A i \in job.todo :
           /\ gleif[i] # "none" /\ job.says[i] # "none"
           /\ job.of < Far /\ changed[i] >= job.of => job.says[i] = gleif[i]
      /\ ~job.limited /\ job.of < Far /\ Reaching =>
           \A i \in Item \ job.todo : Within(i) /\ changed[i] >= job.of => Agrees(i)
  BY Underway DEF ApplyEntity
<1>1. /\ UNCHANGED <<gleif, changed, scope, last, loaded>> /\ dropped' = dropped \ {e}
      /\ job'.at = "lei" /\ job'.todo = job.todo \ {e} /\ job'.of = job.of
      /\ job'.known = job.known /\ job'.limited = job.limited
      /\ job'.onlyExisting = job.onlyExisting
      /\ \A i \in job.todo \ {e} : job'.says[i] = job.says[i]
  BY <1>0 DEF ApplyEntity, Updating, At
<1>2. /\ \A i \in Item : i # e => held'[i] = held[i]
      /\ held'[e] = (IF job.onlyExisting /\ e \notin job.known THEN held[e] ELSE job.says[e])
  BY <1>0, Types DEF ApplyEntity, Item
<1>3. scope = "subset" => Here' = Here
  <2> SUFFICES ASSUME scope = "subset" PROVE Here' = Here
    OBVIOUS
  <2>1. held'[e] # "none" <=> held[e] # "none"
    BY <1>0, <1>2 DEF Here
  <2> QED
    BY <1>2, <2>1 DEF Here, Item
<1>4. \A i \in Item : i # e => (Within(i)' <=> Within(i)) /\ (Agrees(i)' <=> Agrees(i))
  BY <1>1, <1>2, <1>3 DEF Within, Agrees, Ends
<1>5. ASSUME Within(e)', changed[e] >= job.of, job.of < Far PROVE Agrees(e)'
  <2>1. e \in job.known \/ ~job.onlyExisting
    BY <1>0, <1>1, <1>3, <1>5 DEF Within
  <2>2. held'[e] = gleif[e]
    BY <1>0, <1>2, <1>5, <2>1
  <2> QED
    BY <1>1, <2>2 DEF Agrees
<1>6. Issues'
  BY <1>1 DEF Inv, Issues, Ends
<1>7. Ref' = Ref /\ Reaching' = Reaching
  BY <1>1 DEF Ref, Reaching
<1>8. Base'
  <2> SUFFICES ASSUME Reaching, Ref < Far, NEW i \in Item, Within(i)', changed[i] >= Ref
               PROVE  Agrees(i)'
    BY <1>1, <1>7 DEF Base
  <2>1. CASE i = e
    BY <1>0, <1>5, <2>1, AgesAre, Types
  <2>2. CASE i # e
    BY <1>0, <1>4, <2>2 DEF Inv, Base
  <2> QED
    BY <2>1, <2>2
<1>9. ImportKnows'
  BY <1>1 DEF Inv, ImportKnows, At
<1>10. UpdateKnows'
  <2>1. ASSUME ~job.limited, job.of < Far, Reaching,
               NEW i \in Item \ (job.todo \ {e}), Within(i)', changed[i] >= job.of
        PROVE  Agrees(i)'
    BY <1>0, <1>4, <1>5, <2>1
  <2> QED
    BY <1>0, <1>1, <1>3, <1>7, <2>1 DEF UpdateKnows, At
<1> QED
  BY <1>6, <1>8, <1>9, <1>10 DEF Known

\* A bad record is no longer answered for.
LEMMA BadRecordKeeps == ASSUME Inv, NEW b \in Item, BadRecord(b) PROVE Known'
<1>0. /\ Typed /\ job \in Updating /\ job.todo \subseteq Item /\ job.of \in Ages
      /\ scope \in {"subset", "full"} /\ job.onlyExisting = (scope # "full")
      /\ scope = "subset" => Here = job.known
      /\ job.of <= Ref /\ Ref \in Ages /\ At("lei") /\ b \in job.todo
      /\ \A i \in job.todo :
           /\ gleif[i] # "none" /\ job.says[i] # "none"
           /\ job.of < Far /\ changed[i] >= job.of => job.says[i] = gleif[i]
      /\ ~job.limited /\ job.of < Far /\ Reaching =>
           \A i \in Item \ job.todo : Within(i) /\ changed[i] >= job.of => Agrees(i)
  BY Underway DEF BadRecord
<1>1. /\ UNCHANGED <<gleif, changed, held, scope, last, loaded>> /\ dropped' = dropped \cup {b}
      /\ job'.at = "lei" /\ job'.todo = job.todo \ {b} /\ job'.of = job.of
      /\ job'.known = job.known /\ job'.limited = job.limited
      /\ job'.onlyExisting = job.onlyExisting
      /\ \A i \in job.todo \ {b} : job'.says[i] = job.says[i]
  BY <1>0 DEF BadRecord, Updating, At
<1>2. \A i \in Item : (Within(i)' => Within(i) /\ i # b) /\ Agrees(i)' = Agrees(i)
  BY <1>1 DEF Within, Agrees, Here, Ends
<1>3. Ref' = Ref /\ Reaching' = Reaching /\ Here' = Here
  BY <1>1 DEF Ref, Reaching, Here
<1>4. Issues' /\ Base' /\ ImportKnows'
  BY <1>1, <1>2, <1>3 DEF Inv, Issues, Base, ImportKnows, Ends, At
<1>5. UpdateKnows'
  BY <1>0, <1>1, <1>2, <1>3 DEF UpdateKnows, At
<1> QED
  BY <1>4, <1>5 DEF Known

\* Only a company that GLEIF has, and the database had lost, becomes a stub.
LEMMA ReadRelationshipsKeeps == ASSUME Inv, ReadRelationships PROVE Known'
<1>0. /\ Typed /\ job \in Updating /\ job.todo \subseteq Rel /\ job.of \in Ages
      /\ scope \in {"subset", "full"} /\ job.onlyExisting = (scope # "full")
      /\ scope = "subset" => Here = job.known
      /\ job.of <= Ref /\ Ref \in Ages
      /\ \A i \in job.todo :
           /\ gleif[i] # "none" /\ job.says[i] # "none"
           /\ job.of < Far /\ changed[i] >= job.of => job.says[i] = gleif[i]
      /\ ~job.limited /\ job.of < Far /\ Reaching =>
           \A i \in Item \ job.todo : Within(i) /\ changed[i] >= job.of => Agrees(i)
  BY Underway DEF ReadRelationships
<1>1. /\ UNCHANGED <<gleif, changed, scope, last, loaded>>
      /\ dropped' = dropped \ (job.todo \ Wanted)
      /\ job'.at \in {"edges", "done"} /\ job'.todo = Wanted /\ job'.of = job.of
      /\ job'.at = "done" => Wanted = {}
      /\ job'.known = job.known /\ job'.limited = job.limited
      /\ job'.onlyExisting = job.onlyExisting
      /\ \A i \in Wanted : job'.says[i] = job.says[i]
  <2>1. Wanted \subseteq Item
    BY <1>0 DEF Wanted, Item
  <2> QED
    BY <1>0, <2>1 DEF ReadRelationships, Updating
<1>2. Wanted \subseteq job.todo
  BY DEF Wanted
<1>3. \A i \in Item : /\ held'[i] = held[i] \/ held[i] = "none"
                      /\ i \in Rel => held'[i] = held[i]
  BY <1>0, EndsAreLei DEF ReadRelationships, Wanted
<1>4. scope = "subset" => held' = held
  <2> SUFFICES ASSUME scope = "subset" PROVE held' = held
    OBVIOUS
  <2>1. \A i \in UNION {Ends(r) : r \in Wanted} : held[i] # "none"
    BY <1>0 DEF Wanted, Here
  <2>2. held' = [i \in Item |-> held[i]]
    BY <2>1 DEF ReadRelationships
  <2> QED
    BY <1>0, <2>2, Types
<1>5. \A i \in Item : Within(i)' => i \notin job.todo \ Wanted
  BY <1>0, <1>1, <1>4 DEF Within, Wanted, Here, Ends
<1>6. \A i \in Item : Within(i)' => Within(i)
  BY <1>1, <1>4, <1>5 DEF Within, Here, Ends
<1>7. ASSUME NEW i \in Item, Agrees(i) PROVE Agrees(i)'
  <2>1. CASE held'[i] = held[i]
    BY <1>1, <1>7, <2>1 DEF Agrees
  <2>2. CASE held'[i] # held[i]
    <3>1. held[i] = "none" /\ i \notin Rel
      BY <1>3, <2>2
    <3>2. gleif[i] = "none"
      BY <1>7, <3>1 DEF Agrees
    <3>3. i \in UNION {Ends(r) : r \in Wanted}
      BY <2>2 DEF ReadRelationships
    <3>4. PICK r \in Wanted : i \in Ends(r)
      BY <3>3
    <3>5. r \in Rel /\ gleif[r] # "none"
      BY <1>0, <1>2
    <3> QED
      BY <3>2, <3>4, <3>5 DEF Inv, Issues
  <2> QED
    BY <2>1, <2>2
<1>8. Ref' = Ref /\ Reaching' = Reaching
  BY <1>1 DEF Ref, Reaching
<1>9. Issues'
  BY <1>1 DEF Inv, Issues, Ends
<1>10. Base'
  <2> SUFFICES ASSUME Reaching, Ref < Far, NEW i \in Item, Within(i)', changed[i] >= Ref
               PROVE  Agrees(i)'
    BY <1>1, <1>8 DEF Base
  <2> QED
    BY <1>0, <1>6, <1>7 DEF Inv, Base
<1>11. ImportKnows'
  BY <1>1 DEF Inv, ImportKnows, At
<1>12. UpdateKnows'
  <2>1. ASSUME ~job.limited, job.of < Far, Reaching, NEW i \in Item \ Wanted,
               Within(i)', changed[i] >= job.of
        PROVE  Agrees(i)'
    BY <1>0, <1>5, <1>6, <1>7, <2>1
  <2>2. scope = "subset" => Here' = Here
    BY <1>4 DEF Here
  <2>3. \A i \in Wanted : /\ gleif[i] # "none" /\ job'.says[i] # "none"
                          /\ job.of < Far /\ changed[i] >= job.of => job'.says[i] = gleif[i]
    BY <1>0, <1>1, <1>2
  <2> QED
    BY <1>0, <1>1, <1>2, <1>8, <2>1, <2>2, <2>3 DEF UpdateKnows, At
<1> QED
  BY <1>9, <1>10, <1>11, <1>12 DEF Known

LEMMA ApplyRelationshipKeeps == ASSUME Inv, NEW e \in Rel, ApplyRelationship(e) PROVE Known'
<1>0. /\ Typed /\ job \in Updating /\ job.todo \subseteq Item /\ job.of \in Ages
      /\ scope \in {"subset", "full"} /\ job.onlyExisting = (scope # "full")
      /\ scope = "subset" => Here = job.known
      /\ job.of <= Ref /\ Ref \in Ages /\ At("edges") /\ e \in job.todo
      /\ \A i \in job.todo :
           /\ gleif[i] # "none" /\ job.says[i] # "none"
           /\ job.of < Far /\ changed[i] >= job.of => job.says[i] = gleif[i]
      /\ ~job.limited /\ job.of < Far /\ Reaching =>
           \A i \in Item \ job.todo : Within(i) /\ changed[i] >= job.of => Agrees(i)
  BY Underway DEF ApplyRelationship
<1>1. /\ UNCHANGED <<gleif, changed, scope, last, loaded>> /\ dropped' = dropped \ {e}
      /\ job'.at \in {"edges", "done"} /\ job'.todo = job.todo \ {e} /\ job'.of = job.of
      /\ job'.at = "done" => job.todo \ {e} = {}
      /\ job'.known = job.known /\ job'.limited = job.limited
      /\ job'.onlyExisting = job.onlyExisting
      /\ \A i \in job.todo \ {e} : job'.says[i] = job.says[i]
  BY <1>0 DEF ApplyRelationship, Updating
<1>2. /\ \A i \in Item : i # e => held'[i] = held[i]
      /\ held'[e] = Edge(e)
      /\ \A i \in Lei : i # e
  BY <1>0, Types DEF ApplyRelationship, Item
<1>3. Here' = Here
  BY <1>2 DEF Here, Item
<1>4. \A i \in Item : i # e => (Within(i)' <=> Within(i)) /\ (Agrees(i)' <=> Agrees(i))
  BY <1>1, <1>2, <1>3 DEF Within, Agrees, Ends
<1>5. ASSUME changed[e] >= job.of, job.of < Far PROVE Agrees(e)'
  <2>1. job.says[e] = gleif[e]
    BY <1>0, <1>5
  <2> QED
    BY <1>1, <1>2, <2>1 DEF Agrees, Edge
<1>6. Issues'
  BY <1>1 DEF Inv, Issues, Ends
<1>7. Ref' = Ref /\ Reaching' = Reaching
  BY <1>1 DEF Ref, Reaching
<1>8. Base'
  <2> SUFFICES ASSUME Reaching, Ref < Far, NEW i \in Item, Within(i)', changed[i] >= Ref
               PROVE  Agrees(i)'
    BY <1>1, <1>7 DEF Base
  <2>1. CASE i = e
    BY <1>0, <1>5, <2>1, AgesAre, Types
  <2>2. CASE i # e
    BY <1>0, <1>4, <2>2 DEF Inv, Base
  <2> QED
    BY <2>1, <2>2
<1>9. ImportKnows'
  BY <1>1 DEF Inv, ImportKnows, At
<1>10. UpdateKnows'
  <2>1. ASSUME ~job.limited, job.of < Far, Reaching,
               NEW i \in Item \ (job.todo \ {e}), Within(i)', changed[i] >= job.of
        PROVE  Agrees(i)'
    BY <1>0, <1>4, <1>5, <2>1
  <2>2. job.todo \subseteq Rel
    BY <1>0 DEF Inv, UpdateKnows
  <2> QED
    BY <1>0, <1>1, <1>3, <1>7, <2>1, <2>2 DEF UpdateKnows, At
<1> QED
  BY <1>6, <1>8, <1>9, <1>10 DEF Known

\* An update that has come through answers for the publish it was made of.
LEMMA FinishKeeps == ASSUME Inv, Finish PROVE Known'
<1>0. /\ Typed /\ job \in Updating /\ job.todo = {} /\ job.of \in Ages /\ scope # "none"
      /\ ~job.limited /\ job.of < Far /\ Reaching =>
           \A i \in Item \ job.todo : Within(i) /\ changed[i] >= job.of => Agrees(i)
  BY Underway DEF Finish, Inv, UpdateKnows
<1>1. /\ UNCHANGED <<gleif, changed, held, scope, dropped>> /\ job' = Idle
      /\ last' = IF job.limited THEN last ELSE job.of
      /\ loaded' = IF last = NoPublish /\ last' # NoPublish
                   THEN [loaded EXCEPT !.age = 0, !.reached = loaded.age < Far] ELSE loaded
  BY DEF Finish, Checkpoint
<1>2. Issues'
  BY <1>1 DEF Inv, Issues, Ends
<1>3. loaded'.relationships = loaded.relationships
  BY <1>0, <1>1 DEF Typed, TypeOK
<1>4. \A i \in Item : Within(i)' = Within(i) /\ Agrees(i)' = Agrees(i)
  BY <1>1, <1>3 DEF Within, Agrees, Here, Ends
<1>5. Base'
  <2>1. CASE job.limited
    <3>1. Ref' = Ref /\ Reaching' = Reaching
      BY <1>1, <2>1 DEF Ref, Reaching
    <3> QED
      BY <1>1, <1>4, <3>1 DEF Inv, Base
  <2>2. CASE ~job.limited
    <3>1. last' = job.of /\ last' # NoPublish
      BY <1>0, <1>1, <2>2, AgesAre
    <3>2. Ref' = job.of /\ (Reaching' => Reaching)
      BY <1>0, <1>1, <3>1 DEF Ref, Reaching, Typed, TypeOK
    <3> QED
      BY <1>0, <1>1, <1>4, <2>2, <3>2 DEF Base
  <2> QED
    BY <2>1, <2>2
<1>6. ImportKnows' /\ UpdateKnows'
  BY <1>0, <1>1 DEF ImportKnows, UpdateKnows, At, Idle
<1> QED
  BY <1>2, <1>5, <1>6 DEF Known

-----------------------------------------------------------------------------

\* Every step preserves the inductive invariant.
LEMMA NextPreservesInv == WindowsReach /\ Inv /\ [Next]_vars => Inv'
<1> SUFFICES ASSUME WindowsReach, Inv, [Next]_vars PROVE Known'
  BY NextPreservesType DEF Inv, Known
<1>1. CASE Nightly
  <2>1. PICK interval \in Interval : Fetch(interval, Delta(interval), FALSE)
    BY <1>1 DEF Nightly
  <2> QED
    BY <2>1, FetchKeeps
<1>2. CASE SpotCheck
  <2>1. PICK interval \in Interval :
          \E records \in SUBSET Delta(interval) : Fetch(interval, records, TRUE)
    BY <1>2 DEF SpotCheck
  <2>2. PICK records \in SUBSET Delta(interval) : Fetch(interval, records, TRUE)
    BY <2>1
  <2> QED
    BY <2>2, FetchKeeps
<1>3. CASE Crash
  BY <1>3, StopKeeps DEF Crash
<1>4. CASE UNCHANGED vars
  <2>1. UNCHANGED <<gleif, changed, held, scope, last, loaded, dropped, job>>
    BY <1>4 DEF vars
  <2>2. Issues' /\ Base'
    BY <2>1 DEF Inv, Issues, Base, Ref, Reaching, Within, Here, Ends, Agrees
  <2>3. ImportKnows'
    BY <2>1 DEF Inv, ImportKnows, At, Here
  <2>4. UpdateKnows'
    BY <2>1 DEF Inv, UpdateKnows, Ref, Reaching, Within, Here, Ends, Agrees, At
  <2> QED
    BY <2>2, <2>3, <2>4 DEF Known
<1> QED
  BY <1>1, <1>2, <1>3, <1>4, PublishKeeps, StartImportKeeps, LoadEntitiesKeeps,
     LoadRelationshipsKeeps, NoMarkerKeeps, ApplyEntityKeeps, BadRecordKeeps,
     ReadRelationshipsKeeps, ApplyRelationshipKeeps, FinishKeeps
  DEF Next, Step

\* As long as no window is trusted with a longer gap than it reaches back, nothing
\* is missed: nights without an update, spot checks, runs that die between any two
\* of their steps, and publishes that come while one runs, change nothing of it.
THEOREM NothingIsMissed ==
  ASSUME WindowsReach
  PROVE  Spec => []NothingMissed
<1>1. Init => Inv
  BY InitTyped, InitKnows DEF Inv, Known
<1>2. Inv /\ [Next]_vars => Inv'
  BY NextPreservesInv
<1>3. Inv => NothingMissed
  <2>1. Inv /\ last < Far => last # NoPublish
    BY AgesAre
  <2> QED
    BY <2>1 DEF Inv, Base, NothingMissed, Ref, Reaching
<1> QED
  BY <1>1, <1>2, <1>3, PTL DEF Spec
=============================================================================
