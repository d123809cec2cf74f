-------------------------- MODULE SharedEdgeProofs --------------------------
(***************************************************************************)
(* What the four writers of one pair's OWNS edge keep, whatever each of    *)
(* them states and wherever a run dies, as long as they work one after     *)
(* another (Overlap = FALSE): the pair has one active edge, its answer     *)
(* moves only upwards, and - where GLEIF does not write too - an answer is *)
(* one source's.  Of GLEIF's two relationships, the one that is not        *)
(* retired goes on.                                                        *)
(***************************************************************************)
EXTENDS SharedEdge, FiniteSetTheorems, WellFoundedInduction, TLAPS

Job == [step : Steps, st : Statement, seen : Edge \cup {NoEdge}]

Busy(s) == job[s] # NoJob

\* The bookkeeping of the jobs: whose they are and what they may state.
Typed ==
  /\ TypeOK
  /\ job \in [Source -> Job \cup {NoJob}]
  /\ redo \in [Source -> SUBSET Statement]
  /\ \A s \in Source : Busy(s) \/ redo[s] # {} => s \in Writer
  /\ \A s \in Source : Busy(s) => redo[s] \subseteq {job[s].st}
  /\ \A s \in Source : \A a, b \in redo[s] : a = b
  /\ fold \subseteq Edges

\* One job at a time.
Alone ==
  /\ \A s, t \in Source : Busy(s) /\ Busy(t) => s = t
  /\ \A s \in Source : Busy(s) => fold = {}

\* Whose the step is, what it found, and what it found missing.
Found(s, st, step, seen) ==
  /\ step \in {"own", "share"} => s = "sec"
  /\ step = "confirm" => s = "wikidata"
  /\ step \in {"adopt", "takeover", "update", "claim"} => s = "psc"
  /\ step \in {"write", "retire", "close", "succeed"} => s = "gleif"
  /\ step \notin {"create", "adopt", "update", "retire"} => seen \in Edge
  /\ step = "create" => st.until # 0 \/ Open = {}
  /\ step = "own" => (st.until # 0 \/ seen.until = 0) /\ seen.by = "sec"
  /\ step \in {"share", "confirm", "claim", "takeover", "close"} => \E i \in Open : edge[i] = seen
  /\ step = "write" => \E i \in Edges : edge[i] = seen /\ (i \in Open \/ Own(i))
  /\ step = "close" => seen.also
  /\ step \in {"retire", "close", "succeed"} => st.until # 0
  /\ step = "succeed" => reopened = "yes" \/ Open = {}
  /\ s = "psc" /\ step \in {"create", "adopt", "takeover", "claim"} => Linked(st.link) = {}
  /\ step = "takeover" => Outranks("psc", st, seen)

\* It is still so when the step is taken.
Sees(s) == Busy(s) => Found(s, job[s].st, job[s].step, job[s].seen)

\* At most one edge is active.
OneOpen == reopened # "yes" => \A i, j \in Open : i = j

\* The PSC record about to set, or set again, the answer of an edge it took over.
Claiming == redo["psc"] \cup (IF At("psc", "update") THEN {job["psc"].st} ELSE {})

\* The answer of an active edge is its source's, but for one PSC took over.
Taken(e) ==
  /\ e.by = "psc"
  /\ e.link = "none" \/ \E st \in Claiming : st.link = e.link /\ Outranks("psc", st, e)
Settled ==
  reopened = "never" =>
    /\ \A i \in Open : edge[i].by = edge[i].score \/ Taken(edge[i])
    /\ At("gleif", "succeed") => job["gleif"].seen.by \in {job["gleif"].seen.score, "psc"}

\* Without GLEIF, so is every edge's, date and all, but for one PSC is taking over.
Half(e)  == e.by = "psc" /\ e.until = 0 /\ \E st \in Claiming : st.link = e.link
Whole(e) == e.by = e.score /\ e.dated = e.by
OneSource ==
  reopened = "never" /\ "gleif" \notin Writer =>
    \A i \in Edges : Whole(edge[i]) \/ Half(edge[i])

Inv == Typed /\ Alone /\ (\A s \in Source : Sees(s)) /\ OneOpen /\ Settled /\ OneSource

\* What a step may do to the answer of an edge that stays active.
Higher ==
  \A i \in Open :
    reopened = "never" /\ i \in Open' /\ edge'[i].score # edge[i].score =>
      Above(edge'[i].score, edge'[i].stake, edge[i].score, edge[i].stake)

-----------------------------------------------------------------------------
(* Starts *)

LEMMA Least ==
  ASSUME NEW D \in SUBSET Nat, D # {}
  PROVE  \E n \in D : \A m \in D : n <= m
<1> DEFINE R == {ss \in Nat \X Nat : ss[1] < ss[2]}
<1>1. IsWellFoundedOn(R, Nat)
  BY NatLessThanWellFounded DEF OpToRel
<1>2. \A n, m \in Nat : n < m => <<n, m>> \in R
  OBVIOUS
<1> HIDE DEF R
<1>3. PICK n \in D : \A m \in D : ~(<<m, n>> \in R)
  BY <1>1, WFMin
<1>4. ASSUME NEW m \in D PROVE n <= m
  <2>1. m \in Nat /\ n \in Nat /\ ~(<<m, n>> \in R)
    BY <1>3
  <2>2. ~(m < n)
    BY <1>2, <2>1
  <2> QED
    BY <2>1, <2>2
<1> QED
  BY <1>4

LEMMA Earliest ==
  ASSUME NEW C \in SUBSET Start, C # {}
  PROVE  \E c \in C : \A d \in C : c.day < d.day \/ (c.day = d.day /\ (d.bound \/ ~c.bound))
<1> DEFINE days == {c.day : c \in C}
<1>1. \A c \in C : c.day \in Nat
  BY DayAssumption DEF Start, Day
<1>2. days \in SUBSET Nat /\ days # {}
  BY <1>1
<1>3. PICK n \in days : \A m \in days : n <= m
  BY <1>2, Least
<1>4. \A d \in C : n <= d.day
  BY <1>3
<1>5. PICK c \in C : c.day = n
  BY <1>3
<1>6. n \in Nat
  BY <1>2, <1>3
<1> HIDE DEF days
<1>7. CASE \E b \in C : b.day = n /\ ~b.bound
  <2>1. PICK b \in C : b.day = n /\ ~b.bound
    BY <1>7
  <2>2. \A d \in C : b.day < d.day \/ (b.day = d.day /\ (d.bound \/ ~b.bound))
    BY <1>1, <1>4, <1>6, <2>1
  <2> QED
    BY <2>2
<1>8. CASE ~\E b \in C : b.day = n /\ ~b.bound
  <2>1. \A d \in C : c.day < d.day \/ (c.day = d.day /\ (d.bound \/ ~c.bound))
    BY <1>1, <1>4, <1>5, <1>6, <1>8
  <2> QED
    BY <2>1
<1> QED
  BY <1>7, <1>8

LEMMA NoStart == Unstarted \in Start /\ Unstarted.day = 0
BY DayAssumption DEF Unstarted, Start, Day

LEMMA CombineIsStart ==
  ASSUME NEW C \in SUBSET Start
  PROVE  Combine(C) \in Start
<1> DEFINE dated == {c \in C : c.day # 0}
<1>1. CASE dated = {}
  BY <1>1, NoStart DEF Combine
<1>2. CASE dated # {}
  <2>1. \E c \in dated : \A d \in dated : c.day < d.day \/ (c.day = d.day /\ (d.bound \/ ~c.bound))
    BY <1>2, Earliest
  <2>2. Combine(C) \in dated
    BY <1>2, <2>1 DEF Combine
  <2> QED
    BY <2>2
<1> QED
  BY <1>1, <1>2

-----------------------------------------------------------------------------
(* Edges *)

EdgeOk(e) == e \in Edge /\ (e.inferred => e.marker # "none")

\* What the state is made of.
LEMMA Types ==
  ASSUME Typed
  PROVE  /\ Edges \subseteq Slot /\ IsFiniteSet(Slot) /\ Slot \in SUBSET Nat
         /\ \A i \in Edges : EdgeOk(edge[i])
         /\ \A i \in Slot : i \notin Edges => edge[i] = NoEdge
         /\ \A s \in Source : Busy(s) =>
              /\ s \in Writer /\ job[s] \in Job
              /\ job[s].st \in Says(s) /\ job[s].st \in Statement /\ job[s].step \in Steps
              /\ redo[s] \subseteq {job[s].st}
         /\ DOMAIN edge = Slot /\ DOMAIN job = Source /\ DOMAIN redo = Source
         /\ Open \subseteq Edges /\ Ended \subseteq Edges /\ Open \cap Ended = {}
<1>1. Edges \subseteq Slot /\ IsFiniteSet(Slot) /\ Slot \in SUBSET Nat
  BY SlotAssumption DEF Edges
<1>2. \A i \in Edges : EdgeOk(edge[i])
  BY DEF Typed, TypeOK, Edges, EdgeOk
<1>3. \A s \in Source : Busy(s) =>
        /\ s \in Writer /\ job[s] \in Job
        /\ job[s].st \in Says(s) /\ job[s].st \in Statement /\ job[s].step \in Steps
        /\ redo[s] \subseteq {job[s].st}
  BY DEF Typed, TypeOK, Busy, Job
<1> QED
  BY <1>1, <1>2, <1>3 DEF Typed, TypeOK, Edges, Open, Ended

\* A set of slots with no more than one member.
LEMMA Few ==
  ASSUME NEW S \in SUBSET Slot
  PROVE  Cardinality(S) <= 1 <=> \A i, j \in S : i = j
<1>1. IsFiniteSet(S) /\ Cardinality(S) \in Nat
  BY SlotAssumption, FS_Subset, FS_CardinalityType
<1>2. ASSUME Cardinality(S) <= 1, NEW i \in S, NEW j \in S, i # j PROVE FALSE
  <2>1. {i, j} \subseteq S /\ IsFiniteSet({i}) /\ Cardinality({i}) = 1
    BY FS_Singleton
  <2>2. {i, j} = {i} \cup {j} /\ j \notin {i}
    BY <1>2
  <2>3. Cardinality({i, j}) = 2
    BY <2>1, <2>2, FS_AddElement
  <2> QED
    BY <1>1, <1>2, <2>1, <2>3, FS_Subset
<1>3. ASSUME \A i, j \in S : i = j PROVE Cardinality(S) <= 1
  <2>1. CASE S = {}
    BY <2>1, FS_EmptySet
  <2>2. CASE S # {}
    <3>1. PICK i \in S : S = {i}
      BY <1>3, <2>2
    <3> QED
      BY <3>1, FS_Singleton
  <2> QED
    BY <2>1, <2>2
<1> QED
  BY <1>2, <1>3

\* UPDATE, whatever it sets.
LEMMA Rewritten ==
  ASSUME Typed, OneOpen, NEW hit \in SUBSET Edges,
         edge' \in [Slot -> Edge \cup {NoEdge}],
         \A i \in Slot : i \notin hit => edge'[i] = edge[i],
         \A i \in hit : EdgeOk(edge'[i]),
         reopened' = IF /\ \E i \in hit \cap Ended : edge'[i].until = 0
                        /\ Open \ hit # {} \/ Cardinality(hit) > 1
                     THEN "yes" ELSE reopened
  PROVE  /\ Edges' = Edges /\ OneOpen' /\ reopened' \in {reopened, "yes"}
         /\ \A i \in Edges : EdgeOk(edge'[i])
         /\ \A i \in hit \cap Ended : reopened' # "yes" /\ i \in Open' => hit = {i} /\ Open = {}
         /\ \A i \in Edges : i \notin hit => edge'[i] = edge[i] /\ (i \in Open' <=> i \in Open)
<1>1. \A i \in hit : edge'[i] # NoEdge
  BY DEF EdgeOk, Edge, NoEdge, Source
<1>2. Edges' = Edges
  BY <1>1, Types DEF Edges
<1>3. \A i \in Edges : i \notin hit => edge'[i] = edge[i] /\ (i \in Open' <=> i \in Open)
  BY <1>2, Types DEF Open
<1>4. \A i \in Edges : EdgeOk(edge'[i])
  BY <1>3, Types
<1>5. \A i \in hit \cap Ended : reopened' # "yes" /\ i \in Open' => hit = {i} /\ Open = {}
  <2>1. SUFFICES ASSUME NEW i \in hit \cap Ended, reopened' # "yes", i \in Open'
                 PROVE  hit = {i} /\ Open = {}
    OBVIOUS
  <2>2. edge'[i].until = 0
    BY <2>1 DEF Open
  <2>3. Open \ hit = {} /\ ~(Cardinality(hit) > 1)
    BY <2>1, <2>2
  <2>4. hit \in SUBSET Slot /\ Cardinality(hit) \in Nat
    BY Types, FS_Subset, FS_CardinalityType
  <2>5. \A j, k \in hit : j = k
    BY <2>3, <2>4, Few
  <2> QED
    BY <2>3, <2>5, Types
<1>6. OneOpen'
  <2>1. SUFFICES ASSUME reopened' # "yes", NEW i \in Open', NEW j \in Open' PROVE i = j
    BY DEF OneOpen
  <2>2. reopened # "yes" /\ \A k, l \in Open : k = l
    BY <2>1 DEF OneOpen
  <2>3. i \in Edges /\ j \in Edges
    BY <1>2, <2>1 DEF Open
  <2>4. ASSUME NEW k \in Open', k \notin Open PROVE hit = {k} /\ Open = {}
    <3>1. k \in Edges /\ k \in hit
      BY <1>2, <1>3, <2>4 DEF Open
    <3>2. k \in Ended
      BY <2>4, <3>1 DEF Ended
    <3> QED
      BY <1>5, <2>1, <2>4, <3>1, <3>2
  <2> QED
    BY <1>3, <2>2, <2>3, <2>4
<1> QED
  BY <1>2, <1>3, <1>4, <1>5, <1>6


-----------------------------------------------------------------------------
(* Jobs *)

Records == [{"direct", "indirect"} -> [on : BOOLEAN, day : Day]]
Opened  == {"never", "yes", "cleaned"}

\* While one job is under way the others are not, nor is the clean-up.
LEMMA Others ==
  ASSUME Inv, NEW s \in Source, Busy(s)
  PROVE  /\ fold = {} /\ \A t \in Source \ {s} : ~Busy(t) /\ job[t] = NoJob
         /\ s # "psc" => Claiming = redo["psc"]
<1>1. fold = {} /\ \A t \in Source \ {s} : ~Busy(t) /\ job[t] = NoJob
  BY DEF Inv, Alone, Busy
<1>2. s # "psc" => ~At("psc", "update")
  BY <1>1 DEF At, Source
<1> QED
  BY <1>1, <1>2 DEF Claiming

\* A job's last statement.
LEMMA Finishes ==
  ASSUME Inv, NEW s \in Source, Busy(s), Finish(s),
         edge' \in [Slot -> Edge \cup {NoEdge}], \A i \in Edges' : EdgeOk(edge'[i]),
         rr' \in Records, reopened' \in Opened
  PROVE  /\ Typed' /\ Alone' /\ (\A t \in Source : Sees(t)')
         /\ ~At("gleif", "succeed")'
         /\ s # "psc" => Claiming' = Claiming
         /\ s = "psc" => Claiming' = {}
<1>1. Typed /\ fold = {} /\ fold' = {}
  BY Others DEF Inv, Finish
<1>2. \A t \in Source : job'[t] = NoJob /\ ~Busy(t)'
  BY <1>1, Others, Types DEF Finish, Busy
<1>3. \A t \in Source \ {s} : redo'[t] = redo[t]
  BY <1>1, Types DEF Finish
<1>4. redo'[s] = {} /\ redo' \in [Source -> SUBSET Statement] /\ job' \in [Source -> {NoJob}]
  BY <1>1, <1>2, Types DEF Typed, Finish
<1>5. \A i \in Slot : edge'[i] # NoEdge /\ edge'[i].inferred => edge'[i].marker # "none"
  BY DEF Edges, EdgeOk
<1>6. \A t \in Source : redo'[t] \subseteq Says(t) /\ Cardinality(redo'[t]) <= 1
  <2>1. Cardinality({}) = 0
    BY FS_EmptySet
  <2>2. \A t \in Source : redo[t] \subseteq Says(t) /\ Cardinality(redo[t]) <= 1
    BY <1>1 DEF Typed, TypeOK
  <2>3. Cardinality(redo'[s]) = 0 /\ redo'[s] \subseteq Says(s)
    BY <1>4, <2>1
  <2>4. Cardinality(redo'[s]) <= 1
    BY <2>3
  <2>5. \A t \in Source \ {s} : redo'[t] \subseteq Says(t) /\ Cardinality(redo'[t]) <= 1
    BY <1>3, <2>2
  <2> QED
    BY <2>3, <2>4, <2>5
<1>7. TypeOK'
  BY <1>1, <1>2, <1>5, <1>6 DEF Typed, TypeOK, Finish, Records, Opened
<1>8. \A t \in Source : redo'[t] # {} => t \in Writer
  BY <1>1, <1>3, <1>4 DEF Typed
<1>9. Typed'
  <2>1. \A t \in Source : \A a, b \in redo'[t] : a = b
    BY <1>1, <1>3, <1>4 DEF Typed
  <2> QED
    BY <1>1, <1>2, <1>4, <1>7, <1>8, <2>1 DEF Typed
<1>10. ~At("gleif", "succeed")' /\ ~At("psc", "update")'
  BY <1>2 DEF At, Source
<1>11. s # "psc" => Claiming' = Claiming
  BY <1>3, <1>10, Others DEF Claiming, Source
<1>12. s = "psc" => Claiming' = {}
  BY <1>4, <1>10 DEF Claiming
<1> QED
  BY <1>2, <1>9, <1>10, <1>11, <1>12 DEF Alone, Sees

\* A job that goes on to its next statement.
LEMMA GoesOn ==
  ASSUME Inv, NEW s \in Source, Busy(s), NEW step \in Steps, Then(s, step),
         edge' \in [Slot -> Edge \cup {NoEdge}], \A i \in Edges' : EdgeOk(edge'[i]),
         reopened' \in Opened, Found(s, job[s].st, step, job[s].seen)'
  PROVE  /\ Typed' /\ Alone' /\ (\A t \in Source : Sees(t)')
         /\ job'[s].st = job[s].st /\ job'[s].step = step /\ job'[s].seen = job[s].seen
         /\ \A t \in Source \ {s} : ~Busy(t)'
<1>1. Typed /\ fold = {} /\ fold' = {} /\ job[s] \in Job
  BY Others, Types DEF Inv, Then
<1> DEFINE next == [job[s] EXCEPT !.step = step]
<1>2. next \in Job /\ next.st = job[s].st /\ next.step = step /\ next.seen = job[s].seen
  BY <1>1 DEF Job
<1>3. next # NoJob
  BY <1>2 DEF Steps, NoJob
<1>4. job' = [job EXCEPT ![s] = next]
  BY <1>1 DEF Then, Typed
<1> HIDE DEF next
<1>5. job'[s] = next /\ \A t \in Source \ {s} : job'[t] = job[t]
  BY <1>1, <1>4, Types
<1>6. job' \in [Source -> Job \cup {NoJob}]
  BY <1>1, <1>2, <1>4 DEF Typed
<1>7. Busy(s)' /\ \A t \in Source \ {s} : ~Busy(t)' /\ job'[t] = NoJob
  BY <1>3, <1>5, Others DEF Busy
<1>8. \A i \in Slot : edge'[i] # NoEdge /\ edge'[i].inferred => edge'[i].marker # "none"
  BY DEF Edges, EdgeOk
<1>9. \A t \in Source : job'[t] = NoJob \/
        (/\ job'[t].step \in Steps /\ job'[t].st \in Says(t) /\ job'[t].seen \in Edge \cup {NoEdge})
  <2>1. job[s].st \in Says(s) /\ job[s].seen \in Edge \cup {NoEdge}
    BY <1>1, Types DEF Job
  <2> QED
    BY <1>2, <1>5, <1>7, <2>1
<1>10. TypeOK'
  BY <1>1, <1>8, <1>9 DEF Typed, TypeOK, Then, Opened
<1>11. Typed'
  <2>1. \A t \in Source : redo'[t] # {} => t \in Writer
    BY <1>1 DEF Typed, Then
  <2>2. s \in Writer /\ redo'[s] \subseteq {job'[s].st}
    BY <1>1, <1>2, <1>5, Types DEF Then
  <2> QED
    BY <1>1, <1>6, <1>7, <1>10, <2>1, <2>2 DEF Typed, Then
<1>12. Alone'
  BY <1>1, <1>7 DEF Alone
<1>13. \A t \in Source : Sees(t)'
  <2>1. Sees(s)'
    BY <1>2, <1>5 DEF Sees
  <2> QED
    BY <1>7, <2>1 DEF Sees
<1> QED
  BY <1>2, <1>5, <1>7, <1>11, <1>12, <1>13

\* A statement is taken up.
LEMMA TakesKeeps ==
  ASSUME Inv, Overlap = FALSE, NEW s \in Source, s \in Writer, NEW st \in Says(s),
         NEW step \in Steps, step # "succeed", NEW seen \in Edge \cup {NoEdge},
         Found(s, st, step, seen), Takes(s, st, step, seen)
  PROVE  Inv' /\ Higher
<1>1. /\ Typed /\ fold = {} /\ fold' = {} /\ \A t \in Source : job[t] = NoJob
      /\ UNCHANGED <<edge, fold, redo, rr, reopened, crashes>>
      /\ redo[s] = {} \/ st \in redo[s]
  BY DEF Inv, Takes
<1> DEFINE new == [step |-> step, st |-> st, seen |-> seen]
<1>2. st \in Statement
  BY WriterAssumption
<1>3. new \in Job /\ new # NoJob /\ new.st = st /\ new.step = step /\ new.seen = seen
  BY <1>2 DEF Job, NoJob, Steps
<1>4. job' = [job EXCEPT ![s] = new]
  BY DEF Takes
<1> HIDE DEF new
<1>5. job'[s] = new /\ Busy(s)' /\ \A t \in Source \ {s} : job'[t] = NoJob /\ ~Busy(t)'
  BY <1>1, <1>3, <1>4, Types DEF Busy
<1>6. job' \in [Source -> Job \cup {NoJob}]
  BY <1>1, <1>3, <1>4 DEF Typed
<1>7. TypeOK'
  <2>1. \A t \in Source : job'[t] = NoJob \/
          (/\ job'[t].step \in Steps /\ job'[t].st \in Says(t) /\ job'[t].seen \in Edge \cup {NoEdge})
    BY <1>3, <1>5
  <2>2. given' \in [Source -> SUBSET Start]
    BY <1>1, <1>2 DEF Typed, TypeOK, Takes, Statement
  <2>3. made' \in 0 .. MaxStatements
    BY <1>1, BoundAssumption DEF Typed, TypeOK, Takes
  <2> QED
    BY <1>1, <2>1, <2>2, <2>3 DEF Typed, TypeOK
<1>8. redo[s] \subseteq {st}
  BY <1>1 DEF Typed
<1>9. Typed'
  BY <1>1, <1>3, <1>5, <1>6, <1>7, <1>8 DEF Typed, Edges
<1>10. Alone'
  BY <1>1, <1>5 DEF Alone
<1>11. \A t \in Source : Sees(t)'
  <2>1. Found(s, st, step, seen)'
    BY <1>1 DEF Found, Open, Edges, Own, Linked, Outranks
  <2>2. Sees(s)'
    BY <1>3, <1>5, <2>1 DEF Sees
  <2> QED
    BY <1>5, <2>2 DEF Sees
<1>12. Claiming \subseteq Claiming'
  BY <1>1 DEF Claiming, At, Source
<1>13. ~At("gleif", "succeed")'
  BY <1>3, <1>5 DEF At, Source
<1>14. Open' = Open /\ Edges' = Edges
  BY <1>1 DEF Open, Edges
<1>15. OneOpen' /\ Settled' /\ OneSource'
  BY <1>1, <1>12, <1>13, <1>14
     DEF Inv, OneOpen, Settled, OneSource, Taken, Half, Whole, Outranks
<1>16. Higher
  BY <1>1 DEF Higher
<1> QED
  BY <1>9, <1>10, <1>11, <1>15, <1>16 DEF Inv


-----------------------------------------------------------------------------
(* What has to be shown of a step that ends a job *)

\* An active edge's answer is its source's still, or it was not touched.
LEMMA StillSettled ==
  ASSUME Inv, reopened' = "never" => reopened = "never", ~At("gleif", "succeed")',
         Claiming \subseteq Claiming',
         \A i \in Open' : reopened' = "never" =>
           \/ edge'[i].by = edge'[i].score
           \/ /\ i \in Open
              /\ edge'[i].by = edge[i].by /\ edge'[i].score = edge[i].score
              /\ edge'[i].stake = edge[i].stake /\ edge'[i].link = edge[i].link
  PROVE  Settled'
BY DEF Inv, Settled, Taken, Outranks

LEMMA StillOne ==
  ASSUME Inv, reopened' = "never" => reopened = "never", Claiming \subseteq Claiming',
         \A i \in Edges' : reopened' = "never" /\ "gleif" \notin Writer =>
           \/ Whole(edge'[i])
           \/ /\ i \in Edges /\ Half(edge[i])
              /\ edge'[i].by = edge[i].by /\ edge'[i].until = edge[i].until
              /\ edge'[i].link = edge[i].link
  PROVE  OneSource'
BY DEF OneSource, Half

\* What the invariant says of an edge.
LEMMA Known ==
  ASSUME Inv, reopened = "never"
  PROVE  /\ \A i, j \in Open : i = j
         /\ \A i \in Open : edge[i].by = edge[i].score \/ Taken(edge[i])
         /\ "gleif" \notin Writer => \A i \in Edges : Whole(edge[i]) \/ Half(edge[i])
BY DEF Inv, OneOpen, Settled, OneSource

\* An UPDATE that ends a job of a source other than PSC: what is left to show is what
\* it makes of the edges it hits.
LEMMA EndsWell ==
  ASSUME Inv, NEW s \in Source, s # "psc", Busy(s), Finish(s), NEW hit \in SUBSET Edges,
         edge' \in [Slot -> Edge \cup {NoEdge}],
         \A i \in Slot : i \notin hit => edge'[i] = edge[i],
         \A i \in hit : EdgeOk(edge'[i]),
         reopened' = IF /\ \E i \in hit \cap Ended : edge'[i].until = 0
                        /\ Open \ hit # {} \/ Cardinality(hit) > 1
                     THEN "yes" ELSE reopened,
         rr' \in Records,
         \A i \in hit : reopened = "never" /\ reopened' = "never" /\ i \in Open' =>
           \/ edge'[i].by = edge'[i].score
           \/ /\ i \in Open
              /\ edge'[i].by = edge[i].by /\ edge'[i].score = edge[i].score
              /\ edge'[i].stake = edge[i].stake /\ edge'[i].link = edge[i].link,
         \A i \in hit : reopened = "never" /\ "gleif" \notin Writer =>
           \/ Whole(edge'[i])
           \/ /\ Half(edge[i])
              /\ edge'[i].by = edge[i].by /\ edge'[i].until = edge[i].until
              /\ edge'[i].link = edge[i].link,
         \A i \in hit \cap Open :
           reopened = "never" /\ i \in Open' /\ edge'[i].score # edge[i].score =>
             Above(edge'[i].score, edge'[i].stake, edge[i].score, edge[i].stake)
  PROVE  Inv' /\ Higher
<1>1. Typed /\ OneOpen
  BY DEF Inv
<1>2. /\ Edges' = Edges /\ OneOpen' /\ reopened' \in {reopened, "yes"}
      /\ \A i \in Edges : EdgeOk(edge'[i])
      /\ \A i \in Edges : i \notin hit => edge'[i] = edge[i] /\ (i \in Open' <=> i \in Open)
  BY <1>1, Rewritten
<1>3. reopened' \in Opened /\ (reopened' = "never" => reopened = "never")
  BY <1>1, <1>2 DEF Typed, TypeOK, Opened
<1>4. /\ Typed' /\ Alone' /\ (\A t \in Source : Sees(t)')
      /\ ~At("gleif", "succeed")' /\ Claiming' = Claiming
  BY <1>2, <1>3, Finishes
<1>5. Settled'
  <2>1. ASSUME NEW i \in Open', reopened' = "never"
        PROVE  \/ edge'[i].by = edge'[i].score
               \/ /\ i \in Open
                  /\ edge'[i].by = edge[i].by /\ edge'[i].score = edge[i].score
                  /\ edge'[i].stake = edge[i].stake /\ edge'[i].link = edge[i].link
    <3>1. i \in Edges
      BY <1>2 DEF Open
    <3> QED
      BY <1>2, <1>3, <2>1, <3>1
  <2> QED
    BY <1>3, <1>4, <2>1, StillSettled
<1>6. OneSource'
  <2>1. ASSUME NEW i \in Edges, reopened' = "never", "gleif" \notin Writer
        PROVE  \/ Whole(edge'[i])
               \/ /\ i \in Edges /\ Half(edge[i])
                  /\ edge'[i].by = edge[i].by /\ edge'[i].until = edge[i].until
                  /\ edge'[i].link = edge[i].link
    <3>1. Whole(edge[i]) \/ Half(edge[i])
      BY <1>3, <2>1, Known
    <3> QED
      BY <1>2, <1>3, <2>1, <3>1
  <2> QED
    BY <1>2, <1>3, <1>4, <2>1, StillOne
<1>7. Higher
  BY <1>1, <1>2, Types DEF Higher
<1> QED
  BY <1>2, <1>4, <1>5, <1>6, <1>7 DEF Inv

-----------------------------------------------------------------------------
(* SEC *)

LEMMA SecUpdatesOwnKeeps == ASSUME Inv, SecUpdatesOwn PROVE Inv' /\ Higher
<1> DEFINE st == job["sec"].st
           seen == job["sec"].seen
           hit == {i \in Edges : /\ edge[i].by = "sec" /\ edge[i].until = seen.until
                                 /\ st.until = 0 \/ Begun(i, st.until)}
           Now(e) == Laid([e EXCEPT !.until = st.until, !.stake = st.stake, !.dated = "sec",
                                    !.start = Combine({seen.start, st.start})], st)
<1>1. /\ Typed /\ OneOpen /\ "sec" \in Source /\ Busy("sec") /\ st \in Statement /\ seen \in Edge
      /\ st.until # 0 \/ seen.until = 0
  <2>1. Typed /\ OneOpen /\ "sec" \in Source /\ Busy("sec") /\ job["sec"].step = "own"
    BY DEF Inv, SecUpdatesOwn, At, Source, Busy
  <2>2. Found("sec", st, "own", seen)
    BY <2>1 DEF Inv, Sees
  <2> QED
    BY <2>1, <2>2, Types DEF Found
<1>2. /\ edge' = [i \in Slot |-> IF i \in hit THEN Now(edge[i]) ELSE edge[i]]
      /\ reopened' = IF /\ \E i \in hit \cap Ended : Now(edge[i]).until = 0
                        /\ Open \ hit # {} \/ Cardinality(hit) > 1
                     THEN "yes" ELSE reopened
      /\ Finish("sec") /\ UNCHANGED rr
  BY DEF SecUpdatesOwn, Rewrite, Done
<1>3. hit \in SUBSET Edges /\ \A i \in hit : edge[i].by = "sec" /\ edge[i].until = seen.until
  OBVIOUS
<1>4. Combine({seen.start, st.start}) \in Start
  BY <1>1, CombineIsStart DEF Edge, Statement
<1>5. ASSUME NEW e, EdgeOk(e)
      PROVE  /\ EdgeOk(Now(e)) /\ Now(e).by = e.by /\ Now(e).score = e.score
             /\ Now(e).dated = "sec" /\ Now(e).until = st.until
  BY <1>1, <1>4, <1>5 DEF EdgeOk, Laid, Edge, Statement, Source
<1> HIDE DEF hit, Now
<1>6. /\ \A i \in hit : edge'[i] = Now(edge[i])
      /\ \A i \in Slot : i \notin hit => edge'[i] = edge[i]
      /\ edge' \in [Slot -> Edge \cup {NoEdge}]
      /\ \A i \in hit : EdgeOk(edge'[i])
  <2>1. hit \subseteq Slot /\ \A i \in hit : EdgeOk(Now(edge[i]))
    BY <1>1, <1>3, <1>5, Types
  <2> QED
    BY <1>1, <1>2, <2>1 DEF EdgeOk, Typed, TypeOK
<1>7. reopened' = IF /\ \E i \in hit \cap Ended : edge'[i].until = 0
                     /\ Open \ hit # {} \/ Cardinality(hit) > 1
                  THEN "yes" ELSE reopened
  BY <1>2, <1>6
<1>8. \A i \in hit : /\ edge'[i].by = "sec" /\ edge'[i].score = edge[i].score
                     /\ edge'[i].dated = "sec" /\ edge'[i].until = st.until
  BY <1>1, <1>3, <1>5, <1>6, Types
<1>9. ASSUME reopened = "never", NEW i \in hit, i \in Open' PROVE edge[i].score = "sec"
  <2>1. i \in Open
    BY <1>1, <1>3, <1>8, <1>9 DEF Open
  <2>2. ~Taken(edge[i])
    BY <1>3 DEF Taken
  <2> QED
    BY <1>3, <1>9, <2>1, <2>2, Known
<1>10. ASSUME reopened = "never", "gleif" \notin Writer, NEW i \in hit PROVE Whole(edge'[i])
  <2>1. Whole(edge[i])
    BY <1>3, <1>10, Known DEF Half
  <2> QED
    BY <1>3, <1>8, <2>1 DEF Whole
<1>11. rr' \in Records
  BY <1>1, <1>2 DEF Typed, TypeOK, Records
<1>12. \A i \in hit : reopened = "never" /\ i \in Open' => edge'[i].by = edge'[i].score
  BY <1>8, <1>9
<1>13. \A i \in hit : reopened = "never" /\ "gleif" \notin Writer => Whole(edge'[i])
  BY <1>10
<1>14. "sec" # "psc"
  OBVIOUS
<1>15. \A i \in hit : edge'[i].score = edge[i].score
  BY <1>8
<1> QED
  BY <1>1, <1>2, <1>3, <1>6, <1>7, <1>11, <1>12, <1>13, <1>14, <1>15, EndsWell


\* The edge a job looks at, once no other is active.
LEMMA Seen ==
  ASSUME Inv, NEW s \in Source, Busy(s),
         job[s].step \in {"share", "confirm", "claim", "takeover", "close"}
  PROVE  /\ job[s].seen \in Edge /\ EdgeOk(job[s].seen) /\ job[s].seen.until = 0
         /\ reopened # "yes" => \A i \in Open : edge[i] = job[s].seen
<1>1. PICK i \in Open : edge[i] = job[s].seen
  BY DEF Inv, Sees, Found
<1>2. EdgeOk(edge[i]) /\ edge[i].until = 0
  BY Types DEF Inv, Open
<1>3. reopened # "yes" => \A j \in Open : edge[j] = job[s].seen
  BY <1>1 DEF Inv, OneOpen
<1> QED
  BY <1>1, <1>2, <1>3 DEF EdgeOk

LEMMA SecSharesKeeps == ASSUME Inv, SecShares PROVE Inv' /\ Higher
<1> DEFINE st == job["sec"].st
           seen == job["sec"].seen
           Marked(e) == IF seen.marker = "none" \/ seen.inferred
                        THEN [e EXCEPT !.marker = IF st.marker = "none" THEN @ ELSE st.marker,
                                       !.inferred = @ \/ st.marker # "none"]
                        ELSE e
           Now(e) == LET a == IF Outranks("sec", st, seen) THEN Answered("sec", st, e) ELSE e
                     IN  Marked([a EXCEPT !.start = Combine({seen.start, st.start})])
<1>1. Typed /\ "sec" \in Source /\ Busy("sec") /\ st \in Statement /\ job["sec"].step = "share"
  BY Types DEF Inv, SecShares, At, Source, Busy
<1>2. seen \in Edge /\ (reopened = "never" => \A i \in Open : edge[i] = seen)
  BY <1>1, Seen
<1>3. /\ edge' = [i \in Slot |-> IF i \in Open THEN Now(edge[i]) ELSE edge[i]]
      /\ reopened' = IF /\ \E i \in Open \cap Ended : Now(edge[i]).until = 0
                        /\ Open \ Open # {} \/ Cardinality(Open) > 1
                     THEN "yes" ELSE reopened
      /\ Finish("sec") /\ UNCHANGED rr
  BY DEF SecShares, Rewrite, Done
<1>4. Combine({seen.start, st.start}) \in Start
  BY <1>1, <1>2, CombineIsStart DEF Edge, Statement
<1>5. ASSUME NEW e, EdgeOk(e)
      PROVE  /\ EdgeOk(Now(e)) /\ Now(e).link = e.link
             /\ Outranks("sec", st, seen) =>
                  Now(e).by = "sec" /\ Now(e).score = "sec" /\ Now(e).dated = "sec"
                  /\ Now(e).stake = st.stake
             /\ ~Outranks("sec", st, seen) =>
                  Now(e).by = e.by /\ Now(e).score = e.score /\ Now(e).dated = e.dated
                  /\ Now(e).stake = e.stake /\ Now(e).until = e.until
  <2> DEFINE a == IF Outranks("sec", st, seen) THEN Answered("sec", st, e) ELSE e
             b == [a EXCEPT !.start = Combine({seen.start, st.start})]
  <2>1. /\ EdgeOk(a) /\ a.link = e.link
        /\ Outranks("sec", st, seen) =>
             a.by = "sec" /\ a.score = "sec" /\ a.dated = "sec" /\ a.stake = st.stake
        /\ ~Outranks("sec", st, seen) => a = e
    BY <1>1, <1>5 DEF Answered, EdgeOk, Edge, Statement, Source
  <2> HIDE DEF a
  <2>2. /\ EdgeOk(b) /\ b.link = a.link /\ b.by = a.by /\ b.score = a.score /\ b.dated = a.dated
        /\ b.stake = a.stake /\ b.until = a.until
    BY <1>4, <2>1 DEF EdgeOk, Edge
  <2> HIDE DEF b
  <2>3. /\ EdgeOk(Marked(b)) /\ Marked(b).link = b.link /\ Marked(b).by = b.by
        /\ Marked(b).score = b.score /\ Marked(b).dated = b.dated
        /\ Marked(b).stake = b.stake /\ Marked(b).until = b.until
    BY <1>1, <2>2 DEF EdgeOk, Edge, Statement
  <2>4. Now(e) = Marked(b)
    BY DEF a, b
  <2> HIDE DEF Now, Marked
  <2> QED
    BY <2>1, <2>2, <2>3, <2>4
<1> HIDE DEF Now
<1>6. /\ Open \in SUBSET Edges /\ \A i \in Open : edge'[i] = Now(edge[i])
      /\ \A i \in Slot : i \notin Open => edge'[i] = edge[i]
      /\ edge' \in [Slot -> Edge \cup {NoEdge}]
      /\ \A i \in Open : EdgeOk(edge'[i])
  <2>1. Open \subseteq Slot /\ Open \in SUBSET Edges /\ \A i \in Open : EdgeOk(Now(edge[i]))
    BY <1>1, <1>5, Types
  <2> QED
    BY <1>1, <1>3, <2>1 DEF EdgeOk, Typed, TypeOK
<1>7. reopened' = IF /\ \E i \in Open \cap Ended : edge'[i].until = 0
                     /\ Open \ Open # {} \/ Cardinality(Open) > 1
                  THEN "yes" ELSE reopened
  BY <1>3, <1>6
<1>8. rr' \in Records
  BY <1>1, <1>3 DEF Typed, TypeOK, Records
<1>9. \A i \in Open :
        /\ edge'[i].link = edge[i].link
        /\ Outranks("sec", st, seen) =>
             edge'[i].by = "sec" /\ edge'[i].score = "sec" /\ edge'[i].dated = "sec"
             /\ edge'[i].stake = st.stake
        /\ ~Outranks("sec", st, seen) =>
             edge'[i].by = edge[i].by /\ edge'[i].score = edge[i].score
             /\ edge'[i].dated = edge[i].dated /\ edge'[i].stake = edge[i].stake
             /\ edge'[i].until = edge[i].until
  BY <1>1, <1>5, <1>6, Types
<1> HIDE DEF st, seen
<1>10. \A i \in Open : reopened = "never" /\ reopened' = "never" /\ i \in Open' =>
         \/ edge'[i].by = edge'[i].score
         \/ /\ i \in Open
            /\ edge'[i].by = edge[i].by /\ edge'[i].score = edge[i].score
            /\ edge'[i].stake = edge[i].stake /\ edge'[i].link = edge[i].link
  BY <1>9
<1>11. \A i \in Open : reopened = "never" /\ "gleif" \notin Writer =>
         \/ Whole(edge'[i])
         \/ /\ Half(edge[i])
            /\ edge'[i].by = edge[i].by /\ edge'[i].until = edge[i].until
            /\ edge'[i].link = edge[i].link
  BY <1>6, <1>9, Known DEF Whole
<1>12. \A i \in Open \cap Open :
         reopened = "never" /\ i \in Open' /\ edge'[i].score # edge[i].score =>
           Above(edge'[i].score, edge'[i].stake, edge[i].score, edge[i].stake)
  BY <1>2, <1>9 DEF Outranks
<1>13. "sec" # "psc"
  OBVIOUS
<1> QED
  BY <1>1, <1>3, <1>6, <1>7, <1>8, <1>10, <1>11, <1>12, <1>13, EndsWell

LEMMA WikidataConfirmsKeeps == ASSUME Inv, WikidataConfirms PROVE Inv' /\ Higher
<1> DEFINE st == job["wikidata"].st
           seen == job["wikidata"].seen
           start == Combine({seen.start, st.start})
           Now(e) == [e EXCEPT !.dated = IF @ = "none" THEN "wikidata" ELSE @,
                               !.start = IF start = seen.start THEN @ ELSE start]
<1>1. /\ Typed /\ "wikidata" \in Source /\ Busy("wikidata") /\ st \in Statement
      /\ job["wikidata"].step = "confirm"
  BY Types DEF Inv, WikidataConfirms, At, Source, Busy
<1>2. seen \in Edge
  BY <1>1, Seen
<1>3. /\ edge' = [i \in Slot |-> IF i \in Open THEN Now(edge[i]) ELSE edge[i]]
      /\ reopened' = IF /\ \E i \in Open \cap Ended : Now(edge[i]).until = 0
                        /\ Open \ Open # {} \/ Cardinality(Open) > 1
                     THEN "yes" ELSE reopened
      /\ Finish("wikidata") /\ UNCHANGED rr
  BY DEF WikidataConfirms, Rewrite, Done
<1>4. start \in Start
  BY <1>1, <1>2, CombineIsStart DEF Edge, Statement
<1> HIDE DEF start
<1>5. ASSUME NEW e, EdgeOk(e)
      PROVE  /\ EdgeOk(Now(e)) /\ Now(e).link = e.link /\ Now(e).by = e.by
             /\ Now(e).score = e.score /\ Now(e).stake = e.stake /\ Now(e).until = e.until
             /\ e.dated # "none" => Now(e).dated = e.dated
  BY <1>4, <1>5 DEF EdgeOk, Edge, Source
<1> HIDE DEF Now
<1>6. /\ Open \in SUBSET Edges /\ \A i \in Open : edge'[i] = Now(edge[i])
      /\ \A i \in Slot : i \notin Open => edge'[i] = edge[i]
      /\ edge' \in [Slot -> Edge \cup {NoEdge}]
      /\ \A i \in Open : EdgeOk(edge'[i])
  <2>1. Open \subseteq Slot /\ Open \in SUBSET Edges /\ \A i \in Open : EdgeOk(Now(edge[i]))
    BY <1>1, <1>5, Types
  <2> QED
    BY <1>1, <1>3, <2>1 DEF EdgeOk, Typed, TypeOK
<1>7. reopened' = IF /\ \E i \in Open \cap Ended : edge'[i].until = 0
                     /\ Open \ Open # {} \/ Cardinality(Open) > 1
                  THEN "yes" ELSE reopened
  BY <1>3, <1>6
<1>8. rr' \in Records
  BY <1>1, <1>3 DEF Typed, TypeOK, Records
<1>9. \A i \in Open :
        /\ edge'[i].link = edge[i].link /\ edge'[i].by = edge[i].by
        /\ edge'[i].score = edge[i].score /\ edge'[i].stake = edge[i].stake
        /\ edge'[i].until = edge[i].until
        /\ edge[i].dated # "none" => edge'[i].dated = edge[i].dated
  BY <1>1, <1>5, <1>6, Types
<1>10. \A i \in Open : reopened = "never" /\ "gleif" \notin Writer =>
         \/ Whole(edge'[i])
         \/ /\ Half(edge[i])
            /\ edge'[i].by = edge[i].by /\ edge'[i].until = edge[i].until
            /\ edge'[i].link = edge[i].link
  <2>1. \A i \in Open : edge[i].by # "none"
    BY <1>1, Types DEF EdgeOk, Edge, Source
  <2> QED
    BY <1>6, <1>9, <2>1, Known DEF Whole
<1>11. "wikidata" # "psc"
  OBVIOUS
<1> QED
  BY <1>1, <1>3, <1>6, <1>7, <1>8, <1>9, <1>10, <1>11, EndsWell


-----------------------------------------------------------------------------
(* New edges *)

\* CREATE.
LEMMA Drawn ==
  ASSUME Typed, NEW e, EdgeOk(e), Draw(e)
  PROVE  \E k \in Slot \ Edges :
           /\ edge'[k] = e /\ \A i \in Slot \ {k} : edge'[i] = edge[i]
           /\ edge' \in [Slot -> Edge \cup {NoEdge}]
           /\ Edges' = Edges \cup {k} /\ reopened' = reopened
           /\ Open' = Open \cup (IF e.until = 0 THEN {k} ELSE {})
           /\ \A i \in Edges' : EdgeOk(edge'[i])
<1> DEFINE free == Slot \ Edges
           k == CHOOSE i \in free : \A j \in free : i <= j
<1>1. free # {} /\ free \in SUBSET Nat
  BY Types DEF Draw
<1>2. k \in free
  <2>1. \E i \in free : \A j \in free : i <= j
    BY <1>1, Least
  <2> QED
    BY <2>1
<1>3. edge' = [edge EXCEPT ![k] = e] /\ reopened' = reopened
  BY DEF Draw
<1> HIDE DEF k
<1>4. /\ edge'[k] = e /\ \A i \in Slot \ {k} : edge'[i] = edge[i]
      /\ edge' \in [Slot -> Edge \cup {NoEdge}]
  BY <1>2, <1>3 DEF Typed, TypeOK, EdgeOk
<1>5. e # NoEdge
  BY DEF EdgeOk, Edge, NoEdge, Source
<1>6. Edges' = Edges \cup {k}
  BY <1>2, <1>4, <1>5 DEF Edges
<1>7. Open' = Open \cup (IF e.until = 0 THEN {k} ELSE {})
  <2>1. Open' = {i \in Edges \cup {k} : edge'[i].until = 0}
    BY <1>6 DEF Open
  <2>2. \A i \in Edges : i # k /\ edge'[i] = edge[i]
    BY <1>2, <1>4, Types
  <2> QED
    BY <1>4, <2>1, <2>2 DEF Open
<1>8. \A i \in Edges' : EdgeOk(edge'[i])
  BY <1>4, <1>6, Types
<1> QED
  BY <1>2, <1>3, <1>4, <1>6, <1>7, <1>8

\* Where PSC found no edge with the record's link, it has taken none over for it.
LEMMA NoneTaken ==
  ASSUME Inv, Busy("psc"), job["psc"].step \in {"create", "adopt", "takeover", "claim"},
         reopened = "never"
  PROVE  /\ \A i \in Edges : edge[i].link # job["psc"].st.link
         /\ Claiming \subseteq {job["psc"].st}
         /\ \A i \in Open : edge[i].by = edge[i].score \/ (edge[i].by = "psc" /\ edge[i].link = "none")
         /\ "gleif" \notin Writer => \A i \in Edges : Whole(edge[i])
<1>1. "psc" \in Source /\ Linked(job["psc"].st.link) = {}
  BY DEF Inv, Sees, Found, Source
<1>2. \A i \in Edges : edge[i].link # job["psc"].st.link
  BY <1>1 DEF Linked
<1>3. Claiming \subseteq {job["psc"].st}
  BY <1>1, Types DEF Inv, Claiming, At
<1>4. \A i \in Open : edge[i].by = edge[i].score \/ (edge[i].by = "psc" /\ edge[i].link = "none")
  BY <1>2, <1>3, Known, Types DEF Taken, Inv
<1>5. "gleif" \notin Writer => \A i \in Edges : Whole(edge[i])
  BY <1>2, <1>3, Known DEF Half
<1> QED
  BY <1>2, <1>3, <1>4, <1>5

LEMMA FreshOk ==
  ASSUME NEW s \in Source, NEW st \in Statement
  PROVE  /\ EdgeOk(Fresh(s, st)) /\ Whole(Fresh(s, st)) /\ Fresh(s, st).until = st.until
<1> DEFINE drawn == s = "sec" /\ st.marker # "none"
           no    == FALSE
<1>1. drawn \in BOOLEAN /\ no \in BOOLEAN /\ 0 \in Day
  BY DayAssumption DEF Day
<1>2. Fresh(s, st) = [by |-> s, score |-> s, dated |-> s, stake |-> st.stake, start |-> st.start,
                      until |-> st.until, marker |-> st.marker, inferred |-> drawn, also |-> no,
                      ultimate |-> 0, link |-> st.link]
  BY DEF Fresh
<1>3. drawn => st.marker # "none"
  OBVIOUS
<1> HIDE DEF drawn, no
<1> QED
  BY <1>1, <1>2, <1>3 DEF EdgeOk, Edge, Statement, Whole

\* A job that draws an edge of its own ends with it.
LEMMA CreateKeeps ==
  ASSUME Inv, NEW s \in Source, At(s, "create"), Draw(Fresh(s, job[s].st)), Finish(s),
         rr' \in Records
  PROVE  Inv' /\ Higher
<1> DEFINE st == job[s].st
           e == Fresh(s, st)
<1>1. Typed /\ Busy(s) /\ st \in Statement /\ (st.until # 0 \/ Open = {})
  BY Types DEF Inv, At, Busy, Sees, Found
<1>2. EdgeOk(e) /\ Whole(e) /\ e.until = st.until
  BY <1>1, FreshOk
<1> HIDE DEF st
<1>3. PICK k \in Slot \ Edges :
        /\ edge'[k] = e /\ \A i \in Slot \ {k} : edge'[i] = edge[i]
        /\ edge' \in [Slot -> Edge \cup {NoEdge}]
        /\ Edges' = Edges \cup {k} /\ reopened' = reopened
        /\ Open' = Open \cup (IF e.until = 0 THEN {k} ELSE {})
        /\ \A i \in Edges' : EdgeOk(edge'[i])
  BY <1>1, <1>2, Drawn DEF st
<1> HIDE DEF e
<1>4. \A i \in Edges : i # k /\ edge'[i] = edge[i]
  BY <1>1, <1>3, Types
<1>5. reopened' \in Opened
  BY <1>1, <1>3 DEF Typed, TypeOK, Opened
<1>6. /\ Typed' /\ Alone' /\ (\A t \in Source : Sees(t)')
      /\ ~At("gleif", "succeed")'
      /\ s # "psc" => Claiming' = Claiming
      /\ s = "psc" => Claiming' = {}
  BY <1>1, <1>3, <1>5, Finishes
<1>7. OneOpen'
  BY <1>1, <1>2, <1>3 DEF Inv, OneOpen
<1>8. Settled' /\ OneSource'
  <2>1. CASE s # "psc"
    <3>1. Settled'
      BY <1>2, <1>3, <1>4, <1>6, <2>1, StillSettled, Types DEF Inv, Whole
    <3>2. OneSource'
      <4>1. ASSUME NEW i \in Edges', reopened' = "never", "gleif" \notin Writer
            PROVE  \/ Whole(edge'[i])
                   \/ /\ i \in Edges /\ Half(edge[i])
                      /\ edge'[i].by = edge[i].by /\ edge'[i].until = edge[i].until
                      /\ edge'[i].link = edge[i].link
        BY <1>2, <1>3, <1>4, <4>1, Known
      <4> QED
        BY <1>3, <1>6, <2>1, <4>1, StillOne
    <3> QED
      BY <3>1, <3>2
  <2>2. CASE s = "psc"
    <3>1. ASSUME reopened = "never"
          PROVE  /\ \A i \in Open : edge[i].by = edge[i].score \/ (edge[i].by = "psc" /\ edge[i].link = "none")
                 /\ "gleif" \notin Writer => \A i \in Edges : Whole(edge[i])
      BY <1>1, <2>2, <3>1, NoneTaken DEF At
    <3>2. Settled'
      BY <1>1, <1>2, <1>3, <1>4, <1>6, <3>1, Types DEF Settled, Taken, Whole
    <3>3. OneSource'
      BY <1>2, <1>3, <1>4, <3>1 DEF OneSource
    <3> QED
      BY <3>2, <3>3
  <2> QED
    BY <2>1, <2>2
<1>9. Higher
  BY <1>1, <1>4, Types DEF Higher
<1> QED
  BY <1>6, <1>7, <1>8, <1>9 DEF Inv

LEMMA CreatesKeeps == ASSUME Inv, NEW s \in Source, Creates(s) PROVE Inv' /\ Higher
<1>1. rr' \in Records
  BY DEF Creates, Done, Inv, Typed, TypeOK, Records
<1> QED
  BY <1>1, CreateKeeps DEF Creates, Done


-----------------------------------------------------------------------------
(* PSC *)

\* An UPDATE that ends PSC's job leaves no edge taken over but not answered.
LEMMA PscEndsWell ==
  ASSUME Inv, Busy("psc"), Finish("psc"), NEW hit \in SUBSET Edges,
         edge' \in [Slot -> Edge \cup {NoEdge}],
         \A i \in Slot : i \notin hit => edge'[i] = edge[i],
         \A i \in hit : EdgeOk(edge'[i]),
         reopened' = IF /\ \E i \in hit \cap Ended : edge'[i].until = 0
                        /\ Open \ hit # {} \/ Cardinality(hit) > 1
                     THEN "yes" ELSE reopened,
         rr' \in Records,
         \A i \in hit : reopened = "never" /\ i \in Open' =>
           edge'[i].by = edge'[i].score \/ (edge'[i].by = "psc" /\ edge'[i].link = "none"),
         \A i \in Open \ hit : reopened = "never" =>
           edge[i].by = edge[i].score \/ (edge[i].by = "psc" /\ edge[i].link = "none"),
         \A i \in hit : reopened = "never" /\ "gleif" \notin Writer => Whole(edge'[i]),
         \A i \in Edges \ hit : reopened = "never" /\ "gleif" \notin Writer => Whole(edge[i]),
         \A i \in hit \cap Open :
           reopened = "never" /\ i \in Open' /\ edge'[i].score # edge[i].score =>
             Above(edge'[i].score, edge'[i].stake, edge[i].score, edge[i].stake)
  PROVE  Inv' /\ Higher
<1>1. Typed /\ OneOpen /\ "psc" \in Source
  BY DEF Inv, Source
<1>2. /\ Edges' = Edges /\ OneOpen' /\ reopened' \in {reopened, "yes"}
      /\ \A i \in Edges : EdgeOk(edge'[i])
      /\ \A i \in Edges : i \notin hit => edge'[i] = edge[i] /\ (i \in Open' <=> i \in Open)
  BY <1>1, Rewritten
<1>3. reopened' \in Opened /\ (reopened' = "never" => reopened = "never")
  BY <1>1, <1>2 DEF Typed, TypeOK, Opened
<1>4. /\ Typed' /\ Alone' /\ (\A t \in Source : Sees(t)')
      /\ ~At("gleif", "succeed")' /\ Claiming' = {}
  BY <1>1, <1>2, <1>3, Finishes
<1>5. Settled'
  <2>1. ASSUME NEW i \in Open', reopened' = "never"
        PROVE  edge'[i].by = edge'[i].score \/ (edge'[i].by = "psc" /\ edge'[i].link = "none")
    <3>1. i \in Edges
      BY <1>2 DEF Open
    <3> QED
      BY <1>2, <1>3, <2>1, <3>1
  <2> QED
    BY <1>4, <2>1 DEF Settled, Taken
<1>6. OneSource'
  BY <1>2, <1>3 DEF OneSource
<1>7. Higher
  BY <1>1, <1>2, Types DEF Higher
<1> QED
  BY <1>2, <1>4, <1>5, <1>6, <1>7 DEF Inv

LEMMA PscStartIsStart ==
  ASSUME NEW held \in Start, NEW new \in Start
  PROVE  PscStart(held, new) \in Start
BY DEF PscStart

LEMMA PscUpdatesKeeps == ASSUME Inv, PscUpdates PROVE Inv' /\ Higher
<1> DEFINE st == job["psc"].st
           hit == {i \in Linked(st.link) : edge[i].by = "psc"}
           Now(e) == [Answered("psc", st, e) EXCEPT !.start = PscStart(e.start, st.start)]
<1>1. /\ Typed /\ "psc" \in Source /\ Busy("psc") /\ st \in Statement /\ At("psc", "update")
      /\ st \in Says("psc") /\ "psc" \in Writer
  BY Types DEF Inv, PscUpdates, At, Source, Busy
<1>2. /\ edge' = [i \in Slot |-> IF i \in hit THEN Now(edge[i]) ELSE edge[i]]
      /\ reopened' = IF /\ \E i \in hit \cap Ended : Now(edge[i]).until = 0
                        /\ Open \ hit # {} \/ Cardinality(hit) > 1
                     THEN "yes" ELSE reopened
      /\ Finish("psc") /\ UNCHANGED rr
  BY DEF PscUpdates, Rewrite, Done
<1>3. /\ hit \in SUBSET Edges /\ \A i \in hit : edge[i].by = "psc" /\ edge[i].link = st.link
      /\ \A i \in Edges \ hit : edge[i].by # "psc" \/ edge[i].link # st.link
  BY DEF Linked
<1>4. ASSUME NEW e, EdgeOk(e)
      PROVE  /\ EdgeOk(Now(e)) /\ Whole(Now(e))
             /\ Now(e).score = "psc" /\ Now(e).stake = st.stake
  <2>1. PscStart(e.start, st.start) \in Start
    BY <1>1, <1>4, PscStartIsStart DEF EdgeOk, Edge, Statement
  <2> QED
    BY <1>1, <1>4, <2>1 DEF EdgeOk, Edge, Statement, Source, Answered, Whole
<1> HIDE DEF hit, Now
<1>5. /\ \A i \in hit : edge'[i] = Now(edge[i])
      /\ \A i \in Slot : i \notin hit => edge'[i] = edge[i]
      /\ edge' \in [Slot -> Edge \cup {NoEdge}]
      /\ \A i \in hit : EdgeOk(edge'[i])
  <2>1. hit \subseteq Slot /\ \A i \in hit : EdgeOk(Now(edge[i]))
    BY <1>1, <1>3, <1>4, Types
  <2> QED
    BY <1>1, <1>2, <2>1 DEF EdgeOk, Typed, TypeOK
<1>6. reopened' = IF /\ \E i \in hit \cap Ended : edge'[i].until = 0
                     /\ Open \ hit # {} \/ Cardinality(hit) > 1
                  THEN "yes" ELSE reopened
  BY <1>2, <1>5
<1>7. rr' \in Records
  BY <1>1, <1>2 DEF Typed, TypeOK, Records
<1>8. \A i \in hit : Whole(edge'[i]) /\ edge'[i].score = "psc" /\ edge'[i].stake = st.stake
  BY <1>1, <1>3, <1>4, <1>5, Types
<1>9. Claiming = {st} /\ st.link # "none"
  BY <1>1, Types, StatementAssumption DEF Claiming
<1>10. \A i \in Open \ hit : reopened = "never" =>
         edge[i].by = edge[i].score \/ (edge[i].by = "psc" /\ edge[i].link = "none")
  BY <1>1, <1>3, <1>9, Known, Types DEF Taken
<1>11. \A i \in Edges \ hit : reopened = "never" /\ "gleif" \notin Writer => Whole(edge[i])
  BY <1>3, <1>9, Known DEF Half
<1>12. \A i \in hit \cap Open :
         reopened = "never" /\ i \in Open' /\ edge'[i].score # edge[i].score =>
           Above(edge'[i].score, edge'[i].stake, edge[i].score, edge[i].stake)
  <2>1. SUFFICES ASSUME NEW i \in hit \cap Open, reopened = "never", edge'[i].score # edge[i].score
                 PROVE  Above(edge'[i].score, edge'[i].stake, edge[i].score, edge[i].stake)
    OBVIOUS
  <2>2. edge[i].by # edge[i].score
    BY <1>3, <1>8, <2>1
  <2>3. Outranks("psc", st, edge[i])
    BY <1>3, <1>9, <2>1, <2>2, Known DEF Taken
  <2> QED
    BY <1>8, <2>1, <2>3 DEF Outranks
<1>13. \A i \in hit : edge'[i].by = edge'[i].score
  BY <1>8 DEF Whole
<1> QED
  BY <1>1, <1>2, <1>3, <1>5, <1>6, <1>7, <1>8, <1>10, <1>11, <1>12, <1>13, PscEndsWell

LEMMA PscClaimsKeeps == ASSUME Inv, PscClaims PROVE Inv' /\ Higher
<1> DEFINE st == job["psc"].st
           seen == job["psc"].seen
           start == Combine({seen.start, st.start})
           Now(e) == [e EXCEPT !.start = IF start.day = seen.start.day THEN @ ELSE start]
<1>1. Typed /\ "psc" \in Source /\ Busy("psc") /\ st \in Statement /\ job["psc"].step = "claim"
  BY Types DEF Inv, PscClaims, At, Source, Busy
<1>2. seen \in Edge
  BY <1>1, Seen
<1>3. /\ edge' = [i \in Slot |-> IF i \in Open THEN Now(edge[i]) ELSE edge[i]]
      /\ reopened' = IF /\ \E i \in Open \cap Ended : Now(edge[i]).until = 0
                        /\ Open \ Open # {} \/ Cardinality(Open) > 1
                     THEN "yes" ELSE reopened
      /\ Finish("psc") /\ UNCHANGED rr
  BY DEF PscClaims, Rewrite, Done
<1>4. start \in Start
  BY <1>1, <1>2, CombineIsStart DEF Edge, Statement
<1> HIDE DEF start
<1>5. ASSUME NEW e, EdgeOk(e)
      PROVE  /\ EdgeOk(Now(e)) /\ Now(e).link = e.link /\ Now(e).by = e.by
             /\ Now(e).score = e.score /\ Now(e).dated = e.dated
  BY <1>4, <1>5 DEF EdgeOk, Edge
<1> HIDE DEF Now
<1>6. /\ Open \in SUBSET Edges /\ \A i \in Open : edge'[i] = Now(edge[i])
      /\ \A i \in Slot : i \notin Open => edge'[i] = edge[i]
      /\ edge' \in [Slot -> Edge \cup {NoEdge}]
      /\ \A i \in Open : EdgeOk(edge'[i])
  <2>1. Open \subseteq Slot /\ Open \in SUBSET Edges /\ \A i \in Open : EdgeOk(Now(edge[i]))
    BY <1>1, <1>5, Types
  <2> QED
    BY <1>1, <1>3, <2>1 DEF EdgeOk, Typed, TypeOK
<1>7. reopened' = IF /\ \E i \in Open \cap Ended : edge'[i].until = 0
                     /\ Open \ Open # {} \/ Cardinality(Open) > 1
                  THEN "yes" ELSE reopened
  BY <1>3, <1>6
<1>8. rr' \in Records
  BY <1>1, <1>3 DEF Typed, TypeOK, Records
<1>9. \A i \in Open :
        /\ edge'[i].link = edge[i].link /\ edge'[i].by = edge[i].by
        /\ edge'[i].score = edge[i].score /\ edge'[i].dated = edge[i].dated
  BY <1>1, <1>5, <1>6, Types
<1>10. \A i \in Open : reopened = "never" =>
         edge'[i].by = edge'[i].score \/ (edge'[i].by = "psc" /\ edge'[i].link = "none")
  BY <1>1, <1>9, NoneTaken
<1>11. \A i \in Edges : reopened = "never" /\ "gleif" \notin Writer => Whole(edge[i])
  BY <1>1, NoneTaken
<1>12. \A i \in Open : reopened = "never" /\ "gleif" \notin Writer => Whole(edge'[i])
  BY <1>6, <1>9, <1>11 DEF Whole
<1> QED
  BY <1>1, <1>3, <1>6, <1>7, <1>8, <1>9, <1>10, <1>11, <1>12, PscEndsWell


\* PSC goes on to its update with the link in place.
LEMMA PscGoesOn ==
  ASSUME Inv, Busy("psc"), Then("psc", "update"), NEW hit \in SUBSET Open,
         job["psc"].step \in {"adopt", "takeover"},
         edge' \in [Slot -> Edge \cup {NoEdge}],
         \A i \in Slot : i \notin hit => edge'[i] = edge[i],
         \A i \in hit : EdgeOk(edge'[i]) /\ edge'[i].score = edge[i].score,
         reopened' = IF /\ \E i \in hit \cap Ended : edge'[i].until = 0
                        /\ Open \ hit # {} \/ Cardinality(hit) > 1
                     THEN "yes" ELSE reopened,
         \A i \in hit : reopened = "never" =>
           \/ edge'[i].by = edge'[i].score
           \/ /\ edge'[i].by = "psc" /\ edge'[i].link = job["psc"].st.link
              /\ Outranks("psc", job["psc"].st, edge'[i]),
         \A i \in hit : reopened = "never" /\ "gleif" \notin Writer =>
           \/ Whole(edge'[i])
           \/ edge'[i].by = "psc" /\ edge'[i].until = 0 /\ edge'[i].link = job["psc"].st.link
  PROVE  Inv' /\ Higher
<1>1. Typed /\ OneOpen /\ "psc" \in Source /\ hit \in SUBSET Edges
  BY Types DEF Inv, Source
<1>2. /\ Edges' = Edges /\ OneOpen' /\ reopened' \in {reopened, "yes"}
      /\ \A i \in Edges : EdgeOk(edge'[i])
      /\ \A i \in Edges : i \notin hit => edge'[i] = edge[i] /\ (i \in Open' <=> i \in Open)
  BY <1>1, Rewritten
<1>3. reopened' \in Opened /\ (reopened' = "never" => reopened = "never")
  BY <1>1, <1>2 DEF Typed, TypeOK, Opened
<1>4. Found("psc", job["psc"].st, "update", job["psc"].seen)'
  BY DEF Found
<1>5. /\ Typed' /\ Alone' /\ (\A t \in Source : Sees(t)')
      /\ job'["psc"].st = job["psc"].st /\ job'["psc"].step = "update"
      /\ \A t \in Source \ {"psc"} : ~Busy(t)'
  BY <1>1, <1>2, <1>3, <1>4, GoesOn DEF Steps
<1>6. job["psc"].st \in Claiming' /\ ~At("gleif", "succeed")'
  <2>1. At("psc", "update")'
    BY <1>5, Types DEF At, Then, Typed, NoJob
  <2> QED
    BY <1>5, <2>1 DEF Claiming, At, Busy, Source
<1>7. Settled'
  <2>1. ASSUME NEW i \in Open', reopened' = "never"
        PROVE  edge'[i].by = edge'[i].score \/ Taken(edge[i])'
    <3>1. i \in Edges
      BY <1>2 DEF Open
    <3>2. CASE i \in hit
      BY <1>3, <1>6, <2>1, <3>2 DEF Taken, Outranks
    <3>3. CASE i \notin hit
      <4>1. edge'[i] = edge[i] /\ i \in Open
        BY <1>2, <2>1, <3>1, <3>3
      <4>2. edge[i].by = edge[i].score \/ (edge[i].by = "psc" /\ edge[i].link = "none")
        BY <1>3, <2>1, <4>1, NoneTaken
      <4> QED
        BY <4>1, <4>2 DEF Taken
    <3> QED
      BY <3>2, <3>3
  <2> QED
    BY <1>6, <2>1 DEF Settled
<1>8. OneSource'
  <2>1. ASSUME NEW i \in Edges, reopened' = "never", "gleif" \notin Writer
        PROVE  Whole(edge'[i]) \/ Half(edge[i])'
    <3>1. CASE i \in hit
      BY <1>3, <1>6, <2>1, <3>1 DEF Half
    <3>2. CASE i \notin hit
      BY <1>2, <1>3, <2>1, <3>2, NoneTaken
    <3> QED
      BY <3>1, <3>2
  <2> QED
    BY <1>2, <2>1 DEF OneSource
<1>9. Higher
  BY <1>1, <1>2, Types DEF Higher
<1> QED
  BY <1>2, <1>5, <1>7, <1>8, <1>9 DEF Inv

LEMMA PscAdoptsKeeps == ASSUME Inv, PscAdopts PROVE Inv' /\ Higher
<1> DEFINE st == job["psc"].st
           hit == {i \in Open : edge[i].link # "none"}
           Now(e) == [e EXCEPT !.link = st.link]
<1>1. Typed /\ "psc" \in Source /\ Busy("psc") /\ st \in Statement /\ job["psc"].step = "adopt"
  BY Types DEF Inv, PscAdopts, At, Source, Busy
<1>2. /\ edge' = [i \in Slot |-> IF i \in hit THEN Now(edge[i]) ELSE edge[i]]
      /\ reopened' = IF /\ \E i \in hit \cap Ended : Now(edge[i]).until = 0
                        /\ Open \ hit # {} \/ Cardinality(hit) > 1
                     THEN "yes" ELSE reopened
      /\ Then("psc", "update")
  BY DEF PscAdopts, Rewrite
<1>3. hit \in SUBSET Open /\ \A i \in hit : edge[i].link # "none"
  OBVIOUS
<1>4. ASSUME NEW e, EdgeOk(e)
      PROVE  /\ EdgeOk(Now(e)) /\ Now(e).by = e.by /\ Now(e).score = e.score
             /\ Now(e).dated = e.dated
  BY <1>1, <1>4 DEF EdgeOk, Edge, Statement
<1> HIDE DEF hit, Now
<1>5. /\ \A i \in hit : edge'[i] = Now(edge[i])
      /\ \A i \in Slot : i \notin hit => edge'[i] = edge[i]
      /\ edge' \in [Slot -> Edge \cup {NoEdge}]
      /\ \A i \in hit : EdgeOk(edge'[i])
  <2>1. hit \subseteq Slot /\ \A i \in hit : EdgeOk(Now(edge[i]))
    BY <1>1, <1>3, <1>4, Types
  <2> QED
    BY <1>1, <1>2, <2>1 DEF EdgeOk, Typed, TypeOK
<1>6. reopened' = IF /\ \E i \in hit \cap Ended : edge'[i].until = 0
                     /\ Open \ hit # {} \/ Cardinality(hit) > 1
                  THEN "yes" ELSE reopened
  BY <1>2, <1>5
<1>7. \A i \in hit : /\ i \in Edges /\ edge'[i].by = edge[i].by /\ edge'[i].score = edge[i].score
                     /\ edge'[i].dated = edge[i].dated
  BY <1>1, <1>3, <1>4, <1>5, Types
<1>8. \A i \in hit : reopened = "never" => edge'[i].by = edge'[i].score
  BY <1>1, <1>3, <1>7, NoneTaken
<1>9. \A i \in hit : reopened = "never" /\ "gleif" \notin Writer => Whole(edge'[i])
  BY <1>1, <1>7, NoneTaken DEF Whole
<1> QED
  BY <1>1, <1>2, <1>3, <1>5, <1>6, <1>7, <1>8, <1>9, PscGoesOn

LEMMA PscTakesOverKeeps == ASSUME Inv, PscTakesOver PROVE Inv' /\ Higher
<1> DEFINE st == job["psc"].st
           seen == job["psc"].seen
           Now(e) == [e EXCEPT !.link = st.link, !.by = "psc"]
<1>1. Typed /\ "psc" \in Source /\ Busy("psc") /\ st \in Statement /\ job["psc"].step = "takeover"
  BY Types DEF Inv, PscTakesOver, At, Source, Busy
<1>2. /\ edge' = [i \in Slot |-> IF i \in Open THEN Now(edge[i]) ELSE edge[i]]
      /\ reopened' = IF /\ \E i \in Open \cap Ended : Now(edge[i]).until = 0
                        /\ Open \ Open # {} \/ Cardinality(Open) > 1
                     THEN "yes" ELSE reopened
      /\ Then("psc", "update")
  BY DEF PscTakesOver, Rewrite
<1>3. /\ Outranks("psc", st, seen)
      /\ reopened = "never" => \A i \in Open : edge[i] = seen
  BY <1>1, Seen DEF Inv, Sees, Found
<1>4. ASSUME NEW e, EdgeOk(e)
      PROVE  /\ EdgeOk(Now(e)) /\ Now(e).by = "psc" /\ Now(e).score = e.score
             /\ Now(e).stake = e.stake /\ Now(e).until = e.until /\ Now(e).link = st.link
  BY <1>1, <1>4 DEF EdgeOk, Edge, Statement, Source
<1> HIDE DEF Now
<1>5. /\ \A i \in Open : edge'[i] = Now(edge[i])
      /\ \A i \in Slot : i \notin Open => edge'[i] = edge[i]
      /\ edge' \in [Slot -> Edge \cup {NoEdge}]
      /\ \A i \in Open : EdgeOk(edge'[i])
  <2>1. Open \subseteq Slot /\ \A i \in Open : EdgeOk(Now(edge[i]))
    BY <1>1, <1>4, Types
  <2> QED
    BY <1>1, <1>2, <2>1 DEF EdgeOk, Typed, TypeOK
<1>6. reopened' = IF /\ \E i \in Open \cap Ended : edge'[i].until = 0
                     /\ Open \ Open # {} \/ Cardinality(Open) > 1
                  THEN "yes" ELSE reopened
  BY <1>2, <1>5
<1>7. \A i \in Open : /\ edge'[i].by = "psc" /\ edge'[i].score = edge[i].score
                      /\ edge'[i].stake = edge[i].stake /\ edge'[i].until = 0
                      /\ edge'[i].link = st.link
  BY <1>1, <1>4, <1>5, Types DEF Open
<1>8. \A i \in Open : reopened = "never" => Outranks("psc", st, edge'[i])
  BY <1>3, <1>7 DEF Outranks
<1>9. Open \in SUBSET Open
  OBVIOUS
<1> QED
  BY <1>1, <1>2, <1>5, <1>6, <1>7, <1>8, <1>9, PscGoesOn


LEMMA PscVanishedKeeps ==
  ASSUME Inv, Overlap = FALSE, "psc" \in Writer, NEW st \in Says("psc"), PscVanished(st)
  PROVE  Inv' /\ Higher
<1> DEFINE hit == {i \in Linked(st.link) \cap Open : edge[i].by = "psc"}
           Now(e) == [e EXCEPT !.until = st.until]
<1>1. /\ Typed /\ OneOpen /\ st \in Statement /\ st.until # 0 /\ fold = {} /\ redo["psc"] = {}
      /\ \A t \in Source : job[t] = NoJob
  BY WriterAssumption, StatementAssumption DEF Inv, PscVanished, Source
<1>2. /\ edge' = [i \in Slot |-> IF i \in hit THEN Now(edge[i]) ELSE edge[i]]
      /\ reopened' = IF /\ \E i \in hit \cap Ended : Now(edge[i]).until = 0
                        /\ Open \ hit # {} \/ Cardinality(hit) > 1
                     THEN "yes" ELSE reopened
      /\ UNCHANGED <<job, fold, redo, rr, given, crashes>> /\ made' = made + 1 /\ made < MaxStatements
  BY DEF PscVanished, Rewrite
<1>3. hit \in SUBSET Edges /\ hit \subseteq Open
  BY DEF Linked
<1>4. ASSUME NEW e, EdgeOk(e)
      PROVE  /\ EdgeOk(Now(e)) /\ Now(e).by = e.by /\ Now(e).score = e.score
             /\ Now(e).dated = e.dated /\ Now(e).until = st.until
  BY <1>1, <1>4 DEF EdgeOk, Edge, Statement
<1> HIDE DEF hit, Now
<1>5. /\ \A i \in hit : edge'[i] = Now(edge[i])
      /\ \A i \in Slot : i \notin hit => edge'[i] = edge[i]
      /\ edge' \in [Slot -> Edge \cup {NoEdge}]
      /\ \A i \in hit : EdgeOk(edge'[i])
  <2>1. hit \subseteq Slot /\ \A i \in hit : EdgeOk(Now(edge[i]))
    BY <1>1, <1>3, <1>4, Types
  <2> QED
    BY <1>1, <1>2, <2>1 DEF EdgeOk, Typed, TypeOK
<1>6. reopened' = IF /\ \E i \in hit \cap Ended : edge'[i].until = 0
                     /\ Open \ hit # {} \/ Cardinality(hit) > 1
                  THEN "yes" ELSE reopened
  BY <1>2, <1>5
<1>7. \A i \in hit : /\ edge'[i].by = edge[i].by /\ edge'[i].score = edge[i].score
                     /\ edge'[i].dated = edge[i].dated /\ edge'[i].until # 0
  BY <1>1, <1>3, <1>4, <1>5, Types
<1>8. /\ Edges' = Edges /\ OneOpen' /\ reopened' \in {reopened, "yes"}
      /\ \A i \in Edges : EdgeOk(edge'[i])
      /\ \A i \in Edges : i \notin hit => edge'[i] = edge[i] /\ (i \in Open' <=> i \in Open)
  BY <1>1, <1>3, <1>5, <1>6, Rewritten
<1>9. Typed'
  <2>1. \A i \in Slot : edge'[i] # NoEdge /\ edge'[i].inferred => edge'[i].marker # "none"
    BY <1>8 DEF Edges, EdgeOk
  <2>2. TypeOK'
    BY <1>1, <1>2, <1>5, <1>8, <2>1, BoundAssumption DEF Typed, TypeOK
  <2> QED
    BY <1>1, <1>2, <1>8, <2>2 DEF Typed, Busy
<1>10. Alone' /\ (\A t \in Source : Sees(t)') /\ ~At("gleif", "succeed")' /\ Claiming' = Claiming
  BY <1>1, <1>2 DEF Alone, Sees, Busy, At, Claiming, Source
<1>11. Claiming = {} /\ (reopened' = "never" => reopened = "never")
  BY <1>1, <1>8 DEF Claiming, At, Source
<1>12. Settled'
  <2>1. ASSUME NEW i \in Open', reopened' = "never"
        PROVE  \/ edge'[i].by = edge'[i].score
               \/ /\ i \in Open
                  /\ edge'[i].by = edge[i].by /\ edge'[i].score = edge[i].score
                  /\ edge'[i].stake = edge[i].stake /\ edge'[i].link = edge[i].link
    <3>1. i \in Edges /\ i \notin hit
      BY <1>7, <1>8 DEF Open
    <3> QED
      BY <1>8, <3>1
  <2> QED
    BY <1>10, <1>11, <2>1, StillSettled
<1>13. OneSource'
  <2>1. ASSUME reopened' = "never", "gleif" \notin Writer, NEW i \in Edges PROVE Whole(edge'[i])
    <3>1. Whole(edge[i])
      BY <1>11, <2>1, Known DEF Half
    <3> QED
      BY <1>7, <1>8, <3>1 DEF Whole
  <2> QED
    BY <1>8, <2>1 DEF OneSource
<1>14. Higher
  BY <1>1, <1>7, <1>8, Types DEF Higher
<1> QED
  BY <1>8, <1>9, <1>10, <1>12, <1>13, <1>14 DEF Inv

-----------------------------------------------------------------------------
(* The lookups *)

LEMMA SecFindsKeeps ==
  ASSUME Inv, Overlap = FALSE, "sec" \in Writer, NEW st \in Says("sec"), SecFinds(st)
  PROVE  Inv' /\ Higher
<1> DEFINE own == SecOwn(st.until)
           shared == SecShared(st.until)
<1>1. "sec" \in Source /\ own \subseteq Edges /\ shared \subseteq Open
      /\ \A i \in own : edge[i].by = "sec" /\ (st.until # 0 \/ edge[i].until = 0)
  BY Types DEF Inv, SecOwn, SecShared, FirstOf, Source, Open, Ended
<1>2. \A i \in Edges : EdgeOk(edge[i])
  BY Types DEF Inv
<1>3. CASE own # {}
  <2>1. PICK i \in own : Takes("sec", st, "own", edge[i])
    BY <1>3 DEF SecFinds
  <2>2. Found("sec", st, "own", edge[i]) /\ edge[i] \in Edge
    BY <1>1, <1>2 DEF Found, EdgeOk
  <2> QED
    BY <1>1, <2>1, <2>2, TakesKeeps DEF Steps
<1>4. CASE own = {} /\ shared # {}
  <2>1. PICK i \in shared : Takes("sec", st, "share", edge[i])
    BY <1>4 DEF SecFinds
  <2>2. Found("sec", st, "share", edge[i]) /\ edge[i] \in Edge
    BY <1>1, <1>2 DEF Found, EdgeOk, Open
  <2> QED
    BY <1>1, <2>1, <2>2, TakesKeeps DEF Steps
<1>5. CASE own = {} /\ shared = {}
  <2>1. Takes("sec", st, "create", NoEdge)
    BY <1>5 DEF SecFinds
  <2>2. Found("sec", st, "create", NoEdge)
    BY <1>5 DEF Found, SecShared
  <2> QED
    BY <1>1, <2>1, <2>2, TakesKeeps DEF Steps
<1> QED
  BY <1>3, <1>4, <1>5

LEMMA WikidataFindsKeeps ==
  ASSUME Inv, Overlap = FALSE, "wikidata" \in Writer, NEW st \in Says("wikidata"), WikidataFinds(st)
  PROVE  Inv' /\ Higher
<1>1. "wikidata" \in Source /\ Open \subseteq Edges /\ \A i \in Edges : EdgeOk(edge[i])
  BY Types DEF Inv, Source
<1>2. CASE Takes("wikidata", st, "create", NoEdge) /\ (st.until # 0 \/ Open = {})
  <2>1. Found("wikidata", st, "create", NoEdge)
    BY <1>2 DEF Found
  <2> QED
    BY <1>1, <1>2, <2>1, TakesKeeps DEF Steps
<1>3. CASE \E i \in Open : Takes("wikidata", st, "confirm", edge[i])
  <2>1. PICK i \in Open : Takes("wikidata", st, "confirm", edge[i])
    BY <1>3
  <2>2. Found("wikidata", st, "confirm", edge[i]) /\ edge[i] \in Edge
    BY <1>1, <2>1 DEF Found, EdgeOk
  <2> QED
    BY <1>1, <2>1, <2>2, TakesKeeps DEF Steps
<1> QED
  BY <1>2, <1>3 DEF WikidataFinds

LEMMA PscFindsKeeps ==
  ASSUME Inv, Overlap = FALSE, "psc" \in Writer, NEW st \in Says("psc"), PscFinds(st)
  PROVE  Inv' /\ Higher
<1>1. "psc" \in Source /\ Open \subseteq Edges /\ \A i \in Edges : EdgeOk(edge[i])
  BY Types DEF Inv, Source
<1>2. CASE Takes("psc", st, "update", NoEdge)
  <2>1. Found("psc", st, "update", NoEdge)
    BY DEF Found
  <2> QED
    BY <1>1, <1>2, <2>1, TakesKeeps DEF Steps
<1>3. CASE Takes("psc", st, "create", NoEdge) /\ (st.until # 0 \/ Open = {}) /\ Linked(st.link) = {}
  <2>1. Found("psc", st, "create", NoEdge)
    BY <1>3 DEF Found
  <2> QED
    BY <1>1, <1>3, <2>1, TakesKeeps DEF Steps
<1>4. CASE Takes("psc", st, "adopt", NoEdge) /\ Linked(st.link) = {}
  <2>1. Found("psc", st, "adopt", NoEdge)
    BY <1>4 DEF Found
  <2> QED
    BY <1>1, <1>4, <2>1, TakesKeeps DEF Steps
<1>5. CASE /\ Linked(st.link) = {}
           /\ \E i \in Open :
                Takes("psc", st, IF Outranks("psc", st, edge[i]) THEN "takeover" ELSE "claim", edge[i])
  <2>1. PICK i \in Open :
          Takes("psc", st, IF Outranks("psc", st, edge[i]) THEN "takeover" ELSE "claim", edge[i])
    BY <1>5
  <2>2. edge[i] \in Edge
    BY <1>1 DEF EdgeOk
  <2>3. CASE Outranks("psc", st, edge[i])
    <3>1. Found("psc", st, "takeover", edge[i])
      BY <1>5, <2>2, <2>3 DEF Found
    <3>2. Takes("psc", st, "takeover", edge[i])
      BY <2>1, <2>3
    <3> QED
      BY <1>1, <2>2, <3>1, <3>2, TakesKeeps DEF Steps
  <2>4. CASE ~Outranks("psc", st, edge[i])
    <3>1. Found("psc", st, "claim", edge[i])
      BY <1>5, <2>2 DEF Found
    <3>2. Takes("psc", st, "claim", edge[i])
      BY <2>1, <2>4
    <3> QED
      BY <1>1, <2>2, <3>1, <3>2, TakesKeeps DEF Steps
  <2> QED
    BY <2>3, <2>4
<1> QED
  BY <1>2, <1>3, <1>4, <1>5 DEF PscFinds

LEMMA GleifFindsKeeps ==
  ASSUME Inv, Overlap = FALSE, "gleif" \in Writer, NEW st \in Says("gleif"), GleifFinds(st)
  PROVE  Inv' /\ Higher
<1> DEFINE found == Existing(st.start.day)
<1>1. /\ "gleif" \in Source /\ \A i \in Edges : EdgeOk(edge[i])
      /\ found \subseteq Edges /\ \A i \in found : i \in Open \/ Own(i)
      /\ found = {} => Open = {}
  BY Types DEF Inv, Existing, FirstOf, Source, Open, Ended
<1>2. CASE found = {}
  <2>1. Takes("gleif", st, "create", NoEdge)
    BY <1>2 DEF GleifFinds
  <2>2. Found("gleif", st, "create", NoEdge)
    BY <1>1, <1>2 DEF Found
  <2> QED
    BY <1>1, <2>1, <2>2, TakesKeeps DEF Steps
<1>3. CASE found # {}
  <2>1. PICK i \in found : Takes("gleif", st, "write", edge[i])
    BY <1>3 DEF GleifFinds
  <2>2. Found("gleif", st, "write", edge[i]) /\ edge[i] \in Edge
    BY <1>1, <2>1 DEF Found, EdgeOk
  <2> QED
    BY <1>1, <2>1, <2>2, TakesKeeps DEF Steps
<1> QED
  BY <1>2, <1>3

LEMMA GleifEndsKeeps ==
  ASSUME Inv, Overlap = FALSE, "gleif" \in Writer, NEW st \in Says("gleif"), GleifEnds(st)
  PROVE  Inv' /\ Higher
<1>1. "gleif" \in Source /\ Open \subseteq Edges /\ \A i \in Edges : EdgeOk(edge[i])
  BY Types DEF Inv, Source
<1>2. st.until # 0
  BY StatementAssumption DEF GleifEnds
<1>3. CASE Takes("gleif", st, "retire", NoEdge)
  <2>1. Found("gleif", st, "retire", NoEdge)
    BY <1>2 DEF Found
  <2> QED
    BY <1>1, <1>3, <2>1, TakesKeeps DEF Steps
<1>4. CASE \E i \in Open : edge[i].also /\ Takes("gleif", st, "close", edge[i])
  <2>1. PICK i \in Open : edge[i].also /\ Takes("gleif", st, "close", edge[i])
    BY <1>4
  <2>2. Found("gleif", st, "close", edge[i]) /\ edge[i] \in Edge
    BY <1>1, <1>2, <2>1 DEF Found, EdgeOk
  <2> QED
    BY <1>1, <2>1, <2>2, TakesKeeps DEF Steps
<1> QED
  BY <1>3, <1>4 DEF GleifEnds


-----------------------------------------------------------------------------
(* GLEIF *)

\* GLEIF writes on the edge it found: its own answer, a higher one, or none.
LEMMA GleifWrites ==
  ASSUME Inv, At("gleif", "write"), Finish("gleif"), rr' \in Records,
         NEW hit \in SUBSET Edges, NEW j \in Edges, edge[j] = job["gleif"].seen,
         edge' \in [Slot -> Edge \cup {NoEdge}],
         \A i \in Slot : i \notin hit => edge'[i] = edge[i],
         reopened' = IF /\ \E i \in hit \cap Ended : edge'[i].until = 0
                        /\ Open \ hit # {} \/ Cardinality(hit) > 1
                     THEN "yes" ELSE reopened,
         \A i \in hit : EdgeOk(edge'[i]),
         \A i \in hit \cap Open : j \in Open,
         \A i \in hit \cap Ended : j \in hit,
         \A i \in hit :
           IF job["gleif"].seen.by = "gleif"
           THEN edge'[i].score = "gleif" /\ edge'[i].by = edge[i].by
           ELSE IF Outranks("gleif", job["gleif"].st, job["gleif"].seen)
           THEN /\ edge'[i].by = "gleif" /\ edge'[i].score = "gleif"
                /\ edge'[i].stake = job["gleif"].st.stake
           ELSE /\ edge'[i].by = edge[i].by /\ edge'[i].score = edge[i].score
                /\ edge'[i].stake = edge[i].stake /\ edge'[i].link = edge[i].link
                /\ edge'[i].until = edge[i].until
  PROVE  Inv' /\ Higher
<1> DEFINE st == job["gleif"].st
           seen == job["gleif"].seen
<1>1. Typed /\ OneOpen /\ "gleif" \in Source /\ Busy("gleif") /\ "gleif" # "psc" /\ "gleif" \in Writer
  BY Types DEF Inv, At, Busy, Source
<1>2. \A i \in hit \cap Ended : reopened' # "yes" /\ i \in Open' => hit = {i} /\ Open = {}
  BY <1>1, Rewritten
<1>3. \A i \in hit \cap Open : reopened = "never" => edge[i] = seen
  BY <1>1 DEF OneOpen
<1>4. \A i \in hit \cap Ended : reopened' # "yes" /\ i \in Open' => edge[i] = seen
  BY <1>2
<1>5. hit \subseteq Open \cup Ended
  BY DEF Ended
<1>6. \A i \in hit : reopened = "never" /\ reopened' = "never" /\ i \in Open' =>
        \/ edge'[i].by = edge'[i].score
        \/ /\ i \in Open
           /\ edge'[i].by = edge[i].by /\ edge'[i].score = edge[i].score
           /\ edge'[i].stake = edge[i].stake /\ edge'[i].link = edge[i].link
  <2>1. SUFFICES ASSUME NEW i \in hit, reopened = "never", reopened' = "never", i \in Open'
                 PROVE  \/ edge'[i].by = edge'[i].score
                        \/ /\ i \in Open
                           /\ edge'[i].by = edge[i].by /\ edge'[i].score = edge[i].score
                           /\ edge'[i].stake = edge[i].stake /\ edge'[i].link = edge[i].link
    OBVIOUS
  <2>2. edge[i] = seen
    BY <1>3, <1>4, <1>5, <2>1
  <2>3. edge'[i].until = edge[i].until => i \in Open
    BY <2>1 DEF Open
  <2> QED
    BY <2>2, <2>3
<1>7. \A i \in hit : reopened = "never" /\ "gleif" \notin Writer =>
        \/ Whole(edge'[i])
        \/ /\ Half(edge[i])
           /\ edge'[i].by = edge[i].by /\ edge'[i].until = edge[i].until
           /\ edge'[i].link = edge[i].link
  BY <1>1
<1>8. \A i \in hit \cap Open :
        reopened = "never" /\ i \in Open' /\ edge'[i].score # edge[i].score =>
          Above(edge'[i].score, edge'[i].stake, edge[i].score, edge[i].stake)
  <2>1. SUFFICES ASSUME NEW i \in hit \cap Open, reopened = "never", edge'[i].score # edge[i].score
                 PROVE  Above(edge'[i].score, edge'[i].stake, edge[i].score, edge[i].stake)
    OBVIOUS
  <2>2. edge[i] = seen
    BY <1>3, <2>1
  <2>3. seen.by # "gleif"
    <3>1. seen.by = "gleif" => edge[i].score = "gleif"
      BY <2>1, <2>2, Known DEF Taken
    <3> QED
      BY <2>1, <3>1
  <2> QED
    BY <2>1, <2>2, <2>3 DEF Outranks
<1> QED
  BY <1>1, <1>6, <1>7, <1>8, EndsWell

LEMMA AppliedIs ==
  ASSUME Typed, NEW st \in Statement, Applied(st)
  PROVE  rr' \in Records
<1> DEFINE on == st.kind = "states" /\ st.until = 0
           r  == [on |-> on, day |-> st.start.day]
<1>1. on \in BOOLEAN /\ st.start.day \in Day
  BY DEF Statement, Start
<1>2. rr' = [rr EXCEPT ![st.marker] = r]
  BY DEF Applied
<1> HIDE DEF on
<1>3. r \in [on : BOOLEAN, day : Day]
  BY <1>1
<1> HIDE DEF r
<1> QED
  BY <1>2, <1>3 DEF Typed, TypeOK, Records

LEMMA GleifAnswersIs ==
  ASSUME Inv, At("gleif", "write"), NEW e, EdgeOk(e)
  PROVE  /\ EdgeOk(GleifAnswers(e)) /\ GleifAnswers(e).link = e.link
         /\ GleifAnswers(e).marker = e.marker /\ GleifAnswers(e).inferred = e.inferred
         /\ IF job["gleif"].seen.by = "gleif"
            THEN GleifAnswers(e).score = "gleif" /\ GleifAnswers(e).by = e.by
            ELSE IF Outranks("gleif", job["gleif"].st, job["gleif"].seen)
            THEN /\ GleifAnswers(e).by = "gleif" /\ GleifAnswers(e).score = "gleif"
                 /\ GleifAnswers(e).stake = job["gleif"].st.stake
            ELSE GleifAnswers(e) = e
<1>1. job["gleif"].st \in Statement
  BY Types DEF Inv, At, Busy, Source
<1>2. CASE job["gleif"].seen.by = "gleif"
  <2>1. GleifAnswers(e) = [e EXCEPT !.until = job["gleif"].st.until, !.score = "gleif", !.dated = "gleif"]
    BY <1>2 DEF GleifAnswers
  <2> QED
    BY <1>1, <1>2, <2>1 DEF EdgeOk, Edge, Statement, Source
<1>3. CASE job["gleif"].seen.by # "gleif" /\ Outranks("gleif", job["gleif"].st, job["gleif"].seen)
  <2>1. GleifAnswers(e) = Answered("gleif", job["gleif"].st, e)
    BY <1>3 DEF GleifAnswers
  <2> QED
    BY <1>1, <1>3, <2>1 DEF EdgeOk, Edge, Statement, Source, Answered
<1>4. CASE job["gleif"].seen.by # "gleif" /\ ~Outranks("gleif", job["gleif"].st, job["gleif"].seen)
  BY <1>4 DEF GleifAnswers
<1> QED
  BY <1>2, <1>3, <1>4


LEMMA GleifRestatesKeeps == ASSUME Inv, GleifRestates PROVE Inv' /\ Higher
<1> DEFINE st == job["gleif"].st
           seen == job["gleif"].seen
           adopts == seen.marker = "none" \/ seen.inferred
           hit == IF adopts THEN {i \in Open : ~Own(i)}
                  ELSE {i \in Edges : Own(i) /\ edge[i].marker = st.marker /\ edge[i].until = seen.until}
           no == FALSE
           start == Combine({seen.start, st.start})
           Now(e) == LET a == GleifAnswers(e) IN
             [a EXCEPT !.marker = IF adopts THEN st.marker ELSE @,
                       !.inferred = IF adopts THEN no ELSE @,
                       !.stake = IF seen.by = "gleif" /\ (st.stake \/ ~seen.also) THEN st.stake ELSE @,
                       !.start = start]
<1>1. /\ Typed /\ "gleif" \in Source /\ Busy("gleif") /\ st \in Statement /\ At("gleif", "write")
      /\ seen \in Edge /\ (adopts \/ seen.marker = st.marker)
  BY Types DEF Inv, GleifRestates, At, Source, Busy, Sees, Found
<1>2. PICK j \in Edges : edge[j] = seen /\ (j \in Open \/ Own(j))
  BY <1>1 DEF Inv, Sees, Found, At
<1>3. /\ edge' = [i \in Slot |-> IF i \in hit THEN Now(edge[i]) ELSE edge[i]]
      /\ reopened' = IF /\ \E i \in hit \cap Ended : Now(edge[i]).until = 0
                        /\ Open \ hit # {} \/ Cardinality(hit) > 1
                     THEN "yes" ELSE reopened
      /\ Finish("gleif") /\ Applied(st)
  BY DEF GleifRestates, Rewrite
<1>4. start \in Start /\ no \in BOOLEAN /\ ~no
  BY <1>1, CombineIsStart DEF Edge, Statement
<1>5. hit \in SUBSET Edges
  BY Types DEF Inv
<1>6. \A i \in hit \cap Open : j \in Open
  BY <1>2 DEF Own, Open
<1>7. \A i \in hit \cap Ended : j \in hit
  BY <1>1, <1>2 DEF Own, Ended
<1> HIDE DEF hit, no, start
<1>8. ASSUME NEW e, EdgeOk(e)
      PROVE  /\ EdgeOk(Now(e)) /\ Now(e).by = GleifAnswers(e).by
             /\ Now(e).score = GleifAnswers(e).score /\ Now(e).link = GleifAnswers(e).link
             /\ Now(e).until = GleifAnswers(e).until
             /\ seen.by # "gleif" => Now(e).stake = GleifAnswers(e).stake
  <2>1. EdgeOk(GleifAnswers(e))
    BY <1>1, <1>8, GleifAnswersIs
  <2> DEFINE a == GleifAnswers(e)
             marker == IF adopts THEN st.marker ELSE a.marker
             inferred == IF adopts THEN no ELSE a.inferred
             stake == IF seen.by = "gleif" /\ (st.stake \/ ~seen.also) THEN st.stake ELSE a.stake
  <2>2. a \in Edge
    BY <2>1 DEF EdgeOk
  <2>3. /\ marker \in Marker /\ inferred \in BOOLEAN /\ stake \in BOOLEAN
        /\ inferred => marker # "none"
        /\ seen.by # "gleif" => stake = a.stake
    BY <1>1, <1>4, <2>1, <2>2 DEF EdgeOk, Edge, Statement
  <2>4. Now(e) = [a EXCEPT !.marker = marker, !.inferred = inferred, !.stake = stake, !.start = start]
    OBVIOUS
  <2> HIDE DEF Now, a, marker, inferred, stake
  <2>5. /\ EdgeOk(Now(e)) /\ Now(e).by = a.by /\ Now(e).score = a.score /\ Now(e).link = a.link
        /\ Now(e).until = a.until /\ Now(e).stake = stake
    BY <1>4, <2>2, <2>3, <2>4 DEF EdgeOk, Edge
  <2> QED
    BY <2>3, <2>5 DEF a
<1> HIDE DEF Now
<1>9. /\ \A i \in hit : edge'[i] = Now(edge[i])
      /\ \A i \in Slot : i \notin hit => edge'[i] = edge[i]
      /\ edge' \in [Slot -> Edge \cup {NoEdge}]
      /\ \A i \in hit : EdgeOk(edge'[i])
  <2>1. hit \subseteq Slot /\ \A i \in hit : EdgeOk(Now(edge[i]))
    BY <1>1, <1>5, <1>8, Types
  <2> QED
    BY <1>1, <1>3, <2>1 DEF EdgeOk, Typed, TypeOK
<1>10. reopened' = IF /\ \E i \in hit \cap Ended : edge'[i].until = 0
                      /\ Open \ hit # {} \/ Cardinality(hit) > 1
                   THEN "yes" ELSE reopened
  BY <1>3, <1>9
<1>11. rr' \in Records
  BY <1>1, <1>3, AppliedIs
<1>12. \A i \in hit :
         IF seen.by = "gleif"
         THEN edge'[i].score = "gleif" /\ edge'[i].by = edge[i].by
         ELSE IF Outranks("gleif", st, seen)
         THEN edge'[i].by = "gleif" /\ edge'[i].score = "gleif" /\ edge'[i].stake = st.stake
         ELSE /\ edge'[i].by = edge[i].by /\ edge'[i].score = edge[i].score
              /\ edge'[i].stake = edge[i].stake /\ edge'[i].link = edge[i].link
              /\ edge'[i].until = edge[i].until
  BY <1>1, <1>5, <1>8, <1>9, GleifAnswersIs, Types
<1> QED
  BY <1>1, <1>2, <1>3, <1>5, <1>6, <1>7, <1>9, <1>10, <1>11, <1>12, GleifWrites

LEMMA GleifFoldsKeeps == ASSUME Inv, GleifFolds PROVE Inv' /\ Higher
<1> DEFINE st == job["gleif"].st
           seen == job["gleif"].seen
           mine == seen.by = "gleif" \/ Outranks("gleif", st, seen)
           kept == IF st.marker = "indirect" \/ st.start.day = 0 THEN seen.start.day ELSE st.start.day
           other == IF st.marker = "indirect" THEN st.start.day ELSE seen.start.day
           hit == {i \in Edges : Own(i) /\ edge[i].until = seen.until}
           yes == TRUE
           ultimate == IF other = kept THEN 0 ELSE other
           start == Combine({[day |-> kept, bound |-> FALSE]} \cup {c \in {seen.start} : c.bound})
           Now(e) == LET a == GleifAnswers(e) IN
             [a EXCEPT !.marker = "direct", !.also = yes, !.ultimate = ultimate,
                       !.stake = IF mine /\ st.stake /\ (st.marker = "direct" \/ ~seen.stake)
                                 THEN yes ELSE @,
                       !.start = start]
<1>1. /\ Typed /\ "gleif" \in Source /\ Busy("gleif") /\ st \in Statement /\ At("gleif", "write")
      /\ seen \in Edge /\ seen.marker # "none" /\ ~seen.inferred
  BY Types DEF Inv, GleifFolds, At, Source, Busy, Sees, Found
<1>2. PICK j \in Edges : edge[j] = seen
  BY <1>1 DEF Inv, Sees, Found, At
<1>3. /\ edge' = [i \in Slot |-> IF i \in hit THEN Now(edge[i]) ELSE edge[i]]
      /\ reopened' = IF /\ \E i \in hit \cap Ended : Now(edge[i]).until = 0
                        /\ Open \ hit # {} \/ Cardinality(hit) > 1
                     THEN "yes" ELSE reopened
      /\ Finish("gleif") /\ Applied(st)
  BY DEF GleifFolds, Rewrite
<1>4. start \in Start /\ ultimate \in Day /\ yes \in BOOLEAN /\ yes
  <2>1. kept \in Day /\ other \in Day /\ 0 \in Day
    BY <1>1, DayAssumption DEF Edge, Statement, Start, Day
  <2> HIDE DEF kept, other
  <2> DEFINE no == FALSE
  <2>2. no \in BOOLEAN
    OBVIOUS
  <2> HIDE DEF no
  <2>3. [day |-> kept, bound |-> no] \in Start
    BY <2>1, <2>2 DEF Start
  <2>4. {[day |-> kept, bound |-> no]} \cup {c \in {seen.start} : c.bound} \in SUBSET Start
    BY <1>1, <2>3 DEF Edge
  <2>5. start \in Start
    BY <2>4, CombineIsStart DEF no
  <2> QED
    BY <2>1, <2>5
<1>5. hit \in SUBSET Edges
  OBVIOUS
<1>6. (\A i \in hit \cap Open : j \in Open) /\ j \in hit
  BY <1>1, <1>2 DEF Own, Open
<1> HIDE DEF hit, yes, start, ultimate
<1>7. ASSUME NEW e, EdgeOk(e)
      PROVE  /\ EdgeOk(Now(e)) /\ Now(e).by = GleifAnswers(e).by
             /\ Now(e).score = GleifAnswers(e).score /\ Now(e).link = GleifAnswers(e).link
             /\ Now(e).until = GleifAnswers(e).until
             /\ mine /\ GleifAnswers(e).stake = st.stake => Now(e).stake = st.stake
             /\ ~mine => Now(e).stake = GleifAnswers(e).stake
  <2>1. EdgeOk(GleifAnswers(e))
    BY <1>1, <1>7, GleifAnswersIs
  <2> DEFINE a == GleifAnswers(e)
             stake == IF mine /\ st.stake /\ (st.marker = "direct" \/ ~seen.stake) THEN yes ELSE a.stake
  <2>2. a \in Edge
    BY <2>1 DEF EdgeOk
  <2>3. st.stake \in BOOLEAN /\ a.stake \in BOOLEAN
    BY <1>1, <2>2 DEF Edge, Statement
  <2> HIDE DEF a, mine
  <2>4. /\ stake \in BOOLEAN
        /\ mine /\ a.stake = st.stake => stake = st.stake
        /\ ~mine => stake = a.stake
    BY <1>4, <2>3
  <2>5. Now(e) = [a EXCEPT !.marker = "direct", !.also = yes, !.ultimate = ultimate,
                           !.stake = stake, !.start = start]
    BY DEF a
  <2> HIDE DEF Now, stake
  <2>6. /\ EdgeOk(Now(e)) /\ Now(e).by = a.by /\ Now(e).score = a.score /\ Now(e).link = a.link
        /\ Now(e).until = a.until /\ Now(e).stake = stake
    BY <1>4, <2>2, <2>4, <2>5 DEF EdgeOk, Edge, Marker
  <2> QED
    BY <2>4, <2>6 DEF a
<1> HIDE DEF Now
<1>8. /\ \A i \in hit : edge'[i] = Now(edge[i])
      /\ \A i \in Slot : i \notin hit => edge'[i] = edge[i]
      /\ edge' \in [Slot -> Edge \cup {NoEdge}]
      /\ \A i \in hit : EdgeOk(edge'[i])
  <2>1. hit \subseteq Slot /\ \A i \in hit : EdgeOk(Now(edge[i]))
    BY <1>1, <1>5, <1>7, Types
  <2> QED
    BY <1>1, <1>3, <2>1 DEF EdgeOk, Typed, TypeOK
<1>9. reopened' = IF /\ \E i \in hit \cap Ended : edge'[i].until = 0
                     /\ Open \ hit # {} \/ Cardinality(hit) > 1
                  THEN "yes" ELSE reopened
  BY <1>3, <1>8
<1>10. rr' \in Records
  BY <1>1, <1>3, AppliedIs
<1>11. \A i \in hit :
         IF seen.by = "gleif"
         THEN edge'[i].score = "gleif" /\ edge'[i].by = edge[i].by
         ELSE IF Outranks("gleif", st, seen)
         THEN edge'[i].by = "gleif" /\ edge'[i].score = "gleif" /\ edge'[i].stake = st.stake
         ELSE /\ edge'[i].by = edge[i].by /\ edge'[i].score = edge[i].score
              /\ edge'[i].stake = edge[i].stake /\ edge'[i].link = edge[i].link
              /\ edge'[i].until = edge[i].until
  BY <1>1, <1>5, <1>7, <1>8, GleifAnswersIs, Types
<1> QED
  BY <1>1, <1>2, <1>3, <1>5, <1>6, <1>8, <1>9, <1>10, <1>11, GleifWrites


LEMMA GleifCreatesKeeps == ASSUME Inv, GleifCreates PROVE Inv' /\ Higher
<1>1. Typed /\ "gleif" \in Source /\ job["gleif"].st \in Statement
  BY Types DEF Inv, GleifCreates, At, Busy, Source
<1>2. rr' \in Records
  BY <1>1, AppliedIs DEF GleifCreates
<1> QED
  BY <1>1, <1>2, CreateKeeps DEF GleifCreates

LEMMA GleifRetiresKeeps == ASSUME Inv, GleifRetires PROVE Inv' /\ Higher
<1> DEFINE st == job["gleif"].st
           both == \E i \in Open : edge[i].also
           no == FALSE
           hit == IF both THEN {i \in Edges : edge[i].also}
                  ELSE {i \in Open : Own(i) /\ edge[i].marker = st.marker /\ edge[i].by = "gleif"}
           Now(e) == IF both THEN [e EXCEPT !.also = no, !.ultimate = 0]
                     ELSE [e EXCEPT !.until = st.until]
<1>1. /\ Typed /\ "gleif" \in Source /\ Busy("gleif") /\ "gleif" \in Writer /\ "gleif" # "psc"
      /\ st \in Statement /\ st.until # 0
  BY Types DEF Inv, GleifRetires, At, Source, Busy, Sees, Found
<1>2. /\ edge' = [i \in Slot |-> IF i \in hit THEN Now(edge[i]) ELSE edge[i]]
      /\ reopened' = IF /\ \E i \in hit \cap Ended : Now(edge[i]).until = 0
                        /\ Open \ hit # {} \/ Cardinality(hit) > 1
                     THEN "yes" ELSE reopened
      /\ Finish("gleif") /\ Applied(st)
  <2>1. CASE both
    BY <2>1 DEF GleifRetires, Rewrite
  <2>2. CASE ~both
    BY <2>2 DEF GleifRetires, Rewrite
  <2> QED
    BY <2>1, <2>2
<1>3. hit \in SUBSET Edges /\ (~both => hit \subseteq Open) /\ no \in BOOLEAN /\ 0 \in Day
  BY Types, DayAssumption DEF Inv, Day
<1> HIDE DEF hit, no, both
<1>4. ASSUME NEW e, EdgeOk(e)
      PROVE  /\ EdgeOk(Now(e)) /\ Now(e).by = e.by /\ Now(e).score = e.score
             /\ Now(e).stake = e.stake /\ Now(e).link = e.link
             /\ both => Now(e).until = e.until
             /\ ~both => Now(e).until = st.until
  <2>1. CASE both
    BY <1>1, <1>3, <1>4, <2>1 DEF EdgeOk, Edge
  <2>2. CASE ~both
    BY <1>1, <1>3, <1>4, <2>2 DEF EdgeOk, Edge, Statement
  <2> QED
    BY <2>1, <2>2
<1> HIDE DEF Now
<1>5. /\ \A i \in hit : edge'[i] = Now(edge[i])
      /\ \A i \in Slot : i \notin hit => edge'[i] = edge[i]
      /\ edge' \in [Slot -> Edge \cup {NoEdge}]
      /\ \A i \in hit : EdgeOk(edge'[i])
  <2>1. hit \subseteq Slot /\ \A i \in hit : EdgeOk(Now(edge[i]))
    BY <1>1, <1>3, <1>4, Types
  <2> QED
    BY <1>1, <1>2, <2>1 DEF EdgeOk, Typed, TypeOK
<1>6. reopened' = IF /\ \E i \in hit \cap Ended : edge'[i].until = 0
                     /\ Open \ hit # {} \/ Cardinality(hit) > 1
                  THEN "yes" ELSE reopened
  BY <1>2, <1>5
<1>7. rr' \in Records
  BY <1>1, <1>2, AppliedIs
<1>8. \A i \in hit : /\ edge'[i].by = edge[i].by /\ edge'[i].score = edge[i].score
                     /\ edge'[i].stake = edge[i].stake /\ edge'[i].link = edge[i].link
                     /\ edge'[i].until = 0 => i \in Open
  BY <1>1, <1>3, <1>4, <1>5, Types DEF Open
<1>9. \A i \in hit : i \in Open' => i \in Open
  BY <1>8 DEF Open
<1> QED
  BY <1>1, <1>2, <1>3, <1>5, <1>6, <1>7, <1>8, <1>9, EndsWell

\* The direct period ends ...
LEMMA GleifClosesKeeps == ASSUME Inv, GleifCloses PROVE Inv' /\ Higher
<1> DEFINE st == job["gleif"].st
           seen == job["gleif"].seen
           hit == {i \in Open : edge[i].also}
           no == FALSE
           Now(e) == [e EXCEPT !.until = st.until, !.also = no]
<1>1. /\ Typed /\ OneOpen /\ "gleif" \in Source /\ Busy("gleif") /\ "gleif" \in Writer
      /\ st \in Statement /\ st.until # 0 /\ seen \in Edge /\ seen.also
      /\ job["gleif"].step = "close"
  BY Types DEF Inv, GleifCloses, At, Source, Busy, Sees, Found
<1>2. /\ edge' = [i \in Slot |-> IF i \in hit THEN Now(edge[i]) ELSE edge[i]]
      /\ reopened' = IF /\ \E i \in hit \cap Ended : Now(edge[i]).until = 0
                        /\ Open \ hit # {} \/ Cardinality(hit) > 1
                     THEN "yes" ELSE reopened
      /\ Then("gleif", "succeed")
  BY DEF GleifCloses, Rewrite
<1>3. /\ hit \in SUBSET Edges /\ hit \subseteq Open /\ no \in BOOLEAN
      /\ reopened # "yes" => \A i \in Open : i \in hit /\ edge[i] = seen
  BY <1>1, Seen, Types
<1>4. PICK j \in Open : edge[j] = seen
  BY <1>1 DEF Inv, Sees, Found
<1> HIDE DEF hit, no
<1>5. ASSUME NEW e, EdgeOk(e)
      PROVE  /\ EdgeOk(Now(e)) /\ Now(e).until = st.until
             /\ Now(e).score = e.score
  BY <1>1, <1>3, <1>5 DEF EdgeOk, Edge, Statement
<1> HIDE DEF Now
<1>6. /\ \A i \in hit : edge'[i] = Now(edge[i])
      /\ \A i \in Slot : i \notin hit => edge'[i] = edge[i]
      /\ edge' \in [Slot -> Edge \cup {NoEdge}]
      /\ \A i \in hit : EdgeOk(edge'[i])
  <2>1. hit \subseteq Slot /\ \A i \in hit : EdgeOk(Now(edge[i]))
    BY <1>1, <1>3, <1>5, Types
  <2> QED
    BY <1>1, <1>2, <2>1 DEF EdgeOk, Typed, TypeOK
<1>7. reopened' = IF /\ \E i \in hit \cap Ended : edge'[i].until = 0
                     /\ Open \ hit # {} \/ Cardinality(hit) > 1
                  THEN "yes" ELSE reopened
  BY <1>2, <1>6
<1>8. /\ Edges' = Edges /\ OneOpen' /\ reopened' \in {reopened, "yes"}
      /\ \A i \in Edges : EdgeOk(edge'[i])
      /\ \A i \in Edges : i \notin hit => edge'[i] = edge[i] /\ (i \in Open' <=> i \in Open)
  BY <1>1, <1>3, <1>6, <1>7, Rewritten
<1>9. reopened' \in Opened /\ (reopened' # "yes" => reopened = reopened')
  BY <1>1, <1>8 DEF Typed, TypeOK, Opened
<1>10. \A i \in hit : edge'[i].until # 0 /\ edge'[i].score = edge[i].score
  BY <1>1, <1>3, <1>5, <1>6, Types
<1>11. reopened' = "yes" \/ Open' = {}
  <2>1. SUFFICES ASSUME reopened' # "yes", NEW i \in Open' PROVE FALSE
    OBVIOUS
  <2>2. i \in Edges /\ edge'[i].until = 0
    BY <1>8 DEF Open
  <2> QED
    BY <1>3, <1>8, <1>9, <1>10, <2>1, <2>2
<1>12. job'["gleif"].st = st /\ job'["gleif"].seen = seen
  <2> DEFINE next == [job["gleif"] EXCEPT !.step = "succeed"]
  <2>1. job["gleif"] \in Job
    BY <1>1, Types
  <2>2. job' = [job EXCEPT !["gleif"] = next] /\ next.st = st /\ next.seen = seen
    BY <1>2, <2>1 DEF Then, Job
  <2> QED
    BY <1>1, <2>2, Types
<1>13. Found("gleif", job["gleif"].st, "succeed", job["gleif"].seen)'
  BY <1>1, <1>11, <1>12 DEF Found
<1>14. Typed' /\ Alone' /\ (\A t \in Source : Sees(t)')
  BY <1>1, <1>2, <1>6, <1>8, <1>9, <1>13, GoesOn DEF Steps
<1>15. Settled'
  <2>1. reopened = "never" => seen.by \in {seen.score, "psc"}
    BY <1>4, Known DEF Taken
  <2> QED
    BY <1>9, <1>11, <1>12, <2>1 DEF Settled
<1>16. OneSource' /\ Higher
  BY <1>1, <1>8, <1>10, Types DEF OneSource, Higher
<1> QED
  BY <1>8, <1>14, <1>15, <1>16 DEF Inv

\* ... and the ultimate relationship goes on as the one active edge.
LEMMA GleifSucceedsKeeps == ASSUME Inv, GleifSucceeds PROVE Inv' /\ Higher
<1> DEFINE st == job["gleif"].st
           seen == job["gleif"].seen
           no == FALSE
           start == [day |-> seen.ultimate, bound |-> no]
           e == [by |-> seen.by, score |-> seen.score, dated |-> "none", stake |-> no,
                 start |-> start, until |-> 0, marker |-> "indirect", inferred |-> no,
                 also |-> no, ultimate |-> 0, link |-> "none"]
<1>1. /\ Typed /\ "gleif" \in Source /\ Busy("gleif") /\ "gleif" \in Writer
      /\ st \in Statement /\ seen \in Edge /\ At("gleif", "succeed")
      /\ reopened = "yes" \/ Open = {}
  BY Types DEF Inv, GleifSucceeds, At, Source, Busy, Sees, Found
<1>2. Draw(e) /\ Finish("gleif") /\ Applied(st)
  BY DEF GleifSucceeds
<1>3. no \in BOOLEAN /\ ~no /\ 0 \in Day
  BY DayAssumption DEF Day
<1> HIDE DEF no
<1>4. start \in Start
  BY <1>1, <1>3 DEF Edge, Start
<1> HIDE DEF start
<1>5. EdgeOk(e) /\ e.until = 0 /\ e.by = seen.by /\ e.score = seen.score /\ e.link = "none"
  BY <1>1, <1>3, <1>4 DEF EdgeOk, Edge, Marker, Link
<1> HIDE DEF e
<1>6. PICK k \in Slot \ Edges :
        /\ edge'[k] = e /\ \A i \in Slot \ {k} : edge'[i] = edge[i]
        /\ edge' \in [Slot -> Edge \cup {NoEdge}]
        /\ Edges' = Edges \cup {k} /\ reopened' = reopened
        /\ Open' = Open \cup (IF e.until = 0 THEN {k} ELSE {})
        /\ \A i \in Edges' : EdgeOk(edge'[i])
  BY <1>1, <1>2, <1>5, Drawn
<1>7. rr' \in Records /\ reopened' \in Opened
  BY <1>1, <1>2, <1>6, AppliedIs DEF Typed, TypeOK, Opened
<1>8. Typed' /\ Alone' /\ (\A t \in Source : Sees(t)') /\ ~At("gleif", "succeed")'
  BY <1>1, <1>2, <1>6, <1>7, Finishes
<1>9. OneOpen'
  BY <1>1, <1>6 DEF OneOpen
<1>10. Settled'
  <2>1. reopened = "never" => seen.by = seen.score \/ seen.by = "psc"
    BY <1>1 DEF Inv, Settled
  <2>2. reopened' = "never" => Open' \subseteq {k}
    BY <1>1, <1>6
  <2> QED
    BY <1>5, <1>6, <1>8, <2>1, <2>2 DEF Settled, Taken
<1>11. OneSource'
  BY <1>1 DEF OneSource
<1>12. Higher
  BY <1>1, <1>6, Types DEF Higher
<1> QED
  BY <1>8, <1>9, <1>10, <1>11, <1>12 DEF Inv

-----------------------------------------------------------------------------
(* The clean-up *)

\* What the survivor of a group becomes.
LEMMA FoldsTo ==
  ASSUME Typed, NEW group \in SUBSET Edges, NEW k \in group, NEW top \in group,
         FoldsInto(group, k, top)
  PROVE  \E f : /\ edge' = [edge EXCEPT ![k] = f]
                /\ EdgeOk(f) /\ f.until = edge[k].until
                /\ f.by = edge[top].by /\ f.score = edge[top].score /\ f.dated = edge[top].dated
                /\ \E i \in group : f.marker = edge[i].marker /\ f.inferred = edge[i].inferred
                /\ (\E i \in group : edge[i].marker # "none") => f.marker # "none"
                /\ f.also <=> \E i \in group : edge[i].also
<1> DEFINE e == edge[k]
           t == edge[top]
           start == Combine({edge[i].start : i \in group})
           Pairs == {<<edge[i].marker, edge[i].inferred>> : i \in group}
           Links == {edge[i].link : i \in group}
           Alsos == {edge[i].also : i \in group}
           Ultimates == {edge[i].ultimate : i \in group}
<1>1. \A i \in group : EdgeOk(edge[i])
  BY Types
<1>2. \A m \in Pairs : m[1] \in Marker /\ m[2] \in BOOLEAN /\ (m[2] => m[1] # "none")
  BY <1>1 DEF EdgeOk, Edge
<1>3. Links \subseteq Link /\ Alsos \subseteq BOOLEAN /\ Ultimates \subseteq Day
  BY <1>1 DEF EdgeOk, Edge
<1>4. start \in Start
  <2>1. {edge[i].start : i \in group} \in SUBSET Start
    BY <1>1 DEF EdgeOk, Edge
  <2> QED
    BY <2>1, CombineIsStart
<1> DEFINE no == FALSE
           Filled(m, l, b, u) ==
             [e EXCEPT !.by = t.by, !.score = t.score, !.dated = t.dated, !.stake = t.stake,
                       !.start = start, !.marker = m[1], !.inferred = m[2], !.link = l,
                       !.also = b, !.ultimate = u]
<1>5. PICK m \in Pairs, l \in Links, b \in Alsos, u \in Ultimates :
        /\ edge' = [edge EXCEPT ![k] = Filled(m, l, b, u)]
        /\ m \in Given(<<e.marker, e.inferred>>, <<"none", no>>, Pairs)
        /\ b \in Given(e.also, no, Alsos)
  <2> DEFINE ms == Given(<<e.marker, e.inferred>>, <<"none", no>>, Pairs)
             ls == Given(e.link, "none", Links)
             bs == Given(e.also, no, Alsos)
             us == Given(e.ultimate, 0, Ultimates)
  <2>1. \E m \in ms, l \in ls, b \in bs, u \in us : edge' = [edge EXCEPT ![k] = Filled(m, l, b, u)]
    BY DEF FoldsInto
  <2>2. /\ <<e.marker, e.inferred>> \in Pairs /\ e.link \in Links
        /\ e.also \in Alsos /\ e.ultimate \in Ultimates
    OBVIOUS
  <2> HIDE DEF Pairs, Links, Alsos, Ultimates, no, Filled
  <2>3. ms \subseteq Pairs /\ ls \subseteq Links /\ bs \subseteq Alsos /\ us \subseteq Ultimates
    BY <2>2 DEF Given
  <2> HIDE DEF ms, ls, bs, us
  <2>4. PICK m \in Pairs, l \in Links, b \in Alsos, u \in Ultimates :
          m \in ms /\ b \in bs /\ edge' = [edge EXCEPT ![k] = Filled(m, l, b, u)]
    BY <2>1, <2>3
  <2> QED
    BY <2>4 DEF ms, bs
<1>6. EdgeOk(e) /\ EdgeOk(t)
  BY <1>1
<1>7. \E i \in group : m[1] = edge[i].marker /\ m[2] = edge[i].inferred
  BY DEF Pairs
<1>8. ASSUME NEW i \in group, edge[i].marker # "none" PROVE m[1] # "none"
  <2> DEFINE ps == {<<edge[x].marker, edge[x].inferred>> : x \in group}
             own == <<e.marker, e.inferred>>
             blank == <<"none", no>>
  <2>1. \A p \in ps : p[1] = "none" => p = blank
    <3>1. SUFFICES ASSUME NEW p \in ps, p[1] = "none" PROVE p = blank
      OBVIOUS
    <3>2. PICK x \in group : p = <<edge[x].marker, edge[x].inferred>>
      OBVIOUS
    <3>3. edge[x].marker = "none" /\ edge[x].inferred \in BOOLEAN /\ ~edge[x].inferred
      BY <1>1, <3>1, <3>2 DEF EdgeOk, Edge
    <3>4. edge[x].inferred = no
      BY <3>3
    <3> QED
      BY <3>2, <3>3, <3>4
  <2>2. <<edge[i].marker, edge[i].inferred>> \in ps /\ own \in ps
    OBVIOUS
  <2>3. <<edge[i].marker, edge[i].inferred>> # blank
    BY <1>8
  <2>4. m \in Given(own, blank, ps) /\ blank[1] = "none"
    BY <1>5
  <2> HIDE DEF ps, own, blank
  <2>5. CASE own = blank
    <3>1. m \in ps \ {blank}
      BY <2>2, <2>3, <2>4, <2>5 DEF Given
    <3> QED
      BY <2>1, <3>1
  <2>6. CASE own # blank
    <3>1. m = own
      BY <2>4, <2>6 DEF Given
    <3> QED
      BY <2>1, <2>2, <2>6, <3>1
  <2> QED
    BY <2>5, <2>6
<1>9. b <=> \E i \in group : edge[i].also
  <2>1. /\ \A i \in group : edge[i].also \in BOOLEAN /\ edge[i].also \in Alsos
        /\ \A a \in Alsos : \E i \in group : a = edge[i].also
        /\ e.also \in Alsos /\ b \in Given(e.also, no, Alsos) /\ ~no /\ no \in BOOLEAN
    BY <1>1, <1>5 DEF EdgeOk, Edge
  <2> HIDE DEF Alsos, no, e
  <2>2. CASE e.also = no /\ Alsos # {no}
    <3>1. b \in Alsos /\ b # no
      BY <2>1, <2>2 DEF Given
    <3>2. PICK i \in group : b = edge[i].also
      BY <2>1, <3>1
    <3>3. b \in BOOLEAN
      BY <2>1, <3>2
    <3> QED
      BY <2>1, <3>1, <3>2, <3>3
  <2>3. CASE ~(e.also = no /\ Alsos # {no})
    <3>1. b = e.also
      BY <2>1, <2>3 DEF Given
    <3>2. PICK j \in group : e.also = edge[j].also
      BY <2>1
    <3>3. CASE e.also
      BY <3>1, <3>2, <3>3
    <3>4. CASE ~e.also
      <4>1. e.also = no
        BY <2>1, <3>2, <3>4
      <4>2. \A i \in group : edge[i].also = no
        BY <2>1, <2>3, <4>1
      <4> QED
        BY <2>1, <3>1, <4>1, <4>2
    <3> QED
      BY <3>3, <3>4
  <2> QED
    BY <2>2, <2>3
<1> HIDE DEF start, Pairs, Links, Alsos, Ultimates, no
<1> DEFINE f == Filled(m, l, b, u)
<1> HIDE DEF e, t
<1>10. /\ EdgeOk(f) /\ f.until = e.until
       /\ f.by = t.by /\ f.score = t.score /\ f.dated = t.dated
       /\ f.marker = m[1] /\ f.inferred = m[2] /\ f.also = b
  BY <1>2, <1>3, <1>4, <1>6 DEF EdgeOk, Edge
<1> HIDE DEF f
<1>11. \E i \in group : f.marker = edge[i].marker /\ f.inferred = edge[i].inferred
  BY <1>7, <1>10
<1>12. (\E i \in group : edge[i].marker # "none") => f.marker # "none"
  BY <1>8, <1>10
<1>13. f.also <=> \E i \in group : edge[i].also
  BY <1>9, <1>10
<1> QED
  BY <1>5, <1>10, <1>11, <1>12, <1>13 DEF e, t, f

\* A group of edges that ended on one day, or are all active, is folded into one.
LEMMA DedupFoldsKeeps == ASSUME Inv, Overlap = FALSE, DedupFolds PROVE Inv' /\ Higher
<1>1. /\ Typed /\ OneOpen /\ fold = {} /\ \A s \in Source : job[s] = NoJob
      /\ UNCHANGED <<job, redo, rr, given, reopened, made, crashes>>
  BY DEF Inv, DedupFolds
<1>2. PICK day \in Day :
        LET group == {i \in Edges : edge[i].until = day} IN
        /\ Cardinality(group) > 1
        /\ \E k \in {i \in group : \A j \in group : Preferred(edge[i], edge[j])} :
             /\ \E top \in Top(group, k) : FoldsInto(group, k, top)
             /\ fold' = group \ {k}
  BY DEF DedupFolds
<1> DEFINE group == {i \in Edges : edge[i].until = day}
<1>3. PICK k \in group :
        /\ \E top \in Top(group, k) : FoldsInto(group, k, top)
        /\ fold' = group \ {k}
  BY <1>2
<1>4. PICK top \in Top(group, k) : FoldsInto(group, k, top)
  BY <1>3
<1>5. top \in group
  BY <1>4 DEF Top
<1>6. group \in SUBSET Edges /\ Cardinality(group) > 1
  BY <1>2
<1>7. \A i \in group : edge[i].until = day
  OBVIOUS
<1>8. day = 0 => group = Open
  BY DEF Open
<1> HIDE DEF group
<1>9. PICK e : /\ edge' = [edge EXCEPT ![k] = e]
               /\ EdgeOk(e) /\ e.until = edge[k].until
               /\ e.by = edge[top].by /\ e.score = edge[top].score /\ e.dated = edge[top].dated
  BY <1>1, <1>3, <1>4, <1>5, <1>6, FoldsTo
<1>10. e.until = day
  BY <1>3, <1>9, <1>7
<1>11. k \in Edges /\ k \in Slot
  BY <1>1, <1>3, <1>6, Types
<1>12. /\ edge'[k] = e /\ \A i \in Slot \ {k} : edge'[i] = edge[i]
       /\ edge' \in [Slot -> Edge \cup {NoEdge}]
  BY <1>1, <1>9, <1>10, <1>11 DEF EdgeOk, Typed, TypeOK
<1>13. e # NoEdge
  BY <1>9, <1>10 DEF EdgeOk, Edge, NoEdge, Source
<1>14. Edges' = Edges
  BY <1>11, <1>12, <1>13 DEF Edges
<1>15. Open' = Open
  BY <1>3, <1>7, <1>9, <1>10, <1>11, <1>12, <1>14, Types DEF Open
<1>16. \A i \in Edges' : EdgeOk(edge'[i])
  BY <1>1, <1>9, <1>10, <1>11, <1>12, <1>14, Types
<1>17. Typed'
  <2>1. \A i \in Slot : edge'[i] # NoEdge /\ edge'[i].inferred => edge'[i].marker # "none"
    BY <1>16 DEF Edges, EdgeOk
  <2>2. fold' \subseteq Edges'
    BY <1>3, <1>6, <1>14
  <2>3. TypeOK'
    BY <1>1, <1>12, <1>14, <2>1, <2>2, Types DEF Typed, TypeOK
  <2> QED
    BY <1>1, <2>2, <2>3 DEF Typed, Busy
<1>18. Alone' /\ (\A t \in Source : Sees(t)') /\ Claiming' = Claiming
  BY <1>1 DEF Alone, Sees, Busy, Claiming, At
<1>19. OneOpen'
  BY <1>1, <1>15 DEF OneOpen
<1>20. reopened = "never" => day # 0
  <2>1. SUFFICES ASSUME reopened = "never", day = 0 PROVE FALSE
    OBVIOUS
  <2>2. \A i, j \in Open : i = j
    BY <1>1, <2>1 DEF OneOpen
  <2>3. Open \in SUBSET Slot
    BY <1>1, Types
  <2>4. Cardinality(Open) <= 1 /\ Cardinality(Open) \in Nat
    BY <2>2, <2>3, Few, SlotAssumption, FS_Subset, FS_CardinalityType
  <2> QED
    BY <1>6, <1>8, <2>1, <2>4
<1>21. reopened = "never" => k \notin Open
  BY <1>3, <1>7, <1>20 DEF Open
<1>22. Settled'
  <2>1. ~At("gleif", "succeed")'
    BY <1>1 DEF At, Source
  <2> QED
    BY <1>1, <1>12, <1>15, <1>18, <1>21, <2>1, Types, StillSettled
<1>23. OneSource'
  <2>1. ASSUME reopened = "never", "gleif" \notin Writer PROVE Whole(e)
    <3>1. Whole(edge[top])
      BY <1>5, <1>6, <1>7, <1>20, <2>1 DEF Inv, OneSource, Half
    <3> QED
      BY <1>9, <1>10, <3>1 DEF Whole
  <2>2. ASSUME NEW i \in Edges', reopened' = "never", "gleif" \notin Writer
        PROVE  \/ Whole(edge'[i])
               \/ /\ i \in Edges /\ Half(edge[i])
                  /\ edge'[i].by = edge[i].by /\ edge'[i].until = edge[i].until
                  /\ edge'[i].link = edge[i].link
    <3>1. CASE i = k
      BY <1>1, <1>12, <2>1, <2>2, <3>1
    <3>2. CASE i # k
      BY <1>1, <1>12, <1>14, <2>2, <3>2, Known, Types
    <3> QED
      BY <3>1, <3>2
  <2> QED
    BY <1>1, <1>18, <2>2, StillOne
<1>24. Higher
  BY <1>1, <1>12, <1>21, Types DEF Higher
<1> QED
  BY <1>17, <1>18, <1>19, <1>22, <1>23, <1>24 DEF Inv

\* The others of the group are deleted.
LEMMA DedupDeletesKeeps == ASSUME Inv, DedupDeletes PROVE Inv' /\ Higher
<1>1. /\ Typed /\ OneOpen /\ fold # {} /\ fold' = {} /\ fold \subseteq Edges
      /\ edge' = [i \in Slot |-> IF i \in fold THEN NoEdge ELSE edge[i]]
      /\ reopened' = IF reopened = "yes" /\ Cardinality(Open \ fold) <= 1 THEN "cleaned" ELSE reopened
      /\ UNCHANGED <<job, redo, rr, given, made, crashes>>
  BY DEF Inv, DedupDeletes, Typed
<1>2. \A s \in Source : job[s] = NoJob
  BY <1>1 DEF Inv, Alone, Busy
<1>3. /\ \A i \in Slot \ fold : edge'[i] = edge[i]
      /\ \A i \in fold : edge'[i] = NoEdge
      /\ edge' \in [Slot -> Edge \cup {NoEdge}]
  BY <1>1, Types DEF Typed, TypeOK
<1>4. Edges' = Edges \ fold /\ Open' = Open \ fold
  <2>1. Edges' = Edges \ fold
    BY <1>1, <1>3, Types DEF Edges
  <2> QED
    BY <1>3, <2>1, Types DEF Open, Edges
<1>5. \A i \in Edges' : EdgeOk(edge'[i]) /\ edge'[i] = edge[i] /\ i \in Edges
  BY <1>1, <1>3, <1>4, Types
<1>6. reopened' \in Opened /\ (reopened' = "never" => reopened = "never")
  BY <1>1 DEF Typed, TypeOK, Opened
<1>7. Typed'
  <2>1. \A i \in Slot : edge'[i] # NoEdge /\ edge'[i].inferred => edge'[i].marker # "none"
    BY <1>5 DEF Edges, EdgeOk
  <2>2. TypeOK'
    BY <1>1, <1>2, <1>3, <1>6, <2>1 DEF Typed, TypeOK, Opened
  <2> QED
    BY <1>1, <2>2 DEF Typed, Busy
<1>8. Alone' /\ (\A t \in Source : Sees(t)') /\ Claiming' = Claiming
  BY <1>1, <1>2 DEF Alone, Sees, Busy, Claiming, At
<1>9. OneOpen'
  <2>1. SUFFICES ASSUME reopened' # "yes" PROVE \A i, j \in Open' : i = j
    BY DEF OneOpen
  <2>2. CASE reopened = "yes"
    <3>1. Cardinality(Open \ fold) <= 1 /\ Open \ fold \in SUBSET Slot
      BY <1>1, <2>1, <2>2, Types
    <3> QED
      BY <1>4, <3>1, Few
  <2>3. CASE reopened # "yes"
    BY <1>1, <1>4, <2>3 DEF OneOpen
  <2> QED
    BY <2>2, <2>3
<1>10. Settled'
  <2>1. ~At("gleif", "succeed")'
    BY <1>1, <1>2 DEF At, Source
  <2> QED
    BY <1>4, <1>5, <1>6, <1>8, <2>1, StillSettled DEF Open
<1>11. OneSource'
  <2>1. ASSUME NEW i \in Edges', reopened' = "never", "gleif" \notin Writer
        PROVE  \/ Whole(edge'[i])
               \/ /\ i \in Edges /\ Half(edge[i])
                  /\ edge'[i].by = edge[i].by /\ edge'[i].until = edge[i].until
                  /\ edge'[i].link = edge[i].link
    BY <1>5, <1>6, <2>1, Known
  <2> QED
    BY <1>6, <1>8, <2>1, StillOne
<1>12. Higher
  <2>1. \A i \in Open' : edge'[i] = edge[i]
    BY <1>4, <1>5 DEF Open
  <2> QED
    BY <2>1 DEF Higher
<1> QED
  BY <1>7, <1>8, <1>9, <1>10, <1>11, <1>12 DEF Inv

\* A run dies: a delta's record stays to be applied again.
LEMMA CrashKeeps == ASSUME Inv, NEW s \in Source, s \in Writer, Crash(s) PROVE Inv' /\ Higher
<1>1. /\ Typed /\ OneOpen /\ Busy(s) /\ fold = {} /\ fold' = {}
      /\ \A t \in Source \ {s} : ~Busy(t) /\ job[t] = NoJob
      /\ UNCHANGED <<edge, fold, rr, given, reopened, made>>
      /\ crashes < MaxCrashes /\ crashes' = crashes + 1
      /\ job[s].st \in Says(s) /\ job[s].st \in Statement /\ redo[s] \subseteq {job[s].st}
  <2>1. Typed /\ OneOpen /\ Busy(s)
    BY DEF Inv, Crash, Busy
  <2> QED
    BY <2>1, Others, Types DEF Crash
<1>2. \A t \in Source : job'[t] = NoJob /\ ~Busy(t)'
  BY <1>1, Types DEF Crash, Busy
<1>3. job' \in [Source -> {NoJob}]
  BY <1>1, <1>2 DEF Crash, Typed
<1>4. /\ \A t \in Source \ {s} : redo'[t] = redo[t]
      /\ redo'[s] = IF s \in {"psc", "gleif"} THEN {job[s].st} ELSE redo[s]
      /\ redo' \in [Source -> SUBSET Statement]
  BY <1>1, Types DEF Crash, Typed
<1>5. \A t \in Source : redo'[t] \subseteq Says(t) /\ Cardinality(redo'[t]) <= 1
  <2>1. Cardinality({job[s].st}) = 1
    BY FS_Singleton
  <2>2. \A t \in Source : redo[t] \subseteq Says(t) /\ Cardinality(redo[t]) <= 1
    BY <1>1 DEF Typed, TypeOK
  <2>3. redo'[s] \subseteq Says(s) /\ Cardinality(redo'[s]) <= 1
    <3>1. CASE s \in {"psc", "gleif"}
      BY <1>1, <1>4, <2>1, <3>1
    <3>2. CASE s \notin {"psc", "gleif"}
      BY <1>4, <2>2, <3>2
    <3> QED
      BY <3>1, <3>2
  <2> QED
    BY <1>4, <2>2, <2>3
<1>6. TypeOK'
  <2>1. crashes' \in 0 .. MaxCrashes
    BY <1>1, BoundAssumption DEF Typed, TypeOK
  <2> QED
    BY <1>1, <1>2, <1>5, <2>1 DEF Typed, TypeOK
<1>7. Typed'
  <2>1. \A t \in Source : redo'[t] # {} => t \in Writer
    BY <1>1, <1>4 DEF Typed
  <2>2. \A t \in Source : \A a, b \in redo'[t] : a = b
    BY <1>1, <1>4 DEF Typed
  <2> QED
    BY <1>1, <1>2, <1>3, <1>4, <1>6, <2>1, <2>2 DEF Typed
<1>8. Alone' /\ \A t \in Source : Sees(t)'
  BY <1>2 DEF Alone, Sees
<1>9. Claiming \subseteq Claiming'
  <2>1. CASE s = "psc"
    BY <1>1, <1>4, <2>1 DEF Claiming
  <2>2. CASE s # "psc"
    <3>1. ~At("psc", "update")
      BY <1>1, <2>2 DEF At, Source
    <3> QED
      BY <1>4, <2>2, <3>1 DEF Claiming, Source
  <2> QED
    BY <2>1, <2>2
<1>10. Edges' = Edges /\ Open' = Open
  BY <1>1 DEF Edges, Open
<1>11. OneOpen'
  BY <1>1, <1>10 DEF OneOpen
<1>12. ~At("gleif", "succeed")'
  BY <1>2 DEF At, Source
<1>13. Settled' /\ OneSource'
  BY <1>1, <1>9, <1>10, <1>12 DEF Inv, Settled, OneSource, Taken, Half, Whole, Outranks
<1>14. Higher
  BY <1>1 DEF Higher
<1> QED
  BY <1>7, <1>8, <1>11, <1>13, <1>14 DEF Inv

-----------------------------------------------------------------------------
(* All steps *)

LEMMA InitInv == ASSUME Init PROVE Inv
<1>1. Edges = {} /\ Open = {} /\ Claiming = {}
  BY DEF Init, Edges, Open, Claiming, At, Source
<1>2. \A s \in Source : ~Busy(s) /\ job[s] = NoJob /\ redo[s] = {}
  BY DEF Init, Busy
<1>3. TypeOK
  <2>1. Cardinality({}) = 0
    BY FS_EmptySet
  <2>2. edge \in [Slot -> Edge \cup {NoEdge}] /\ \A i \in Slot : edge[i] = NoEdge
    BY DEF Init
  <2>3. rr \in [{"direct", "indirect"} -> [on : BOOLEAN, day : Day]]
    <3>1. 0 \in Day
      BY DayAssumption DEF Day
    <3> DEFINE no == FALSE
               r == [on |-> no, day |-> 0]
    <3>2. no \in BOOLEAN /\ rr = [m \in {"direct", "indirect"} |-> r]
      BY DEF Init
    <3> HIDE DEF no
    <3>3. r \in [on : BOOLEAN, day : Day]
      BY <3>1, <3>2
    <3> HIDE DEF r
    <3> QED
      BY <3>2, <3>3
  <2>4. given \in [Source -> SUBSET Start] /\ fold \subseteq Slot /\ reopened = "never"
    BY DEF Init
  <2>5. made \in 0 .. MaxStatements /\ crashes \in 0 .. MaxCrashes
    BY BoundAssumption DEF Init
  <2>6. \A s \in Source : redo[s] \subseteq Says(s) /\ Cardinality(redo[s]) <= 1
    BY <1>2, <2>1
  <2>7. edge \in [Slot -> Edge \cup {NoEdge}]
        /\ \A i \in Slot : edge[i] # NoEdge /\ edge[i].inferred => edge[i].marker # "none"
    BY <2>2
  <2>8. \A s \in Source : job[s] = NoJob
    BY <1>2
  <2> HIDE DEF Init
  <2> QED
    BY ONLY <2>3, <2>4, <2>5, <2>6, <2>7, <2>8, Zenon DEF TypeOK
<1>4. Typed
  BY <1>1, <1>2, <1>3 DEF Typed, Init, Job
<1> QED
  BY <1>1, <1>2, <1>4 DEF Inv, Alone, Sees, OneOpen, Settled, OneSource, At, Source

LEMMA NextKeeps == ASSUME Inv, Overlap = FALSE, Next PROVE Inv' /\ Higher
<1> USE DEF Source
<1>1. CASE "sec" \in Writer /\ SecStep
  <2>1. ASSUME NEW st \in Says("sec"), SecFinds(st) PROVE Inv' /\ Higher
    BY <1>1, <2>1, SecFindsKeeps
  <2>2. CASE SecUpdatesOwn
    BY <2>2, SecUpdatesOwnKeeps
  <2>3. CASE SecShares
    BY <2>3, SecSharesKeeps
  <2>4. CASE Creates("sec")
    BY <2>4, CreatesKeeps
  <2> QED
    BY <1>1, <2>1, <2>2, <2>3, <2>4 DEF SecStep
<1>2. CASE "wikidata" \in Writer /\ WikidataStep
  <2>1. ASSUME NEW st \in Says("wikidata"), WikidataFinds(st) PROVE Inv' /\ Higher
    BY <1>2, <2>1, WikidataFindsKeeps
  <2>2. CASE WikidataConfirms
    BY <2>2, WikidataConfirmsKeeps
  <2>3. CASE Creates("wikidata")
    BY <2>3, CreatesKeeps
  <2> QED
    BY <1>2, <2>1, <2>2, <2>3 DEF WikidataStep
<1>3. CASE "psc" \in Writer /\ PscStep
  <2>1. ASSUME NEW st \in Says("psc"), PscFinds(st) PROVE Inv' /\ Higher
    BY <1>3, <2>1, PscFindsKeeps
  <2>2. ASSUME NEW st \in Says("psc"), PscVanished(st) PROVE Inv' /\ Higher
    BY <1>3, <2>2, PscVanishedKeeps
  <2>3. CASE PscAdopts
    BY <2>3, PscAdoptsKeeps
  <2>4. CASE PscTakesOver
    BY <2>4, PscTakesOverKeeps
  <2>5. CASE PscUpdates
    BY <2>5, PscUpdatesKeeps
  <2>6. CASE PscClaims
    BY <2>6, PscClaimsKeeps
  <2>7. CASE Creates("psc")
    BY <2>7, CreatesKeeps
  <2> QED
    BY <1>3, <2>1, <2>2, <2>3, <2>4, <2>5, <2>6, <2>7 DEF PscStep
<1>4. CASE "gleif" \in Writer /\ GleifStep
  <2>1. ASSUME NEW st \in Says("gleif"), GleifFinds(st) PROVE Inv' /\ Higher
    BY <1>4, <2>1, GleifFindsKeeps
  <2>2. ASSUME NEW st \in Says("gleif"), GleifEnds(st) PROVE Inv' /\ Higher
    BY <1>4, <2>2, GleifEndsKeeps
  <2>3. CASE GleifCreates
    BY <2>3, GleifCreatesKeeps
  <2>4. CASE GleifRestates
    BY <2>4, GleifRestatesKeeps
  <2>5. CASE GleifFolds
    BY <2>5, GleifFoldsKeeps
  <2>6. CASE GleifRetires
    BY <2>6, GleifRetiresKeeps
  <2>7. CASE GleifCloses
    BY <2>7, GleifClosesKeeps
  <2>8. CASE GleifSucceeds
    BY <2>8, GleifSucceedsKeeps
  <2> QED
    BY <1>4, <2>1, <2>2, <2>3, <2>4, <2>5, <2>6, <2>7, <2>8 DEF GleifStep
<1>5. CASE DedupFolds
  BY <1>5, DedupFoldsKeeps
<1>6. CASE DedupDeletes
  BY <1>6, DedupDeletesKeeps
<1>7. CASE \E s \in Writer : Crash(s)
  BY <1>7, CrashKeeps, WriterAssumption
<1> QED
  BY <1>1, <1>2, <1>3, <1>4, <1>5, <1>6, <1>7 DEF Next

LEMMA StutterKeeps == ASSUME Inv, UNCHANGED vars PROVE Inv'
<1>1. Edges' = Edges /\ Open' = Open /\ Claiming' = Claiming
  BY DEF vars, Edges, Open, Claiming, At
<1>2. Typed' /\ Alone' /\ OneOpen'
  BY <1>1 DEF vars, Inv, Typed, TypeOK, Busy, Alone, OneOpen
<1>3. \A s \in Source : Sees(s)'
  BY <1>1 DEF vars, Inv, Sees, Found, Busy, Own, Linked, Outranks
<1>4. Settled' /\ OneSource'
  BY <1>1 DEF vars, Inv, Settled, OneSource, Taken, Half, Whole, Outranks, At
<1> QED
  BY <1>2, <1>3, <1>4 DEF Inv

-----------------------------------------------------------------------------
(* What follows *)

\* The inductive invariant: each job finds, when it acts, what it saw when it was
\* taken up - which is what makes the pair's one edge and its one answer last.
THEOREM Invariance == ASSUME Overlap = FALSE PROVE Spec => []Inv
<1>1. Init => Inv
  BY InitInv
<1>2. Inv /\ [Next]_vars => Inv'
  BY NextKeeps, StutterKeeps
<1> QED
  BY <1>1, <1>2, PTL DEF Spec

\* Writers that run one after another draw a second active edge only beside one
\* that a delta reopened, wherever a run dies.
THEOREM OneActive == ASSUME Overlap = FALSE PROVE Spec => []OneActiveUnlessReopened
<1>1. Inv => OneActiveUnlessReopened
  <2>1. SUFFICES ASSUME Inv, reopened # "yes" PROVE Cardinality(Open) <= 1
    BY DEF OneActiveUnlessReopened, OneActiveEdge
  <2>2. Open \in SUBSET Slot
    BY <2>1, Types DEF Inv
  <2> QED
    BY <2>1, <2>2, Few DEF Inv, OneOpen
<1> QED
  BY <1>1, Invariance, PTL

\* The answer of an active edge moves only to a source that ranks strictly higher.
THEOREM AnswerOnlyRises == ASSUME Overlap = FALSE PROVE Spec => HigherAnswerKept
<1>1. Inv /\ [Next]_vars => [Higher]_vars
  BY NextKeeps
<1>2. Spec => [][Higher]_vars
  BY <1>1, Invariance, PTL DEF Spec
<1> QED
  BY <1>2 DEF HigherAnswerKept, Higher

\* Where GLEIF does not write, the id, stake, score and date of a pair's edge are
\* one source's, once an interrupted delta has been applied again.
THEOREM AnswerIsOneSource ==
  ASSUME Overlap = FALSE, "gleif" \notin Writer PROVE Spec => []AnswerOfOneSource
<1>1. Inv => AnswerOfOneSource
  <2>1. SUFFICES ASSUME Inv, AtRest, \A s \in Source : redo[s] = {}, reopened = "never",
                        NEW i \in Edges
                 PROVE  edge[i].score = edge[i].by /\ edge[i].dated \in {edge[i].by, "none"}
    BY DEF AnswerOfOneSource
  <2>2. Claiming = {}
    BY <2>1 DEF Claiming, AtRest, At, Source
  <2>3. Whole(edge[i])
    BY <2>1, <2>2, Known DEF Half
  <2> QED
    BY <2>3 DEF Whole
<1> QED
  BY <1>1, Invariance, PTL

-----------------------------------------------------------------------------
(* GLEIF's two relationships, on edges nobody else marks *)

\* GLEIF's records of relationships, one that goes on stated without an end, and
\* no other source than Wikidata, which marks no edge.
RelationshipsOnly ==
  /\ Writer \subseteq {"gleif", "wikidata"}
  /\ "gleif" \in Writer =>
       \A st \in Says("gleif") : st.marker # "none" /\ (st.kind = "states" => st.until = 0)
  /\ "wikidata" \in Writer => \A st \in Says("wikidata") : st.marker = "none"

\* An edge is GLEIF's with a stated marker, or Wikidata's with none; one that
\* carries both relationships is active.
Plain(e) ==
  /\ ~e.inferred /\ e.by = e.score /\ e.by \in {"gleif", "wikidata"}
  /\ e.by = "gleif" <=> e.marker # "none"
  /\ e.also => e.until = 0 /\ e.marker = "direct"
AllPlain == \A i \in Edges : Plain(edge[i])

\* GLEIF's active edges tell the same.
Marked == {i \in Open : Own(i)}
Alike  == \A i, j \in Marked : edge[i].marker = edge[j].marker /\ edge[i].also = edge[j].also

\* What GLEIF's job took up.
TakesUp(st, step, seen) ==
  /\ step \in {"create", "write"} => st.kind = "states"
  /\ step \in {"retire", "close", "succeed"} => st.kind = "ends"
  /\ step = "write" /\ (seen.until # 0 \/ seen.marker = "none") => Marked = {}
  /\ step = "retire" /\ st.marker = "direct" => \A i \in Open : ~edge[i].also
  /\ step \in {"close", "succeed"} => st.marker = "direct"
  /\ step = "succeed" => Plain(seen) /\ seen.by = "gleif" /\ Marked = {}
TakenUp == Busy("gleif") => TakesUp(job["gleif"].st, job["gleif"].step, job["gleif"].seen)

\* A relationship that is on is carried by an active edge the clean-up leaves.
Carries(i, m) == edge[i].marker = m \/ (m = "indirect" /\ edge[i].also)
Carried ==
  ~At("gleif", "succeed") =>
    \A m \in {"direct", "indirect"} : rr[m].on => \E i \in Marked \ fold : Carries(i, m)

Pair == AllPlain /\ Alike /\ TakenUp /\ Carried

\* Who holds an edge shows in its marker.
LEMMA Marks ==
  ASSUME Inv, AllPlain
  PROVE  /\ \A i \in Edges : /\ Own(i) <=> edge[i].by = "gleif"
                             /\ ~Own(i) => edge[i].marker = "none" /\ ~edge[i].also
         /\ \A i \in Edges : edge[i].also => i \in Marked
         /\ Marked \subseteq Open /\ Marked = {i \in Edges : edge[i].by = "gleif" /\ edge[i].until = 0}
         /\ \A i \in Edges : edge[i].also \in BOOLEAN /\ edge[i].marker \in Marker
         /\ "gleif" \in Source /\ "wikidata" \in Source
<1>1. \A i \in Edges : Plain(edge[i]) /\ EdgeOk(edge[i])
  BY Types DEF AllPlain, Inv
<1>2. \A i \in Edges : /\ Own(i) <=> edge[i].by = "gleif"
                       /\ ~Own(i) => edge[i].marker = "none" /\ ~edge[i].also
                       /\ edge[i].also => Own(i) /\ i \in Open
                       /\ edge[i].also \in BOOLEAN /\ edge[i].marker \in Marker
  BY <1>1 DEF Plain, Own, Open, EdgeOk, Edge
<1> QED
  BY <1>2 DEF Marked, Open, Source

\* A job's last statement leaves nobody at work.
LEMMA Rests ==
  ASSUME Inv, NEW s \in Source, Busy(s), Finish(s)
  PROVE  /\ fold = {} /\ fold' = {} /\ TakenUp' /\ ~At("gleif", "succeed")'
         /\ \A t \in Source : ~Busy(t)'
<1>1. fold = {} /\ fold' = {}
  BY Others DEF Finish
<1>2. \A t \in Source : job'[t] = NoJob
  BY Others, Types DEF Inv, Finish
<1> QED
  BY <1>1, <1>2 DEF TakenUp, Busy, At, Source

\* A statement is taken up.
LEMMA TakesPair ==
  ASSUME Inv, Pair, Overlap = FALSE, NEW s \in Source, NEW st, NEW step, NEW seen,
         Takes(s, st, step, seen), s = "gleif" => TakesUp(st, step, seen) /\ step # "succeed"
  PROVE  Pair'
<1>1. /\ \A t \in Source : job[t] = NoJob
      /\ UNCHANGED <<edge, fold, rr>>
      /\ job' = [job EXCEPT ![s] = [step |-> step, st |-> st, seen |-> seen]]
  BY DEF Takes
<1>2. /\ \A t \in Source \ {s} : job'[t] = NoJob
      /\ job'[s].step = step /\ job'[s].st = st /\ job'[s].seen = seen
  BY <1>1, Types DEF Inv
<1>3. Edges' = Edges /\ Open' = Open /\ Marked' = Marked
  BY <1>1 DEF Edges, Open, Marked, Own
<1>4. "gleif" \in Source
  BY DEF Source
<1>5. ~At("gleif", "succeed") /\ ~At("gleif", "succeed")'
  BY <1>1, <1>2, <1>4 DEF At
<1>6. TakenUp'
  <2>1. CASE s = "gleif"
    <3>1. TakesUp(st, step, seen)'
      BY <1>1, <1>3, <2>1 DEF TakesUp, Plain
    <3> QED
      BY <1>2, <2>1, <3>1 DEF TakenUp
  <2>2. CASE s # "gleif"
    BY <1>2, <1>4, <2>2 DEF TakenUp, Busy
  <2> QED
    BY <2>1, <2>2
<1>7. AllPlain' /\ Alike' /\ Carried'
  BY <1>1, <1>3, <1>5 DEF Pair, AllPlain, Alike, Carried, Carries, Plain
<1> QED
  BY <1>6, <1>7 DEF Pair

LEMMA WikidataFindsPair ==
  ASSUME Inv, Pair, Overlap = FALSE, NEW st \in Says("wikidata"), WikidataFinds(st)
  PROVE  Pair'
<1>1. \E step \in Steps, seen \in Edge \cup {NoEdge} : Takes("wikidata", st, step, seen)
  <2>1. \A i \in Open : edge[i] \in Edge
    BY Types DEF Inv, EdgeOk
  <2> QED
    BY <2>1 DEF WikidataFinds, Steps
<1> QED
  BY <1>1, TakesPair DEF Source

LEMMA GleifFindsPair ==
  ASSUME Inv, Pair, Overlap = FALSE, NEW st \in Says("gleif"), GleifFinds(st)
  PROVE  Pair'
<1> DEFINE found == Existing(st.start.day)
<1>1. st.kind = "states" /\ "gleif" \in Source
  BY DEF GleifFinds, Source
<1>2. CASE found = {}
  <2>1. TakesUp(st, "create", NoEdge) /\ Takes("gleif", st, "create", NoEdge)
    BY <1>1, <1>2 DEF TakesUp, GleifFinds
  <2> QED
    BY <1>1, <2>1, TakesPair
<1>3. CASE found # {}
  <2>1. PICK i \in found : Takes("gleif", st, "write", edge[i])
    BY <1>3 DEF GleifFinds
  <2>2. Marked # {} => found = Marked
    BY DEF Existing, FirstOf, Marked
  <2>3. i \in Marked => edge[i].until = 0 /\ edge[i].marker # "none"
    BY DEF Marked, Open, Own
  <2>4. TakesUp(st, "write", edge[i])
    BY <1>1, <2>2, <2>3 DEF TakesUp
  <2> QED
    BY <1>1, <2>1, <2>4, TakesPair
<1> QED
  BY <1>2, <1>3

LEMMA GleifEndsPair ==
  ASSUME Inv, Pair, Overlap = FALSE, NEW st \in Says("gleif"), GleifEnds(st)
  PROVE  Pair'
<1> DEFINE both == {i \in Open : edge[i].also}
<1>1. st.kind = "ends" /\ "gleif" \in Source
  BY DEF GleifEnds, Source
<1>2. CASE both # {} /\ st.marker = "direct"
  <2>1. PICK i \in both : Takes("gleif", st, "close", edge[i])
    BY <1>2 DEF GleifEnds
  <2>2. TakesUp(st, "close", edge[i])
    BY <1>1, <1>2 DEF TakesUp
  <2> QED
    BY <1>1, <2>1, <2>2, TakesPair
<1>3. CASE ~(both # {} /\ st.marker = "direct")
  <2>1. Takes("gleif", st, "retire", NoEdge)
    BY <1>3 DEF GleifEnds
  <2>2. TakesUp(st, "retire", NoEdge)
    BY <1>1, <1>3 DEF TakesUp
  <2> QED
    BY <1>1, <2>1, <2>2, TakesPair
<1> QED
  BY <1>2, <1>3


\* What GLEIF's job applies.
LEMMA RecordIs ==
  ASSUME Inv, RelationshipsOnly, Busy("gleif")
  PROVE  LET st == job["gleif"].st IN
         /\ "gleif" \in Source /\ st \in Statement
         /\ st.marker \in {"direct", "indirect"}
         /\ st.kind = "states" => st.until = 0
         /\ st.kind = "ends" => st.until # 0
         /\ Applied(st) => /\ rr'[st.marker].on <=> st.kind = "states"
                           /\ \A m \in {"direct", "indirect"} : m # st.marker => rr'[m] = rr[m]
<1> DEFINE st == job["gleif"].st
<1>1. "gleif" \in Source /\ "gleif" \in Writer /\ st \in Says("gleif") /\ st \in Statement
  BY Types DEF Inv, Source
<1>2. st.marker \in {"direct", "indirect"} /\ (st.kind = "states" => st.until = 0)
  BY <1>1 DEF RelationshipsOnly, Statement, Marker
<1>3. st.kind = "ends" => st.until # 0
  BY <1>1, StatementAssumption
<1>4. rr \in [{"direct", "indirect"} -> [on : BOOLEAN, day : Day]]
  BY DEF Inv, Typed, TypeOK
<1> HIDE DEF st
<1>5. Applied(st) => /\ rr'[st.marker].on <=> st.kind = "states"
                     /\ \A m \in {"direct", "indirect"} : m # st.marker => rr'[m] = rr[m]
  <2> DEFINE on == st.kind = "states" /\ st.until = 0
             r  == [on |-> on, day |-> st.start.day]
  <2>1. r.on = on
    OBVIOUS
  <2> HIDE DEF on, r
  <2>2. Applied(st) => rr' = [rr EXCEPT ![st.marker] = r]
    BY DEF Applied, r, on
  <2>3. Applied(st) => /\ rr'[st.marker] = r
                       /\ \A m \in {"direct", "indirect"} : m # st.marker => rr'[m] = rr[m]
    BY <1>2, <1>4, <2>2
  <2>4. on <=> st.kind = "states"
    BY <1>2 DEF on
  <2> QED
    BY <2>1, <2>3, <2>4
<1> QED
  BY <1>1, <1>2, <1>3, <1>5 DEF st

\* GLEIF writes its relationship on every edge it has active, or makes one of them
\* active, so that they tell the same.
LEMMA PairWrites ==
  ASSUME Inv, RelationshipsOnly, Pair, At("gleif", "write"), Finish("gleif"),
         Applied(job["gleif"].st),
         NEW hit \in SUBSET Edges, hit # {}, Marked \subseteq hit,
         edge' \in [Slot -> Edge \cup {NoEdge}],
         \A i \in Slot : i \notin hit => edge'[i] = edge[i],
         NEW marker \in {"direct", "indirect"}, NEW also \in BOOLEAN, also => marker = "direct",
         \A i \in hit : /\ EdgeOk(edge'[i]) /\ edge'[i].by = "gleif" /\ edge'[i].score = "gleif"
                        /\ edge'[i].until = 0 /\ ~edge'[i].inferred
                        /\ edge'[i].marker = marker /\ edge'[i].also = also,
         \A m \in {"direct", "indirect"} :
           m = job["gleif"].st.marker \/ (rr[m].on /\ Marked # {}) =>
             marker = m \/ (m = "indirect" /\ also)
  PROVE  Pair'
<1>1. Busy("gleif") /\ Typed /\ "gleif" \in Source
  BY DEF At, Busy, Inv, Source
<1>2. Edges' = Edges
  <2>1. \A i \in hit : edge'[i] # NoEdge
    BY DEF EdgeOk, Edge, NoEdge, Source
  <2> QED
    BY <1>1, <2>1, Types DEF Edges
<1>3. fold = {} /\ fold' = {} /\ TakenUp' /\ ~At("gleif", "succeed")' /\ ~At("gleif", "succeed")
  BY <1>1, Rests DEF At
<1>4. Marked' = hit
  <2>1. ASSUME NEW i \in hit PROVE i \in Marked'
    BY <1>2, <2>1 DEF Marked, Own, Open
  <2>2. ASSUME NEW i \in Edges, i \notin hit PROVE i \notin Marked'
    <3>1. i \notin Marked /\ edge'[i] = edge[i]
      BY <1>1, <2>2, Types
    <3> QED
      BY <1>2, <3>1 DEF Marked, Own, Open
  <2> QED
    BY <1>2, <2>1, <2>2 DEF Marked, Open
<1>5. AllPlain'
  <2>1. ASSUME NEW i \in hit PROVE Plain(edge[i])'
    BY <2>1 DEF Plain
  <2>2. ASSUME NEW i \in Edges, i \notin hit PROVE Plain(edge[i])'
    BY <1>1, <2>2, Types DEF Pair, AllPlain, Plain
  <2> QED
    BY <1>2, <2>1, <2>2 DEF AllPlain
<1>6. Alike'
  BY <1>4 DEF Alike
<1>7. Carried'
  <2>1. SUFFICES ASSUME NEW m \in {"direct", "indirect"}, rr'[m].on
                 PROVE  \E i \in hit : Carries(i, m)'
    BY <1>3, <1>4 DEF Carried
  <2>2. m = job["gleif"].st.marker \/ (rr[m].on /\ Marked # {})
    BY <1>1, <1>3, <2>1, RecordIs DEF Pair, Carried
  <2> QED
    BY <2>2 DEF Carries
<1> QED
  BY <1>3, <1>5, <1>6, <1>7 DEF Pair

LEMMA GleifRestatesPair ==
  ASSUME Inv, RelationshipsOnly, Pair, GleifRestates
  PROVE  Pair'
<1> DEFINE st == job["gleif"].st
           seen == job["gleif"].seen
           adopts == seen.marker = "none" \/ seen.inferred
           hit == IF adopts THEN {i \in Open : ~Own(i)}
                  ELSE {i \in Edges : Own(i) /\ edge[i].marker = st.marker /\ edge[i].until = seen.until}
           no == FALSE
           start == Combine({seen.start, st.start})
           Now(e) == LET a == GleifAnswers(e) IN
             [a EXCEPT !.marker = IF adopts THEN st.marker ELSE @,
                       !.inferred = IF adopts THEN no ELSE @,
                       !.stake = IF seen.by = "gleif" /\ (st.stake \/ ~seen.also) THEN st.stake ELSE @,
                       !.start = start]
<1>1. /\ Typed /\ Busy("gleif") /\ "gleif" \in Source /\ At("gleif", "write")
      /\ (adopts \/ seen.marker = st.marker)
  BY DEF Inv, GleifRestates, At, Source, Busy
<1>2. PICK j \in Edges : edge[j] = seen /\ (j \in Open \/ Own(j))
  BY <1>1 DEF Inv, Sees, Found, At
<1>3. /\ edge' = [i \in Slot |-> IF i \in hit THEN Now(edge[i]) ELSE edge[i]]
      /\ Finish("gleif") /\ Applied(st)
  BY DEF GleifRestates, Rewrite
<1>4. /\ st \in Statement /\ st.marker \in {"direct", "indirect"} /\ st.kind = "states" /\ st.until = 0
      /\ seen.until # 0 \/ seen.marker = "none" => Marked = {}
  BY <1>1, RecordIs DEF Pair, TakenUp, TakesUp, At
<1>5. Plain(seen) /\ Plain(edge[j]) /\ EdgeOk(seen)
  BY <1>1, <1>2, Types DEF Pair, AllPlain
<1>6. adopts <=> seen.marker = "none"
  BY <1>5 DEF Plain
<1>7. /\ j \in hit /\ hit \in SUBSET Edges /\ Marked \subseteq hit
      /\ \A i \in hit : /\ edge[i].by = seen.by /\ edge[i].also = seen.also
                        /\ ~adopts => edge[i].marker = st.marker
  <2>1. CASE adopts
    <3>1. Marked = {} /\ ~Own(j) /\ j \in Open
      BY <1>2, <1>4, <1>6, <2>1 DEF Own
    <3>2. hit = {i \in Open : ~Own(i)} /\ hit \subseteq Edges
      BY <1>1, <2>1, Types
    <3>3. \A i \in Edges : ~Own(i) => edge[i].by = "wikidata" /\ ~edge[i].also /\ edge[i].also \in BOOLEAN
      BY Marks DEF Pair, AllPlain, Plain
    <3> HIDE DEF hit, adopts
    <3> QED
      BY <1>2, <2>1, <3>1, <3>2, <3>3
  <2>2. CASE ~adopts
    <3>1. hit = {i \in Edges : Own(i) /\ edge[i].marker = st.marker /\ edge[i].until = seen.until}
      BY <2>2
    <3>2. Own(j) /\ edge[j].marker = st.marker /\ edge[j].until = seen.until
      BY <1>1, <1>2, <1>5, <2>2 DEF Own
    <3>3. \A i \in Edges : Own(i) <=> edge[i].by = "gleif"
      BY Marks DEF Pair
    <3>4. seen.by = "gleif" /\ seen.also \in BOOLEAN /\ \A i \in Edges : edge[i].also \in BOOLEAN
      BY <1>2, <3>2, <3>3, Marks DEF Pair
    <3>5. CASE seen.until = 0
      <4>1. j \in Marked
        BY <1>2, <3>2, <3>5 DEF Marked, Open
      <4>2. \A i \in Marked : edge[i].marker = st.marker /\ edge[i].also = seen.also
        BY <1>2, <3>2, <4>1 DEF Pair, Alike
      <4>3. Marked = {i \in Edges : Own(i) /\ edge[i].until = 0}
        BY DEF Marked, Open
      <4>4. hit = Marked
        BY <3>1, <3>5, <4>2, <4>3
      <4> HIDE DEF hit, adopts
      <4> QED
        BY <2>2, <3>3, <3>4, <4>1, <4>2, <4>3, <4>4
    <3>6. CASE seen.until # 0
      <4>1. Marked = {}
        BY <1>4, <3>6
      <4>2. \A i \in Edges : edge[i].until # 0 => ~edge[i].also
        BY DEF Pair, AllPlain, Plain
      <4>3. \A i \in hit : i \in Edges /\ ~edge[i].also /\ edge[i].by = "gleif" /\ edge[i].marker = st.marker
        BY <3>1, <3>3, <3>6, <4>2
      <4>4. j \in hit
        BY <1>2, <3>1, <3>2
      <4> HIDE DEF hit, adopts
      <4> QED
        BY <1>2, <3>4, <4>1, <4>3, <4>4
    <3> QED
      BY <3>5, <3>6
  <2> QED
    BY <2>1, <2>2
<1>8. start \in Start /\ no \in BOOLEAN /\ ~no
  BY <1>4, <1>5, CombineIsStart DEF EdgeOk, Edge, Statement
<1> HIDE DEF hit, no, start
<1>9. ASSUME NEW i \in hit
      PROVE  /\ EdgeOk(Now(edge[i])) /\ Now(edge[i]).by = "gleif" /\ Now(edge[i]).score = "gleif"
             /\ Now(edge[i]).until = 0 /\ ~Now(edge[i]).inferred
             /\ Now(edge[i]).marker = st.marker /\ Now(edge[i]).also = seen.also
  <2> DEFINE e == edge[i]
             a == GleifAnswers(e)
  <2>1. EdgeOk(e) /\ Plain(e) /\ e.by = seen.by /\ e.also = seen.also
        /\ (~adopts => e.marker = st.marker)
    BY <1>1, <1>7, Types DEF Pair, AllPlain
  <2>2. EdgeOk(a) /\ a.marker = e.marker /\ a.inferred = e.inferred
    BY <1>1, <2>1, GleifAnswersIs
  <2>3. a.by = "gleif" /\ a.score = "gleif" /\ a.until = 0 /\ a.also = e.also
    <3>1. e \in Edge
      BY <2>1 DEF EdgeOk
    <3>2. CASE seen.by = "gleif"
      <4>1. a = [e EXCEPT !.until = st.until, !.score = "gleif", !.dated = "gleif"]
        BY <3>2 DEF GleifAnswers
      <4> HIDE DEF a, e
      <4> QED
        BY <1>4, <2>1, <3>1, <3>2, <4>1 DEF Edge
    <3>3. CASE seen.by # "gleif"
      <4>1. seen.by = "wikidata" /\ seen.score = "wikidata"
        BY <1>5, <3>3 DEF Plain
      <4>2. Outranks("gleif", st, seen)
        BY <4>1 DEF Outranks, Above, Official, Credibility
      <4>3. a = Answered("gleif", st, e)
        BY <3>3, <4>2 DEF GleifAnswers
      <4> HIDE DEF a, e
      <4> QED
        BY <1>4, <3>1, <4>3 DEF Edge, Answered
    <3> QED
      BY <3>2, <3>3
  <2> DEFINE marker == IF adopts THEN st.marker ELSE a.marker
             inferred == IF adopts THEN no ELSE a.inferred
             stake == IF seen.by = "gleif" /\ (st.stake \/ ~seen.also) THEN st.stake ELSE a.stake
  <2>4. a \in Edge
    BY <2>2 DEF EdgeOk
  <2>5. /\ marker = st.marker /\ marker \in Marker /\ marker # "none"
        /\ inferred \in BOOLEAN /\ ~inferred /\ stake \in BOOLEAN
    BY <1>4, <1>8, <2>1, <2>2, <2>4 DEF Plain, Edge, Statement, Marker
  <2>6. Now(e) = [a EXCEPT !.marker = marker, !.inferred = inferred, !.stake = stake, !.start = start]
    OBVIOUS
  <2> HIDE DEF Now, a, marker, inferred, stake
  <2>7. /\ EdgeOk(Now(e)) /\ Now(e).by = a.by /\ Now(e).score = a.score /\ Now(e).also = a.also
        /\ Now(e).until = a.until /\ Now(e).marker = marker /\ Now(e).inferred = inferred
    BY <1>8, <2>4, <2>5, <2>6 DEF EdgeOk, Edge
  <2> QED
    BY <2>1, <2>3, <2>5, <2>7 DEF e
<1> HIDE DEF Now
<1>10. /\ \A i \in hit : edge'[i] = Now(edge[i])
       /\ \A i \in Slot : i \notin hit => edge'[i] = edge[i]
       /\ edge' \in [Slot -> Edge \cup {NoEdge}]
  <2>1. hit \subseteq Slot /\ \A i \in hit : EdgeOk(Now(edge[i]))
    BY <1>1, <1>7, <1>9, Types
  <2> QED
    BY <1>1, <1>3, <2>1 DEF EdgeOk, Typed, TypeOK
<1>11. \A i \in hit : /\ EdgeOk(edge'[i]) /\ edge'[i].by = "gleif" /\ edge'[i].score = "gleif"
                      /\ edge'[i].until = 0 /\ ~edge'[i].inferred
                      /\ edge'[i].marker = st.marker /\ edge'[i].also = seen.also
  BY <1>9, <1>10
<1>12. seen.also \in BOOLEAN /\ (seen.also => st.marker = "direct")
  <2>1. seen.also => seen.marker = "direct"
    BY <1>5 DEF Plain
  <2>2. seen.also => ~adopts
    BY <1>6, <2>1
  <2> QED
    BY <1>1, <1>5, <2>1, <2>2 DEF EdgeOk, Edge
<1>13. \A m \in {"direct", "indirect"} :
         m = st.marker \/ (rr[m].on /\ Marked # {}) => st.marker = m \/ (m = "indirect" /\ seen.also)
  <2>1. SUFFICES ASSUME NEW m \in {"direct", "indirect"}, rr[m].on, Marked # {}
                 PROVE  st.marker = m \/ (m = "indirect" /\ seen.also)
    OBVIOUS
  <2>2. seen.until = 0 /\ seen.marker # "none" /\ ~At("gleif", "succeed")
    BY <1>1, <1>4, <2>1 DEF At
  <2>3. j \in Marked /\ seen.marker = st.marker
    BY <1>1, <1>2, <1>5, <1>6, <2>2 DEF Marked, Own, Open, Plain
  <2>4. PICK i \in Marked : Carries(i, m)
    BY <2>1, <2>2 DEF Pair, Carried
  <2> QED
    BY <1>2, <2>3, <2>4 DEF Pair, Alike, Carries
<1> DEFINE marker == st.marker
           also == seen.also
<1>14. /\ Finish("gleif") /\ Applied(job["gleif"].st) /\ hit \in SUBSET Edges /\ hit # {}
       /\ marker \in {"direct", "indirect"} /\ also \in BOOLEAN /\ (also => marker = "direct")
  BY <1>3, <1>4, <1>7, <1>12
<1>15. \A i \in hit : /\ EdgeOk(edge'[i]) /\ edge'[i].by = "gleif" /\ edge'[i].score = "gleif"
                      /\ edge'[i].until = 0 /\ ~edge'[i].inferred
                      /\ edge'[i].marker = marker /\ edge'[i].also = also
  BY <1>11
<1>16. \A m \in {"direct", "indirect"} :
         m = job["gleif"].st.marker \/ (rr[m].on /\ Marked # {}) =>
           marker = m \/ (m = "indirect" /\ also)
  BY <1>13
<1> HIDE DEF marker, also
<1> QED
  BY <1>1, <1>7, <1>10, <1>14, <1>15, <1>16, PairWrites


LEMMA GleifFoldsPair ==
  ASSUME Inv, RelationshipsOnly, Pair, GleifFolds
  PROVE  Pair'
<1> DEFINE st == job["gleif"].st
           seen == job["gleif"].seen
           mine == seen.by = "gleif" \/ Outranks("gleif", st, seen)
           kept == IF st.marker = "indirect" \/ st.start.day = 0 THEN seen.start.day ELSE st.start.day
           other == IF st.marker = "indirect" THEN st.start.day ELSE seen.start.day
           hit == {i \in Edges : Own(i) /\ edge[i].until = seen.until}
           yes == TRUE
           ultimate == IF other = kept THEN 0 ELSE other
           start == Combine({[day |-> kept, bound |-> FALSE]} \cup {c \in {seen.start} : c.bound})
           Now(e) == LET a == GleifAnswers(e) IN
             [a EXCEPT !.marker = "direct", !.also = yes, !.ultimate = ultimate,
                       !.stake = IF mine /\ st.stake /\ (st.marker = "direct" \/ ~seen.stake)
                                 THEN yes ELSE @,
                       !.start = start]
<1>1. /\ Typed /\ Busy("gleif") /\ "gleif" \in Source /\ At("gleif", "write")
      /\ seen.marker # "none" /\ ~seen.inferred
  BY DEF Inv, GleifFolds, At, Source, Busy
<1>2. PICK j \in Edges : edge[j] = seen
  BY <1>1 DEF Inv, Sees, Found, At
<1>3. /\ edge' = [i \in Slot |-> IF i \in hit THEN Now(edge[i]) ELSE edge[i]]
      /\ Finish("gleif") /\ Applied(st)
  BY DEF GleifFolds, Rewrite
<1>4. /\ st \in Statement /\ st.marker \in {"direct", "indirect"} /\ st.kind = "states" /\ st.until = 0
      /\ seen.until # 0 => Marked = {}
  BY <1>1, RecordIs DEF Pair, TakenUp, TakesUp, At
<1>5. EdgeOk(seen) /\ seen.by = "gleif"
  BY <1>1, <1>2, Types DEF Pair, AllPlain, Plain
<1>6. /\ hit # {} /\ hit \in SUBSET Edges /\ Marked \subseteq hit
      /\ \A i \in hit : edge[i].by = "gleif"
  BY <1>1, <1>2, <1>4, Marks DEF Pair, Marked, Open, Own
<1>7. start \in Start /\ ultimate \in Day /\ yes \in BOOLEAN /\ yes
  <2>1. kept \in Day /\ other \in Day /\ 0 \in Day
    BY <1>4, <1>5, DayAssumption DEF EdgeOk, Edge, Statement, Start, Day
  <2> HIDE DEF kept, other
  <2> DEFINE no == FALSE
  <2>2. no \in BOOLEAN
    OBVIOUS
  <2> HIDE DEF no
  <2>3. [day |-> kept, bound |-> no] \in Start
    BY <2>1, <2>2 DEF Start
  <2>4. {[day |-> kept, bound |-> no]} \cup {c \in {seen.start} : c.bound} \in SUBSET Start
    BY <1>5, <2>3 DEF EdgeOk, Edge
  <2>5. start \in Start
    BY <2>4, CombineIsStart DEF no
  <2> QED
    BY <2>1, <2>5
<1> HIDE DEF hit, yes, start, ultimate
<1>8. ASSUME NEW i \in hit
      PROVE  /\ EdgeOk(Now(edge[i])) /\ Now(edge[i]).by = "gleif" /\ Now(edge[i]).score = "gleif"
             /\ Now(edge[i]).until = 0 /\ ~Now(edge[i]).inferred
             /\ Now(edge[i]).marker = "direct" /\ Now(edge[i]).also = yes
  <2> DEFINE e == edge[i]
             a == GleifAnswers(e)
  <2>1. EdgeOk(e) /\ Plain(e) /\ e.by = "gleif"
    BY <1>1, <1>6, Types DEF Pair, AllPlain
  <2>2. EdgeOk(a) /\ a.inferred = e.inferred
    BY <1>1, <2>1, GleifAnswersIs
  <2>3. a.by = "gleif" /\ a.score = "gleif" /\ a.until = 0
    <3>1. e \in Edge
      BY <2>1 DEF EdgeOk
    <3>2. a = [e EXCEPT !.until = st.until, !.score = "gleif", !.dated = "gleif"]
      BY <1>5 DEF GleifAnswers
    <3> HIDE DEF a, e
    <3> QED
      BY <1>4, <2>1, <3>1, <3>2 DEF Edge
  <2> DEFINE stake == IF mine /\ st.stake /\ (st.marker = "direct" \/ ~seen.stake) THEN yes ELSE a.stake
  <2>4. a \in Edge /\ ~a.inferred
    BY <2>1, <2>2 DEF EdgeOk, Plain
  <2>5. stake \in BOOLEAN
    BY <1>7, <2>4 DEF Edge
  <2>6. Now(e) = [a EXCEPT !.marker = "direct", !.also = yes, !.ultimate = ultimate,
                           !.stake = stake, !.start = start]
    OBVIOUS
  <2> HIDE DEF Now, a, stake
  <2>7. /\ EdgeOk(Now(e)) /\ Now(e).by = a.by /\ Now(e).score = a.score /\ Now(e).also = yes
        /\ Now(e).until = a.until /\ Now(e).marker = "direct" /\ Now(e).inferred = a.inferred
    BY <1>7, <2>4, <2>5, <2>6 DEF EdgeOk, Edge, Marker
  <2> QED
    BY <2>3, <2>4, <2>7 DEF e
<1> HIDE DEF Now
<1>9. /\ \A i \in hit : edge'[i] = Now(edge[i])
      /\ \A i \in Slot : i \notin hit => edge'[i] = edge[i]
      /\ edge' \in [Slot -> Edge \cup {NoEdge}]
  <2>1. hit \subseteq Slot /\ \A i \in hit : EdgeOk(Now(edge[i]))
    BY <1>1, <1>6, <1>8, Types
  <2> QED
    BY <1>1, <1>3, <2>1 DEF EdgeOk, Typed, TypeOK
<1> DEFINE marker == "direct"
<1>10. \A i \in hit : /\ EdgeOk(edge'[i]) /\ edge'[i].by = "gleif" /\ edge'[i].score = "gleif"
                      /\ edge'[i].until = 0 /\ ~edge'[i].inferred
                      /\ edge'[i].marker = marker /\ edge'[i].also = yes
  BY <1>8, <1>9
<1>11. marker \in {"direct", "indirect"} /\ yes \in BOOLEAN /\ (yes => marker = "direct")
  BY <1>7
<1>12. \A m \in {"direct", "indirect"} :
         m = job["gleif"].st.marker \/ (rr[m].on /\ Marked # {}) =>
           marker = m \/ (m = "indirect" /\ yes)
  BY <1>7
<1>13. \A i \in Slot : i \notin hit => edge'[i] = edge[i]
  BY <1>9
<1>14. At("gleif", "write") /\ Finish("gleif") /\ Applied(job["gleif"].st)
  BY <1>1, <1>3
<1>15. edge' \in [Slot -> Edge \cup {NoEdge}]
  BY <1>9
<1> HIDE DEF marker, st, seen, mine, kept, other
<1> QED
  BY <1>6, <1>10, <1>11, <1>12, <1>13, <1>14, <1>15, PairWrites

\* A new edge beside none of GLEIF's that is active.
LEMMA PairDraws ==
  ASSUME Inv, RelationshipsOnly, Pair, Busy("gleif"), Finish("gleif"), Applied(job["gleif"].st),
         Marked = {}, NEW e, EdgeOk(e), Draw(e), Plain(e), e.until = 0, e.by = "gleif", ~e.also,
         \A m \in {"direct", "indirect"} :
           IF At("gleif", "succeed") THEN rr'[m].on => e.marker = m
           ELSE m = job["gleif"].st.marker => e.marker = m
  PROVE  Pair'
<1>1. PICK k \in Slot \ Edges :
        /\ edge'[k] = e /\ \A i \in Slot \ {k} : edge'[i] = edge[i]
        /\ Edges' = Edges \cup {k}
        /\ Open' = Open \cup (IF e.until = 0 THEN {k} ELSE {})
  BY Drawn DEF Inv
<1>2. fold = {} /\ fold' = {} /\ TakenUp' /\ ~At("gleif", "succeed")'
  BY Rests DEF Source
<1>3. \A i \in Edges : i # k /\ edge'[i] = edge[i]
  BY <1>1, Types DEF Inv
<1>4. Marked' = {k}
  <2>1. Own(k)'
    BY <1>1 DEF Own, Plain
  <2>2. \A i \in Open : ~Own(i)'
    BY <1>3, Types DEF Marked, Own, Inv
  <2> QED
    BY <1>1, <2>1, <2>2 DEF Marked
<1>5. AllPlain' /\ Alike'
  <2>1. Plain(edge[k])'
    BY <1>1 DEF Plain
  <2>2. \A i \in Edges : Plain(edge[i])'
    BY <1>3 DEF Pair, AllPlain, Plain
  <2> QED
    BY <1>1, <1>4, <2>1, <2>2 DEF AllPlain, Alike
<1>6. Carried'
  <2>1. SUFFICES ASSUME NEW m \in {"direct", "indirect"}, rr'[m].on
                 PROVE  Carries(k, m)'
    BY <1>2, <1>4 DEF Carried
  <2>2. e.marker = m
    <3>1. CASE At("gleif", "succeed")
      BY <2>1, <3>1
    <3>2. CASE ~At("gleif", "succeed")
      <4>1. ~rr[m].on
        BY <3>2 DEF Pair, Carried
      <4>2. m = job["gleif"].st.marker
        BY <2>1, <4>1, RecordIs
      <4> QED
        BY <3>2, <4>2
    <3> QED
      BY <3>1, <3>2
  <2> QED
    BY <1>1, <2>2 DEF Carries
<1> QED
  BY <1>2, <1>5, <1>6 DEF Pair

LEMMA GleifCreatesPair ==
  ASSUME Inv, RelationshipsOnly, Pair, GleifCreates
  PROVE  Pair'
<1> DEFINE st == job["gleif"].st
           e == Fresh("gleif", st)
<1>1. Busy("gleif") /\ "gleif" \in Source /\ At("gleif", "create")
  BY DEF GleifCreates, At, Busy, Source
<1>2. /\ st \in Statement /\ st.marker \in {"direct", "indirect"} /\ st.kind = "states" /\ st.until = 0
      /\ ~At("gleif", "succeed") /\ Open = {}
  BY <1>1, RecordIs DEF Pair, TakenUp, TakesUp, At, Inv, Sees, Found
<1>3. EdgeOk(e) /\ Whole(e) /\ e.until = 0
  BY <1>1, <1>2, FreshOk
<1>4. e.by = "gleif" /\ e.marker = st.marker /\ ~e.inferred /\ ~e.also
  BY DEF Fresh
<1>5. Draw(e) /\ Finish("gleif") /\ Applied(st)
  BY DEF GleifCreates
<1> HIDE DEF e
<1>6. Plain(e)
  BY <1>2, <1>3, <1>4 DEF Plain, Whole
<1>7. Marked = {}
  BY <1>2 DEF Marked
<1>8. \A m \in {"direct", "indirect"} :
        IF At("gleif", "succeed") THEN rr'[m].on => e.marker = m
        ELSE m = job["gleif"].st.marker => e.marker = m
  BY <1>2, <1>4
<1> QED
  BY <1>1, <1>3, <1>4, <1>5, <1>6, <1>7, <1>8, PairDraws

LEMMA GleifSucceedsPair ==
  ASSUME Inv, RelationshipsOnly, Pair, GleifSucceeds
  PROVE  Pair'
<1> DEFINE st == job["gleif"].st
           seen == job["gleif"].seen
           no == FALSE
           start == [day |-> seen.ultimate, bound |-> no]
           e == [by |-> seen.by, score |-> seen.score, dated |-> "none", stake |-> no,
                 start |-> start, until |-> 0, marker |-> "indirect", inferred |-> no,
                 also |-> no, ultimate |-> 0, link |-> "none"]
<1>1. Busy("gleif") /\ "gleif" \in Source /\ At("gleif", "succeed") /\ seen \in Edge
  BY Types DEF GleifSucceeds, At, Busy, Source, Inv, Sees, Found
<1>2. /\ st.kind = "ends" /\ st.marker = "direct" /\ Marked = {}
      /\ seen.by = "gleif" /\ seen.score = "gleif"
  BY <1>1 DEF Pair, TakenUp, TakesUp, At, Plain
<1>3. Draw(e) /\ Finish("gleif") /\ Applied(st)
  BY DEF GleifSucceeds
<1>4. no \in BOOLEAN /\ ~no /\ 0 \in Day
  BY DayAssumption DEF Day
<1> HIDE DEF no
<1>5. start \in Start
  BY <1>1, <1>4 DEF Edge, Start
<1> HIDE DEF start
<1>6. /\ EdgeOk(e) /\ e.until = 0 /\ e.by = "gleif" /\ e.score = "gleif" /\ e.marker = "indirect"
      /\ ~e.inferred /\ ~e.also
  BY <1>1, <1>2, <1>4, <1>5 DEF EdgeOk, Edge, Marker, Link, Source
<1> HIDE DEF e
<1>7. Plain(e)
  BY <1>6 DEF Plain
<1>8. \A m \in {"direct", "indirect"} :
        IF At("gleif", "succeed") THEN rr'[m].on => e.marker = m
        ELSE m = job["gleif"].st.marker => e.marker = m
  <2>1. ~rr'["direct"].on
    BY <1>1, <1>2, <1>3, RecordIs
  <2> QED
    BY <1>1, <1>6, <2>1
<1> QED
  BY <1>1, <1>2, <1>3, <1>6, <1>7, <1>8, PairDraws


LEMMA GleifRetiresPair ==
  ASSUME Inv, RelationshipsOnly, Pair, GleifRetires
  PROVE  Pair'
<1> DEFINE st == job["gleif"].st
           both == \E i \in Open : edge[i].also
           no == FALSE
           hit == IF both THEN {i \in Edges : edge[i].also}
                  ELSE {i \in Open : Own(i) /\ edge[i].marker = st.marker /\ edge[i].by = "gleif"}
           Now(e) == IF both THEN [e EXCEPT !.also = no, !.ultimate = 0]
                     ELSE [e EXCEPT !.until = st.until]
<1>1. Typed /\ Busy("gleif") /\ "gleif" \in Source /\ At("gleif", "retire") /\ ~At("gleif", "succeed")
  BY DEF Inv, GleifRetires, At, Source, Busy
<1>2. /\ edge' = [i \in Slot |-> IF i \in hit THEN Now(edge[i]) ELSE edge[i]]
      /\ Finish("gleif") /\ Applied(st)
  <2>1. CASE both
    BY <2>1 DEF GleifRetires, Rewrite
  <2>2. CASE ~both
    BY <2>2 DEF GleifRetires, Rewrite
  <2> QED
    BY <2>1, <2>2
<1>3. /\ st \in Statement /\ st.marker \in {"direct", "indirect"} /\ st.kind = "ends" /\ st.until # 0
      /\ both => st.marker = "indirect"
  BY <1>1, RecordIs DEF Pair, TakenUp, TakesUp, At
<1>4. fold = {} /\ fold' = {} /\ TakenUp' /\ ~At("gleif", "succeed")'
  BY <1>1, <1>2, Rests
<1>5. ~rr'[st.marker].on /\ \A m \in {"direct", "indirect"} : m # st.marker => rr'[m] = rr[m]
  BY <1>1, <1>2, <1>3, RecordIs
<1>6. CASE both
  <2>1. hit \subseteq Marked /\ \A i \in Edges : edge[i].also => i \in hit
    BY <1>6, Marks DEF Pair
  <2>2. PICK j \in Open : edge[j].also
    BY <1>6
  <2>3. \A i \in Marked : edge[i].also /\ edge[i].marker = "direct"
    <3>1. j \in Marked /\ edge[j].marker = "direct"
      BY <1>1, <2>2, Marks, Types DEF Pair, AllPlain, Plain
    <3> QED
      BY <2>2, <3>1, Marks DEF Pair, Alike, Marked, Open
  <2>4. no \in BOOLEAN /\ ~no
    OBVIOUS
  <2> HIDE DEF no
  <2>5. \A i \in hit : Now(edge[i]) = [edge[i] EXCEPT !.also = no, !.ultimate = 0]
    BY <1>6
  <2>6. Marked \subseteq Edges /\ hit = Marked
    BY <2>1, <2>3, Marks, Types DEF Pair, Inv
  <2> HIDE DEF hit, Now, both
  <2>7. ASSUME NEW i \in Marked
        PROVE  /\ edge'[i].by = edge[i].by /\ edge'[i].score = edge[i].score
               /\ edge'[i].until = edge[i].until /\ edge'[i].marker = edge[i].marker
               /\ edge'[i].inferred = edge[i].inferred /\ ~edge'[i].also /\ edge'[i] # NoEdge
    <3>1. edge[i] \in Edge /\ i \in Slot /\ edge'[i] = [edge[i] EXCEPT !.also = no, !.ultimate = 0]
      BY <1>1, <1>2, <2>5, <2>6, Types DEF EdgeOk
    <3> QED
      BY <2>4, <3>1 DEF Edge, NoEdge, Source
  <2>8. \A i \in Slot : i \notin Marked => edge'[i] = edge[i]
    BY <1>2, <2>6
  <2>9. Edges' = Edges
    BY <2>6, <2>7, <2>8 DEF Edges
  <2>10. Open' = Open /\ Marked' = Marked
    <3>1. \A i \in Edges : edge'[i].until = edge[i].until /\ edge'[i].marker = edge[i].marker
                           /\ edge'[i].inferred = edge[i].inferred
      BY <1>1, <2>7, <2>8, Types
    <3> QED
      BY <2>9, <3>1 DEF Marked, Own, Open
  <2>11. AllPlain'
    <3>1. \A i \in Marked : Plain(edge[i])'
      BY <2>6, <2>7 DEF Pair, AllPlain, Plain
    <3>2. \A i \in Edges \ Marked : Plain(edge[i])'
      BY <1>1, <2>8, Types DEF Pair, AllPlain, Plain
    <3> QED
      BY <2>9, <3>1, <3>2 DEF AllPlain
  <2>12. Alike'
    <3>1. \A i \in Marked : edge'[i].also = no
      <4>1. SUFFICES ASSUME NEW i \in Marked PROVE edge'[i].also = no
        OBVIOUS
      <4>2. edge[i] \in Edge /\ i \in Slot /\ edge'[i] = [edge[i] EXCEPT !.also = no, !.ultimate = 0]
        BY <1>1, <1>2, <2>5, <2>6, Types DEF EdgeOk
      <4> QED
        BY <4>2 DEF Edge
    <3>2. \A i \in Marked : edge'[i].marker = "direct"
      BY <2>3, <2>7
    <3> QED
      BY <2>10, <3>1, <3>2 DEF Alike
  <2>13. Carried'
    <3>1. SUFFICES ASSUME NEW m \in {"direct", "indirect"}, rr'[m].on
                   PROVE  \E i \in Marked : Carries(i, m)'
      BY <1>4, <2>10 DEF Carried
    <3>2. m = "direct" /\ rr[m].on
      BY <1>3, <1>5, <1>6, <3>1
    <3>3. PICK i \in Marked : TRUE
      BY <1>1, <3>2 DEF Pair, Carried
    <3> QED
      BY <2>3, <2>7, <3>2, <3>3 DEF Carries
  <2> QED
    BY <1>4, <2>11, <2>12, <2>13 DEF Pair
<1>7. CASE ~both
  <2>1. hit = {i \in Open : Own(i) /\ edge[i].marker = st.marker /\ edge[i].by = "gleif"}
    BY <1>7
  <2>2. \A i \in hit : Now(edge[i]) = [edge[i] EXCEPT !.until = st.until]
    BY <1>7
  <2>3. \A i \in Open : ~edge[i].also
    BY <1>7
  <2>4. hit = {i \in Marked : edge[i].marker = st.marker} /\ hit \subseteq Edges /\ Marked \subseteq Edges
    BY <2>1, Marks, Types DEF Pair, Marked, Inv
  <2> HIDE DEF hit, Now, both
  <2>5. ASSUME NEW i \in hit
        PROVE  /\ edge'[i].by = edge[i].by /\ edge'[i].score = edge[i].score
               /\ edge'[i].until = st.until /\ edge'[i].marker = edge[i].marker
               /\ edge'[i].inferred = edge[i].inferred /\ edge'[i].also = edge[i].also
               /\ edge'[i] # NoEdge
    <3>1. edge[i] \in Edge /\ i \in Slot /\ edge'[i] = [edge[i] EXCEPT !.until = st.until]
      BY <1>1, <1>2, <2>2, <2>4, Types DEF EdgeOk
    <3> QED
      BY <3>1 DEF Edge, NoEdge, Source
  <2>6. \A i \in Slot : i \notin hit => edge'[i] = edge[i]
    BY <1>2
  <2>7. Edges' = Edges
    BY <2>4, <2>5, <2>6 DEF Edges
  <2>8. Marked' = Marked \ hit
    <3>1. \A i \in hit : edge'[i].until # 0
      BY <1>3, <2>5
    <3>2. \A i \in Edges \ hit : edge'[i] = edge[i]
      BY <1>1, <2>6, Types
    <3> QED
      BY <2>7, <3>1, <3>2 DEF Marked, Own, Open
  <2>9. AllPlain'
    <3>1. \A i \in hit : Plain(edge[i])'
      BY <2>3, <2>4, <2>5 DEF Pair, AllPlain, Plain, Marked
    <3>2. \A i \in Edges \ hit : Plain(edge[i])'
      BY <1>1, <2>6, Types DEF Pair, AllPlain, Plain
    <3> QED
      BY <2>7, <3>1, <3>2 DEF AllPlain
  <2>10. \A i \in Marked \ hit : edge'[i] = edge[i] /\ i \in Open
    BY <1>1, <2>4, <2>6, Types DEF Marked
  <2>11. Alike'
    BY <2>8, <2>10 DEF Pair, Alike
  <2>12. Carried'
    <3>1. SUFFICES ASSUME NEW m \in {"direct", "indirect"}, rr'[m].on
                   PROVE  \E i \in Marked \ hit : Carries(i, m)'
      BY <1>4, <2>8 DEF Carried
    <3>2. m # st.marker /\ rr[m].on
      BY <1>5, <3>1
    <3>3. PICK i \in Marked : Carries(i, m)
      BY <1>1, <3>2 DEF Pair, Carried
    <3>4. edge[i].marker = m
      BY <2>3, <3>3 DEF Carries, Marked
    <3>5. i \in Marked \ hit
      BY <2>4, <3>2, <3>4
    <3> QED
      BY <2>10, <3>4, <3>5 DEF Carries
  <2> QED
    BY <1>4, <2>9, <2>11, <2>12 DEF Pair
<1> QED
  BY <1>6, <1>7

LEMMA GleifClosesPair ==
  ASSUME Inv, RelationshipsOnly, Pair, GleifCloses
  PROVE  Pair'
<1> DEFINE st == job["gleif"].st
           seen == job["gleif"].seen
           hit == {i \in Open : edge[i].also}
           no == FALSE
           Now(e) == [e EXCEPT !.until = st.until, !.also = no]
<1>1. Typed /\ Busy("gleif") /\ "gleif" \in Source /\ At("gleif", "close")
  BY DEF Inv, GleifCloses, At, Source, Busy
<1>2. /\ edge' = [i \in Slot |-> IF i \in hit THEN Now(edge[i]) ELSE edge[i]]
      /\ Then("gleif", "succeed")
  BY DEF GleifCloses, Rewrite
<1>3. PICK j \in Open : edge[j] = seen /\ seen.also
  BY <1>1 DEF Inv, Sees, Found, At
<1>4. /\ st \in Statement /\ st.kind = "ends" /\ st.until # 0 /\ st.marker = "direct"
      /\ j \in Marked /\ Plain(seen) /\ seen.by = "gleif"
  BY <1>1, <1>3, RecordIs, Marks, Types DEF Pair, TakenUp, TakesUp, At, AllPlain, Plain
<1>5. hit = Marked /\ Marked \subseteq Edges /\ no \in BOOLEAN /\ ~no
  BY <1>1, <1>3, <1>4, Marks, Types DEF Pair, Alike, Marked
<1> HIDE DEF hit, no
<1>6. ASSUME NEW i \in Marked
      PROVE  /\ edge'[i].by = edge[i].by /\ edge'[i].score = edge[i].score
             /\ edge'[i].until # 0 /\ edge'[i].marker = edge[i].marker
             /\ edge'[i].inferred = edge[i].inferred /\ ~edge'[i].also /\ edge'[i] # NoEdge
  <2>1. edge[i] \in Edge /\ i \in Slot /\ edge'[i] = Now(edge[i])
    BY <1>1, <1>2, <1>5, Types DEF EdgeOk
  <2> QED
    BY <1>4, <1>5, <2>1 DEF Edge, NoEdge, Source
<1>7. \A i \in Slot : i \notin Marked => edge'[i] = edge[i]
  BY <1>2, <1>5
<1>8. Edges' = Edges
  BY <1>5, <1>6, <1>7 DEF Edges
<1>9. Marked' = {}
  <2>1. \A i \in Edges \ Marked : edge'[i] = edge[i]
    BY <1>1, <1>7, Types
  <2> QED
    BY <1>6, <1>8, <2>1 DEF Marked, Own, Open
<1>10. AllPlain'
  <2>1. \A i \in Marked : Plain(edge[i])'
    BY <1>5, <1>6 DEF Pair, AllPlain, Plain
  <2>2. \A i \in Edges \ Marked : Plain(edge[i])'
    BY <1>1, <1>7, Types DEF Pair, AllPlain, Plain
  <2> QED
    BY <1>8, <2>1, <2>2 DEF AllPlain
<1>11. job'["gleif"].st = st /\ job'["gleif"].seen = seen /\ job'["gleif"].step = "succeed"
       /\ job'["gleif"] # NoJob
  <2> DEFINE next == [job["gleif"] EXCEPT !.step = "succeed"]
  <2>1. job["gleif"] \in Job
    BY <1>1, Types
  <2>2. job' = [job EXCEPT !["gleif"] = next] /\ next.st = st /\ next.seen = seen /\ next.step = "succeed"
    BY <1>2, <2>1 DEF Then, Job
  <2>3. next # NoJob
    BY <2>2 DEF NoJob
  <2> HIDE DEF next
  <2> QED
    BY <1>1, <2>2, <2>3, Types
<1>12. TakenUp'
  <2>1. TakesUp(job["gleif"].st, job["gleif"].step, job["gleif"].seen)'
    BY <1>4, <1>9, <1>11 DEF TakesUp, Plain
  <2> QED
    BY <2>1 DEF TakenUp
<1>13. Alike' /\ Carried'
  BY <1>9, <1>11 DEF Alike, Carried, At
<1> QED
  BY <1>10, <1>12, <1>13 DEF Pair


LEMMA WikidataConfirmsPair ==
  ASSUME Inv, Pair, WikidataConfirms
  PROVE  Pair'
<1> DEFINE st == job["wikidata"].st
           seen == job["wikidata"].seen
           start == Combine({seen.start, st.start})
           Now(e) == [e EXCEPT !.dated = IF @ = "none" THEN "wikidata" ELSE @,
                               !.start = IF start = seen.start THEN @ ELSE start]
<1>1. /\ Typed /\ "wikidata" \in Source /\ Busy("wikidata") /\ Finish("wikidata") /\ UNCHANGED rr
      /\ edge' = [i \in Slot |-> IF i \in Open THEN Now(edge[i]) ELSE edge[i]]
  BY DEF Inv, WikidataConfirms, At, Source, Busy, Rewrite, Done
<1> HIDE DEF start
<1>2. \A i \in Edges :
        /\ edge'[i].by = edge[i].by /\ edge'[i].score = edge[i].score
        /\ edge'[i].until = edge[i].until /\ edge'[i].marker = edge[i].marker
        /\ edge'[i].inferred = edge[i].inferred /\ edge'[i].also = edge[i].also
        /\ edge'[i] # NoEdge
  <2>1. SUFFICES ASSUME NEW i \in Edges
                 PROVE  /\ edge'[i].by = edge[i].by /\ edge'[i].score = edge[i].score
                        /\ edge'[i].until = edge[i].until /\ edge'[i].marker = edge[i].marker
                        /\ edge'[i].inferred = edge[i].inferred /\ edge'[i].also = edge[i].also
                        /\ edge'[i] # NoEdge
    OBVIOUS
  <2>2. edge[i] \in Edge /\ i \in Slot
    BY <1>1, Types DEF EdgeOk
  <2>3. edge'[i] = edge[i] \/ edge'[i] = Now(edge[i])
    BY <1>1, <2>2
  <2> DEFINE dated == IF edge[i].dated = "none" THEN "wikidata" ELSE edge[i].dated
             since == IF start = seen.start THEN edge[i].start ELSE start
  <2>4. Now(edge[i]) = [edge[i] EXCEPT !.dated = dated, !.start = since]
    OBVIOUS
  <2> HIDE DEF Now, dated, since
  <2>5. edge[i] # NoEdge
    BY DEF Edges
  <2>6. CASE edge'[i] = Now(edge[i])
    <3>1. edge'[i] = [edge[i] EXCEPT !.dated = dated, !.start = since]
      BY <2>4, <2>6
    <3> QED
      BY <2>2, <3>1 DEF Edge, NoEdge, Source
  <2> QED
    BY <2>3, <2>5, <2>6
<1>3. \A i \in Slot : i \notin Edges => edge'[i] = edge[i]
  BY <1>1 DEF Open
<1>4. Edges' = Edges
  BY <1>2, <1>3 DEF Edges
<1>5. Open' = Open /\ Marked' = Marked
  BY <1>2, <1>4 DEF Open, Marked, Own
<1>6. fold = {} /\ fold' = {} /\ TakenUp' /\ ~At("gleif", "succeed")' /\ ~At("gleif", "succeed")
  <2>1. ~At("gleif", "succeed")
    BY <1>1, Others DEF At, Source
  <2> QED
    BY <1>1, <2>1, Rests
<1>7. AllPlain'
  BY <1>2, <1>4 DEF Pair, AllPlain, Plain
<1>8. Marked \subseteq Edges
  BY <1>1, Types DEF Marked
<1>9. Alike'
  BY <1>2, <1>5, <1>8 DEF Pair, Alike
<1>10. \A m \in {"direct", "indirect"} : \A i \in Marked : Carries(i, m)' <=> Carries(i, m)
  BY <1>2, <1>8 DEF Carries
<1>11. rr' = rr
  BY <1>1
<1> HIDE DEF Now
<1>12. Carried'
  BY <1>5, <1>6, <1>10, <1>11 DEF Pair, Carried
<1> QED
  BY <1>6, <1>7, <1>9, <1>12 DEF Pair

LEMMA WikidataCreatesPair ==
  ASSUME Inv, RelationshipsOnly, Pair, Creates("wikidata")
  PROVE  Pair'
<1> DEFINE st == job["wikidata"].st
           e == Fresh("wikidata", st)
<1>1. /\ Typed /\ "wikidata" \in Source /\ Busy("wikidata") /\ Finish("wikidata") /\ UNCHANGED rr
      /\ Draw(e)
  BY DEF Inv, Creates, At, Source, Busy, Done
<1>2. st \in Statement /\ st.marker = "none"
  BY <1>1, Types DEF RelationshipsOnly
<1>3. EdgeOk(e) /\ Whole(e)
  BY <1>1, <1>2, FreshOk
<1>4. e.by = "wikidata" /\ e.marker = "none" /\ ~e.inferred /\ ~e.also
  BY <1>2 DEF Fresh
<1> HIDE DEF e
<1>5. PICK k \in Slot \ Edges :
        /\ edge'[k] = e /\ \A i \in Slot \ {k} : edge'[i] = edge[i]
        /\ Edges' = Edges \cup {k}
        /\ Open' = Open \cup (IF e.until = 0 THEN {k} ELSE {})
  BY <1>1, <1>3, Drawn
<1>6. \A i \in Edges : i # k /\ edge'[i] = edge[i]
  BY <1>1, <1>5, Types
<1>7. fold = {} /\ fold' = {} /\ TakenUp' /\ ~At("gleif", "succeed")' /\ ~At("gleif", "succeed")
  <2>1. ~At("gleif", "succeed")
    BY <1>1, Others DEF At, Source
  <2> QED
    BY <1>1, <2>1, Rests
<1>8. AllPlain'
  <2>1. Plain(edge[k])'
    BY <1>3, <1>4, <1>5 DEF Plain, Whole
  <2>2. \A i \in Edges : Plain(edge[i])'
    BY <1>6 DEF Pair, AllPlain, Plain
  <2> QED
    BY <1>5, <2>1, <2>2 DEF AllPlain
<1>9. Marked' = Marked
  <2>1. ~Own(k)'
    BY <1>4, <1>5 DEF Own
  <2>2. \A i \in Open : Own(i)' <=> Own(i)
    BY <1>1, <1>6, Types DEF Own
  <2> QED
    BY <1>5, <2>1, <2>2 DEF Marked
<1>10. \A i \in Marked : edge'[i] = edge[i]
  BY <1>1, <1>6, Types DEF Marked
<1>11. Alike'
  BY <1>9, <1>10 DEF Pair, Alike
<1>12. Carried'
  BY <1>1, <1>7, <1>9, <1>10 DEF Pair, Carried, Carries
<1> QED
  BY <1>7, <1>8, <1>11, <1>12 DEF Pair

\* The survivor of a group speaks for GLEIF when one of the group did.
LEMMA DedupFoldsPair ==
  ASSUME Inv, Pair, Overlap = FALSE, DedupFolds
  PROVE  Pair'
<1>1. /\ Typed /\ fold = {} /\ \A s \in Source : job[s] = NoJob
      /\ UNCHANGED <<job, redo, rr, given, reopened, made, crashes>>
  BY DEF Inv, DedupFolds
<1>2. PICK day \in Day :
        LET group == {i \in Edges : edge[i].until = day} IN
        /\ Cardinality(group) > 1
        /\ \E k \in {i \in group : \A j \in group : Preferred(edge[i], edge[j])} :
             /\ \E top \in Top(group, k) : FoldsInto(group, k, top)
             /\ fold' = group \ {k}
  BY DEF DedupFolds
<1> DEFINE group == {i \in Edges : edge[i].until = day}
<1>3. PICK k \in group :
        /\ \E top \in Top(group, k) : FoldsInto(group, k, top)
        /\ fold' = group \ {k}
  BY <1>2
<1>4. PICK top \in Top(group, k) : FoldsInto(group, k, top)
  BY <1>3
<1>5. top \in group /\ \A j \in group : ~Above(edge[j].score, edge[j].stake, edge[top].score, edge[top].stake)
  BY <1>4 DEF Top
<1>6. group \in SUBSET Edges /\ (\A i \in group : edge[i].until = day) /\ (day = 0 => group = Open)
      /\ (day # 0 => group \cap Open = {})
  BY DEF Open
<1> HIDE DEF group
<1>7. PICK f : /\ edge' = [edge EXCEPT ![k] = f]
               /\ EdgeOk(f) /\ f.until = edge[k].until
               /\ f.by = edge[top].by /\ f.score = edge[top].score
               /\ \E i \in group : f.marker = edge[i].marker /\ f.inferred = edge[i].inferred
               /\ (\E i \in group : edge[i].marker # "none") => f.marker # "none"
               /\ f.also <=> \E i \in group : edge[i].also
  BY <1>1, <1>3, <1>4, <1>5, <1>6, FoldsTo
<1>8. \A i \in group : Plain(edge[i]) /\ i \in Edges
  BY <1>6 DEF Pair, AllPlain
<1>9. k \in Edges /\ k \in Slot
  BY <1>1, <1>3, <1>6, Types
<1>10. /\ edge'[k] = f /\ \A i \in Slot \ {k} : edge'[i] = edge[i]
       /\ f # NoEdge
  <2>1. f # NoEdge
    BY <1>7 DEF EdgeOk, Edge, NoEdge, Source
  <2> QED
    BY <1>1, <1>7, <1>9, <2>1 DEF Typed, TypeOK
<1>11. Edges' = Edges
  BY <1>9, <1>10 DEF Edges
<1>12. \A i \in Edges \ {k} : edge'[i] = edge[i]
  BY <1>1, <1>10, Types
<1>13. (f.by = "gleif" <=> f.marker # "none") /\ f.by \in {"gleif", "wikidata"} /\ f.by = f.score /\ ~f.inferred
  <2>1. (\E i \in group : edge[i].by = "gleif") => f.by = "gleif"
    <3>1. SUFFICES ASSUME NEW i \in group, edge[i].by = "gleif", edge[top].by # "gleif" PROVE FALSE
      BY <1>7
    <3>2. edge[i].score = "gleif" /\ edge[top].score = "wikidata"
      BY <1>5, <1>8, <3>1 DEF Plain
    <3>3. Above(edge[i].score, edge[i].stake, edge[top].score, edge[top].stake)
      BY <3>2 DEF Above, Official, Credibility
    <3> QED
      BY <1>5, <3>3
  <2>2. (\E i \in group : edge[i].marker # "none") <=> f.marker # "none"
    BY <1>7
  <2>3. \A i \in group : edge[i].by = "gleif" <=> edge[i].marker # "none"
    BY <1>8 DEF Plain
  <2>4. f.by = "gleif" <=> f.marker # "none"
    BY <1>5, <1>7, <2>1, <2>2, <2>3
  <2> QED
    BY <1>5, <1>7, <1>8, <2>4 DEF Plain
<1>14. f.also => f.until = 0 /\ f.marker = "direct"
  <2>1. SUFFICES ASSUME f.also PROVE f.until = 0 /\ f.marker = "direct"
    OBVIOUS
  <2>2. PICK j \in group : edge[j].also
    BY <1>7, <2>1
  <2>3. edge[j].until = 0 /\ edge[j].marker = "direct" /\ j \in Marked
    BY <1>6, <1>8, <2>2, Marks DEF Pair, Plain
  <2>4. day = 0 /\ group = Open
    BY <1>6, <2>3
  <2>5. PICK i \in group : f.marker = edge[i].marker
    BY <1>7
  <2>6. f.marker # "none"
    BY <1>7, <2>2, <2>3
  <2>7. i \in Marked
    BY <1>6, <2>4, <2>5, <2>6, Marks DEF Pair, Marked
  <2>8. f.until = 0
    BY <1>3, <1>6, <1>7, <2>4
  <2> QED
    BY <2>3, <2>5, <2>7, <2>8 DEF Pair, Alike
<1>15. AllPlain'
  <2>1. Plain(edge[k])'
    BY <1>10, <1>13, <1>14 DEF Plain
  <2>2. \A i \in Edges \ {k} : Plain(edge[i])'
    BY <1>12 DEF Pair, AllPlain, Plain
  <2> QED
    BY <1>11, <2>1, <2>2 DEF AllPlain
<1>16. Open' = Open
  BY <1>3, <1>6, <1>7, <1>10, <1>11, <1>12 DEF Open
<1>17. ~At("gleif", "succeed") /\ ~At("gleif", "succeed")' /\ TakenUp'
  BY <1>1 DEF At, TakenUp, Busy, Source
<1>18. CASE day # 0
  <2>1. k \notin Open /\ \A i \in Open : i # k /\ i \in Edges /\ edge'[i] = edge[i]
    BY <1>1, <1>3, <1>6, <1>12, <1>18, Types
  <2>2. Marked' = Marked
    BY <1>16, <2>1 DEF Marked, Own
  <2>3. Marked \ fold' = Marked /\ \A i \in Marked : edge'[i] = edge[i]
    BY <1>3, <1>6, <1>18, <2>1 DEF Marked
  <2>4. Alike' /\ Carried'
    BY <1>1, <1>17, <2>2, <2>3 DEF Pair, Alike, Carried, Carries
  <2> QED
    BY <1>15, <1>17, <2>4 DEF Pair
<1>19. CASE day = 0
  <2>1. group = Open
    BY <1>6, <1>19
  <2>2. \A i \in Marked' : i \in Edges /\ (i # k => i \in Marked /\ edge'[i] = edge[i])
    BY <1>1, <1>12, <1>16, Types DEF Marked, Own
  <2>3. k \in Marked' => \E i \in Marked : f.marker = edge[i].marker
    <3>1. SUFFICES ASSUME f.marker # "none" PROVE \E i \in Marked : f.marker = edge[i].marker
      BY <1>10 DEF Marked, Own
    <3>2. PICK i \in group : f.marker = edge[i].marker
      BY <1>7
    <3>3. i \in Marked
      BY <1>6, <2>1, <3>1, <3>2, Marks DEF Pair, Marked
    <3> QED
      BY <3>2, <3>3
  <2>4. Marked # {} => k \in Marked'
    <3>1. SUFFICES ASSUME NEW i \in Marked PROVE k \in Marked'
      OBVIOUS
    <3>2. i \in group /\ edge[i].marker # "none"
      BY <2>1 DEF Marked, Own
    <3>3. f.marker # "none"
      BY <1>7, <3>2
    <3> QED
      BY <1>3, <1>10, <1>13, <1>16, <2>1, <3>3 DEF Marked, Own
  <2>5. \A i \in Marked : f.also = edge[i].also
    <3>1. SUFFICES ASSUME NEW i \in Marked PROVE f.also = edge[i].also
      OBVIOUS
    <3>2. i \in group /\ i \in Edges
      BY <1>6, <2>1 DEF Marked
    <3>3. f.also <=> edge[i].also
      <4>1. edge[i].also => f.also
        BY <1>7, <3>2
      <4>2. ASSUME f.also PROVE edge[i].also
        <5>1. PICK j \in group : edge[j].also
          BY <1>7, <4>2
        <5>2. j \in Marked
          BY <1>6, <5>1, Marks DEF Pair
        <5> QED
          BY <5>1, <5>2 DEF Pair, Alike
      <4> QED
        BY <4>1, <4>2
    <3>4. f.also \in BOOLEAN /\ edge[i].also \in BOOLEAN
      BY <1>7, <3>2, Marks DEF Pair, EdgeOk, Edge
    <3> QED
      BY <3>3, <3>4
  <2>6. k \in Marked' => \A i \in Marked : f.marker = edge[i].marker /\ f.also = edge[i].also
    BY <2>3, <2>5 DEF Pair, Alike
  <2>7. Alike'
    <3>1. \A i \in Marked' : IF i = k THEN edge'[i] = f ELSE i \in Marked /\ edge'[i] = edge[i]
      BY <1>10, <2>2
    <3> QED
      BY <2>6, <3>1 DEF Pair, Alike
  <2>8. Carried'
    <3>1. SUFFICES ASSUME NEW m \in {"direct", "indirect"}, rr[m].on
                   PROVE  k \in Marked' \ fold' /\ Carries(k, m)'
      BY <1>1 DEF Carried
    <3>2. PICK i \in Marked : Carries(i, m)
      BY <1>17, <3>1 DEF Pair, Carried
    <3>3. k \in Marked' /\ k \notin fold'
      BY <1>3, <2>4, <3>2
    <3>4. f.marker = edge[i].marker /\ f.also = edge[i].also
      BY <2>6, <3>2, <3>3
    <3> QED
      BY <1>10, <3>2, <3>3, <3>4 DEF Carries
  <2> QED
    BY <1>15, <1>17, <2>7, <2>8 DEF Pair
<1> QED
  BY <1>18, <1>19

LEMMA DedupDeletesPair ==
  ASSUME Inv, Pair, DedupDeletes
  PROVE  Pair'
<1>1. /\ Typed /\ fold # {} /\ fold' = {} /\ fold \subseteq Edges
      /\ edge' = [i \in Slot |-> IF i \in fold THEN NoEdge ELSE edge[i]]
      /\ UNCHANGED <<job, rr>>
  BY DEF Inv, DedupDeletes, Typed
<1>2. \A s \in Source : job[s] = NoJob
  BY <1>1 DEF Inv, Alone, Busy
<1>3. Edges' = Edges \ fold /\ \A i \in Edges' : edge'[i] = edge[i]
  BY <1>1, Types DEF Edges
<1>4. Marked' = Marked \ fold
  BY <1>3 DEF Marked, Own, Open
<1>5. \A i \in Marked' : i \in Marked /\ edge'[i] = edge[i]
  BY <1>3, <1>4 DEF Marked, Open
<1>6. AllPlain' /\ Alike'
  <2>1. AllPlain'
    BY <1>3 DEF Pair, AllPlain, Plain
  <2> QED
    BY <1>5, <2>1 DEF Pair, Alike
<1>7. TakenUp' /\ ~At("gleif", "succeed")
  BY <1>1, <1>2 DEF TakenUp, Busy, At, Source
<1>8. Carried'
  BY <1>1, <1>4, <1>5, <1>7 DEF Pair, Carried, Carries
<1> QED
  BY <1>6, <1>7, <1>8 DEF Pair

\* Any step but a crash.
LEMMA NextPair ==
  ASSUME Inv, RelationshipsOnly, Pair, Overlap = FALSE, Next, crashes' = crashes
  PROVE  Pair'
<1>1. "sec" \notin Writer /\ "psc" \notin Writer
  BY DEF RelationshipsOnly
<1>2. CASE "wikidata" \in Writer /\ WikidataStep
  <2>1. ASSUME NEW st \in Says("wikidata"), WikidataFinds(st) PROVE Pair'
    BY <2>1, WikidataFindsPair
  <2>2. CASE WikidataConfirms
    BY <2>2, WikidataConfirmsPair
  <2>3. CASE Creates("wikidata")
    BY <2>3, WikidataCreatesPair
  <2> QED
    BY <1>2, <2>1, <2>2, <2>3 DEF WikidataStep
<1>3. CASE "gleif" \in Writer /\ GleifStep
  <2>1. ASSUME NEW st \in Says("gleif"), GleifFinds(st) PROVE Pair'
    BY <2>1, GleifFindsPair
  <2>2. ASSUME NEW st \in Says("gleif"), GleifEnds(st) PROVE Pair'
    BY <2>2, GleifEndsPair
  <2>3. CASE GleifCreates
    BY <2>3, GleifCreatesPair
  <2>4. CASE GleifRestates
    BY <2>4, GleifRestatesPair
  <2>5. CASE GleifFolds
    BY <2>5, GleifFoldsPair
  <2>6. CASE GleifRetires
    BY <2>6, GleifRetiresPair
  <2>7. CASE GleifCloses
    BY <2>7, GleifClosesPair
  <2>8. CASE GleifSucceeds
    BY <2>8, GleifSucceedsPair
  <2> QED
    BY <1>3, <2>1, <2>2, <2>3, <2>4, <2>5, <2>6, <2>7, <2>8 DEF GleifStep
<1>4. CASE DedupFolds
  BY <1>4, DedupFoldsPair
<1>5. CASE DedupDeletes
  BY <1>5, DedupDeletesPair
<1>6. \A s \in Writer : ~Crash(s)
  <2>1. SUFFICES ASSUME NEW s \in Writer, Crash(s) PROVE FALSE
    OBVIOUS
  <2>2. crashes \in Nat /\ crashes' = crashes + 1
    BY <2>1, BoundAssumption DEF Crash, Inv, Typed, TypeOK
  <2> QED
    BY <2>2
<1> QED
  BY <1>1, <1>2, <1>3, <1>4, <1>5, <1>6 DEF Next

\* The crashes so far are counted, and nothing takes one back.
LEMMA CrashesGrow ==
  ASSUME Inv, Next, crashes' = 0
  PROVE  crashes' = crashes
<1>1. crashes \in Nat
  BY BoundAssumption DEF Inv, Typed, TypeOK
<1>2. \A s \in Writer : ~Crash(s)
  BY <1>1 DEF Crash
<1> USE DEF Takes, Then, Finish, Done
<1>3. SecStep => crashes' = crashes
  BY DEF SecStep, SecFinds, SecUpdatesOwn, SecShares, Creates
<1>4. WikidataStep => crashes' = crashes
  BY DEF WikidataStep, WikidataFinds, WikidataConfirms, Creates
<1>5. PscStep => crashes' = crashes
  BY DEF PscStep, PscFinds, PscVanished, PscAdopts, PscTakesOver, PscUpdates, PscClaims, Creates
<1>6. GleifStep => crashes' = crashes
  BY DEF GleifStep, GleifFinds, GleifEnds, GleifCreates, GleifRestates, GleifFolds,
         GleifRetires, GleifCloses, GleifSucceeds
<1>7. DedupFolds \/ DedupDeletes => crashes' = crashes
  BY DEF DedupFolds, DedupDeletes
<1> QED
  BY <1>2, <1>3, <1>4, <1>5, <1>6, <1>7 DEF Next

LEMMA StutterPair ==
  ASSUME Pair, UNCHANGED vars
  PROVE  Pair'
<1>1. Edges' = Edges /\ Open' = Open /\ Marked' = Marked /\ (At("gleif", "succeed")' <=> At("gleif", "succeed"))
  BY DEF vars, Edges, Open, Marked, Own, At
<1>2. AllPlain' /\ Alike' /\ Carried'
  BY <1>1 DEF vars, Pair, AllPlain, Alike, Carried, Carries, Plain
<1>3. TakenUp'
  BY <1>1 DEF vars, Pair, TakenUp, TakesUp, Busy, Plain
<1> QED
  BY <1>2, <1>3 DEF Pair

\* As long as no run dies, a relationship that GLEIF's last record of it states goes
\* on as an active edge, when the other one is retired and after any clean-up.
THEOREM OtherRelationshipGoesOn ==
  ASSUME Overlap = FALSE, RelationshipsOnly
  PROVE  Spec => [](crashes = 0 => OtherRelationshipStands)
<1>1. Init => Pair
  <2>1. SUFFICES ASSUME Init PROVE Pair
    OBVIOUS
  <2>2. Edges = {} /\ Open = {} /\ \A s \in Source : job[s] = NoJob
    BY <2>1 DEF Init, Edges, Open
  <2>3. \A m \in {"direct", "indirect"} : ~rr[m].on
    BY <2>1 DEF Init
  <2>4. ~Busy("gleif") /\ Marked = {}
    BY <2>2 DEF Busy, Marked, Source
  <2> QED
    BY <2>2, <2>3, <2>4 DEF Pair, AllPlain, Alike, TakenUp, Carried
<1>2. Inv /\ (crashes = 0 => Pair) /\ [Next]_vars => (crashes = 0 => Pair)'
  <2>1. SUFFICES ASSUME Inv, crashes = 0 => Pair, [Next]_vars, crashes' = 0 PROVE Pair'
    OBVIOUS
  <2>2. CASE Next
    BY <2>1, <2>2, CrashesGrow, NextPair
  <2>3. CASE UNCHANGED vars
    BY <2>1, <2>3, StutterPair DEF vars
  <2> QED
    BY <2>1, <2>2, <2>3
<1>3. Inv /\ (crashes = 0 => Pair) => (crashes = 0 => OtherRelationshipStands)
  <2>1. SUFFICES ASSUME Pair, AtRest, NEW m \in {"direct", "indirect"}, rr[m].on PROVE Open # {}
    BY DEF OtherRelationshipStands
  <2>2. ~At("gleif", "succeed")
    BY <2>1 DEF AtRest, At, Source
  <2>3. Marked # {}
    BY <2>1, <2>2 DEF Pair, Carried
  <2> QED
    BY <2>3 DEF Marked
<1> QED
  BY <1>1, <1>2, <1>3, Invariance, PTL DEF Spec
=============================================================================
