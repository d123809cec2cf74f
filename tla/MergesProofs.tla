---------------------------- MODULE MergesProofs -----------------------------
(***************************************************************************)
(* What the runs that make one node of two keep, for every value of the    *)
(* parameters: two merges at once, and the persons of one name.            *)
(***************************************************************************)
EXTENDS MCMerges, Sequences, FiniteSetTheorems, TLAPS

-----------------------------------------------------------------------------
(* Two merges at once *)

\* Merges without faults, and what is proved of them.
Two == INSTANCE MergeRedirectProofs WITH
  Id <- PairId, Rank <- PairRank, Uuid <- PairUuid,
  Fact <- {}, Ref <- PairRef, Worker <- PairWorker, NoId <- "none",
  MaxHops <- PairHops, MaxFaults <- 0, Overlap <- FALSE, live <- two_live,
  hard <- two_hard, holds <- two_holds, apart <- two_apart,
  redirect <- two_redirect, refs <- two_refs, pc <- two_pc, keep <- two_keep,
  dead <- two_dead, todo <- two_todo, marks <- two_marks, first <- two_first,
  asserted <- two_asserted, issued <- two_issued, faults <- two_faults

\* The ids a node can have, at most one of each kind beside its uuids.
PairFigures ==
  /\ "none" \notin PairId /\ PairUuid \in Nat /\ PairRank \in [PairId -> 0 .. PairUuid]
  /\ PairHops \in Nat \ {0}
  /\ \A i, j \in PairId :
       PairRank[i] < PairUuid /\ PairRank[j] < PairUuid /\ PairRank[i] = PairRank[j] => i = j

LEMMA PairAssumptions ==
  ASSUME PairFigures
  PROVE  /\ Two!IdAssumption /\ Two!RankAssumption /\ Two!BoundAssumption
         /\ Two!OverlapAssumption /\ Two!OneIdPerRank
<1>1. Two!IdAssumption /\ Two!OverlapAssumption
  BY DEF PairFigures, Two!IdAssumption, Two!OverlapAssumption
<1>2. Two!RankAssumption /\ Two!BoundAssumption
  BY DEF PairFigures, Two!RankAssumption, Two!BoundAssumption
<1>3. Two!OneIdPerRank
  BY DEF PairFigures, Two!OneIdPerRank, Two!Keyed
<1> QED
  BY <1>1, <1>2, <1>3

\* The merges that are run are the merges that are proved about.
LEMMA SameMerges ==
  /\ Two!Init <=> Pair!Init
  /\ [Two!Next]_(Two!vars) <=> [Pair!Next]_(Pair!vars)
  /\ Two!IdsFollow <=> Pair!IdsFollow
<1>1. Two!Init <=> Pair!Init
  BY DEF Two!Init, Pair!Init
<1>2. [Two!Next]_(Two!vars) <=> [Pair!Next]_(Pair!vars)
  BY DEF
     Two!Abort, Pair!Abort, Two!BeginMerge, Pair!BeginMerge, Two!Better, Pair!Better,
     Two!Carry, Pair!Carry, Two!CarryFacts, Pair!CarryFacts, Two!Coalesce, Pair!Coalesce,
     Two!Create, Pair!Create, Two!Delete, Pair!Delete, Two!Detach, Pair!Detach,
     Two!EndGroup, Pair!EndGroup, Two!FailBestEffort, Pair!FailBestEffort,
     Two!Fault, Pair!Fault, Two!FoldNext, Pair!FoldNext, Two!Free, Pair!Free,
     Two!Goto, Pair!Goto, Two!Idle, Pair!Idle, Two!KeepId, Pair!KeepId,
     Two!KeepSeparate, Pair!KeepSeparate, Two!Keyed, Pair!Keyed, Two!Learn, Pair!Learn,
     Two!MergeStep, Pair!MergeStep, Two!Next, Pair!Next, Two!Record, Pair!Record,
     Two!Refer, Pair!Refer, Two!References, Pair!References, Two!RekeyStep, Pair!RekeyStep,
     Two!Rename, Pair!Rename, Two!RenameReferences, Pair!RenameReferences,
     Two!RenameRepoint, Pair!RenameRepoint, Two!RenameUpsert, Pair!RenameUpsert,
     Two!Repoint, Pair!Repoint, Two!RepointChain, Pair!RepointChain,
     Two!RepointRefs, Pair!RepointRefs, Two!StartRename, Pair!StartRename,
     Two!Touched, Pair!Touched, Two!Unredirect, Pair!Unredirect, Two!Upsert, Pair!Upsert,
     Two!UpsertRedirect, Pair!UpsertRedirect, Two!graph, Pair!graph, Two!task, Pair!task,
     Two!vars, Pair!vars
<1>3. \A i : Two!Path(i) = Pair!Path(i)
  BY DEF Two!Path, Pair!Path
<1>4. \A i : Two!Lookup(i) = Pair!Lookup(i) /\ Two!Canonical(i) = Pair!Canonical(i)
  BY <1>3 DEF Two!Lookup, Pair!Lookup, Two!Resolve, Pair!Resolve, Two!Canonical, Pair!Canonical
<1>5. Two!IdsFollow <=> Pair!IdsFollow
  BY <1>4 DEF Two!IdsFollow, Pair!IdsFollow, Two!EveryIdResolves, Pair!EveryIdResolves,
         Two!ImportersMeetSurvivor, Pair!ImportersMeetSurvivor, Two!ReferencesFollow,
         Pair!ReferencesFollow, Two!AtRest, Pair!AtRest, Two!Renaming, Pair!Renaming
<1> QED
  BY <1>1, <1>2, <1>5

\* For any number of workers that merge and re-key the nodes of one company at once:
\* every id leads to a live node, an importer that knows it meets that node, and what
\* the desk and the runs recorded follows (forward_id, repoint_references).
THEOREM ThePairFollows == ASSUME PairFigures PROVE Pair!Spec => []PairFollows
<1>1. Two!Spec => []Two!IdsFollow
  BY PairAssumptions, Two!EveryIdFollows
<1>2. Two!IdsFollow <=> PairFollows
  BY SameMerges DEF PairFollows
<1>3. Two!Init <=> Pair!Init
  BY SameMerges
<1>4. [Two!Next]_(Two!vars) <=> [Pair!Next]_(Pair!vars)
  BY SameMerges
<1> QED
  BY <1>1, <1>2, <1>3, <1>4, PTL DEF Two!Spec, Pair!Spec

-----------------------------------------------------------------------------
(* The persons of one name *)

\* What a source can say of a person: a filing a name and perhaps the filer's number,
\* a Wikidata page its item with whatever else it has.
FoldFigures ==
  \A s \in PersonSightings :
    /\ s.by = "sec" => s.also = {} /\ s.qid = People!No /\ s.birth = People!No
    /\ s.by = "wikidata" => s.qid # People!No /\ s.cik = People!No

NamesSaid  == UNION {{s.full} \cup s.also : s \in PersonSightings}
CiksSaid   == {s.cik : s \in PersonSightings} \cup {People!No}
ItemsSaid  == {s.qid : s \in PersonSightings} \cup {People!No}
BirthsSaid == {s.birth : s \in PersonSightings} \cup {People!No}
PersonIds  == ({"sec"} \X CiksSaid) \cup ({"wd"} \X ItemsSaid) \cup ({"uuid"} \X Nat) \cup ({"gone"} \X Nat)
Humans ==
  [live : BOOLEAN, id : PersonIds, full : NamesSaid, also : SUBSET NamesSaid, cik : CiksSaid,
   qid : ItemsSaid, birth : BirthsSaid, ents : SUBSET {s.ent : s \in PersonSightings}, of : SUBSET Nat]

PersonsTyped ==
  /\ p_nodes \in Seq(Humans) /\ p_groups \subseteq [keep : PersonIds, rest : SUBSET PersonIds]
  /\ \A i \in DOMAIN p_nodes : p_nodes[i].of \subseteq DOMAIN p_nodes

KeyOf(name) == <<name.words, name.mark>>

\* A person's id is made of the best number it has; who has no item has one name.
Kept(n, i) ==
  /\ n.cik # People!No => n.id = <<"sec", n.cik>>
  /\ n.cik = People!No => n.id = <<"uuid", i>> \/ (n.qid # People!No /\ n.id = <<"wd", n.qid>>)
  /\ n.birth # People!No => n.qid # People!No
  /\ n.qid = People!No => \A a, b \in {n.full} \cup n.also : KeyOf(a) = KeyOf(b)

\* Two persons share no number and no item.
Unlike(m, n) == (m.cik = n.cik => m.cik = People!No) /\ (m.qid = n.qid => m.qid = People!No)

Numbered ==
  /\ \A i \in People!Live : Kept(p_nodes[i], i) /\ p_nodes[i].of \cap People!Live = {i}
  /\ \A i, j \in People!Live : i # j => Unlike(p_nodes[i], p_nodes[j])

IdsOf(g)     == {g.keep} \cup g.rest
MembersOf(g) == {i \in People!Live : p_nodes[i].id \in IdsOf(g)}

\* Two members agree.
Alike(i, j) ==
  /\ ~People!Other(p_nodes[i].cik, p_nodes[j].cik) /\ People!Marks(i) = People!Marks(j)
  /\ p_nodes[i].qid = People!No /\ p_nodes[j].qid = People!No => People!Keys(i) = People!Keys(j)

\* The members of a group agree, only the one to keep has an item, and none takes an id
\* the group knows another by.
Joinable(g) ==
  /\ g.keep \notin g.rest
  /\ \A i \in MembersOf(g) : p_nodes[i].id \in g.rest => p_nodes[i].qid = People!No
  /\ \A i, j \in MembersOf(g) : Alike(i, j)
  /\ \A i \in People!Live : <<"wd", p_nodes[i].qid>> \in IdsOf(g) => p_nodes[i].id # <<"uuid", i>>

\* Two groups share at most the person they keep.
Disjoint == \A g, h \in p_groups : g # h => g.rest \cap h.rest = {} /\ g.keep \notin h.rest

PersonsInv == PersonsTyped /\ Numbered /\ Disjoint /\ \A g \in p_groups : Joinable(g)

-----------------------------------------------------------------------------
(* What ids and numbers say *)

LEMMA HumanFields ==
  ASSUME NEW n \in Humans
  PROVE  /\ n.live \in BOOLEAN /\ n.id \in PersonIds /\ n.full \in NamesSaid /\ n.also \subseteq NamesSaid
         /\ n.cik \in CiksSaid /\ n.qid \in ItemsSaid /\ n.birth \in BirthsSaid /\ n.of \subseteq Nat
  BY DEF Humans

LEMMA LiveIsHuman == ASSUME PersonsTyped, NEW i \in People!Live PROVE i \in DOMAIN p_nodes /\ i \in Nat /\ p_nodes[i] \in Humans /\ p_nodes[i].live
<1>1. DOMAIN p_nodes = 1 .. Len(p_nodes) /\ Len(p_nodes) \in Nat
  BY DEF PersonsTyped
<1> QED
  BY <1>1 DEF PersonsTyped, People!Live

\* No two live persons have one id.
LEMMA OneOfAnId ==
  ASSUME PersonsTyped, Numbered, NEW i \in People!Live, NEW j \in People!Live, p_nodes[i].id = p_nodes[j].id
  PROVE  i = j
<1> SUFFICES ASSUME i # j PROVE FALSE
  OBVIOUS
<1>1. Kept(p_nodes[i], i) /\ Kept(p_nodes[j], j) /\ Unlike(p_nodes[i], p_nodes[j])
  BY DEF Numbered
<1> QED
  BY <1>1 DEF Kept, Unlike

\* Who has a filer's id has the number.
LEMMA IdNames ==
  ASSUME PersonsTyped, Numbered, NEW i \in People!Live
  PROVE  /\ \A c : p_nodes[i].id = <<"sec", c>> <=> p_nodes[i].cik # People!No /\ p_nodes[i].cik = c
         /\ \A q : p_nodes[i].id = <<"wd", q>> => p_nodes[i].cik = People!No /\ p_nodes[i].qid # People!No /\ p_nodes[i].qid = q
         /\ p_nodes[i].id[1] = "sec" <=> p_nodes[i].cik # People!No
         /\ p_nodes[i].id[1] = "uuid" <=> p_nodes[i].id = <<"uuid", i>>
         /\ p_nodes[i].id[1] \in {"sec", "wd", "uuid"}
<1>1. Kept(p_nodes[i], i)
  BY DEF Numbered
<1> QED
  BY <1>1 DEF Kept

LEMMA RekeyedIs ==
  ASSUME NEW n \in Humans, NEW self
  PROVE  LET better == (n.id[1] # "sec" /\ n.cik # People!No) \/ (n.id[1] = "uuid" /\ n.qid # People!No)
             r == People!Rekeyed(n, self)
         IN /\ r \in Humans
            /\ r.live = n.live /\ r.full = n.full /\ r.also = n.also /\ r.cik = n.cik /\ r.qid = n.qid
            /\ r.birth = n.birth /\ r.ents = n.ents /\ r.of = n.of
            /\ r.id = IF better /\ People!At(People!Keyed(n.cik, n.qid)) \subseteq self THEN People!Keyed(n.cik, n.qid) ELSE n.id
<1>1. People!Keyed(n.cik, n.qid) \in PersonIds
  BY DEF People!Keyed, Humans, PersonIds
<1> HIDE DEF People!Keyed
<1> QED
  BY <1>1 DEF People!Rekeyed, Humans

-----------------------------------------------------------------------------
(* The writers, when no group is left to fold *)

LEMMA PutStep ==
  ASSUME PersonsInv, p_groups = {}, p_groups' = {}, NEW i \in People!Live, NEW n \in Humans, n.live, n.of = p_nodes[i].of,
         Kept(n, i), \A j \in People!Live \ {i} : Unlike(n, p_nodes[j]), People!Put(i, n)
  PROVE  PersonsInv' /\ People!Live \subseteq People!Live'
<1>1. i \in DOMAIN p_nodes /\ p_nodes' = [p_nodes EXCEPT ![i] = n]
  BY LiveIsHuman DEF PersonsInv, People!Put
<1>2. p_nodes' \in Seq(Humans) /\ DOMAIN p_nodes' = DOMAIN p_nodes
  BY <1>1 DEF PersonsInv, PersonsTyped
<1>3. p_nodes'[i] = n /\ \A j \in DOMAIN p_nodes \ {i} : p_nodes'[j] = p_nodes[j]
  BY <1>1 DEF PersonsInv, PersonsTyped
<1>4. People!Live' = People!Live
  BY <1>1, <1>2, <1>3 DEF People!Live
<1>5. PersonsTyped'
  BY <1>1, <1>2, <1>3 DEF PersonsInv, PersonsTyped
<1>6. \A j \in People!Live : j \in DOMAIN p_nodes
  BY DEF People!Live
<1>7. \A j \in People!Live' : Kept(p_nodes'[j], j) /\ p_nodes'[j].of \cap People!Live' = {j}
  BY <1>3, <1>4, <1>6 DEF PersonsInv, Numbered
<1>8. \A k, j \in People!Live' : k # j => Unlike(p_nodes'[k], p_nodes'[j])
  <2> SUFFICES ASSUME NEW k \in People!Live, NEW j \in People!Live, k # j PROVE Unlike(p_nodes'[k], p_nodes'[j])
    BY <1>4
  <2>1. CASE k = i
    BY <2>1, <1>3, <1>6
  <2>2. CASE j = i
    BY <2>2, <1>3, <1>6 DEF Unlike
  <2>3. CASE k # i /\ j # i
    BY <2>3, <1>3, <1>6 DEF PersonsInv, Numbered
  <2> QED
    BY <2>1, <2>2, <2>3
<1>9. Numbered'
  BY <1>7, <1>8 DEF Numbered
<1> QED
  BY <1>4, <1>5, <1>9 DEF PersonsInv, Disjoint

LEMMA CreateStep ==
  ASSUME FoldFigures, PersonsInv, p_groups = {}, p_groups' = {}, NEW s \in PersonSightings, People!Create(s), s.by \in {"sec", "wikidata"},
         s.cik # People!No => ~\E j \in People!Live : p_nodes[j].cik = s.cik,
         s.qid # People!No => ~\E j \in People!Live : p_nodes[j].qid = s.qid
  PROVE  PersonsInv' /\ People!Live \subseteq People!Live'
<1> DEFINE m == Len(p_nodes) + 1
           n == [live |-> TRUE, full |-> s.full, also |-> s.also, cik |-> s.cik, qid |-> s.qid,
                 birth |-> s.birth, ents |-> {s.ent}, of |-> {m},
                 id |-> IF s.cik = People!No /\ s.qid = People!No THEN <<"uuid", m>> ELSE People!Keyed(s.cik, s.qid)]
<1>1. p_nodes \in Seq(Humans) /\ Len(p_nodes) \in Nat /\ DOMAIN p_nodes = 1 .. Len(p_nodes) /\ m \in Nat /\ m \notin DOMAIN p_nodes
  BY DEF PersonsInv, PersonsTyped
<1>2. n \in Humans
  <2>1. n.id \in PersonIds
    BY <1>1 DEF People!Keyed, PersonIds, CiksSaid, ItemsSaid
  <2>2. s.full \in NamesSaid /\ s.also \subseteq NamesSaid
    BY DEF NamesSaid
  <2> QED
    BY <1>1, <2>1, <2>2 DEF Humans, CiksSaid, ItemsSaid, BirthsSaid
<1>3. p_nodes' = Append(p_nodes, n)
  BY DEF People!Create
<1>4. Kept(n, m)
  BY DEF Kept, FoldFigures, KeyOf, People!Keyed
<1>5. \A j \in People!Live : Unlike(n, p_nodes[j])
  BY DEF Unlike
<1>6. n.live /\ n.of = {m}
  OBVIOUS
<1> HIDE DEF n
<1>7. p_nodes' \in Seq(Humans) /\ DOMAIN p_nodes' = DOMAIN p_nodes \cup {m} /\ p_nodes'[m] = n /\ \A j \in DOMAIN p_nodes : p_nodes'[j] = p_nodes[j]
  BY <1>1, <1>2, <1>3
<1> HIDE DEF m
<1>8. People!Live' = People!Live \cup {m} /\ m \notin People!Live /\ \A j \in People!Live : j \in DOMAIN p_nodes
  BY <1>1, <1>6, <1>7 DEF People!Live
<1>9. PersonsTyped'
  BY <1>1, <1>6, <1>7 DEF PersonsInv, PersonsTyped
<1>10. \A j \in People!Live' : Kept(p_nodes'[j], j) /\ p_nodes'[j].of \cap People!Live' = {j}
  <2> SUFFICES ASSUME NEW j \in People!Live' PROVE Kept(p_nodes'[j], j) /\ p_nodes'[j].of \cap People!Live' = {j}
    OBVIOUS
  <2>1. CASE j = m
    BY <2>1, <1>4, <1>6, <1>7, <1>8
  <2>2. CASE j \in People!Live
    <3>1. p_nodes[j].of \subseteq DOMAIN p_nodes
      BY <2>2, <1>8 DEF PersonsInv, PersonsTyped
    <3> QED
      BY <3>1, <2>2, <1>1, <1>7, <1>8 DEF PersonsInv, Numbered
  <2> QED
    BY <2>1, <2>2, <1>8
<1>11. \A k, j \in People!Live' : k # j => Unlike(p_nodes'[k], p_nodes'[j])
  <2> SUFFICES ASSUME NEW k \in People!Live', NEW j \in People!Live', k # j PROVE Unlike(p_nodes'[k], p_nodes'[j])
    OBVIOUS
  <2>1. CASE k = m
    BY <2>1, <1>5, <1>7, <1>8
  <2>2. CASE j = m
    BY <2>2, <1>5, <1>7, <1>8 DEF Unlike
  <2>3. CASE k \in People!Live /\ j \in People!Live
    BY <2>3, <1>7, <1>8 DEF PersonsInv, Numbered
  <2> QED
    BY <2>1, <2>2, <2>3, <1>8
<1> QED
  BY <1>8, <1>9, <1>10, <1>11 DEF PersonsInv, Disjoint, Numbered

LEMMA FilerStep ==
  ASSUME FoldFigures, PersonsInv, p_groups = {}, p_groups' = {}, NEW s \in PersonSightings, People!WriteFiler(s)
  PROVE  PersonsInv' /\ People!Live \subseteq People!Live'
<1> DEFINE byCik == {i \in People!Live : s.cik # People!No /\ p_nodes[i].cik = s.cik}
           Stamped(i) == [People!Known(p_nodes[i], s) EXCEPT !.cik = People!Backfilled(@, s.cik)]
           Stamp(i) == ~People!Other(p_nodes[i].cik, s.cik) /\ People!Put(i, IF s.cik # People!No THEN People!Rekeyed(Stamped(i), {i}) ELSE Stamped(i))
<1>1. ASSUME NEW i \in byCik, People!Put(i, People!Known(p_nodes[i], s)) PROVE PersonsInv' /\ People!Live \subseteq People!Live'
  <2> DEFINE n == People!Known(p_nodes[i], s)
  <2>1. i \in People!Live /\ p_nodes[i] \in Humans /\ p_nodes[i].live
    BY <1>1, LiveIsHuman DEF PersonsInv
  <2>2. n \in Humans /\ n.live /\ n.of = p_nodes[i].of /\ n.cik = p_nodes[i].cik /\ n.qid = p_nodes[i].qid
        /\ n.id = p_nodes[i].id /\ n.birth = p_nodes[i].birth /\ n.full = p_nodes[i].full /\ n.also = p_nodes[i].also
    BY <2>1 DEF People!Known, Humans
  <2> HIDE DEF n
  <2>3. Kept(n, i) /\ \A j \in People!Live \ {i} : Unlike(n, p_nodes[j])
    BY <2>1, <2>2 DEF Kept, Unlike, PersonsInv, Numbered
  <2> QED
    BY <1>1, <2>1, <2>2, <2>3, PutStep DEF n
<1>2. ASSUME byCik = {}, NEW i \in People!Live, Stamp(i) PROVE PersonsInv' /\ People!Live \subseteq People!Live'
  <2> DEFINE n == Stamped(i)
             r == People!Rekeyed(n, {i})
  <2>1. p_nodes[i] \in Humans /\ p_nodes[i].live
    BY LiveIsHuman DEF PersonsInv
  <2>2. n \in Humans /\ n.live /\ n.of = p_nodes[i].of /\ n.cik = People!Backfilled(p_nodes[i].cik, s.cik) /\ n.qid = p_nodes[i].qid
        /\ n.id = p_nodes[i].id /\ n.birth = p_nodes[i].birth /\ n.full = p_nodes[i].full /\ n.also = p_nodes[i].also
    BY <2>1 DEF People!Known, Humans, People!Backfilled, CiksSaid
  <2>3. Kept(p_nodes[i], i) /\ \A j \in People!Live \ {i} : Unlike(p_nodes[i], p_nodes[j])
    BY DEF PersonsInv, Numbered
  <2> HIDE DEF n
  <2>4. CASE s.cik = People!No
    <3>1. Kept(n, i) /\ \A j \in People!Live \ {i} : Unlike(n, p_nodes[j])
      BY <2>2, <2>3, <2>4 DEF Kept, Unlike, People!Backfilled
    <3>2. People!Put(i, n)
      BY <1>2, <2>4 DEF n
    <3> QED
      BY <3>1, <3>2, <2>2, PutStep
  <2>5. CASE s.cik # People!No
    <3>1. p_nodes[i].cik = People!No /\ n.cik = s.cik
      BY <1>2, <2>2, <2>5 DEF People!Other, People!Backfilled
    <3>2. p_nodes[i].id[1] # "sec"
      BY <3>1, IdNames DEF PersonsInv
    <3>3. People!At(People!Keyed(n.cik, n.qid)) = {}
      BY <3>1, <2>5, <1>2, IdNames DEF PersonsInv, People!At, People!Keyed
    <3>4. /\ r \in Humans /\ r.live /\ r.of = p_nodes[i].of /\ r.cik = s.cik /\ r.qid = p_nodes[i].qid
          /\ r.id = <<"sec", s.cik>> /\ r.birth = p_nodes[i].birth /\ r.full = p_nodes[i].full /\ r.also = p_nodes[i].also
      BY <2>2, <2>5, <3>1, <3>2, <3>3, RekeyedIs DEF People!Keyed
    <3>5. People!Put(i, r)
      BY <1>2, <2>5 DEF n
    <3> HIDE DEF r
    <3>6. Kept(r, i)
      BY <3>4, <2>3, <2>5 DEF Kept
    <3>7. \A j \in People!Live \ {i} : Unlike(r, p_nodes[j])
      BY <3>4, <2>3, <2>5, <1>2 DEF Unlike
    <3> QED
      BY <3>4, <3>5, <3>6, <3>7, PutStep
  <2> QED
    BY <2>4, <2>5
<1>3. ASSUME byCik = {}, People!Create(s) PROVE PersonsInv' /\ People!Live \subseteq People!Live'
  BY <1>3, CreateStep DEF FoldFigures, People!WriteFiler
<1> QED
  BY <1>1, <1>2, <1>3 DEF People!WriteFiler

LEMMA ItemStep ==
  ASSUME FoldFigures, PersonsInv, p_groups = {}, p_groups' = {}, NEW s \in PersonSightings, People!WriteItem(s)
  PROVE  PersonsInv' /\ People!Live \subseteq People!Live'
<1> DEFINE byQid == {i \in People!Live : p_nodes[i].qid = s.qid}
           Filled(n) == [People!Known(n, s) EXCEPT !.qid = People!Backfilled(@, s.qid), !.birth = People!Backfilled(@, s.birth),
                                            !.also = IF @ = {} THEN s.also ELSE @]
<1>1. s.qid # People!No /\ s.cik = People!No /\ s.by = "wikidata"
  BY DEF FoldFigures, People!WriteItem
<1>2. ASSUME NEW i \in People!Live, byQid # {} => i \in byQid, People!Put(i, Filled(p_nodes[i])) PROVE PersonsInv' /\ People!Live \subseteq People!Live'
  <2> DEFINE n == Filled(p_nodes[i])
  <2>1. p_nodes[i] \in Humans /\ p_nodes[i].live
    BY LiveIsHuman DEF PersonsInv
  <2>2. s.also \subseteq NamesSaid
    BY DEF NamesSaid
  <2>3. n \in Humans
    BY <2>1, <2>2 DEF People!Known, Humans, People!Backfilled, ItemsSaid, BirthsSaid
  <2>4. n.live /\ n.of = p_nodes[i].of /\ n.cik = p_nodes[i].cik /\ n.qid = People!Backfilled(p_nodes[i].qid, s.qid) /\ n.id = p_nodes[i].id
    BY <2>1 DEF People!Known, Humans
  <2> HIDE DEF n
  <2>5. Kept(p_nodes[i], i) /\ \A j \in People!Live \ {i} : Unlike(p_nodes[i], p_nodes[j])
    BY DEF PersonsInv, Numbered
  <2>6. Kept(n, i)
    BY <1>1, <2>4, <2>5 DEF Kept, People!Backfilled
  <2>7. ASSUME NEW j \in People!Live \ {i} PROVE Unlike(n, p_nodes[j])
    <3>1. Unlike(p_nodes[i], p_nodes[j])
      BY <2>5
    <3>2. p_nodes[i].qid = People!No => p_nodes[j].qid # s.qid
      BY <1>1, <1>2
    <3> QED
      BY <1>1, <2>4, <3>1, <3>2 DEF Unlike, People!Backfilled
  <2> QED
    BY <1>2, <2>3, <2>4, <2>6, <2>7, PutStep DEF n
<1>3. ASSUME byQid = {}, People!Create(s) PROVE PersonsInv' /\ People!Live \subseteq People!Live'
  BY <1>1, <1>3, CreateStep
<1> QED
  BY <1>2, <1>3 DEF People!WriteItem

-----------------------------------------------------------------------------
(* The scan *)

LEMMA PersonCounts == \A s : People!Cardinality(s) = Cardinality(s)
  BY DEF People!Cardinality, Cardinality

\* A group of more than one holds two.
LEMMA TwoOf ==
  ASSUME NEW S, People!Cardinality(S) > 1
  PROVE  \E i, j \in S : i # j
<1> SUFFICES ASSUME \A i, j \in S : i = j PROVE FALSE
  OBVIOUS
<1>1. CASE S = {}
  BY <1>1, FS_EmptySet, PersonCounts
<1>2. CASE S # {}
  <2> PICK x \in S : TRUE
    BY <1>2
  <2>1. S = {x}
    OBVIOUS
  <2>2. FALSE
    <3>1. Cardinality({x}) = 1
      BY FS_Singleton
    <3>2. People!Cardinality(S) = 1
      BY <2>1, <3>1, PersonCounts
    <3> QED
      BY <3>2
  <2> QED
    BY <2>2
<1> QED
  BY <1>1, <1>2

\* A group the scan is sure of is everyone of one name, of whom at most one has an item.
LEMMA SureIsNamesakes ==
  ASSUME PersonsInv, NEW S \in SUBSET People!Live, NEW g \in People!Judged(S)
  PROVE  /\ g \subseteq S /\ ~People!Distinct(g) /\ ~People!HalfMarked(g) /\ \E i, j \in g : i # j
         /\ \E key : g = {i \in S : key \in People!Keys(i)}
<1> DEFINE K == CHOOSE k \in 1 .. 4 : /\ g \in People!Grouped(People!Kinds[k], S)
                                     /\ \A j \in 1 .. k - 1 : g \notin People!Grouped(People!Kinds[j], S)
<1>1. People!Sure(People!Kinds[K], g) /\ \E k \in 1 .. 4 : g \in People!Grouped(People!Kinds[k], S)
  BY DEF People!Judged
<1>2. K \in 1 .. 4 /\ g \in People!Grouped(People!Kinds[K], S)
  <2>1. \E k \in 1 .. 4 : /\ g \in People!Grouped(People!Kinds[k], S)
                         /\ \A j \in 1 .. k - 1 : g \notin People!Grouped(People!Kinds[j], S)
    <3> HIDE DEF K
    <3>1. CASE g \in People!Grouped(People!Kinds[1], S)
      BY <3>1
    <3>2. CASE g \notin People!Grouped(People!Kinds[1], S) /\ g \in People!Grouped(People!Kinds[2], S)
      <4> WITNESS 2 \in 1 .. 4
      <4>1. \A j \in 1 .. 2 - 1 : j = 1
        OBVIOUS
      <4> QED
        BY <3>2, <4>1
    <3>3. CASE g \notin People!Grouped(People!Kinds[1], S) /\ g \notin People!Grouped(People!Kinds[2], S) /\ g \in People!Grouped(People!Kinds[3], S)
      <4> WITNESS 3 \in 1 .. 4
      <4>1. \A j \in 1 .. 3 - 1 : j = 1 \/ j = 2
        OBVIOUS
      <4> QED
        BY <3>3, <4>1
    <3>4. CASE g \notin People!Grouped(People!Kinds[1], S) /\ g \notin People!Grouped(People!Kinds[2], S) /\ g \notin People!Grouped(People!Kinds[3], S)
      <4>1. g \in People!Grouped(People!Kinds[4], S)
        BY <1>1, <3>4
      <4> WITNESS 4 \in 1 .. 4
      <4>2. \A j \in 1 .. 4 - 1 : j = 1 \/ j = 2 \/ j = 3
        OBVIOUS
      <4> QED
        BY <3>4, <4>1, <4>2
    <3> QED
      BY <3>1, <3>2, <3>3, <3>4
  <2> QED
    BY <2>1
<1> HIDE DEF K
<1>3. People!Kinds[1] = "cik" /\ People!Kinds[2] = "birth" /\ People!Kinds[3] = "name" /\ People!Kinds[4] = "variant"
  BY DEF People!Kinds
<1>4. ~People!Distinct(g)
  BY <1>1 DEF People!Sure
<1>5. People!Cardinality(g) > 1
  BY <1>2 DEF People!Grouped
<1>6. \E i, j \in g : i # j
  BY <1>5, TwoOf
<1>7. \A i, j \in People!Live : i # j => Unlike(p_nodes[i], p_nodes[j])
  BY DEF PersonsInv, Numbered
<1>8. \A i \in People!Live : p_nodes[i].birth # People!No => p_nodes[i].qid # People!No
  BY DEF PersonsInv, Numbered, Kept
<1>9. ASSUME NEW T, T \subseteq g, T \subseteq People!Live, \E i, j \in T : i # j, \A i \in T : p_nodes[i].birth # People!No PROVE FALSE
  <2>1. PICK i \in T, j \in T : i # j
    BY <1>9
  <2>2. p_nodes[i].qid # People!No /\ p_nodes[j].qid # People!No /\ p_nodes[i].qid # p_nodes[j].qid
    BY <2>1, <1>7, <1>8, <1>9 DEF Unlike
  <2>3. People!Other(p_nodes[i].qid, p_nodes[j].qid)
    BY <2>2 DEF People!Other
  <2> QED
    BY <2>3, <1>4, <1>9 DEF People!Distinct
<1>10. CASE K = 1
  <2>1. PICK c : c # People!No /\ g = {i \in S : p_nodes[i].cik = c}
    BY <1>2, <1>3, <1>10 DEF People!Grouped
  <2> QED
    BY <2>1, <1>6, <1>7 DEF Unlike
<1>11. CASE K = 2
  <2>2. g \in People!Grouped("birth", S)
    BY <1>2, <1>3, <1>11
  <2>3. g \in {{i \in S : p_nodes[i].birth = b} : b \in {p_nodes[i].birth : i \in S} \ {People!No}}
    BY <2>2 DEF People!Grouped
  <2>1. PICK b : b # People!No /\ g = {i \in S : p_nodes[i].birth = b}
    BY <2>3
  <2> QED
    BY <2>1, <1>6, <1>9
<1>12. ASSUME g \subseteq People!Live PROVE ~People!SharedBirth(g)
  <2> SUFFICES ASSUME People!SharedBirth(g) PROVE FALSE
    OBVIOUS
  <2> DEFINE T == {i \in g : p_nodes[i].birth # People!No}
  <2>1. People!Cardinality(T) > 1
    BY DEF People!SharedBirth
  <2>2. \E i, j \in T : i # j
    BY <2>1, TwoOf
  <2>3. T \subseteq g /\ T \subseteq People!Live /\ \A i \in T : p_nodes[i].birth # People!No
    BY <1>12
  <2> HIDE DEF T
  <2> QED
    BY <2>2, <2>3, <1>9
<1>13. CASE K = 4
  <2>1. g \subseteq S
    BY <1>2, <1>3, <1>13 DEF People!Grouped
  <2>2. ~People!SharedBirth(g)
    BY <2>1, <1>12
  <2> QED
    BY <2>2, <1>1, <1>3, <1>13 DEF People!Sure
<1>14. CASE K = 3
  <2>1. PICK key : g = {i \in S : key \in People!Keys(i)}
    BY <1>2, <1>3, <1>14 DEF People!Grouped
  <2>2. ~People!SharedBirth(g)
    BY <2>1, <1>12
  <2>3. ~People!HalfMarked(g)
    BY <2>2, <1>1, <1>3, <1>14 DEF People!Sure
  <2> QED
    BY <2>1, <2>3, <1>4, <1>6
<1> QED
  BY <1>2, <1>10, <1>11, <1>13, <1>14

LEMMA ScanStep ==
  ASSUME PersonsInv, NEW seeds \in SUBSET People!Live, People!Scan(seeds)
  PROVE  PersonsInv'
<1> DEFINE S == People!Candidates(seeds)
           sure == {g \in People!Judged(S) : People!Standing(g)}
           Rec(best, g) == [keep |-> p_nodes[best[g]].id, rest |-> {p_nodes[i].id : i \in g \ {best[g]}}]
<1>1. S \subseteq People!Live
  BY DEF People!Candidates
<1> HIDE DEF S
<1>16. \A g \in sure :
         /\ g \subseteq S /\ ~People!Distinct(g) /\ ~People!HalfMarked(g)
         /\ \E key : g = {i \in S : key \in People!Keys(i)}
  BY <1>1, SureIsNamesakes
<1>2. PICK best \in [sure -> People!Live] :
         /\ \A g \in sure : best[g] \in People!Keeps(g)
         /\ p_groups' = {Rec(best, g) : g \in sure}
  BY DEF People!Scan, S
<1>3. p_nodes' = p_nodes
  BY DEF People!Scan
<1>4. People!Live' = People!Live
  BY <1>3 DEF People!Live
<1>5. \A i : People!Names(i)' = People!Names(i)
  BY <1>3 DEF People!Names
<1>6. \A i : People!Keys(i)' = People!Keys(i) /\ People!Marks(i)' = People!Marks(i)
  BY <1>5 DEF People!Keys, People!Marks
<1>7. Numbered'
  BY <1>3, <1>4 DEF PersonsInv, Numbered
<1>8. \A i \in People!Live : i \in DOMAIN p_nodes /\ p_nodes[i].id \in PersonIds
  BY LiveIsHuman, HumanFields DEF PersonsInv
<1>9. \A g \in sure : g \subseteq People!Live /\ best[g] \in g
  BY <1>1, <1>2, SureIsNamesakes DEF People!Keeps
<1>10. PersonsTyped'
  <2>1. \A g \in sure : Rec(best, g) \in [keep : PersonIds, rest : SUBSET PersonIds]
    BY <1>8, <1>9
  <2> QED
    BY <1>2, <1>3, <2>1 DEF PersonsInv, PersonsTyped
<1>11. ASSUME NEW g \in sure, NEW i \in g, NEW j \in g PROVE Alike(i, j)
  <2>1. ~People!Distinct(g) /\ ~People!HalfMarked(g) /\ i \in People!Live /\ j \in People!Live
    BY <1>1, <1>9, SureIsNamesakes
  <2>2. ~People!Other(p_nodes[i].cik, p_nodes[j].cik) /\ People!Marks(i) = People!Marks(j)
    BY <2>1 DEF People!Distinct, People!HalfMarked, People!MarksConflict
  <2>3. PICK key : g = {x \in S : key \in People!Keys(x)}
    BY <1>16
  <2>4. ASSUME p_nodes[i].qid = People!No, p_nodes[j].qid = People!No PROVE People!Keys(i) = People!Keys(j)
    <3>1. ASSUME NEW x \in g, p_nodes[x].qid = People!No PROVE People!Keys(x) = {key}
      <4>1. Kept(p_nodes[x], x)
        BY <1>9 DEF PersonsInv, Numbered
      <4>2. \A a, b \in People!Names(x) : KeyOf(a) = KeyOf(b)
        BY <4>1, <3>1 DEF Kept, People!Names
      <4>3. People!Keys(x) = {KeyOf(a) : a \in People!Names(x)}
        BY DEF People!Keys, KeyOf
      <4>4. key \in People!Keys(x)
        BY <2>3
      <4> QED
        BY <4>2, <4>3, <4>4
    <3> QED
      BY <3>1, <2>4
  <2> QED
    BY <2>2, <2>4 DEF Alike
<1>12. ASSUME NEW g \in sure, NEW i \in g, i # best[g] PROVE p_nodes[i].qid = People!No
  <2> SUFFICES ASSUME p_nodes[i].qid # People!No PROVE FALSE
    OBVIOUS
  <2>1. p_nodes[best[g]].qid # People!No
    BY <1>2 DEF People!Keeps
  <2>2. ~People!Other(p_nodes[i].qid, p_nodes[best[g]].qid)
    BY <1>1, <1>9, SureIsNamesakes DEF People!Distinct
  <2> QED
    BY <2>1, <2>2, <1>9, <1>12 DEF People!Other, PersonsInv, Numbered, Unlike
<1>13. ASSUME NEW g \in sure, NEW i \in People!Live PROVE (p_nodes[i].id \in IdsOf(Rec(best, g)) <=> i \in g) /\ (p_nodes[i].id \in Rec(best, g).rest <=> i \in g \ {best[g]})
  BY <1>9, OneOfAnId DEF IdsOf, PersonsInv
<1>14. ASSUME NEW r \in p_groups' PROVE Joinable(r)'
  <2> PICK g \in sure : r = Rec(best, g)
    BY <1>2
  <2>1. r.keep \notin r.rest
    BY <1>9, <1>13
  <2>2. \A i \in MembersOf(r)' : i \in g
    BY <1>3, <1>4, <1>13 DEF MembersOf, IdsOf
  <2>3. \A i \in MembersOf(r)' : p_nodes[i].id \in r.rest => p_nodes[i].qid = People!No
    BY <2>2, <1>9, <1>12, <1>13
  <2>4. \A i, j \in MembersOf(r)' : Alike(i, j)'
    BY <2>2, <1>3, <1>6, <1>11 DEF Alike
  <2>5. \A i \in People!Live : <<"wd", p_nodes[i].qid>> \in IdsOf(r) => p_nodes[i].id # <<"uuid", i>>
    <3> SUFFICES ASSUME NEW i \in People!Live, <<"wd", p_nodes[i].qid>> \in IdsOf(r) PROVE p_nodes[i].id # <<"uuid", i>>
      OBVIOUS
    <3>1. PICK j \in g : p_nodes[j].id = <<"wd", p_nodes[i].qid>>
      BY <1>9 DEF IdsOf
    <3>2. j \in People!Live /\ p_nodes[j].qid = p_nodes[i].qid /\ p_nodes[j].qid # People!No
      BY <3>1, <1>9, IdNames DEF PersonsInv
    <3>3. j = i
      BY <3>2 DEF PersonsInv, Numbered, Unlike
    <3> QED
      BY <3>1, <3>3
  <2>6. \A i \in MembersOf(r)' : p_nodes'[i].id \in r.rest => p_nodes'[i].qid = People!No
    BY <2>3, <1>3
  <2>7. \A i \in People!Live' : <<"wd", p_nodes'[i].qid>> \in IdsOf(r)' => p_nodes'[i].id # <<"uuid", i>>
    BY <2>5, <1>3, <1>4 DEF IdsOf
  <2> QED
    BY <2>1, <2>4, <2>6, <2>7 DEF Joinable
<1>15. Disjoint'
  <2> SUFFICES ASSUME NEW g \in sure, NEW h \in sure, Rec(best, g) # Rec(best, h)
               PROVE  Rec(best, g).rest \cap Rec(best, h).rest = {} /\ Rec(best, g).keep \notin Rec(best, h).rest
    BY <1>2 DEF Disjoint
  <2>1. g # h
    OBVIOUS
  <2>2. ASSUME NEW x \in g, x \in h, p_nodes[x].qid = People!No PROVE FALSE
    <3>1. PICK k1 : g = {y \in S : k1 \in People!Keys(y)}
      BY <1>16
    <3>2. PICK k2 : h = {y \in S : k2 \in People!Keys(y)}
      BY <1>16
    <3>3. Kept(p_nodes[x], x)
      BY <1>9 DEF PersonsInv, Numbered
    <3>4. \A a, b \in People!Names(x) : KeyOf(a) = KeyOf(b)
      BY <3>3, <2>2 DEF Kept, People!Names
    <3>5. People!Keys(x) = {KeyOf(a) : a \in People!Names(x)}
      BY DEF People!Keys, KeyOf
    <3>6. k1 = k2
      BY <2>2, <3>1, <3>2, <3>4, <3>5
    <3> QED
      BY <2>1, <3>1, <3>2, <3>6
  <2>3. ASSUME NEW x \in g, x \in h \ {best[h]} PROVE FALSE
    BY <1>12, <2>2, <2>3
  <2>4. Rec(best, g).rest \cap Rec(best, h).rest = {}
    <3> SUFFICES ASSUME NEW d \in Rec(best, g).rest, d \in Rec(best, h).rest PROVE FALSE
      OBVIOUS
    <3>1. PICK x \in g : p_nodes[x].id = d
      OBVIOUS
    <3>2. x \in h \ {best[h]}
      BY <3>1, <1>9, <1>13
    <3> QED
      BY <3>2, <2>3
  <2>5. Rec(best, g).keep \notin Rec(best, h).rest
    BY <1>9, <1>13, <2>3
  <2> QED
    BY <2>4, <2>5
<1> QED
  BY <1>2, <1>7, <1>10, <1>14, <1>15 DEF PersonsInv

-----------------------------------------------------------------------------
(* The folds *)

\* The person kept of two that agree.
LEMMA MergedIs ==
  ASSUME PersonsTyped, Numbered, NEW k \in People!Live, NEW d \in People!Live, k # d, p_nodes[d].qid = People!No, Alike(k, d)
  PROVE  LET n == People!Rekeyed(People!Merged(k, d), {k, d}) IN
         /\ n \in Humans /\ n.live /\ n.of = p_nodes[k].of \cup p_nodes[d].of /\ n.qid = p_nodes[k].qid
         /\ {n.full} \cup n.also = People!Names(k) \cup People!Names(d)
         /\ Kept(n, k)
         /\ \A j \in People!Live : j # k /\ j # d => Unlike(n, p_nodes[j])
         /\ n.cik = p_nodes[k].cik \/ n.cik = p_nodes[d].cik
         /\ \/ n.id = p_nodes[k].id /\ n.cik = p_nodes[k].cik
            \/ n.id = p_nodes[d].id
            \/ /\ p_nodes[k].id = <<"uuid", k>> /\ p_nodes[k].qid # People!No /\ n.cik = p_nodes[k].cik
               /\ n.id = <<"wd", p_nodes[k].qid>>
<1> DEFINE m == People!Merged(k, d)
           n == People!Rekeyed(m, {k, d})
<1>1. p_nodes[k] \in Humans /\ p_nodes[d] \in Humans /\ p_nodes[k].live
  BY LiveIsHuman
<1>2. Kept(p_nodes[k], k) /\ Kept(p_nodes[d], d) /\ \A i, j \in People!Live : i # j => Unlike(p_nodes[i], p_nodes[j])
  BY DEF Numbered
<1>3. m \in Humans
  <2>1. People!Names(d) \subseteq NamesSaid /\ p_nodes[k].of \cup p_nodes[d].of \subseteq Nat
    BY <1>1, HumanFields DEF People!Names
  <2>2. (p_nodes[k].also \cup People!Names(d)) \ {p_nodes[k].full} \subseteq NamesSaid
    BY <1>1, <2>1, HumanFields
  <2>3. /\ People!Backfilled(p_nodes[k].cik, p_nodes[d].cik) \in CiksSaid /\ People!Backfilled(p_nodes[k].qid, p_nodes[d].qid) \in ItemsSaid
        /\ People!Backfilled(p_nodes[k].birth, p_nodes[d].birth) \in BirthsSaid
    BY <1>1, HumanFields DEF People!Backfilled
  <2>4. p_nodes[k].ents \cup p_nodes[d].ents \in SUBSET {s.ent : s \in PersonSightings}
    BY <1>1 DEF Humans
  <2> HIDE DEF People!Names, People!Backfilled
  <2> QED
    BY <1>1, <2>1, <2>2, <2>3, <2>4 DEF People!Merged, Humans
<1>4. /\ m.live /\ m.of = p_nodes[k].of \cup p_nodes[d].of /\ m.full = p_nodes[k].full /\ m.id = p_nodes[k].id
      /\ m.also = (p_nodes[k].also \cup People!Names(d)) \ {p_nodes[k].full}
      /\ m.cik = People!Backfilled(p_nodes[k].cik, p_nodes[d].cik)
      /\ m.qid = People!Backfilled(p_nodes[k].qid, p_nodes[d].qid) /\ m.birth = People!Backfilled(p_nodes[k].birth, p_nodes[d].birth)
  BY <1>1 DEF People!Merged, Humans
<1>5. m.qid = p_nodes[k].qid /\ m.birth = p_nodes[k].birth
  BY <1>2, <1>4 DEF People!Backfilled, Kept
<1>6. {m.full} \cup m.also = People!Names(k) \cup People!Names(d)
  BY <1>4 DEF People!Names
<1> HIDE DEF m
<1>7. /\ n \in Humans
      /\ n.live = m.live /\ n.full = m.full /\ n.also = m.also /\ n.cik = m.cik /\ n.qid = m.qid
      /\ n.birth = m.birth /\ n.of = m.of
      /\ n.id = IF /\ (m.id[1] # "sec" /\ m.cik # People!No) \/ (m.id[1] = "uuid" /\ m.qid # People!No)
                   /\ People!At(People!Keyed(m.cik, m.qid)) \subseteq {k, d}
                THEN People!Keyed(m.cik, m.qid) ELSE m.id
  BY <1>3, RekeyedIs
<1> HIDE DEF n
<1>8. n.cik = p_nodes[k].cik \/ n.cik = p_nodes[d].cik
  BY <1>4, <1>7 DEF People!Backfilled
<1>9. \A j \in People!Live : j # k /\ j # d => Unlike(n, p_nodes[j])
  BY <1>2, <1>5, <1>7, <1>8 DEF Unlike
<1>10. n.qid = People!No => \A a, b \in {n.full} \cup n.also : KeyOf(a) = KeyOf(b)
  <2> SUFFICES ASSUME n.qid = People!No, NEW a \in People!Names(k) \cup People!Names(d), NEW b \in People!Names(k) \cup People!Names(d) PROVE KeyOf(a) = KeyOf(b)
    BY <1>6, <1>7
  <2>1. People!Keys(k) = People!Keys(d)
    BY <1>5, <1>7 DEF Alike
  <2>2. People!Keys(k) = {KeyOf(x) : x \in People!Names(k)} /\ People!Keys(d) = {KeyOf(x) : x \in People!Names(d)}
    BY DEF People!Keys, KeyOf
  <2>3. \A x, y \in People!Names(k) : KeyOf(x) = KeyOf(y)
    BY <1>2, <1>5, <1>7 DEF Kept, People!Names
  <2> HIDE DEF KeyOf
  <2>4. ASSUME NEW x \in People!Names(d) PROVE \E y \in People!Names(k) : KeyOf(x) = KeyOf(y)
    <3>1. KeyOf(x) \in People!Keys(d)
      BY <2>2
    <3>2. KeyOf(x) \in {KeyOf(y) : y \in People!Names(k)}
      BY <3>1, <2>1, <2>2
    <3> QED
      BY <3>2
  <2> QED
    BY <2>3, <2>4
<1>11. CASE p_nodes[k].cik # People!No
  <2>1. n.cik = p_nodes[k].cik /\ n.id = p_nodes[k].id
    BY <1>4, <1>7, <1>11, IdNames DEF People!Backfilled
  <2>2. Kept(n, k)
    BY <2>1, <1>2, <1>5, <1>7, <1>10, <1>11 DEF Kept
  <2> QED
    BY <1>4, <1>5, <1>6, <1>7, <1>8, <1>9, <2>1, <2>2 DEF m, n
<1>12. CASE p_nodes[k].cik = People!No /\ p_nodes[d].cik # People!No
  <2>1. n.cik = p_nodes[d].cik /\ p_nodes[k].id[1] # "sec" /\ p_nodes[d].id = <<"sec", p_nodes[d].cik>>
    BY <1>2, <1>4, <1>7, <1>12, IdNames DEF People!Backfilled, Kept
  <2>2. People!At(<<"sec", p_nodes[d].cik>>) \subseteq {k, d}
    BY <2>1, OneOfAnId DEF People!At
  <2>3. n.id = p_nodes[d].id
    BY <2>1, <2>2, <1>4, <1>7, <1>12 DEF People!Keyed
  <2>4. Kept(n, k)
    BY <2>1, <2>3, <1>2, <1>5, <1>7, <1>10, <1>12 DEF Kept
  <2> QED
    BY <1>4, <1>5, <1>6, <1>7, <1>8, <1>9, <2>3, <2>4 DEF m, n
<1>13. CASE p_nodes[k].cik = People!No /\ p_nodes[d].cik = People!No
  <2>1. n.cik = People!No /\ m.cik = People!No
    BY <1>4, <1>7, <1>13 DEF People!Backfilled
  <2>2. CASE p_nodes[k].id[1] = "uuid" /\ p_nodes[k].qid # People!No
    <3>1. p_nodes[k].id = <<"uuid", k>>
      BY <2>2, IdNames
    <3>2. People!At(<<"wd", p_nodes[k].qid>>) \subseteq {k, d}
      BY <1>2, <2>2, IdNames DEF People!At, Unlike
    <3>3. n.id = <<"wd", p_nodes[k].qid>>
      BY <2>1, <2>2, <3>2, <1>4, <1>5, <1>7 DEF People!Keyed
    <3>4. Kept(n, k)
      BY <2>1, <2>2, <3>3, <1>2, <1>5, <1>7, <1>10 DEF Kept
    <3> QED
      BY <1>4, <1>5, <1>6, <1>7, <1>8, <1>9, <1>13, <2>1, <2>2, <3>1, <3>3, <3>4 DEF m, n
  <2>3. CASE ~(p_nodes[k].id[1] = "uuid" /\ p_nodes[k].qid # People!No)
    <3>1. n.id = p_nodes[k].id
      BY <2>1, <2>3, <1>4, <1>5, <1>7
    <3>2. Kept(n, k)
      BY <2>1, <3>1, <1>2, <1>5, <1>7, <1>10, <1>13 DEF Kept
    <3> QED
      BY <1>4, <1>5, <1>6, <1>7, <1>8, <1>9, <1>13, <2>1, <3>1, <3>2 DEF m, n
  <2> QED
    BY <2>2, <2>3
<1> QED
  BY <1>11, <1>12, <1>13

\* A member that is gone is passed over.
LEMMA PassedOver ==
  ASSUME PersonsInv, NEW g \in p_groups, NEW id \in g.rest, UNCHANGED p_nodes,
         p_groups' = (p_groups \ {g}) \cup {h \in {[keep |-> g.keep, rest |-> g.rest \ {id}]} : h.rest # {}}
  PROVE  PersonsInv'
<1>1. People!Live' = People!Live
  BY DEF People!Live
<1>2. \A i : People!Names(i)' = People!Names(i)
  BY DEF People!Names
<1>3. \A i : People!Keys(i)' = People!Keys(i) /\ People!Marks(i)' = People!Marks(i)
  BY <1>2 DEF People!Keys, People!Marks
<1>4. Numbered'
  BY <1>1 DEF PersonsInv, Numbered
<1>5. \A r \in p_groups' : \E h \in p_groups : /\ r.keep = h.keep /\ r.rest \subseteq h.rest
                                         /\ r \in [keep : PersonIds, rest : SUBSET PersonIds]
                                         /\ r # g => r = h \/ h = g
  <2>1. g \in [keep : PersonIds, rest : SUBSET PersonIds]
    BY DEF PersonsInv, PersonsTyped
  <2> QED
    BY <2>1 DEF PersonsInv, PersonsTyped
<1>6. PersonsTyped'
  BY <1>5 DEF PersonsInv, PersonsTyped
<1>7. ASSUME NEW r \in p_groups' PROVE Joinable(r)'
  <2>1. PICK h \in p_groups : r.keep = h.keep /\ r.rest \subseteq h.rest
    BY <1>5
  <2>2. Joinable(h)
    BY DEF PersonsInv
  <2>3. MembersOf(r)' \subseteq MembersOf(h)
    BY <1>1, <2>1 DEF MembersOf, IdsOf
  <2> QED
    BY <1>1, <1>3, <2>1, <2>2, <2>3 DEF Joinable, Alike, IdsOf
<1>8. Disjoint'
  <2> DEFINE r == [keep |-> g.keep, rest |-> g.rest \ {id}]
  <2>1. r.keep = g.keep /\ r.rest \subseteq g.rest /\ g.keep \notin g.rest
    BY DEF PersonsInv, Joinable
  <2> HIDE DEF r
  <2>2. \A h \in p_groups \ {g} : r.rest \cap h.rest = {} /\ r.keep \notin h.rest /\ h.keep \notin r.rest
    BY <2>1 DEF PersonsInv, Disjoint
  <2>3. \A h \in p_groups' : h \in p_groups \ {g} \/ h = r
    BY DEF r
  <2> QED
    BY <2>2, <2>3 DEF PersonsInv, Disjoint
<1> QED
  BY <1>4, <1>6, <1>7, <1>8 DEF PersonsInv

LEMMA PutIn ==
  ASSUME NEW S, NEW s \in Seq(S), NEW i \in DOMAIN s, NEW e \in S
  PROVE  [s EXCEPT ![i] = e] \in Seq(S)
  OBVIOUS

\* n, which k becomes, stands for k and d in the graph and in the group.
FoldedInto(g, id, k, d, n) ==
  /\ k # d /\ p_nodes[k].id = g.keep /\ p_nodes[d].id = id
  /\ n = People!Rekeyed(People!Merged(k, d), {k, d})
  /\ p_nodes' = [p_nodes EXCEPT ![d].live = FALSE, ![d].id = <<"gone", d>>, ![k] = n]
  /\ p_groups' = (p_groups \ {g}) \cup {h \in {[keep |-> n.id, rest |-> g.rest \ {id}]} : h.rest # {}}

\* Two that agree become one.
LEMMA FoldedStep ==
  ASSUME PersonsInv, NEW g \in p_groups, NEW id \in g.rest, NEW k \in People!Live, NEW d \in People!Live, NEW n,
         FoldedInto(g, id, k, d, n)
  PROVE  /\ PersonsInv' /\ People!Live' = People!Live \ {d} /\ Alike(k, d) /\ p_nodes[d].qid = People!No
         /\ \A i \in People!Live \ {k, d} : p_nodes'[i] = p_nodes[i]
<1>40. k # d /\ p_nodes[k].id = g.keep /\ p_nodes[d].id = id
  BY DEF FoldedInto
<1>41. n = People!Rekeyed(People!Merged(k, d), {k, d})
  BY DEF FoldedInto
<1>42. p_nodes' = [p_nodes EXCEPT ![d].live = FALSE, ![d].id = <<"gone", d>>, ![k] = n]
  BY DEF FoldedInto
<1>43. p_groups' = (p_groups \ {g}) \cup {h \in {[keep |-> n.id, rest |-> g.rest \ {id}]} : h.rest # {}}
  BY DEF FoldedInto
<1> USE <1>40
<1>1. Joinable(g) /\ k \in MembersOf(g) /\ d \in MembersOf(g)
  BY DEF PersonsInv, MembersOf, IdsOf
<1>2. Alike(k, d) /\ p_nodes[d].qid = People!No
  BY <1>1 DEF Joinable
<1>3. n \in Humans /\ n.live /\ n.of = p_nodes[k].of \cup p_nodes[d].of
  BY <1>2, <1>41, MergedIs DEF PersonsInv
<1>30. n.qid = p_nodes[k].qid /\ (n.cik = p_nodes[k].cik \/ n.cik = p_nodes[d].cik)
  BY <1>2, <1>41, MergedIs DEF PersonsInv
<1>31. {n.full} \cup n.also = People!Names(k) \cup People!Names(d)
  BY <1>2, <1>41, MergedIs DEF PersonsInv
<1>32. Kept(n, k) /\ \A j \in People!Live : j # k /\ j # d => Unlike(n, p_nodes[j])
  BY <1>2, <1>41, MergedIs DEF PersonsInv
<1>4. \/ n.id = p_nodes[k].id /\ n.cik = p_nodes[k].cik
      \/ n.id = p_nodes[d].id
      \/ /\ p_nodes[k].id = <<"uuid", k>> /\ p_nodes[k].qid # People!No /\ n.cik = p_nodes[k].cik
         /\ n.id = <<"wd", p_nodes[k].qid>>
  BY <1>2, <1>41, MergedIs DEF PersonsInv
<1>5. \A i \in People!Live : i \in DOMAIN p_nodes /\ i \in Nat /\ p_nodes[i] \in Humans
  BY LiveIsHuman DEF PersonsInv
<1>6. /\ p_nodes' \in Seq(Humans) /\ DOMAIN p_nodes' = DOMAIN p_nodes /\ p_nodes'[k] = n /\ ~p_nodes'[d].live
      /\ p_nodes'[d].of = p_nodes[d].of /\ \A i \in DOMAIN p_nodes \ {k, d} : p_nodes'[i] = p_nodes[i]
  <2> DEFINE gone == [p_nodes[d] EXCEPT !.live = FALSE, !.id = <<"gone", d>>]
  <2>1. p_nodes \in Seq(Humans)
    BY DEF PersonsInv, PersonsTyped
  <2>2. p_nodes' = [[p_nodes EXCEPT ![d] = gone] EXCEPT ![k] = n]
    BY <1>5, <1>42, <2>1
  <2>3. gone \in Humans /\ ~gone.live /\ gone.of = p_nodes[d].of
    <3>1. <<"gone", d>> \in PersonIds
      BY <1>5 DEF PersonIds
    <3> QED
      BY <1>5, <3>1 DEF Humans
  <2> HIDE DEF gone
  <2> DEFINE mid == [p_nodes EXCEPT ![d] = gone]
  <2>4. mid \in Seq(Humans) /\ DOMAIN mid = DOMAIN p_nodes /\ mid[d] = gone /\ \A i \in DOMAIN p_nodes \ {d} : mid[i] = p_nodes[i]
    BY <2>1, <2>3, <1>5
  <2>5. p_nodes' = [mid EXCEPT ![k] = n]
    BY <2>2
  <2> HIDE DEF mid
  <2>6. p_nodes' \in Seq(Humans) /\ DOMAIN p_nodes' = DOMAIN mid /\ p_nodes'[k] = n /\ \A i \in DOMAIN mid \ {k} : p_nodes'[i] = mid[i]
    <3>1. k \in DOMAIN mid /\ n \in Humans
      BY <1>3, <1>5, <2>4
    <3>2. p_nodes' \in Seq(Humans)
      BY <3>1, <2>4, <2>5, PutIn
    <3>3. DOMAIN p_nodes' = DOMAIN mid /\ p_nodes'[k] = n /\ \A i \in DOMAIN mid \ {k} : p_nodes'[i] = mid[i]
      BY <3>1, <2>4, <2>5
    <3> QED
      BY <3>2, <3>3
  <2> QED
    BY <1>5, <2>3, <2>4, <2>6
<1>7. People!Live' = People!Live \ {d}
  BY <1>3, <1>5, <1>6 DEF People!Live
<1>8. \A i \in People!Live \ {k, d} : p_nodes'[i] = p_nodes[i]
  BY <1>5, <1>6
<1>33. p_nodes'[k] = n /\ k \in People!Live'
  BY <1>6, <1>7
<1>9. PersonsTyped'
  <2>1. g \in [keep : PersonIds, rest : SUBSET PersonIds]
    BY DEF PersonsInv, PersonsTyped
  <2>2. [keep |-> n.id, rest |-> g.rest \ {id}] \in [keep : PersonIds, rest : SUBSET PersonIds]
    BY <2>1, <1>3, HumanFields
  <2>3. p_groups' \subseteq [keep : PersonIds, rest : SUBSET PersonIds]
    BY <2>2, <1>43 DEF PersonsInv, PersonsTyped
  <2>4. ASSUME NEW i \in DOMAIN p_nodes' PROVE p_nodes'[i].of \subseteq DOMAIN p_nodes'
    <3>1. \A e \in DOMAIN p_nodes : p_nodes[e].of \subseteq DOMAIN p_nodes
      BY DEF PersonsInv, PersonsTyped
    <3>2. CASE i = k
      BY <3>1, <3>2, <1>3, <1>5, <1>6
    <3>3. CASE i # k
      BY <3>1, <3>3, <1>5, <1>6
    <3> QED
      BY <3>2, <3>3
  <2> QED
    BY <2>3, <2>4, <1>6 DEF PersonsTyped
<1>10. Numbered'
  <2>1. \A i \in People!Live : Kept(p_nodes[i], i) /\ p_nodes[i].of \cap People!Live = {i}
    BY DEF PersonsInv, Numbered
  <2>2. \A i, j \in People!Live : i # j => Unlike(p_nodes[i], p_nodes[j])
    BY DEF PersonsInv, Numbered
  <2>3. ASSUME NEW i \in People!Live' PROVE Kept(p_nodes'[i], i) /\ p_nodes'[i].of \cap People!Live' = {i}
    <3>1. CASE i = k
      BY <3>1, <2>1, <1>3, <1>7, <1>32, <1>33
    <3>2. CASE i # k
      BY <3>2, <2>1, <1>7, <1>8
    <3> QED
      BY <3>1, <3>2
  <2>4. ASSUME NEW i \in People!Live', NEW j \in People!Live', i # j PROVE Unlike(p_nodes'[i], p_nodes'[j])
    <3>1. CASE i = k
      BY <2>4, <3>1, <1>7, <1>8, <1>32, <1>33
    <3>2. CASE j = k
      <4>1. Unlike(n, p_nodes[i]) /\ p_nodes'[i] = p_nodes[i] /\ p_nodes'[j] = n
        BY <2>4, <3>2, <1>7, <1>8, <1>32, <1>33
      <4> QED
        BY <4>1 DEF Unlike
    <3>3. CASE i # k /\ j # k
      BY <2>2, <2>4, <3>3, <1>7, <1>8
    <3> QED
      BY <3>1, <3>2, <3>3
  <2> QED
    BY <2>3, <2>4 DEF Numbered
<1>11. \A i \in People!Live \ {k, d} : People!Keys(i)' = People!Keys(i) /\ People!Marks(i)' = People!Marks(i)
  BY <1>8 DEF People!Keys, People!Marks, People!Names
<1>12. People!Names(k)' = People!Names(k) \cup People!Names(d)
  BY <1>31, <1>33 DEF People!Names
<1>13. People!Marks(k)' = People!Marks(k)
  <2>1. People!Marks(k)' = People!Marks(k) \cup People!Marks(d)
    BY <1>12 DEF People!Marks
  <2> QED
    BY <2>1, <1>2 DEF Alike
<1>14. p_nodes[k].qid = People!No => People!Keys(k)' = People!Keys(k)
  <2>1. People!Keys(k)' = People!Keys(k) \cup People!Keys(d)
    BY <1>12 DEF People!Keys
  <2> QED
    BY <2>1, <1>2 DEF Alike
<1>15. ASSUME NEW i \in People!Live', NEW j \in People!Live', Alike(i, j), j = k => Alike(i, d), i = k => Alike(d, j)
       PROVE  Alike(i, j)'
  <2>1. People!Marks(i)' = People!Marks(i) /\ People!Marks(j)' = People!Marks(j) /\ p_nodes'[i].qid = p_nodes[i].qid /\ p_nodes'[j].qid = p_nodes[j].qid
    BY <1>30, <1>33, <1>7, <1>8, <1>11, <1>13
  <2>2. p_nodes[i].qid = People!No /\ p_nodes[j].qid = People!No => People!Keys(i)' = People!Keys(i) /\ People!Keys(j)' = People!Keys(j)
    BY <1>7, <1>11, <1>14
  <2>3. ~People!Other(p_nodes'[i].cik, p_nodes'[j].cik)
    <3>1. ~People!Other(p_nodes[i].cik, p_nodes[j].cik)
      BY <1>15 DEF Alike
    <3>2. CASE i = k /\ j = k
      BY <3>2 DEF People!Other
    <3>3. CASE i = k /\ j # k
      <4>1. ~People!Other(p_nodes[d].cik, p_nodes[j].cik) /\ p_nodes'[j] = p_nodes[j]
        BY <3>3, <1>7, <1>8, <1>15 DEF Alike
      <4> QED
        BY <3>1, <3>3, <4>1, <1>30, <1>33 DEF People!Other
    <3>4. CASE i # k /\ j = k
      <4>1. ~People!Other(p_nodes[i].cik, p_nodes[d].cik) /\ p_nodes'[i] = p_nodes[i]
        BY <3>4, <1>7, <1>8, <1>15 DEF Alike
      <4> QED
        BY <3>1, <3>4, <4>1, <1>30, <1>33 DEF People!Other
    <3>5. CASE i # k /\ j # k
      BY <3>1, <3>5, <1>7, <1>8
    <3> QED
      BY <3>2, <3>3, <3>4, <3>5
  <2> QED
    BY <2>1, <2>2, <2>3, <1>15 DEF Alike
\* The kept person's new id is no other group's.
<1>16. ASSUME NEW r \in p_groups, r # g PROVE (n.id = p_nodes[k].id /\ n.cik = p_nodes[k].cik) \/ n.id \notin IdsOf(r)
  <2>1. p_nodes[d].id \notin IdsOf(r)
    BY <1>16 DEF PersonsInv, Disjoint, IdsOf
  <2>2. Joinable(r)
    BY DEF PersonsInv
  <2> QED
    BY <1>4, <2>1, <2>2 DEF Joinable
<1>17. n.id \notin g.rest \ {id}
  <2>1. g.keep \notin g.rest
    BY <1>1 DEF Joinable
  <2>2. p_nodes[k].id = <<"uuid", k>> => <<"wd", p_nodes[k].qid>> \notin IdsOf(g)
    BY <1>1 DEF Joinable
  <2> QED
    BY <1>4, <2>1, <2>2 DEF IdsOf
<1>18. n.id = <<"uuid", k>> => p_nodes[k].id = <<"uuid", k>>
  <2>1. p_nodes[d].id # <<"uuid", k>>
    BY IdNames DEF PersonsInv
  <2> QED
    BY <1>4, <2>1
<1>19. ASSUME NEW r \in p_groups, r # g PROVE Joinable(r)'
  <2>1. Joinable(r)
    BY DEF PersonsInv
  <2>2. \A i \in MembersOf(r)' : i \in MembersOf(r) /\ i \in People!Live' /\ (i = k => n.cik = p_nodes[k].cik /\ n.id = p_nodes[k].id)
    BY <1>33, <1>7, <1>8, <1>16, <1>19 DEF MembersOf, IdsOf
  <2>3. \A i \in MembersOf(r)' : p_nodes'[i].id = p_nodes[i].id /\ p_nodes'[i].qid = p_nodes[i].qid /\ p_nodes'[i].cik = p_nodes[i].cik
    BY <2>2, <1>30, <1>33, <1>7, <1>8
  <2>4. ASSUME NEW i \in MembersOf(r)', NEW j \in MembersOf(r)' PROVE Alike(i, j)'
    <3>1. Alike(i, j)
      BY <2>1, <2>2 DEF Joinable
    <3>2. People!Marks(i)' = People!Marks(i) /\ People!Marks(j)' = People!Marks(j)
      BY <2>2, <1>7, <1>11, <1>13
    <3>3. p_nodes[i].qid = People!No /\ p_nodes[j].qid = People!No => People!Keys(i)' = People!Keys(i) /\ People!Keys(j)' = People!Keys(j)
      BY <2>2, <1>7, <1>11, <1>14
    <3> QED
      BY <3>1, <3>2, <3>3, <2>3 DEF Alike
  <2>5. \A i \in People!Live' : <<"wd", p_nodes'[i].qid>> \in IdsOf(r) => p_nodes'[i].id # <<"uuid", i>>
    <3> SUFFICES ASSUME NEW i \in People!Live', <<"wd", p_nodes'[i].qid>> \in IdsOf(r) PROVE p_nodes'[i].id # <<"uuid", i>>
      OBVIOUS
    <3>1. p_nodes'[i].qid = p_nodes[i].qid /\ i \in People!Live
      BY <1>30, <1>33, <1>7, <1>8
    <3>2. p_nodes[i].id # <<"uuid", i>>
      BY <3>1, <2>1 DEF Joinable
    <3>3. CASE i = k
      BY <3>2, <3>3, <1>18, <1>33
    <3>4. CASE i # k
      BY <3>2, <3>4, <1>7, <1>8
    <3> QED
      BY <3>3, <3>4
  <2> QED
    BY <2>1, <2>2, <2>3, <2>4, <2>5 DEF Joinable, IdsOf
<1>20. ASSUME NEW r, r = [keep |-> n.id, rest |-> g.rest \ {id}] PROVE Joinable(r)'
  <2>1. Joinable(g) /\ r.keep = n.id /\ r.rest = g.rest \ {id}
    BY <1>1, <1>20
  <2>2. \A i \in People!Live : p_nodes[i].id = p_nodes[d].id => i = d
    BY OneOfAnId DEF PersonsInv
  <2>3. \A i \in People!Live : p_nodes[i].id = p_nodes[k].id => i = k
    BY OneOfAnId DEF PersonsInv
  <2>4. \A i \in People!Live : p_nodes[k].qid # People!No /\ p_nodes[i].qid = p_nodes[k].qid => i = k
    BY DEF PersonsInv, Numbered, Unlike
  <2>5. \A i \in People!Live : \A q : p_nodes[i].id = <<"wd", q>> => p_nodes[i].qid = q
    BY IdNames DEF PersonsInv
  <2>6. ASSUME NEW i \in MembersOf(r)' PROVE i \in People!Live' /\ (i = k \/ p_nodes[i].id \in r.rest) /\ i \in MembersOf(g)
    <3>1. i \in People!Live' /\ p_nodes'[i].id \in IdsOf(r)
      BY DEF MembersOf, IdsOf
    <3>2. CASE i = k
      BY <3>1, <3>2, <1>1
    <3>3. CASE i # k
      <4>1. i \in People!Live /\ i # d /\ p_nodes'[i] = p_nodes[i]
        BY <3>1, <3>3, <1>7, <1>8
      <4>2. p_nodes[i].id # n.id
        BY <4>1, <3>3, <1>4, <2>2, <2>3, <2>4, <2>5
      <4> QED
        BY <3>1, <4>1, <4>2, <2>1 DEF IdsOf, MembersOf
    <3> QED
      BY <3>2, <3>3
  <2>7. \A i, j \in MembersOf(g) : Alike(i, j)
    BY <2>1 DEF Joinable
  <2>8. \A i, j \in MembersOf(r)' : Alike(i, j)'
    BY <2>6, <2>7, <1>1, <1>15
  <2>9. \A i \in MembersOf(r)' : p_nodes'[i].id \in r.rest => p_nodes'[i].qid = People!No
    <3> SUFFICES ASSUME NEW i \in MembersOf(r)', p_nodes'[i].id \in r.rest PROVE p_nodes'[i].qid = People!No
      OBVIOUS
    <3>1. i # k
      BY <2>1, <1>33, <1>17
    <3>2. p_nodes'[i] = p_nodes[i] /\ i \in MembersOf(g) /\ p_nodes[i].id \in g.rest
      BY <3>1, <2>1, <2>6, <1>7, <1>8
    <3> QED
      BY <3>2, <2>1 DEF Joinable
  <2>10. \A i \in People!Live' : <<"wd", p_nodes'[i].qid>> \in IdsOf(r) => p_nodes'[i].id # <<"uuid", i>>
    <3> SUFFICES ASSUME NEW i \in People!Live', <<"wd", p_nodes'[i].qid>> \in IdsOf(r) PROVE p_nodes'[i].id # <<"uuid", i>>
      OBVIOUS
    <3>1. p_nodes'[i].qid = p_nodes[i].qid /\ i \in People!Live
      BY <1>30, <1>33, <1>7, <1>8
    <3>2. CASE <<"wd", p_nodes[i].qid>> \in IdsOf(g)
      BY <3>1, <3>2, <2>1, <1>33, <1>7, <1>8, <1>18 DEF Joinable
    <3>3. CASE <<"wd", p_nodes[i].qid>> \notin IdsOf(g)
      <4>1. <<"wd", p_nodes[i].qid>> = n.id /\ n.id # p_nodes[k].id /\ n.id # p_nodes[d].id
        BY <3>1, <3>3, <2>1 DEF IdsOf
      <4>2. p_nodes[k].qid # People!No /\ n.id = <<"wd", p_nodes[k].qid>>
        BY <4>1, <1>4
      <4>3. i = k
        BY <4>1, <4>2, <3>1, <2>4
      <4> QED
        BY <4>2, <4>3, <1>33
    <3> QED
      BY <3>2, <3>3
  <2> QED
    BY <2>1, <2>8, <2>9, <2>10, <1>17 DEF Joinable, IdsOf
<1>21. \A r \in p_groups' : (r \in p_groups /\ r # g) \/ r = [keep |-> n.id, rest |-> g.rest \ {id}]
  BY <1>43
<1>22. \A r \in p_groups' : Joinable(r)'
  BY <1>19, <1>20, <1>21
<1>23. Disjoint'
  <2> DEFINE r == [keep |-> n.id, rest |-> g.rest \ {id}]
  <2>1. r.keep = n.id /\ r.rest \subseteq g.rest
    OBVIOUS
  <2> HIDE DEF r
  <2>2. ASSUME NEW h \in p_groups, h # g PROVE r.rest \cap h.rest = {} /\ r.keep \notin h.rest /\ h.keep \notin r.rest
    <3>1. g.rest \cap h.rest = {} /\ g.keep \notin h.rest /\ h.keep \notin g.rest
      BY <2>2 DEF PersonsInv, Disjoint
    <3> QED
      BY <3>1, <2>1, <2>2, <1>16 DEF IdsOf
  <2>3. \A h \in p_groups' : (h \in p_groups /\ h # g) \/ h = r
    BY <1>21 DEF r
  <2>4. \A a, b \in p_groups : a # b => a.rest \cap b.rest = {} /\ a.keep \notin b.rest
    BY DEF PersonsInv, Disjoint
  <2>5. ASSUME NEW a \in p_groups', NEW b \in p_groups', a # b PROVE a.rest \cap b.rest = {} /\ a.keep \notin b.rest
    <3>1. CASE a = r
      BY <2>2, <2>3, <2>5, <3>1
    <3>2. CASE b = r
      BY <2>2, <2>3, <2>5, <3>2
    <3>3. CASE a # r /\ b # r
      BY <2>3, <2>4, <2>5, <3>3
    <3> QED
      BY <3>1, <3>2, <3>3
  <2> QED
    BY <2>5 DEF Disjoint
<1> QED
  BY <1>2, <1>7, <1>8, <1>9, <1>10, <1>22, <1>23 DEF PersonsInv

-----------------------------------------------------------------------------
\* What is true of a step that joins one human.
OneHumanStep ==
  \A d \in People!Live : \A k \in People!Live : d \notin People!Live' /\ d \in p_nodes'[k].of => ~People!Distinct({k, d})

LEMMA FoldStep ==
  ASSUME PersonsInv, NEW g \in p_groups, NEW id \in g.rest, People!Fold(g, id)
  PROVE  PersonsInv' /\ OneHumanStep
<1> DEFINE hit == {p \in People!At(g.keep) \X People!At(id) : p[1] # p[2]}
<1>1. CASE hit = {}
  <2>1. UNCHANGED p_nodes /\ p_groups' = (p_groups \ {g}) \cup {h \in {[keep |-> g.keep, rest |-> g.rest \ {id}]} : h.rest # {}}
    BY <1>1 DEF People!Fold
  <2>2. People!Live' = People!Live
    BY <2>1 DEF People!Live
  <2> QED
    BY <2>1, <2>2, PassedOver DEF OneHumanStep
<1>2. CASE hit # {}
  <2>1. PICK p \in hit :
          LET k == p[1] d == p[2]
              n == People!Rekeyed(People!Merged(k, d), {k, d})
          IN /\ p_nodes' = [p_nodes EXCEPT ![d].live = FALSE, ![d].id = <<"gone", d>>, ![k] = n]
             /\ p_groups' = (p_groups \ {g}) \cup {h \in {[keep |-> n.id, rest |-> g.rest \ {id}]} : h.rest # {}}
    BY <1>2 DEF People!Fold
  <2>2. PICK k, d : k = p[1] /\ d = p[2]
    OBVIOUS
  <2>3. k \in People!Live /\ d \in People!Live /\ k # d /\ p_nodes[k].id = g.keep /\ p_nodes[d].id = id
    BY <2>2 DEF People!At
  <2>4. PICK n : n = People!Rekeyed(People!Merged(k, d), {k, d})
    OBVIOUS
  <2>5. /\ p_nodes' = [p_nodes EXCEPT ![d].live = FALSE, ![d].id = <<"gone", d>>, ![k] = n]
        /\ p_groups' = (p_groups \ {g}) \cup {h \in {[keep |-> n.id, rest |-> g.rest \ {id}]} : h.rest # {}}
    BY <2>1, <2>2, <2>4
  <2>6. /\ PersonsInv' /\ People!Live' = People!Live \ {d} /\ Alike(k, d) /\ p_nodes[d].qid = People!No
        /\ \A i \in People!Live \ {k, d} : p_nodes'[i] = p_nodes[i]
    <3>1. FoldedInto(g, id, k, d, n)
      BY <2>3, <2>4, <2>5 DEF FoldedInto
    <3> QED
      BY <2>3, <3>1, FoldedStep
  <2>7. ~People!Distinct({k, d}) /\ ~People!Distinct({d, d})
    BY <2>6 DEF People!Distinct, Alike, People!Other, People!MarksConflict
  <2>8. ASSUME NEW e \in People!Live, NEW j \in People!Live, e \notin People!Live', e \in p_nodes'[j].of PROVE ~People!Distinct({j, e})
    <3>1. e = d
      BY <2>6, <2>8
    <3>2. CASE j = k
      BY <3>1, <3>2, <2>7
    <3>3. CASE j = d
      BY <3>1, <3>3, <2>7
    <3>4. CASE j # k /\ j # d
      BY <3>1, <3>4, <2>3, <2>6, <2>8 DEF PersonsInv, Numbered
    <3> QED
      BY <3>2, <3>3, <3>4
  <2> QED
    BY <2>6, <2>8 DEF OneHumanStep
<1> QED
  BY <1>1, <1>2

LEMMA PersonsNext ==
  ASSUME FoldFigures, PersonsInv, [People!Next]_(People!vars)
  PROVE  PersonsInv' /\ OneHumanStep
<1>1. ASSUME NEW s \in PersonSightings, People!Write(s) PROVE PersonsInv' /\ OneHumanStep
  <2>1. p_groups = {} /\ p_groups' = {}
    BY <1>1 DEF People!Write, FoldFigures
  <2>2. PersonsInv' /\ People!Live \subseteq People!Live'
    BY <1>1, <2>1, FilerStep, ItemStep DEF People!Write
  <2> QED
    BY <2>2 DEF OneHumanStep
<1>2. ASSUME NEW seeds \in SUBSET People!Live, People!Scan(seeds) PROVE PersonsInv' /\ OneHumanStep
  <2>1. People!Live' = People!Live
    BY <1>2 DEF People!Scan, People!Live
  <2> QED
    BY <1>2, <2>1, ScanStep DEF OneHumanStep
<1>3. ASSUME NEW g \in p_groups, NEW id \in g.rest, People!Fold(g, id) PROVE PersonsInv' /\ OneHumanStep
  BY <1>3, FoldStep
<1>4. ASSUME UNCHANGED <<p_nodes, p_groups>> PROVE PersonsInv' /\ OneHumanStep
  <2>1. People!Live' = People!Live
    BY <1>4 DEF People!Live
  <2>2. \A i : People!Names(i)' = People!Names(i)
    BY <1>4 DEF People!Names
  <2>3. \A i : People!Keys(i)' = People!Keys(i) /\ People!Marks(i)' = People!Marks(i)
    BY <2>2 DEF People!Keys, People!Marks
  <2>4. Numbered' /\ Disjoint' /\ PersonsTyped'
    BY <1>4, <2>1 DEF PersonsInv, Numbered, Disjoint, PersonsTyped
  <2>5. \A g : Joinable(g)' <=> Joinable(g)
    BY <1>4, <2>1, <2>3 DEF Joinable, MembersOf, IdsOf, Alike
  <2> QED
    BY <1>4, <2>1, <2>4, <2>5 DEF PersonsInv, OneHumanStep
<1>5. ASSUME (\E g \in SUBSET People!Live : People!KeepSeparate(g)) \/ (\E p \in p_apart : People!UndoKeepSeparate(p)) \/ UNCHANGED People!vars
      PROVE  UNCHANGED <<p_nodes, p_groups>>
  BY <1>5 DEF People!KeepSeparate, People!UndoKeepSeparate, People!vars
<1>6. \A i \in People!Live : {i} \in SUBSET People!Live
  OBVIOUS
<1> QED
  BY <1>1, <1>2, <1>3, <1>4, <1>5, <1>6 DEF People!Next

\* The inductive invariant: who has no item has one name, numbers and items are one
\* person's, and two members of a group still to fold agree, whatever the folds before
\* in the same pass made of them (merge_person_records, key_on_learning).
THEOREM FoldsInvariance == ASSUME FoldFigures PROVE People!Spec => []PersonsInv
<1>1. People!Init => PersonsInv
  BY DEF People!Init, PersonsInv, PersonsTyped, Numbered, Disjoint, People!Live
<1>2. PersonsInv /\ [People!Next]_(People!vars) => PersonsInv'
  BY PersonsNext
<1> QED
  BY <1>1, <1>2, PTL DEF People!Spec

\* Whatever the sources say, in whatever order, and however the groups of a pass overlap:
\* a fold never joins two filers, two items or two generations
\* (deduplicate_high_confidence), as long as nothing is written beside the pass.
THEOREM AlwaysOneHuman == ASSUME FoldFigures PROVE People!Spec => FoldsOneHuman
<1>1. PersonsInv /\ [People!Next]_(People!vars) => OneHumanStep
  BY PersonsNext
<1> QED
  BY <1>1, FoldsInvariance, PTL DEF People!Spec, FoldsOneHuman, People!FoldsOneHuman, OneHumanStep

-----------------------------------------------------------------------------
(* The suite *)

\* A behaviour of the suite is one of each component's, at work or still: what is proved
\* of them holds of what is checked.
THEOREM MergesRunEach == SuiteSpec => Pair!Spec /\ People!Spec /\ Spec
<1> DEFINE all == <<part, vars, twoVars, pVars>>
<1>1. SuiteInit => Pair!Init /\ People!Init /\ Init
  BY DEF SuiteInit
<1>2. ASSUME [SuiteNext]_all PROVE [Pair!Next]_(Pair!vars)
  BY <1>2 DEF SuiteNext, Pair!vars, Pair!graph, Pair!task, twoVars
<1>3. ASSUME [SuiteNext]_all PROVE [Next]_vars
  BY <1>3 DEF SuiteNext, vars, graph, task
<1>4. ASSUME [SuiteNext]_all PROVE [People!Next]_(People!vars)
  BY <1>4 DEF SuiteNext, People!vars, pVars
<1> QED
  BY <1>1, <1>2, <1>3, <1>4, PTL DEF SuiteSpec, Pair!Spec, People!Spec, Spec
=============================================================================
