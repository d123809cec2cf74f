------------------------------- MODULE Persons -------------------------------
(* Person nodes: the writers that find or create them, the scan that groups    *)
(* the likely duplicates, and the folds it makes of the groups it is sure of.  *)
EXTENDS Naturals, Sequences, FiniteSets

CONSTANTS
  Sightings,  \* what sources say of a person: [by, full, also, cik, qid, birth, ent]
  Variants,   \* pairs of name keys with one surname and compatible given names
  MaxWrites, MaxScans, MaxTold,  \* bounds of the model
  Beside      \* whether others work while a scan's groups are folded

\* A name: the words it is made of, whatever their order; its generational mark;
\* and whether its given name comes "first" or "last" of two, or there are more.
No == "none"

VARIABLES
  nodes,   \* [live, id, full, also, cik, qid, birth, ents, of]
  apart,   \* the pairs of nodes marked NOT_DUPLICATE
  told,    \* the pairs ever marked
  groups,  \* the groups still to fold: [keep, rest], by id
  writes, scans

vars == <<nodes, apart, told, groups, writes, scans>>

Live == {i \in DOMAIN nodes : nodes[i].live}
At(id) == {i \in Live : nodes[i].id = id}
Names(i) == {nodes[i].full} \cup nodes[i].also

\* generation_marks, and marks_conflict: both marked, and differently.
Marks(i) == {n.mark : n \in Names(i)} \ {No}
MarksConflict(i, j) == Marks(i) # {} /\ Marks(j) # {} /\ Marks(i) # Marks(j)

\* _name_key: the words without their order; a mark is one of them.
Keys(i) == {<<n.words, n.mark>> : n \in Names(i)}

Other(a, b) == a # No /\ b # No /\ a # b

TypeOK ==
  /\ \A i \in DOMAIN nodes : nodes[i].of \subseteq DOMAIN nodes /\ nodes[i].live \in BOOLEAN
  /\ \A i, j \in Live : i # j => nodes[i].id # nodes[j].id
  /\ apart \subseteq told /\ writes \in 0 .. MaxWrites /\ scans \in 0 .. MaxScans

Init ==
  /\ nodes = <<>> /\ apart = {} /\ told = {} /\ groups = {} /\ writes = 0 /\ scans = 0

-----------------------------------------------------------------------------
(* The writers *)

Keyed(cik, qid) == IF cik # No THEN <<"sec", cik>> ELSE <<"wd", qid>>

\* Broken form: a node keeps the id it was made with.
Rekeyed_Never(n, self) == n

\* key_on_learning: an id that names no register gives way to a CIK, and a random
\* one to an item too, unless a node has that id already.
Rekeyed(n, self) ==
  LET better == \/ n.id[1] # "sec" /\ n.cik # No
                \/ n.id[1] = "uuid" /\ n.qid # No
  IN  IF better /\ At(Keyed(n.cik, n.qid)) \subseteq self
      THEN [n EXCEPT !.id = Keyed(n.cik, n.qid)] ELSE n

Put(i, n) == nodes' = [nodes EXCEPT ![i] = n]
Known(n, s) == [n EXCEPT !.ents = @ \cup {s.ent}]
Backfilled(old, new) == IF old = No THEN new ELSE old

Create(s) ==
  nodes' = Append(nodes,
    [live |-> TRUE, full |-> s.full, also |-> s.also, cik |-> s.cik, qid |-> s.qid,
     birth |-> s.birth, ents |-> {s.ent}, of |-> {Len(nodes) + 1},
     id |-> IF s.cik = No /\ s.qid = No THEN <<"uuid", Len(nodes) + 1>> ELSE Keyed(s.cik, s.qid)])

\* Two words are turned round; a name of more is left.
Reversed(name) ==
  [name EXCEPT !.given = CASE @ = "first" -> "last" [] @ = "last" -> "first" [] OTHER -> @]

\* _upsert_person_by_name: by the filer's number; by the name as written, then
\* by the two words turned round.  One node of a name is read, whichever, and
\* passed over when it has another number.
WriteFiler(s) ==
  LET byCik == {i \in Live : s.cik # No /\ nodes[i].cik = s.cik}
      Named(name) == {i \in Live : nodes[i].full = name}
      Fits(i) == ~Other(nodes[i].cik, s.cik)
      Missed(name) == Named(name) = {} \/ \E i \in Named(name) : ~Fits(i)
      Stamped(i) == [Known(nodes[i], s) EXCEPT !.cik = Backfilled(@, s.cik)]
      Stamp(i) == Fits(i) /\ Put(i, IF s.cik # No THEN Rekeyed(Stamped(i), {i}) ELSE Stamped(i))
  IN
  /\ s.by = "sec"
  /\ IF byCik # {} THEN \E i \in byCik : Put(i, Known(nodes[i], s))
     ELSE \/ \E i \in Named(s.full) : Stamp(i)
          \/ /\ Missed(s.full)
             /\ \/ Reversed(s.full) # s.full /\ \E i \in Named(Reversed(s.full)) : Stamp(i)
                \/ Missed(Reversed(s.full)) /\ Create(s)

\* _upsert_person of the Wikidata runner: by the item, then by the name; blanks
\* are filled, the item among them, and the id stays.
WriteItem(s) ==
  LET byQid == {i \in Live : nodes[i].qid = s.qid}
      found == IF byQid # {} THEN byQid ELSE {i \in Live : nodes[i].full = s.full}
      Filled(n) == [Known(n, s) EXCEPT !.qid = Backfilled(@, s.qid), !.birth = Backfilled(@, s.birth),
                                       !.also = IF @ = {} THEN s.also ELSE @]
  IN
  /\ s.by = "wikidata"
  /\ IF found # {} THEN \E i \in found : Put(i, Filled(nodes[i])) ELSE Create(s)

Write(s) ==
  /\ groups = {} \/ Beside
  /\ writes < MaxWrites /\ writes' = writes + 1
  /\ WriteFiler(s) \/ WriteItem(s)
  /\ UNCHANGED <<apart, told, groups, scans>>

-----------------------------------------------------------------------------
(* The scan *)

\* _candidate_persons: the persons a scrape touched, and those of their names
\* and items.
Candidates(seeds) ==
  {i \in Live : \E s \in seeds :
     \/ i = s
     \/ Keys(i) \cap Keys(s) # {}
     \/ nodes[s].qid # No /\ nodes[i].qid = nodes[s].qid
     \/ \E a \in Keys(i), b \in Keys(s) : {a[1], b[1]} \in Variants}

\* What puts persons in one group, the surest first: one filer's number, a birth,
\* a name, a variant of a name.
Grouped(kind, S) ==
  LET all == CASE kind = "cik"   -> {{i \in S : nodes[i].cik = c} : c \in {nodes[i].cik : i \in S} \ {No}}
               [] kind = "birth" -> {{i \in S : nodes[i].birth = b} : b \in {nodes[i].birth : i \in S} \ {No}}
               [] kind = "name"  -> {{i \in S : k \in Keys(i)} : k \in UNION {Keys(i) : i \in S}}
               [] OTHER          -> {{i, j} : i, j \in S}
  IN  {g \in all : /\ Cardinality(g) > 1
                   /\ kind = "variant" => \A i, j \in g : i # j =>
                        {nodes[i].full.words, nodes[j].full.words} \in Variants}

ShareCompany(g) == \E i, j \in g : i # j /\ nodes[i].ents \cap nodes[j].ents # {}

\* Two numbers, two items or two marks: two people, however alike.
Distinct(g) ==
  \E i, j \in g : Other(nodes[i].cik, nodes[j].cik) \/ Other(nodes[i].qid, nodes[j].qid) \/ MarksConflict(i, j)

SharedBirth(g) ==
  /\ Cardinality({nodes[i].birth : i \in g} \ {No}) = 1
  /\ Cardinality({i \in g : nodes[i].birth # No}) > 1
ConflictingBirth(g) == Cardinality({nodes[i].birth : i \in g} \ {No}) > 1

\* One name carries a mark the other lacks.
HalfMarked(g) == (\E i \in g : Marks(i) # {}) /\ (\E i \in g : Marks(i) = {})

\* The groups _emit is sure of.
Sure(kind, g) ==
  /\ ~Distinct(g)
  /\ \/ kind = "cik"
     \/ SharedBirth(g) /\ (kind = "variant" => ShareCompany(g))
     \/ /\ kind # "variant" /\ ~ConflictingBirth(g) /\ ~HalfMarked(g)
        /\ ShareCompany(g)
        /\ \A i, j \in g : i # j => nodes[i].full # nodes[j].full

Kinds == <<"cik", "birth", "name", "variant">>
\* Members that form two groups are judged as the first of them.
Judged(S) ==
  {g \in UNION {Grouped(Kinds[k], S) : k \in 1 .. 4} :
     Sure(Kinds[CHOOSE k \in 1 .. 4 : /\ g \in Grouped(Kinds[k], S)
                                       /\ \A j \in 1 .. k - 1 : g \notin Grouped(Kinds[j], S)], g)}

\* A group stands unless every pair of it is marked as different people.
Standing(g) == \E i, j \in g : i # j /\ {i, j} \notin apart

\* The one to keep: with an item, then with the most companies.
Keeps(g) ==
  LET items == {i \in g : nodes[i].qid # No}
      among == IF items # {} THEN items ELSE g
  IN  {i \in among : \A j \in among : Cardinality(nodes[j].ents) <= Cardinality(nodes[i].ents)}

\* After a scrape the scan starts from the persons it touched; by hand, from all.
Scan(seeds) ==
  LET sure == {g \in Judged(Candidates(seeds)) : Standing(g)} IN
  /\ groups = {} /\ sure # {}
  /\ scans < MaxScans /\ scans' = scans + 1
  /\ \E keep \in [sure -> Live] :
       /\ \A g \in sure : keep[g] \in Keeps(g)
       /\ groups' = {[keep |-> nodes[keep[g]].id, rest |-> {nodes[i].id : i \in g \ {keep[g]}}] : g \in sure}
  /\ UNCHANGED <<nodes, apart, told, writes>>

-----------------------------------------------------------------------------
(* The folds: merge_person_records *)

\* The kept person takes the other's names, ids, birth and edges, and a better id.
Merged(k, d) ==
  LET n == nodes[k] m == nodes[d] IN
  [n EXCEPT !.also = (@ \cup Names(d)) \ {n.full},
            !.cik = Backfilled(@, m.cik), !.qid = Backfilled(@, m.qid), !.birth = Backfilled(@, m.birth),
            !.ents = @ \cup m.ents, !.of = @ \cup m.of]

\* A member that is gone, or a kept person that is, is passed over.
Fold(g, id) ==
  LET hit == {p \in At(g.keep) \X At(id) : p[1] # p[2]}
      Goes(keep) == groups' = (groups \ {g}) \cup
                      {h \in {[keep |-> keep, rest |-> g.rest \ {id}]} : h.rest # {}}
  IN
  /\ id \in g.rest
  /\ IF hit = {} THEN Goes(g.keep) /\ UNCHANGED <<nodes, apart>>
     ELSE \E p \in hit :
            LET k == p[1] d == p[2]
                n == Rekeyed(Merged(k, d), {k, d})
            IN /\ nodes' = [nodes EXCEPT ![d].live = FALSE, ![d].id = <<"gone", d>>, ![k] = n]
               /\ apart' = {q \in apart : d \notin q}
               /\ Goes(n.id)
  /\ UNCHANGED <<told, writes, scans>>

\* keep_separate: a person of the desk marks a group as different people.
KeepSeparate(g) ==
  LET pairs == {p \in SUBSET g : Cardinality(p) = 2} IN
  /\ groups = {} \/ Beside
  /\ Cardinality(told) + Cardinality(pairs) <= MaxTold
  /\ apart' = apart \cup pairs /\ told' = told \cup pairs
  /\ UNCHANGED <<nodes, groups, writes, scans>>

UndoKeepSeparate(p) ==
  /\ p \in apart
  /\ apart' = apart \ {p} /\ told' = told \ {p}
  /\ UNCHANGED <<nodes, groups, writes, scans>>

Next ==
  \/ \E s \in Sightings : Write(s)
  \/ \E i \in Live : Scan({i})
  \/ Scan(Live)
  \/ \E g \in groups : \E id \in g.rest : Fold(g, id)
  \/ \E g \in SUBSET Live : Cardinality(g) > 1 /\ KeepSeparate(g)
  \/ \E p \in apart : UndoKeepSeparate(p)

Spec == Init /\ [][Next]_vars

-----------------------------------------------------------------------------

\* What a fold joins is one human at the moment of the fold, whatever the folds
\* before it in the same pass made of the two nodes: never two filers, two items
\* or two generations.
FoldsOneHuman ==
  [][\A d \in Live : \A k \in Live :
       d \notin Live' /\ d \in nodes'[k].of => ~Distinct({k, d})]_vars

\* Two persons marked as different people stay two.
KeptApart ==
  \A p \in told : \A i \in Live : ~(p \subseteq nodes[i].of)
=============================================================================
