----------------------------- MODULE Duplicates -----------------------------
(* Which nodes are one company (maintenance.py): nodes that share a hard id    *)
(* are folded, across sources; a filer of EDGAR and a corporate owner in the   *)
(* UK register share none with GLEIF's record of them, and are given its LEI   *)
(* where filings or the registers' own words agree (legal_identity.py).  The   *)
(* full run asks the whole graph, the scoped one the namesakes of what a       *)
(* scrape touched.  A fold is one step here; its statements are in             *)
(* MergeRedirect.  Names are a stem (the name key) and a form (kept by the     *)
(* legal name); a building stands for its street line, city and postcode.      *)
EXTENDS Integers, FiniteSets, Sequences, SequencesExt

CONSTANTS
  Loads,      \* what a source writes at once: sets of nodes
  Gleif,      \* the words of GLEIF's records, by LEI
  Filer,      \* what EDGAR knows of a filer, by CIK
  Owner,      \* the words of a corporate owner's notice, by its key
  States,     \* <<cik, lei>> where a filing of the filer states the LEI as its own
  Today,      \* the day of the runs
  Sizes,      \* how many groups a run may take (limit)
  MaxLoads,   \* bound: loads
  MaxRuns,    \* bound: runs
  MaxMarks,   \* bound: pairs kept apart or merged by hand
  MaxUnread   \* bound: filers GLEIF or EDGAR does not answer for

VARIABLES
  nodes,      \* the Entity vertices
  gone,       \* ids that lead to another node
  apart,      \* the pairs of ids a human keeps apart
  job,        \* the run at work
  swept,      \* the last run is over everything, and no source wrote since it began
  loads, runs, marks, unread

vars == <<nodes, gone, apart, job, swept, loads, runs, marks, unread>>

No    == "none"
Kinds == <<"lei", "ch", "cik", "qid", "reg">>    \* the hard ids, in the order they are read
Idle  == [at |-> "idle", all |-> FALSE, whole |-> FALSE, kept |-> {}, members |-> {}, todo |-> {}, group |-> <<>>]

ByNode(id)     == {n \in nodes : n.id = id}
Node(id)       == CHOOSE n \in nodes : n.id = id
Namesakes(key) == {n \in nodes : n.name.stem = key}
Lei(n)         == n.ids["lei"]
Cik(n)         == n.ids["cik"]

Init ==
  /\ nodes = {} /\ gone = {} /\ apart = {} /\ job = Idle
  /\ swept = FALSE /\ loads = 0 /\ runs = 0 /\ marks = 0 /\ unread = 0

-----------------------------------------------------------------------------
(* Two legal entities or one: legal_identity *)

Unmaintained == {"LAPSED", "RETIRED"}
NotTheEntity == {"DUPLICATE", "ANNULLED", "RETIRED", "MERGED"}

\* Two places: the same, another one, or no word on it.
Places(a, b) ==
  IF No \in {a.country, b.country} THEN "open"
  ELSE IF a = b THEN "same"
  ELSE IF a.country # b.country \/ (a.state # No /\ b.state # No) THEN "other"
  ELSE "open"

\* The day a record was last true by GLEIF.
ReferenceDay(g) == IF g.status \in Unmaintained /\ g.updated # 0 THEN g.updated ELSE Today

\* EDGAR's name, and the former one in force on the day.
NamesAt(f, day) ==
  {f.name} \cup {o.name : o \in {p \in f.former : /\ p.until >= day
                                                  /\ \A q \in f.former : q.until >= day => p.until <= q.until}}

InForce(r, day) == r.from <= day /\ (r.until = 0 \/ r.until >= day)

\* A child of a record that is the filer is not the filer.
ChildOfFiler(g, f, day) ==
  \E r \in g.parents :
    /\ Gleif[r.lei].names \cap NamesAt(f, day) # {}
    /\ Places(Gleif[r.lei].place, f.home) # "other"
    /\ InForce(r, day) \/ InForce(r, Today)

\* A record that is weak needs the address or a subsidiary of its day.
Weak(g, f) == Places(g.place, f.home) = "open" \/ g.status \in Unmaintained \/ g.selfReported

HeldBoth(g, f, day) ==
  \E c \in g.children : \E h \in f.held :
    InForce(c, day) /\ InForce(h, day) /\ c.name = h.name /\ Places(c.place, h.place) # "other"

\* Broken form: today's address confirms a record of another day.
SameLegalEntity_Now(g, f, answered) ==
  LET day == ReferenceDay(g)
  IN /\ g.names \cap NamesAt(f, day) # {}
     /\ Places(g.place, f.home) # "other"
     /\ ~(answered /\ ChildOfFiler(g, f, day))
     /\ ~Weak(g, f) \/ f.office[Today] \in g.buildings \/ (answered /\ HeldBoth(g, f, day))

\* same_legal_entity: GLEIF that does not answer names no parent and no child.
SameLegalEntity(g, f, answered) ==
  LET day == ReferenceDay(g)
  IN /\ g.names \cap NamesAt(f, day) # {}
     /\ Places(g.place, f.home) # "other"
     /\ ~(answered /\ ChildOfFiler(g, f, day))
     /\ ~Weak(g, f) \/ f.office[day] \in g.buildings \/ (answered /\ HeldBoth(g, f, day))

\* Broken form: a record younger than the notice passes.
SameOwner_AnyAge(g, o, parent) ==
  /\ o.name \in g.names /\ Places(g.place, o.place) # "other"
  /\ o.building \in g.buildings \/ parent

\* psc_same_legal_entity: name, place, building - or GLEIF's word that the record
\* is a parent of a company the owner holds - and no record younger than the notice.
SameOwner(g, o, parent) ==
  /\ o.name \in g.names /\ Places(g.place, o.place) # "other"
  /\ g.born = 0 \/ o.notified = 0 \/ g.born <= o.notified
  /\ o.building \in g.buildings \/ parent

-----------------------------------------------------------------------------
(* The bridges *)

KeptApart(kept, m, n) == {m.id, n.id} \in kept

\* The record a filer is given: a filing of its own states the LEI, or the rule
\* joins them; whichever is asked first is taken.
FilerJoins(f, partners, kept, answered) ==
  {n \in partners :
     /\ Lei(n) # No /\ Cik(n) = No /\ ~KeptApart(kept, f, n)
     /\ answered # "neither"
     /\ <<Cik(f), Lei(n)>> \in States \/ SameLegalEntity(Gleif[Lei(n)], Filer[Cik(f)], answered = "both")}

\* Broken form: the first record that agrees is taken.
OwnerJoins_First(p, partners, kept) ==
  {n \in partners : /\ Lei(n) # No /\ n.id[1] # "chpsc" /\ ~KeptApart(kept, p, n)
                    /\ SameOwner(Gleif[Lei(n)], Owner[p.id[2]], p.id[2] \in n.heads)}

\* The record an owner is given: of those that agree, one GLEIF names as a parent
\* beats the others, and where it names one that does not agree, or two are left,
\* there is none.
OwnerJoins(p, partners, kept) ==
  LET o       == Owner[p.id[2]]
      records == {n \in partners : Lei(n) # No /\ n.id[1] # "chpsc"}
      parents == {n \in records : p.id[2] \in n.heads}
      agree   == {n \in records : ~KeptApart(kept, p, n) /\ SameOwner(Gleif[Lei(n)], o, n \in parents)}
      proper  == {n \in agree : Gleif[Lei(n)].status \notin NotTheEntity}
      live    == IF proper # {} THEN proper ELSE agree
      named   == live \cap parents
      left    == IF named # {} THEN named ELSE IF parents # {} THEN {} ELSE live
  IN IF Cardinality(left) = 1 THEN left ELSE {}

\* Partners by name, or by another name of the record.
ByOtherName(f) ==
  Namesakes(f.name.stem)
    \cup {n \in nodes : Lei(n) # No /\ Cik(n) = No /\ \E name \in Gleif[Lei(n)].names : name.stem = f.name.stem}

Given(n, lei, sure) == [n EXCEPT !.ids["lei"] = lei, !.sure = @ /\ sure]

\* What asking for a filer or an owner can come to.
Asked(n, partners, kept, answered) ==
  LET joins == IF Cik(n) # No THEN FilerJoins(n, partners, kept, answered) ELSE OwnerJoins(n, partners, kept)
  IN IF joins = {} THEN {n} ELSE {Given(n, Lei(m), answered = "both") : m \in joins}

\* --- Folds ------------------------------------------------------------------

\* The better name, then the smaller id.
Order == <<"chpsc", "gb-coh", "lei", "sec", "wd">>
Place(s, x) == CHOOSE i \in DOMAIN s : s[i] = x
Survives(m, n) ==
  \/ m.cred > n.cred
  \/ m.cred = n.cred /\ (Place(Order, m.id[1]) < Place(Order, n.id[1]))

Ranked(group) == SetToSortSeq(group, LAMBDA m, n : Survives(m, n))

\* The keyed ids, best first; a corporate owner's key ranks below them, the
\* UK register's own is never replaced.
Rank(id) == CASE id[1] = "lei" -> 0 [] id[1] = "sec" -> 1 [] id[1] = "wd" -> 2 [] OTHER -> 3

Keyed(n) ==
  LET best == IF Lei(n) # No THEN <<"lei", Lei(n)>>
              ELSE IF Cik(n) # No THEN <<"sec", Cik(n)>>
              ELSE IF n.ids["qid"] # No THEN <<"wd", n.ids["qid"]>> ELSE n.id
  IN IF n.id[1] # "gb-coh" /\ Rank(best) < Rank(n.id) THEN best ELSE n.id

\* A gap is filled, a value of the survivor's never replaced.
Filled(keep, dead) ==
  [keep EXCEPT !.ids    = [k \in DOMAIN @ |-> IF @[k] # No THEN @[k] ELSE dead.ids[k]],
               !.former = IF @ # {} THEN @ ELSE dead.former,
               !.office = IF @ # No THEN @ ELSE dead.office,
               !.heads  = @ \cup dead.heads,
               !.of     = @ \cup dead.of,
               !.sure   = @ /\ dead.sure]

Shared(m, n) == \E k \in DOMAIN m.ids : m.ids[k] # No /\ m.ids[k] = n.ids[k]
SameOffice(m, n) == m.office # No /\ m.office = n.office
Former(m, n) ==
  LET held(x) == x.former \cup {x.ids["reg"]}
  IN (m.former \cap held(n)) \cup (n.former \cap held(m)) # {}

\* One fold: the survivor takes the rest, and its best id where that is free; the
\* marks of the node that goes are lost with it.
Fold(keep, dead, sure) ==
  LET whole == [Filled(keep, dead) EXCEPT !.sure = @ /\ sure]
      rest  == nodes \ {keep, dead}
      id    == IF \E n \in rest : n.id = Keyed(whole) THEN keep.id ELSE Keyed(whole)
  IN /\ nodes' = rest \cup {[whole EXCEPT !.id = id]}
     /\ gone' = (gone \cup {dead.id, keep.id}) \ {id}
     /\ apart' = {IF keep.id \in p THEN (p \ {keep.id}) \cup {id} ELSE p : p \in {q \in apart : dead.id \notin q}}
     /\ job' = IF job = Idle THEN Idle ELSE [job EXCEPT !.group = <<id>> \o SubSeq(@, 3, Len(@))]

-----------------------------------------------------------------------------
(* The sources and the desk *)

Wrote == swept' = FALSE /\ UNCHANGED <<job, runs, unread>>

\* A load creates what it finds under no id of its own; an id that leads to another
\* node is passed over.
Load(batch) ==
  /\ loads < MaxLoads /\ loads' = loads + 1
  /\ nodes' = nodes \cup {r \in batch : /\ r.id \notin gone /\ ByNode(r.id) = {}
                                        /\ r.id[1] = "sec" => \A n \in nodes : Cik(n) # Cik(r)}
  /\ Wrote /\ UNCHANGED <<gone, apart, marks>>

Marks == marks < MaxMarks /\ marks' = marks + 1 /\ UNCHANGED loads

\* keep_separate, of two namesakes that are two.
KeepApart(m, n) ==
  /\ Marks /\ m.of # n.of /\ m.name.stem = n.name.stem /\ {m.id, n.id} \notin apart
  /\ apart' = apart \cup {{m.id, n.id}}
  /\ Wrote /\ UNCHANGED <<nodes, gone>>

\* merge_entities_by_id, of two that are one.
MergeByHand(keep, dead) ==
  /\ Marks /\ job = Idle /\ keep # dead /\ keep.of = dead.of /\ {keep.id, dead.id} \notin apart
  /\ Fold(keep, dead, TRUE) /\ swept' = FALSE /\ UNCHANGED <<runs, unread>>

\* deduplicate_entities_bulk: of the nodes with one id, all but the smallest go;
\* nothing is carried over and no address is left.
Healed(ns, k) ==
  {n \in ns : n.ids[k] = No \/ ~\E m \in ns : m.ids[k] = n.ids[k] /\ Place(Order, m.id[1]) < Place(Order, n.id[1])}
BulkHeal ==
  /\ Marks /\ job = Idle
  /\ nodes' = Healed(Healed(Healed(nodes, "lei"), "ch"), "reg")
  /\ nodes' # nodes
  /\ apart' = {p \in apart : \A id \in p : \E n \in nodes' : n.id = id}
  /\ swept' = FALSE /\ UNCHANGED <<gone, job, runs, unread>>

-----------------------------------------------------------------------------
(* The runs *)

\* _group_confidence: two of the group share a hard id or the registered office.
Safe(group) == \E m, n \in group : m # n /\ (Shared(m, n) \/ SameOffice(m, n))

Filers(group) == {n.id : n \in {m \in group : Cik(m) # No /\ Lei(m) = No}}
Owners(group) == {n.id : n \in {m \in group : m.id[1] = "chpsc" /\ Lei(m) = No}}
Members(ids)  == {n \in nodes : n.id \in ids}

Starts == job = Idle /\ runs < MaxRuns /\ runs' = runs + 1 /\ UNCHANGED <<nodes, gone, apart, loads, marks, unread>>

\* deduplicate_entities_for, after a scrape touched the node: its namesakes, and
\* the marks the node itself has.
StartScoped(t) ==
  LET group == Namesakes(t.name.stem)
  IN /\ Starts /\ Cardinality(group) >= 2 /\ swept' = FALSE
     /\ job' = [Idle EXCEPT !.at = "filers", !.members = {n.id : n \in group},
                            !.kept = {p \in apart : t.id \in p},
                            !.todo = IF Safe(group) THEN {} ELSE Filers(group)]

\* deduplicate_entities.
StartFull ==
  /\ Starts /\ swept' = TRUE
  /\ job' = [Idle EXCEPT !.at = "filers", !.all = TRUE, !.kept = apart, !.todo = Filers(nodes)]

\* A filer or an owner is asked for: who may be it, and whether it is.
Ask(id) ==
  /\ job.at \in {"filers", "owners"} /\ id \in job.todo
  /\ \E answered \in (IF job.at = "filers" /\ unread < MaxUnread THEN {"both", "edgar", "neither"} ELSE {"both"}) :
       /\ unread' = unread + (IF answered = "both" THEN 0 ELSE 1)
       /\ \E n \in ByNode(id) :
            LET partners == IF ~job.all THEN Members(job.members)
                            ELSE IF job.at = "filers" THEN ByOtherName(n) ELSE Namesakes(n.name.stem)
            IN \E m \in Asked(n, partners, job.kept, answered) : nodes' = (nodes \ {n}) \cup {m}
  /\ job' = [job EXCEPT !.todo = @ \ {id}]
  /\ UNCHANGED <<gone, apart, swept, loads, runs, marks>>

\* Broken form: companies of two registers are not grouped.
Twins_LeiOnly ==
  {[kind |-> 1, value |-> Lei(n), of |-> {}] : n \in {m \in nodes : \E k \in nodes \ {m} : Shared(m, k)}}

\* Ids that two nodes have: the hard ids in their order, then the register numbers
\* one node held and another holds.
Twins ==
  {[kind |-> i, value |-> n.ids[Kinds[i]], of |-> {}] :
      i \in DOMAIN Kinds, n \in {m \in nodes : \E k \in nodes \ {m} : Shared(m, k)}}
Groups ==
  {g \in Twins : g.value # No /\ Cardinality({n \in nodes : n.ids[Kinds[g.kind]] = g.value}) > 1}
    \cup {[kind |-> 9, value |-> v, of |-> {n.id : n \in {m \in nodes : v \in m.former \cup {m.ids["reg"]}}}] :
            v \in {w \in UNION {n.former : n \in nodes} :
                      Cardinality({m \in nodes : w \in m.former \cup {m.ids["reg"]}}) > 1}}

\* The first so many, kind by kind.
Batches(groups, size) ==
  {b \in SUBSET groups : /\ Cardinality(b) = (IF Cardinality(groups) < size THEN Cardinality(groups) ELSE size)
                         /\ \A g \in b : \A h \in groups \ b : g.kind <= h.kind}

Asking == job.at \in {"filers", "owners"} /\ job.todo = {}

\* All are asked: the owners' turn, the groups', or the end.
Proceed ==
  /\ Asking /\ UNCHANGED <<nodes, gone, apart, swept, loads, runs, marks, unread>>
  /\ LET group == Members(job.members)
     IN \/ /\ job.at = "filers" /\ (job.all \/ ~Safe(group))
           /\ job' = [job EXCEPT !.at = "owners", !.todo = Owners(IF job.all THEN nodes ELSE group)]
        \/ /\ job.at = "owners" /\ job.all
           /\ \E size \in Sizes : \E b \in Batches(Groups, size) :
                job' = [job EXCEPT !.at = "groups", !.todo = b, !.whole = b = Groups]
        \/ /\ ~job.all /\ Safe(group)
           /\ job' = [job EXCEPT !.at = "fold", !.group = [i \in 1 .. Cardinality(group) |-> Ranked(group)[i].id]]
        \/ /\ job.at = "owners" /\ ~job.all /\ ~Safe(group)
           /\ job' = Idle

\* The next group, its members as they are now.
NextGroup ==
  /\ job.at = "groups" /\ job.todo # {}
  /\ \E g \in job.todo :
       /\ \A h \in job.todo : g.kind <= h.kind
       /\ LET group == IF g.of # {} THEN Members(g.of) ELSE {n \in nodes : n.ids[Kinds[g.kind]] = g.value}
          IN job' = [job EXCEPT !.at = IF Cardinality(group) > 1 THEN "fold" ELSE "groups", !.todo = @ \ {g},
                                !.group = IF Cardinality(group) > 1 THEN [i \in DOMAIN Ranked(group) |-> Ranked(group)[i].id] ELSE <<>>]
  /\ UNCHANGED <<nodes, gone, apart, swept, loads, runs, marks, unread>>

\* The next of the group goes into the first; a pair kept apart is passed over.
FoldNext ==
  /\ job.at = "fold" /\ Len(job.group) >= 2
  /\ LET keep == Node(job.group[1])
         dead == Node(job.group[2])
     IN IF {job.group[1], job.group[2]} \in job.kept \/ ByNode(job.group[1]) = {} \/ ByNode(job.group[2]) = {}
        THEN job' = [job EXCEPT !.group = <<@[1]>> \o SubSeq(@, 3, Len(@))] /\ UNCHANGED <<nodes, gone, apart>>
        ELSE Fold(keep, dead, Shared(keep, dead) \/ SameOffice(keep, dead) \/ Former(keep, dead))
  /\ UNCHANGED <<swept, loads, runs, marks, unread>>

EndGroup ==
  /\ job.at = "fold" /\ Len(job.group) < 2
  /\ job' = IF job.all THEN [job EXCEPT !.at = "groups", !.group = <<>>] ELSE Idle
  /\ UNCHANGED <<nodes, gone, apart, swept, loads, runs, marks, unread>>

EndFull ==
  /\ job.at = "groups" /\ job.todo = {}
  /\ job' = Idle /\ swept' = (swept /\ job.whole)
  /\ UNCHANGED <<nodes, gone, apart, loads, runs, marks, unread>>

Next ==
  \/ \E batch \in Loads : Load(batch)
  \/ \E m, n \in nodes : KeepApart(m, n) \/ MergeByHand(m, n)
  \/ BulkHeal
  \/ \E t \in nodes : StartScoped(t)
  \/ StartFull
  \/ \E id \in job.todo : Ask(id)
  \/ Proceed \/ NextGroup \/ FoldNext \/ EndGroup \/ EndFull

Spec == Init /\ [][Next]_vars

-----------------------------------------------------------------------------

\* Nodes, addresses and the run have their types.
TypeOK ==
  /\ \A m, n \in nodes : m.id = n.id => m = n
  /\ gone \cap {n.id : n \in nodes} = {}
  /\ job.at \in {"idle", "filers", "owners", "groups", "fold"}
  /\ loads \in 0 .. MaxLoads /\ runs \in 0 .. MaxRuns /\ marks \in 0 .. MaxMarks /\ unread \in 0 .. MaxUnread

\* A node is one company: whatever came first and was asked when, no two are made
\* one - but for a namesake that a scoped run drags along, and a filer that GLEIF
\* did not answer for.
OneCompany == \A n \in nodes : n.sure => Cardinality(n.of) = 1

\* After a run over everything, the nodes that share a hard id are one, or a human
\* keeps them apart.
RunIsEnough == swept /\ job = Idle => \A m, n \in nodes : m # n /\ Shared(m, n) => {m.id, n.id} \in apart
=============================================================================
