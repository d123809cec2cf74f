------------------------------ MODULE Identity ------------------------------
(***************************************************************************)
(* Which node a source writes to (_upsert_entity, _upsert_entity_by_name,  *)
(* register_pointer): a register's id finds its node; a name finds only    *)
(* candidates, which the registers confirm or refuse; Wikidata points at   *)
(* registers and states no id of its own.  Each call runs alone.           *)
(*                                                                         *)
(* A name is a stem and a legal form: the graph's name keys drop the form, *)
(* the legal name keeps it.  Ids, countries and addresses beyond Confirms, *)
(* and the fields a node merely displays, are left out; what a re-key does *)
(* to an id is in MergeRedirect.                                           *)
(***************************************************************************)
EXTENDS Naturals, Sequences, FiniteSets

CONSTANTS
  Gleif,      \* the LEIs GLEIF knows, each with its record's names, [legal, others]
  Filer,      \* the CIKs EDGAR knows, each with the filer's name at first
  Renames,    \* what a filer may be renamed to, <<cik, name>>
  Confirms,   \* <<lei, cik>> whose place, parents and addresses agree
  States,     \* <<lei, cik>> where a filing of the filer states the LEI
  Items,      \* Wikidata's items, [names, label, leis, ciks]
  Unnumbered, \* names a list gives without an id
  Extends,    \* <<longer, shorter>> stems, the one beginning with the other's words
  MaxCalls,   \* bound: calls
  MaxUnread   \* bound: calls that EDGAR does not answer

VARIABLES
  nodes,   \* the Entity vertices, in the order they were created
  filer,   \* EDGAR's name of each filer and the names it had
  calls, unread,
  blind    \* history: nodes written while EDGAR did not answer

vars == <<nodes, filer, calls, unread, blind>>

No == "none"
Leis == DOMAIN Gleif
Ciks == DOMAIN Filer

\* Credibility of a name: Wikidata, GLEIF, EDGAR.
Wiki == 80
Glei == 97
Sec  == 98

Names(n)    == {n.name} \cup n.others
Keys(names) == {name.stem : name \in names}

Init ==
  /\ nodes = <<>> /\ filer = [c \in Ciks |-> [name |-> Filer[c], former |-> {}]]
  /\ calls = 0 /\ unread = 0 /\ blind = {}

TypeOK ==
  /\ \A i \in DOMAIN nodes :
       /\ nodes[i].lei \in Leis \cup {No} /\ nodes[i].cik \in Ciks \cup {No}
       /\ nodes[i].item \in DOMAIN Items \cup {No}
  /\ blind \subseteq DOMAIN nodes /\ calls \in 0 .. MaxCalls /\ unread \in 0 .. MaxUnread

-----------------------------------------------------------------------------
(* The registers' word on a pair *)

\* same_legal_entity: the legal name, form kept, is the filer's of today, and
\* nothing else speaks against it.
SameEntity(names, l, c) == filer[c].name \in names /\ <<l, c>> \in Confirms

\* Broken form: a namesake's CIK is taken for the record's.
RecordIsFiler_ByName(n, c) == filer[c].name.stem \in Keys(Names(n))

\* A GLEIF node met by a filer's name: its filings are asked, then the rule.
RecordIsFiler(n, c) == <<n.lei, c>> \in States \/ SameEntity(Names(n), n.lei, c)

\* _not_this_filer; named is EDGAR's name where the caller holds it.  Where EDGAR
\* does not answer, the name match stands.
NotThisFiler(n, c, l, named, read) ==
  \/ c # No /\ n.cik # No /\ n.cik # c
  \/ l # No /\ n.lei # No /\ n.lei # l
  \/ /\ c # No
     /\ IF n.lei # No /\ n.cik = No /\ l = No /\ read THEN ~RecordIsFiler(n, c)
        ELSE (named \/ read) /\ filer[c].name.stem \notin Keys(Names(n))

-----------------------------------------------------------------------------
(* EDGAR and name lists: _upsert_entity_by_name *)

With(ns, field, id) == {i \in DOMAIN ns : ns[i][field] = id}

\* The candidates by name, best first: those a pointer proposes, the same
\* spelling, the same key, another name of the register.
Candidates(ns, name, proposed) ==
  <<proposed, {i \in DOMAIN ns : ns[i].name = name},
    {i \in DOMAIN ns : ns[i].name.stem = name.stem}, {i \in DOMAIN ns : name \in ns[i].others}>>

\* The first one that nothing refuses.
FirstMatch(ns, tiers, c, l, named, read) ==
  LET ok(t) == {i \in tiers[t] : ~NotThisFiler(ns[i], c, l, named, read)}
      some  == {t \in DOMAIN tiers : ok(t) # {}}
  IN IF some = {} THEN {} ELSE ok(CHOOSE t \in some : \A u \in some : t <= u)

\* A node whose name's words begin the filer's, on a word's boundary.
ByPrefix(ns, name, c, l, named, read) ==
  {i \in DOMAIN ns : /\ <<name.stem, ns[i].name.stem>> \in Extends /\ ns[i].cik \in {No, c}
                     /\ ~NotThisFiler(ns[i], c, l, named, read)}

\* What the call finds: the node and the name it goes by; a filer refused under
\* the name it filed is asked for under the one EDGAR has now.
Find(ns, name, c, l, named, proposed, read) ==
  LET held   == IF c # No /\ With(ns, "cik", c) # {} THEN With(ns, "cik", c)
                ELSE IF l # No THEN With(ns, "lei", l) ELSE {}
      tiers  == Candidates(ns, name, proposed)
      first  == FirstMatch(ns, tiers, c, l, named, read)
      again  == /\ UNION {tiers[t] : t \in DOMAIN tiers} # {}
                /\ c # No /\ ~named /\ read /\ filer[c].name.stem # name.stem
      now    == IF again THEN filer[c].name ELSE name
      second == IF again THEN FirstMatch(ns, Candidates(ns, now, {}), c, l, TRUE, read) ELSE {}
      prefix == IF c # No THEN ByPrefix(ns, now, c, l, named \/ again, read) ELSE {}
  IN IF held # {} THEN [at |-> held, name |-> name, named |-> named]
     ELSE IF first # {} THEN [at |-> first, name |-> name, named |-> named]
     ELSE [at |-> IF second # {} THEN second ELSE prefix, name |-> now, named |-> named \/ again]

\* The node found takes the ids, and EDGAR's name where that is at least as good.
Stamp(n, name, c, l, named) ==
  [n EXCEPT !.cik = IF c # No THEN c ELSE @, !.lei = IF l # No THEN l ELSE @,
            !.name = IF named /\ n.cred <= Sec THEN name ELSE @,
            !.cred = IF named /\ n.cred <= Sec THEN Sec ELSE @,
            !.former = IF named /\ c # No THEN @ \cup filer[c].former ELSE @]

New(name, c, l, item, others, cred) ==
  [name |-> name, cik |-> c, lei |-> l, item |-> item, others |-> others, former |-> {}, cred |-> cred]

\* Outcomes of a write: the nodes after it, and where it landed (0: nowhere).
Land(ns, i) == [ns |-> ns, at |-> i]
Add(ns, n)  == Land(Append(ns, n), Len(ns) + 1)

Upsert(ns, name, c, l, named, proposed, read) ==
  LET f == Find(ns, name, c, l, named, proposed, read)
  IN IF f.at = {} THEN {Add(ns, New(f.name, c, l, No, {}, Sec))}
     ELSE {Land([ns EXCEPT ![i] = Stamp(@, f.name, c, l, f.named)], i) : i \in f.at}

-----------------------------------------------------------------------------
(* The pointers of a knowledge base: register_pointer *)

\* write_from_gleif: the record joins a filer's node that the rule confirms, found
\* by name or proposed, or becomes a node.
FromGleif(ns, l, proposed, byName, read) ==
  LET names == {Gleif[l].legal} \cup Gleif[l].others
      joins == {i \in DOMAIN ns :
                  /\ ns[i].cik # No /\ ns[i].lei = No
                  /\ i \in proposed \/ (byName /\ ns[i].name.stem \in Keys(names))
                  /\ read /\ SameEntity(names, l, ns[i].cik)}
  IN IF joins = {} THEN {Add(ns, New(Gleif[l].legal, No, l, No, Gleif[l].others, Glei))}
     ELSE {Land([ns EXCEPT ![i].lei = l, ![i].others = @ \cup names], i) : i \in joins}

\* write_from_edgar; an EDGAR that does not answer ends the call (nowhere).
FromEdgar(ns, c, l, proposed, read) ==
  IF read THEN Upsert(ns, filer[c].name, c, l, TRUE, proposed, read) ELSE {Land(ns, 0)}

\* ordered_leis: which of several goes first depends on GLEIF's parents and names;
\* any may here.
Ordered(item) == item.leis \cap Leis

\* write_from_pointer: GLEIF's record, or EDGAR's where GLEIF knows none.
FromPointer(ns, item, proposed, read) ==
  IF Ordered(item) # {} THEN UNION {FromGleif(ns, l, proposed, TRUE, read) : l \in Ordered(item)}
  ELSE IF item.ciks \cap Ciks # {} THEN UNION {FromEdgar(ns, c, No, proposed, read) : c \in item.ciks \cap Ciks}
  ELSE {Land(ns, 0)}

Contradicts(n, item) ==
  \/ n.lei # No /\ item.leis # {} /\ n.lei \notin item.leis
  \/ n.cik # No /\ item.ciks # {} /\ n.cik \notin item.ciks

\* Broken form: a node found by name alone is taken whatever register it is in.
Unconfirmed_Taken(n, item) == FALSE

\* It holds a register's id, and none the item states.
Unconfirmed(n, item) ==
  /\ n.lei # No \/ n.cik # No
  /\ item.leis # {} \/ item.ciks # {}
  /\ n.lei \notin item.leis /\ n.cik \notin item.ciks

\* moved_on: the item's names are only former ones of the node, and another
\* registrant bears one now; where nobody can say, they are taken to be.
MovedOn(n, item, read) ==
  LET gone == (Keys(n.former) \ {n.name.stem}) \cap Keys(item.names)
  IN /\ Keys(item.names) \cap Keys(Names(n)) = {} /\ gone # {}
     /\ n.cik = No \/ ~read \/ \E c \in Ciks \ {n.cik} : filer[c].name.stem \in gone

\* attach_stated_lei, attach_stated_cik: the register the node lacks decides.
AttachLei(ns, i, item, read) ==
  IF Ordered(item) # {} /\ ns[i].lei = No /\ ns[i].cik # No
     /\ \A l \in item.leis : With(ns, "lei", l) = {}
  THEN {w.ns : w \in UNION {FromGleif(ns, l, {i}, FALSE, read) : l \in Ordered(item)}}
  ELSE {ns}

AttachCik(ns, i, before, item, read) ==
  LET stated    == {c \in item.ciks \cap Ciks : <<before.lei, c>> \in States}
      confirmed == {c \in item.ciks \cap Ciks : SameEntity(Names(ns[i]), before.lei, c)}
  IN IF before.cik = No /\ before.lei # No /\ read /\ stated \cup confirmed # {}
        /\ \A c \in item.ciks : With(ns, "cik", c) = {}
     THEN {w.ns : w \in UNION {FromEdgar(ns, c, IF c \in stated THEN before.lei ELSE No, {i}, read)
                                 : c \in stated \cup confirmed}}
     ELSE {ns}

-----------------------------------------------------------------------------
(* An item of Wikidata: _upsert_entity *)

Enrich(n, q) ==
  [n EXCEPT !.item = q, !.name = IF n.cred <= Wiki THEN Items[q].label ELSE @,
            !.cred = IF n.cred <= Wiki THEN Wiki ELSE @]

\* By the item, else by its ids, in that order.
ByIds(ns, q) ==
  LET item == Items[q]
      held == UNION {With(ns, "cik", c) : c \in item.ciks}
  IN IF With(ns, "item", q) # {} THEN With(ns, "item", q)
     ELSE IF held # {} THEN held ELSE UNION {With(ns, "lei", l) : l \in item.leis}

\* The node the query named, where the item bears its legal name.
Anchored(ns, anchor, item) ==
  anchor # 0 /\ ns[anchor].item = No /\ item.names \cap Names(ns[anchor]) # {}

\* Where the item goes: the outcomes of finding its node by id, by name and by
\* pointer; a name's node that the registers did not confirm stands last.
Place(ns, q, anchor, read) ==
  LET item   == Items[q]
      ids    == item.leis # {} \/ item.ciks # {}
      named  == {i \in DOMAIN ns : ns[i].name.stem = item.label.stem}
      Point(proposed, last) ==
        {IF w.at = 0 THEN Land(w.ns, last) ELSE w : w \in FromPointer(ns, item, proposed, read)}
      OfName(i) ==
        IF Contradicts(ns[i], item) THEN Point({}, i)
        ELSE IF Unconfirmed(ns[i], item) THEN Point({i}, i) ELSE {Land(ns, i)}
  IN IF ByIds(ns, q) # {} THEN {Land(ns, i) : i \in ByIds(ns, q)}
     ELSE IF named # {} THEN UNION {OfName(i) : i \in named}
     ELSE IF ids THEN Point({}, 0)
     ELSE {Land(ns, IF Anchored(ns, anchor, item) THEN anchor ELSE 0)}

\* The write on the node found, or none; a related company gets no node of its own.
Settle(w, q, related, read) ==
  LET item == Items[q]  n == w.ns[w.at]
  IN IF w.at = 0 THEN {IF related THEN w.ns ELSE Append(w.ns, New(item.label, No, No, q, {}, Wiki))}
     ELSE IF Contradicts(n, item) \/ MovedOn(n, item, read) THEN {w.ns}
     ELSE {[ns EXCEPT ![w.at] = Enrich(@, q)] : ns \in
             UNION {AttachCik(ms, w.at, n, item, read) : ms \in AttachLei(w.ns, w.at, item, read)}}

\* _resolve_related_company: who is left out before anything is written.
Admitted(q, read) ==
  LET held == ByIds(nodes, q)
  IN IF held = {} THEN Items[q].leis # {} \/ Items[q].ciks # {}
     ELSE \E i \in held : nodes[i].item = No /\ ~Contradicts(nodes[i], Items[q]) /\ ~MovedOn(nodes[i], Items[q], read)

-----------------------------------------------------------------------------

Call(read) ==
  /\ calls < MaxCalls /\ calls' = calls + 1
  /\ read \/ unread < MaxUnread
  /\ unread' = IF read THEN unread ELSE unread + 1

Written(read) ==
  blind' = IF read THEN blind
           ELSE blind \cup {i \in DOMAIN nodes' : i > Len(nodes) \/ nodes'[i] # nodes[i]}

\* A bulk load of GLEIF writes its own record's node, name and all.
Load(l) ==
  /\ Call(TRUE) /\ UNCHANGED <<filer, blind>>
  /\ LET held == With(nodes, "lei", l)
     IN nodes' = IF held = {} THEN Append(nodes, New(Gleif[l].legal, No, l, No, Gleif[l].others, Glei))
                 ELSE [i \in DOMAIN nodes |-> IF i \in held
                         THEN [nodes[i] EXCEPT !.name = Gleif[l].legal, !.others = Gleif[l].others, !.cred = Glei]
                         ELSE nodes[i]]

\* A filing: of the filer under EDGAR's name, with the LEI it states if any, or of
\* another that spells the name as it was.
Filing(c, read) ==
  /\ Call(read) /\ UNCHANGED filer
  /\ \E l \in {No} \cup {x \in Leis : <<x, c>> \in States},
        name \in {filer[c].name} \cup filer[c].former, named \in BOOLEAN :
       /\ named => read /\ name = filer[c].name
       /\ \E w \in Upsert(nodes, name, c, l, named, {}, read) : nodes' = w.ns
  /\ Written(read)

\* A row of a list, by name alone.
Listed(name) ==
  /\ Call(TRUE) /\ UNCHANGED <<filer, blind>>
  /\ \E w \in Upsert(nodes, name, No, No, FALSE, {}, TRUE) : nodes' = w.ns

Wikidata(q, read) ==
  /\ Call(read) /\ UNCHANGED filer
  /\ \E related \in BOOLEAN, anchor \in 0 .. Len(nodes) :
       /\ related => anchor = 0 /\ Admitted(q, read)
       /\ \E w \in Place(nodes, q, anchor, read) : nodes' \in Settle(w, q, related, read)
  /\ Written(read)

\* A filer is renamed, and its name is free for another.
Rename(c, name) ==
  /\ filer[c].name # name /\ name \notin {filer[d].name : d \in Ciks}
  /\ Call(TRUE)
  /\ filer' = [filer EXCEPT ![c] = [name |-> name, former |-> @.former \cup {@.name}]]
  /\ UNCHANGED <<nodes, blind>>

Next ==
  \/ \E l \in Leis : Load(l)
  \/ \E c \in Ciks, read \in BOOLEAN : Filing(c, read)
  \/ \E name \in Unnumbered : Listed(name)
  \/ \E q \in DOMAIN Items, read \in BOOLEAN : Wikidata(q, read)
  \/ \E r \in Renames : Rename(r[1], r[2])

Spec == Init /\ [][Next]_vars

-----------------------------------------------------------------------------

\* One node is one legal entity: where EDGAR answered, no node has the LEI of one
\* company and the CIK of another, whatever names they share or took over.
OneLegalEntity ==
  \A i \in DOMAIN nodes \ blind :
    nodes[i].lei # No /\ nodes[i].cik # No
      => <<nodes[i].lei, nodes[i].cik>> \in Confirms \cup States

\* An item that states ids a register knows is never put on a node that bears ids
\* and none of the item's, by id, by name, by pointer or by what it joins.
ItemGoesToItsEntity ==
  [][\A i \in DOMAIN nodes' \ blind' :
       LET n == nodes'[i]
           ids == Items[n.item].leis \cup Items[n.item].ciks
       IN n.item # No /\ (i > Len(nodes) \/ n.item # nodes[i].item) /\ ids \cap (Leis \cup Ciks) # {}
          => {n.lei, n.cik} = {No} \/ {n.lei, n.cik} \cap ids # {}]_vars
=============================================================================
