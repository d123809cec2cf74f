---------------------------- MODULE VotingGroups -----------------------------
(* Parties acting together file one Schedule 13D; the bloc belongs to a node of  *)
(* its own, found by its roster (runner._write_sec_edgar, sec_writer).  Over one *)
(* issuer there are several agreements, of which parties join and leave; the     *)
(* schedules before 2024 give the CIK of the filer alone, and a party may have   *)
(* been renamed since.  A scrape reads the newest schedule of each filer, the    *)
(* newest first, statement by statement.                                         *)
(*                                                                              *)
(* That the node of a party is found is Identity's and Persons'; here a party is *)
(* its node.                                                                    *)
EXTENDS Naturals, Sequences, FiniteSets, SequencesExt

CONSTANTS
  Party,
  Registrant,   \* the parties that have a CIK, and may file
  Renamed,      \* the parties that have another name in the new schedules
  Pact,         \* the agreements
  First,        \* [Pact -> SUBSET Party]: who first made them
  OneFiler,     \* an agreement has one filer; else any party may file the next amendment
  MaxFilings,   \* bound: schedules
  MaxScrapes,   \* bound: scrapes
  MaxFaults,    \* bound: scrapes that die
  MaxLost       \* bound: headers that could not be fetched

VARIABLES
  feed,     \* the schedules about the issuer, the oldest first
  groups,   \* the VotingGroup nodes, in the order they were made
  bloc,     \* the parties with a stakeless 13D edge of their own
  pass,     \* what the scrape is doing
  settled,  \* the newest scrape read everything and came to its end
  scrapes, faults, lost

vars == <<feed, groups, bloc, pass, settled, scrapes, faults, lost>>

None == "none"
Idle == [at |-> "idle"]

Init ==
  /\ feed = <<>> /\ groups = <<>> /\ bloc = {} /\ pass = Idle /\ settled = FALSE
  /\ scrapes = 0 /\ faults = 0 /\ lost = 0

-----------------------------------------------------------------------------
(* EDGAR *)

Of(pact)      == {i \in DOMAIN feed : feed[i].pact = pact}
Newest(is)    == CHOOSE i \in is : \A j \in is : j <= i
Teller(pact)  == feed[Newest(Of(pact))]
Parties(pact) == IF Of(pact) = {} THEN {} ELSE Teller(pact).of
Known(pact)   == \E g \in DOMAIN groups : groups[g].says = Newest(Of(pact))

\* A structured schedule gives every registrant's CIK; a header the names alone.
CikIn(p, by, era) == IF p = by \/ (era = "xml" /\ p \in Registrant) THEN p ELSE None

\* _member_key: what a schedule tells of a party.
Key(p, by, era) ==
  [cik  |-> CikIn(p, by, era),
   name |-> [of |-> p, new |-> p \in Renamed /\ era = "xml"]]

Alike(a, b) == a.name = b.name \/ (a.cik = b.cik /\ a.cik # None)

\* An agreement is made, or one party joins or leaves: a schedule says who is in it.
\* Two agreements share one party at most; one follows once those before it were
\* read, and an amendment tells two parties as that one did.
File(pact, by, now, era) ==
  /\ pass = Idle /\ Len(feed) < MaxFilings
  /\ by \in now \cap Registrant /\ Cardinality(now) > 1
  /\ \A any \in Pact : Of(any) # {} => Known(any)
  /\ IF Of(pact) = {} THEN now = First[pact]
     ELSE /\ Cardinality((now \ Parties(pact)) \cup (Parties(pact) \ now)) <= 1
          /\ Cardinality({p \in now \cap Parties(pact) : Alike(Key(p, by, era), Key(p, Teller(pact).by, Teller(pact).era))}) > 1
          /\ OneFiler => by = Teller(pact).by
  /\ \A other \in Pact \ {pact} : Cardinality(now \cap Parties(other)) <= 1
  /\ feed # <<>> /\ Last(feed).era = "xml" => era = "xml"
  /\ feed' = Append(feed, [pact |-> pact, by |-> by, of |-> now, era |-> era])
  /\ settled' = FALSE
  /\ UNCHANGED <<groups, bloc, pass, scrapes, faults, lost>>

\* _select_person: the investor is the party that filed.
Investor(i) == feed[i].by

Roster(i) == {Key(p, Investor(i), feed[i].era) : p \in feed[i].of}

-----------------------------------------------------------------------------
(* The roster *)

\* Broken form: the name decides even where both have a CIK.
SameMember_ByCik(a, b) == a.cik # None /\ a.cik = b.cik

\* Either identifier suffices.
SameMember(a, b) == IF a.cik # None /\ b.cik # None THEN a.cik = b.cik ELSE a.name = b.name

Shared(a, b) == Cardinality({m \in a : \E o \in b : SameMember(m, o)})
Smaller(a, b) == IF Cardinality(a) < Cardinality(b) THEN Cardinality(a) ELSE Cardinality(b)

\* Broken form: one party in common is enough.
RostersMatch_Any(a, b) == Shared(a, b) >= 1

\* Two parties in common, and half of the smaller roster.
RostersMatch(a, b) == Shared(a, b) >= 2 /\ 2 * Shared(a, b) >= Smaller(a, b)

\* The groups over the issuer the roster fits best.
Fitting(roster) ==
  LET fits == {g \in DOMAIN groups : groups[g].holds /\ RostersMatch(roster, groups[g].roster)}
  IN {g \in fits : \A o \in fits : Shared(roster, groups[o].roster) <= Shared(roster, groups[g].roster)}

-----------------------------------------------------------------------------
(* A scrape *)

\* The newest schedule of each filer, the newest first.
Listing == {i \in DOMAIN feed : ~\E j \in DOMAIN feed : j > i /\ Investor(j) = Investor(i)}

\* The co-filers of an old schedule are in its header, which may not be fetched.
Read(unread) ==
  /\ pass = Idle /\ scrapes < MaxScrapes /\ feed # <<>>
  /\ \A i \in unread : feed[i].era = "text"
  /\ lost + Cardinality(unread) <= MaxLost
  /\ pass' = [at |-> "next", todo |-> Reverse(SetToSortSeq(Listing, <)), group |-> 0, unread |-> unread]
  /\ scrapes' = scrapes + 1 /\ lost' = lost + Cardinality(unread) /\ settled' = FALSE
  /\ UNCHANGED <<feed, groups, bloc, faults>>

Filing == feed[pass.todo[1]]
At(at) == pass.at = at /\ pass.todo # <<>>

\* A filer without known co-filers: its own edge, with the bloc's vote and no stake.
Alone ==
  /\ At("next") /\ pass.todo[1] \in pass.unread
  /\ bloc' = bloc \cup {Filing.by}
  /\ pass' = [pass EXCEPT !.todo = Tail(@)]
  /\ UNCHANGED <<feed, groups, settled, scrapes, faults, lost>>

\* _upsert_voting_group: the group that fits, with the roster of this schedule.
Upsert ==
  /\ At("next") /\ pass.todo[1] \notin pass.unread
  /\ LET roster == Roster(pass.todo[1]) IN
     \E g \in IF Fitting(roster) = {} THEN {Len(groups) + 1} ELSE Fitting(roster) :
       /\ groups' = IF g \in DOMAIN groups THEN [groups EXCEPT ![g].roster = roster]
                    ELSE Append(groups, [roster |-> roster, members |-> {}, holds |-> FALSE, says |-> 0, pacts |-> {}])
       /\ pass' = [pass EXCEPT !.at = "join", !.group = g]
  /\ UNCHANGED <<feed, bloc, settled, scrapes, faults, lost>>

Joined ==
  /\ At("join")
  /\ groups' = [groups EXCEPT ![pass.group].members = @ \cup Filing.of]
  /\ pass' = [pass EXCEPT !.at = "prune"]
  /\ UNCHANGED <<feed, bloc, settled, scrapes, faults, lost>>

\* Broken form: who left stays a member.
Pruned_Never(members, now) == members

\* _prune_group_membership.
Pruned(members, now) == members \cap now

Prune ==
  /\ At("prune")
  /\ groups' = [groups EXCEPT ![pass.group].members = Pruned(@, Filing.of)]
  /\ pass' = [pass EXCEPT !.at = "edge"]
  /\ UNCHANGED <<feed, bloc, settled, scrapes, faults, lost>>

Edge ==
  /\ At("edge")
  /\ groups' = [groups EXCEPT ![pass.group] =
       [@ EXCEPT !.holds = TRUE, !.says = pass.todo[1], !.pacts = @ \cup {Filing.pact}]]
  /\ pass' = [pass EXCEPT !.at = "retire"]
  /\ UNCHANGED <<feed, bloc, settled, scrapes, faults, lost>>

\* Broken form: the bloc edges of the members go, the filer's stays.
Retired_Others(edges, f) == edges \ (f.of \ {f.by})

\* _retire_superseded_bloc_edge: the schedule is the group's now.
Retired(edges, f) == edges \ {f.by}

Retire ==
  /\ At("retire")
  /\ bloc' = Retired(bloc, Filing)
  /\ pass' = [pass EXCEPT !.at = "next", !.todo = Tail(@)]
  /\ UNCHANGED <<feed, groups, settled, scrapes, faults, lost>>

End ==
  /\ pass.at = "next" /\ pass.todo = <<>>
  /\ settled' = (pass.unread = {}) /\ pass' = Idle
  /\ UNCHANGED <<feed, groups, bloc, scrapes, faults, lost>>

Die ==
  /\ pass # Idle /\ faults < MaxFaults
  /\ faults' = faults + 1 /\ pass' = Idle
  /\ UNCHANGED <<feed, groups, bloc, settled, scrapes, lost>>

Next ==
  \/ \E pact \in Pact, by \in Registrant, now \in SUBSET Party, era \in {"text", "xml"} : File(pact, by, now, era)
  \/ \E unread \in SUBSET Listing : Read(unread)
  \/ Alone \/ Upsert \/ Joined \/ Prune \/ Edge \/ Retire \/ End \/ Die

Spec == Init /\ [][Next]_vars

-----------------------------------------------------------------------------

TypeOK ==
  /\ bloc \subseteq Party /\ settled \in BOOLEAN
  /\ scrapes \in 0 .. MaxScrapes /\ faults \in 0 .. MaxFaults /\ lost \in 0 .. MaxLost
  /\ \A g \in DOMAIN groups : groups[g].members \subseteq Party /\ groups[g].says \in 0 .. Len(feed)

Holding == {g \in DOMAIN groups : groups[g].holds}

\* Two agreements are never one group, whoever is in both.
Apart == \A g \in Holding : Cardinality(groups[g].pacts) <= 1

\* An agreement stays one group through its amendments, whatever the schedules
\* tell of its parties.
OneGroup == \A g, h \in Holding : groups[g].pacts \cap groups[h].pacts # {} => g = h

\* _voting_groups_of, _group_holdings: the schedules whose blocs a party's page shows.
Shown(p) == {groups[g].says : g \in {h \in Holding : p \in groups[h].members}}

\* After a whole scrape the page of a party shows the agreements whose newest
\* schedule names it, and the groups alone have the blocs.
GroupIsNewest ==
  settled =>
    /\ bloc = {}
    /\ \A p \in Party : Shown(p) = {Newest(Of(pact)) : pact \in {any \in Pact : p \in Parties(any)}}

\* The groups over one issuer are its agreements, each in its newest form.
GroupsStand == Apart /\ OneGroup /\ GroupIsNewest
=============================================================================
