------------------------------ MODULE Shortcuts ------------------------------
(* Which holdings the graph leaves out because a chain of others says the same: *)
(* the flag, the pass that sets and clears it, and the writers beside it.       *)
EXTENDS Naturals, FiniteSets

CONSTANTS
  Pair,                \* the pairs <<owner, owned>> that may be
  MaxHops,             \* _SHORTCUT_MAX_DEPTH
  MaxWrites, MaxPasses, MaxFaults  \* bounds of the model

VARIABLES
  owns,     \* the current holding of each pair: [kind, flag, rid]
  pass,     \* the pass over the graph: [pc, direct, todo]
  quiet,    \* nothing was written, and nothing failed, since the last pass began
  writes, passes, faults

vars == <<owns, pass, quiet, writes, passes, faults>>

\* A holding without a marker, a direct one, and an ultimate parent's; the flag
\* is null until something judges it.
NoEdge == [kind |-> "none", flag |-> "null", rid |-> 0]
Edge(kind) == [kind |-> kind, flag |-> "null", rid |-> writes + 1]
Idle == [pc |-> "idle", direct |-> {}, todo |-> {}]

Current == {p \in Pair : owns[p].kind # "none"}
Drawn   == {p \in Current : owns[p].flag # "yes"}

\* What is reached from a company over some holdings, in so many hops.
Within(from, held, hops) ==
  LET r[n \in 0 .. hops] ==
        IF n = 0 THEN {from} ELSE LET s == r[n - 1] IN s \cup {p[2] : p \in {q \in held : q[1] \in s}}
  IN  r[hops]

Init ==
  /\ owns = [p \in Pair |-> NoEdge] /\ pass = Idle /\ quiet = FALSE
  /\ writes = 0 /\ passes = 0 /\ faults = 0

-----------------------------------------------------------------------------
(* The writers *)

Writes == writes < MaxWrites /\ writes' = writes + 1 /\ quiet' = FALSE /\ UNCHANGED <<pass, passes, faults>>

\* A register states the direct parent: a holding stated as the ultimate one, or
\* by another source, takes the marker on.
Direct(p) ==
  /\ owns[p].kind # "direct"
  /\ owns' = [owns EXCEPT ![p] = IF p \in Current THEN [@ EXCEPT !.kind = "direct"] ELSE Edge("direct")]
  /\ Writes

\* It states the ultimate parent; on a direct holding that is only noted.
Ultimate(p) ==
  /\ owns[p].kind \in {"none", "plain"}
  /\ owns' = [owns EXCEPT ![p] = IF p \in Current THEN [@ EXCEPT !.kind = "indirect"] ELSE Edge("indirect")]
  /\ Writes

\* An acquirer's report: the holding is drawn, or dated, and flagged if a chain of
\* other drawn holdings, none of them an ultimate parent's, leads there.
Acquire(p) ==
  LET e == IF p \in Current THEN owns[p] ELSE Edge("plain")
      chain == Within(p[1], {q \in Drawn \ {p} : owns[q].kind # "indirect"}, MaxHops)
  IN
  /\ owns' = [owns EXCEPT ![p] = IF p[2] \in chain THEN [e EXCEPT !.flag = "yes"] ELSE e]
  /\ Writes

\* A holding ends; a later one of the pair is an edge of its own.
End(p) == /\ p \in Current /\ owns' = [owns EXCEPT ![p] = NoEdge]
          /\ Writes

-----------------------------------------------------------------------------
(* mark_ownership_shortcuts *)

\* Two reads: the direct holdings, then the ultimate ones with their flags.
ReadDirect ==
  /\ pass.pc = "idle" /\ passes < MaxPasses /\ passes' = passes + 1
  /\ pass' = [pc |-> "indirect", direct |-> {p \in Current : owns[p].kind = "direct"}, todo |-> {}]
  /\ quiet' = TRUE
  /\ UNCHANGED <<owns, writes, faults>>

\* Broken form: a chain may lead over other ultimate parents' holdings.
Reachable_AnyMarker(a) == Within(a, Current, MaxHops)

\* _reachable_by_direct: over the direct holdings alone.
Reachable(a) == Within(a, pass.direct, MaxHops)

Judged(p) == IF p[2] \in Reachable(p[1]) THEN "yes" ELSE "no"

ReadIndirect ==
  /\ pass.pc = "indirect"
  /\ pass' = [pass EXCEPT !.pc = "yes",
                !.todo = {[rid |-> owns[p].rid, flag |-> Judged(p)] :
                            p \in {q \in Current : owns[q].kind = "indirect" /\ owns[q].flag # Judged(q)}}]
  /\ UNCHANGED <<owns, quiet, writes, passes, faults>>

\* The flags to set, then those to clear, each by its edge; a batch that fails is
\* passed over.
Write(flag) ==
  LET rids == {t.rid : t \in {u \in pass.todo : u.flag = flag}} IN
  /\ pass.pc = flag
  /\ pass' = IF flag = "yes" THEN [pass EXCEPT !.pc = "no"] ELSE Idle
  /\ \/ /\ owns' = [p \in Pair |-> IF p \in Current /\ owns[p].rid \in rids THEN [owns[p] EXCEPT !.flag = flag] ELSE owns[p]]
        /\ UNCHANGED <<quiet, faults>>
     \/ /\ rids # {} /\ faults < MaxFaults /\ faults' = faults + 1 /\ quiet' = FALSE
        /\ UNCHANGED owns
  /\ UNCHANGED <<writes, passes>>

Next ==
  \/ \E p \in Pair : Direct(p) \/ Ultimate(p) \/ Acquire(p) \/ End(p)
  \/ ReadDirect \/ ReadIndirect
  \/ \E flag \in {"yes", "no"} : Write(flag)

Spec == Init /\ [][Next]_vars

-----------------------------------------------------------------------------

\* After a pass beside which nothing was written or failed, a company somebody
\* holds is reached from its holder over holdings that are drawn.
NothingHidden ==
  quiet /\ pass.pc = "idle" =>
    \A p \in Current : p[2] \in Within(p[1], Drawn, Cardinality(Pair))

\* The pass judges ultimate parents' holdings alone. A flag on any other holding,
\* set by an acquirer's report or left from before its direct record came, stays.
Unjudged == \E p \in Current : owns[p].kind # "indirect" /\ owns[p].flag = "yes"

\* But for such flags nothing is hidden, however passes, failures and writers met.
HiddenIsSaidElsewhere == ~Unjudged => NothingHidden
=============================================================================
