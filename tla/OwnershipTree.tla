---------------------------- MODULE OwnershipTree ----------------------------
(* The subsidiary tree of the read API: read level by level, while others     *)
(* write, then hung on the one holder that places each company.               *)
EXTENDS Naturals, Sequences, FiniteSets, SequencesExt

CONSTANTS
  Root, Pair,         \* the company asked for; the pairs <<owner, owned>> that may be
  Stakes,             \* stakes a source may state; one without counts as 50
  Caps, MaxDepth,     \* the max_nodes a visitor may ask for, SUBTREE_MAX_DEPTH
  MaxCount,           \* SUBTREE_COUNT_MAX
  MaxTaken, MaxBeside \* bounds: what the desk takes out, writes while a tree is read

None == 0   \* no holding in force, or one that is a proven shortcut

VARIABLES
  owns,      \* for each pair None or the stake of its drawn holding
  hidden,    \* the companies the desk took out
  suppressed,\* the holdings the desk took out
  reading,   \* "no", "walk", "count", "done"
  level, frontier, seen, nodes, edges, truncated, total,
  cap, keys, \* the reading's max_nodes, and what was hidden when it began
  beside

vars == <<owns, hidden, suppressed, reading, level, frontier, seen, nodes, edges,
          truncated, total, cap, keys, beside>>
graph == <<owns, hidden, suppressed>>

Company == {Root} \cup UNION {{p[1], p[2]} : p \in Pair}

Init ==
  /\ owns = [p \in Pair |-> None] /\ hidden = {} /\ suppressed = {}
  /\ reading = "no" /\ level = 0 /\ frontier = {} /\ seen = {} /\ nodes = <<>> /\ edges = <<>>
  /\ truncated = FALSE /\ total = 0 /\ cap = 0 /\ keys = <<{}, {}>> /\ beside = 0

-----------------------------------------------------------------------------
(* The writers *)

Writes ==
  /\ reading \in {"no", "walk", "count"}
  /\ reading # "no" => beside < MaxBeside
  /\ beside' = IF reading = "no" THEN beside ELSE beside + 1
  /\ UNCHANGED <<reading, level, frontier, seen, nodes, edges, truncated, total, cap, keys>>

Taken == Cardinality(hidden) + Cardinality(suppressed)

Draw(p, stake) == Writes /\ owns[p] = None /\ owns' = [owns EXCEPT ![p] = stake] /\ UNCHANGED <<hidden, suppressed>>
End(p)         == Writes /\ beside' # beside /\ owns[p] # None /\ owns' = [owns EXCEPT ![p] = None]
                  /\ UNCHANGED <<hidden, suppressed>>
\* A holding the desk takes out is deleted and stays out when it is drawn again.
Hide(c)        == Writes /\ Taken < MaxTaken /\ hidden' = hidden \cup {c} /\ hidden' # hidden /\ UNCHANGED <<owns, suppressed>>
Suppress(p)    == Writes /\ Taken < MaxTaken /\ suppressed' = suppressed \cup {p} /\ suppressed' # suppressed
                  /\ owns' = [owns EXCEPT ![p] = None] /\ UNCHANGED hidden

-----------------------------------------------------------------------------
(* subsidiary_tree_of *)

Begin(max) ==
  /\ reading = "no" /\ cap' = max
  /\ reading' = "walk" /\ level' = 1 /\ frontier' = {Root} /\ seen' = {Root}
  /\ keys' = <<hidden, suppressed>>
  /\ UNCHANGED <<graph, nodes, edges, truncated, total, beside>>

Shown(p) == p[1] # p[2] /\ p[2] \notin keys[1] /\ p \notin keys[2]

\* A level's holdings, the largest first.
Rows == SetToSortSeq({p \in Pair : p[1] \in frontier /\ owns[p] # None}, LAMBDA p, q : owns[p] > owns[q])

Walked == [seen |-> seen, front |-> {}, nodes |-> nodes, edges |-> edges, cut |-> truncated]

\* One holding: its company is placed where it is met first, unless the tree is
\* full; a company in the tree gets one more line.
Met(w, p) ==
  LET line == [from |-> p[1], to |-> p[2], stake |-> owns[p], depth |-> level] IN
  IF ~Shown(p) THEN w
  ELSE IF p[2] \in w.seen THEN [w EXCEPT !.edges = Append(@, line)]
  ELSE IF Len(w.nodes) >= cap THEN [w EXCEPT !.cut = TRUE]
  ELSE [w EXCEPT !.seen = @ \cup {p[2]}, !.front = @ \cup {p[2]}, !.edges = Append(@, line),
                 !.nodes = Append(@, [id |-> p[2], parent |-> p[1], depth |-> level])]

\* _placing_parents: for each company the holder that places it.

\* The holders of a company up to the root.
Above(parent, c) ==
  LET up[n \in 0 .. Cardinality(DOMAIN parent)] ==
        IF n = 0 THEN {c} ELSE LET s == up[n - 1] IN s \cup {parent[x] : x \in s \cap DOMAIN parent}
  IN  up[Cardinality(DOMAIN parent)] \ {c}

\* Broken form: a cross-holding may place a company under its own descendant.
Better_AnyHolder(t, e) ==
  LET d == t.depth[e.from] + 1 IN
  e.stake > t.stake[e.to] \/ (e.stake = t.stake[e.to] /\ d > t.depth[e.to])

\* A larger holder, or one as large and deeper, that the company is not above.
Better(t, e) ==
  LET d == t.depth[e.from] + 1 IN
  /\ e.stake > t.stake[e.to] \/ (e.stake = t.stake[e.to] /\ d > t.depth[e.to])
  /\ e.to \notin Above(t.parent, e.from)

Placed(t, e) ==
  IF e.to \notin DOMAIN t.parent \/ e.from \notin DOMAIN t.depth THEN t
  ELSE IF t.parent[e.to] = e.from THEN [t EXCEPT !.depth[e.to] = t.depth[e.from] + 1]
  ELSE IF Better(t, e)
       THEN [t EXCEPT !.parent[e.to] = e.from, !.depth[e.to] = t.depth[e.from] + 1, !.stake[e.to] = e.stake]
  ELSE t

\* Over every line again until nothing moves, as many rounds as there are nodes.
Placing(ns, es) ==
  LET ids == {n.id : n \in Range(ns)}
      Node(c) == CHOOSE n \in Range(ns) : n.id = c
      Line(c) == CHOOSE k \in 1 .. Len(es) : es[k].to = c /\ es[k].from = Node(c).parent
      first == [parent |-> [c \in ids |-> Node(c).parent],
                depth  |-> [c \in ids \cup {Root} |-> IF c = Root THEN 0 ELSE Node(c).depth],
                stake  |-> [c \in ids |-> es[Line(c)].stake]]
      round[n \in 0 .. Len(ns) + 2] == IF n = 0 THEN first ELSE FoldLeft(Placed, round[n - 1], es)
  IN  round[Len(ns) + 2]

Hung(ns, es) ==
  LET t == Placing(ns, es) IN
  [k \in 1 .. Len(ns) |-> [ns[k] EXCEPT !.parent = t.parent[ns[k].id], !.depth = t.depth[ns[k].id]]]

Level ==
  /\ reading = "walk" /\ frontier # {} /\ level <= MaxDepth
  /\ LET w == FoldLeft(Met, Walked, Rows) IN
       /\ seen' = w.seen /\ frontier' = w.front /\ nodes' = w.nodes /\ edges' = w.edges /\ truncated' = w.cut
  /\ level' = level + 1
  /\ UNCHANGED <<graph, reading, total, cap, keys, beside>>

\* The levels are read: every company is hung, and the tree that was cut counted.
Hang ==
  /\ reading = "walk" /\ (frontier = {} \/ level > MaxDepth)
  /\ nodes' = Hung(nodes, edges)
  /\ truncated' = (truncated \/ frontier # {})
  /\ IF truncated' THEN reading' = "count" /\ level' = 1 /\ frontier' = {Root} /\ seen' = {Root} /\ total' = 0
     ELSE reading' = "done" /\ total' = Len(nodes) /\ UNCHANGED <<level, frontier, seen>>
  /\ UNCHANGED <<graph, edges, cap, keys, beside>>

\* Broken form: the count takes in what the desk hid.
Counted_All == {p[2] : p \in {q \in Pair : q[1] \in frontier /\ owns[q] # None}} \ seen

\* _count_subtree: the same walk, without a cap on the nodes.
Counted == {p[2] : p \in {q \in Pair : q[1] \in frontier /\ owns[q] # None /\ Shown(q)}} \ seen

Unknown == 99   \* None: too many, or too deep

CountLevel ==
  /\ reading = "count" /\ frontier # {} /\ level <= MaxDepth
  /\ IF Cardinality(seen \cup Counted) - 1 >= MaxCount
     THEN reading' = "done" /\ total' = Unknown /\ UNCHANGED <<level, frontier, seen>>
     ELSE seen' = seen \cup Counted /\ frontier' = Counted /\ level' = level + 1 /\ UNCHANGED <<reading, total>>
  /\ UNCHANGED <<graph, nodes, edges, truncated, cap, keys, beside>>

CountEnds ==
  /\ reading = "count" /\ (frontier = {} \/ level > MaxDepth)
  /\ reading' = "done" /\ total' = IF frontier = {} THEN Cardinality(seen) - 1 ELSE Unknown
  /\ UNCHANGED <<graph, level, frontier, seen, nodes, edges, truncated, cap, keys, beside>>

Next ==
  \/ \E p \in Pair : (\E stake \in Stakes : Draw(p, stake)) \/ End(p) \/ Suppress(p)
  \/ \E c \in Company \ {Root} : Hide(c)
  \/ \E max \in Caps : Begin(max)
  \/ Level \/ Hang \/ CountLevel \/ CountEnds

Spec == Init /\ [][Next]_vars

-----------------------------------------------------------------------------

\* Whatever the holdings, crossed or circular, and whatever was written while they
\* were read: every company of the tree hangs on the root, as many holders below
\* it as its depth says.
HangsOnRoot ==
  reading = "done" =>
    LET parent == [c \in {n.id : n \in Range(nodes)} |-> (CHOOSE n \in Range(nodes) : n.id = c).parent] IN
    \A n \in Range(nodes) : Root \in Above(parent, n.id) /\ Cardinality(Above(parent, n.id)) = n.depth

\* What the root holds over holdings the desk did not take out.
Reached ==
  LET r[n \in 0 .. Cardinality(Company)] ==
        IF n = 0 THEN {Root}
        ELSE LET s == r[n - 1] IN s \cup {p[2] : p \in {q \in Pair : q[1] \in s /\ owns[q] # None /\ Shown(q)}}
  IN  r[Cardinality(Company)] \ {Root}

\* A tree read while nobody wrote holds every company below the root, or says it
\* is cut and how many there are.
TreeIsWhole ==
  reading = "done" /\ beside = 0 =>
    IF truncated THEN total \in {Cardinality(Reached), Unknown} /\ Len(nodes) <= total
    ELSE {n.id : n \in Range(nodes)} = Reached /\ total = Cardinality(Reached)
=============================================================================
