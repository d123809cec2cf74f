----------------------------- MODULE Moderation -----------------------------
(* The desk (routers/flags.py): readers report a holding or a company, a       *)
(* moderator hides it or corrects its numbers.  Neither touches what a source   *)
(* wrote: a suppression and a pin are rows that name the ends by id, and every  *)
(* page lays them over the graph as it reads (suppressions.py, pins.py).  So a  *)
(* decision must survive the next scrape, which writes the edge again, and the  *)
(* next fold or re-key, which takes an id away (merged_ids.repoint_references). *)
(* A role is a holding here: its key only has one column more.                  *)
EXTENDS Integers, FiniteSets

CONSTANTS
  Company,     \* whose node an id can be
  Holding,     \* <<owner, owned>>: who may be said to hold whom
  Stakes,      \* what a source or a moderator says of a holding
  Moderator,
  Overlap,     \* a fold may come between a moderator's statements, or another moderator
  StalePages,  \* a reader may report from a page opened before a fold
  MaxReports,  \* bound: reports
  MaxDraws,    \* bound: what sources write
  MaxMoves,    \* bound: folds and re-keys
  MaxCalls     \* bound: the desk's decisions, taken back ones included

VARIABLES
  nodes,   \* live ids
  away,    \* where the forwarding addresses of the other ids lead
  drawn,   \* the OWNS edges
  flags,   \* reports
  sups,    \* rows that hide
  pins,    \* rows that correct
  desk,    \* the moderators at work
  hidden,  \* what moderators hid and did not show again
  fixed,   \* the corrections that stand
  muddled, \* pairs that folding left with two corrections, alike or not
  used     \* how often each bounded thing happened

vars == <<nodes, away, drawn, flags, sups, pins, desk, hidden, fixed, muddled, used>>

Ids    == DOMAIN Company
Unset  == 0        \* no stake said
AsIs   == "as is"  \* no type said
Idle   == [at |-> "idle"]
Edge(a, b, stake, type) == [from |-> a, to |-> b, stake |-> stake, type |-> type, open |-> TRUE]
Target(kind, a, b)      == [kind |-> kind, from |-> a, to |-> b]
OfNode(a)               == Target("node", a, a)
On(rows, t)             == {r \in rows : r.on = t}
Upto(what, most)        == used[what] < most /\ used' = [used EXCEPT ![what] = @ + 1]
Fresh(rows)             == CHOOSE n \in 1 .. Cardinality(rows) + 1 : \A r \in rows : r.n # n

Init ==
  /\ nodes \in {ids \in SUBSET Ids : {Company[i] : i \in ids} = {Company[i] : i \in Ids}}
  /\ away = [i \in Ids |-> i]
  /\ drawn = {} /\ flags = {} /\ sups = {} /\ pins = {}
  /\ desk = [m \in Moderator |-> Idle]
  /\ hidden = {} /\ fixed = {} /\ muddled = {}
  /\ used = [reports |-> 0, draws |-> 0, moves |-> 0, calls |-> 0]

\* What a target means: the nodes its ids lead to.
Meant(t) == [t EXCEPT !.from = away[@], !.to = away[@]]

Quiet  == \A m \in Moderator : desk[m] = Idle
Pairs  == {p \in nodes \X nodes : <<Company[p[1]], Company[p[2]]>> \in Holding}
Ghosts == <<hidden, fixed, muddled>>

-----------------------------------------------------------------------------
(* The graph moves *)

\* A source writes a holding: the open edge of the pair, or one beside it, as a
\* load does that never looks.
Draw(p, stake, beside) ==
  /\ Upto("draws", MaxDraws)
  /\ LET new == Edge(p[1], p[2], stake, "source")
         old == {e \in drawn : e.from = p[1] /\ e.to = p[2] /\ e.open}
     IN drawn' = (IF beside THEN drawn ELSE drawn \ old) \cup {new}
  /\ UNCHANGED <<nodes, away, flags, sups, pins, desk, Ghosts>>

End(e) ==
  /\ Upto("draws", MaxDraws) /\ e.open
  /\ drawn' = (drawn \ {e}) \cup {[e EXCEPT !.open = FALSE]}
  /\ UNCHANGED <<nodes, away, flags, sups, pins, desk, Ghosts>>

\* Broken form: only the owner's column of the rows is re-pointed.
Repointed_FromOnly(t, old, new) == [t EXCEPT !.from = IF @ = old THEN new ELSE @]

\* repoint_references: each column of each table.
Repointed(t, old, new) ==
  [t EXCEPT !.from = IF @ = old THEN new ELSE @, !.to = IF @ = old THEN new ELSE @]

Moved(rows, old, new) == {[r EXCEPT !.on = Repointed(@, old, new)] : r \in rows}

\* A node is folded into another of its company, or takes a better id.  Edges hang
\* on nodes and follow by themselves.
Move(old, new) ==
  /\ Overlap \/ Quiet
  /\ Upto("moves", MaxMoves)
  /\ old # new /\ Company[old] = Company[new]
  /\ nodes' = (nodes \ {old}) \cup {new}
  /\ away' = [i \in Ids |-> IF i = new \/ away[i] = old THEN new ELSE away[i]]
  /\ flags' = Moved(flags, old, new) /\ sups' = Moved(sups, old, new) /\ pins' = Moved(pins, old, new)
  /\ LET At(i)  == IF i = old THEN new ELSE i
         Led(t) == Target(t.kind, At(t.from), At(t.to))
         now    == {[c EXCEPT !.on = Led(@)] : c \in fixed}
     IN /\ drawn' = {[e EXCEPT !.from = At(@), !.to = At(@)] : e \in drawn}
        /\ hidden' = {Led(t) : t \in hidden}
        /\ muddled' = {Led(t) : t \in muddled} \cup {p.on : p \in {q \in pins' : \E o \in pins' : o.on = q.on /\ o # q}}
        /\ fixed' = {c \in now : c.on \notin muddled'}
  /\ UNCHANGED desk

-----------------------------------------------------------------------------
(* Reports *)

Active(f) == f.state \in {"open", "reviewing"}

\* create_flag: one reader's report of one target is one report while it is
\* active.  What the page named is taken as it is.
Report(by, t) ==
  /\ {t.from, t.to} \subseteq nodes \/ StalePages
  /\ ~\E f \in flags : f.by = by /\ f.on = t /\ Active(f)
  /\ Upto("reports", MaxReports)
  /\ flags' = flags \cup {[n |-> Fresh(flags), by |-> by, on |-> t, state |-> "open"]}
  /\ UNCHANGED <<nodes, away, drawn, sups, pins, desk, Ghosts>>

\* update_flag_status, delete_flag.
Triage(f, state) ==
  /\ Upto("calls", MaxCalls) /\ f.state # state
  /\ flags' = (flags \ {f}) \cup (IF state = "deleted" THEN {} ELSE {[f EXCEPT !.state = state]})
  /\ UNCHANGED <<nodes, away, drawn, sups, pins, desk, Ghosts>>

-----------------------------------------------------------------------------
(* Decisions, one statement after another *)

Alone(t) == Overlap \/ {m \in Moderator : desk[m] # Idle /\ desk[m].on = t} = {}
Doing(m, step) == desk' = [desk EXCEPT ![m] = step]

\* suppress_flag and pin_flag read the flag first; a company is never pinned.
TakeUp(m, f, what) ==
  /\ desk[m] = Idle /\ Alone(f.on) /\ (what.do = "pin" => f.on.kind = "owns")
  /\ Upto("calls", MaxCalls)
  /\ Doing(m, [at |-> "look", on |-> f.on, do |-> what.do, stake |-> what.stake, type |-> what.type, row |-> {}])
  /\ UNCHANGED <<nodes, away, drawn, flags, sups, pins, Ghosts>>

\* Is there a row for the target?
LookUp(m) ==
  /\ desk[m].at = "look"
  /\ LET rows == On(IF desk[m].do = "pin" THEN pins ELSE sups, desk[m].on)
     IN \E row \in IF rows = {} THEN {{}} ELSE {{r} : r \in rows} :
          Doing(m, [desk[m] EXCEPT !.at = "write", !.row = row])
  /\ UNCHANGED <<nodes, away, drawn, flags, sups, pins, used, Ghosts>>

\* Hiding: the row, then the open edges of the pair.
Suppress(m) ==
  /\ desk[m].at = "write" /\ desk[m].do = "hide"
  /\ LET t == desk[m].on
     IN /\ sups' = IF desk[m].row = {} THEN sups \cup {[n |-> Fresh(sups), on |-> t]} ELSE sups
        /\ drawn' = {e \in drawn : ~(t.kind = "owns" /\ e.from = t.from /\ e.to = t.to /\ e.open)}
        /\ hidden' = hidden \cup {Meant(t)}
  /\ Doing(m, [desk[m] EXCEPT !.at = "settle"])
  /\ UNCHANGED <<nodes, away, flags, pins, used, fixed, muddled>>

\* Broken form: what the new correction does not say is forgotten.
Kept_Never(old, m) == [stake |-> desk[m].stake, type |-> desk[m].type]

\* What the new correction does not say stays as it was.
Kept(old, m) ==
  [stake |-> IF desk[m].stake = Unset THEN old.stake ELSE desk[m].stake,
   type  |-> IF desk[m].type = AsIs THEN old.type ELSE desk[m].type]

NothingYet == [stake |-> Unset, type |-> AsIs]
SaidOf(t)  == IF On(fixed, Meant(t)) = {} THEN NothingYet ELSE CHOOSE c \in fixed : c.on = Meant(t)
Said(m)    ==
  [stake |-> IF desk[m].stake = Unset THEN SaidOf(desk[m].on).stake ELSE desk[m].stake,
   type  |-> IF desk[m].type = AsIs THEN SaidOf(desk[m].on).type ELSE desk[m].type]

\* Correcting: the row that was found is changed, if it is still there.
Pin(m) ==
  /\ desk[m].at = "write" /\ desk[m].do = "pin"
  /\ LET t   == desk[m].on
         row == desk[m].row
         as(n, old) == [n |-> n, on |-> t, stake |-> Kept(old, m).stake, type |-> Kept(old, m).type]
     IN /\ pins' = IF row = {} THEN pins \cup {as(Fresh(pins), NothingYet)}
                   ELSE {IF \E o \in row : o.n = r.n THEN as(r.n, CHOOSE o \in row : TRUE) ELSE r : r \in pins}
        /\ fixed' = IF Meant(t) \in muddled THEN fixed
                    ELSE {c \in fixed : c.on # Meant(t)} \cup {[on |-> Meant(t), stake |-> Said(m).stake, type |-> Said(m).type]}
  /\ Doing(m, [desk[m] EXCEPT !.at = "settle"])
  /\ UNCHANGED <<nodes, away, drawn, flags, sups, used, hidden, muddled>>

\* Every active report of the target is settled with it.
Settle(m) ==
  /\ desk[m].at = "settle"
  /\ flags' = {IF f.on = desk[m].on /\ Active(f) THEN [f EXCEPT !.state = "resolved"] ELSE f : f \in flags}
  /\ Doing(m, Idle)
  /\ UNCHANGED <<nodes, away, drawn, sups, pins, used, Ghosts>>

\* The process dies between two statements.
GiveUp(m) ==
  /\ desk[m] # Idle /\ Upto("calls", MaxCalls)
  /\ Doing(m, Idle)
  /\ UNCHANGED <<nodes, away, drawn, flags, sups, pins, Ghosts>>

\* remove_suppression, remove_pin.
Show(s) ==
  /\ Alone(s.on) /\ Upto("calls", MaxCalls)
  /\ sups' = sups \ {s} /\ hidden' = hidden \ {Meant(s.on)}
  /\ UNCHANGED <<nodes, away, drawn, flags, pins, desk, fixed, muddled>>

Unpin(p) ==
  /\ Alone(p.on) /\ Upto("calls", MaxCalls)
  /\ pins' = pins \ {p} /\ fixed' = {c \in fixed : c.on # Meant(p.on)}
  /\ muddled' = IF On(pins', p.on) = {} THEN muddled \ {Meant(p.on)} ELSE muddled
  /\ UNCHANGED <<nodes, away, drawn, flags, sups, desk, hidden>>

-----------------------------------------------------------------------------
(* What pages show *)

Suppressed(a, b) == On(sups, Target("owns", a, b)) # {}
Gone(a)          == On(sups, OfNode(a)) # {}

\* apply_pin: of several rows of a pair the last one read is applied.
Overlaid(e) ==
  LET rows == On(pins, Target("owns", e.from, e.to))
  IN IF rows = {} THEN {e}
     ELSE {[e EXCEPT !.stake = IF r.stake = Unset THEN @ ELSE r.stake,
                     !.type = IF r.type = AsIs THEN @ ELSE r.type] : r \in rows}

Largest(es) == {e \in es : \A o \in es : o.stake <= e.stake}

\* The rows of one pair, unless the pair, the page or the other end is hidden.
Listed(es, page, a, b) ==
  IF Gone(page) \/ Gone(IF page = a THEN b ELSE a) \/ Suppressed(a, b) \/ a = b THEN {}
  ELSE UNION {Overlaid(e) : e \in {x \in es : x.from = a /\ x.to = b}}

\* get_full_profile: of either end, one row for a pair.
Profile(page, a, b) == Largest(Listed({e \in drawn : e.open}, page, a, b))

\* owners_of and subsidiary_tree_of: every edge; a page's own company is not asked for.
Owners(a, b) == IF Gone(a) \/ Suppressed(a, b) THEN {} ELSE UNION {Overlaid(e) : e \in {x \in drawn : x.open /\ x.from = a /\ x.to = b}}
Tree(a, b)   == IF Gone(b) \/ Suppressed(a, b) \/ a = b THEN {} ELSE UNION {Overlaid(e) : e \in {x \in drawn : x.open /\ x.from = a /\ x.to = b}}

\* get_person_profile: ended holdings too, the largest stake before the pins.
Holdings(a, b) ==
  IF Gone(a) \/ Gone(b) \/ Suppressed(a, b) THEN {}
  ELSE UNION {Overlaid(e) : e \in Largest({x \in drawn : x.from = a /\ x.to = b})}

Shown(a, b) == Profile(a, a, b) \cup Profile(b, a, b) \cup Owners(a, b) \cup Tree(a, b) \cup Holdings(a, b)

-----------------------------------------------------------------------------

Decisions ==
  {[do |-> "hide", stake |-> Unset, type |-> AsIs], [do |-> "pin", stake |-> Unset, type |-> "direct"]}
    \cup {[do |-> "pin", stake |-> s, type |-> AsIs] : s \in Stakes}

Next ==
  \/ \E p \in Pairs, stake \in Stakes, beside \in BOOLEAN : Draw(p, stake, beside)
  \/ \E e \in drawn : End(e)
  \/ \E old \in nodes, new \in Ids : Move(old, new)
  \/ \E by \in {"reader", "user"} :
       \/ \E a, b \in Ids : <<Company[a], Company[b]>> \in Holding /\ Report(by, Target("owns", a, b))
       \/ \E a \in Ids : Report(by, OfNode(a))
  \/ \E f \in flags :
       \/ \E state \in {"reviewing", "rejected", "open", "deleted"} : Triage(f, state)
       \/ \E m \in Moderator, what \in Decisions : TakeUp(m, f, what)
  \/ \E m \in Moderator : LookUp(m) \/ Suppress(m) \/ Pin(m) \/ Settle(m) \/ GiveUp(m)
  \/ \E s \in sups : Show(s)
  \/ \E p \in pins : Unpin(p)

Spec == Init /\ [][Next]_vars

\* Rows name ids, a moderator is at one step.
TypeOK ==
  /\ nodes \subseteq Ids
  /\ \A r \in flags \cup sups \cup pins : {r.on.from, r.on.to} \subseteq Ids
  /\ \A m \in Moderator : desk[m] = Idle \/ desk[m].at \in {"look", "write", "settle"}
  /\ \A k \in DOMAIN used : used[k] >= 0

\* What a moderator hid stays hidden on every page until it is shown again:
\* whatever is scraped, folded and re-keyed in between.
HiddenStaysHidden ==
  \A t \in hidden :
    IF t.kind = "owns" THEN Shown(t.from, t.to) = {}
    ELSE \A a \in nodes :
           Profile(a, t.from, a) \cup Profile(a, a, t.from) \cup Profile(t.from, t.from, a) \cup Profile(t.from, a, t.from)
             \cup Owners(t.from, a) \cup Tree(a, t.from) \cup Holdings(t.from, a) \cup Holdings(a, t.from) = {}

\* A correction stands on every page: its numbers are what is shown of the pair, and
\* what it does not say is what the source says.
CorrectionStands ==
  \A c \in fixed : \A e \in Shown(c.on.from, c.on.to) :
    (c.stake # Unset => e.stake = c.stake) /\ (c.type # AsIs => e.type = c.type)
=============================================================================
