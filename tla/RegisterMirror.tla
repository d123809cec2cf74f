--------------------------- MODULE RegisterMirror ---------------------------
(***************************************************************************)
(* What a refreshed copy of a daily register promises, whatever files,     *)
(* batches and crashes lie underneath.                                     *)
(*                                                                         *)
(* The register states something of each appointment every day.  The       *)
(* mirror answers for one of those days.  Between two days it is rewritten *)
(* one appointment after the other, each to a whole statement of a later   *)
(* file, and it claims a day only when every appointment shows that day's  *)
(* statement - all but those it owes, which it has lost track of and does  *)
(* not vouch for.                                                          *)
(***************************************************************************)
EXTENDS Naturals, Sequences

CONSTANTS Key, MaxDay

VARIABLES
  log,     \* what the register stated, day by day
  asOf,    \* the day the mirror answers for, or 0
  shown,   \* what it shows of each key
  owed     \* the keys it does not vouch for

vars == <<log, asOf, shown, owed>>

Statement == {"absent", "live", "ceased"}
Shown     == {"none", "live", "ceased", "withdrawn"}

\* An appointment that left the register is shown no longer as live.
Agrees(view, statement) ==
  /\ statement = "live"   => view = "live"
  /\ statement = "ceased" => view = "ceased"
  /\ statement = "absent" => view # "live"

Stated(day, k) == IF day = 0 THEN "absent" ELSE log[day][k]

Init ==
  /\ log \in [1 .. 1 -> [Key -> Statement]]
  /\ asOf = 0
  /\ shown = [k \in Key |-> "none"]
  /\ owed = {}

\* A new file appears.
Publish ==
  /\ Len(log) < MaxDay
  /\ \E today \in [Key -> Statement] : log' = Append(log, today)
  /\ UNCHANGED <<asOf, shown, owed>>

\* Keys are rewritten from one day's file, and may be vouched for again.
Show ==
  /\ \E day \in DOMAIN log, some \in SUBSET Key :
       /\ \A k \in some : Agrees(shown'[k], Stated(day, k))
       /\ \A k \in Key \ some : shown'[k] = shown[k] \/ k \in owed
       /\ owed' \in {owed, owed \ some}
  /\ shown' \in [Key -> Shown]
  /\ UNCHANGED <<log, asOf>>

\* Keys are lost track of.
Owe ==
  /\ owed' \in SUBSET Key /\ owed \subseteq owed'
  /\ UNCHANGED <<log, asOf, shown>>

\* The mirror answers for another day.
Settle ==
  /\ \E day \in DOMAIN log :
       /\ asOf' = day
       /\ \A k \in Key \ owed' : Agrees(shown[k], Stated(day, k))
  /\ owed' \in SUBSET Key /\ owed \subseteq owed'
  /\ UNCHANGED <<log, shown>>

Next == Publish \/ Show \/ Owe \/ Settle

Spec == Init /\ [][Next]_vars
=============================================================================
