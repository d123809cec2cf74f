----------------------------- MODULE ImportLock -----------------------------
(***************************************************************************)
(* The cross-process import lock (backend/app/db/import_lock.py): one      *)
(* ImportState row under a UNIQUE key, taken by INSERT, given back by      *)
(* DELETE, and stolen by DELETE + INSERT once it is older than             *)
(* STALE_AFTER_SEC.  Every statement is a round trip of its own, so the    *)
(* steps of two imports interleave between them.                           *)
(*                                                                         *)
(* The row's age is kept instead of its timestamp, in units of which       *)
(* StaleAge make STALE_AFTER_SEC, and stops counting once it is stale.     *)
(*                                                                         *)
(* Faults: a process is killed; the answer to a statement is lost, the     *)
(* statement applied or not (arcadedb._post raises ConnectionError, which  *)
(* no handler here catches).  MaxFaults bounds how many happen.            *)
(***************************************************************************)
EXTENDS Naturals

CONSTANTS
  Proc,        \* the import runs that may want the lock
  NoRow,       \* no ImportState row
  StaleAge,    \* the age at which a row counts as abandoned
  MaxFaults    \* bound: how many faults a behaviour may hold

ASSUME ProcAssumption   == NoRow \notin Proc
ASSUME StaleAssumption  == StaleAge \in Nat \ {0}
ASSUME FaultsAssumption == MaxFaults \in Nat

VARIABLES
  row,      \* the holder named by the ImportState row, or NoRow
  age,      \* the age of that row
  pc,       \* where each run is inside import_lock()
  faults,   \* faults so far
  current,  \* history: runs whose read of a stale row still describes the row
  raced     \* history: a steal deleted a row other than the one it had read

vars == <<row, age, pc, faults, current, raced>>

Idle      == "idle"        \* not inside import_lock()
Stealing  == "stealing"    \* read a stale row, about to DELETE it
Inserting == "inserting"   \* about to INSERT its own row
Importing == "importing"   \* inside the with-block
Phases    == {Idle, Stealing, Inserting, Importing}

Stale     == age = StaleAge
\* The row's owner is gone: it was killed, or never learned that it got the lock.
Abandoned == row # NoRow /\ pc[row] # Importing

TypeOK ==
  /\ row \in Proc \cup {NoRow}
  /\ age \in 0 .. StaleAge
  /\ pc \in [Proc -> Phases]
  /\ faults \in 0 .. MaxFaults
  /\ current \subseteq Proc
  /\ raced \in BOOLEAN

Init ==
  /\ row = NoRow
  /\ age = 0
  /\ pc = [p \in Proc |-> Idle]
  /\ faults = 0
  /\ current = {}
  /\ raced = FALSE

-----------------------------------------------------------------------------

Goto(p, phase) == pc' = [pc EXCEPT ![p] = phase]

SetRow(r) == row' = r /\ age' = 0 /\ current' = {}

Fault == faults < MaxFaults /\ faults' = faults + 1

\* acquire(): the read of the row.  A fresh one raises ImportLocked and the
\* caller gives up, so that outcome changes nothing.
CheckFree(p) ==
  /\ pc[p] = Idle
  /\ row = NoRow
  /\ Goto(p, Inserting)
  /\ UNCHANGED <<row, age, faults, current, raced>>

\* Broken form: a lock is taken for abandoned whatever its age.
CheckStale_AnyAge(p) ==
  /\ pc[p] = Idle
  /\ row # NoRow
  /\ Goto(p, Stealing)
  /\ current' = current \cup {p}
  /\ UNCHANGED <<row, age, faults, raced>>

\* Broken form: a stale row makes the caller give up as a fresh one does.
CheckStale_Refused(p) ==
  /\ pc[p] = Idle
  /\ row # NoRow /\ Stale
  /\ UNCHANGED vars

CheckStale(p) ==
  /\ pc[p] = Idle
  /\ row # NoRow /\ Stale
  /\ Goto(p, Stealing)
  /\ current' = current \cup {p}
  /\ UNCHANGED <<row, age, faults, raced>>

\* DELETE ... WHERE key: whatever row is there now, read or not.
Steal(p) ==
  /\ pc[p] = Stealing
  /\ Goto(p, Inserting)
  /\ SetRow(NoRow)
  /\ raced' = (raced \/ (row # NoRow /\ p \notin current))
  /\ UNCHANGED faults

\* Broken form: no UNIQUE index, so the second INSERT goes through as well.
InsertWins_NotUnique(p) ==
  /\ pc[p] = Inserting
  /\ Goto(p, Importing)
  /\ SetRow(p)
  /\ UNCHANGED <<faults, raced>>

\* INSERT under the UNIQUE key: the row, or a duplicate-key RuntimeError that
\* becomes ImportLocked.
InsertWins(p) ==
  /\ pc[p] = Inserting
  /\ row = NoRow
  /\ Goto(p, Importing)
  /\ SetRow(p)
  /\ UNCHANGED <<faults, raced>>

InsertLoses(p) ==
  /\ pc[p] = Inserting
  /\ row # NoRow
  /\ Goto(p, Idle)
  /\ UNCHANGED <<row, age, faults, current, raced>>

\* The INSERT was applied but its answer was lost: the run ends, the row stays.
InsertUnanswered(p) ==
  /\ pc[p] = Inserting
  /\ row = NoRow
  /\ Fault
  /\ Goto(p, Idle)
  /\ SetRow(p)
  /\ UNCHANGED raced

\* The finally-clause: DELETE ... WHERE key, without asking whose row it is.
Release(p) ==
  /\ pc[p] = Importing
  /\ Goto(p, Idle)
  /\ SetRow(NoRow)
  /\ UNCHANGED <<faults, raced>>

\* Broken form: a run killed in the with-block still counts as going on.
Die_Zombie(p) ==
  /\ pc[p] # Idle
  /\ Fault
  /\ Goto(p, IF pc[p] = Importing THEN "killed" ELSE Idle)
  /\ UNCHANGED <<row, age, current, raced>>

\* The run ends without its DELETE (killed, or the database out of reach), at
\* whatever point it had got to.
Die(p) ==
  /\ pc[p] # Idle
  /\ Fault
  /\ Goto(p, Idle)
  /\ UNCHANGED <<row, age, current, raced>>

\* manage.py import-lock release, used as documented: on a lock nobody holds.
OperatorRelease ==
  /\ Abandoned
  /\ SetRow(NoRow)
  /\ UNCHANGED <<pc, faults, raced>>

\* Time passes.  STALE_AFTER_SEC is "longer than any real import": a row does
\* not become stale under a run that is still importing.
Tick ==
  /\ row # NoRow /\ ~Stale
  /\ ~Abandoned => age + 1 < StaleAge
  /\ age' = age + 1
  /\ UNCHANGED <<row, pc, faults, current, raced>>

Step(p) ==
  \/ CheckFree(p) \/ CheckStale(p) \/ Steal(p)
  \/ InsertWins(p) \/ InsertLoses(p) \/ Release(p)

Next ==
  \/ \E p \in Proc : Step(p) \/ InsertUnanswered(p) \/ Die(p)
  \/ OperatorRelease
  \/ Tick

Spec == Init /\ [][Next]_vars

\* A run that has begun goes on, the nightly job keeps coming back, and the
\* clock runs; nobody is obliged to release a lock by hand.
Fairness == WF_vars(Tick) /\ \A p \in Proc : WF_vars(Step(p))

FairSpec == Spec /\ Fairness

-----------------------------------------------------------------------------

\* import_lock.py: "at most one bulk/delta import at a time".
MutualExclusion ==
  \A p, q \in Proc : pc[p] = Importing /\ pc[q] = Importing => p = q

\* Two imports run together only after a steal has deleted a row other than the
\* one it found stale: neither crashes, nor lost answers, nor the operator's
\* escape hatch, nor a DELETE that asks for no owner, is enough by itself.
ExclusiveUnlessRaced == ~raced => MutualExclusion

\* As long as no steal has raced, the row names the import that is running, and
\* a run that is importing never finds its own row stale.
RowNamesImporter ==
  ~raced => \A p \in Proc : pc[p] = Importing => row = p /\ ~Stale

\* A lock whose holder is gone does not block imports for ever: the row goes,
\* by the steal of the next run that asks, whatever that run then does.
AbandonedLockRecovered == Abandoned ~> ~Abandoned

=============================================================================
