---------------------------- MODULE StakeHistory ----------------------------
(***************************************************************************)
(* The dated stakes of one pair by one source (stake_history.py): a claim  *)
(* that is overwritten by a materially different stake leaves a row of     *)
(* what was said before and what is said now.  Inside a run the rows wait  *)
(* for the run's last write of the claim; outside one they are written     *)
(* with it.  Every step of it is best-effort.                              *)
(*                                                                         *)
(* A stake is a number of percent, None where none is stated; a date is a  *)
(* number.  record_claim's own fields are in Seats and Subsidiaries.       *)
(***************************************************************************)
EXTENDS Naturals, Sequences

CONSTANTS
  Stakes,       \* the stakes a source may state
  MaterialPct,  \* MATERIAL_PCT
  MaxWrites,    \* bound: claims recorded
  MaxRuns,      \* bound: runs that defer
  LastDay       \* bound: the calendar

VARIABLES
  claim,    \* the stored claim: [stake, day], or NoClaim
  rows,     \* the StakeHistory vertices, in the order they were recorded
  run,      \* the deferring run: what it found and what it wrote last
  writes, runs,
  astray    \* history: a read or a write was lost, or a statement came late

vars == <<claim, rows, run, writes, runs, astray>>

None    == 101
NoClaim == [stake |-> None, day |-> 0]
NoRun   == [on |-> FALSE]
Unread  == [stake |-> None, day |-> LastDay + 1]

TypeOK ==
  /\ claim \in [stake : Stakes \cup {None}, day : 0 .. LastDay]
  /\ \A i \in DOMAIN rows : rows[i] \in
       [stake : Stakes \cup {None}, previous : Stakes \cup {None}, asOf : 1 .. LastDay]
  /\ writes \in 0 .. MaxWrites /\ runs \in 0 .. MaxRuns /\ astray \in BOOLEAN

Init ==
  /\ claim = NoClaim /\ rows = <<>> /\ run = NoRun
  /\ writes = 0 /\ runs = 0 /\ astray = FALSE

-----------------------------------------------------------------------------

Pct(stake) == IF stake = None THEN 0 ELSE stake

\* A move between two stakes below the 5 % line is not kept.
Material(old, new) == old # new /\ (Pct(old) >= MaterialPct \/ Pct(new) >= MaterialPct)

Row(c, previous) == [stake |-> c.stake, previous |-> previous, asOf |-> c.day]

\* rows_for: the new statement, and the old one before it where the series has
\* no row yet.
RowsFor(old, new) ==
  IF old = NoClaim \/ ~Material(old.stake, new.stake) THEN <<>>
  ELSE (IF rows = <<>> /\ old.stake # None /\ old.day <= new.day THEN <<Row(old, None)>> ELSE <<>>)
       \o <<Row(new, old.stake)>>

-----------------------------------------------------------------------------
(* record_claim and the run around it *)

\* A statement dated before the stored one has come late.
Late(new) == new.day < claim.day

\* Outside a run: the stored claim is read, replaced, and the rows recorded; the
\* reading or the recording may fail, and the claim is kept; where the claim's own
\* write fails nothing is recorded.
RecordNow(new, fails, kept) ==
  /\ ~run.on
  /\ rows' = IF fails \/ ~kept THEN rows ELSE rows \o RowsFor(claim, new)
  /\ UNCHANGED run

\* Broken form: the run keeps the first statement of the claim, not the last.
Deferred_First(new, fails) ==
  /\ run.on
  /\ run' = IF run.wrote THEN run
            ELSE [on |-> TRUE, wrote |-> TRUE, before |-> IF fails THEN Unread ELSE claim, last |-> new]
  /\ UNCHANGED rows

\* Inside one (deferred): the first write reads what is stored, the last one is
\* what the run has stated.
Deferred(new, fails) ==
  /\ run.on
  /\ run' = [on |-> TRUE, wrote |-> TRUE, last |-> new,
             before |-> IF run.wrote THEN run.before ELSE IF fails THEN Unread ELSE claim]
  /\ UNCHANGED rows

\* The claim's own write may fail, and a statement deferred for it stays.
Record(new, fails, kept) ==
  /\ writes < MaxWrites /\ writes' = writes + 1
  /\ RecordNow(new, fails, kept) \/ Deferred(new, fails)
  /\ claim' = IF kept THEN new ELSE claim
  /\ astray' = (astray \/ fails \/ ~kept \/ Late(new))
  /\ UNCHANGED runs

Begin ==
  /\ ~run.on /\ runs < MaxRuns
  /\ runs' = runs + 1
  /\ run' = [on |-> TRUE, wrote |-> FALSE, before |-> NoClaim, last |-> NoClaim]
  /\ UNCHANGED <<claim, rows, writes, astray>>

\* The run ends, however it ends: one statement against what it found.
End(fails) ==
  /\ run.on /\ run' = NoRun
  /\ rows' = IF ~run.wrote \/ run.before = Unread \/ fails THEN rows
             ELSE rows \o RowsFor(run.before, run.last)
  /\ astray' = (astray \/ fails)
  /\ UNCHANGED <<claim, writes, runs>>

\* The process dies with its rows.
Die ==
  /\ run.on /\ run' = NoRun /\ astray' = TRUE
  /\ UNCHANGED <<claim, rows, writes, runs>>

\* A merge carries the rows and the claim over (migrate): nothing changes here.
Next ==
  \/ \E stake \in Stakes \cup {None}, day \in 1 .. LastDay, fails, kept \in BOOLEAN :
       Record([stake |-> stake, day |-> day], fails, kept)
  \/ Begin \/ Die \/ \E fails \in BOOLEAN : End(fails)

Spec == Init /\ [][Next]_vars

-----------------------------------------------------------------------------
(* What a reader makes of the rows *)

\* _ordered: by date, then as recorded.
Shows(asOf) ==
  LET upTo == {i \in DOMAIN rows : rows[i].asOf <= asOf}
      Last(S) == CHOOSE i \in S : \A j \in S :
                   rows[j].asOf < rows[i].asOf \/ (rows[j].asOf = rows[i].asOf /\ j <= i)
      First   == CHOOSE i \in DOMAIN rows : \A j \in DOMAIN rows :
                   rows[i].asOf < rows[j].asOf \/ (rows[i].asOf = rows[j].asOf /\ i <= j)
  IN rows[IF upTo # {} THEN Last(upTo) ELSE First].stake

\* The history shows for today what the claim says, or both are below the line;
\* short of a lost read, write or run, and of a statement that came late.
TodayShown ==
  ~run.on /\ ~astray /\ rows # <<>> => ~Material(Shows(LastDay), claim.stake)
=============================================================================
