------------------------------- MODULE RunLog -------------------------------
(***************************************************************************)
(* The log of scrape runs (scraper/run_log.py) and the daily check that    *)
(* reads it (alerts.py).  A run writes a row when it starts and finds it   *)
(* again when it ends; every run that ends prunes the oldest rows, one     *)
(* statement after the other, while other runs start and end.  Logging     *)
(* never stops a scrape: a statement that fails is passed over.            *)
(*                                                                         *)
(* Runs are numbered in the order they start.  Time is counted in ticks.   *)
(***************************************************************************)
EXTENDS Naturals, FiniteSets

CONSTANTS
  MaxStarts,    \* bound: runs that start
  Imports,      \* which of them are imports (IMPORT_SOURCES)
  MaxTime,      \* bound: ticks
  MaxFaults,    \* bound: processes that die and statements that fail
  MaxRuns,      \* MAX_RUNS
  Limit,        \* the newest rows the check reads, list_runs(limit=500)
  StaleAge,     \* STALE_AFTER_SEC
  Window,       \* window_hours of check_imports
  CheckEvery    \* the period of the check

VARIABLES
  now,       \* the clock
  runs,      \* the runs so far: what they are, when they began and ended
  rows,      \* the ScrapeRun rows: the status of each run that has one
  doomed,    \* the rows a run that is pruning still has to delete
  checked,   \* when the last check ran
  heard,     \* the imports an alert has named
  faults,    \* faults so far
  mute       \* history: runs with a statement of theirs that failed

vars == <<now, runs, rows, doomed, checked, heard, faults, mute>>

Ids      == DOMAIN runs
\* "skipped" and "partial" are to every reader here as "ok".
Outcomes == {"ok", "failed"}
Run      == [at : {"open", "logging", "pruning", "over", "dead"},
             end : Outcomes, began : 0 .. MaxTime, ended : 0 .. MaxTime]

RunLogTypeOK ==
  /\ now \in 0 .. MaxTime /\ checked \in 0 .. now
  /\ Ids = 1 .. Cardinality(Ids) /\ \A i \in Ids : runs[i] \in Run
  /\ DOMAIN rows \subseteq Ids /\ \A i \in DOMAIN rows : rows[i] \in Outcomes \cup {"running"}
  /\ DOMAIN doomed = Ids /\ \A i \in Ids : doomed[i] \subseteq Ids
  /\ heard \subseteq Ids /\ mute \subseteq Ids
  /\ faults \in 0 .. MaxFaults

None == [i \in {} |-> {}]

Init ==
  /\ now = 0 /\ checked = 0
  /\ runs = None /\ rows = None /\ doomed = None
  /\ heard = {} /\ mute = {} /\ faults = 0

-----------------------------------------------------------------------------

With(f, i, v) == [j \in DOMAIN f \cup {i} |-> IF j = i THEN v ELSE f[j]]
Only(f, s)    == [j \in s |-> f[j]]
Goto(i, place) == runs' = [runs EXCEPT ![i].at = place]
Fault          == faults < MaxFaults /\ faults' = faults + 1
Younger(s, i)  == {j \in s : j > i}

\* record_run, _safe_create: the row, unless the statement fails.
Start ==
  /\ Cardinality(Ids) < MaxStarts
  /\ LET i == Cardinality(Ids) + 1 IN
     /\ runs' = With(runs, i, [at |-> "open", end |-> "ok", began |-> now, ended |-> 0])
     /\ doomed' = With(doomed, i, {})
     /\ \/ rows' = With(rows, i, "running") /\ UNCHANGED <<faults, mute>>
        \/ Fault /\ mute' = mute \cup {i} /\ UNCHANGED rows
  /\ UNCHANGED <<now, checked, heard>>

\* The block ends: it raised, or the status it set, or ok.  How a run that is no
\* import ended is asked by no reader here.
End(i) ==
  /\ runs[i].at = "open"
  /\ \E outcome \in (IF i \in Imports THEN Outcomes ELSE {"ok"}) :
       runs' = [runs EXCEPT ![i].at = "logging", ![i].end = outcome]
  /\ UNCHANGED <<now, rows, doomed, checked, heard, faults, mute>>

\* _safe_finish: MATCH ... SET finds the row by its id, or nothing.
Finish(i) ==
  /\ runs[i].at = "logging"
  /\ \/ /\ rows' = IF i \in DOMAIN rows THEN [rows EXCEPT ![i] = runs[i].end] ELSE rows
        /\ runs' = [runs EXCEPT ![i].at = "pruning", ![i].ended = IF i \in Imports THEN now ELSE 0]
        /\ UNCHANGED <<faults, mute>>
     \/ Fault /\ Goto(i, "over") /\ mute' = mute \cup {i} /\ UNCHANGED rows
  /\ UNCHANGED <<now, doomed, checked, heard>>

\* Broken form: the sort is ascending, so the newest rows are beyond the cap.
Surplus_Newest(s) == {i \in s : Cardinality({j \in s : j < i}) >= MaxRuns}

\* The rows beyond the newest MAX_RUNS, running ones among them.
Surplus(s) == {i \in s : Cardinality(Younger(s, i)) >= MaxRuns}

\* _prune: the rows are read once ...
ReadLog(i) ==
  /\ runs[i].at = "pruning" /\ doomed[i] = {}
  /\ doomed' = [doomed EXCEPT ![i] = Surplus(DOMAIN rows)]
  /\ Goto(i, IF Surplus(DOMAIN rows) = {} THEN "over" ELSE "pruning")
  /\ UNCHANGED <<now, rows, checked, heard, faults, mute>>

\* ... and deleted one by one; a DELETE that fails ends it.
DeleteRow(i) ==
  /\ runs[i].at = "pruning"
  /\ \E j \in doomed[i] : Younger(doomed[i], j) = {} /\
       \/ /\ rows' = Only(rows, DOMAIN rows \ {j})
          /\ doomed' = [doomed EXCEPT ![i] = @ \ {j}]
          /\ Goto(i, IF doomed[i] = {j} THEN "over" ELSE "pruning")
          /\ UNCHANGED faults
       \/ Fault /\ Goto(i, "over") /\ doomed' = [doomed EXCEPT ![i] = {}] /\ UNCHANGED rows
  /\ UNCHANGED <<now, checked, heard, mute>>

\* The process dies, or is interrupted by something that is no Exception.
Die(i) ==
  /\ runs[i].at \in {"open", "logging", "pruning"}
  /\ Fault
  /\ Goto(i, "dead")
  /\ doomed' = [doomed EXCEPT ![i] = {}]
  /\ UNCHANGED <<now, rows, checked, heard, mute>>

Tick ==
  /\ now < MaxTime
  /\ now - checked < CheckEvery
  /\ now' = now + 1
  /\ UNCHANGED <<runs, rows, doomed, checked, heard, faults, mute>>

\* list_runs(limit): the newest rows, each with the mark of a crashed run.
Listed   == {i \in DOMAIN rows : Cardinality(Younger(DOMAIN rows, i)) < Limit}
Stale(i) == rows[i] = "running" /\ now - runs[i].began > StaleAge

\* Broken form: only the runs that began since the last check.
Alerted_SinceCheck ==
  {i \in Listed : (rows[i] = "failed" /\ i \in Imports /\ runs[i].began > checked) \/ Stale(i)}

\* check_imports: imports that failed, by the time they began, and stale rows.
Alerted ==
  {i \in Listed : \/ rows[i] = "failed" /\ i \in Imports /\ runs[i].began + Window >= now
                  \/ Stale(i)}

\* collect, for the imports.
Check ==
  /\ now > checked
  /\ checked' = now
  /\ heard' = heard \cup (Alerted \cap Imports)
  /\ UNCHANGED <<now, runs, rows, doomed, faults, mute>>

Next ==
  \/ Start
  \/ \E i \in Ids : End(i) \/ Finish(i) \/ ReadLog(i) \/ DeleteRow(i) \/ Die(i)
  \/ Tick
  \/ Check

Spec == Init /\ [][Next]_vars

-----------------------------------------------------------------------------

\* MAX_RUNS: whatever runs prune at the same time, from whatever list they read,
\* none of them deletes a row that fewer than MAX_RUNS newer runs stand in front
\* of - so a run loses its row, and its end is written nowhere, only after
\* MAX_RUNS others have started behind it.
NewestKept ==
  \A i \in Ids \ mute : Cardinality(Younger(Ids, i)) < MaxRuns => i \in DOMAIN rows

\* A failed import has been named by the first check after it ended, however its
\* end, the check and the pruning of others fell together - if it was short
\* enough to be still in the window, and fewer than the listed runs came after.
FailureHeard ==
  \A i \in Ids \ mute :
    (/\ i \in Imports /\ runs[i].end = "failed" /\ runs[i].at \in {"pruning", "over"}
     /\ runs[i].ended < checked
     /\ (runs[i].ended - runs[i].began) + CheckEvery <= Window
     /\ Cardinality(Younger(Ids, i)) < Limit)
    => i \in heard

\* Pruning and the daily check together lose no failure.
LogStands == NewestKept /\ FailureHeard

\* alerts.py: "an import run that FAILED in the last 24 h" is among the alerts,
\* with a check every 24 h.
FailedSinceReported ==
  \A i \in Ids \ mute :
    (/\ i \in Imports /\ runs[i].end = "failed" /\ runs[i].at \in {"pruning", "over"}
     /\ runs[i].ended < checked
     /\ Cardinality(Younger(Ids, i)) < Limit)
    => i \in heard
=============================================================================
