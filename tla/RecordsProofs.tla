--------------------------- MODULE RecordsProofs ---------------------------
(***************************************************************************)
(* What the passes' own records keep, for every value of the parameters:   *)
(* the log of runs, the companies of one name, the reports of a group, the *)
(* moderators' desk and the import lock.                                   *)
(***************************************************************************)
EXTENDS MCRecords, Sequences, FiniteSetTheorems, NaturalsInduction, WellFoundedInduction, TLAPS

-----------------------------------------------------------------------------
(* The log of runs *)

\* The component's count is the library's.
LEMMA LogCounts == \A s : Log!Cardinality(s) = Cardinality(s)
  BY DEF Log!Cardinality, Cardinality

\* The figures of the code are numbers, and the check reads within the log.
LogFigures ==
  /\ LogStarts \in Nat /\ LogTime \in Nat /\ LogFaults \in Nat
  /\ LogRuns \in Nat /\ LogLimit \in Nat /\ LogLimit <= LogRuns
  /\ LogStale \in Nat /\ LogWindow \in Nat /\ LogEvery \in Nat

Started == Cardinality(Log!Ids)

LogTyped ==
  /\ Log!RunLogTypeOK
  /\ \E n \in Nat : Log!Ids = 1 .. n
  /\ log_runs \in [Log!Ids -> Log!Run] /\ log_doomed \in [Log!Ids -> SUBSET Log!Ids]
  /\ log_rows \in [DOMAIN log_rows -> Log!Outcomes \cup {"running"}]

\* The check comes round in time.
Clock == log_now <= log_checked + LogEvery

\* A row is gone, or about to be deleted, only when enough younger runs started.
RowsKept   == \A i \in Log!Ids \ log_mute : Started - i < LogRuns => i \in DOMAIN log_rows
Spared == \A k \in Log!Ids : \A j \in log_doomed[k] : Started - j >= LogRuns

\* A run whose end was logged has it in its row, as long as there is one.
Logged(i) == i \notin log_mute /\ log_runs[i].at \in {"pruning", "over"}
Filed == \A i \in Log!Ids : Logged(i) /\ i \in DOMAIN log_rows => log_rows[i] = log_runs[i].end

\* What the check had to say it has said.
Due(i) ==
  /\ Logged(i) /\ i \in LogImports /\ log_runs[i].end = "failed" /\ log_runs[i].ended < log_checked
  /\ (log_runs[i].ended - log_runs[i].began) + LogEvery <= LogWindow
  /\ Started - i < LogLimit
Told == \A i \in Log!Ids : Due(i) => i \in log_heard

LogInv == LogTyped /\ Clock /\ RowsKept /\ Spared /\ Filed /\ Told

-----------------------------------------------------------------------------
(* Runs are numbered *)

LEMMA RunsNumbered ==
  ASSUME NEW n \in Nat
  PROVE  /\ IsFiniteSet(1 .. n) /\ Cardinality(1 .. n) = n
         /\ \A i \in 1 .. n : /\ IsFiniteSet(Log!Younger(1 .. n, i))
                              /\ Cardinality(Log!Younger(1 .. n, i)) = n - i
<1>1. IsFiniteSet(1 .. n) /\ Cardinality(1 .. n) = n
  BY FS_Interval
<1>2. ASSUME NEW i \in 1 .. n
      PROVE  IsFiniteSet(Log!Younger(1 .. n, i)) /\ Cardinality(Log!Younger(1 .. n, i)) = n - i
  <2>1. Log!Younger(1 .. n, i) = (i + 1) .. n
    BY DEF Log!Younger
  <2>2. i + 1 \in Int /\ n \in Int /\ (i + 1 > n => n - i = 0) /\ n - (i + 1) + 1 = n - i
    OBVIOUS
  <2> QED
    BY <2>1, <2>2, FS_Interval
<1> QED
  BY <1>1, <1>2

\* How many runs started, and how many of them after one.
LEMMA Count ==
  ASSUME LogTyped
  PROVE  /\ Started \in Nat /\ Log!Ids = 1 .. Started /\ IsFiniteSet(Log!Ids)
         /\ \A i \in Log!Ids : i \in Nat /\ Cardinality(Log!Younger(Log!Ids, i)) = Started - i
<1>1. PICK n \in Nat : Log!Ids = 1 .. n
  BY DEF LogTyped
<1> QED
  BY <1>1, RunsNumbered DEF Started

\* Some of the runs are no more than all of them.
LEMMA Fewer ==
  ASSUME LogTyped, NEW s \in SUBSET Log!Ids, NEW i \in Log!Ids
  PROVE  Cardinality(Log!Younger(s, i)) \in Nat /\ Cardinality(Log!Younger(s, i)) <= Started - i
<1>1. IsFiniteSet(Log!Younger(Log!Ids, i)) /\ Cardinality(Log!Younger(Log!Ids, i)) = Started - i
  <2>1. PICK n \in Nat : Log!Ids = 1 .. n
    BY DEF LogTyped
  <2> QED
    BY <2>1, RunsNumbered, Count
<1>2. Log!Younger(s, i) \in SUBSET Log!Younger(Log!Ids, i)
  BY DEF Log!Younger
<1> QED
  BY <1>1, <1>2, FS_Subset, FS_CardinalityType

LEMMA LogInitInv == Log!Init /\ LogFigures => LogInv
<1> SUFFICES ASSUME Log!Init, LogFigures PROVE LogInv
  OBVIOUS
<1>1. Log!Ids = {} /\ DOMAIN log_rows = {} /\ DOMAIN log_doomed = {} /\ Cardinality({}) = 0 /\ 1 .. 0 = {}
  BY FS_EmptySet DEF Log!Init, Log!None, Log!Ids
<1>2. log_runs \in [Log!Ids -> Log!Run] /\ log_doomed \in [Log!Ids -> SUBSET Log!Ids]
      /\ log_rows \in [DOMAIN log_rows -> Log!Outcomes \cup {"running"}]
  BY <1>1 DEF Log!Init, Log!None, Log!Ids
<1>3. Log!RunLogTypeOK
  BY LogCounts, <1>1 DEF Log!Init, Log!RunLogTypeOK, LogFigures
<1>4. LogTyped
  BY <1>1, <1>2, <1>3 DEF LogTyped
<1> QED
  BY <1>1, <1>4 DEF LogInv, Log!Init, LogFigures, Clock, RowsKept, Spared, Filed, Told


-----------------------------------------------------------------------------
(* One run moves *)

LEMMA LogMoves ==
  ASSUME LogTyped, NEW i \in Log!Ids, NEW q \in Log!Run, log_runs' = [log_runs EXCEPT ![i] = q]
  PROVE  /\ Log!Ids' = Log!Ids /\ Started' = Started /\ log_runs' \in [Log!Ids -> Log!Run]
         /\ log_runs'[i] = q /\ \A j \in Log!Ids \ {i} : log_runs'[j] = log_runs[j]
<1>1. Log!Ids' = Log!Ids /\ log_runs' \in [Log!Ids -> Log!Run] /\ log_runs'[i] = q
      /\ \A j \in Log!Ids \ {i} : log_runs'[j] = log_runs[j]
  BY DEF LogTyped, Log!Ids
<1> QED
  BY <1>1 DEF Started

LEMMA Goes ==
  ASSUME LogTyped, NEW i \in Log!Ids, NEW place \in {"open", "logging", "pruning", "over", "dead"},
         Log!Goto(i, place)
  PROVE  /\ Log!Ids' = Log!Ids /\ Started' = Started /\ log_runs' \in [Log!Ids -> Log!Run]
         /\ log_runs'[i].at = place /\ log_runs'[i].end = log_runs[i].end
         /\ log_runs'[i].began = log_runs[i].began /\ log_runs'[i].ended = log_runs[i].ended
         /\ \A j \in Log!Ids \ {i} : log_runs'[j] = log_runs[j]
<1> DEFINE q == [log_runs[i] EXCEPT !.at = place]
<1>1. log_runs[i] \in Log!Run
  BY DEF LogTyped
<1>2. /\ q \in Log!Run /\ q.at = place /\ q.end = log_runs[i].end /\ q.began = log_runs[i].began
      /\ q.ended = log_runs[i].ended
  BY <1>1 DEF Log!Run
<1>3. log_runs' = [log_runs EXCEPT ![i] = q]
  BY DEF Log!Goto, LogTyped
<1> HIDE DEF q
<1> QED
  BY <1>2, <1>3, LogMoves

\* What is left to show of types once the runs are in place.
LEMMA StillTyped ==
  ASSUME LogTyped, Log!Ids' = Log!Ids, log_runs' \in [Log!Ids -> Log!Run],
         DOMAIN log_rows' \subseteq Log!Ids, log_rows' \in [DOMAIN log_rows' -> Log!Outcomes \cup {"running"}],
         log_doomed' \in [Log!Ids -> SUBSET Log!Ids], log_now' \in 0 .. LogTime, log_checked' \in 0 .. log_now',
         log_heard' \subseteq Log!Ids, log_mute' \subseteq Log!Ids, log_faults' \in 0 .. LogFaults
  PROVE  LogTyped'
<1>1. Log!RunLogTypeOK'
  <2>1. Log!Ids' = 1 .. Cardinality(Log!Ids)
    BY Count DEF Started
  <2>2. \A i \in Log!Ids : log_runs'[i] \in Log!Run /\ log_doomed'[i] \subseteq Log!Ids
    OBVIOUS
  <2>3. DOMAIN log_doomed' = Log!Ids /\ \A i \in DOMAIN log_rows' : log_rows'[i] \in Log!Outcomes \cup {"running"}
    OBVIOUS
  <2> QED
    BY LogCounts, <2>1, <2>2, <2>3 DEF Log!RunLogTypeOK
<1> QED
  BY <1>1 DEF LogTyped

\* What the state is made of.
LEMMA LogTypes ==
  ASSUME LogTyped, LogFigures
  PROVE  /\ log_now \in Nat /\ log_checked \in Nat /\ log_checked <= log_now /\ log_now <= LogTime
         /\ DOMAIN log_rows \subseteq Log!Ids /\ log_heard \subseteq Log!Ids /\ log_mute \subseteq Log!Ids
         /\ log_faults \in 0 .. LogFaults /\ DOMAIN log_runs = Log!Ids /\ DOMAIN log_doomed = Log!Ids
         /\ \A i \in Log!Ids : /\ log_runs[i] \in Log!Run /\ log_doomed[i] \subseteq Log!Ids
                           /\ log_runs[i].began \in Nat /\ log_runs[i].ended \in Nat
                           /\ log_runs[i].end \in Log!Outcomes
BY LogCounts DEF LogTyped, Log!RunLogTypeOK, LogFigures, Log!Run, Log!Ids

-----------------------------------------------------------------------------
(* Every action keeps the log and what was heard of it *)

\* While no row is lost and no run ends, all that is known stays known.
LEMMA StaysKnown ==
  ASSUME LogInv, LogFigures, Started' = Started, Log!Ids' = Log!Ids, log_mute \subseteq log_mute', log_heard \subseteq log_heard',
         log_checked' = log_checked,
         DOMAIN log_rows' = DOMAIN log_rows,
         \A k \in Log!Ids : log_doomed'[k] \subseteq log_doomed[k],
         \A j \in Log!Ids : Logged(j)' =>
           /\ Logged(j) /\ log_runs'[j].end = log_runs[j].end /\ log_runs'[j].began = log_runs[j].began
           /\ log_runs'[j].ended = log_runs[j].ended
           /\ j \in DOMAIN log_rows => log_rows'[j] = log_rows[j]
  PROVE  RowsKept' /\ Spared' /\ Filed' /\ Told'
<1>1. RowsKept'
  BY DEF LogInv, RowsKept
<1>2. Spared'
  BY DEF LogInv, Spared
<1>3. Filed'
  BY DEF LogInv, Filed
<1>4. Told'
  BY DEF LogInv, Told, Due
<1> QED
  BY <1>1, <1>2, <1>3, <1>4

LEMMA StartKeeps == ASSUME LogInv, LogFigures, Log!Start PROVE LogInv'
<1> DEFINE i == Started + 1
           first == [at |-> "open", end |-> "ok", began |-> log_now, ended |-> 0]
<1>1. /\ LogTyped /\ Started \in Nat /\ Log!Ids = 1 .. Started /\ i \notin Log!Ids
      /\ log_runs' = Log!With(log_runs, i, first) /\ log_doomed' = Log!With(log_doomed, i, {})
      /\ UNCHANGED <<log_now, log_checked, log_heard>>
  BY LogCounts, Count DEF LogInv, Log!Start, Started
<1>2. \/ log_rows' = Log!With(log_rows, i, "running") /\ UNCHANGED <<log_faults, log_mute>>
      \/ Log!Fault /\ log_mute' = log_mute \cup {i} /\ UNCHANGED log_rows
  BY LogCounts DEF Log!Start, Started
<1>3. log_now \in 0 .. LogTime /\ 0 \in 0 .. LogTime
  BY <1>1, LogTypes DEF LogFigures
<1>4. first \in Log!Run
  BY <1>3 DEF Log!Run, Log!Outcomes
<1>5. first.at = "open"
  OBVIOUS
<1> HIDE DEF first
<1>6. /\ Log!Ids' = 1 .. i /\ log_runs'[i] = first /\ \A j \in Log!Ids : log_runs'[j] = log_runs[j]
  <2>1. DOMAIN log_runs = Log!Ids
    BY DEF Log!Ids
  <2>2. DOMAIN log_runs' = Log!Ids \cup {i} /\ log_runs'[i] = first /\ \A j \in Log!Ids : log_runs'[j] = log_runs[j]
    BY <1>1, <2>1 DEF Log!With
  <2>3. Log!Ids \cup {i} = 1 .. i
    BY <1>1
  <2> QED
    BY <2>2, <2>3 DEF Log!Ids
<1>7. Started' = i /\ i \in Nat /\ Log!Ids \subseteq 1 .. i /\ 1 .. i = Log!Ids \cup {i}
  <2>1. i \in Nat /\ Log!Ids \subseteq 1 .. i /\ 1 .. i = Log!Ids \cup {i}
    BY <1>1
  <2>2. Cardinality(1 .. i) = i
    BY <2>1, RunsNumbered
  <2>3. Cardinality(Log!Ids') = i
    BY <1>6, <2>2
  <2> QED
    BY <2>1, <2>3 DEF Started
<1>8. /\ DOMAIN log_doomed' = 1 .. i /\ log_doomed'[i] = {} /\ \A j \in Log!Ids : log_doomed'[j] = log_doomed[j]
  <2>1. DOMAIN log_doomed = Log!Ids
    BY <1>1, LogTypes
  <2> QED
    BY <1>1, <1>7, <2>1 DEF Log!With
<1>9. /\ DOMAIN log_rows \subseteq Log!Ids /\ DOMAIN log_rows' \subseteq 1 .. i /\ DOMAIN log_rows \subseteq DOMAIN log_rows'
      /\ i \notin log_mute' => i \in DOMAIN log_rows'
      /\ \A j \in DOMAIN log_rows : log_rows'[j] = log_rows[j]
      /\ \A j \in DOMAIN log_rows' : log_rows'[j] \in Log!Outcomes \cup {"running"}
      /\ log_rows' \in [DOMAIN log_rows' -> Log!Outcomes \cup {"running"}]
  <2>1. DOMAIN log_rows \subseteq Log!Ids /\ log_rows \in [DOMAIN log_rows -> Log!Outcomes \cup {"running"}]
    BY <1>1, LogTypes DEF LogTyped
  <2>2. CASE log_rows' = Log!With(log_rows, i, "running")
    <3>1. DOMAIN log_rows' = DOMAIN log_rows \cup {i} /\ log_rows'[i] = "running"
          /\ \A j \in DOMAIN log_rows : log_rows'[j] = log_rows[j]
      BY <1>1, <2>1, <2>2 DEF Log!With
    <3>2. \A j \in DOMAIN log_rows' : log_rows'[j] \in Log!Outcomes \cup {"running"}
      BY <2>1, <3>1
    <3>3. log_rows' \in [DOMAIN log_rows' -> Log!Outcomes \cup {"running"}]
      BY <2>2, <3>2 DEF Log!With
    <3> QED
      BY <1>7, <2>1, <3>1, <3>2, <3>3
  <2>3. CASE UNCHANGED log_rows /\ log_mute' = log_mute \cup {i}
    BY <1>7, <2>1, <2>3
  <2> QED
    BY <1>2, <2>2, <2>3
<1>10. log_mute' \subseteq 1 .. i /\ log_faults' \in 0 .. LogFaults /\ log_mute \subseteq log_mute'
  BY <1>1, <1>2, <1>7, LogTypes DEF Log!Fault, LogFigures
<1>11. LogTyped'
  <2>1. \A j \in 1 .. i : log_runs'[j] \in Log!Run /\ log_doomed'[j] \subseteq 1 .. i
    BY <1>1, <1>4, <1>6, <1>7, <1>8, LogTypes
  <2>2. log_runs' \in [1 .. i -> Log!Run]
    BY <1>1, <1>6, <2>1 DEF Log!With, Log!Ids
  <2>3. log_doomed' \in [1 .. i -> SUBSET (1 .. i)]
    BY <1>1, <1>8, <2>1 DEF Log!With
  <2>4. log_heard' \subseteq 1 .. i /\ log_now' \in 0 .. LogTime /\ log_checked' \in 0 .. log_now'
    BY <1>1, <1>3, <1>7, LogTypes
  <2>5. Log!RunLogTypeOK'
    BY LogCounts, <1>6, <1>7, <1>8, <1>9, <1>10, <2>1, <2>4 DEF Log!RunLogTypeOK, Started
  <2> QED
    BY <1>6, <1>7, <1>9, <2>2, <2>3, <2>5 DEF LogTyped
<1>12. RowsKept'
  <2>1. ASSUME NEW j \in 1 .. i, j \notin log_mute', Started' - j < LogRuns PROVE j \in DOMAIN log_rows'
    <3>1. CASE j = i
      BY <1>9, <2>1, <3>1
    <3>2. CASE j # i
      <4>1. j \in Log!Ids /\ j \notin log_mute /\ j \in Nat
        BY <1>7, <1>10, <2>1, <3>2
      <4>2. Started - j < LogRuns
        BY <1>1, <1>7, <2>1, <4>1 DEF LogFigures
      <4>3. j \in DOMAIN log_rows
        BY <4>1, <4>2 DEF LogInv, RowsKept
      <4> QED
        BY <1>9, <4>3
    <3> QED
      BY <3>1, <3>2
  <2> QED
    BY <1>6, <2>1 DEF RowsKept
<1>13. Spared'
  <2>1. ASSUME NEW k \in 1 .. i, NEW j \in log_doomed'[k] PROVE Started' - j >= LogRuns
    <3>1. k \in Log!Ids /\ j \in log_doomed[k] /\ j \in Log!Ids
      BY <1>1, <1>7, <1>8, <2>1, LogTypes
    <3>2. Started - j >= LogRuns /\ j \in Nat
      BY <3>1, Count DEF LogInv, Spared
    <3> QED
      BY <1>1, <1>7, <3>2 DEF LogFigures
  <2> QED
    BY <1>6, <2>1 DEF Spared
<1>14. ASSUME NEW j \in 1 .. i, Logged(j)' PROVE j \in Log!Ids /\ Logged(j) /\ log_runs'[j] = log_runs[j]
  <2>1. j # i
    BY <1>5, <1>6, <1>14 DEF Logged
  <2> QED
    BY <1>6, <1>7, <1>10, <1>14, <2>1 DEF Logged
<1>15. Filed'
  <2>1. ASSUME NEW j \in 1 .. i, Logged(j)', j \in DOMAIN log_rows' PROVE log_rows'[j] = log_runs'[j].end
    <3>1. j \in Log!Ids /\ Logged(j) /\ log_runs'[j] = log_runs[j] /\ j # i
      BY <1>1, <1>14, <2>1
    <3>2. j \in DOMAIN log_rows
      <4>1. DOMAIN log_rows' \subseteq DOMAIN log_rows \cup {i}
        BY <1>2 DEF Log!With
      <4> QED
        BY <2>1, <3>1, <4>1
    <3> QED
      BY <1>9, <3>1, <3>2 DEF LogInv, Filed
  <2> QED
    BY <1>6, <2>1 DEF Filed
<1>16. Told'
  <2>1. ASSUME NEW j \in 1 .. i, Due(j)' PROVE j \in log_heard'
    <3>1. Logged(j)'
      BY <2>1 DEF Due
    <3>2. j \in Log!Ids /\ Logged(j) /\ log_runs'[j] = log_runs[j]
      BY <1>14, <3>1
    <3>3. Started - j < LogLimit
      BY <1>1, <1>7, <2>1, <3>2, Count DEF Due, LogFigures
    <3>4. Due(j)
      BY <1>1, <2>1, <3>2, <3>3 DEF Due
    <3> QED
      BY <1>1, <3>2, <3>4 DEF LogInv, Told
  <2> QED
    BY <1>6, <2>1 DEF Told
<1> QED
  BY <1>1, <1>11, <1>12, <1>13, <1>15, <1>16 DEF LogInv, Clock

LEMMA EndKeeps == ASSUME LogInv, LogFigures, NEW i \in Log!Ids, Log!End(i) PROVE LogInv'
<1>1. PICK outcome \in Log!Outcomes :
        log_runs' = [log_runs EXCEPT ![i].at = "logging", ![i].end = outcome]
  BY DEF Log!End, Log!Outcomes
<1>2. LogTyped /\ log_runs[i] \in Log!Run /\ DOMAIN log_runs = Log!Ids
  BY LogTypes DEF LogInv
<1> DEFINE q == [log_runs[i] EXCEPT !.at = "logging", !.end = outcome]
<1>3. q \in Log!Run /\ q.at = "logging"
  BY <1>2 DEF Log!Run
<1>4. log_runs' = [log_runs EXCEPT ![i] = q]
  BY <1>1, <1>2 DEF LogTyped
<1> HIDE DEF q
<1>5. Log!Ids' = Log!Ids /\ Started' = Started /\ log_runs' \in [Log!Ids -> Log!Run] /\ log_runs'[i] = q
      /\ \A j \in Log!Ids \ {i} : log_runs'[j] = log_runs[j]
  BY <1>2, <1>3, <1>4, LogMoves
<1>6. LogTyped'
  <2>1. /\ log_now' \in 0 .. LogTime /\ log_checked' \in 0 .. log_now' /\ log_faults' \in 0 .. LogFaults
        /\ DOMAIN log_rows' \subseteq Log!Ids /\ log_rows' \in [DOMAIN log_rows' -> Log!Outcomes \cup {"running"}]
        /\ log_doomed' \in [Log!Ids -> SUBSET Log!Ids] /\ log_heard' \subseteq Log!Ids /\ log_mute' \subseteq Log!Ids
    BY LogCounts, <1>2 DEF LogTyped, Log!RunLogTypeOK, Log!End
  <2> QED
    BY <1>2, <1>5, <2>1, StillTyped
<1>7. \A j \in Log!Ids : Logged(j)' => Logged(j) /\ log_runs'[j] = log_runs[j]
  BY <1>3, <1>5 DEF Logged, Log!End
<1>8. RowsKept' /\ Spared' /\ Filed' /\ Told'
  BY <1>5, <1>7, StaysKnown DEF Log!End
<1> QED
  BY <1>6, <1>8 DEF LogInv, Clock, Log!End

LEMMA FinishKeeps == ASSUME LogInv, LogFigures, NEW i \in Log!Ids, Log!Finish(i) PROVE LogInv'
<1>1. LogTyped /\ log_runs[i] \in Log!Run /\ DOMAIN log_runs = Log!Ids /\ log_runs[i].at = "logging"
  BY LogTypes DEF LogInv, Log!Finish
<1>2. CASE Log!Fault /\ Log!Goto(i, "over") /\ log_mute' = log_mute \cup {i} /\ UNCHANGED log_rows
  <2>1. /\ Log!Ids' = Log!Ids /\ Started' = Started /\ log_runs' \in [Log!Ids -> Log!Run]
        /\ \A j \in Log!Ids \ {i} : log_runs'[j] = log_runs[j]
    BY <1>1, <1>2, Goes
  <2>2. LogTyped'
    <3>1. /\ log_now' \in 0 .. LogTime /\ log_checked' \in 0 .. log_now' /\ log_heard' \subseteq Log!Ids
          /\ DOMAIN log_rows' \subseteq Log!Ids /\ log_rows' \in [DOMAIN log_rows' -> Log!Outcomes \cup {"running"}]
          /\ log_doomed' \in [Log!Ids -> SUBSET Log!Ids] /\ log_mute' \subseteq Log!Ids
      BY LogCounts, <1>1, <1>2 DEF LogTyped, Log!RunLogTypeOK, Log!Finish
    <3>2. log_faults' \in 0 .. LogFaults
      BY <1>1, <1>2, LogTypes DEF Log!Fault, LogFigures
    <3> QED
      BY <1>1, <2>1, <3>1, <3>2, StillTyped
  <2>3. \A j \in Log!Ids : Logged(j)' => Logged(j) /\ log_runs'[j] = log_runs[j]
    BY <1>2, <2>1 DEF Logged
  <2>4. RowsKept' /\ Spared' /\ Filed' /\ Told'
    BY <1>2, <2>1, <2>3, StaysKnown DEF Log!Finish
  <2> QED
    BY <2>2, <2>4 DEF LogInv, Clock, Log!Finish
<1>3. CASE /\ log_rows' = IF i \in DOMAIN log_rows THEN [log_rows EXCEPT ![i] = log_runs[i].end] ELSE log_rows
           /\ log_runs' = [log_runs EXCEPT ![i].at = "pruning", ![i].ended = IF i \in LogImports THEN log_now ELSE 0]
           /\ UNCHANGED <<log_faults, log_mute>>
  <2> DEFINE ended == IF i \in LogImports THEN log_now ELSE 0
             q == [log_runs[i] EXCEPT !.at = "pruning", !.ended = ended]
  <2>1. ended \in 0 .. LogTime
    BY <1>1, LogTypes DEF LogFigures
  <2> HIDE DEF ended
  <2>2. /\ q \in Log!Run /\ q.at = "pruning" /\ q.end = log_runs[i].end /\ q.began = log_runs[i].began
        /\ q.ended = ended
    BY <1>1, <2>1 DEF Log!Run
  <2>3. log_runs' = [log_runs EXCEPT ![i] = q]
    BY <1>1, <1>3 DEF LogTyped, ended
  <2> HIDE DEF q
  <2>4. /\ Log!Ids' = Log!Ids /\ Started' = Started /\ log_runs' \in [Log!Ids -> Log!Run] /\ log_runs'[i] = q
        /\ \A j \in Log!Ids \ {i} : log_runs'[j] = log_runs[j]
    BY <1>1, <2>2, <2>3, LogMoves
  <2>5. /\ DOMAIN log_rows' = DOMAIN log_rows /\ log_rows' \in [DOMAIN log_rows -> Log!Outcomes \cup {"running"}]
        /\ i \in DOMAIN log_rows => log_rows'[i] = log_runs[i].end
        /\ \A j \in DOMAIN log_rows \ {i} : log_rows'[j] = log_rows[j]
    BY <1>1, <1>3, LogTypes DEF LogTyped, LogInv
  <2>6. LogTyped'
    BY LogCounts, <1>1, <1>3, <2>4, <2>5, LogTypes, StillTyped DEF LogTyped, Log!RunLogTypeOK, Log!Finish
  <2>7. \A j \in Log!Ids \ {i} : Logged(j)' => Logged(j) /\ log_runs'[j] = log_runs[j]
    BY <1>3, <2>4 DEF Logged
  <2>8. RowsKept' /\ Spared'
    BY <1>3, <2>4, <2>5 DEF LogInv, RowsKept, Spared, Log!Finish
  <2>9. Filed'
    BY <2>2, <2>4, <2>5, <2>7 DEF LogInv, Filed
  <2>10. ~Due(i)'
    <3>1. i \in LogImports => log_runs'[i].ended = log_now
      BY <2>2, <2>4 DEF ended
    <3>2. log_checked' = log_checked /\ log_checked \in Nat /\ log_now \in Nat /\ log_checked <= log_now
      BY <1>1, LogTypes DEF Log!Finish
    <3> QED
      BY <3>1, <3>2 DEF Due
  <2>11. Told'
    BY <2>4, <2>7, <2>10 DEF LogInv, Told, Due, Log!Finish
  <2> QED
    BY <2>6, <2>8, <2>9, <2>11 DEF LogInv, Clock, Log!Finish
<1> QED
  BY <1>2, <1>3 DEF Log!Finish

LEMMA ReadLogKeeps == ASSUME LogInv, LogFigures, NEW i \in Log!Ids, Log!ReadLog(i) PROVE LogInv'
<1>1. LogTyped /\ DOMAIN log_doomed = Log!Ids /\ DOMAIN log_rows \subseteq Log!Ids
  BY LogTypes DEF LogInv
<1>2. Log!Surplus(DOMAIN log_rows) \subseteq Log!Ids
  BY LogCounts, <1>1 DEF Log!Surplus
<1>3. \A j \in Log!Surplus(DOMAIN log_rows) : Started - j >= LogRuns
  <2>1. SUFFICES ASSUME NEW j \in Log!Surplus(DOMAIN log_rows) PROVE Started - j >= LogRuns
    OBVIOUS
  <2>2. j \in Log!Ids /\ Cardinality(Log!Younger(DOMAIN log_rows, j)) >= LogRuns
    BY LogCounts, <1>2, <2>1 DEF Log!Surplus
  <2>3. /\ Cardinality(Log!Younger(DOMAIN log_rows, j)) \in Nat
        /\ Cardinality(Log!Younger(DOMAIN log_rows, j)) <= Started - j /\ Started \in Nat /\ j \in Nat
    BY <1>1, <2>2, Fewer, Count
  <2> QED
    BY <2>2, <2>3 DEF LogFigures
<1>4. /\ Log!Ids' = Log!Ids /\ Started' = Started /\ log_runs' \in [Log!Ids -> Log!Run] /\ log_runs'[i].end = log_runs[i].end
      /\ log_runs'[i].began = log_runs[i].began /\ log_runs'[i].ended = log_runs[i].ended
      /\ \A j \in Log!Ids \ {i} : log_runs'[j] = log_runs[j]
  BY <1>1, Goes DEF Log!ReadLog
<1>5. /\ log_doomed' \in [Log!Ids -> SUBSET Log!Ids] /\ log_doomed'[i] = Log!Surplus(DOMAIN log_rows)
      /\ \A k \in Log!Ids \ {i} : log_doomed'[k] = log_doomed[k]
  BY <1>1, <1>2 DEF LogTyped, Log!ReadLog
<1>6. LogTyped'
  BY LogCounts, <1>1, <1>4, <1>5, LogTypes, StillTyped DEF LogTyped, Log!RunLogTypeOK, Log!ReadLog
<1>7. \A j \in Log!Ids : Logged(j)' => Logged(j)
  BY <1>4 DEF Logged, Log!ReadLog
<1>8. RowsKept'
  BY <1>4 DEF LogInv, RowsKept, Log!ReadLog
<1>9. Spared'
  BY <1>3, <1>4, <1>5 DEF LogInv, Spared
<1>10. Filed'
  BY <1>4, <1>7 DEF LogInv, Filed, Log!ReadLog
<1>11. Told'
  BY <1>4, <1>7 DEF LogInv, Told, Due, Log!ReadLog
<1> QED
  BY <1>6, <1>8, <1>9, <1>10, <1>11 DEF LogInv, Clock, Log!ReadLog

LEMMA DeleteRowKeeps == ASSUME LogInv, LogFigures, NEW i \in Log!Ids, Log!DeleteRow(i) PROVE LogInv'
<1>1. LogTyped /\ DOMAIN log_doomed = Log!Ids /\ DOMAIN log_rows \subseteq Log!Ids /\ log_doomed[i] \subseteq Log!Ids
      /\ UNCHANGED <<log_now, log_checked, log_heard, log_mute>> /\ log_runs[i].at = "pruning"
  BY LogTypes DEF LogInv, Log!DeleteRow
<1>2. PICK j \in log_doomed[i] :
       \/ /\ log_rows' = Log!Only(log_rows, DOMAIN log_rows \ {j})
          /\ log_doomed' = [log_doomed EXCEPT ![i] = @ \ {j}]
          /\ Log!Goto(i, IF log_doomed[i] = {j} THEN "over" ELSE "pruning")
          /\ UNCHANGED log_faults
       \/ Log!Fault /\ Log!Goto(i, "over") /\ log_doomed' = [log_doomed EXCEPT ![i] = {}] /\ UNCHANGED log_rows
  BY DEF Log!DeleteRow
<1>3. /\ Log!Ids' = Log!Ids /\ Started' = Started /\ log_runs' \in [Log!Ids -> Log!Run] /\ log_runs'[i].end = log_runs[i].end
      /\ log_runs'[i].began = log_runs[i].began /\ log_runs'[i].ended = log_runs[i].ended
      /\ \A k \in Log!Ids \ {i} : log_runs'[k] = log_runs[k]
  BY <1>1, <1>2, Goes
<1>4. log_doomed' \in [Log!Ids -> SUBSET Log!Ids] /\ \A k \in Log!Ids : log_doomed'[k] \subseteq log_doomed[k]
  BY <1>1, <1>2 DEF LogTyped
<1>5. /\ DOMAIN log_rows' \subseteq DOMAIN log_rows /\ DOMAIN log_rows \subseteq DOMAIN log_rows' \cup {j}
      /\ log_rows' \in [DOMAIN log_rows' -> Log!Outcomes \cup {"running"}]
      /\ \A k \in DOMAIN log_rows' : log_rows'[k] = log_rows[k]
  BY <1>1, <1>2 DEF LogTyped, Log!Only
<1>6. log_faults' \in 0 .. LogFaults
  BY <1>1, <1>2, LogTypes DEF Log!Fault, LogFigures
<1>7. LogTyped'
  BY LogCounts, <1>1, <1>3, <1>4, <1>5, <1>6, LogTypes, StillTyped DEF LogTyped, Log!RunLogTypeOK
<1>8. \A k \in Log!Ids : Logged(k)' => Logged(k)
  BY <1>1, <1>3 DEF Logged
<1>9. RowsKept'
  <2>1. j \in Log!Ids /\ Started - j >= LogRuns
    BY <1>1 DEF LogInv, Spared
  <2>2. Started \in Nat /\ j \in Nat
    BY <1>1, <2>1, Count
  <2> QED
    BY <1>1, <1>3, <1>5, <2>1, <2>2 DEF LogInv, RowsKept, LogFigures
<1>10. Spared'
  BY <1>3, <1>4 DEF LogInv, Spared
<1>11. Filed'
  BY <1>3, <1>5, <1>8 DEF LogInv, Filed
<1>12. Told'
  BY <1>1, <1>3, <1>8 DEF LogInv, Told, Due
<1> QED
  BY <1>1, <1>7, <1>9, <1>10, <1>11, <1>12 DEF LogInv, Clock

LEMMA DieKeeps == ASSUME LogInv, LogFigures, NEW i \in Log!Ids, Log!Die(i) PROVE LogInv'
<1>1. LogTyped /\ DOMAIN log_doomed = Log!Ids
  BY LogTypes DEF LogInv
<1>2. /\ Log!Ids' = Log!Ids /\ Started' = Started /\ log_runs' \in [Log!Ids -> Log!Run] /\ log_runs'[i].at = "dead"
      /\ \A j \in Log!Ids \ {i} : log_runs'[j] = log_runs[j]
  BY <1>1, Goes DEF Log!Die
<1>3. log_doomed' \in [Log!Ids -> SUBSET Log!Ids] /\ \A k \in Log!Ids : log_doomed'[k] \subseteq log_doomed[k]
  BY <1>1 DEF LogTyped, Log!Die
<1>4. LogTyped'
  <2>1. /\ log_now' \in 0 .. LogTime /\ log_checked' \in 0 .. log_now'
        /\ DOMAIN log_rows' \subseteq Log!Ids /\ log_rows' \in [DOMAIN log_rows' -> Log!Outcomes \cup {"running"}]
        /\ log_heard' \subseteq Log!Ids /\ log_mute' \subseteq Log!Ids
    BY LogCounts, <1>1 DEF LogTyped, Log!RunLogTypeOK, Log!Die
  <2>2. log_faults' \in 0 .. LogFaults
    BY <1>1, LogTypes DEF Log!Die, Log!Fault, LogFigures
  <2> QED
    BY <1>1, <1>2, <1>3, <2>1, <2>2, StillTyped
<1>5. \A j \in Log!Ids : Logged(j)' => Logged(j) /\ log_runs'[j] = log_runs[j]
  BY <1>2 DEF Logged, Log!Die
<1>6. RowsKept' /\ Spared' /\ Filed' /\ Told'
  BY <1>2, <1>3, <1>5, StaysKnown DEF Log!Die
<1> QED
  BY <1>4, <1>6 DEF LogInv, Clock, Log!Die

LEMMA TickKeeps == ASSUME LogInv, LogFigures, Log!Tick PROVE LogInv'
<1>1. LogTyped /\ Log!Ids' = Log!Ids /\ Started' = Started
  BY DEF LogInv, Log!Tick, Log!Ids, Started
<1>2. LogTyped'
  <2>1. log_now' \in 0 .. LogTime /\ log_checked' \in 0 .. log_now'
    BY <1>1, LogTypes DEF Log!Tick, LogFigures
  <2>2. /\ log_faults' \in 0 .. LogFaults /\ log_runs' \in [Log!Ids -> Log!Run]
        /\ DOMAIN log_rows' \subseteq Log!Ids /\ log_rows' \in [DOMAIN log_rows' -> Log!Outcomes \cup {"running"}]
        /\ log_doomed' \in [Log!Ids -> SUBSET Log!Ids] /\ log_heard' \subseteq Log!Ids /\ log_mute' \subseteq Log!Ids
    BY LogCounts, <1>1 DEF LogTyped, Log!RunLogTypeOK, Log!Tick
  <2> QED
    BY <1>1, <2>1, <2>2, StillTyped
<1>3. Clock'
  BY <1>1, LogTypes DEF Log!Tick, Clock, LogFigures
<1>4. RowsKept' /\ Spared' /\ Filed' /\ Told'
  BY <1>1, StaysKnown DEF Log!Tick, Logged
<1> QED
  BY <1>2, <1>3, <1>4 DEF LogInv

\* The check names whatever fell due since the one before.
LEMMA CheckKeeps == ASSUME LogInv, LogFigures, Log!Check PROVE LogInv'
<1>1. LogTyped /\ Log!Ids' = Log!Ids /\ Started' = Started /\ log_checked' = log_now /\ UNCHANGED <<log_now, log_runs, log_rows, log_doomed, log_mute>>
  BY DEF LogInv, Log!Check, Log!Ids, Started
<1>2. Log!Alerted \subseteq Log!Ids
  BY LogCounts, <1>1, LogTypes DEF Log!Alerted, Log!Listed
<1>3. LogTyped'
  BY LogCounts, <1>1, <1>2, LogTypes, StillTyped DEF LogTyped, Log!RunLogTypeOK, Log!Check
<1>4. Clock'
  BY <1>1, LogTypes DEF Clock, LogFigures
<1>5. RowsKept' /\ Spared' /\ Filed'
  BY <1>1 DEF LogInv, RowsKept, Spared, Filed, Logged
<1>6. Told'
  <2>1. SUFFICES ASSUME NEW i \in Log!Ids, Due(i)' PROVE i \in log_heard'
    BY <1>1 DEF Told
  <2>2. /\ Logged(i) /\ i \in LogImports /\ log_runs[i].end = "failed" /\ log_runs[i].ended < log_now
        /\ (log_runs[i].ended - log_runs[i].began) + LogEvery <= LogWindow /\ Started - i < LogLimit
    BY <1>1, <2>1 DEF Due, Logged
  <2>3. CASE log_runs[i].ended < log_checked
    <3>1. Due(i)
      BY <2>2, <2>3 DEF Due
    <3> QED
      BY <3>1 DEF LogInv, Told, Log!Check
  <2>4. CASE ~(log_runs[i].ended < log_checked)
    <3>1. /\ Started \in Nat /\ i \in Nat /\ log_now \in Nat /\ log_checked \in Nat
          /\ log_runs[i].began \in Nat /\ log_runs[i].ended \in Nat
      BY <1>1, LogTypes, Count
    <3>2. log_runs[i].began + LogWindow >= log_now
      BY <2>2, <2>4, <3>1 DEF LogInv, Clock, LogFigures
    <3>3. i \in DOMAIN log_rows
      <4>1. Started - i < LogRuns
        BY <2>2, <3>1 DEF LogFigures
      <4> QED
        BY <2>2, <4>1 DEF LogInv, RowsKept, Logged
    <3>4. log_rows[i] = "failed"
      BY <2>2, <3>3 DEF LogInv, Filed
    <3>5. i \in Log!Listed
      <4>1. /\ Cardinality(Log!Younger(DOMAIN log_rows, i)) \in Nat
            /\ Cardinality(Log!Younger(DOMAIN log_rows, i)) <= Started - i
        BY <1>1, LogTypes, Fewer
      <4>2. Cardinality(Log!Younger(DOMAIN log_rows, i)) < LogLimit
        BY <2>2, <3>1, <4>1 DEF LogFigures
      <4> QED
        BY LogCounts, <3>3, <4>2 DEF Log!Listed
    <3>6. i \in Log!Alerted
      BY <2>2, <3>2, <3>4, <3>5 DEF Log!Alerted
    <3> QED
      BY <2>2, <3>6 DEF Log!Check
  <2> QED
    BY <2>3, <2>4
<1> QED
  BY <1>3, <1>4, <1>5, <1>6 DEF LogInv

LEMMA LogNextKeeps == ASSUME LogFigures, LogInv, [Log!Next]_(Log!vars) PROVE LogInv'
<1>1. CASE UNCHANGED Log!vars
  <2>1. Log!Ids' = Log!Ids /\ Started' = Started
    BY <1>1 DEF Log!vars, Log!Ids, Started
  <2> QED
    BY LogCounts, <1>1, <2>1
       DEF Log!vars, LogInv, LogTyped, Log!RunLogTypeOK, Clock, RowsKept, Spared, Filed, Told, Due, Logged
<1> QED
  BY <1>1, StartKeeps, EndKeeps, FinishKeeps, ReadLogKeeps, DeleteRowKeeps, DieKeeps, TickKeeps,
     CheckKeeps DEF Log!Next

\* The inductive invariant: a row is deleted, or on a pruner's list, only once MAX_RUNS
\* younger runs started - true of a list read earlier too, for runs are only added.
THEOREM LogInvariance == ASSUME LogFigures PROVE Log!Spec => []LogInv
<1>1. Log!Init => LogInv
  BY LogInitInv
<1>2. LogInv /\ [Log!Next]_(Log!vars) => LogInv'
  BY LogNextKeeps
<1> QED
  BY <1>1, <1>2, PTL DEF Log!Spec

\* Whatever runs prune together from whatever lists, a run keeps its row until MAX_RUNS
\* others have started (_prune), and no failed import that the daily check could still see
\* goes unheard (check_imports).
THEOREM LogAlwaysStands == ASSUME LogFigures PROVE Log!Spec => []LogStands
<1>1. ASSUME LogInv PROVE Log!NewestKept
  <2>1. LogTyped
    BY <1>1 DEF LogInv
  <2> QED
    BY LogCounts, <1>1, <2>1, Count DEF LogInv, RowsKept, Log!NewestKept
<1>2. ASSUME LogInv PROVE Log!FailureHeard
  <2>1. LogTyped
    BY <1>2 DEF LogInv
  <2> QED
    BY LogCounts, <1>2, <2>1, Count DEF LogInv, Told, Due, Logged, Log!FailureHeard
<1>3. LogInv => LogStands
  BY <1>1, <1>2 DEF LogStands, Log!LogStands
<1> QED
  BY <1>3, LogInvariance, PTL

-----------------------------------------------------------------------------
(* The desk *)

LEMMA DeskCounts == \A s : Desk!Cardinality(s) = Cardinality(s)
  BY DEF Desk!Cardinality, Cardinality

Targets == [kind : {"owns", "node"}, from : Desk!Ids, to : Desk!Ids]

\* A target whose ids lead nowhere else.
Live(t) == t \in Targets /\ t.from \in m_nodes /\ t.to \in m_nodes /\ (t.kind = "node" => t.from = t.to)

\* A live id leads to itself.
LeadsHome == m_nodes \subseteq Desk!Ids /\ m_away \in [Desk!Ids -> Desk!Ids] /\ \A i \in m_nodes : m_away[i] = i

\* Rows name live ids.
RowsLive ==
  /\ \A e \in m_drawn : e = [from |-> e.from, to |-> e.to, stake |-> e.stake, type |-> e.type, open |-> e.open]
  /\ \A f \in m_flags : Live(f.on) /\ f = [n |-> f.n, by |-> f.by, on |-> f.on, state |-> f.state]
  /\ \A s \in m_sups : Live(s.on) /\ s = [n |-> s.n, on |-> s.on]
  /\ \A p \in m_pins : Live(p.on) /\ p.on.kind = "owns" /\ p = [n |-> p.n, on |-> p.on, stake |-> p.stake, type |-> p.type]
  /\ \A t \in m_hidden : Live(t)
  /\ \A c \in m_fixed : Live(c.on) /\ c.on.kind = "owns" /\ c = [on |-> c.on, stake |-> c.stake, type |-> c.type]

\* What a moderator found is still there: nobody else is at that target.
Found(j) ==
  \/ j.do = "hide" /\ (j.row = {} \/ Desk!On(m_sups, j.on) # {})
  \/ j.do = "pin" /\ j.row = {} /\ Desk!On(m_pins, j.on) = {}
  \/ j.do = "pin" /\ \E p \in m_pins : p.on = j.on /\ j.row = {p}

Job(j) ==
  /\ j.at \in {"look", "write", "settle"} /\ j.do \in {"hide", "pin"} /\ Live(j.on) /\ (j.do = "pin" => j.on.kind = "owns")
  /\ j = [at |-> j.at, on |-> j.on, do |-> j.do, stake |-> j.stake, type |-> j.type, row |-> j.row]
  /\ j.at = "write" => Found(j)

JobsStand ==
  /\ m_desk = [m \in DeskModerator |-> m_desk[m]]
  /\ \A m \in DeskModerator : m_desk[m] = Desk!Idle \/ Job(m_desk[m])
  /\ \A m, o \in DeskModerator : m # o /\ m_desk[m] # Desk!Idle /\ m_desk[o] # Desk!Idle => m_desk[m].on # m_desk[o].on

\* What is hidden has a row.
HiddenRow == \A t \in m_hidden : \E s \in m_sups : s.on = t

\* A pair has one pin, and it says what stands, unless folding left it with two.
OnePin ==
  /\ IsFiniteSet(m_pins)
  /\ \A p, q \in m_pins : p.n = q.n => p = q
  /\ \A p, q \in m_pins : p.on = q.on /\ p.on \notin m_muddled => p = q
  /\ \A c \in m_fixed : c.on \notin m_muddled /\ \E p \in m_pins : p.on = c.on /\ p.stake = c.stake /\ p.type = c.type
  /\ \A p \in m_pins : p.on \notin m_muddled => \E c \in m_fixed : c.on = p.on

DeskInv == LeadsHome /\ RowsLive /\ JobsStand /\ HiddenRow /\ OnePin

-----------------------------------------------------------------------------
LEMMA MeantLive ==
  ASSUME LeadsHome, NEW t, Live(t)
  PROVE  Desk!Meant(t) = t
<1>1. t \in Targets /\ m_away[t.from] = t.from /\ m_away[t.to] = t.to
  BY DEF LeadsHome, Live
<1> QED
  BY <1>1 DEF Desk!Meant, Targets

\* A free number is found.
LEMMA FreshNew ==
  ASSUME NEW rows, IsFiniteSet(rows)
  PROVE  \A r \in rows : r.n # Desk!Fresh(rows)
<1> DEFINE k == Cardinality(rows)
           ns == {r.n : r \in rows}
           f  == [r \in rows |-> r.n]
<1>1. k \in Nat
  BY FS_CardinalityType
<1>2. f \in Surjection(rows, ns)
  BY DEF Surjection
<1> HIDE DEF f
<1>3. IsFiniteSet(ns) /\ Cardinality(ns) <= k
  BY <1>2, FS_Surjection
<1>4. IsFiniteSet(1 .. k + 1) /\ Cardinality(1 .. k + 1) = k + 1
  BY <1>1, FS_Interval, k + 1 \in Int, 1 \in Int
<1>5. Cardinality(ns) \in Nat
  BY <1>3, FS_CardinalityType
<1>6. \E n \in 1 .. k + 1 : n \notin ns
  <2>1. SUFFICES ASSUME 1 .. k + 1 \in SUBSET ns PROVE FALSE
    OBVIOUS
  <2>2. Cardinality(1 .. k + 1) <= Cardinality(ns)
    BY <1>3, <2>1, FS_Subset
  <2> QED
    BY <1>1, <1>3, <1>4, <1>5, <2>2
<1>7. \E n \in 1 .. Cardinality(rows) + 1 : \A r \in rows : r.n # n
  BY <1>6
<1> QED
  BY DeskCounts, <1>7 DEF Desk!Fresh

-----------------------------------------------------------------------------
(* What the rows mean for the pages *)

LEMMA HiddenShown ==
  ASSUME RowsLive, HiddenRow
  PROVE  Desk!HiddenStaysHidden
<1> SUFFICES ASSUME NEW t \in m_hidden
             PROVE  IF t.kind = "owns" THEN Desk!Shown(t.from, t.to) = {}
                    ELSE \A a \in m_nodes :
                      Desk!Profile(a, t.from, a) \cup Desk!Profile(a, a, t.from) \cup Desk!Profile(t.from, t.from, a) \cup Desk!Profile(t.from, a, t.from)
                        \cup Desk!Owners(t.from, a) \cup Desk!Tree(a, t.from) \cup Desk!Holdings(t.from, a) \cup Desk!Holdings(a, t.from) = {}
  BY DEF Desk!HiddenStaysHidden
<1>1. Live(t)
  BY DEF RowsLive
<1>2. t = [kind |-> t.kind, from |-> t.from, to |-> t.to] /\ t.kind \in {"owns", "node"} /\ (t.kind = "node" => t.from = t.to)
  BY <1>1 DEF Live, Targets
<1>3. Desk!On(m_sups, t) # {}
  BY DEF HiddenRow, Desk!On
<1>4. Desk!Largest({}) = {}
  BY DEF Desk!Largest
<1>5. CASE t.kind = "owns"
  <2>1. Desk!Suppressed(t.from, t.to)
    BY <1>2, <1>3, <1>5 DEF Desk!Suppressed, Desk!Target
  <2>2. \A es, page : Desk!Listed(es, page, t.from, t.to) = {}
    BY DeskCounts, <2>1 DEF Desk!Listed
  <2>3. \A page : Desk!Profile(page, t.from, t.to) = {}
    BY <2>2, <1>4 DEF Desk!Profile
  <2>4. Desk!Owners(t.from, t.to) = {} /\ Desk!Tree(t.from, t.to) = {} /\ Desk!Holdings(t.from, t.to) = {}
    BY <2>1 DEF Desk!Owners, Desk!Tree, Desk!Holdings
  <2> QED
    BY <1>5, <2>3, <2>4 DEF Desk!Shown
<1>6. CASE t.kind = "node"
  <2>1. Desk!Gone(t.from)
    BY <1>2, <1>3, <1>6 DEF Desk!Gone, Desk!OfNode, Desk!Target
  <2> SUFFICES ASSUME NEW a \in m_nodes
               PROVE  /\ Desk!Profile(a, t.from, a) = {} /\ Desk!Profile(a, a, t.from) = {}
                      /\ Desk!Profile(t.from, t.from, a) = {} /\ Desk!Profile(t.from, a, t.from) = {}
                      /\ Desk!Owners(t.from, a) = {} /\ Desk!Tree(a, t.from) = {}
                      /\ Desk!Holdings(t.from, a) = {} /\ Desk!Holdings(a, t.from) = {}
    BY <1>6
  <2>2. \A es : /\ Desk!Listed(es, a, t.from, a) = {} /\ Desk!Listed(es, a, a, t.from) = {}
                /\ Desk!Listed(es, t.from, t.from, a) = {} /\ Desk!Listed(es, t.from, a, t.from) = {}
    BY DeskCounts, <2>1 DEF Desk!Listed
  <2>3. Desk!Owners(t.from, a) = {} /\ Desk!Tree(a, t.from) = {} /\ Desk!Holdings(t.from, a) = {} /\ Desk!Holdings(a, t.from) = {}
    BY <2>1 DEF Desk!Owners, Desk!Tree, Desk!Holdings
  <2> QED
    BY <2>2, <2>3, <1>4 DEF Desk!Profile
<1> QED
  BY <1>2, <1>5, <1>6

LEMMA CorrectedShown ==
  ASSUME RowsLive, OnePin
  PROVE  Desk!CorrectionStands
<1> SUFFICES ASSUME NEW c \in m_fixed, NEW e \in Desk!Shown(c.on.from, c.on.to)
             PROVE  (c.stake # Desk!Unset => e.stake = c.stake) /\ (c.type # Desk!AsIs => e.type = c.type)
  BY DEF Desk!CorrectionStands
<1> DEFINE a == c.on.from
           b == c.on.to
           rows == Desk!On(m_pins, Desk!Target("owns", a, b))
<1>1. c.on = Desk!Target("owns", a, b)
  <2>1. c.on \in Targets /\ c.on.kind = "owns"
    BY DEF RowsLive, Live
  <2> QED
    BY <2>1 DEF Targets, Desk!Target
<1>2. c.on \notin m_muddled /\ \E p \in m_pins : p.on = c.on /\ p.stake = c.stake /\ p.type = c.type
  BY DEF OnePin
<1>3. rows # {} /\ \A r \in rows : r.stake = c.stake /\ r.type = c.type
  BY <1>1, <1>2 DEF OnePin, Desk!On
<1>4. \E x \in m_drawn : x.from = a /\ x.to = b /\ e \in Desk!Overlaid(x)
  <2>1. \A page : Desk!Profile(page, a, b) \subseteq UNION {Desk!Overlaid(y) : y \in {x \in m_drawn : x.from = a /\ x.to = b}}
    <3> TAKE page
    <3>1. Desk!Profile(page, a, b) \subseteq Desk!Listed({x \in m_drawn : x.open}, page, a, b)
      BY DEF Desk!Profile, Desk!Largest
    <3>2. Desk!Listed({x \in m_drawn : x.open}, page, a, b) \subseteq UNION {Desk!Overlaid(y) : y \in {x \in {z \in m_drawn : z.open} : x.from = a /\ x.to = b}}
      BY DeskCounts DEF Desk!Listed
    <3> QED
      BY <3>1, <3>2
  <2>2. Desk!Owners(a, b) \subseteq UNION {Desk!Overlaid(y) : y \in {x \in m_drawn : x.from = a /\ x.to = b}}
    BY DEF Desk!Owners
  <2>3. Desk!Tree(a, b) \subseteq UNION {Desk!Overlaid(y) : y \in {x \in m_drawn : x.from = a /\ x.to = b}}
    BY DEF Desk!Tree
  <2>4. Desk!Holdings(a, b) \subseteq UNION {Desk!Overlaid(y) : y \in {x \in m_drawn : x.from = a /\ x.to = b}}
    BY DEF Desk!Holdings, Desk!Largest
  <2>5. e \in UNION {Desk!Overlaid(y) : y \in {x \in m_drawn : x.from = a /\ x.to = b}}
    BY <2>1, <2>2, <2>3, <2>4 DEF Desk!Shown
  <2> QED
    BY <2>5
<1>5. PICK x \in m_drawn : x.from = a /\ x.to = b /\ e \in Desk!Overlaid(x)
  BY <1>4
<1>6. \E r \in rows : e = [x EXCEPT !.stake = IF r.stake = Desk!Unset THEN @ ELSE r.stake,
                                    !.type = IF r.type = Desk!AsIs THEN @ ELSE r.type]
  BY <1>3, <1>5 DEF Desk!Overlaid
<1>7. x = [from |-> x.from, to |-> x.to, stake |-> x.stake, type |-> x.type, open |-> x.open]
  BY DEF RowsLive
<1> HIDE DEF rows
<1>8. PICK r \in rows : e = [x EXCEPT !.stake = IF r.stake = Desk!Unset THEN @ ELSE r.stake,
                                    !.type = IF r.type = Desk!AsIs THEN @ ELSE r.type]
  BY <1>6
<1>9. e.stake = (IF r.stake = Desk!Unset THEN x.stake ELSE r.stake) /\ e.type = (IF r.type = Desk!AsIs THEN x.type ELSE r.type)
  BY <1>7, <1>8
<1> QED
  BY <1>3, <1>9

-----------------------------------------------------------------------------
(* The steps *)

LEMMA DeskInitInv == Desk!Init => DeskInv
<1> SUFFICES ASSUME Desk!Init PROVE DeskInv
  OBVIOUS
<1>1. LeadsHome
  BY DEF Desk!Init, LeadsHome
<1>2. RowsLive
  BY DEF Desk!Init, RowsLive
<1>3. JobsStand
  BY DEF Desk!Init, JobsStand
<1>4. HiddenRow
  BY DEF Desk!Init, HiddenRow
<1>5. OnePin
  BY FS_EmptySet DEF Desk!Init, OnePin
<1> QED
  BY <1>1, <1>2, <1>3, <1>4, <1>5 DEF DeskInv

LEMMA DeskStutters == DeskInv /\ UNCHANGED Desk!vars => DeskInv'
<1> SUFFICES ASSUME DeskInv, UNCHANGED Desk!vars PROVE DeskInv'
  OBVIOUS
<1>1. LeadsHome' /\ RowsLive'
  BY DEF DeskInv, Desk!vars, LeadsHome, RowsLive, Live, Targets, Desk!Ids
<1>2. JobsStand'
  BY DEF DeskInv, Desk!vars, JobsStand, Job, Found, Desk!On, Live, Targets, Desk!Ids
<1>3. HiddenRow' /\ OnePin'
  BY DEF DeskInv, Desk!vars, HiddenRow, OnePin
<1> QED
  BY <1>1, <1>2, <1>3 DEF DeskInv

\* Sources write edges alone.
LEMMA SourcesStep ==
  ASSUME DeskInv, \/ \E p \in Desk!Pairs, stake \in DeskStakes, beside \in BOOLEAN : Desk!Draw(p, stake, beside)
              \/ \E e \in m_drawn : Desk!End(e)
  PROVE  DeskInv'
<1>1. UNCHANGED <<m_nodes, m_away, m_flags, m_sups, m_pins, m_desk, m_hidden, m_fixed, m_muddled>>
  BY DEF Desk!Draw, Desk!End, Desk!Ghosts
<1>2. \A e \in m_drawn' : e = [from |-> e.from, to |-> e.to, stake |-> e.stake, type |-> e.type, open |-> e.open]
  <2>1. ASSUME NEW p \in Desk!Pairs, NEW stake \in DeskStakes, NEW beside \in BOOLEAN, Desk!Draw(p, stake, beside), NEW e \in m_drawn'
        PROVE  e \in m_drawn \/ e = Desk!Edge(p[1], p[2], stake, "source")
    BY <2>1 DEF Desk!Draw
  <2>2. ASSUME NEW o \in m_drawn, Desk!End(o), NEW e \in m_drawn'
        PROVE  e \in m_drawn \/ e = [o EXCEPT !.open = FALSE]
    BY <2>2 DEF Desk!End
  <2> QED
    BY <2>1, <2>2 DEF DeskInv, RowsLive, Desk!Edge
<1>3. LeadsHome' /\ RowsLive'
  BY <1>1, <1>2 DEF DeskInv, LeadsHome, RowsLive, Live, Targets, Desk!Ids
<1>4. JobsStand'
  BY <1>1 DEF DeskInv, JobsStand, Job, Found, Desk!On, Live, Targets, Desk!Ids
<1>5. HiddenRow' /\ OnePin'
  BY <1>1 DEF DeskInv, HiddenRow, OnePin
<1> QED
  BY <1>3, <1>4, <1>5 DEF DeskInv

\* Reports are flags alone, of nodes that are there.
LEMMA ReportsStep ==
  ASSUME DeskInv,
         \/ \E by \in {"reader", "user"} :
              \/ \E a, b \in Desk!Ids : <<DeskCompany[a], DeskCompany[b]>> \in DeskHolding /\ Desk!Report(by, Desk!Target("owns", a, b))
              \/ \E a \in Desk!Ids : Desk!Report(by, Desk!OfNode(a))
         \/ \E f \in m_flags : \E state \in {"reviewing", "rejected", "open", "deleted"} : Desk!Triage(f, state)
  PROVE  DeskInv'
<1>1. UNCHANGED <<m_nodes, m_away, m_drawn, m_sups, m_pins, m_desk, m_hidden, m_fixed, m_muddled>>
  BY DEF Desk!Report, Desk!Triage, Desk!Ghosts
<1>2. \A f \in m_flags' : Live(f.on) /\ f = [n |-> f.n, by |-> f.by, on |-> f.on, state |-> f.state]
  <2>1. ASSUME NEW by, NEW a \in Desk!Ids, NEW b \in Desk!Ids, NEW t, t = Desk!Target("owns", a, b) \/ (t = Desk!OfNode(a) /\ a = b), Desk!Report(by, t)
        PROVE  \A f \in m_flags' : f \in m_flags \/ (f = [n |-> Desk!Fresh(m_flags), by |-> by, on |-> t, state |-> "open"] /\ Live(t))
    <3>1. Live(t)
      BY <2>1 DEF Desk!Report, Live, Targets, Desk!Target, Desk!OfNode
    <3> QED
      BY <2>1, <3>1 DEF Desk!Report
  <2>2. ASSUME NEW f \in m_flags, NEW state \in {"reviewing", "rejected", "open", "deleted"}, Desk!Triage(f, state), NEW o \in m_flags'
        PROVE  o \in m_flags \/ o = [f EXCEPT !.state = state]
    BY <2>2 DEF Desk!Triage
  <2>3. \A f \in m_flags : Live(f.on) /\ f = [n |-> f.n, by |-> f.by, on |-> f.on, state |-> f.state]
    BY DEF DeskInv, RowsLive
  <2> HIDE DEF Desk!Target, Desk!OfNode, Live, Desk!Fresh
  <2>4. CASE \E f \in m_flags : \E state \in {"reviewing", "rejected", "open", "deleted"} : Desk!Triage(f, state)
    BY <2>2, <2>3, <2>4
  <2>5. CASE \E by \in {"reader", "user"} : \E a, b \in Desk!Ids : Desk!Report(by, Desk!Target("owns", a, b))
    <3>1. PICK by \in {"reader", "user"} : \E a, b \in Desk!Ids : Desk!Report(by, Desk!Target("owns", a, b))
      BY <2>5
    <3>2. PICK a \in Desk!Ids : \E b \in Desk!Ids : Desk!Report(by, Desk!Target("owns", a, b))
      BY <3>1
    <3>3. PICK b \in Desk!Ids : Desk!Report(by, Desk!Target("owns", a, b))
      BY <3>2
    <3>4. \A f \in m_flags' :
            f \in m_flags \/ (f = [n |-> Desk!Fresh(m_flags), by |-> by, on |-> Desk!Target("owns", a, b), state |-> "open"] /\ Live(Desk!Target("owns", a, b)))
      BY <2>1, <3>3
    <3> QED
      BY <2>3, <3>4
  <2>6. CASE \E by \in {"reader", "user"} : \E a \in Desk!Ids : Desk!Report(by, Desk!OfNode(a))
    BY <2>1, <2>3, <2>6
  <2> QED
    BY <2>4, <2>5, <2>6
<1>3. LeadsHome'
  BY <1>1 DEF DeskInv, LeadsHome, Desk!Ids
<1>4. RowsLive'
  <2>1. \A t : Live(t) => Live(t)'
    BY <1>1 DEF Live, Targets, Desk!Ids
  <2> QED
    BY <1>1, <1>2, <2>1 DEF DeskInv, RowsLive
<1>5. JobsStand'
  BY <1>1 DEF DeskInv, JobsStand, Job, Found, Desk!On, Live, Targets, Desk!Ids
<1>6. HiddenRow' /\ OnePin'
  BY <1>1 DEF DeskInv, HiddenRow, OnePin
<1> QED
  BY <1>3, <1>4, <1>5, <1>6 DEF DeskInv

-----------------------------------------------------------------------------
(* A moderator's statements *)

\* The steps that change one moderator's place alone.
LEMMA PlaceStep ==
  ASSUME DeskInv, NEW m \in DeskModerator, NEW j, Desk!Doing(m, j),
         j = Desk!Idle \/ Job(j),
         j # Desk!Idle => \A o \in DeskModerator : o # m /\ m_desk[o] # Desk!Idle => m_desk[o].on # j.on,
         UNCHANGED <<m_nodes, m_away, m_drawn, m_sups, m_pins, m_hidden, m_fixed, m_muddled>>,
         \A f \in m_flags' : Live(f.on) /\ f = [n |-> f.n, by |-> f.by, on |-> f.on, state |-> f.state]
  PROVE  DeskInv'
<1>1. LeadsHome'
  BY DEF DeskInv, LeadsHome, Desk!Ids
<1>2. \A t : Live(t) => Live(t)'
  BY DEF Live, Targets, Desk!Ids
<1>3. RowsLive'
  BY <1>2 DEF DeskInv, RowsLive
<1>4. JobsStand'
  <2>1. m_desk' = [o \in DeskModerator |-> IF o = m THEN j ELSE m_desk[o]]
    BY DEF DeskInv, JobsStand, Desk!Doing
  <2>2. \A k : Found(k) => Found(k)'
    BY DEF Found, Desk!On
  <2>3. \A k : Job(k) => Job(k)'
    BY <1>2, <2>2 DEF Job
  <2> QED
    BY <2>1, <2>3 DEF DeskInv, JobsStand
<1>5. HiddenRow' /\ OnePin'
  BY DEF DeskInv, HiddenRow, OnePin
<1> QED
  BY <1>1, <1>3, <1>4, <1>5 DEF DeskInv

LEMMA Advanced ==
  ASSUME NEW d, Job(d), NEW found
  PROVE  [d EXCEPT !.at = "write", !.row = found]
           = [at |-> "write", on |-> d.on, do |-> d.do, stake |-> d.stake, type |-> d.type, row |-> found]
<1> DEFINE u == [d EXCEPT !.at = "write"]
<1>1. u = [at |-> "write", on |-> d.on, do |-> d.do, stake |-> d.stake, type |-> d.type, row |-> d.row]
  BY DEF Job
<1> HIDE DEF u
<1>2. [u EXCEPT !.row = found] = [at |-> "write", on |-> d.on, do |-> d.do, stake |-> d.stake, type |-> d.type, row |-> found]
  BY <1>1
<1> QED
  BY <1>2 DEF u

LEMMA TakeUpStep ==
  ASSUME DeskInv, NEW m \in DeskModerator, NEW f \in m_flags, NEW what \in Desk!Decisions, Desk!TakeUp(m, f, what)
  PROVE  DeskInv'
<1> DEFINE j == [at |-> "look", on |-> f.on, do |-> what.do, stake |-> what.stake, type |-> what.type, row |-> {}]
<1>1. Desk!Doing(m, j) /\ UNCHANGED <<m_nodes, m_away, m_drawn, m_flags, m_sups, m_pins, m_hidden, m_fixed, m_muddled>>
  BY DEF Desk!TakeUp, Desk!Ghosts
<1>2. what.do \in {"hide", "pin"} /\ (what.do = "pin" => f.on.kind = "owns")
  BY DEF Desk!TakeUp, Desk!Decisions
<1>3. j = Desk!Idle \/ Job(j)
  BY <1>2 DEF DeskInv, RowsLive, Job
<1>4. \A o \in DeskModerator : o # m /\ m_desk[o] # Desk!Idle => m_desk[o].on # j.on
  BY DEF Desk!TakeUp, Desk!Alone
<1>5. \A g \in m_flags' : Live(g.on) /\ g = [n |-> g.n, by |-> g.by, on |-> g.on, state |-> g.state]
  BY <1>1 DEF DeskInv, RowsLive
<1> HIDE DEF j
<1> QED
  BY <1>1, <1>3, <1>4, <1>5, PlaceStep

LEMMA LookUpStep ==
  ASSUME DeskInv, NEW m \in DeskModerator, Desk!LookUp(m)
  PROVE  DeskInv'
<1>1. Job(m_desk[m]) /\ m_desk[m] # Desk!Idle /\ m_desk[m].at = "look"
  BY DEF Desk!LookUp, DeskInv, JobsStand, Desk!Idle
<1> DEFINE rows == Desk!On(IF m_desk[m].do = "pin" THEN m_pins ELSE m_sups, m_desk[m].on)
<1>2. PICK found \in IF rows = {} THEN {{}} ELSE {{r} : r \in rows} : Desk!Doing(m, [m_desk[m] EXCEPT !.at = "write", !.row = found])
  BY DEF Desk!LookUp
<1> DEFINE j == [m_desk[m] EXCEPT !.at = "write", !.row = found]
<1>3. /\ j = [at |-> "write", on |-> m_desk[m].on, do |-> m_desk[m].do, stake |-> m_desk[m].stake, type |-> m_desk[m].type, row |-> found]
      /\ j.at = "write" /\ j.on = m_desk[m].on /\ j.do = m_desk[m].do /\ j.row = found
      /\ j.stake = m_desk[m].stake /\ j.type = m_desk[m].type
  <2>1. j = [at |-> "write", on |-> m_desk[m].on, do |-> m_desk[m].do, stake |-> m_desk[m].stake, type |-> m_desk[m].type, row |-> found]
    BY <1>1, Advanced
  <2> QED
    BY ONLY <2>1
<1> HIDE DEF j
<1>4. Found(j)
  <2>1. CASE m_desk[m].do = "pin"
    BY <1>2, <1>3, <2>1 DEF Found, Desk!On
  <2>2. CASE m_desk[m].do = "hide"
    BY <1>2, <1>3, <2>2 DEF Found
  <2> QED
    BY <1>1, <2>1, <2>2 DEF Job
<1>5. Job(j)
  BY <1>1, <1>3, <1>4 DEF Job
<1>6. Desk!Doing(m, j) /\ UNCHANGED <<m_nodes, m_away, m_drawn, m_flags, m_sups, m_pins, m_hidden, m_fixed, m_muddled>>
  BY <1>2 DEF Desk!LookUp, Desk!Ghosts, j
<1>7. \A o \in DeskModerator : o # m /\ m_desk[o] # Desk!Idle => m_desk[o].on # j.on
  BY <1>1, <1>3 DEF DeskInv, JobsStand
<1>8. \A g \in m_flags' : Live(g.on) /\ g = [n |-> g.n, by |-> g.by, on |-> g.on, state |-> g.state]
  BY <1>6 DEF DeskInv, RowsLive
<1> QED
  BY <1>5, <1>6, <1>7, <1>8, PlaceStep

\* The reports are settled, or the moderator's process dies.
LEMMA LeaveStep ==
  ASSUME DeskInv, NEW m \in DeskModerator, Desk!Settle(m) \/ Desk!GiveUp(m)
  PROVE  DeskInv'
<1>1. Desk!Doing(m, Desk!Idle) /\ UNCHANGED <<m_nodes, m_away, m_drawn, m_sups, m_pins, m_hidden, m_fixed, m_muddled>>
  BY DEF Desk!Settle, Desk!GiveUp, Desk!Ghosts
<1>2. \A g \in m_flags' : Live(g.on) /\ g = [n |-> g.n, by |-> g.by, on |-> g.on, state |-> g.state]
  <2>1. \A f \in m_flags : Live(f.on) /\ f = [n |-> f.n, by |-> f.by, on |-> f.on, state |-> f.state]
    BY DEF DeskInv, RowsLive
  <2>2. CASE Desk!Settle(m)
    <3>1. \A g \in m_flags' : \E f \in m_flags : g = f \/ g = [f EXCEPT !.state = "resolved"]
      BY <2>2 DEF Desk!Settle
    <3> QED
      BY <2>1, <3>1
  <2>3. CASE Desk!GiveUp(m)
    BY <2>1, <2>3 DEF Desk!GiveUp
  <2> QED
    BY <2>2, <2>3
<1> QED
  BY <1>1, <1>2, PlaceStep

LEMMA SettledNext ==
  ASSUME NEW d, Job(d)
  PROVE  LET j == [d EXCEPT !.at = "settle"] IN Job(j) /\ j.on = d.on
<1>1. [d EXCEPT !.at = "settle"] = [at |-> "settle", on |-> d.on, do |-> d.do, stake |-> d.stake, type |-> d.type, row |-> d.row]
  BY DEF Job
<1> QED
  BY <1>1 DEF Job

LEMMA SuppressStep ==
  ASSUME DeskInv, NEW m \in DeskModerator, Desk!Suppress(m)
  PROVE  DeskInv'
<1> DEFINE t == m_desk[m].on
<1>1. Job(m_desk[m]) /\ m_desk[m] # Desk!Idle /\ m_desk[m].at = "write" /\ m_desk[m].do = "hide"
  BY DEF Desk!Suppress, DeskInv, JobsStand, Desk!Idle
<1>2. Live(t) /\ Desk!Meant(t) = t
  BY <1>1, MeantLive DEF Job, DeskInv
<1>3. /\ m_sups' = (IF m_desk[m].row = {} THEN m_sups \cup {[n |-> Desk!Fresh(m_sups), on |-> t]} ELSE m_sups)
      /\ m_drawn' \subseteq m_drawn /\ m_hidden' = m_hidden \cup {t}
      /\ Desk!Doing(m, [m_desk[m] EXCEPT !.at = "settle"])
      /\ UNCHANGED <<m_nodes, m_away, m_flags, m_pins, m_fixed, m_muddled>>
  BY <1>2 DEF Desk!Suppress
<1> DEFINE j == [m_desk[m] EXCEPT !.at = "settle"]
<1>4. Job(j) /\ j.on = t
  BY <1>1, SettledNext
<1> HIDE DEF j, t
<1>5. \A k : Live(k) => Live(k)'
  BY <1>3 DEF Live, Targets, Desk!Ids
<1>6. LeadsHome'
  BY <1>3 DEF DeskInv, LeadsHome, Desk!Ids
<1>7. RowsLive'
  <2>1. \A s \in m_sups' : s \in m_sups \/ s = [n |-> Desk!Fresh(m_sups), on |-> t]
    BY <1>3
  <2>2. \A s \in m_sups' : Live(s.on) /\ s = [n |-> s.n, on |-> s.on]
    BY <1>2, <2>1 DEF DeskInv, RowsLive
  <2> QED
    BY <1>2, <1>3, <1>5, <2>2 DEF DeskInv, RowsLive
<1>8. JobsStand'
  <2>1. m_desk' = [o \in DeskModerator |-> IF o = m THEN j ELSE m_desk[o]]
    BY <1>3 DEF DeskInv, JobsStand, Desk!Doing, j
  <2>2. m_sups \subseteq m_sups' /\ m_pins' = m_pins
    BY <1>3
  <2>3. \A k : Found(k) => Found(k)'
    BY <2>2 DEF Found, Desk!On
  <2>4. \A k : Job(k) => Job(k)'
    BY <1>5, <2>3 DEF Job
  <2> QED
    BY <1>1, <1>4, <2>1, <2>4 DEF DeskInv, JobsStand, t
<1>9. HiddenRow'
  <2>1. \E s \in m_sups' : s.on = t
    <3>1. CASE m_desk[m].row = {}
      <4> DEFINE s == [n |-> Desk!Fresh(m_sups), on |-> t]
      <4>1. s \in m_sups' /\ s.on = t
        BY <1>3, <3>1
      <4> QED
        BY <4>1
    <3>2. CASE m_desk[m].row # {}
      BY <1>1, <1>3, <3>2 DEF Job, Found, Desk!On, t
    <3> QED
      BY <3>1, <3>2
  <2> QED
    BY <1>3, <2>1 DEF DeskInv, HiddenRow
<1>10. OnePin'
  BY <1>3 DEF DeskInv, OnePin
<1> QED
  BY <1>6, <1>7, <1>8, <1>9, <1>10 DEF DeskInv

LEMMA ShowStep ==
  ASSUME DeskInv, NEW s \in m_sups, Desk!Show(s)
  PROVE  DeskInv'
<1>1. Live(s.on) /\ Desk!Meant(s.on) = s.on
  BY MeantLive DEF DeskInv, RowsLive
<1>2. /\ m_sups' = m_sups \ {s} /\ m_hidden' = m_hidden \ {s.on}
      /\ UNCHANGED <<m_nodes, m_away, m_drawn, m_flags, m_pins, m_desk, m_fixed, m_muddled>>
  BY <1>1 DEF Desk!Show
<1>3. \A m \in DeskModerator : m_desk[m] # Desk!Idle => m_desk[m].on # s.on
  BY DEF Desk!Show, Desk!Alone
<1>4. \A k : Live(k) => Live(k)'
  BY <1>2 DEF Live, Targets, Desk!Ids
<1>5. LeadsHome' /\ RowsLive'
  BY <1>2, <1>4 DEF DeskInv, LeadsHome, RowsLive, Desk!Ids
<1>6. JobsStand'
  <2>1. \A k : k.on # s.on /\ Found(k) => Found(k)'
    BY <1>2 DEF Found, Desk!On
  <2>2. \A k : k.on # s.on /\ Job(k) => Job(k)'
    BY <1>4, <2>1 DEF Job
  <2> QED
    BY <1>2, <1>3, <2>2 DEF DeskInv, JobsStand
<1>7. HiddenRow' /\ OnePin'
  BY <1>2 DEF DeskInv, HiddenRow, OnePin
<1> QED
  BY <1>5, <1>6, <1>7 DEF DeskInv

LEMMA UnpinStep ==
  ASSUME DeskInv, NEW p \in m_pins, Desk!Unpin(p)
  PROVE  DeskInv'
<1>1. Live(p.on) /\ Desk!Meant(p.on) = p.on
  BY MeantLive DEF DeskInv, RowsLive
<1>2. /\ m_pins' = m_pins \ {p} /\ m_fixed' = {c \in m_fixed : c.on # p.on}
      /\ m_muddled' = (IF Desk!On(m_pins', p.on) = {} THEN m_muddled \ {p.on} ELSE m_muddled)
      /\ UNCHANGED <<m_nodes, m_away, m_drawn, m_flags, m_sups, m_desk, m_hidden>>
  BY <1>1 DEF Desk!Unpin
<1>3. \A m \in DeskModerator : m_desk[m] # Desk!Idle => m_desk[m].on # p.on
  BY DEF Desk!Unpin, Desk!Alone
<1>4. \A k : Live(k) => Live(k)'
  BY <1>2 DEF Live, Targets, Desk!Ids
<1>5. LeadsHome' /\ RowsLive' /\ HiddenRow'
  BY <1>2, <1>4 DEF DeskInv, LeadsHome, RowsLive, HiddenRow, Desk!Ids
<1>6. JobsStand'
  <2>1. \A k : k.on # p.on /\ Found(k) => Found(k)'
    BY <1>2 DEF Found, Desk!On
  <2>2. \A k : k.on # p.on /\ Job(k) => Job(k)'
    BY <1>4, <2>1 DEF Job
  <2> QED
    BY <1>2, <1>3, <2>2 DEF DeskInv, JobsStand
<1>7. OnePin'
  <2>1. IsFiniteSet(m_pins')
    BY <1>2, FS_RemoveElement DEF DeskInv, OnePin
  <2>2. \A t : t # p.on => (t \in m_muddled' <=> t \in m_muddled)
    BY <1>2
  <2>3. p.on \notin m_muddled' => \A q \in m_pins' : q.on # p.on
    <3>1. CASE p.on \in m_muddled
      BY <1>2, <3>1 DEF Desk!On
    <3>2. CASE p.on \notin m_muddled
      BY <1>2, <3>2 DEF DeskInv, OnePin
    <3> QED
      BY <3>1, <3>2
  <2>4. \A q, o \in m_pins' : (q.n = o.n => q = o) /\ (q.on = o.on /\ q.on \notin m_muddled' => q = o)
    BY <1>2, <2>2, <2>3 DEF DeskInv, OnePin
  <2>5. \A c \in m_fixed' : c.on \notin m_muddled' /\ \E q \in m_pins' : q.on = c.on /\ q.stake = c.stake /\ q.type = c.type
    BY <1>2, <2>2 DEF DeskInv, OnePin
  <2>6. \A q \in m_pins' : q.on \notin m_muddled' => \E c \in m_fixed' : c.on = q.on
    BY <1>2, <2>2, <2>3 DEF DeskInv, OnePin
  <2> QED
    BY <2>1, <2>4, <2>5, <2>6 DEF OnePin
<1> QED
  BY <1>5, <1>6, <1>7 DEF DeskInv

\* What is said of a pair in the end is what its one pin says.
LEMMA PinStep ==
  ASSUME DeskInv, NEW m \in DeskModerator, Desk!Pin(m)
  PROVE  DeskInv'
<1> DEFINE t == m_desk[m].on
           found == m_desk[m].row
           as(n, old) == [n |-> n, on |-> t, stake |-> Desk!Kept(old, m).stake, type |-> Desk!Kept(old, m).type]
           any == CHOOSE o \in found : TRUE
           new == [on |-> t, stake |-> Desk!Said(m).stake, type |-> Desk!Said(m).type]
           j == [m_desk[m] EXCEPT !.at = "settle"]
<1>1. Job(m_desk[m]) /\ m_desk[m] # Desk!Idle /\ m_desk[m].at = "write" /\ m_desk[m].do = "pin"
  BY DEF Desk!Pin, DeskInv, JobsStand, Desk!Idle
<1>2. Live(t) /\ Desk!Meant(t) = t /\ t.kind = "owns"
  BY <1>1, MeantLive DEF Job, DeskInv
<1>3. /\ m_pins' = (IF found = {} THEN m_pins \cup {as(Desk!Fresh(m_pins), Desk!NothingYet)}
                  ELSE {IF \E o \in found : o.n = r.n THEN as(r.n, any) ELSE r : r \in m_pins})
      /\ m_fixed' = (IF t \in m_muddled THEN m_fixed ELSE {c \in m_fixed : c.on # t} \cup {new})
      /\ Desk!Doing(m, j)
      /\ UNCHANGED <<m_nodes, m_away, m_drawn, m_flags, m_sups, m_hidden, m_muddled>>
  BY <1>2 DEF Desk!Pin
<1>4. Job(j) /\ j.on = t
  BY <1>1, SettledNext
<1>5. \A k : Live(k) => Live(k)'
  BY <1>3 DEF Live, Targets, Desk!Ids
\* The pin there was, if there was one, and the one there is.
<1>6. PICK old, n :
        /\ IF found = {}
           THEN /\ Desk!On(m_pins, t) = {} /\ old = Desk!NothingYet
                /\ m_pins' = m_pins \cup {as(n, old)} /\ \A r \in m_pins : r.n # n
           ELSE \E r \in m_pins :
                  /\ r.on = t /\ found = {r} /\ old = r /\ n = r.n
                  /\ m_pins' = (m_pins \ {r}) \cup {as(n, old)}
  <2>1. CASE found = {}
    <3>1. Desk!On(m_pins, t) = {}
      BY <1>1, <2>1 DEF Job, Found
    <3>2. \A r \in m_pins : r.n # Desk!Fresh(m_pins)
      BY FreshNew DEF DeskInv, OnePin
    <3>3. m_pins' = m_pins \cup {as(Desk!Fresh(m_pins), Desk!NothingYet)}
      BY <1>3, <2>1
    <3> HIDE DEF as, found, t
    <3> QED
      BY <2>1, <3>1, <3>2, <3>3
  <2>2. CASE found # {}
    <3>1. PICK r \in m_pins : r.on = t /\ found = {r}
      BY <1>1, <2>2 DEF Job, Found
    <3>2. any = r
      BY <3>1
    <3> HIDE DEF as, any, found, t
    <3>3. m_pins' = {IF \E o \in found : o.n = q.n THEN as(q.n, any) ELSE q : q \in m_pins}
      BY <1>3, <2>2
    <3>4. \A q \in m_pins : (\E o \in found : o.n = q.n) <=> q = r
      BY <3>1 DEF DeskInv, OnePin
    <3>5. as(r.n, any) = as(r.n, r)
      BY <3>2
    <3>6. \A x : x \in m_pins' <=> x = as(r.n, r) \/ (x \in m_pins /\ x # r)
      BY <3>1, <3>3, <3>4, <3>5
    <3>7. m_pins' = (m_pins \ {r}) \cup {as(r.n, r)}
      BY <3>6
    <3> QED
      BY <2>2, <3>1, <3>7
  <2> QED
    BY <2>1, <2>2
<1> DEFINE w == as(n, old)
<1>7. w = [n |-> n, on |-> t, stake |-> Desk!Kept(old, m).stake, type |-> Desk!Kept(old, m).type]
  OBVIOUS
<1>8. w.n = n /\ w.on = t /\ w.stake = Desk!Kept(old, m).stake /\ w.type = Desk!Kept(old, m).type
      /\ w = [n |-> w.n, on |-> w.on, stake |-> w.stake, type |-> w.type]
  OBVIOUS
<1>9. /\ w \in m_pins' /\ \A q \in m_pins' : q = w \/ (q \in m_pins /\ q.n # n)
      /\ \A q \in m_pins : q.on # t => q \in m_pins'
      /\ t \notin m_muddled => \A q \in m_pins' : q = w \/ q.on # t
  <2> HIDE DEF as, t, found
  <2>1. CASE found = {}
    BY <1>6, <2>1 DEF Desk!On
  <2>2. CASE found # {}
    <3>1. PICK r \in m_pins : r.on = t /\ n = r.n /\ m_pins' = (m_pins \ {r}) \cup {w}
      BY <1>6, <2>2
    <3> QED
      BY <3>1 DEF DeskInv, OnePin
  <2> QED
    BY <2>1, <2>2
<1>10. IsFiniteSet(m_pins')
  <2> HIDE DEF as, t, found
  <2>1. IsFiniteSet(m_pins)
    BY DEF DeskInv, OnePin
  <2>2. CASE found = {}
    BY <1>6, <2>1, <2>2, FS_AddElement
  <2>3. CASE found # {}
    <3>1. PICK r \in m_pins : m_pins' = (m_pins \ {r}) \cup {w}
      BY <1>6, <2>3
    <3>2. IsFiniteSet(m_pins \ {r})
      BY <2>1, FS_RemoveElement
    <3> QED
      BY <3>1, <3>2, FS_AddElement
  <2> QED
    BY <2>2, <2>3
\* What the moderators said of the pair is what its pin said.
<1>11. t \notin m_muddled => new.stake = w.stake /\ new.type = w.type
  <2> SUFFICES ASSUME t \notin m_muddled PROVE Desk!Said(m).stake = Desk!Kept(old, m).stake /\ Desk!Said(m).type = Desk!Kept(old, m).type
    BY <1>8
  <2>1. Desk!SaidOf(t).stake = old.stake /\ Desk!SaidOf(t).type = old.type
    <3>1. CASE found = {}
      <4>1. Desk!On(m_fixed, t) = {}
        BY <1>6, <3>1 DEF Desk!On, DeskInv, OnePin
      <4> QED
        BY <1>2, <1>6, <3>1, <4>1 DEF Desk!SaidOf
    <3>2. CASE found # {}
      <4>1. PICK r \in m_pins : r.on = t /\ old = r
        BY <1>6, <3>2
      <4>2. Desk!On(m_fixed, t) # {} /\ \A c \in m_fixed : c.on = t => c.stake = r.stake /\ c.type = r.type
        BY <4>1 DEF Desk!On, DeskInv, OnePin
      <4>3. Desk!SaidOf(t) = (CHOOSE c \in m_fixed : c.on = t)
        BY <1>2, <4>2 DEF Desk!SaidOf
      <4>4. \E c \in m_fixed : c.on = t
        BY <4>2 DEF Desk!On
      <4> QED
        BY <4>1, <4>2, <4>3, <4>4
    <3> QED
      BY <3>1, <3>2
  <2> QED
    BY <2>1 DEF Desk!Said, Desk!Kept
<1>12. new = [on |-> new.on, stake |-> new.stake, type |-> new.type] /\ new.on = t
  OBVIOUS
<1> HIDE DEF as, t, found, new, w, j
<1>13. LeadsHome' /\ HiddenRow'
  BY <1>3 DEF DeskInv, LeadsHome, HiddenRow, Desk!Ids
<1>14. RowsLive'
  <2>1. \A p \in m_pins' : Live(p.on) /\ p.on.kind = "owns" /\ p = [n |-> p.n, on |-> p.on, stake |-> p.stake, type |-> p.type]
    BY <1>2, <1>8, <1>9 DEF DeskInv, RowsLive
  <2>2. \A c \in m_fixed' : Live(c.on) /\ c.on.kind = "owns" /\ c = [on |-> c.on, stake |-> c.stake, type |-> c.type]
    BY <1>2, <1>3, <1>12 DEF DeskInv, RowsLive
  <2> QED
    BY <1>3, <1>5, <2>1, <2>2 DEF DeskInv, RowsLive
<1>15. JobsStand'
  <2>1. m_desk' = [o \in DeskModerator |-> IF o = m THEN j ELSE m_desk[o]]
    BY <1>3 DEF DeskInv, JobsStand, Desk!Doing
  <2>2. \A o \in DeskModerator : o # m /\ m_desk[o] # Desk!Idle => m_desk[o].on # t
    BY <1>1 DEF DeskInv, JobsStand, t
  <2>3. \A p : p.on # t => (p \in m_pins <=> p \in m_pins')
    BY <1>8, <1>9
  <2>4. \A k : k.on # t /\ Found(k) => Found(k)'
    BY <1>3, <2>3 DEF Found, Desk!On
  <2>5. \A k : k.on # t /\ Job(k) => Job(k)'
    BY <1>5, <2>4 DEF Job
  <2>6. \A k : k = j => Job(k)'
    <3>1. j.at = "settle"
      BY <1>1 DEF j, Job
    <3>2. \A k : k.at # "write" /\ Job(k) => Job(k)'
      BY <1>5 DEF Job
    <3> QED
      BY <1>4, <3>1, <3>2
  <2> QED
    BY <1>4, <2>1, <2>2, <2>5, <2>6 DEF DeskInv, JobsStand
<1>16. OnePin'
  <2>1. \A q, o \in m_pins' : (q.n = o.n => q = o) /\ (q.on = o.on /\ q.on \notin m_muddled' => q = o)
    BY <1>3, <1>8, <1>9 DEF DeskInv, OnePin
  <2>2. \A c \in m_fixed' : c.on \notin m_muddled' /\ \E q \in m_pins' : q.on = c.on /\ q.stake = c.stake /\ q.type = c.type
    <3> SUFFICES ASSUME NEW c \in m_fixed' PROVE c.on \notin m_muddled' /\ \E q \in m_pins' : q.on = c.on /\ q.stake = c.stake /\ q.type = c.type
      OBVIOUS
    <3>1. CASE c = new
      <4>1. t \notin m_muddled
        BY <1>3, <1>12, <3>1 DEF DeskInv, OnePin
      <4>2. w \in m_pins' /\ w.on = t /\ w.stake = c.stake /\ w.type = c.type
        BY <1>8, <1>9, <1>11, <3>1, <4>1
      <4> QED
        BY <1>3, <1>12, <3>1, <4>1, <4>2
    <3>2. CASE c \in m_fixed /\ c.on # t
      BY <1>3, <1>9, <3>2 DEF DeskInv, OnePin
    <3> QED
      BY <1>3, <3>1, <3>2 DEF DeskInv, OnePin
  <2>3. \A q \in m_pins' : q.on \notin m_muddled' => \E c \in m_fixed' : c.on = q.on
    <3> SUFFICES ASSUME NEW q \in m_pins', q.on \notin m_muddled' PROVE \E c \in m_fixed' : c.on = q.on
      OBVIOUS
    <3>1. CASE q.on = t
      BY <1>3, <1>12, <3>1
    <3>2. CASE q.on # t
      <4>1. q \in m_pins /\ q.on \notin m_muddled
        BY <1>3, <1>8, <1>9, <3>2
      <4>2. PICK c \in m_fixed : c.on = q.on
        BY <4>1 DEF DeskInv, OnePin
      <4> QED
        BY <1>3, <3>2, <4>2
    <3> QED
      BY <3>1, <3>2
  <2> QED
    BY <1>10, <2>1, <2>2, <2>3 DEF OnePin
<1> QED
  BY <1>13, <1>14, <1>15, <1>16 DEF DeskInv

-----------------------------------------------------------------------------
(* The graph moves *)

\* Where a target goes when an id is given up.
Carried(t, old, new) ==
  Desk!Target(t.kind, IF t.from = old THEN new ELSE t.from, IF t.to = old THEN new ELSE t.to)

LEMMA CarriedLive ==
  ASSUME LeadsHome, NEW old \in m_nodes, NEW new \in Desk!Ids, m_nodes' = (m_nodes \ {old}) \cup {new}, NEW t, Live(t)
  PROVE  Desk!Repointed(t, old, new) = Carried(t, old, new) /\ Live(Carried(t, old, new))' /\ Carried(t, old, new).kind = t.kind
<1>1. t \in Targets /\ t.from \in m_nodes /\ t.to \in m_nodes /\ (t.kind = "node" => t.from = t.to)
  BY DEF Live
<1> DEFINE a == IF t.from = old THEN new ELSE t.from
           b == IF t.to = old THEN new ELSE t.to
<1>2. a \in Desk!Ids /\ b \in Desk!Ids /\ a \in m_nodes' /\ b \in m_nodes' /\ (t.kind = "node" => a = b)
  BY <1>1 DEF LeadsHome
<1>3. Carried(t, old, new) = [kind |-> t.kind, from |-> a, to |-> b]
  BY DEF Carried, Desk!Target
<1>4. t = [kind |-> t.kind, from |-> t.from, to |-> t.to] /\ t.kind \in {"owns", "node"}
  BY <1>1 DEF Targets
<1>5. Desk!Repointed(t, old, new) = [kind |-> t.kind, from |-> a, to |-> b]
  <2>1. [t EXCEPT !.from = a] = [kind |-> t.kind, from |-> a, to |-> t.to]
    BY <1>4
  <2> DEFINE u == [t EXCEPT !.from = a]
  <2>2. u = [kind |-> t.kind, from |-> a, to |-> t.to]
    BY <2>1
  <2> HIDE DEF a, b
  <2>3. \A k, x, y, z : [[kind |-> k, from |-> x, to |-> y] EXCEPT !.to = z] = [kind |-> k, from |-> x, to |-> z]
    OBVIOUS
  <2> HIDE DEF u
  <2>4. [u EXCEPT !.to = b] = [kind |-> t.kind, from |-> a, to |-> b]
    BY <2>2
  <2> QED
    BY <2>4 DEF Desk!Repointed, u, a, b
<1> HIDE DEF a, b
<1> QED
  BY <1>2, <1>3, <1>4, <1>5 DEF Live, Targets

LEMMA MoveStep ==
  ASSUME DeskInv, NEW old \in m_nodes, NEW new \in Desk!Ids, Desk!Move(old, new)
  PROVE  DeskInv'
<1> DEFINE C(t) == Carried(t, old, new)
           now == {[c EXCEPT !.on = C(@)] : c \in m_fixed}
           two == {p.on : p \in {q \in m_pins' : \E o \in m_pins' : o.on = q.on /\ o # q}}
<1>1. /\ m_nodes' = (m_nodes \ {old}) \cup {new} /\ old # new
      /\ m_away' = [i \in Desk!Ids |-> IF i = new \/ m_away[i] = old THEN new ELSE m_away[i]]
      /\ m_flags' = Desk!Moved(m_flags, old, new) /\ m_sups' = Desk!Moved(m_sups, old, new) /\ m_pins' = Desk!Moved(m_pins, old, new)
      /\ m_hidden' = {C(t) : t \in m_hidden} /\ m_muddled' = {C(t) : t \in m_muddled} \cup two
      /\ m_fixed' = {c \in now : c.on \notin m_muddled'}
      /\ UNCHANGED m_desk /\ \A m \in DeskModerator : m_desk[m] = Desk!Idle
  BY DEF Desk!Move, Desk!Quiet, Carried
<1>2. \A e \in m_drawn' : e = [from |-> e.from, to |-> e.to, stake |-> e.stake, type |-> e.type, open |-> e.open]
  <2> DEFINE At(i) == IF i = old THEN new ELSE i
  <2>1. m_drawn' = {[e EXCEPT !.from = At(@), !.to = At(@)] : e \in m_drawn}
    BY DEF Desk!Move
  <2> HIDE DEF At
  <2> SUFFICES ASSUME NEW e \in m_drawn
               PROVE  LET x == [e EXCEPT !.from = At(@), !.to = At(@)]
                      IN x = [from |-> x.from, to |-> x.to, stake |-> x.stake, type |-> x.type, open |-> x.open]
    BY <2>1
  <2>2. e = [from |-> e.from, to |-> e.to, stake |-> e.stake, type |-> e.type, open |-> e.open]
    BY DEF DeskInv, RowsLive
  <2> DEFINE u == [e EXCEPT !.from = At(@)]
  <2>3. u = [from |-> At(e.from), to |-> e.to, stake |-> e.stake, type |-> e.type, open |-> e.open]
    BY <2>2
  <2> HIDE DEF u
  <2>4. [u EXCEPT !.to = At(@)] = [from |-> At(e.from), to |-> At(e.to), stake |-> e.stake, type |-> e.type, open |-> e.open]
    BY <2>3
  <2> QED
    BY <2>4 DEF u
<1>3. \A t : Live(t) => Desk!Repointed(t, old, new) = C(t) /\ Live(C(t))' /\ C(t).kind = t.kind
  BY <1>1, CarriedLive DEF DeskInv
<1> HIDE DEF C, now, two
<1>4. LeadsHome'
  <2>1. Desk!Ids' = Desk!Ids
    BY DEF Desk!Ids
  <2>2. m_nodes' \subseteq Desk!Ids
    BY <1>1 DEF DeskInv, LeadsHome
  <2>3. m_away' \in [Desk!Ids -> Desk!Ids]
    BY <1>1 DEF DeskInv, LeadsHome
  <2>4. \A i \in m_nodes' : m_away'[i] = i
    BY <1>1 DEF DeskInv, LeadsHome
  <2> QED
    BY <2>1, <2>2, <2>3, <2>4 DEF LeadsHome
\* Every row comes from a row whose target was carried.
<1>5. /\ \A f \in m_flags' : Live(f.on)' /\ f = [n |-> f.n, by |-> f.by, on |-> f.on, state |-> f.state]
  <2> SUFFICES ASSUME NEW f \in m_flags
               PROVE  LET x == [f EXCEPT !.on = Desk!Repointed(@, old, new)]
                      IN Live(x.on)' /\ x = [n |-> x.n, by |-> x.by, on |-> x.on, state |-> x.state]
    BY <1>1 DEF Desk!Moved
  <2>1. Live(f.on) /\ f = [n |-> f.n, by |-> f.by, on |-> f.on, state |-> f.state]
    BY DEF DeskInv, RowsLive
  <2>2. [f EXCEPT !.on = Desk!Repointed(@, old, new)] = [n |-> f.n, by |-> f.by, on |-> C(f.on), state |-> f.state]
    BY <1>3, <2>1
  <2> QED
    BY <1>3, <2>1, <2>2
<1>6. /\ \A s \in m_sups' : Live(s.on)' /\ s = [n |-> s.n, on |-> s.on]
      /\ \A s \in m_sups : \E x \in m_sups' : x.on = C(s.on)
  <2>1. \A s \in m_sups : Live(s.on) /\ s = [n |-> s.n, on |-> s.on]
    BY DEF DeskInv, RowsLive
  <2>2. \A s \in m_sups : [s EXCEPT !.on = Desk!Repointed(@, old, new)] = [n |-> s.n, on |-> C(s.on)]
    BY <1>3, <2>1
  <2>3. m_sups' = {[n |-> s.n, on |-> C(s.on)] : s \in m_sups}
    <3>1. \A x \in m_sups' : \E s \in m_sups : x = [n |-> s.n, on |-> C(s.on)]
      <4> TAKE x \in m_sups'
      <4>1. PICK s \in m_sups : x = [s EXCEPT !.on = Desk!Repointed(@, old, new)]
        BY <1>1 DEF Desk!Moved
      <4> QED
        BY <2>2, <4>1
    <3>2. \A s \in m_sups : [n |-> s.n, on |-> C(s.on)] \in m_sups'
      <4> TAKE s \in m_sups
      <4>1. [s EXCEPT !.on = Desk!Repointed(@, old, new)] \in m_sups'
        BY <1>1 DEF Desk!Moved
      <4> QED
        BY <2>2, <4>1
    <3> QED
      BY <3>1, <3>2
  <2>4. \A s \in m_sups' : Live(s.on)' /\ s = [n |-> s.n, on |-> s.on]
    <3> TAKE x \in m_sups'
    <3>1. PICK s \in m_sups : x = [n |-> s.n, on |-> C(s.on)]
      BY <2>3
    <3>2. x.on = C(s.on)
      BY <3>1
    <3>3. Live(x.on)'
      <4>1. Live(C(s.on))'
        BY <1>3, <2>1
      <4> QED
        BY <3>2, <4>1
    <3> QED
      BY <3>1, <3>3
  <2>5. \A s \in m_sups : \E x \in m_sups' : x.on = C(s.on)
    <3> TAKE s \in m_sups
    <3>1. [n |-> s.n, on |-> C(s.on)] \in m_sups'
      BY <2>3
    <3> QED
      BY <3>1
  <2> QED
    BY <2>4, <2>5
<1>7. \A p \in m_pins : /\ Live(p.on) /\ p.on.kind = "owns"
                      /\ [p EXCEPT !.on = Desk!Repointed(@, old, new)] = [n |-> p.n, on |-> C(p.on), stake |-> p.stake, type |-> p.type]
  <2>1. \A p \in m_pins : Live(p.on) /\ p.on.kind = "owns" /\ p = [n |-> p.n, on |-> p.on, stake |-> p.stake, type |-> p.type]
    BY DEF DeskInv, RowsLive
  <2> QED
    BY <1>3, <2>1
<1>8. m_pins' = {[n |-> p.n, on |-> C(p.on), stake |-> p.stake, type |-> p.type] : p \in m_pins}
  <2>1. \A x \in m_pins' : \E p \in m_pins : x = [n |-> p.n, on |-> C(p.on), stake |-> p.stake, type |-> p.type]
    <3> TAKE x \in m_pins'
    <3>1. PICK p \in m_pins : x = [p EXCEPT !.on = Desk!Repointed(@, old, new)]
      BY <1>1 DEF Desk!Moved
    <3> QED
      BY <1>7, <3>1
  <2>2. \A p \in m_pins : [n |-> p.n, on |-> C(p.on), stake |-> p.stake, type |-> p.type] \in m_pins'
    <3> TAKE p \in m_pins
    <3>1. [p EXCEPT !.on = Desk!Repointed(@, old, new)] \in m_pins'
      BY <1>1 DEF Desk!Moved
    <3> QED
      BY <1>7, <3>1
  <2> QED
    BY <2>1, <2>2
<1>9. \A c \in m_fixed : /\ Live(c.on) /\ c.on.kind = "owns"
                       /\ [c EXCEPT !.on = C(@)] = [on |-> C(c.on), stake |-> c.stake, type |-> c.type]
  <2>1. \A c \in m_fixed : Live(c.on) /\ c.on.kind = "owns" /\ c = [on |-> c.on, stake |-> c.stake, type |-> c.type]
    BY DEF DeskInv, RowsLive
  <2> QED
    BY <2>1
<1>10. now = {[on |-> C(c.on), stake |-> c.stake, type |-> c.type] : c \in m_fixed}
  <2>1. \A x \in now : \E c \in m_fixed : x = [on |-> C(c.on), stake |-> c.stake, type |-> c.type]
    <3> TAKE x \in now
    <3>1. PICK c \in m_fixed : x = [c EXCEPT !.on = C(@)]
      BY DEF now
    <3> QED
      BY <1>9, <3>1
  <2>2. \A c \in m_fixed : [on |-> C(c.on), stake |-> c.stake, type |-> c.type] \in now
    <3> TAKE c \in m_fixed
    <3>1. [c EXCEPT !.on = C(@)] \in now
      BY DEF now
    <3> QED
      BY <1>9, <3>1
  <2> QED
    BY <2>1, <2>2
<1>11. RowsLive'
  <2>1. \A p \in m_pins' : Live(p.on)' /\ p.on.kind = "owns" /\ p = [n |-> p.n, on |-> p.on, stake |-> p.stake, type |-> p.type]
    <3> TAKE x \in m_pins'
    <3>1. PICK p \in m_pins : x = [n |-> p.n, on |-> C(p.on), stake |-> p.stake, type |-> p.type]
      BY <1>8
    <3>2. Live(C(p.on))' /\ C(p.on).kind = "owns"
      BY <1>3, <1>7
    <3>3. x.on = C(p.on)
      BY <3>1
    <3>4. Live(x.on)' /\ x.on.kind = "owns"
      BY <3>2, <3>3
    <3> QED
      BY <3>1, <3>4
  <2>2. \A c \in m_fixed' : Live(c.on)' /\ c.on.kind = "owns" /\ c = [on |-> c.on, stake |-> c.stake, type |-> c.type]
    <3> TAKE x \in m_fixed'
    <3>1. PICK c \in m_fixed : x = [on |-> C(c.on), stake |-> c.stake, type |-> c.type]
      BY <1>1, <1>10
    <3>2. Live(C(c.on))' /\ C(c.on).kind = "owns"
      BY <1>3, <1>9
    <3>3. x.on = C(c.on)
      BY <3>1
    <3>4. Live(x.on)' /\ x.on.kind = "owns"
      BY <3>2, <3>3
    <3> QED
      BY <3>1, <3>4
  <2>3. \A t \in m_hidden' : Live(t)'
    BY <1>1, <1>3 DEF DeskInv, RowsLive
  <2> QED
    BY <1>2, <1>5, <1>6, <2>1, <2>2, <2>3 DEF RowsLive
<1>12. JobsStand'
  BY <1>1 DEF DeskInv, JobsStand
<1>13. HiddenRow'
  BY <1>1, <1>6 DEF DeskInv, HiddenRow
<1>14. OnePin'
  <2>1. IsFiniteSet(m_pins')
    <3> DEFINE g == [p \in m_pins |-> [n |-> p.n, on |-> C(p.on), stake |-> p.stake, type |-> p.type]]
    <3>1. g \in Surjection(m_pins, m_pins')
      BY <1>8 DEF Surjection
    <3> QED
      BY <3>1, FS_Surjection DEF DeskInv, OnePin
  <2>2. \A p, q \in m_pins' : p.n = q.n => p = q
    BY <1>8 DEF DeskInv, OnePin
  <2>3. \A p, q \in m_pins' : p.on = q.on /\ p.on \notin m_muddled' => p = q
    BY <1>1 DEF two
  <2>4. \A c \in m_fixed' : c.on \notin m_muddled' /\ \E p \in m_pins' : p.on = c.on /\ p.stake = c.stake /\ p.type = c.type
    <3> SUFFICES ASSUME NEW x \in m_fixed' PROVE x.on \notin m_muddled' /\ \E p \in m_pins' : p.on = x.on /\ p.stake = x.stake /\ p.type = x.type
      OBVIOUS
    <3>1. PICK c \in m_fixed : x = [on |-> C(c.on), stake |-> c.stake, type |-> c.type]
      BY <1>1, <1>10
    <3>2. PICK p \in m_pins : p.on = c.on /\ p.stake = c.stake /\ p.type = c.type
      BY DEF DeskInv, OnePin
    <3>3. [n |-> p.n, on |-> C(p.on), stake |-> p.stake, type |-> p.type] \in m_pins'
      BY <1>8
    <3> QED
      BY <1>1, <3>1, <3>2, <3>3
  <2>5. \A p \in m_pins' : p.on \notin m_muddled' => \E c \in m_fixed' : c.on = p.on
    <3> SUFFICES ASSUME NEW y \in m_pins', y.on \notin m_muddled' PROVE \E c \in m_fixed' : c.on = y.on
      OBVIOUS
    <3>1. PICK p \in m_pins : y = [n |-> p.n, on |-> C(p.on), stake |-> p.stake, type |-> p.type]
      BY <1>8
    <3>2. p.on \notin m_muddled
      BY <1>1, <3>1
    <3>3. PICK c \in m_fixed : c.on = p.on
      BY <3>2 DEF DeskInv, OnePin
    <3>4. [on |-> C(c.on), stake |-> c.stake, type |-> c.type] \in now
      BY <1>10
    <3> QED
      BY <1>1, <3>1, <3>3, <3>4
  <2> QED
    BY <2>1, <2>2, <2>3, <2>4, <2>5 DEF OnePin
<1> QED
  BY <1>4, <1>11, <1>12, <1>13, <1>14 DEF DeskInv

-----------------------------------------------------------------------------

LEMMA DeskNextInv == ASSUME DeskInv, [Desk!Next]_(Desk!vars) PROVE DeskInv'
<1>1. CASE UNCHANGED Desk!vars
  BY <1>1, DeskStutters
<1>2. CASE Desk!Next
  <2>1. CASE \/ \E p \in Desk!Pairs, stake \in DeskStakes, beside \in BOOLEAN : Desk!Draw(p, stake, beside)
             \/ \E e \in m_drawn : Desk!End(e)
    BY <2>1, SourcesStep
  <2>2. CASE \E old \in m_nodes, new \in Desk!Ids : Desk!Move(old, new)
    BY <2>2, MoveStep
  <2>3. CASE \/ \E by \in {"reader", "user"} :
                  \/ \E a, b \in Desk!Ids : <<DeskCompany[a], DeskCompany[b]>> \in DeskHolding /\ Desk!Report(by, Desk!Target("owns", a, b))
                  \/ \E a \in Desk!Ids : Desk!Report(by, Desk!OfNode(a))
             \/ \E f \in m_flags : \E state \in {"reviewing", "rejected", "open", "deleted"} : Desk!Triage(f, state)
    BY <2>3, ReportsStep
  <2>4. CASE \E f \in m_flags : \E m \in DeskModerator, what \in Desk!Decisions : Desk!TakeUp(m, f, what)
    BY <2>4, TakeUpStep
  <2>5. ASSUME NEW m \in DeskModerator, Desk!LookUp(m) \/ Desk!Suppress(m) \/ Desk!Pin(m) \/ Desk!Settle(m) \/ Desk!GiveUp(m)
        PROVE  DeskInv'
    BY <2>5, LookUpStep, SuppressStep, PinStep, LeaveStep
  <2>6. CASE \E s \in m_sups : Desk!Show(s)
    BY <2>6, ShowStep
  <2>7. CASE \E p \in m_pins : Desk!Unpin(p)
    BY <2>7, UnpinStep
  <2> QED
    BY <1>2, <2>1, <2>2, <2>3, <2>4, <2>5, <2>6, <2>7 DEF Desk!Next
<1> QED
  BY <1>1, <1>2

\* What a moderator hid stays hidden on every page (suppressions.load_suppressions) until
\* it is shown again, and the correction that stands is what every page shows
\* (pins.overlay) - through the next scrape, which writes the edge again, and the folds
\* and re-keys, which take ids away and re-point the rows (repoint_references).
THEOREM DeskAlwaysStands == Desk!Spec => []DeskStands
<1>1. Desk!Init => DeskInv
  BY DeskInitInv
<1>2. DeskInv /\ [Desk!Next]_(Desk!vars) => DeskInv'
  BY DeskNextInv
<1>3. DeskInv => DeskStands
  BY HiddenShown, CorrectedShown DEF DeskInv, DeskStands
<1> QED
  BY <1>1, <1>2, <1>3, PTL DEF Desk!Spec

-----------------------------------------------------------------------------
(* Numbers *)

\* A set of numbers that is not empty has a least one ...
LEMMA Least ==
  ASSUME NEW D \in SUBSET Nat, D # {}
  PROVE  \E n \in D : \A m \in D : n <= m
<1> DEFINE R == {ss \in Nat \X Nat : ss[1] < ss[2]}
<1>1. IsWellFoundedOn(R, Nat)
  BY NatLessThanWellFounded DEF OpToRel
<1>2. \A n, m \in Nat : n < m => <<n, m>> \in R
  OBVIOUS
<1> HIDE DEF R
<1>3. PICK n \in D : \A m \in D : ~(<<m, n>> \in R)
  BY <1>1, WFMin
<1>4. ASSUME NEW m \in D PROVE n <= m
  <2>1. m \in Nat /\ n \in Nat /\ ~(<<m, n>> \in R)
    BY <1>3
  <2>2. ~(m < n)
    BY <1>2, <2>1
  <2> QED
    BY <2>1, <2>2
<1> QED
  BY <1>3, <1>4

\* ... and a greatest one, when nothing in it is beyond some number.
LEMMA Greatest ==
  ASSUME NEW D \in SUBSET Nat, D # {}, NEW top \in Nat, \A m \in D : m <= top
  PROVE  \E n \in D : \A m \in D : m <= n
<1> DEFINE below == {top - m : m \in D}
<1>1. below \in SUBSET Nat /\ below # {}
  <2>1. \A m \in D : top - m \in Nat
    OBVIOUS
  <2> QED
    BY <2>1
<1> HIDE DEF below
<1>2. PICK k \in below : \A x \in below : k <= x
  BY <1>1, Least
<1>3. PICK n \in D : k = top - n
  BY DEF below
<1>4. ASSUME NEW m \in D PROVE m <= n
  <2>1. k <= top - m
    BY <1>2 DEF below
  <2> QED
    BY <1>3, <2>1
<1> QED
  BY <1>4

-----------------------------------------------------------------------------
(* The companies of one name *)

\* An LEI is not a CIK, and what an item states as the one is not the other.
IdFigures ==
  /\ Ids!No \notin Ids!Leis \cup Ids!Ciks
  /\ \A q \in DOMAIN IdItems :
       /\ Ids!No \notin IdItems[q].leis \cup IdItems[q].ciks
       /\ IdItems[q].leis \cap Ids!Ciks = {} /\ IdItems[q].ciks \cap Ids!Leis = {}

Shape(n) == n = [name |-> n.name, cik |-> n.cik, lei |-> n.lei, item |-> n.item, others |-> n.others,
                 former |-> n.former, cred |-> n.cred]
NodeList(ns) == ns \in Seq({ns[i] : i \in DOMAIN ns}) /\ \A i \in DOMAIN ns : Shape(ns[i])

Legal(n) == n.lei # Ids!No /\ n.cik # Ids!No => <<n.lei, n.cik>> \in IdConfirms \cup IdStates

\* What a call does to the nodes: none is lost, items stay where they are, and no node
\* that was one company becomes two.
SameItems(ns, ms) ==
  /\ NodeList(ms) /\ DOMAIN ns \subseteq DOMAIN ms
  /\ \A j \in DOMAIN ms : ms[j].item = IF j \in DOMAIN ns THEN ns[j].item ELSE Ids!No
LegalKept(ns, ms) == \A j \in DOMAIN ms : (j \in DOMAIN ns => Legal(ns[j])) => Legal(ms[j])

\* A node of no register, or of one of the ids.
Fits(n, ids) == (n.lei = Ids!No /\ n.cik = Ids!No) \/ n.lei \in ids \/ n.cik \in ids
FitsKept(ns, ms, ids) == \A j \in DOMAIN ns : Fits(ns[j], ids) => Fits(ms[j], ids)

IdInv == NodeList(id_nodes) /\ \A i \in DOMAIN id_nodes \ id_blind : Legal(id_nodes[i])

-----------------------------------------------------------------------------
(* Lists of nodes *)

LEMMA ListOf ==
  ASSUME NEW S, NEW ns \in Seq(S)
  PROVE  ns \in Seq({ns[i] : i \in DOMAIN ns})
<1>1. DOMAIN ns = 1 .. Len(ns) /\ Len(ns) \in Nat /\ ns = [i \in 1 .. Len(ns) |-> ns[i]]
  OBVIOUS
<1> DEFINE T == {ns[i] : i \in DOMAIN ns}
<1>2. \A i \in 1 .. Len(ns) : ns[i] \in T
  BY <1>1
<1> HIDE DEF T
<1>3. ns \in [1 .. Len(ns) -> T]
  BY <1>1, <1>2
<1> QED
  BY <1>1, <1>3 DEF T

LEMMA ListLen ==
  ASSUME NEW ns, NodeList(ns)
  PROVE  DOMAIN ns = 1 .. Len(ns) /\ Len(ns) \in Nat
  BY DEF NodeList

LEMMA OneChanged ==
  ASSUME NEW ns, NodeList(ns), NEW i \in DOMAIN ns, NEW n, Shape(n), n.item = ns[i].item
  PROVE  LET ms == [ns EXCEPT ![i] = n] IN
         /\ SameItems(ns, ms) /\ DOMAIN ms = DOMAIN ns /\ ms[i] = n /\ \A j \in DOMAIN ns \ {i} : ms[j] = ns[j]
         /\ (Legal(ns[i]) => Legal(n)) => LegalKept(ns, ms)
<1> DEFINE ms == [ns EXCEPT ![i] = n]
           S  == {ns[j] : j \in DOMAIN ns} \cup {n}
<1>1. ns \in Seq(S)
  <2>1. {ns[j] : j \in DOMAIN ns} \subseteq S
    OBVIOUS
  <2> HIDE DEF S
  <2> QED
    BY <2>1 DEF NodeList
<1>2. n \in S
  OBVIOUS
<1> HIDE DEF S
<1>3. ms \in Seq(S) /\ DOMAIN ms = DOMAIN ns /\ ms[i] = n /\ \A j \in DOMAIN ns \ {i} : ms[j] = ns[j]
  BY <1>1, <1>2
<1> HIDE DEF ms
<1>4. NodeList(ms)
  BY <1>3, ListOf DEF NodeList
<1>5. SameItems(ns, ms)
  BY <1>3, <1>4 DEF SameItems
<1>6. (Legal(ns[i]) => Legal(n)) => LegalKept(ns, ms)
  BY <1>3 DEF LegalKept
<1> QED
  BY <1>3, <1>5, <1>6 DEF ms

LEMMA OneMore ==
  ASSUME NEW ns, NodeList(ns), NEW n, Shape(n)
  PROVE  LET ms == Append(ns, n) IN
         /\ NodeList(ms) /\ DOMAIN ns \subseteq DOMAIN ms /\ DOMAIN ms = DOMAIN ns \cup {Len(ns) + 1}
         /\ Len(ns) + 1 \notin DOMAIN ns
         /\ ms[Len(ns) + 1] = n /\ \A j \in DOMAIN ns : ms[j] = ns[j]
         /\ n.item = Ids!No => SameItems(ns, ms)
         /\ Legal(n) => LegalKept(ns, ms)
<1> DEFINE ms == Append(ns, n)
           S  == {ns[j] : j \in DOMAIN ns} \cup {n}
<1>1. ns \in Seq(S)
  <2>1. {ns[j] : j \in DOMAIN ns} \subseteq S
    OBVIOUS
  <2> HIDE DEF S
  <2> QED
    BY <2>1 DEF NodeList
<1>2. n \in S
  OBVIOUS
<1> HIDE DEF S
<1>3. /\ ms \in Seq(S) /\ Len(ms) = Len(ns) + 1 /\ DOMAIN ns = 1 .. Len(ns) /\ Len(ns) \in Nat
      /\ ms[Len(ns) + 1] = n /\ \A j \in 1 .. Len(ns) : ms[j] = ns[j]
  BY <1>1, <1>2
<1>4. DOMAIN ms = DOMAIN ns \cup {Len(ns) + 1} /\ Len(ns) + 1 \notin DOMAIN ns
  BY <1>3
<1> HIDE DEF ms
<1>5. NodeList(ms)
  <2>1. ms \in Seq({ms[i] : i \in DOMAIN ms})
    BY <1>3, ListOf
  <2>2. \A i \in DOMAIN ms : Shape(ms[i])
    BY <1>3, <1>4 DEF NodeList
  <2> QED
    BY <2>1, <2>2 DEF NodeList
<1>6. n.item = Ids!No => SameItems(ns, ms)
  BY <1>3, <1>4, <1>5 DEF SameItems
<1>7. Legal(n) => LegalKept(ns, ms)
  BY <1>3, <1>4 DEF LegalKept
<1> QED
  BY <1>3, <1>4, <1>5, <1>6, <1>7 DEF ms

LEMMA NothingChanged ==
  ASSUME NEW ns, NodeList(ns)
  PROVE  SameItems(ns, ns) /\ LegalKept(ns, ns) /\ \A ids : FitsKept(ns, ns, ids)
  BY DEF SameItems, LegalKept, FitsKept

LEMMA OneThenOther ==
  ASSUME NEW ns, NEW ms, NEW os, SameItems(ns, ms), SameItems(ms, os)
  PROVE  /\ SameItems(ns, os)
         /\ LegalKept(ns, ms) /\ LegalKept(ms, os) => LegalKept(ns, os)
         /\ \A ids : FitsKept(ns, ms, ids) /\ FitsKept(ms, os, ids) => FitsKept(ns, os, ids)
<1>1. SameItems(ns, os)
  BY DEF SameItems
<1>2. LegalKept(ns, ms) /\ LegalKept(ms, os) => LegalKept(ns, os)
  BY DEF SameItems, LegalKept
<1>3. \A ids : FitsKept(ns, ms, ids) /\ FitsKept(ms, os, ids) => FitsKept(ns, os, ids)
  BY DEF SameItems, FitsKept
<1> QED
  BY <1>1, <1>2, <1>3

-----------------------------------------------------------------------------
(* The writes on a node *)

LEMMA Stamped ==
  ASSUME NEW n, Shape(n), NEW name, NEW c, NEW l, NEW named
  PROVE  LET m == Ids!Stamp(n, name, c, l, named) IN
         /\ Shape(m) /\ m.item = n.item
         /\ m.cik = (IF c # Ids!No THEN c ELSE n.cik) /\ m.lei = (IF l # Ids!No THEN l ELSE n.lei)
<1> DEFINE better == named /\ n.cred <= Ids!Sec
           cik  == IF c # Ids!No THEN c ELSE n.cik
           lei  == IF l # Ids!No THEN l ELSE n.lei
           nom  == IF better THEN name ELSE n.name
           cred == IF better THEN Ids!Sec ELSE n.cred
           form == IF named /\ c # Ids!No THEN n.former \cup id_filer[c].former ELSE n.former
           m    == [n EXCEPT !.cik = cik, !.lei = lei, !.name = nom, !.cred = cred, !.former = form]
<1>1. Ids!Stamp(n, name, c, l, named) = m
  BY DEF Shape, Ids!Stamp
<1>x. m = [n EXCEPT !.cik = cik, !.lei = lei, !.name = nom, !.cred = cred, !.former = form] /\ Shape(n)
  OBVIOUS
<1> HIDE DEF cik, lei, nom, cred, form, m
<1>2. m = [name |-> nom, cik |-> cik, lei |-> lei, item |-> n.item, others |-> n.others,
           former |-> form, cred |-> cred]
  BY <1>x DEF Shape
<1>3. Shape(m) /\ m.item = n.item /\ m.cik = cik /\ m.lei = lei
  BY <1>2 DEF Shape
<1> QED
  BY <1>1, <1>3 DEF cik, lei

LEMMA Fresh ==
  ASSUME NEW name, NEW c, NEW l, NEW item, NEW others, NEW cred
  PROVE  LET m == Ids!New(name, c, l, item, others, cred) IN
         Shape(m) /\ m.item = item /\ m.cik = c /\ m.lei = l
  BY DEF Shape, Ids!New

LEMMA Enriched ==
  ASSUME NEW n, Shape(n), NEW q
  PROVE  LET m == Ids!Enrich(n, q) IN
         Shape(m) /\ m.item = q /\ m.cik = n.cik /\ m.lei = n.lei
<1> DEFINE name == IF n.cred <= Ids!Wiki THEN IdItems[q].label ELSE n.name
           cred == IF n.cred <= Ids!Wiki THEN Ids!Wiki ELSE n.cred
           m    == [n EXCEPT !.item = q, !.name = name, !.cred = cred]
<1>1. Ids!Enrich(n, q) = m
  BY DEF Shape, Ids!Enrich
<1>x. m = [n EXCEPT !.item = q, !.name = name, !.cred = cred] /\ Shape(n)
  OBVIOUS
<1> HIDE DEF name, cred, m
<1>2. m = [name |-> name, cik |-> n.cik, lei |-> n.lei, item |-> q, others |-> n.others,
           former |-> n.former, cred |-> cred]
  BY <1>x DEF Shape
<1> QED
  BY <1>1, <1>2 DEF Shape

-----------------------------------------------------------------------------
(* The node a filing finds *)

\* What is found is the filer's by its ids, or nothing refuses it.
Meets(n, c, l, read) ==
  \/ c # Ids!No /\ n.cik = c
  \/ l # Ids!No /\ n.lei = l
  \/ \E named \in BOOLEAN : ~Ids!NotThisFiler(n, c, l, named, read)

LEMMA MatchMeets ==
  ASSUME NEW ns, NEW name, NEW proposed \in SUBSET DOMAIN ns, NEW c, NEW l, NEW named \in BOOLEAN, NEW read,
         NEW i \in Ids!FirstMatch(ns, Ids!Candidates(ns, name, proposed), c, l, named, read)
  PROVE  i \in DOMAIN ns /\ Meets(ns[i], c, l, read)
<1> DEFINE tiers == Ids!Candidates(ns, name, proposed)
           ok(t) == {j \in tiers[t] : ~Ids!NotThisFiler(ns[j], c, l, named, read)}
           some  == {t \in DOMAIN tiers : ok(t) # {}}
           best  == CHOOSE t \in some : \A u \in some : t <= u
<1>1. DOMAIN tiers = 1 .. 4 /\ \A t \in DOMAIN tiers : tiers[t] \subseteq DOMAIN ns
  BY DEF Ids!Candidates
<1> HIDE DEF tiers
<1>2. some # {} /\ i \in ok(best)
  BY DEF Ids!FirstMatch, tiers
<1>3. some \in SUBSET Nat
  BY <1>1
<1> HIDE DEF some
<1>4. best \in some
  BY <1>2, <1>3, Least
<1>5. i \in tiers[best] /\ best \in DOMAIN tiers
  BY <1>2, <1>4 DEF some
<1>6. i \in DOMAIN ns
  BY <1>1, <1>5
<1>7. ~Ids!NotThisFiler(ns[i], c, l, named, read)
  BY <1>2
<1> QED
  BY <1>6, <1>7 DEF Meets

LEMMA FindMeets ==
  ASSUME NEW ns, NEW name, NEW proposed \in SUBSET DOMAIN ns, NEW c, NEW l, NEW named \in BOOLEAN, NEW read,
         NEW i \in Ids!Find(ns, name, c, l, named, proposed, read).at
  PROVE  i \in DOMAIN ns /\ Meets(ns[i], c, l, read)
<1> DEFINE held   == IF c # Ids!No /\ Ids!With(ns, "cik", c) # {} THEN Ids!With(ns, "cik", c)
                ELSE IF l # Ids!No THEN Ids!With(ns, "lei", l) ELSE {}
      tiers  == Ids!Candidates(ns, name, proposed)
      first  == Ids!FirstMatch(ns, tiers, c, l, named, read)
      again  == /\ UNION {tiers[t] : t \in DOMAIN tiers} # {}
                /\ c # Ids!No /\ ~named /\ read /\ id_filer[c].name.stem # name.stem
      now    == IF again THEN id_filer[c].name ELSE name
      second == IF again THEN Ids!FirstMatch(ns, Ids!Candidates(ns, now, {}), c, l, TRUE, read) ELSE {}
      prefix == IF c # Ids!No THEN Ids!ByPrefix(ns, now, c, l, named \/ again, read) ELSE {}
<1>1. Ids!Find(ns, name, c, l, named, proposed, read) =
        IF held # {} THEN [at |-> held, name |-> name, named |-> named]
        ELSE IF first # {} THEN [at |-> first, name |-> name, named |-> named]
        ELSE [at |-> IF second # {} THEN second ELSE prefix, name |-> now, named |-> named \/ again]
  BY DEF Ids!Find
<1>2. ASSUME i \in held PROVE i \in DOMAIN ns /\ Meets(ns[i], c, l, read)
  BY <1>2 DEF Ids!With, Meets
<1>3. ASSUME i \in first PROVE i \in DOMAIN ns /\ Meets(ns[i], c, l, read)
  BY <1>3, MatchMeets
<1>4. ASSUME i \in second PROVE i \in DOMAIN ns /\ Meets(ns[i], c, l, read)
  <2>1. i \in Ids!FirstMatch(ns, Ids!Candidates(ns, now, {}), c, l, TRUE, read)
    BY <1>4
  <2> QED
    BY <2>1, MatchMeets
<1>5. ASSUME i \in prefix PROVE i \in DOMAIN ns /\ Meets(ns[i], c, l, read)
  <2>1. named \/ again \in BOOLEAN
    OBVIOUS
  <2> HIDE DEF again
  <2> QED
    BY <1>5, <2>1 DEF Ids!ByPrefix, Meets
<1> HIDE DEF held, first, second, prefix, now, again
<1>6. i \in held \/ i \in first \/ i \in second \/ i \in prefix
  BY <1>1
<1> QED
  BY <1>2, <1>3, <1>4, <1>5, <1>6

\* A node that is met takes the filer's number without becoming two companies.
LEMMA MetIsLegal ==
  ASSUME NEW n, NEW c \in Ids!Ciks \cup {Ids!No}, NEW l, l # Ids!No => <<l, c>> \in IdStates, c = Ids!No => l = Ids!No,
         IdFigures, Meets(n, c, l, TRUE), Legal(n), NEW m,
         m.cik = (IF c # Ids!No THEN c ELSE n.cik), m.lei = (IF l # Ids!No THEN l ELSE n.lei)
  PROVE  Legal(m)
<1>1. CASE l # Ids!No
  BY <1>1 DEF Legal
<1>2. CASE c = Ids!No
  BY <1>2 DEF Legal
<1>3. CASE l = Ids!No /\ c # Ids!No
  <2>1. CASE n.cik = c
    BY <1>3, <2>1 DEF Legal
  <2>2. CASE n.cik # c
    <3>1. PICK named \in BOOLEAN : ~Ids!NotThisFiler(n, c, l, named, TRUE)
      BY <1>3, <2>2 DEF Meets
    <3>2. n.cik = Ids!No
      BY <1>3, <2>2, <3>1 DEF Ids!NotThisFiler
    <3>3. n.lei # Ids!No => Ids!RecordIsFiler(n, c)
      BY <1>3, <3>1, <3>2 DEF Ids!NotThisFiler
    <3>4. n.lei # Ids!No => <<n.lei, c>> \in IdConfirms \cup IdStates
      BY <3>3 DEF Ids!RecordIsFiler, Ids!SameEntity
    <3> QED
      BY <1>3, <3>4 DEF Legal
  <2> QED
    BY <2>1, <2>2
<1> QED
  BY <1>1, <1>2, <1>3

\* The outcome of a call that adds or changes one node.
Outcome(ns, w, ids) ==
  /\ SameItems(ns, w.ns) /\ FitsKept(ns, w.ns, ids)
  /\ w.at \in DOMAIN w.ns /\ (w.ns[w.at].lei \in ids \/ w.ns[w.at].cik \in ids)

LEMMA UpsertOutcome ==
  ASSUME NEW ns, NodeList(ns), NEW name, NEW proposed \in SUBSET DOMAIN ns, IdFigures,
         NEW c \in Ids!Ciks \cup {Ids!No}, NEW l, NEW named \in BOOLEAN, NEW read \in BOOLEAN,
         l # Ids!No => <<l, c>> \in IdStates, c = Ids!No => l = Ids!No,
         NEW w \in Ids!Upsert(ns, name, c, l, named, proposed, read)
  PROVE  /\ SameItems(ns, w.ns)
         /\ read => LegalKept(ns, w.ns)
         /\ c # Ids!No => \A ids : c \in ids => Outcome(ns, w, ids)
<1> DEFINE f == Ids!Find(ns, name, c, l, named, proposed, read)
           fresh == Ids!New(f.name, c, l, Ids!No, {}, Ids!Sec)
<1>1. CASE f.at = {}
  <2>1. w = [ns |-> Append(ns, fresh), at |-> Len(ns) + 1]
    BY <1>1 DEF Ids!Upsert, Ids!Add, Ids!Land
  <2>2. Shape(fresh) /\ fresh.item = Ids!No /\ fresh.cik = c /\ fresh.lei = l
    BY Fresh
  <2>3. Legal(fresh)
    BY <2>2 DEF Legal
  <2> HIDE DEF fresh, f
  <2>4. /\ SameItems(ns, w.ns) /\ LegalKept(ns, w.ns) /\ w.at \in DOMAIN w.ns /\ w.ns[w.at] = fresh
        /\ \A j \in DOMAIN ns : w.ns[j] = ns[j]
    BY <2>1, <2>2, <2>3, OneMore
  <2>5. \A ids : FitsKept(ns, w.ns, ids)
    BY <2>4 DEF FitsKept
  <2> QED
    BY <2>2, <2>4, <2>5 DEF Outcome
<1>2. CASE f.at # {}
  <2>1. PICK i \in f.at : w = [ns |-> [ns EXCEPT ![i] = Ids!Stamp(@, f.name, c, l, f.named)], at |-> i]
    BY <1>2 DEF Ids!Upsert, Ids!Land
  <2>2. i \in DOMAIN ns /\ Meets(ns[i], c, l, read)
    BY <2>1, FindMeets
  <2> DEFINE m == Ids!Stamp(ns[i], f.name, c, l, f.named)
  <2>3. /\ Shape(m) /\ m.item = ns[i].item
        /\ m.cik = (IF c # Ids!No THEN c ELSE ns[i].cik) /\ m.lei = (IF l # Ids!No THEN l ELSE ns[i].lei)
    BY <2>2, Stamped DEF NodeList
  <2>4. w.ns = [ns EXCEPT ![i] = m] /\ w.at = i
    BY <2>1
  <2> HIDE DEF m, f
  <2>5. read /\ Legal(ns[i]) => Legal(m)
    BY <2>2, <2>3, MetIsLegal
  <2>6. /\ SameItems(ns, w.ns) /\ DOMAIN w.ns = DOMAIN ns /\ w.ns[i] = m /\ \A j \in DOMAIN ns \ {i} : w.ns[j] = ns[j]
        /\ read => LegalKept(ns, w.ns)
    BY <2>2, <2>3, <2>4, <2>5, OneChanged
  <2>7. ASSUME c # Ids!No, NEW ids, c \in ids PROVE Outcome(ns, w, ids)
    <3>1. FitsKept(ns, w.ns, ids)
      BY <2>3, <2>6, <2>7 DEF FitsKept, Fits
    <3> QED
      BY <2>2, <2>3, <2>4, <2>6, <2>7, <3>1 DEF Outcome
  <2> QED
    BY <2>6, <2>7
<1> QED
  BY <1>1, <1>2

-----------------------------------------------------------------------------
(* The pointers *)

LEMMA GleifOutcome ==
  ASSUME NEW ns, NodeList(ns), IdFigures, NEW l \in Ids!Leis, NEW proposed, NEW byName, NEW read,
         NEW w \in Ids!FromGleif(ns, l, proposed, byName, read)
  PROVE  LegalKept(ns, w.ns) /\ \A ids : l \in ids => Outcome(ns, w, ids)
<1> DEFINE names == {IdGleif[l].legal} \cup IdGleif[l].others
           joins == {i \in DOMAIN ns :
                  /\ ns[i].cik # Ids!No /\ ns[i].lei = Ids!No
                  /\ i \in proposed \/ (byName /\ ns[i].name.stem \in Ids!Keys(names))
                  /\ read /\ Ids!SameEntity(names, l, ns[i].cik)}
           fresh == Ids!New(IdGleif[l].legal, Ids!No, l, Ids!No, IdGleif[l].others, Ids!Glei)
<1>0. Ids!FromGleif(ns, l, proposed, byName, read) =
        IF joins = {} THEN {Ids!Add(ns, fresh)}
        ELSE {Ids!Land([ns EXCEPT ![i].lei = l, ![i].others = @ \cup names], i) : i \in joins}
  BY DEF Ids!FromGleif
<1>1. CASE joins = {}
  <2>1. w = [ns |-> Append(ns, fresh), at |-> Len(ns) + 1]
    BY <1>0, <1>1 DEF Ids!Add, Ids!Land
  <2>2. Shape(fresh) /\ fresh.item = Ids!No /\ fresh.cik = Ids!No /\ fresh.lei = l
    BY Fresh
  <2>3. Legal(fresh)
    BY <2>2 DEF Legal
  <2> HIDE DEF fresh
  <2>4. /\ SameItems(ns, w.ns) /\ LegalKept(ns, w.ns) /\ w.at \in DOMAIN w.ns /\ w.ns[w.at] = fresh
        /\ \A j \in DOMAIN ns : w.ns[j] = ns[j]
    BY <2>1, <2>2, <2>3, OneMore
  <2>5. \A ids : FitsKept(ns, w.ns, ids)
    BY <2>4 DEF FitsKept
  <2> QED
    BY <2>2, <2>4, <2>5 DEF Outcome
<1>2. CASE joins # {}
  <2>1. PICK i \in joins : w = [ns |-> [ns EXCEPT ![i].lei = l, ![i].others = @ \cup names], at |-> i]
    BY <1>0, <1>2 DEF Ids!Land
  <2>2. i \in DOMAIN ns /\ <<l, ns[i].cik>> \in IdConfirms
    BY DEF Ids!SameEntity
  <2>3. Shape(ns[i])
    BY <2>2 DEF NodeList
  <2> DEFINE all == ns[i].others \cup names
             m == [ns[i] EXCEPT !.lei = l, !.others = all]
  <2>5. w.ns = [ns EXCEPT ![i] = m] /\ w.at = i
    BY <2>1, <2>2
  <2> HIDE DEF all
  <2>4. Shape(m) /\ m.item = ns[i].item /\ m.cik = ns[i].cik /\ m.lei = l
    <3> DEFINE n == ns[i]
    <3>1. Shape(n) /\ m = [n EXCEPT !.lei = l, !.others = all]
      BY <2>3
    <3> HIDE DEF n, m
    <3>2. m = [name |-> n.name, cik |-> n.cik, lei |-> l, item |-> n.item, others |-> all,
               former |-> n.former, cred |-> n.cred]
      BY <3>1 DEF Shape
    <3> QED
      BY <3>2 DEF Shape, n
  <2> HIDE DEF m, joins
  <2>6. Legal(m)
    BY <2>2, <2>4 DEF Legal
  <2>7. /\ SameItems(ns, w.ns) /\ DOMAIN w.ns = DOMAIN ns /\ w.ns[i] = m /\ \A j \in DOMAIN ns \ {i} : w.ns[j] = ns[j]
        /\ LegalKept(ns, w.ns)
    BY <2>2, <2>4, <2>5, <2>6, OneChanged
  <2>8. ASSUME NEW ids, l \in ids PROVE Outcome(ns, w, ids)
    <3>1. FitsKept(ns, w.ns, ids)
      BY <2>4, <2>7, <2>8 DEF FitsKept, Fits
    <3> QED
      BY <2>2, <2>4, <2>5, <2>7, <2>8, <3>1 DEF Outcome
  <2> QED
    BY <2>7, <2>8
<1> QED
  BY <1>1, <1>2

LEMMA EdgarOutcome ==
  ASSUME NEW ns, NodeList(ns), IdFigures, NEW c \in Ids!Ciks, NEW l, l # Ids!No => <<l, c>> \in IdStates,
         NEW proposed \in SUBSET DOMAIN ns, NEW read \in BOOLEAN, NEW w \in Ids!FromEdgar(ns, c, l, proposed, read)
  PROVE  /\ SameItems(ns, w.ns) /\ LegalKept(ns, w.ns)
         /\ read => \A ids : c \in ids => Outcome(ns, w, ids)
         /\ ~read => w.ns = ns /\ w.at = 0
<1>1. CASE ~read
  <2>1. w.ns = ns /\ w.at = 0
    BY <1>1 DEF Ids!FromEdgar, Ids!Land
  <2> QED
    BY <1>1, <2>1, NothingChanged
<1>2. CASE read
  <2>1. w \in Ids!Upsert(ns, id_filer[c].name, c, l, TRUE, proposed, read)
    BY <1>2 DEF Ids!FromEdgar
  <2>2. c # Ids!No
    BY DEF IdFigures
  <2> DEFINE name == id_filer[c].name
             up == Ids!Upsert(ns, name, c, l, TRUE, proposed, read)
  <2>3. w \in up
    BY <2>1
  <2> DEFINE yes == TRUE
  <2>5. yes \in BOOLEAN /\ up = Ids!Upsert(ns, name, c, l, yes, proposed, read)
    OBVIOUS
  <2> HIDE DEF name, up, yes
  <2>6. c \in Ids!Ciks \cup {Ids!No} /\ w \in Ids!Upsert(ns, name, c, l, yes, proposed, read)
    BY <2>3, <2>5
  <2>7. /\ SameItems(ns, w.ns)
        /\ read => LegalKept(ns, w.ns)
        /\ c # Ids!No => \A ids : c \in ids => Outcome(ns, w, ids)
    BY <2>2, <2>5, <2>6, UpsertOutcome
  <2>4. SameItems(ns, w.ns) /\ LegalKept(ns, w.ns) /\ \A ids : c \in ids => Outcome(ns, w, ids)
    BY <1>2, <2>2, <2>7
  <2> QED
    BY <1>2, <2>4
<1> QED
  BY <1>1, <1>2

\* What a pointer does: it lands on a node of an id the item states, or the item states
\* none that a register knows.
Known(item) == (item.leis \cup item.ciks) \cap (Ids!Leis \cup Ids!Ciks) # {}

LEMMA PointerOutcome ==
  ASSUME NEW ns, NodeList(ns), IdFigures, NEW q \in DOMAIN IdItems, NEW proposed \in SUBSET DOMAIN ns,
         NEW read \in BOOLEAN, NEW w \in Ids!FromPointer(ns, IdItems[q], proposed, read)
  PROVE  /\ SameItems(ns, w.ns) /\ LegalKept(ns, w.ns)
         /\ \/ w.ns = ns /\ w.at = 0 /\ (read => ~Known(IdItems[q]))
            \/ Outcome(ns, w, IdItems[q].leis \cup IdItems[q].ciks)
<1> DEFINE item == IdItems[q]
           ids == item.leis \cup item.ciks
<1>1. CASE Ids!Ordered(item) # {}
  <2>1. PICK l \in Ids!Ordered(item) : w \in Ids!FromGleif(ns, l, proposed, TRUE, read)
    BY <1>1 DEF Ids!FromPointer
  <2>2. l \in Ids!Leis /\ l \in ids
    BY DEF Ids!Ordered
  <2>3. LegalKept(ns, w.ns) /\ Outcome(ns, w, ids)
    BY <2>1, <2>2, GleifOutcome
  <2> QED
    BY <2>3 DEF Outcome
<1>2. CASE Ids!Ordered(item) = {} /\ item.ciks \cap Ids!Ciks # {}
  <2>1. PICK c \in item.ciks \cap Ids!Ciks : w \in Ids!FromEdgar(ns, c, Ids!No, proposed, read)
    BY <1>2 DEF Ids!FromPointer
  <2>2. /\ SameItems(ns, w.ns) /\ LegalKept(ns, w.ns)
        /\ read => Outcome(ns, w, ids)
        /\ ~read => w.ns = ns /\ w.at = 0
    <3>1. c \in Ids!Ciks /\ c \in ids
      BY <2>1
    <3> DEFINE l == Ids!No
    <3>2. w \in Ids!FromEdgar(ns, c, l, proposed, read) /\ (l # Ids!No => <<l, c>> \in IdStates)
      BY <2>1
    <3> HIDE DEF l, ids, item
    <3>3. /\ SameItems(ns, w.ns) /\ LegalKept(ns, w.ns)
          /\ read => \A x : c \in x => Outcome(ns, w, x)
          /\ ~read => w.ns = ns /\ w.at = 0
      BY <3>1, <3>2, EdgarOutcome
    <3> QED
      BY <3>1, <3>3
  <2> QED
    BY <2>2
<1>3. CASE Ids!Ordered(item) = {} /\ item.ciks \cap Ids!Ciks = {}
  <2>1. w.ns = ns /\ w.at = 0
    BY <1>3 DEF Ids!FromPointer, Ids!Land
  <2>2. ~Known(item)
    BY <1>3 DEF Known, Ids!Ordered, IdFigures
  <2> QED
    BY <2>1, <2>2, NothingChanged
<1> QED
  BY <1>1, <1>2, <1>3

-----------------------------------------------------------------------------
(* An item of the knowledge base *)

\* Where an item lands: on the node that bears it already, on one it fits, or it states
\* nothing a register knows.
Lands(ns, w, q, read) ==
  w.at # 0 =>
    /\ w.at \in DOMAIN w.ns
    /\ \/ w.ns = ns /\ ns[w.at].item = q
       \/ read => ~Known(IdItems[q])
       \/ Fits(w.ns[w.at], IdItems[q].leis \cup IdItems[q].ciks)

LEMMA PointLands ==
  ASSUME NEW ns, NodeList(ns), IdFigures, NEW q \in DOMAIN IdItems, NEW proposed \in SUBSET DOMAIN ns,
         NEW read \in BOOLEAN, NEW last \in DOMAIN ns \cup {0},
         NEW v \in Ids!FromPointer(ns, IdItems[q], proposed, read), NEW w, w = IF v.at = 0 THEN Ids!Land(v.ns, last) ELSE v
  PROVE  SameItems(ns, w.ns) /\ LegalKept(ns, w.ns) /\ Lands(ns, w, q, read)
<1> DEFINE ids == IdItems[q].leis \cup IdItems[q].ciks
<1>1. /\ SameItems(ns, v.ns) /\ LegalKept(ns, v.ns)
      /\ \/ v.ns = ns /\ v.at = 0 /\ (read => ~Known(IdItems[q]))
         \/ Outcome(ns, v, ids)
  BY PointerOutcome
<1>2. 0 \notin DOMAIN v.ns
  BY <1>1, ListLen DEF SameItems
<1>3. CASE Outcome(ns, v, ids)
  <2>1. v.at \in DOMAIN v.ns /\ Fits(v.ns[v.at], ids)
    BY <1>3 DEF Outcome, Fits
  <2>2. w = v
    BY <1>2, <2>1
  <2> QED
    BY <1>1, <2>1, <2>2 DEF Lands
<1>4. CASE v.ns = ns /\ v.at = 0 /\ (read => ~Known(IdItems[q]))
  <2>1. w.ns = ns /\ w.at = last
    BY <1>4 DEF Ids!Land
  <2>2. last # 0 => last \in DOMAIN ns
    OBVIOUS
  <2> QED
    BY <1>1, <1>4, <2>1, <2>2 DEF Lands
<1> QED
  BY <1>1, <1>3, <1>4

LEMMA StayLands ==
  ASSUME NEW ns, NodeList(ns), NEW i, NEW q, NEW read,
         i # 0 => i \in DOMAIN ns /\ (ns[i].item = q \/ ~Known(IdItems[q]) \/ Fits(ns[i], IdItems[q].leis \cup IdItems[q].ciks))
  PROVE  LET w == Ids!Land(ns, i) IN SameItems(ns, w.ns) /\ LegalKept(ns, w.ns) /\ Lands(ns, w, q, read)
<1> DEFINE w == Ids!Land(ns, i)
<1>1. w.ns = ns /\ w.at = i
  BY DEF Ids!Land
<1> HIDE DEF w
<1>2. SameItems(ns, w.ns) /\ LegalKept(ns, w.ns)
  BY <1>1, NothingChanged
<1>3. Lands(ns, w, q, read)
  BY <1>1 DEF Lands
<1> QED
  BY <1>2, <1>3 DEF w

LEMMA PlaceLands ==
  ASSUME NEW ns, NodeList(ns), IdFigures, NEW q \in DOMAIN IdItems, NEW anchor \in 0 .. Len(ns), NEW read \in BOOLEAN,
         NEW w \in Ids!Place(ns, q, anchor, read)
  PROVE  SameItems(ns, w.ns) /\ LegalKept(ns, w.ns) /\ Lands(ns, w, q, read)
<1> DEFINE item   == IdItems[q]
           ids    == item.leis # {} \/ item.ciks # {}
           both   == item.leis \cup item.ciks
           named  == {i \in DOMAIN ns : ns[i].name.stem = item.label.stem}
           Point(proposed, last) ==
             {IF v.at = 0 THEN Ids!Land(v.ns, last) ELSE v : v \in Ids!FromPointer(ns, item, proposed, read)}
           OfName(i) ==
             IF Ids!Contradicts(ns[i], item) THEN Point({}, i)
             ELSE IF Ids!Unconfirmed(ns[i], item) THEN Point({i}, i) ELSE {Ids!Land(ns, i)}
<1>0. Ids!Place(ns, q, anchor, read) =
        IF Ids!ByIds(ns, q) # {} THEN {Ids!Land(ns, i) : i \in Ids!ByIds(ns, q)}
        ELSE IF named # {} THEN UNION {OfName(i) : i \in named}
        ELSE IF ids THEN Point({}, 0)
        ELSE {Ids!Land(ns, IF Ids!Anchored(ns, anchor, item) THEN anchor ELSE 0)}
  BY DEF Ids!Place
<1>1. ASSUME NEW proposed \in SUBSET DOMAIN ns, NEW last \in DOMAIN ns \cup {0}, w \in Point(proposed, last)
      PROVE  SameItems(ns, w.ns) /\ LegalKept(ns, w.ns) /\ Lands(ns, w, q, read)
  <2>1. PICK v \in Ids!FromPointer(ns, item, proposed, read) : w = IF v.at = 0 THEN Ids!Land(v.ns, last) ELSE v
    BY <1>1
  <2> QED
    BY <1>1, <2>1, PointLands
<1>2. CASE Ids!ByIds(ns, q) # {}
  <2>1. PICK i \in Ids!ByIds(ns, q) : w = Ids!Land(ns, i)
    BY <1>0, <1>2
  <2>2. i \in DOMAIN ns /\ (ns[i].item = q \/ ns[i].cik \in item.ciks \/ ns[i].lei \in item.leis)
    BY DEF Ids!ByIds, Ids!With
  <2>3. ns[i].item = q \/ Fits(ns[i], both)
    BY <2>2 DEF Fits
  <2> QED
    BY <2>1, <2>2, <2>3, StayLands
<1>3. CASE Ids!ByIds(ns, q) = {} /\ named # {}
  <2>1. PICK i \in named : w \in OfName(i)
    <3> HIDE DEF named, OfName
    <3>1. w \in UNION {OfName(i) : i \in named}
      BY <1>0, <1>3
    <3> QED
      BY <3>1
  <2>2. i \in DOMAIN ns
    OBVIOUS
  <2>3. CASE Ids!Contradicts(ns[i], item)
    <3>1. w \in Point({}, i)
      BY <2>1, <2>3
    <3> QED
      BY <1>1, <2>2, <3>1
  <2>4. CASE ~Ids!Contradicts(ns[i], item) /\ Ids!Unconfirmed(ns[i], item)
    <3>1. w \in Point({i}, i)
      BY <2>1, <2>4
    <3> QED
      BY <1>1, <2>2, <3>1
  <2>5. CASE ~Ids!Contradicts(ns[i], item) /\ ~Ids!Unconfirmed(ns[i], item)
    <3>1. w = Ids!Land(ns, i)
      BY <2>1, <2>5
    <3>2. ~Known(item) \/ Fits(ns[i], both)
      BY <2>5 DEF Ids!Unconfirmed, Known, Fits
    <3> QED
      BY <2>2, <3>1, <3>2, StayLands
  <2> QED
    BY <2>3, <2>4, <2>5
<1>4. CASE Ids!ByIds(ns, q) = {} /\ named = {} /\ ids
  <2>1. w \in Point({}, 0)
    BY <1>0, <1>4
  <2> QED
    BY <1>1, <2>1
<1>5. CASE Ids!ByIds(ns, q) = {} /\ named = {} /\ ~ids
  <2> DEFINE i == IF Ids!Anchored(ns, anchor, item) THEN anchor ELSE 0
  <2>1. w = Ids!Land(ns, i)
    BY <1>0, <1>5
  <2>2. ~Known(item)
    BY <1>5 DEF Known
  <2>3. i # 0 => i \in DOMAIN ns
    BY ListLen
  <2> HIDE DEF i
  <2> QED
    BY <2>1, <2>2, <2>3, StayLands
<1> QED
  BY <1>2, <1>3, <1>4, <1>5

\* The ids an item brings: the nodes it fits it fits still.
LEMMA AttachLeiFits ==
  ASSUME NEW ns, NodeList(ns), IdFigures, NEW q \in DOMAIN IdItems, NEW i, NEW read,
         NEW ms \in Ids!AttachLei(ns, i, IdItems[q], read)
  PROVE  SameItems(ns, ms) /\ LegalKept(ns, ms) /\ FitsKept(ns, ms, IdItems[q].leis \cup IdItems[q].ciks)
<1> DEFINE item == IdItems[q]
<1>1. ms = ns \/ \E l \in Ids!Ordered(item) : \E w \in Ids!FromGleif(ns, l, {i}, FALSE, read) : ms = w.ns
  BY DEF Ids!AttachLei
<1>2. CASE ms = ns
  BY <1>2, NothingChanged
<1>3. ASSUME NEW l \in Ids!Ordered(item), NEW w \in Ids!FromGleif(ns, l, {i}, FALSE, read), ms = w.ns
      PROVE  SameItems(ns, ms) /\ LegalKept(ns, ms) /\ FitsKept(ns, ms, item.leis \cup item.ciks)
  <2>1. l \in Ids!Leis /\ l \in item.leis \cup item.ciks
    BY DEF Ids!Ordered
  <2>2. LegalKept(ns, w.ns) /\ Outcome(ns, w, item.leis \cup item.ciks)
    BY <2>1, GleifOutcome
  <2> QED
    BY <1>3, <2>2 DEF Outcome
<1> QED
  BY <1>1, <1>2, <1>3

LEMMA AttachCikFits ==
  ASSUME NEW ns, NodeList(ns), IdFigures, NEW q \in DOMAIN IdItems, NEW i \in DOMAIN ns, NEW before, NEW read \in BOOLEAN,
         NEW ms \in Ids!AttachCik(ns, i, before, IdItems[q], read)
  PROVE  SameItems(ns, ms) /\ LegalKept(ns, ms) /\ FitsKept(ns, ms, IdItems[q].leis \cup IdItems[q].ciks)
<1> DEFINE item == IdItems[q]
           both == item.leis \cup item.ciks
           stated    == {c \in item.ciks \cap Ids!Ciks : <<before.lei, c>> \in IdStates}
           confirmed == {c \in item.ciks \cap Ids!Ciks : Ids!SameEntity(Ids!Names(ns[i]), before.lei, c)}
<1>1. ms = ns \/ \E c \in stated \cup confirmed :
        \E w \in Ids!FromEdgar(ns, c, IF c \in stated THEN before.lei ELSE Ids!No, {i}, read) : ms = w.ns /\ read
  BY DEF Ids!AttachCik
<1>2. CASE ms = ns
  BY <1>2, NothingChanged
<1>3. ASSUME NEW c \in stated \cup confirmed,
             NEW w \in Ids!FromEdgar(ns, c, IF c \in stated THEN before.lei ELSE Ids!No, {i}, read), ms = w.ns, read
      PROVE  SameItems(ns, ms) /\ LegalKept(ns, ms) /\ FitsKept(ns, ms, both)
  <2> DEFINE l == IF c \in stated THEN before.lei ELSE Ids!No
             proposed == {i}
  <2>1. c \in Ids!Ciks /\ c \in both /\ (l # Ids!No => <<l, c>> \in IdStates) /\ proposed \in SUBSET DOMAIN ns
    OBVIOUS
  <2>2. w \in Ids!FromEdgar(ns, c, l, proposed, read)
    BY <1>3
  <2> HIDE DEF l, proposed, stated, confirmed, both, item
  <2>3. /\ SameItems(ns, w.ns) /\ LegalKept(ns, w.ns)
        /\ read => \A x : c \in x => Outcome(ns, w, x)
    BY <2>1, <2>2, EdgarOutcome
  <2>4. Outcome(ns, w, both)
    BY <1>3, <2>1, <2>3
  <2> QED
    BY <1>3, <2>3, <2>4 DEF Outcome
<1> QED
  BY <1>1, <1>2, <1>3

\* A call for an item: its node bears it, and where the item is new to a node it fits.
Settled(ns, ms, q, read) ==
  /\ NodeList(ms) /\ DOMAIN ns \subseteq DOMAIN ms /\ LegalKept(ns, ms)
  /\ \A j \in DOMAIN ms : \/ ms[j].item = IF j \in DOMAIN ns THEN ns[j].item ELSE Ids!No
                          \/ ms[j].item = q /\ (read /\ Known(IdItems[q])
                                                  => Fits(ms[j], IdItems[q].leis \cup IdItems[q].ciks))

LEMMA SettleOutcome ==
  ASSUME NEW ns, NodeList(ns), IdFigures, NEW q \in DOMAIN IdItems, NEW anchor \in 0 .. Len(ns), NEW read \in BOOLEAN,
         NEW w \in Ids!Place(ns, q, anchor, read), NEW related \in BOOLEAN, NEW ms \in Ids!Settle(w, q, related, read)
  PROVE  Settled(ns, ms, q, read)
<1> USE DEF Settled
<1> DEFINE item == IdItems[q]
           ids  == item.leis \cup item.ciks
           n    == w.ns[w.at]
           New0 == Ids!New(item.label, Ids!No, Ids!No, q, {}, Ids!Wiki)
<1>1. SameItems(ns, w.ns) /\ LegalKept(ns, w.ns) /\ Lands(ns, w, q, read)
  BY PlaceLands
<1>2. NodeList(w.ns) /\ DOMAIN ns \subseteq DOMAIN w.ns
  BY <1>1 DEF SameItems
<1>3. CASE ms = w.ns
  BY <1>1, <1>3 DEF SameItems
<1>4. CASE w.at = 0 /\ ms = Append(w.ns, New0)
  <2>1. Shape(New0) /\ New0.item = q /\ New0.cik = Ids!No /\ New0.lei = Ids!No
    BY Fresh
  <2>2. Legal(New0) /\ Fits(New0, ids)
    BY <2>1 DEF Legal, Fits
  <2> DEFINE os == w.ns
  <2>6. NodeList(os) /\ ms = Append(os, New0)
    BY <1>2, <1>4
  <2> HIDE DEF New0, os
  <2>7. /\ NodeList(ms) /\ DOMAIN os \subseteq DOMAIN ms /\ DOMAIN ms = DOMAIN os \cup {Len(os) + 1}
        /\ ms[Len(os) + 1] = New0 /\ \A j \in DOMAIN os : ms[j] = os[j]
        /\ LegalKept(os, ms) /\ Len(os) + 1 \notin DOMAIN os
    BY <2>1, <2>2, <2>6, OneMore
  <2>3. /\ NodeList(ms) /\ DOMAIN w.ns \subseteq DOMAIN ms /\ DOMAIN ms = DOMAIN w.ns \cup {Len(w.ns) + 1}
        /\ ms[Len(w.ns) + 1] = New0 /\ \A j \in DOMAIN w.ns : ms[j] = w.ns[j]
        /\ LegalKept(w.ns, ms) /\ Len(w.ns) + 1 \notin DOMAIN w.ns
    BY <2>7 DEF os
  <2>4. LegalKept(ns, ms)
    BY <1>1, <1>2, <2>3 DEF LegalKept
  <2>5. ASSUME NEW j \in DOMAIN ms
        PROVE \/ ms[j].item = IF j \in DOMAIN ns THEN ns[j].item ELSE Ids!No
              \/ ms[j].item = q /\ Fits(ms[j], ids)
    BY <1>1, <2>1, <2>2, <2>3 DEF SameItems
  <2> QED
    BY <1>2, <2>3, <2>4, <2>5
<1>5. CASE w.at # 0 /\ \E ls \in Ids!AttachLei(w.ns, w.at, item, read) :
                         \E os \in Ids!AttachCik(ls, w.at, n, item, read) : ms = [os EXCEPT ![w.at] = Ids!Enrich(@, q)]
  <2>1. PICK ls \in Ids!AttachLei(w.ns, w.at, item, read) :
          \E os \in Ids!AttachCik(ls, w.at, n, item, read) : ms = [os EXCEPT ![w.at] = Ids!Enrich(@, q)]
    BY <1>5
  <2>2. SameItems(w.ns, ls) /\ LegalKept(w.ns, ls) /\ FitsKept(w.ns, ls, ids)
    BY <1>2, <2>1, AttachLeiFits
  <2>3. PICK os \in Ids!AttachCik(ls, w.at, n, item, read) : ms = [os EXCEPT ![w.at] = Ids!Enrich(@, q)]
    BY <2>1
  <2>4. NodeList(ls) /\ w.at \in DOMAIN ls /\ w.at \in DOMAIN w.ns
    BY <1>1, <1>5, <2>2 DEF SameItems, Lands
  <2> DEFINE i == w.at
             before == n
  <2>5. SameItems(ls, os) /\ LegalKept(ls, os) /\ FitsKept(ls, os, ids)
    <3>1. os \in Ids!AttachCik(ls, i, before, item, read) /\ i \in DOMAIN ls
      BY <2>3, <2>4
    <3> HIDE DEF i, before
    <3> QED
      BY <2>4, <3>1, AttachCikFits
  <2>6. SameItems(w.ns, os) /\ LegalKept(w.ns, os) /\ FitsKept(w.ns, os, ids)
    BY <2>2, <2>5, OneThenOther
  <2>7. SameItems(ns, os) /\ LegalKept(ns, os)
    BY <1>1, <2>6, OneThenOther
  <2>8. i \in DOMAIN os /\ NodeList(os) /\ Shape(os[i])
    BY <2>4, <2>5 DEF SameItems, NodeList
  <2> DEFINE m == Ids!Enrich(os[i], q)
  <2>9. Shape(m) /\ m.item = q /\ m.cik = os[i].cik /\ m.lei = os[i].lei
    BY <2>8, Enriched
  <2>10. ms = [os EXCEPT ![i] = m]
    BY <2>3
  <2> HIDE DEF m
  <2>11. /\ NodeList(ms) /\ DOMAIN ms = DOMAIN os /\ ms[i] = m /\ \A j \in DOMAIN os \ {i} : ms[j] = os[j]
    <3> DEFINE S == {os[j] : j \in DOMAIN os} \cup {m}
    <3>1. os \in Seq(S)
      <4>1. {os[j] : j \in DOMAIN os} \subseteq S
        OBVIOUS
      <4> HIDE DEF S
      <4> QED
        BY <2>8, <4>1 DEF NodeList
    <3>2. m \in S
      OBVIOUS
    <3> HIDE DEF S
    <3>3. ms \in Seq(S) /\ DOMAIN ms = DOMAIN os /\ ms[i] = m /\ \A j \in DOMAIN os \ {i} : ms[j] = os[j]
      BY <2>8, <2>10, <3>1, <3>2
    <3>4. ms \in Seq({ms[j] : j \in DOMAIN ms})
      BY <3>3, ListOf
    <3>5. \A j \in DOMAIN ms : Shape(ms[j])
      BY <2>8, <2>9, <3>3 DEF NodeList
    <3> QED
      BY <3>3, <3>4, <3>5 DEF NodeList
  <2>12. LegalKept(ns, ms)
    BY <2>7, <2>8, <2>9, <2>11 DEF LegalKept, Legal
  <2>13. ASSUME NEW j \in DOMAIN ms
         PROVE  \/ ms[j].item = IF j \in DOMAIN ns THEN ns[j].item ELSE Ids!No
                \/ ms[j].item = q /\ (read /\ Known(item) => Fits(ms[j], ids))
    <3>1. CASE j # i
      BY <2>7, <2>11, <3>1 DEF SameItems
    <3>2. CASE j = i
      <4>1. ms[j].item = q
        BY <2>9, <2>11, <3>2
      <4>2. w.ns = ns /\ ns[i].item = q => i \in DOMAIN ns /\ ms[j].item = ns[j].item
        BY <2>4, <3>2, <4>1
      <4>3. Fits(w.ns[i], ids) => Fits(ms[j], ids)
        BY <2>4, <2>6, <2>9, <2>11, <3>2 DEF FitsKept, Fits
      <4>4. \/ w.ns = ns /\ ns[i].item = q
            \/ read => ~Known(item)
            \/ Fits(w.ns[i], ids)
        BY <1>1, <1>5 DEF Lands
      <4> QED
        BY <3>2, <4>1, <4>2, <4>3, <4>4
    <3> QED
      BY <3>1, <3>2
  <2> QED
    BY <2>7, <2>11, <2>12, <2>13 DEF SameItems
<1>6. \/ ms = w.ns
      \/ w.at = 0 /\ ms = Append(w.ns, New0)
      \/ w.at # 0 /\ \E ls \in Ids!AttachLei(w.ns, w.at, item, read) :
                       \E os \in Ids!AttachCik(ls, w.at, n, item, read) : ms = [os EXCEPT ![w.at] = Ids!Enrich(@, q)]
  BY DEF Ids!Settle
<1> QED
  BY <1>3, <1>4, <1>5, <1>6

-----------------------------------------------------------------------------
(* One call *)

\* What a call says of items: a node bears what it bore, or an item it fits.
ItemsFit ==
  \A j \in DOMAIN id_nodes' \ id_blind' :
    \/ id_nodes'[j].item = IF j \in DOMAIN id_nodes THEN id_nodes[j].item ELSE Ids!No
    \/ \E q \in DOMAIN IdItems :
         /\ id_nodes'[j].item = q
         /\ Known(IdItems[q]) => Fits(id_nodes'[j], IdItems[q].leis \cup IdItems[q].ciks)

LEMMA IdBegin == Ids!Init => IdInv
  BY DEF Ids!Init, IdInv, NodeList

\* What is written while EDGAR does not answer is set aside, the rest stays as it was.
LEMMA CallKeeps ==
  ASSUME IdInv, NEW read \in BOOLEAN, NodeList(id_nodes'), DOMAIN id_nodes \subseteq DOMAIN id_nodes',
         read => LegalKept(id_nodes, id_nodes'), Ids!Written(read)
  PROVE  /\ IdInv'
         /\ ~read => \A j \in DOMAIN id_nodes' \ id_blind' : j \in DOMAIN id_nodes /\ id_nodes'[j] = id_nodes[j]
<1>1. /\ DOMAIN id_nodes = 1 .. Len(id_nodes) /\ Len(id_nodes) \in Nat
      /\ DOMAIN id_nodes' = 1 .. Len(id_nodes') /\ Len(id_nodes') \in Nat
  BY ListLen DEF IdInv
<1>2. ASSUME ~read, NEW j \in DOMAIN id_nodes' \ id_blind'
      PROVE  j \notin id_blind /\ j \in DOMAIN id_nodes /\ id_nodes'[j] = id_nodes[j]
  <2>1. id_blind' = id_blind \cup {i \in DOMAIN id_nodes' : i > Len(id_nodes) \/ id_nodes'[i] # id_nodes[i]}
    BY <1>2 DEF Ids!Written
  <2>2. j \notin id_blind /\ ~(j > Len(id_nodes)) /\ id_nodes'[j] = id_nodes[j]
    BY <1>2, <2>1
  <2> QED
    BY <1>1, <2>2
<1>3. ASSUME read, NEW j \in DOMAIN id_nodes' \ id_blind' PROVE Legal(id_nodes'[j])
  <2>1. id_blind' = id_blind
    BY <1>3 DEF Ids!Written
  <2> QED
    BY <1>3, <2>1 DEF IdInv, LegalKept
<1>4. \A j \in DOMAIN id_nodes' \ id_blind' : Legal(id_nodes'[j])
  BY <1>2, <1>3 DEF IdInv
<1>5. IdInv'
  BY <1>4 DEF IdInv, Legal
<1> QED
  BY <1>2, <1>5

\* A call that leaves the items alone.
LEMMA PlainCallKeeps ==
  ASSUME IdInv, NEW read \in BOOLEAN, SameItems(id_nodes, id_nodes'), read => LegalKept(id_nodes, id_nodes'), Ids!Written(read)
  PROVE  IdInv' /\ ItemsFit
<1>1. IdInv'
  BY CallKeeps DEF SameItems
<1>2. ItemsFit
  BY DEF SameItems, ItemsFit
<1> QED
  BY <1>1, <1>2

LEMMA LoadKeeps ==
  ASSUME IdInv, IdFigures, NEW l \in Ids!Leis, Ids!Load(l)
  PROVE  IdInv' /\ ItemsFit
<1> DEFINE held  == Ids!With(id_nodes, "lei", l)
           fresh == Ids!New(IdGleif[l].legal, Ids!No, l, Ids!No, IdGleif[l].others, Ids!Glei)
           named(n) == [n EXCEPT !.name = IdGleif[l].legal, !.others = IdGleif[l].others, !.cred = Ids!Glei]
<1>1. /\ id_blind' = id_blind
      /\ id_nodes' = IF held = {} THEN Append(id_nodes, fresh)
                     ELSE [i \in DOMAIN id_nodes |-> IF i \in held THEN named(id_nodes[i]) ELSE id_nodes[i]]
  BY DEF Ids!Load
<1>2. NodeList(id_nodes)
  BY DEF IdInv
<1>3. SameItems(id_nodes, id_nodes') /\ LegalKept(id_nodes, id_nodes')
  <2>1. CASE held = {}
    <3>1. Shape(fresh) /\ fresh.item = Ids!No /\ fresh.cik = Ids!No
      BY Fresh
    <3>2. Legal(fresh)
      BY <3>1 DEF Legal
    <3> HIDE DEF fresh, held
    <3>3. LET ms == Append(id_nodes, fresh) IN SameItems(id_nodes, ms) /\ LegalKept(id_nodes, ms)
      BY <1>2, <3>1, <3>2, OneMore
    <3> QED
      BY <1>1, <2>1, <3>3
  <2>2. CASE held # {}
    <3>1. ASSUME NEW n, Shape(n) PROVE Shape(named(n)) /\ named(n).item = n.item /\ named(n).lei = n.lei /\ named(n).cik = n.cik
      <4> DEFINE a == IdGleif[l].legal
                 b == IdGleif[l].others
                 m == [n EXCEPT !.name = a, !.others = b, !.cred = Ids!Glei]
      <4>1. m = [n EXCEPT !.name = a, !.others = b, !.cred = Ids!Glei] /\ Shape(n) /\ named(n) = m
        BY <3>1
      <4> HIDE DEF a, b, m, named
      <4>2. m = [name |-> a, cik |-> n.cik, lei |-> n.lei, item |-> n.item, others |-> b,
                 former |-> n.former, cred |-> Ids!Glei]
        BY <4>1 DEF Shape
      <4> QED
        BY <4>1, <4>2 DEF Shape
    <3> HIDE DEF named, held
    <3>2. DOMAIN id_nodes' = DOMAIN id_nodes
          /\ \A i \in DOMAIN id_nodes : id_nodes'[i] = IF i \in held THEN named(id_nodes[i]) ELSE id_nodes[i]
      BY <1>1, <2>2
    <3>3. \A i \in DOMAIN id_nodes : Shape(id_nodes[i])
      BY <1>2 DEF NodeList
    <3>4. \A i \in DOMAIN id_nodes : /\ Shape(id_nodes'[i]) /\ id_nodes'[i].item = id_nodes[i].item
                                     /\ id_nodes'[i].lei = id_nodes[i].lei /\ id_nodes'[i].cik = id_nodes[i].cik
      BY <3>1, <3>2, <3>3
    <3>5. NodeList(id_nodes')
      <4>1. DOMAIN id_nodes = 1 .. Len(id_nodes) /\ Len(id_nodes) \in Nat
        BY <1>2, ListLen
      <4> DEFINE S == {id_nodes'[i] : i \in DOMAIN id_nodes'}
                 f == [i \in DOMAIN id_nodes |-> IF i \in held THEN named(id_nodes[i]) ELSE id_nodes[i]]
      <4>2. id_nodes' = f
        BY <1>1, <2>2
      <4>3. f = [i \in 1 .. Len(id_nodes) |-> f[i]]
        BY <4>1
      <4> HIDE DEF f
      <4>4. \A i \in 1 .. Len(id_nodes) : f[i] \in S
        BY <3>2, <4>1, <4>2
      <4> HIDE DEF S
      <4>5. f \in Seq(S)
        BY <4>1, <4>3, <4>4
      <4> QED
        BY <3>2, <3>4, <4>2, <4>5 DEF NodeList, S
    <3>6. SameItems(id_nodes, id_nodes')
      BY <3>2, <3>4, <3>5 DEF SameItems
    <3>7. LegalKept(id_nodes, id_nodes')
      BY <3>2, <3>4 DEF LegalKept, Legal
    <3> QED
      BY <3>6, <3>7
  <2> QED
    BY <2>1, <2>2
<1>4. Ids!Written(TRUE)
  BY <1>1 DEF Ids!Written
<1> QED
  BY <1>3, <1>4, PlainCallKeeps

LEMMA FilingKeeps ==
  ASSUME IdInv, IdFigures, NEW c \in Ids!Ciks, NEW read \in BOOLEAN, Ids!Filing(c, read)
  PROVE  IdInv' /\ ItemsFit
<1>1. PICK l \in {Ids!No} \cup {x \in Ids!Leis : <<x, c>> \in IdStates},
           name \in {id_filer[c].name} \cup id_filer[c].former, named \in BOOLEAN :
        \E w \in Ids!Upsert(id_nodes, name, c, l, named, {}, read) : id_nodes' = w.ns
  BY DEF Ids!Filing
<1>2. Ids!Written(read)
  BY DEF Ids!Filing
<1> DEFINE none == {}
<1>3. PICK w \in Ids!Upsert(id_nodes, name, c, l, named, none, read) : id_nodes' = w.ns
  BY <1>1
<1>4. NodeList(id_nodes) /\ none \in SUBSET DOMAIN id_nodes /\ c \in Ids!Ciks \cup {Ids!No} /\ c # Ids!No
      /\ (l # Ids!No => <<l, c>> \in IdStates)
  BY DEF IdInv, IdFigures
<1> HIDE DEF none
<1>5. /\ SameItems(id_nodes, w.ns)
      /\ read => LegalKept(id_nodes, w.ns)
  BY <1>3, <1>4, UpsertOutcome
<1> QED
  BY <1>2, <1>3, <1>5, PlainCallKeeps

LEMMA ListedKeeps ==
  ASSUME IdInv, IdFigures, NEW name, Ids!Listed(name)
  PROVE  IdInv' /\ ItemsFit
<1> DEFINE none == {}
           no   == FALSE
           yes  == TRUE
           c    == Ids!No
<1>1. PICK w \in Ids!Upsert(id_nodes, name, c, c, no, none, yes) : id_nodes' = w.ns
  BY DEF Ids!Listed
<1>2. Ids!Written(yes) /\ yes
  BY DEF Ids!Listed, Ids!Written
<1>3. NodeList(id_nodes) /\ none \in SUBSET DOMAIN id_nodes /\ c \in Ids!Ciks \cup {Ids!No} /\ no \in BOOLEAN /\ yes \in BOOLEAN
      /\ (c # Ids!No => <<c, c>> \in IdStates)
  BY DEF IdInv
<1> HIDE DEF none, no, yes, c
<1>4. /\ SameItems(id_nodes, w.ns)
      /\ yes => LegalKept(id_nodes, w.ns)
  <2>1. c = Ids!No
    BY DEF c
  <2> QED
    BY <1>1, <1>3, <2>1, UpsertOutcome
<1> QED
  BY <1>1, <1>2, <1>3, <1>4, PlainCallKeeps

LEMMA WikidataKeeps ==
  ASSUME IdInv, IdFigures, NEW q \in DOMAIN IdItems, NEW read \in BOOLEAN, Ids!Wikidata(q, read)
  PROVE  IdInv' /\ ItemsFit
<1> DEFINE ids == IdItems[q].leis \cup IdItems[q].ciks
<1>1. PICK related \in BOOLEAN, anchor \in 0 .. Len(id_nodes) :
        \E w \in Ids!Place(id_nodes, q, anchor, read) : id_nodes' \in Ids!Settle(w, q, related, read)
  BY DEF Ids!Wikidata
<1>2. PICK w \in Ids!Place(id_nodes, q, anchor, read) : id_nodes' \in Ids!Settle(w, q, related, read)
  BY <1>1
<1>3. Ids!Written(read) /\ NodeList(id_nodes)
  BY DEF Ids!Wikidata, IdInv
<1>4. /\ NodeList(id_nodes') /\ DOMAIN id_nodes \subseteq DOMAIN id_nodes' /\ LegalKept(id_nodes, id_nodes')
      /\ \A j \in DOMAIN id_nodes' :
           \/ id_nodes'[j].item = IF j \in DOMAIN id_nodes THEN id_nodes[j].item ELSE Ids!No
           \/ id_nodes'[j].item = q /\ (read /\ Known(IdItems[q]) => Fits(id_nodes'[j], ids))
  <2>1. Settled(id_nodes, id_nodes', q, read)
    BY <1>2, <1>3, SettleOutcome
  <2> QED
    BY <2>1 DEF Settled
<1>5. /\ IdInv'
      /\ ~read => \A j \in DOMAIN id_nodes' \ id_blind' : j \in DOMAIN id_nodes /\ id_nodes'[j] = id_nodes[j]
  BY <1>3, <1>4, CallKeeps
<1>6. ItemsFit
  BY <1>4, <1>5 DEF ItemsFit
<1> QED
  BY <1>5, <1>6

LEMMA IdNext == ASSUME IdInv, IdFigures, [Ids!Next]_(Ids!vars) PROVE IdInv' /\ ItemsFit
<1>1. CASE UNCHANGED <<id_nodes, id_blind>>
  <2>1. IdInv'
    BY <1>1 DEF IdInv, Legal
  <2> QED
    BY <1>1, <2>1 DEF ItemsFit
<1>2. CASE Ids!Next
  <2>1. \A r \in IdRenames : Ids!Rename(r[1], r[2]) => UNCHANGED <<id_nodes, id_blind>>
    BY DEF Ids!Rename
  <2> QED
    BY <1>1, <1>2, <2>1, LoadKeeps, FilingKeeps, ListedKeeps, WikidataKeeps DEF Ids!Next
<1> QED
  BY <1>1, <1>2 DEF Ids!vars

\* The invariant of the companies of one name.
THEOREM NamesInvariance == ASSUME IdFigures PROVE Ids!Spec => []IdInv
<1>1. IdInv /\ [Ids!Next]_(Ids!vars) => IdInv'
  BY IdNext
<1> QED
  BY <1>1, IdBegin, PTL DEF Ids!Spec

\* Where EDGAR answered, no node has the LEI of one company and the CIK of another, for
\* any registers, names, renames and items, and any number of calls in any order.
THEOREM AlwaysOneEntity == ASSUME IdFigures PROVE Ids!Spec => []OneLegalEntity
<1>1. IdInv => OneLegalEntity
  BY DEF IdInv, Legal, OneLegalEntity, Ids!OneLegalEntity
<1> QED
  BY <1>1, NamesInvariance, PTL

\* An item that states ids a register knows never goes to a node that bears ids and none
\* of the item's.
THEOREM ItemsGoHome == ASSUME IdFigures PROVE Ids!Spec => ItemGoesToItsEntity
<1>1. ASSUME IdInv, [Ids!Next]_(Ids!vars)
      PROVE  [\A i \in DOMAIN id_nodes' \ id_blind' :
                LET n == id_nodes'[i]
                    ids == IdItems[n.item].leis \cup IdItems[n.item].ciks
                IN n.item # Ids!No /\ (i > Len(id_nodes) \/ n.item # id_nodes[i].item) /\ ids \cap (Ids!Leis \cup Ids!Ciks) # {}
                   => {n.lei, n.cik} = {Ids!No} \/ {n.lei, n.cik} \cap ids # {}]_(Ids!vars)
  <2> SUFFICES ASSUME NEW i \in DOMAIN id_nodes' \ id_blind', id_nodes'[i].item # Ids!No,
                      i > Len(id_nodes) \/ id_nodes'[i].item # id_nodes[i].item, Known(IdItems[id_nodes'[i].item])
               PROVE  LET n == id_nodes'[i]
                          ids == IdItems[n.item].leis \cup IdItems[n.item].ciks
                      IN {n.lei, n.cik} = {Ids!No} \/ {n.lei, n.cik} \cap ids # {}
    BY DEF Known
  <2>1. ItemsFit
    BY <1>1, IdNext
  <2>2. DOMAIN id_nodes = 1 .. Len(id_nodes) /\ Len(id_nodes) \in Nat
    BY <1>1, ListLen DEF IdInv
  <2>3. i \in DOMAIN id_nodes => ~(i > Len(id_nodes))
    BY <2>2
  <2>4. \E q \in DOMAIN IdItems :
          /\ id_nodes'[i].item = q
          /\ Known(IdItems[q]) => Fits(id_nodes'[i], IdItems[q].leis \cup IdItems[q].ciks)
    BY <2>1, <2>3 DEF ItemsFit
  <2>5. Fits(id_nodes'[i], IdItems[id_nodes'[i].item].leis \cup IdItems[id_nodes'[i].item].ciks)
    BY <2>4
  <2> QED
    BY <2>5 DEF Fits
<1> QED
  BY <1>1, NamesInvariance, PTL DEF Ids!Spec, ItemGoesToItsEntity, Ids!ItemGoesToItsEntity

-----------------------------------------------------------------------------
(* The reports of a group *)

\* A scrape is through before the next is begun or anything is filed.
RepFigures == RepDays \in Nat /\ RepBeside = FALSE

Filed13 == [by : Reports!Holders, says : {"stake", "exit"}, day : Nat, event : Nat]
Stake   == [since : Nat, until : Nat, day : Nat, form : {"13DG", "4"}, why : {"none", "reported_by_parent"}]
Told13 == [nth : Nat, by : Reports!Holders, since : Nat, day : Nat, until : Nat, form : {"13DG"}]
Passing ==
  {Reports!Idle} \cup [at : {"write"}, whole : BOOLEAN, todo : SUBSET Told13]
  \cup [at : {"close"}, whole : BOOLEAN, on : Nat] \cup [at : {"form4"}, whole : BOOLEAN]

RepTyped ==
  /\ rep_feed \in Seq(Filed13)
  /\ rep_form4 \subseteq Reports!Holders
  /\ rep_spells \in [Reports!Holders -> Seq(Stake)]
  /\ rep_claims \in [Reports!Holders -> {"none", "open", "ended"}]
  /\ rep_pass \in [Reports!Scrapes -> Passing]

OnePass == \A s, t \in Reports!Scrapes : rep_pass[s] # Reports!Idle /\ rep_pass[t] # Reports!Idle => s = t

\* The close acts on what it read, and leaves no holding told twice.
ToldOnce ==
  /\ Reports!Quiet => ~Reports!Replaced
  /\ \A s \in Reports!Scrapes :
       /\ rep_pass[s].at = "close" => (rep_pass[s].on # 0 <=> Reports!Replaced)
       /\ rep_pass[s].at = "form4" => ~Reports!Replaced

\* The claim decides whose the edge is, in the middle of a scrape too.
EdgeIsTheClaims ==
  \A h \in Reports!Holders :
    rep_claims[h] = "open" => \A i \in Reports!OpenOf(h) : rep_spells[h][i].form = "13DG"

RepInv == RepTyped /\ OnePass /\ ToldOnce /\ EdgeIsTheClaims

-----------------------------------------------------------------------------
\* The statements a scrape takes from what it read.
LEMMA StatementsTyped ==
  ASSUME RepTyped, NEW who \in SUBSET Reports!Holders, NEW seen \in SUBSET DOMAIN rep_feed
  PROVE  Reports!Statements(who, seen) \subseteq Told13
<1>1. DOMAIN rep_feed = 1 .. Len(rep_feed) /\ Len(rep_feed) \in Nat
  BY DEF RepTyped
<1>2. \A i \in DOMAIN rep_feed : rep_feed[i].by \in Reports!Holders /\ rep_feed[i].day \in Nat /\ rep_feed[i].event \in Nat
  <2>1. \A i \in DOMAIN rep_feed : rep_feed[i] \in Filed13
    BY DEF RepTyped
  <2> QED
    BY <2>1 DEF Filed13
<1>3. ASSUME NEW h \in Reports!Holders, Reports!StakeAt(h, seen) # 0
      PROVE  Reports!StakeAt(h, seen) \in DOMAIN rep_feed
  <2> DEFINE stakes == {i \in seen : rep_feed[i].by = h /\ rep_feed[i].says = "stake"}
  <2>1. stakes \in SUBSET Nat /\ stakes # {} /\ Reports!StakeAt(h, seen) = CHOOSE i \in stakes : \A j \in stakes : i <= j
    BY <1>1, <1>3 DEF Reports!StakeAt
  <2> HIDE DEF stakes
  <2>2. Reports!StakeAt(h, seen) \in stakes
    BY <2>1, Least
  <2> QED
    BY <2>2 DEF stakes
<1>4. ASSUME NEW h \in Reports!Holders PROVE Reports!ClosedSince(h, seen) \in Nat
  <2> DEFINE exits == {i \in seen : rep_feed[i].by = h /\ rep_feed[i].says = "exit" /\ i < Reports!StakeAt(h, seen)}
  <2>1. Reports!ClosedSince(h, seen) = IF exits = {} THEN 0 ELSE rep_feed[CHOOSE i \in exits : \A j \in exits : j <= i].event
    BY DEF Reports!ClosedSince
  <2>2. exits \in SUBSET Nat /\ \A m \in exits : m <= Len(rep_feed)
    BY <1>1
  <2>3. exits \subseteq DOMAIN rep_feed
    OBVIOUS
  <2> HIDE DEF exits
  <2>4. exits # {} => (CHOOSE i \in exits : \A j \in exits : j <= i) \in exits
    BY <1>1, <2>2, Greatest
  <2> QED
    BY <1>2, <2>1, <2>3, <2>4
<1>5. ASSUME NEW i \in DOMAIN rep_feed PROVE Reports!Statement(i, seen) \in Told13
  BY <1>1, <1>2, <1>4 DEF Reports!Statement, Told13
<1> QED
  BY <1>3, <1>5 DEF Reports!Statements

\* What a scrape opens is of the feed.
LEMMA SeenFiled == \A s, skipped : Reports!Seen(s, skipped) \subseteq DOMAIN rep_feed
  BY DEF Reports!Seen

\* A statement's write: the other holder's edges are left alone, and after a
\* statement without an end every open edge of its holder is of its form.
LEMMA EdgeWritten ==
  ASSUME RepTyped, NEW h \in Reports!Holders, NEW s,
         s.since \in Nat, s.until \in Nat, s.day \in Nat, s.form \in {"13DG", "4"}, Reports!WriteEdge(h, s)
  PROVE  /\ rep_spells' \in [Reports!Holders -> Seq(Stake)]
         /\ \A g \in Reports!Holders \ {h} : rep_spells'[g] = rep_spells[g]
         /\ s.until = 0 => \A i \in Reports!OpenOf(h)' : rep_spells'[h][i].form = s.form
<1> DEFINE at == IF Reports!Candidates(h, s) # {} THEN Reports!Candidates(h, s) ELSE Reports!RuleClosed(h, s)
           old == rep_spells[h]
           drawn == [since |-> s.since, until |-> s.until, day |-> s.day, form |-> s.form, why |-> "none"]
           new == IF at = {} THEN Append(old, drawn)
                  ELSE [i \in DOMAIN old |-> IF i \in at THEN Reports!Restated(old[i], s) ELSE old[i]]
<1>1. rep_spells' = [rep_spells EXCEPT ![h] = new]
  BY DEF Reports!WriteEdge
<1>2. old \in Seq(Stake) /\ drawn \in Stake
  BY DEF RepTyped, Stake
<1>3. \A e \in Stake : Reports!Restated(e, s) \in Stake /\ Reports!Restated(e, s).form = s.form
  <2> TAKE e \in Stake
  <2>1. Reports!Earliest(e.since, s.since) \in Nat
    BY DEF Stake, Reports!Earliest
  <2>2. Reports!Restated(e, s) \in Stake
    BY <2>1 DEF Stake, Reports!Restated
  <2>3. Reports!Restated(e, s).form = s.form
    BY DEF Stake, Reports!Restated
  <2> QED
    BY <2>2, <2>3
<1>4. s.until = 0 => Reports!Candidates(h, s) = Reports!OpenOf(h)
  BY DEF Reports!Candidates
<1>o. Reports!OpenOf(h) = {i \in DOMAIN old : Reports!Open(old[i])}
  BY DEF Reports!OpenOf
<1>5. s.until = 0 /\ at = {} => Reports!OpenOf(h) = {}
  BY <1>4
<1>6. s.until = 0 /\ at # {} => Reports!OpenOf(h) \subseteq at
  BY <1>4
<1> HIDE DEF at, drawn
<1>7. new \in Seq(Stake)
  <2>1. CASE at = {}
    BY <1>2, <2>1
  <2>2. CASE at # {}
    <3>1. \A i \in DOMAIN old : old[i] \in Stake
      BY <1>2
    <3>2. DOMAIN old = 1 .. Len(old) /\ Len(old) \in Nat
      BY <1>2
    <3> QED
      BY <1>3, <2>2, <3>1, <3>2
  <2> QED
    BY <2>1, <2>2
<1>8. ASSUME s.until = 0, NEW i \in DOMAIN new, Reports!Open(new[i]) PROVE new[i].form = s.form
  <2>1. CASE at = {}
    <3>1. new = Append(old, drawn)
      BY <2>1
    <3>2. i \in 1 .. Len(old) + 1 /\ Len(old) \in Nat
      BY <1>2, <1>8, <3>1
    <3>3. i # Len(old) + 1 => i \in DOMAIN old /\ new[i] = old[i]
      BY <1>2, <3>1, <3>2
    <3>4. i = Len(old) + 1
      BY <1>5, <1>8, <1>o, <2>1, <3>3
    <3> QED
      BY <1>2, <3>1, <3>4 DEF drawn
  <2>2. CASE at # {}
    <3>1. i \in DOMAIN old /\ new[i] = IF i \in at THEN Reports!Restated(old[i], s) ELSE old[i]
      BY <1>8, <2>2
    <3>2. i \in at
      BY <1>6, <1>8, <1>o, <2>2, <3>1
    <3> QED
      BY <1>2, <1>3, <3>1, <3>2
  <2> QED
    BY <2>1, <2>2
<1> HIDE DEF new
<1>9. rep_spells \in [Reports!Holders -> Seq(Stake)]
  BY DEF RepTyped
<1>10. rep_spells'[h] = new
  BY <1>1, <1>9
<1>11. s.until = 0 => \A i \in Reports!OpenOf(h)' : rep_spells'[h][i].form = s.form
  BY <1>8, <1>10 DEF Reports!OpenOf, Reports!Open
<1> QED
  BY <1>1, <1>7, <1>9, <1>11

\* The holding the rule compares is one, if there is any.
LEMMA HeldIsHeld ==
  ASSUME RepTyped, NEW h \in Reports!Holders, Reports!Held(h) # 0
  PROVE  Reports!Held(h) \in DOMAIN rep_spells[h] /\ Reports!Reports(rep_spells[h][Reports!Held(h)])
<1> DEFINE open == {i \in DOMAIN rep_spells[h] : Reports!Reports(rep_spells[h][i])}
<1>1. Reports!Held(h) = IF open = {} THEN 0 ELSE CHOOSE i \in open : \A j \in open : j <= i
  BY DEF Reports!Held
<1>2. DOMAIN rep_spells[h] = 1 .. Len(rep_spells[h]) /\ Len(rep_spells[h]) \in Nat
  BY DEF RepTyped
<1>3. open \in SUBSET Nat /\ \A m \in open : m <= Len(rep_spells[h])
  BY <1>2
<1> HIDE DEF open
<1>4. open # {} => (CHOOSE i \in open : \A j \in open : j <= i) \in open
  BY <1>2, <1>3, Greatest
<1>5. Reports!Held(h) \in open
  BY <1>1, <1>4
<1> QED
  BY <1>5 DEF open

LEMMA NoneHeld ==
  ASSUME NEW h, \A i \in Reports!OpenOf(h) : rep_spells[h][i].form # "13DG"
  PROVE  Reports!Held(h) = 0
  BY DEF Reports!Held, Reports!Reports, Reports!OpenOf

\* Where the rule closes, it closes on a day.
LEMMA ClosedOnADay ==
  ASSUME RepTyped, Reports!Replaced
  PROVE  Reports!ReplacedOn \in Nat \ {0}
<1>1. "parent" \in Reports!Holders /\ "sub" \in Reports!Holders
  BY DEF Reports!Holders
<1> DEFINE p == rep_spells["parent"][Reports!Held("parent")]
           q == rep_spells["sub"][Reports!Held("sub")]
<1>2. Reports!Held("parent") \in DOMAIN rep_spells["parent"] /\ Reports!Held("sub") \in DOMAIN rep_spells["sub"]
  BY <1>1, HeldIsHeld DEF Reports!Replaced
<1>3. rep_spells["parent"] \in Seq(Stake) /\ rep_spells["sub"] \in Seq(Stake)
  BY <1>1 DEF RepTyped
<1>4. p \in Stake /\ q \in Stake
  BY <1>2, <1>3
<1>5. p.day \in Nat /\ p.since \in Nat /\ q.day \in Nat /\ p.day > q.day
  BY <1>4 DEF Stake, Reports!Replaced
<1>6. Reports!ReplacedOn = IF p.since > q.day THEN p.since ELSE p.day
  BY DEF Reports!ReplacedOn
<1> QED
  BY <1>5, <1>6

-----------------------------------------------------------------------------
(* One step *)

\* The rule sees the holdings and who controls whom, nothing else.
LEMMA SameReplaced ==
  ASSUME rep_spells' = rep_spells, rep_control' = rep_control
  PROVE  Reports!Replaced' <=> Reports!Replaced
  BY DEF Reports!Replaced, Reports!Held

\* A holder with nothing reported has nothing told twice.
LEMMA NoneReplaced ==
  ASSUME NEW h \in Reports!Holders, Reports!Held(h) = 0
  PROVE  ~Reports!Replaced
  BY DEF Reports!Holders, Reports!Replaced

\* One scrape goes on while the others wait.
LEMMA ScrapeGoesOn ==
  ASSUME RepTyped, NEW s \in Reports!Scrapes, \A t \in Reports!Scrapes \ {s} : rep_pass[t] = Reports!Idle,
         NEW v \in Passing, rep_pass' = [rep_pass EXCEPT ![s] = v],
         v.at = "close" => (v.on # 0 <=> Reports!Replaced'),
         v.at = "form4" \/ v = Reports!Idle => ~Reports!Replaced'
  PROVE  rep_pass' \in [Reports!Scrapes -> Passing] /\ OnePass' /\ ToldOnce'
<1>1. rep_pass \in [Reports!Scrapes -> Passing]
  BY DEF RepTyped
<1>2. rep_pass' \in [Reports!Scrapes -> Passing] /\ rep_pass'[s] = v /\ \A t \in Reports!Scrapes \ {s} : rep_pass'[t] = Reports!Idle
  BY <1>1
<1>3. OnePass'
  BY <1>2 DEF OnePass
<1>4. Reports!Quiet' => v = Reports!Idle
  BY <1>2 DEF Reports!Quiet
<1>5. Reports!Idle.at = "idle"
  BY DEF Reports!Idle
<1>6. ASSUME NEW t \in Reports!Scrapes
      PROVE  /\ rep_pass'[t].at = "close" => (rep_pass'[t].on # 0 <=> Reports!Replaced')
             /\ rep_pass'[t].at = "form4" => ~Reports!Replaced'
  BY <1>2, <1>5
<1>7. ToldOnce'
  BY <1>4, <1>6 DEF ToldOnce
<1> QED
  BY <1>2, <1>3, <1>7

\* Who is at work is alone.
LEMMA Alone ==
  ASSUME RepInv, NEW s \in Reports!Scrapes, rep_pass[s].at # "idle"
  PROVE  \A t \in Reports!Scrapes \ {s} : rep_pass[t] = Reports!Idle
<1>1. rep_pass[s] # Reports!Idle
  BY DEF Reports!Idle
<1> QED
  BY <1>1 DEF RepInv, OnePass

LEMMA RepBegin == Reports!Init => RepInv
<1> SUFFICES ASSUME Reports!Init PROVE RepInv
  OBVIOUS
<1>1. RepTyped
  BY DEF Reports!Init, RepTyped, Passing
<1>2. \A h \in Reports!Holders : rep_spells[h] = <<>> /\ Reports!OpenOf(h) = {}
  BY DEF Reports!Init, Reports!OpenOf
<1>3. "sub" \in Reports!Holders /\ Reports!Held("sub") = 0
  BY <1>2, NoneHeld DEF Reports!Holders
<1>4. ~Reports!Replaced
  BY <1>3, NoneReplaced
<1>5. \A s \in Reports!Scrapes : rep_pass[s] = Reports!Idle
  BY DEF Reports!Init
<1>6. OnePass /\ ToldOnce
  BY <1>4, <1>5 DEF OnePass, ToldOnce, Reports!Idle
<1>7. EdgeIsTheClaims
  BY <1>2 DEF EdgeIsTheClaims
<1> QED
  BY <1>1, <1>6, <1>7 DEF RepInv

\* What leaves the edges, the claims and the scrapes alone.
LEMMA RepStill ==
  ASSUME RepInv, rep_feed' \in Seq(Filed13),
         rep_form4' \subseteq Reports!Holders, UNCHANGED <<rep_control, rep_spells, rep_claims, rep_pass>>
  PROVE  RepInv'
<1>1. RepTyped'
  BY DEF RepInv, RepTyped
<1>2. OnePass' /\ ToldOnce'
  BY SameReplaced DEF RepInv, OnePass, ToldOnce, Reports!Quiet
<1>3. EdgeIsTheClaims'
  BY DEF RepInv, EdgeIsTheClaims, Reports!OpenOf
<1> QED
  BY <1>1, <1>2, <1>3 DEF RepInv

LEMMA FileKeeps ==
  ASSUME RepInv, RepFigures, NEW h \in Reports!Holders, NEW says \in {"stake", "exit"},
         NEW day \in 1 .. RepDays, NEW event \in 0 .. RepDays, Reports!File(h, says, day, event)
  PROVE  RepInv'
<1> DEFINE f == [by |-> h, says |-> says, day |-> day, event |-> event]
<1>1. rep_feed' = <<f>> \o rep_feed /\ UNCHANGED <<rep_form4, rep_control, rep_spells, rep_claims, rep_pass>>
  BY DEF Reports!File
<1>2. f \in Filed13
  BY DEF RepFigures, Filed13
<1>3. rep_feed \in Seq(Filed13)
  BY DEF RepInv, RepTyped
<1> HIDE DEF f
<1>4. rep_feed' \in Seq(Filed13)
  BY <1>1, <1>2, <1>3
<1> QED
  BY <1>1, <1>4, RepStill DEF RepInv, RepTyped

LEMMA FileForm4Keeps ==
  ASSUME RepInv, NEW h \in Reports!Holders, Reports!FileForm4(h)
  PROVE  RepInv'
  BY RepStill DEF Reports!FileForm4, RepInv, RepTyped

\* A scrape begins: what it read is still to be written.
LEMMA ReadKeeps ==
  ASSUME RepInv, RepFigures, NEW s \in Reports!Scrapes, Reports!Read(s)
  PROVE  RepInv'
<1>1. PICK skipped \in SUBSET DOMAIN rep_feed :
        rep_pass' = [rep_pass EXCEPT ![s] =
            [at |-> "write", whole |-> skipped = {},
             todo |-> Reports!Statements(IF s = "issuer" THEN Reports!Holders ELSE {s}, Reports!Seen(s, skipped))]]
  BY DEF Reports!Read
<1>2. \A t \in Reports!Scrapes : rep_pass[t] = Reports!Idle
  BY DEF Reports!Read, Reports!Calm, Reports!Quiet, RepFigures
<1>3. UNCHANGED <<rep_feed, rep_form4, rep_control, rep_spells, rep_claims>>
  BY DEF Reports!Read
<1> DEFINE todo == Reports!Statements(IF s = "issuer" THEN Reports!Holders ELSE {s}, Reports!Seen(s, skipped))
           v == [at |-> "write", whole |-> skipped = {}, todo |-> todo]
<1>4. todo \subseteq Told13
  <2>1. (IF s = "issuer" THEN Reports!Holders ELSE {s}) \subseteq Reports!Holders
    BY DEF Reports!Scrapes, Reports!Holders
  <2> QED
    BY <2>1, SeenFiled, StatementsTyped DEF RepInv
<1> HIDE DEF todo
<1>5. v \in Passing /\ v.at = "write" /\ v # Reports!Idle
  BY <1>4 DEF Passing, Reports!Idle
<1>6. rep_pass' = [rep_pass EXCEPT ![s] = v]
  BY <1>1 DEF todo
<1> HIDE DEF v
<1>7. rep_pass' \in [Reports!Scrapes -> Passing] /\ OnePass' /\ ToldOnce'
  BY <1>2, <1>5, <1>6, ScrapeGoesOn DEF RepInv
<1>8. RepTyped' /\ EdgeIsTheClaims'
  BY <1>3, <1>7 DEF RepInv, RepTyped, EdgeIsTheClaims, Reports!OpenOf
<1> QED
  BY <1>7, <1>8 DEF RepInv

LEMMA ReadListKeeps ==
  ASSUME RepInv, RepFigures, Reports!ReadList
  PROVE  RepInv'
<1> DEFINE v == [at |-> "write", whole |-> TRUE, todo |-> {}]
<1>1. rep_pass' = [rep_pass EXCEPT !["parent"] = v] /\ UNCHANGED <<rep_feed, rep_form4, rep_spells, rep_claims>>
  BY DEF Reports!ReadList
<1>2. \A t \in Reports!Scrapes : rep_pass[t] = Reports!Idle
  BY DEF Reports!ReadList, Reports!Calm, Reports!Quiet, RepFigures
<1>3. v \in Passing /\ v.at = "write" /\ v # Reports!Idle
  BY DEF Passing, Reports!Idle
<1>4. "parent" \in Reports!Scrapes
  BY DEF Reports!Scrapes
<1> HIDE DEF v
<1>5. rep_pass' \in [Reports!Scrapes -> Passing] /\ OnePass' /\ ToldOnce'
  BY <1>1, <1>2, <1>3, <1>4, ScrapeGoesOn DEF RepInv
<1>6. RepTyped' /\ EdgeIsTheClaims'
  BY <1>1, <1>5 DEF RepInv, RepTyped, EdgeIsTheClaims, Reports!OpenOf
<1> QED
  BY <1>5, <1>6 DEF RepInv

\* A statement is written: with no end it takes every open edge of its holder.
LEMMA WriteKeeps ==
  ASSUME RepInv, NEW s \in Reports!Scrapes, Reports!Write(s)
  PROVE  RepInv'
<1>1. PICK stmt \in rep_pass[s].todo :
        /\ rep_claims' = [rep_claims EXCEPT ![stmt.by] = IF stmt.until = 0 THEN "open" ELSE "ended"]
        /\ Reports!WriteEdge(stmt.by, stmt)
        /\ rep_pass' = [rep_pass EXCEPT ![s].todo = @ \ {stmt}]
  BY DEF Reports!Write
<1>2. rep_pass[s].at = "write" /\ UNCHANGED <<rep_feed, rep_form4, rep_control>>
  BY DEF Reports!Write
<1>3. rep_pass \in [Reports!Scrapes -> Passing] /\ rep_pass[s] \in [at : {"write"}, whole : BOOLEAN, todo : SUBSET Told13]
  BY <1>2 DEF RepInv, RepTyped, Passing, Reports!Idle
<1>4. stmt \in Told13
  BY <1>3
<1>5. stmt.by \in Reports!Holders /\ stmt.since \in Nat /\ stmt.until \in Nat /\ stmt.day \in Nat /\ stmt.form = "13DG"
  BY <1>4 DEF Told13
<1>6. /\ rep_spells' \in [Reports!Holders -> Seq(Stake)]
      /\ \A g \in Reports!Holders \ {stmt.by} : rep_spells'[g] = rep_spells[g]
      /\ stmt.until = 0 => \A i \in Reports!OpenOf(stmt.by)' : rep_spells'[stmt.by][i].form = "13DG"
  BY <1>1, <1>5, EdgeWritten DEF RepInv
<1> DEFINE v == [rep_pass[s] EXCEPT !.todo = @ \ {stmt}]
<1>7. v \in Passing /\ v.at = "write" /\ v # Reports!Idle
  BY <1>3 DEF Passing, Reports!Idle
<1>8. rep_pass' = [rep_pass EXCEPT ![s] = v]
  BY <1>1
<1> HIDE DEF v
<1>9. rep_pass' \in [Reports!Scrapes -> Passing] /\ OnePass' /\ ToldOnce'
  BY <1>2, <1>7, <1>8, Alone, ScrapeGoesOn DEF RepInv
<1>10. rep_claims' \in [Reports!Holders -> {"none", "open", "ended"}]
  BY <1>1 DEF RepInv, RepTyped
<1>11. ASSUME NEW h \in Reports!Holders, rep_claims'[h] = "open", NEW i \in Reports!OpenOf(h)'
       PROVE  rep_spells'[h][i].form = "13DG"
  <2>1. CASE h = stmt.by
    <3>1. stmt.until = 0
      BY <1>1, <1>5, <1>11, <2>1 DEF RepInv, RepTyped
    <3> QED
      BY <1>6, <1>11, <2>1, <3>1
  <2>2. CASE h # stmt.by
    <3>1. rep_claims[h] = "open" /\ rep_spells'[h] = rep_spells[h]
      BY <1>1, <1>6, <1>11, <2>2 DEF RepInv, RepTyped
    <3>2. i \in Reports!OpenOf(h)
      BY <1>11, <3>1 DEF Reports!OpenOf
    <3> QED
      BY <3>1, <3>2 DEF RepInv, EdgeIsTheClaims
  <2> QED
    BY <2>1, <2>2
<1>12. EdgeIsTheClaims'
  BY <1>11 DEF EdgeIsTheClaims
<1>13. RepTyped'
  BY <1>2, <1>6, <1>9, <1>10 DEF RepInv, RepTyped
<1> QED
  BY <1>9, <1>12, <1>13 DEF RepInv

\* The rule reads the holdings: where the parent's is the newer, the subsidiary's ends.
LEMMA CloseReadKeeps ==
  ASSUME RepInv, NEW s \in Reports!Scrapes, Reports!CloseRead(s)
  PROVE  RepInv'
<1> DEFINE held == Reports!Held("parent") # 0 /\ Reports!Held("sub") # 0
           v == IF ~held THEN [at |-> "form4", whole |-> rep_pass[s].whole]
                ELSE [at |-> "close", whole |-> rep_pass[s].whole, on |-> IF Reports!Replaced THEN Reports!ReplacedOn ELSE 0]
<1>1. rep_pass[s].at = "write" /\ UNCHANGED <<rep_feed, rep_form4, rep_control, rep_spells, rep_claims>>
  BY DEF Reports!CloseRead
<1>2. rep_pass' = [rep_pass EXCEPT ![s] = v]
  BY DEF Reports!CloseRead
<1>3. rep_pass[s].whole \in BOOLEAN
  BY <1>1 DEF RepInv, RepTyped, Passing, Reports!Idle
<1>4. Reports!Replaced' <=> Reports!Replaced
  BY <1>1, SameReplaced
<1>5. Reports!Replaced => held /\ Reports!ReplacedOn \in Nat \ {0}
  BY ClosedOnADay DEF RepInv, Reports!Replaced
<1> HIDE DEF held
<1>6. /\ v \in Passing /\ v # Reports!Idle
      /\ v.at = "close" => (v.on # 0 <=> Reports!Replaced')
      /\ v.at = "form4" => ~Reports!Replaced'
  <2>1. CASE held
    <3>1. v = [at |-> "close", whole |-> rep_pass[s].whole, on |-> IF Reports!Replaced THEN Reports!ReplacedOn ELSE 0]
      BY <2>1
    <3> QED
      BY <1>3, <1>4, <1>5, <3>1 DEF Passing, Reports!Idle
  <2>2. CASE ~held
    <3>1. v = [at |-> "form4", whole |-> rep_pass[s].whole]
      BY <2>2
    <3> QED
      BY <1>3, <1>4, <1>5, <2>2, <3>1 DEF Passing, Reports!Idle
  <2> QED
    BY <2>1, <2>2
<1> HIDE DEF v
<1>7. rep_pass' \in [Reports!Scrapes -> Passing] /\ OnePass' /\ ToldOnce'
  BY <1>1, <1>2, <1>6, Alone, ScrapeGoesOn DEF RepInv
<1>8. RepTyped' /\ EdgeIsTheClaims'
  BY <1>1, <1>7 DEF RepInv, RepTyped, EdgeIsTheClaims, Reports!OpenOf
<1> QED
  BY <1>7, <1>8 DEF RepInv

\* The close: the subsidiary's open holdings end, or none does.
LEMMA CloseKeeps ==
  ASSUME RepInv, NEW s \in Reports!Scrapes, Reports!Close(s)
  PROVE  RepInv'
<1> DEFINE on == rep_pass[s].on
           v == [at |-> "form4", whole |-> rep_pass[s].whole]
<1>1. /\ rep_pass[s].at = "close" /\ UNCHANGED <<rep_feed, rep_form4, rep_control, rep_claims>>
      /\ rep_spells' = [h \in Reports!Holders |-> [i \in DOMAIN rep_spells[h] |->
                  Reports!Ended(rep_spells[h][i], IF h = "sub" THEN on ELSE 0)]]
      /\ rep_pass' = [rep_pass EXCEPT ![s] = v]
  BY DEF Reports!Close
<1>2. rep_pass[s] \in [at : {"close"}, whole : BOOLEAN, on : Nat]
  BY <1>1 DEF RepInv, RepTyped, Passing, Reports!Idle
<1>3. on \in Nat /\ v \in Passing /\ v.at = "form4"
  BY <1>2 DEF Passing
<1> HIDE DEF on, v
<1>4. \A e \in Stake, d \in Nat : /\ Reports!Ended(e, d) \in Stake /\ Reports!Ended(e, d).form = e.form
                                  /\ Reports!Ended(e, d).day = e.day
                                  /\ Reports!Open(Reports!Ended(e, d)) <=> (Reports!Open(e) /\ d = 0)
  BY DEF Stake, Reports!Ended, Reports!Open
<1>5. \A h \in Reports!Holders : /\ rep_spells[h] \in Seq(Stake) /\ \A i \in DOMAIN rep_spells[h] : rep_spells[h][i] \in Stake
                                 /\ DOMAIN rep_spells[h] = 1 .. Len(rep_spells[h]) /\ Len(rep_spells[h]) \in Nat
  BY DEF RepInv, RepTyped
<1>6. \A h \in Reports!Holders : rep_spells'[h] = [i \in DOMAIN rep_spells[h] |-> Reports!Ended(rep_spells[h][i], IF h = "sub" THEN on ELSE 0)]
  BY <1>1
<1>7. ASSUME NEW h \in Reports!Holders PROVE rep_spells'[h] \in Seq(Stake)
  <2>1. \A i \in DOMAIN rep_spells[h] : Reports!Ended(rep_spells[h][i], IF h = "sub" THEN on ELSE 0) \in Stake
    BY <1>3, <1>4, <1>5
  <2>2. \A n \in Nat : \A f : f = [i \in 1 .. n |-> f[i]] /\ (\A i \in 1 .. n : f[i] \in Stake) => f \in Seq(Stake)
    OBVIOUS
  <2> DEFINE n == Len(rep_spells[h])
  <2>3. n \in Nat /\ DOMAIN rep_spells[h] = 1 .. n
    BY <1>5
  <2> DEFINE f == [i \in DOMAIN rep_spells[h] |-> Reports!Ended(rep_spells[h][i], IF h = "sub" THEN on ELSE 0)]
  <2>4. rep_spells'[h] = f
    BY <1>6
  <2> HIDE DEF n
  <2>5. f = [i \in 1 .. n |-> f[i]]
    BY <2>3
  <2>6. \A i \in 1 .. n : f[i] \in Stake
    BY <2>1, <2>3
  <2> HIDE DEF f
  <2> QED
    BY <2>2, <2>3, <2>4, <2>5, <2>6
<1>8. rep_spells' \in [Reports!Holders -> Seq(Stake)]
  BY <1>1, <1>7
<1>9. ASSUME NEW h \in Reports!Holders
      PROVE  /\ DOMAIN rep_spells'[h] = DOMAIN rep_spells[h]
             /\ \A i \in DOMAIN rep_spells[h] :
                  /\ rep_spells'[h][i].form = rep_spells[h][i].form
                  /\ rep_spells'[h][i].day = rep_spells[h][i].day
                  /\ Reports!Open(rep_spells'[h][i]) <=> (Reports!Open(rep_spells[h][i]) /\ (IF h = "sub" THEN on ELSE 0) = 0)
  <2> DEFINE d == IF h = "sub" THEN on ELSE 0
  <2>1. d \in Nat /\ rep_spells'[h] = [i \in DOMAIN rep_spells[h] |-> Reports!Ended(rep_spells[h][i], d)]
    BY <1>3, <1>6
  <2> HIDE DEF d
  <2>2. \A i \in DOMAIN rep_spells[h] : rep_spells[h][i] \in Stake /\ rep_spells'[h][i] = Reports!Ended(rep_spells[h][i], d)
    BY <1>5, <2>1
  <2>3. DOMAIN rep_spells'[h] = DOMAIN rep_spells[h]
    BY <2>1
  <2>4. \A i \in DOMAIN rep_spells[h] : /\ rep_spells'[h][i].form = rep_spells[h][i].form
                                        /\ rep_spells'[h][i].day = rep_spells[h][i].day
                                        /\ Reports!Open(rep_spells'[h][i]) <=> (Reports!Open(rep_spells[h][i]) /\ d = 0)
    <3> TAKE i \in DOMAIN rep_spells[h]
    <3>1. rep_spells[h][i] \in Stake /\ rep_spells'[h][i] = Reports!Ended(rep_spells[h][i], d) /\ d \in Nat
      BY <2>1, <2>2
    <3> QED
      BY <1>4, <3>1
  <2> QED
    BY <2>3, <2>4 DEF d
<1>10. ~Reports!Replaced'
  <2>h. "parent" \in Reports!Holders /\ "sub" \in Reports!Holders
    BY DEF Reports!Holders
  <2>1. CASE on # 0
    <3>1. \A i \in DOMAIN rep_spells'["sub"] : ~Reports!Reports(rep_spells'["sub"][i])
      BY <1>9, <2>1, <2>h DEF Reports!Reports
    <3>2. Reports!Held("sub")' = 0
      BY <3>1 DEF Reports!Held
    <3> QED
      BY <3>2 DEF Reports!Replaced
  <2>2. CASE on = 0
    <3>1. ~Reports!Replaced
      BY <1>1, <2>2 DEF RepInv, ToldOnce, on
    <3>2. ASSUME NEW h \in Reports!Holders PROVE Reports!Held(h)' = Reports!Held(h)
      <4>1. {i \in DOMAIN rep_spells'[h] : Reports!Reports(rep_spells'[h][i])} = {i \in DOMAIN rep_spells[h] : Reports!Reports(rep_spells[h][i])}
        BY <1>9, <2>2 DEF Reports!Reports
      <4> DEFINE open == {i \in DOMAIN rep_spells[h] : Reports!Reports(rep_spells[h][i])}
      <4>2. Reports!Held(h) = IF open = {} THEN 0 ELSE CHOOSE i \in open : \A j \in open : j <= i
        BY DEF Reports!Held
      <4>3. Reports!Held(h)' = IF open' = {} THEN 0 ELSE CHOOSE i \in open' : \A j \in open' : j <= i
        BY DEF Reports!Held
      <4>4. open' = open
        BY <4>1
      <4> HIDE DEF open
      <4> QED
        BY <4>2, <4>3, <4>4
    <3>3. \A h \in Reports!Holders : Reports!Held(h) # 0 => rep_spells'[h][Reports!Held(h)].day = rep_spells[h][Reports!Held(h)].day
      BY <1>9, HeldIsHeld DEF RepInv
    <3> QED
      BY <1>1, <2>h, <3>1, <3>2, <3>3 DEF Reports!Replaced
  <2> QED
    BY <2>1, <2>2
<1>11. rep_pass' \in [Reports!Scrapes -> Passing] /\ OnePass' /\ ToldOnce'
  BY <1>1, <1>3, <1>10, Alone, ScrapeGoesOn DEF RepInv
<1>12. EdgeIsTheClaims'
  <2>1. \A h \in Reports!Holders : Reports!OpenOf(h)' \subseteq Reports!OpenOf(h) /\ Reports!OpenOf(h) \subseteq DOMAIN rep_spells[h]
    BY <1>9 DEF Reports!OpenOf
  <2>2. \A h \in Reports!Holders : rep_claims[h] = "open" => \A i \in Reports!OpenOf(h)' : rep_spells'[h][i].form = "13DG"
    BY <1>9, <2>1 DEF RepInv, EdgeIsTheClaims
  <2> QED
    BY <1>1, <2>2 DEF EdgeIsTheClaims
<1>13. RepTyped'
  BY <1>1, <1>8, <1>11 DEF RepInv, RepTyped
<1> QED
  BY <1>11, <1>12, <1>13 DEF RepInv

\* A Form 4 takes the edge of a holder without an open statement, or none.
LEMMA Form4Keeps ==
  ASSUME RepInv, RepFigures, NEW s \in Reports!Scrapes, Reports!Form4(s)
  PROVE  RepInv'
<1>1. /\ rep_pass[s].at = "form4" /\ UNCHANGED <<rep_feed, rep_form4, rep_control, rep_claims>>
      /\ rep_pass' = [rep_pass EXCEPT ![s] = Reports!Idle]
  BY DEF Reports!Form4
<1>2. ~Reports!Replaced
  BY <1>1 DEF RepInv, ToldOnce
<1>3. Reports!Idle \in Passing /\ Reports!Idle.at = "idle"
  BY DEF Passing, Reports!Idle
<1>4. ASSUME ~Reports!Replaced', rep_spells' \in [Reports!Holders -> Seq(Stake)], EdgeIsTheClaims' PROVE RepInv'
  <2>1. rep_pass' \in [Reports!Scrapes -> Passing] /\ OnePass' /\ ToldOnce'
    BY <1>1, <1>3, <1>4, Alone, ScrapeGoesOn DEF RepInv
  <2>2. RepTyped'
    BY <1>1, <1>4, <2>1 DEF RepInv, RepTyped
  <2> QED
    BY <1>4, <2>1, <2>2 DEF RepInv
<1>5. CASE rep_spells' = rep_spells
  <2>1. EdgeIsTheClaims' /\ rep_spells' \in [Reports!Holders -> Seq(Stake)]
    BY <1>1, <1>5 DEF RepInv, RepTyped, EdgeIsTheClaims, Reports!OpenOf
  <2> QED
    BY <1>1, <1>2, <1>4, <1>5, <2>1, SameReplaced
<1> DEFINE stated == [since |-> 0, until |-> 0, day |-> Reports!Newest, form |-> "4"]
<1>6. CASE \E h \in Reports!Holders : ~Reports!Yields(h) /\ Reports!WriteEdge(h, stated)
  <2>1. PICK h \in Reports!Holders : rep_claims[h] # "open" /\ Reports!WriteEdge(h, stated)
    BY <1>6 DEF Reports!Yields
  <2>2. Reports!Newest \in Nat
    <3>1. rep_feed \in Seq(Filed13)
      BY DEF RepInv, RepTyped
    <3>2. rep_feed # <<>> => rep_feed[1] \in Filed13
      BY <3>1
    <3> QED
      BY <3>2 DEF Reports!Newest, Filed13
  <2>3. /\ rep_spells' \in [Reports!Holders -> Seq(Stake)]
        /\ \A g \in Reports!Holders \ {h} : rep_spells'[g] = rep_spells[g]
        /\ \A i \in Reports!OpenOf(h)' : rep_spells'[h][i].form = "4"
    BY <2>1, <2>2, EdgeWritten DEF RepInv
  <2>4. Reports!Held(h)' = 0
    BY <2>3 DEF Reports!Held, Reports!Reports, Reports!OpenOf
  <2>5. ~Reports!Replaced'
    BY <2>4 DEF Reports!Holders, Reports!Replaced
  <2>6. EdgeIsTheClaims'
    <3> SUFFICES ASSUME NEW g \in Reports!Holders, rep_claims'[g] = "open", NEW i \in Reports!OpenOf(g)'
                 PROVE  rep_spells'[g][i].form = "13DG"
      BY DEF EdgeIsTheClaims
    <3>1. rep_claims[g] = "open"
      BY <1>1
    <3>2. rep_spells'[g] = rep_spells[g]
      BY <2>1, <2>3, <3>1
    <3>3. i \in Reports!OpenOf(g)
      BY <3>2 DEF Reports!OpenOf
    <3> QED
      BY <3>1, <3>2, <3>3 DEF RepInv, EdgeIsTheClaims
  <2> QED
    BY <1>4, <2>3, <2>5, <2>6
<1>7. rep_form4 \subseteq Reports!Holders
  BY DEF RepInv, RepTyped
<1> QED
  BY <1>5, <1>6, <1>7 DEF Reports!Form4

LEMMA RepNext == ASSUME RepInv, RepFigures, [Reports!Next]_(Reports!vars) PROVE RepInv'
<1>1. CASE UNCHANGED Reports!vars
  BY <1>1, RepStill DEF Reports!vars, RepInv, RepTyped
<1>2. CASE Reports!Next
  BY <1>2, FileKeeps, FileForm4Keeps, ReadKeeps, WriteKeeps, CloseReadKeeps, CloseKeeps, Form4Keeps, ReadListKeeps
  DEF Reports!Next
<1> QED
  BY <1>1, <1>2

\* The invariant of the reports.
THEOREM ReportsInvariance == ASSUME RepFigures PROVE Reports!Spec => []RepInv
<1>1. RepInv /\ [Reports!Next]_(Reports!vars) => RepInv'
  BY RepNext
<1> QED
  BY <1>1, RepBegin, PTL DEF Reports!Spec

\* A group's holding is told once when no scrape is at work, and while a 13D/G statement
\* speaks for a pair its edge is that statement's, for any filings, Form 4s, lists and
\* scrapes one after another.
THEOREM ReportsAlwaysStand == ASSUME RepFigures PROVE Reports!Spec => []ReportsStand
<1>1. RepInv => ReportsStand
  BY DEF RepInv, ToldOnce, EdgeIsTheClaims, ReportsStand, Reports!OneReportPerGroup, Reports!ReportSpeaks
<1> QED
  BY <1>1, ReportsInvariance, PTL

-----------------------------------------------------------------------------
(* The import lock *)

\* A run that read a stale row, which is still there, is about to delete a
\* row that is stale now.
FreshReads ==
  ~raced => \A p \in current : pc[p] = Stealing => row # NoRow /\ Stale

\* The inductive invariant: RowNamesImporter alone does not survive Steal,
\* which must not find a running import's row under its DELETE.
IInv == TypeOK /\ RowNamesImporter /\ FreshReads

USE ProcAssumption, StaleAssumption, FaultsAssumption

\* The empty table satisfies the invariant.
LEMMA InitEstablishes == Init => IInv
<1> SUFFICES ASSUME Init PROVE IInv
  OBVIOUS
<1>1. TypeOK
  <2>1. age \in 0 .. StaleAge /\ faults \in 0 .. MaxFaults
    BY DEF Init
  <2>2. row \in Proc \cup {NoRow} /\ current \subseteq Proc /\ raced \in BOOLEAN
    BY DEF Init
  <2>3. pc \in [Proc -> Phases]
    BY DEF Init, Phases
  <2> QED
    BY <2>1, <2>2, <2>3 DEF TypeOK
<1>2. RowNamesImporter
  BY DEF Init, RowNamesImporter, Idle, Importing
<1>3. FreshReads
  BY DEF Init, FreshReads
<1> QED
  BY <1>1, <1>2, <1>3 DEF IInv

\* A typed state stays typed.
LEMMA NextPreservesType == TypeOK /\ [Next]_vars => TypeOK'
<1> SUFFICES ASSUME TypeOK, [Next]_vars PROVE TypeOK'
  OBVIOUS
<1> USE DEF TypeOK, Phases, Goto, SetRow, Fault
<1>1. ASSUME NEW p \in Proc, CheckFree(p) PROVE TypeOK'
  BY <1>1 DEF CheckFree
<1>2. ASSUME NEW p \in Proc, CheckStale(p) PROVE TypeOK'
  BY <1>2 DEF CheckStale
<1>3. ASSUME NEW p \in Proc, Steal(p) PROVE TypeOK'
  BY <1>3 DEF Steal
<1>4. ASSUME NEW p \in Proc, InsertWins(p) PROVE TypeOK'
  BY <1>4 DEF InsertWins
<1>5. ASSUME NEW p \in Proc, InsertLoses(p) PROVE TypeOK'
  BY <1>5 DEF InsertLoses
<1>6. ASSUME NEW p \in Proc, InsertUnanswered(p) PROVE TypeOK'
  BY <1>6 DEF InsertUnanswered
<1>7. ASSUME NEW p \in Proc, Release(p) PROVE TypeOK'
  BY <1>7 DEF Release
<1>8. ASSUME NEW p \in Proc, Die(p) PROVE TypeOK'
  BY <1>8 DEF Die
<1>9. CASE OperatorRelease
  BY <1>9 DEF OperatorRelease
<1>10. CASE Tick
  BY <1>10 DEF Tick, Stale
<1>11. CASE UNCHANGED vars
  BY <1>11 DEF vars
<1> QED
  BY <1>1, <1>2, <1>3, <1>4, <1>5, <1>6, <1>7, <1>8, <1>9, <1>10, <1>11
  DEF Next, Step

\* Every step keeps the row naming the running import and the fresh reads true.
LEMMA NextPreserves == IInv /\ [Next]_vars => IInv'
<1> SUFFICES ASSUME IInv, [Next]_vars PROVE IInv'
  OBVIOUS
<1>0. TypeOK /\ TypeOK'
  BY NextPreservesType DEF IInv
<1>a. SUFFICES ASSUME ~raced' PROVE RowNamesImporter' /\ FreshReads'
  BY <1>0 DEF IInv, RowNamesImporter, FreshReads
<1>b. ~raced
  BY <1>a DEF Next, Step, vars, CheckFree, CheckStale, Steal, InsertWins, InsertLoses,
     InsertUnanswered, Release, Die, OperatorRelease, Tick
<1>c. /\ \A q \in Proc : pc[q] = Importing => row = q /\ ~Stale
      /\ \A q \in current : pc[q] = Stealing => row # NoRow /\ Stale
  BY <1>b DEF IInv, RowNamesImporter, FreshReads
<1> USE <1>0 DEF TypeOK, Goto, SetRow, RowNamesImporter, FreshReads, Stale,
             Idle, Stealing, Inserting, Importing
<1>1. ASSUME NEW p \in Proc, CheckFree(p) PROVE RowNamesImporter' /\ FreshReads'
  BY <1>1, <1>c DEF CheckFree
<1>2. ASSUME NEW p \in Proc, CheckStale(p) PROVE RowNamesImporter' /\ FreshReads'
  BY <1>2, <1>c DEF CheckStale
<1>3. ASSUME NEW p \in Proc, Steal(p) PROVE RowNamesImporter' /\ FreshReads'
  <2>1. row = NoRow \/ p \in current
    BY <1>3, <1>a DEF Steal
  <2>2. \A q \in Proc : pc[q] # Importing
    BY <2>1, <1>3, <1>c, ProcAssumption DEF Steal
  <2> QED
    BY <2>2, <1>3 DEF Steal
<1>4. ASSUME NEW p \in Proc, InsertWins(p) PROVE RowNamesImporter' /\ FreshReads'
  <2>1. \A q \in Proc : pc[q] # Importing
    BY <1>4, <1>c, ProcAssumption DEF InsertWins
  <2> QED
    BY <2>1, <1>4, StaleAssumption DEF InsertWins
<1>5. ASSUME NEW p \in Proc, InsertLoses(p) PROVE RowNamesImporter' /\ FreshReads'
  BY <1>5, <1>c DEF InsertLoses
<1>6. ASSUME NEW p \in Proc, InsertUnanswered(p)
      PROVE  RowNamesImporter' /\ FreshReads'
  <2>1. \A q \in Proc : pc[q] # Importing
    BY <1>6, <1>c, ProcAssumption DEF InsertUnanswered
  <2> QED
    BY <2>1, <1>6 DEF InsertUnanswered
<1>7. ASSUME NEW p \in Proc, Release(p) PROVE RowNamesImporter' /\ FreshReads'
  <2>1. \A q \in Proc : pc[q] = Importing => q = p
    BY <1>7, <1>c DEF Release
  <2> QED
    BY <2>1, <1>7 DEF Release
<1>8. ASSUME NEW p \in Proc, Die(p) PROVE RowNamesImporter' /\ FreshReads'
  BY <1>8, <1>c DEF Die
<1>9. CASE OperatorRelease
  <2>1. \A q \in Proc : pc[q] # Importing
    BY <1>9, <1>c DEF OperatorRelease, Abandoned
  <2> QED
    BY <2>1, <1>9 DEF OperatorRelease
<1>10. CASE Tick
  <2>1. \A q \in Proc : pc[q] = Importing => row = q /\ age + 1 < StaleAge
    BY <1>10, <1>c DEF Tick, Abandoned
  <2>2. \A q \in current : pc[q] # Stealing
    BY <1>10, <1>c DEF Tick
  <2> QED
    BY <2>1, <2>2, <1>10, StaleAssumption DEF Tick
<1>11. CASE UNCHANGED vars
  BY <1>11, <1>c DEF vars
<1> QED
  BY <1>1, <1>2, <1>3, <1>4, <1>5, <1>6, <1>7, <1>8, <1>9, <1>10, <1>11
  DEF Next, Step

\* The inductive invariant holds throughout.
THEOREM Invariance == Spec => []IInv
  BY InitEstablishes, NextPreserves, PTL DEF Spec

\* Every state of the lock is well-typed: the row names a run or nobody, its
\* age stays within the staleness bound.
THEOREM TypeCorrect == Spec => []TypeOK
<1>1. IInv => TypeOK
  BY DEF IInv
<1> QED
  BY <1>1, Invariance, PTL

\* The row names the import that is running, for any number of runs.
THEOREM RowIsImporter == Spec => []RowNamesImporter
<1>1. IInv => RowNamesImporter
  BY DEF IInv
<1> QED
  BY <1>1, Invariance, PTL

\* Two imports never run together unless a steal deleted a row it had not read.
THEOREM Exclusive == Spec => []ExclusiveUnlessRaced
<1>1. IInv => ExclusiveUnlessRaced
  BY DEF IInv, ExclusiveUnlessRaced, RowNamesImporter, MutualExclusion
<1> QED
  BY <1>1, Invariance, PTL

\* The suite shows of a component what its own specification allows: a behaviour of
\* MCRecords is one of the log's, the companies', the reports', the desk's and the lock's,
\* each at work or still.
THEOREM SuiteRunsEach == SuiteSpec => Log!Spec /\ Ids!Spec /\ Reports!Spec /\ Desk!Spec /\ Spec
<1> DEFINE all == <<part, vars, logVars, idVars, repVars, hVars, mVars, bVars, vVars, dVars>>
<1>1. SuiteInit => Log!Init /\ Ids!Init /\ Reports!Init /\ Desk!Init /\ Init
  BY DEF SuiteInit
<1>2. ASSUME [SuiteNext]_all PROVE [Log!Next]_(Log!vars)
  BY <1>2 DEF SuiteNext, Log!vars, logVars
<1>3. ASSUME [SuiteNext]_all PROVE [Desk!Next]_(Desk!vars)
  BY <1>3 DEF SuiteNext, Desk!vars, mVars
<1>4. ASSUME [SuiteNext]_all PROVE [Next]_vars
  BY <1>4 DEF SuiteNext, vars
<1>5. ASSUME [SuiteNext]_all PROVE [Ids!Next]_(Ids!vars)
  BY <1>5 DEF SuiteNext, Ids!vars, idVars
<1>6. ASSUME [SuiteNext]_all PROVE [Reports!Next]_(Reports!vars)
  BY <1>6 DEF SuiteNext, Reports!vars, repVars
<1> QED
  BY <1>1, <1>2, <1>3, <1>4, <1>5, <1>6, PTL DEF SuiteSpec, Log!Spec, Ids!Spec, Reports!Spec, Desk!Spec, Spec
=============================================================================
