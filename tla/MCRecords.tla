----------------------------- MODULE MCRecords ------------------------------
(* The components that keep the passes' own records, side by side: each       *)
(* behaviour is one component at work, the others standing in a first state.  *)
EXTENDS ImportLock, Worlds

\* Two companies of one name but the form, one that takes the other's name over,
\* a namesake and the items of a knowledge base.
Called(stem, form) == [stem |-> stem, form |-> form]
Acme == Called("acme", "inc")
AcmeLlc == Called("acme", "llc")
Records == ("la" :> [legal |-> Acme, others |-> {}]) @@ ("lb" :> [legal |-> AcmeLlc, others |-> {}])
Filers == ("ca" :> Acme) @@ ("cb" :> AcmeLlc) @@ ("cc" :> Called("acme music", "inc"))
Renamed == {<<"ca", Called("beta", "inc")>>, <<"cb", Acme>>}
Stated(name, leis, ciks) == [label |-> name, names |-> {name}, leis |-> leis, ciks |-> ciks]
Statements == ("q1" :> Stated(Acme, {"la"}, {"ca"})) @@ ("q2" :> Stated(AcmeLlc, {"lb"}, {}))
              @@ ("q3" :> Stated(Acme, {}, {}))

Confirmed == {<<"la", "ca">>, <<"lb", "cb">>}
FiledBy   == {<<"lb", "cb">>}
Longer    == {<<"acme music", "acme">>}
NoNumber  == {Acme}

\* The log, the desk, the companies of one name and the reports are proved about, so
\* their parameters are this module's too.
CONSTANTS
  IdGleif, IdFilers, IdRenames, IdConfirms, IdStates, IdItems, IdUnnumbered,
  IdExtends, IdCalls, IdUnread,
  RepFilings, RepDays, RepPasses, RepOpened, RepUnread, RepBeside, RepInsiders,
  LogStarts, LogImports, LogTime, LogFaults, LogRuns, LogLimit, LogStale,
  LogWindow, LogEvery,
  DeskCompany, DeskHolding, DeskStakes, DeskModerator, DeskReports, DeskDraws,
  DeskMoves, DeskCalls
Held == {<<"B", "A">>}

VARIABLE part   \* the component at work; the others stand still

(* the log of runs and the daily check *)
VARIABLES
  log_now, log_runs, log_rows, log_doomed, log_checked, log_heard,
  log_faults, log_mute
Log == INSTANCE RunLog WITH
  MaxStarts <- LogStarts, Imports <- LogImports, MaxTime <- LogTime,
  MaxFaults <- LogFaults, MaxRuns <- LogRuns, Limit <- LogLimit,
  StaleAge <- LogStale, Window <- LogWindow, CheckEvery <- LogEvery, now <- log_now,
  runs <- log_runs, rows <- log_rows, doomed <- log_doomed,
  checked <- log_checked, heard <- log_heard, faults <- log_faults,
  mute <- log_mute
logVars == <<log_now, log_runs, log_rows, log_doomed, log_checked, log_heard, log_faults,
            log_mute>>

(* the companies of one name *)
VARIABLES
  id_nodes, id_filer, id_calls, id_unread, id_blind
Ids == INSTANCE Identity WITH
  Gleif <- IdGleif, Filer <- IdFilers, Renames <- IdRenames, Items <- IdItems,
  Confirms <- IdConfirms, States <- IdStates, Unnumbered <- IdUnnumbered,
  Extends <- IdExtends, MaxCalls <- IdCalls, MaxUnread <- IdUnread,
  nodes <- id_nodes, filer <- id_filer, calls <- id_calls,
  unread <- id_unread, blind <- id_blind
idVars == <<id_nodes, id_filer, id_calls, id_unread, id_blind>>

(* a parent and its subsidiary reporting one holding *)
VARIABLES
  rep_feed, rep_form4, rep_control, rep_spells, rep_claims, rep_pass,
  rep_passes, rep_unread
Reports == INSTANCE Reporting WITH
  MaxFilings <- RepFilings, LastDay <- RepDays, MaxPasses <- RepPasses,
  MaxOpened <- RepOpened, MaxUnread <- RepUnread, Beside <- RepBeside,
  Insiders <- RepInsiders, feed <- rep_feed,
  form4 <- rep_form4, control <- rep_control, spells <- rep_spells,
  claims <- rep_claims, pass <- rep_pass, passes <- rep_passes,
  unread <- rep_unread
repVars == <<rep_feed, rep_form4, rep_control, rep_spells, rep_claims, rep_pass,
            rep_passes, rep_unread>>

(* the history of one pair's relationships *)
VARIABLES
  h_archive, h_edges, h_claims, h_intervals, h_job, h_loads, h_runs,
  h_faults, h_settled
Hist == INSTANCE GleifHistory WITH
  Copies <- Monthly, Here <- {Up}, DipPct <- 5, MaxMonths <- 4,
  MaxLoads <- 1, MaxRuns <- 2, MaxFaults <- 1, archive <- h_archive,
  edges <- h_edges, claims <- h_claims, intervals <- h_intervals,
  job <- h_job, loads <- h_loads, runs <- h_runs, faults <- h_faults,
  settled <- h_settled
hVars == <<h_archive, h_edges, h_claims, h_intervals, h_job, h_loads, h_runs, h_faults,
            h_settled>>

(* the moderators' decisions and the pages *)
VARIABLES
  m_nodes, m_away, m_drawn, m_flags, m_sups, m_pins, m_desk, m_hidden,
  m_fixed, m_muddled, m_used
Desk == INSTANCE Moderation WITH
  Company <- DeskCompany, Holding <- DeskHolding, Stakes <- DeskStakes,
  Moderator <- DeskModerator, Overlap <- FALSE, StalePages <- FALSE,
  MaxReports <- DeskReports, MaxDraws <- DeskDraws, MaxMoves <- DeskMoves,
  MaxCalls <- DeskCalls, nodes <- m_nodes,
  away <- m_away, drawn <- m_drawn, flags <- m_flags, sups <- m_sups,
  pins <- m_pins, desk <- m_desk, hidden <- m_hidden, fixed <- m_fixed,
  muddled <- m_muddled, used <- m_used
mVars == <<m_nodes, m_away, m_drawn, m_flags, m_sups, m_pins, m_desk, m_hidden, m_fixed,
            m_muddled, m_used>>

(* one filer's insiders *)
VARIABLES
  b_day, b_feed, b_serves, b_took, b_stopped, b_seats, b_stakes, b_scrapes,
  b_lost, b_last
Board == INSTANCE Officers WITH
  Person <- {"x", "y"}, Post <- {"ceo", "director"},
  First <- ("x" :> "ceo") @@ ("y" :> "none"), Trades <- Sales,
  Whole <- Issued, LastDay <- 4, MaxScrapes <- 2, MaxLost <- 1, Window <- 2,
  MaxForms <- 2, MaxForm3 <- 1, Inline <- 2, Max8K <- 2, MaxLookups <- 1,
  MaxOwn <- 2, MaxAge <- 0, Comebacks <- FALSE, day <- b_day, feed <- b_feed,
  serves <- b_serves, took <- b_took, stopped <- b_stopped, seats <- b_seats,
  stakes <- b_stakes, scrapes <- b_scrapes, lost <- b_lost, last <- b_last
bVars == <<b_day, b_feed, b_serves, b_took, b_stopped, b_seats, b_stakes, b_scrapes,
            b_lost, b_last>>

(* the voting groups of one issuer *)
VARIABLES
  v_feed, v_groups, v_bloc, v_pass, v_settled, v_scrapes, v_faults, v_lost
Blocs == INSTANCE VotingGroups WITH
  Party <- {"s", "a", "b", "c", "d"}, Registrant <- {"s", "c"},
  Renamed <- {"s"}, Pact <- {"one", "two"},
  First <- ("one" :> {"s", "a", "b"}) @@ ("two" :> {"s", "c", "d"}),
  OneFiler <- TRUE, MaxFilings <- 3, MaxScrapes <- 3, MaxFaults <- 1,
  MaxLost <- 1, feed <- v_feed, groups <- v_groups, bloc <- v_bloc,
  pass <- v_pass, settled <- v_settled, scrapes <- v_scrapes,
  faults <- v_faults, lost <- v_lost
vVars == <<v_feed, v_groups, v_bloc, v_pass, v_settled, v_scrapes, v_faults, v_lost>>

(* the nodes of two groups, folded by scoped and full runs *)
VARIABLES
  d_nodes, d_gone, d_apart, d_job, d_swept, d_loads, d_runs, d_marks,
  d_unread
Twins == INSTANCE Duplicates WITH
  Loads <- CompanyLoads, Gleif <- GleifSays, Filer <- EdgarKnows,
  Owner <- NoticeSays, States <- {}, Today <- 2, Sizes <- {9}, MaxLoads <- 3,
  MaxRuns <- 2, MaxMarks <- 1, MaxUnread <- 1, nodes <- d_nodes,
  gone <- d_gone, apart <- d_apart, job <- d_job, swept <- d_swept,
  loads <- d_loads, runs <- d_runs, marks <- d_marks, unread <- d_unread
dVars == <<d_nodes, d_gone, d_apart, d_job, d_swept, d_loads, d_runs, d_marks, d_unread>>

Parts == {"lock", "log", "names", "reports", "past", "desk", "board", "blocs", "twins"}

SuiteInit ==
  /\ part \in Parts
  /\ Init
  /\ Log!Init
  /\ Ids!Init
  /\ Reports!Init
  /\ Hist!Init
  /\ Desk!Init
  /\ part # "desk" => m_nodes = Desk!Ids
  /\ Board!Init
  /\ Blocs!Init
  /\ Twins!Init

SuiteNext ==
  \/ /\ part = "lock" /\ Next
     /\ UNCHANGED <<part, logVars, idVars, repVars, hVars, mVars, bVars, vVars, dVars>>
  \/ /\ part = "log" /\ Log!Next
     /\ UNCHANGED <<part, vars, idVars, repVars, hVars, mVars, bVars, vVars, dVars>>
  \/ /\ part = "names" /\ Ids!Next
     /\ UNCHANGED <<part, vars, logVars, repVars, hVars, mVars, bVars, vVars, dVars>>
  \/ /\ part = "reports" /\ Reports!Next
     /\ UNCHANGED <<part, vars, logVars, idVars, hVars, mVars, bVars, vVars, dVars>>
  \/ /\ part = "past" /\ Hist!Next
     /\ UNCHANGED <<part, vars, logVars, idVars, repVars, mVars, bVars, vVars, dVars>>
  \/ /\ part = "desk" /\ Desk!Next
     /\ UNCHANGED <<part, vars, logVars, idVars, repVars, hVars, bVars, vVars, dVars>>
  \/ /\ part = "board" /\ Board!Next
     /\ UNCHANGED <<part, vars, logVars, idVars, repVars, hVars, mVars, vVars, dVars>>
  \/ /\ part = "blocs" /\ Blocs!Next
     /\ UNCHANGED <<part, vars, logVars, idVars, repVars, hVars, mVars, bVars, dVars>>
  \/ /\ part = "twins" /\ Twins!Next
     /\ UNCHANGED <<part, vars, logVars, idVars, repVars, hVars, mVars, bVars, vVars>>

\* A living run goes on, and the clock runs.
SuiteFairness ==
  /\ WF_vars(part = "lock" /\ Tick)
  /\ \A p \in Proc : WF_vars(part = "lock" /\ Step(p))

SuiteSpec == SuiteInit /\ [][SuiteNext]_<<part, vars, logVars, idVars, repVars, hVars, mVars, bVars, vVars, dVars>> /\ SuiteFairness

\* The log keeps the newest MAX_RUNS rows whatever prunes run together, and the
\* check names every import that failed since the one before.
LogStands == Log!LogStands

\* One node is one legal entity, whichever register or filing came first.
OneLegalEntity == Ids!OneLegalEntity

\* A holding is told once in a group, and a live statement keeps the edge.
ReportsStand == Reports!OneReportPerGroup /\ Reports!ReportSpeaks

\* Who left has no open seat, who serves has one with the right start, and a stake is
\* what the newest form leaves.
BoardStands == Board!LeftIsClosed /\ Board!ServingIsOpen /\ Board!StartIsTrue /\ Board!StakeIsHeld

\* The groups over one issuer are its agreements, each in its newest form.
GroupsStand == Blocs!GroupsStand

\* An exit that was read ends the stake.
ExitEndsStake == Reports!ExitEndsStake

\* The history is written once, and ends nothing that goes on.
HistoryStands == Hist!RerunWritesNothing /\ Hist!NoEndOfTheLiving

\* What a moderator hid stays hidden, and what one corrected is what pages show.
DeskStands == Desk!HiddenStaysHidden /\ Desk!CorrectionStands

\* The folds make one company of a node, and a whole run leaves no twins.
TwinsFold == Twins!OneCompany /\ Twins!RunIsEnough

\* An item's ids go to the node of the company that holds them.
ItemGoesToItsEntity == Ids!ItemGoesToItsEntity
=============================================================================
