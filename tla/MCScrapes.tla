----------------------------- MODULE MCScrapes ------------------------------
(* What runs read and write again, side by side: each behaviour is one        *)
(* component at work, the others standing in a first state.                   *)
EXTENDS MCChPscDelta, Worlds

\* The reports, the stakes and the flags are proved about, so their parameters are this
\* module's too.
CONSTANTS
  QuarterFilers, QuarterPresent, QuarterSpelled, QuarterAgree, QuarterLimit,
  QuarterTime, QuarterRuns, QuarterFaults,
  StakeSizes, StakeLine, StakeWrites, StakeRuns, StakeDays,
  FlagPairs, FlagHops, FlagWrites, FlagPasses, FlagFaults

VARIABLE part   \* the component at work; the others stand still

(* the managers' quarterly reports *)
VARIABLES
  q_now, q_filings, q_cusip, q_holding, q_stamped, q_prior, q_run, q_runs,
  q_faults
Quarters == INSTANCE ThirteenF WITH
  Filers <- QuarterFilers, Present <- QuarterPresent, Spelled <- QuarterSpelled,
  Corroborate <- QuarterAgree, Limit <- QuarterLimit, MaxTime <- QuarterTime,
  MaxRuns <- QuarterRuns, MaxFaults <- QuarterFaults,
  now <- q_now, filings <- q_filings, cusip <- q_cusip, holding <- q_holding,
  stamped <- q_stamped, prior <- q_prior, run <- q_run, runs <- q_runs,
  faults <- q_faults
qVars == <<q_now, q_filings, q_cusip, q_holding, q_stamped, q_prior, q_run, q_runs,
            q_faults>>

(* the dated stakes of one claim *)
VARIABLES
  sh_claim, sh_rows, sh_run, sh_writes, sh_runs, sh_astray
Stakes == INSTANCE StakeHistory WITH
  Stakes <- StakeSizes, MaterialPct <- StakeLine, MaxWrites <- StakeWrites,
  MaxRuns <- StakeRuns, LastDay <- StakeDays, claim <- sh_claim, rows <- sh_rows, run <- sh_run,
  writes <- sh_writes, runs <- sh_runs, astray <- sh_astray
shVars == <<sh_claim, sh_rows, sh_run, sh_writes, sh_runs, sh_astray>>

(* the holdings other holdings make redundant *)
VARIABLES
  s_owns, s_pass, s_quiet, s_writes, s_passes, s_faults
Flags == INSTANCE Shortcuts WITH
  Pair <- FlagPairs, MaxHops <- FlagHops, MaxWrites <- FlagWrites,
  MaxPasses <- FlagPasses, MaxFaults <- FlagFaults, owns <- s_owns, pass <- s_pass, quiet <- s_quiet,
  writes <- s_writes, passes <- s_passes, faults <- s_faults
sVars == <<s_owns, s_pass, s_quiet, s_writes, s_passes, s_faults>>

Parts == {"mirror", "quarters", "stakes", "shortcuts"}

SuiteInit ==
  /\ part \in Parts
  /\ Init
  /\ part # "mirror" => here = {}
  /\ part = "mirror" => pair1 \in here
  /\ Quarters!Init
  /\ Stakes!Init
  /\ Flags!Init

SuiteNext ==
  \/ /\ part = "mirror" /\ Next
     /\ UNCHANGED <<part, qVars, shVars, sVars>>
  \/ /\ part = "quarters" /\ Quarters!Next
     /\ UNCHANGED <<part, vars, shVars, sVars>>
  \/ /\ part = "stakes" /\ Stakes!Next
     /\ UNCHANGED <<part, vars, qVars, sVars>>
  \/ /\ part = "shortcuts" /\ Flags!Next
     /\ UNCHANGED <<part, vars, qVars, shVars>>

SuiteSpec == SuiteInit /\ [][SuiteNext]_<<part, vars, qVars, shVars, sVars>>

\* A holder who reported the newest quarter is not dimmed.
ConfirmedStands == Quarters!ConfirmedStands

\* The history shows for today what the claim says.
TodayShown == Stakes!TodayShown

\* What is left out is said by other holdings.
HiddenIsSaidElsewhere == Flags!HiddenIsSaidElsewhere
=============================================================================
