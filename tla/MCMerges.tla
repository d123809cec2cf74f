------------------------------ MODULE MCMerges ------------------------------
(* What makes one node of two, side by side: each behaviour is one component  *)
(* at work, the others standing in a first state.                             *)
EXTENDS MCMergeRedirect, Worlds

\* The two merges at once and the persons are proved about, so their parameters are
\* this module's too.
CONSTANTS
  PairId, PairRank, PairUuid, PairRef, PairWorker, PairHops,
  PersonSightings, PersonVariants, PersonWrites, PersonScans, PersonTold

FourRanks == ("lei" :> 0) @@ ("sec" :> 1) @@ ("wd" :> 2) @@ ("uuid" :> 3)

VARIABLE part   \* the component at work; the others stand still

(* two merges at once on one company met under four ids *)
VARIABLES
  two_live, two_hard, two_holds, two_apart, two_redirect, two_refs, two_pc,
  two_keep, two_dead, two_todo, two_marks, two_first, two_asserted,
  two_issued, two_faults
Pair == INSTANCE MergeRedirect WITH
  Id <- PairId, Rank <- PairRank, Uuid <- PairUuid,
  Fact <- {}, Ref <- PairRef, Worker <- PairWorker, NoId <- "none",
  MaxHops <- PairHops, MaxFaults <- 0, Overlap <- FALSE, live <- two_live,
  hard <- two_hard, holds <- two_holds, apart <- two_apart,
  redirect <- two_redirect, refs <- two_refs, pc <- two_pc, keep <- two_keep,
  dead <- two_dead, todo <- two_todo, marks <- two_marks, first <- two_first,
  asserted <- two_asserted, issued <- two_issued, faults <- two_faults
twoVars == <<two_live, two_hard, two_holds, two_apart, two_redirect, two_refs, two_pc,
            two_keep, two_dead, two_todo, two_marks, two_first, two_asserted, two_issued,
            two_faults>>

(* the persons of one name *)
VARIABLES
  p_nodes, p_apart, p_told, p_groups, p_writes, p_scans
People == INSTANCE Persons WITH
  Sightings <- PersonSightings, Variants <- PersonVariants, MaxWrites <- PersonWrites,
  MaxScans <- PersonScans, MaxTold <- PersonTold, Beside <- FALSE, nodes <- p_nodes,
  apart <- p_apart, told <- p_told, groups <- p_groups, writes <- p_writes,
  scans <- p_scans
pVars == <<p_nodes, p_apart, p_told, p_groups, p_writes, p_scans>>

Parts == {"faulty", "together", "persons"}

SuiteInit ==
  /\ part \in Parts
  /\ Init
  /\ Pair!Init
  /\ People!Init

SuiteNext ==
  \/ /\ part = "faulty" /\ Next
     /\ UNCHANGED <<part, twoVars, pVars>>
  \/ /\ part = "together" /\ Pair!Next
     /\ UNCHANGED <<part, vars, pVars>>
  \/ /\ part = "persons" /\ People!Next
     /\ UNCHANGED <<part, vars, twoVars>>

SuiteSpec == SuiteInit /\ [][SuiteNext]_<<part, vars, twoVars, pVars>>

\* Two workers at once: every id a node ever had leads to a live node, an
\* importer that knows it meets that node, and what the desk recorded follows.
PairFollows == Pair!IdsFollow

\* A fold joins one human.
FoldsOneHuman == People!FoldsOneHuman
=============================================================================
