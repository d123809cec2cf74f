------------------------------ MODULE MCVisits ------------------------------
(* What a visit sets off and shows, side by side: the search that asks its     *)
(* sources, the walk one of them makes and the tree of what was written; one   *)
(* component is at work in a behaviour.                                        *)
EXTENDS MCOnDemand, Worlds

AgainAnswers(s) == IF s = "sec" THEN {"partial", "nothing", "raised"}
                   ELSE {"here", "elsewhere", "nothing"}

VARIABLE part   \* the component at work; the others stand still

(* one visitor who comes back for ever, with failed stamps and killed processes *)
VARIABLES
  a_entity, a_person, a_miss, a_inflight, a_req, a_pass, a_owed, a_reached,
  a_faults
Again == INSTANCE OnDemand WITH
  Req <- {"r1"}, Proc <- Proc,
  ProcOf <- [r \in {"r1"} |-> CHOOSE p \in Proc : TRUE], Depth <- Depth,
  Cooldown <- Cooldown, TTL <- TTL, Answers <- AgainAnswers,
  MayBePerson <- TRUE, MaxFaults <- 2, entity <- a_entity,
  person <- a_person, miss <- a_miss, inflight <- a_inflight, req <- a_req,
  pass <- a_pass, owed <- a_owed, reached <- a_reached, faults <- a_faults
aVars == <<a_entity, a_person, a_miss, a_inflight, a_req, a_pass, a_owed, a_reached,
            a_faults>>

(* the walk of a small tree of Wikidata items *)
VARIABLES
  w_pc, w_query, w_depth, w_hushed, w_tries, w_page, w_stack, w_visited,
  w_scraped, w_conflicts, w_status, w_held, w_owns, w_peopled, w_marked,
  w_runs, w_faults
Walk == INSTANCE Descent WITH
  Subs <- Pages, Owners <- PageOwners, Blank <- {"p"}, Other <- {"o"},
  Registered <- {"t", "a", "b", "c", "d", "p", "o"},
  Company <- {"t", "a", "b", "c", "d", "u", "o"}, Query <- Questions,
  MaxFollowed <- 2, MaxDepth <- 2, MaxRetries <- 2, MaxRuns <- 2,
  MaxFaults <- 2, pc <- w_pc, query <- w_query, depth <- w_depth,
  hushed <- w_hushed, tries <- w_tries, page <- w_page, stack <- w_stack,
  visited <- w_visited, scraped <- w_scraped, conflicts <- w_conflicts,
  status <- w_status, held <- w_held, owns <- w_owns, peopled <- w_peopled,
  marked <- w_marked, runs <- w_runs, faults <- w_faults
wVars == <<w_pc, w_query, w_depth, w_hushed, w_tries, w_page, w_stack, w_visited,
            w_scraped, w_conflicts, w_status, w_held, w_owns, w_peopled, w_marked,
            w_runs, w_faults>>

(* the tree of subsidiaries *)
VARIABLES
  t_owns, t_hidden, t_suppressed, t_reading, t_level, t_frontier, t_seen,
  t_nodes, t_edges, t_truncated, t_total, t_cap, t_keys, t_beside
Tree == INSTANCE OwnershipTree WITH
  Root <- "r", Pair <- Below, Stakes <- {10, 50}, Caps <- {1, 9},
  MaxDepth <- 3, MaxCount <- 9, MaxTaken <- 1, MaxBeside <- 0,
  owns <- t_owns, hidden <- t_hidden, suppressed <- t_suppressed,
  reading <- t_reading, level <- t_level, frontier <- t_frontier,
  seen <- t_seen, nodes <- t_nodes, edges <- t_edges,
  truncated <- t_truncated, total <- t_total, cap <- t_cap, keys <- t_keys,
  beside <- t_beside
tVars == <<t_owns, t_hidden, t_suppressed, t_reading, t_level, t_frontier, t_seen,
            t_nodes, t_edges, t_truncated, t_total, t_cap, t_keys, t_beside>>

Parts == {"views", "again", "walk", "tree"}

SuiteInit ==
  /\ part \in Parts
  /\ Init
  /\ part # "views" => entity = Absent
  /\ Again!Init
  /\ part # "again" => a_entity = Again!Absent /\ a_person = Again!Absent
  /\ Walk!Init
  /\ Tree!Init

SuiteNext ==
  \/ /\ part = "views" /\ Next
     /\ UNCHANGED <<part, aVars, wVars, tVars>>
  \/ /\ part = "again" /\ Again!Next
     /\ UNCHANGED <<part, vars, wVars, tVars>>
  \/ /\ part = "walk" /\ Walk!Next
     /\ UNCHANGED <<part, vars, aVars, tVars>>
  \/ /\ part = "tree" /\ Tree!Next
     /\ UNCHANGED <<part, vars, aVars, wVars>>

\* Visitors keep coming, requests go on, time passes.
SuiteFairness ==
  /\ WF_aVars(part = "again" /\ Again!Step("r1"))
  /\ WF_aVars(part = "again" /\ \E d \in Depth : Again!View("r1", d, FALSE))
  /\ WF_aVars(part = "again" /\ Again!Tick)

SuiteSpec == SuiteInit /\ [][SuiteNext]_<<part, vars, aVars, wVars, tVars>> /\ SuiteFairness

\* A search that is viewed for ever asks its sources for ever.
VisitsAskAgain == part = "again" => Again!AskedAgain

\* A walk reads every page within its depth.
ReadToDepth == Walk!ReadToDepth

\* "Nothing of that name" is an answer, never a failure.
NothingIsAnAnswer == Walk!NothingIsAnAnswer

\* Every company of a tree hangs on its root, and a tree holds every company
\* below its root or says how many.
TreeStands == Tree!HangsOnRoot /\ Tree!TreeIsWhole
=============================================================================
