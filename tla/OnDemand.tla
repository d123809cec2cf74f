------------------------------ MODULE OnDemand ------------------------------
(***************************************************************************)
(* On-demand scraping (scraper/ondemand.ensure_scrape): a visitor asks for *)
(* a company, and the instant sources are asked only when what the         *)
(* database holds is missing, incomplete, stale or too shallow.            *)
(*                                                                         *)
(* The module is about one search: a normalised name and a country.  It    *)
(* names a company node, which a bulk import may have loaded before, or a  *)
(* person, or nothing.  Times are ages in ticks, and stop counting when    *)
(* they no longer matter.  Of the instant sources there are two kinds:     *)
(* the SEC is a register and blind to depth, Wikidata follows owners to a  *)
(* depth and finds a node by the ids stored on it.                         *)
(***************************************************************************)
EXTENDS Naturals

CONSTANTS
  Req,          \* the requests that may be served at once
  Proc, ProcOf, \* the server's processes, and the one that serves a request
  Depth,        \* the depths a visitor may ask for
  Cooldown,     \* SCRAPER_ONDEMAND_COOLDOWN_HOURS, in ticks
  TTL,          \* SCRAPER_ONDEMAND_TTL_DAYS, in ticks
  Answers(_),   \* what each source can answer
  MayBePerson,  \* may the search be a person's name
  MaxFaults     \* bound: processes killed, database calls that fail

Source == {"sec", "wikidata"}
\* It wrote the node the search names, lost a section of it, wrote another
\* node, found nothing, or raised.
Answer == {"here", "partial", "elsewhere", "nothing", "raised"}

ASSUME ReqAssumption    == ProcOf \in [Req -> Proc]
ASSUME DepthAssumption  == Depth \subseteq 0 .. 3
ASSUME TimeAssumption   == Cooldown \in Nat \ {0} /\ TTL \in Nat /\ Cooldown <= TTL + 1
\* Only the SEC tells of a section it lost: mark_scrape_incomplete has no other caller.
ASSUME AnswerAssumption == /\ \A s \in Source : Answers(s) \subseteq Answer
                           /\ "partial" \notin Answers("wikidata")
ASSUME PersonAssumption == MayBePerson \in BOOLEAN
ASSUME FaultAssumption  == MaxFaults \in Nat

VARIABLES
  entity,    \* the company node the search names
  person,    \* the person it names
  miss,      \* the age of the ScrapeMiss row, or NoMiss
  inflight,  \* the processes in which this search is under way
  req,       \* each request
  pass,      \* history: the last pass over the sources to end
  owed,      \* history: sources lost by the last pass that asked them, and how
             \* the last pass over any of them ended
  reached,   \* history: the deepest pass of Wikidata that came through
  faults     \* faults so far

vars == <<entity, person, miss, inflight, req, pass, owed, reached, faults>>

Old    == TTL + 1         \* the age past which a stamp is stale; no stamp at all
NoMiss == Cooldown + 1    \* a row is honoured below Cooldown
Ages   == 0 .. Old
Absent == [known |-> FALSE, scraped |-> FALSE, age |-> Old, depth |-> 0, incomplete |-> FALSE]
Loaded == [Absent EXCEPT !.known = TRUE]
ScrapedPerson == [Loaded EXCEPT !.scraped = TRUE, !.age = 0, !.depth = 1]
Idle   == [at |-> "idle"]
Fault  == faults < MaxFaults /\ faults' = faults + 1

Reasons == {"forced", "absent", "never_on_demand", "incomplete", "stale", "deepen"}
Target  == {"none", "here", "elsewhere"}
Deciding == [at : {"person", "miss", "expired", "claim"}, depth : Depth, reason : Reasons,
             since : 0 .. Cooldown, overlapped : BOOLEAN]
Running  == [at : {"run", "stamp"}, depth : Depth, reason : Reasons, since : 0 .. Cooldown,
             todo : SUBSET (Source \cup {"again"}), target : Target,
             reach : {0} \cup Depth, lost : SUBSET Source, marked : BOOLEAN,
             missed : SUBSET Source]    \* history: lost, or cut short
Ending   == [at : {"release", "resolve", "person?", "clear", "record"},
             since : 0 .. Cooldown, target : Target, stamped : BOOLEAN]
Row     == [known : BOOLEAN, scraped : BOOLEAN, age : Ages, depth : 0 .. 3, incomplete : BOOLEAN]

TypeOK ==
  /\ entity \in Row /\ person \in Row
  /\ ~entity.known => entity = Absent
  /\ miss \in 0 .. NoMiss
  /\ inflight \subseteq Proc
  /\ req \in [Req -> {Idle} \cup Deciding \cup Running \cup Ending]
  /\ pass \in [age : 0 .. Cooldown, left : {"nothing", "stamp", "person", "miss"}]
  /\ owed \in [of : SUBSET Source, how : {"stamped", "deepened", "unstamped"}]
  /\ reached \in 0 .. 3
  /\ faults \in 0 .. MaxFaults

Init ==
  /\ entity \in {Absent, Loaded}
  /\ person \in (IF MayBePerson THEN {Absent, Loaded} ELSE {Absent})
  /\ miss = NoMiss
  /\ inflight = {}
  /\ req = [r \in Req |-> Idle]
  /\ pass = [age |-> Cooldown, left |-> "nothing"]
  /\ owed = [of |-> {}, how |-> "unstamped"]
  /\ reached = 0
  /\ faults = 0

At(r, place) == req[r].at = place
Goto(r, place) == req' = [req EXCEPT ![r].at = place]
Later(a, b) == IF a < b THEN b ELSE a

-----------------------------------------------------------------------------
(* decide_scrape *)

\* The reason to scrape; "fresh" and "cooldown" are the reasons not to.
Decide(row, depth, force) ==
  IF force THEN IF row.age < Cooldown THEN "cooldown" ELSE "forced"
  ELSE IF ~row.known THEN "absent"
  ELSE IF ~row.scraped THEN "never_on_demand"
  ELSE IF row.incomplete /\ row.age >= Cooldown THEN "incomplete"
  ELSE IF row.age > TTL THEN "stale"
  ELSE IF depth > row.depth THEN "deepen"
  ELSE "fresh"

\* ensure_scrape resolves the search and decides.  A name that is a person's and
\* no company's is a person question first; what is fresh is served as it is.
View(r, depth, force) ==
  LET asksPerson == ~entity.known /\ person.known
      reason == Decide(entity, depth, force)
      due == IF asksPerson THEN Decide(person, 1, force) \in Reasons ELSE reason \in Reasons
  IN
  /\ At(r, "idle") /\ due
  /\ req' = [req EXCEPT ![r] =
       [at |-> IF asksPerson THEN "person" ELSE "miss", depth |-> depth, reason |-> reason,
        since |-> 0, overlapped |-> FALSE]]
  /\ UNCHANGED <<entity, person, miss, inflight, pass, owed, reached, faults>>

PersonFound == IF MayBePerson THEN BOOLEAN ELSE {FALSE}

\* _scrape_person of a known person: found and stamped, or a company question
\* after all.
ScrapePerson(r) ==
  /\ At(r, "person")
  /\ \E found \in PersonFound :
       IF found
       THEN person' = ScrapedPerson /\ req' = [req EXCEPT ![r] = Idle]
       ELSE Goto(r, "miss") /\ UNCHANGED person
  /\ UNCHANGED <<entity, miss, inflight, pass, owed, reached, faults>>

\* _recent_miss: a recent one answers the request, an expired one is deleted.
ReadMiss(r) ==
  /\ At(r, "miss")
  /\ req' = [req EXCEPT ![r] = IF miss < Cooldown THEN Idle
                               ELSE [@ EXCEPT !.at = IF miss = NoMiss THEN "claim" ELSE "expired",
                                              !.since = 0]]
  /\ UNCHANGED <<entity, person, miss, inflight, pass, owed, reached, faults>>

\* DELETE ... WHERE key: whatever row is there by now.
DeleteExpired(r) ==
  /\ At(r, "expired")
  /\ miss' = NoMiss
  /\ pass' = [pass EXCEPT !.left = IF miss < Cooldown THEN "nothing" ELSE @]
  /\ Goto(r, "claim")
  /\ UNCHANGED <<entity, person, inflight, owed, reached, faults>>

\* Only depth-aware sources run on a deepening pass.
Specs(reason) == IF reason = "deepen" THEN {"wikidata"} ELSE Source

Begun(q) ==
  [at |-> "run", depth |-> q.depth, reason |-> q.reason, since |-> q.since,
   todo |-> Specs(q.reason), target |-> "none", reach |-> 0, lost |-> {}, marked |-> FALSE,
   missed |-> {}]

Claim(r) ==
  /\ At(r, "claim")
  /\ IF ProcOf[r] \in inflight
     THEN req' = [req EXCEPT ![r] = Idle] /\ UNCHANGED inflight      \* "in_progress"
     ELSE /\ inflight' = inflight \cup {ProcOf[r]}
          /\ req' = [req EXCEPT ![r] = Begun(@)]
  /\ UNCHANGED <<entity, person, miss, pass, owed, reached, faults>>

-----------------------------------------------------------------------------
(* _run_instant_sources *)

\* Registers first.
NextSource(r) ==
  IF "sec" \in req[r].todo THEN "sec" ELSE IF "wikidata" \in req[r].todo THEN "wikidata" ELSE "again"

Asked(token) == IF token = "again" THEN "wikidata" ELSE token

\* Broken form: every source reports the depth that was asked for.
RunDepth_Requested(q, source) == q.depth

\* A source blind to depth reaches none.
RunDepth(q, source) == IF source = "wikidata" THEN q.depth ELSE 0

\* Broken form: a source that comes through clears the mark another one left.
Targeted_Clears(q, target, depth, partial) ==
  [q EXCEPT !.target = target,
            !.reach = IF q.target = target THEN Later(@, depth) ELSE depth,
            !.marked = partial]

\* set_scrape_target: the deepest depth and any mark of the same target stay; of
\* another one they go.
Targeted(q, target, depth, partial) ==
  LET same == q.target = target IN
  [q EXCEPT !.target = target,
            !.reach = IF same THEN Later(@, depth) ELSE depth,
            !.marked = (same /\ @) \/ partial]

\* One source is asked.  Wikidata is asked once more when it found nothing and
\* the register has given the node an id.
Ask(r) ==
  /\ At(r, "run") /\ req[r].todo # {}
  /\ \E answer \in Answers(Asked(NextSource(r))), newId \in BOOLEAN :
       LET token == NextSource(r)
           source == Asked(token)
           depth == RunDepth(req[r], source)
           again == /\ token = "wikidata" /\ answer = "nothing"
                    /\ newId /\ req[r].target # "none"
           left == (req[r].todo \ {token}) \cup (IF again THEN {"again"} ELSE {})
           q == [req[r] EXCEPT !.todo = left,
                               !.lost = IF answer = "raised" THEN @ \cup {source} ELSE @,
                               !.missed = IF answer \in {"raised", "partial"}
                                          THEN @ \cup {source} ELSE @,
                               !.at = IF left = {} THEN "stamp" ELSE "run"]
       IN
       /\ newId => again
       /\ req' = [req EXCEPT ![r] =
            IF answer \in {"here", "partial"} THEN Targeted(q, "here", depth, answer = "partial")
            ELSE IF answer = "elsewhere" THEN Targeted(q, "elsewhere", depth, FALSE)
            ELSE q]
       /\ entity' = IF answer \in {"here", "partial"} THEN [entity EXCEPT !.known = TRUE] ELSE entity
       /\ reached' = IF answer = "here" THEN Later(reached, IF source = "wikidata" THEN req[r].depth ELSE 0) ELSE reached
  /\ UNCHANGED <<person, miss, inflight, pass, owed, faults>>

\* _stamp_scrape_freshness, when the outermost scope closes.
Stamped(q) ==
  [known |-> TRUE, scraped |-> TRUE, age |-> 0, depth |-> Later(entity.depth, q.reach),
   incomplete |-> q.marked \/ q.lost # {}]

\* What the passes so far still owe, a section or a whole source.
Owes(q, stamped) ==
  [of |-> (owed.of \ Specs(q.reason)) \cup q.missed,
   how |-> IF ~stamped THEN "unstamped" ELSE IF q.reason = "deepen" THEN "deepened" ELSE "stamped"]

Ended(q, stamped) ==
  [at |-> "release", since |-> q.since, target |-> q.target, stamped |-> stamped]

Stamp(r) ==
  LET q == req[r]
      stamps == q.target = "here"
  IN
  /\ At(r, "stamp")
  /\ entity' = IF stamps THEN Stamped(q) ELSE entity
  /\ owed' = Owes(q, stamps)
  /\ req' = [req EXCEPT ![r] = Ended(@, stamps)]
  /\ UNCHANGED <<person, miss, inflight, pass, reached, faults>>

\* The stamp is best-effort.
StampFails(r) ==
  /\ At(r, "stamp")
  /\ Fault
  /\ owed' = Owes(req[r], FALSE)
  /\ req' = [req EXCEPT ![r] = Ended(@, FALSE)]
  /\ UNCHANGED <<entity, person, miss, inflight, pass, reached>>

Release(r) ==
  /\ At(r, "release")
  /\ inflight' = inflight \ {ProcOf[r]}
  /\ Goto(r, "resolve")
  /\ UNCHANGED <<entity, person, miss, pass, owed, reached, faults>>

\* The pass is over: its request answers, and whoever decided before is late.
Over(r, left) ==
  /\ pass' = [age |-> req[r].since, left |-> left]
  /\ req' = [o \in Req |-> IF o = r THEN Idle
                           ELSE IF req[o].at \in {"person", "miss", "expired", "claim"}
                           THEN [req[o] EXCEPT !.overlapped = TRUE]
                           ELSE req[o]]

\* The search is resolved again.  With no company by that name it may be a
\* person's; with neither, the miss is remembered.
Resolve(r) ==
  /\ At(r, "resolve")
  /\ Goto(r, IF req[r].target # "none" \/ entity.known THEN "clear" ELSE "person?")
  /\ UNCHANGED <<entity, person, miss, inflight, pass, owed, reached, faults>>

IsPerson(r) ==
  /\ At(r, "person?")
  /\ \E found \in PersonFound :
       IF found
       THEN person' = ScrapedPerson /\ Goto(r, "clear")
       ELSE Goto(r, "record") /\ UNCHANGED person
  /\ UNCHANGED <<entity, miss, inflight, pass, owed, reached, faults>>

ClearMiss(r) ==
  /\ At(r, "clear")
  /\ miss' = NoMiss
  /\ Over(r, IF req[r].stamped THEN "stamp"
             ELSE IF req[r].target = "none" /\ ~entity.known THEN "person"
             ELSE "nothing")
  /\ UNCHANGED <<entity, person, inflight, owed, reached, faults>>

\* Broken form: the miss is not remembered.
RecordMiss_Forgets(r) ==
  /\ At(r, "record")
  /\ Over(r, "miss")
  /\ UNCHANGED <<entity, person, miss, inflight, owed, reached, faults>>

RecordMiss(r) ==
  /\ At(r, "record")
  /\ miss' = req[r].since
  /\ Over(r, "miss")
  /\ UNCHANGED <<entity, person, inflight, owed, reached, faults>>

-----------------------------------------------------------------------------

\* Broken form: a pass that raises keeps its search in flight.
PassRaises_Holds(r) ==
  /\ At(r, "run")
  /\ Fault
  /\ req' = [req EXCEPT ![r] = Idle]
  /\ UNCHANGED <<entity, person, miss, inflight, pass, owed, reached>>

\* A pass raises as a whole - the source switches are in the database - and the
\* search is released all the same.
PassRaises(r) ==
  /\ At(r, "run")
  /\ Fault
  /\ inflight' = inflight \ {ProcOf[r]}
  /\ req' = [req EXCEPT ![r] = Idle]
  /\ UNCHANGED <<entity, person, miss, pass, owed, reached>>

\* A process is killed, with its requests and what it holds in memory.
Kill(p) ==
  /\ Fault
  /\ \E r \in Req : ProcOf[r] = p /\ req[r] # Idle
  /\ inflight' = inflight \ {p}
  /\ req' = [r \in Req |-> IF ProcOf[r] = p THEN Idle ELSE req[r]]
  /\ UNCHANGED <<entity, person, miss, pass, owed, reached>>

\* A bulk import loads the company.
BulkLoad ==
  /\ ~entity.known
  /\ entity' = Loaded
  /\ UNCHANGED <<person, miss, inflight, req, pass, owed, reached, faults>>

Older(age, limit) == IF age < limit THEN age + 1 ELSE age

Tick ==
  /\ entity' = [entity EXCEPT !.age = Older(@, Old)]
  /\ person' = [person EXCEPT !.age = Older(@, Old)]
  /\ miss' = IF miss = NoMiss THEN miss ELSE Older(miss, Cooldown)
  /\ pass' = [pass EXCEPT !.age = Older(@, Cooldown)]
  /\ req' = [r \in Req |-> IF req[r] = Idle THEN Idle ELSE [req[r] EXCEPT !.since = Older(@, Cooldown)]]
  /\ UNCHANGED <<inflight, owed, reached, faults>>

Step(r) ==
  \/ ScrapePerson(r) \/ ReadMiss(r) \/ DeleteExpired(r) \/ Claim(r)
  \/ Ask(r) \/ Stamp(r) \/ Release(r) \/ Resolve(r) \/ IsPerson(r)
  \/ ClearMiss(r) \/ RecordMiss(r)

Next ==
  \/ \E r \in Req :
       \/ \E depth \in Depth, force \in BOOLEAN : View(r, depth, force)
       \/ Step(r)
       \/ StampFails(r)
       \/ PassRaises(r)
  \/ \E p \in Proc : Kill(p)
  \/ BulkLoad
  \/ Tick

Spec == Init /\ [][Next]_vars

\* Visitors keep coming, requests go on, time passes.
Fairness ==
  /\ \A r \in Req : WF_vars(Step(r))
  /\ WF_vars(\E r \in Req, depth \in Depth : View(r, depth, FALSE))
  /\ WF_vars(Tick)

FairSpec == Spec /\ Fairness

-----------------------------------------------------------------------------

\* The sources rest: a pass begins within the cooldown of the last one only to
\* go deeper, or if it was decided before that one ended, or if that one left
\* nothing to go by: neither a stamp, nor a remembered miss, nor a person where
\* there still is no company.
SourcesRest ==
  [][\A r \in Req :
       At(r, "claim") /\ At(r, "run")' =>
         \/ pass.age >= Cooldown
         \/ pass.left = "nothing" \/ (pass.left = "person" /\ entity.known)
         \/ req[r].reason = "deepen" \/ req[r].overlapped]_vars

\* A company is never said to be scraped deeper than Wikidata came through.
DepthReached == entity.scraped => entity.depth <= reached

\* After a full pass that lost a source, or a section of one, and stamped the
\* company, it is due again after the cooldown and not the TTL.
LostSourceMarked == owed.of # {} /\ owed.how = "stamped" => entity.incomplete

\* A deepening pass, which asks Wikidata alone, leaves the company due as well
\* while the SEC is owed: only a complete scrape cancels that.
LostSourceRetried == owed.of # {} /\ owed.how # "unstamped" => entity.incomplete

\* Viewed again and again, a search asks its sources again and again: no memory
\* of a miss, no lock and no stamp silences it for ever, whatever failed.
AskedAgain == []<>(\E r \in Req : At(r, "run") \/ At(r, "person"))
=============================================================================
