--------------------------- MODULE OnDemandProofs ---------------------------
(***************************************************************************)
(* What on-demand scraping guarantees for any number of requests and       *)
(* processes, any cooldown and TTL, any answers of the sources, and        *)
(* whatever processes are killed and database calls fail: the depth said   *)
(* of a company was reached, a source lost by a full pass leaves the       *)
(* company marked, and the sources rest within the cooldown.               *)
(***************************************************************************)
EXTENDS OnDemand, TLAPS

Runs(r)    == At(r, "run") \/ At(r, "stamp")
Decides(r) == At(r, "person") \/ At(r, "miss") \/ At(r, "expired") \/ At(r, "claim")
Ends(r)    == At(r, "release") \/ At(r, "resolve") \/ At(r, "person?") \/ At(r, "clear")
              \/ At(r, "record")

\* The depth a pass has reached for the node it will stamp is one that came through.
ReachKnows(r) == Runs(r) /\ req[r].target = "here" => req[r].reach <= reached

\* The register is asked first and Wikidata's second chance comes last, so that the
\* mark of a lost section is only dropped by the last answer, with the target.
PassKnows(r) ==
  Runs(r) =>
    /\ "again" \in req[r].todo => req[r].todo = {"again"}
    /\ "sec" \in req[r].todo => req[r].missed = {}
    /\ req[r].missed \ req[r].lost # {} =>
         /\ req[r].target = "here" => req[r].marked
         /\ req[r].todo # {} => req[r].target = "here"

\* A stamp no older than an age.
FreshCompany(age) == entity.scraped /\ entity.age <= age
FreshPerson(age) ==
  person.known /\ person.scraped /\ ~person.incomplete /\ person.depth >= 1 /\ person.age <= age

\* What the last pass left is still there, and no older than the pass.
PassLeft ==
  pass.age < Cooldown =>
    /\ pass.left = "stamp" => FreshCompany(pass.age)
    /\ pass.left = "miss" => miss <= pass.age
    /\ pass.left = "person" /\ ~entity.known => FreshPerson(pass.age)

\* What a pass that is about to end will leave is there already.
WillLeave(r) ==
  Ends(r) /\ req[r].since < Cooldown =>
    /\ req[r].stamped => FreshCompany(req[r].since)
    /\ At(r, "clear") /\ req[r].target = "none" /\ ~entity.known => FreshPerson(req[r].since)

\* Whoever decided after the last pass had nothing to go by, unless to go deeper, and
\* whoever has read the miss memory since found no recent one.
NothingToGoBy(r) ==
  Decides(r) /\ pass.age < Cooldown /\ ~req[r].overlapped =>
    /\ \/ req[r].reason = "deepen"
       \/ pass.left \in {"nothing", "miss"} \/ (pass.left = "person" /\ entity.known)
    /\ At(r, "expired") \/ At(r, "claim") => pass.left # "miss"

RequestKnows(r) == ReachKnows(r) /\ PassKnows(r) /\ WillLeave(r) /\ NothingToGoBy(r)

\* What is said of the company and of the last pass.
Said == entity.depth <= reached /\ LostSourceMarked /\ PassLeft

Inv == TypeOK /\ Said /\ \A r \in Req : RequestKnows(r)

USE ReqAssumption, DepthAssumption, TimeAssumption, PersonAssumption, FaultAssumption

-----------------------------------------------------------------------------
(* Types *)

\* Which stage a request is in is told by its place.
LEMMA StageIs ==
  ASSUME TypeOK, NEW r \in Req
  PROVE  /\ Decides(r) <=> req[r] \in Deciding
         /\ Runs(r) <=> req[r] \in Running
         /\ Ends(r) <=> req[r] \in Ending
         /\ At(r, "idle") <=> req[r] = Idle
         /\ req[r] = Idle \/ Decides(r) \/ Runs(r) \/ Ends(r)
<1>1. req[r] \in {Idle} \cup Deciding \cup Running \cup Ending
  BY DEF TypeOK
<1>2. CASE req[r] = Idle
  BY <1>2 DEF Idle, Deciding, Running, Ending, At, Decides, Runs, Ends
<1>3. CASE req[r] \in Deciding
  BY <1>3 DEF Idle, Deciding, Running, Ending, At, Decides, Runs, Ends
<1>4. CASE req[r] \in Running
  BY <1>4 DEF Idle, Deciding, Running, Ending, At, Decides, Runs, Ends
<1>5. CASE req[r] \in Ending
  BY <1>5 DEF Idle, Deciding, Running, Ending, At, Decides, Runs, Ends
<1> QED
  BY <1>1, <1>2, <1>3, <1>4, <1>5

LEMMA AgesAre ==
  /\ Cooldown \in Nat /\ Cooldown > 0 /\ TTL \in Nat /\ Old \in Nat /\ Cooldown <= Old
  /\ NoMiss = Cooldown + 1 /\ Ages = 0 .. Old /\ Old = TTL + 1
BY DEF Old, NoMiss, Ages

LEMMA OlderAge ==
  ASSUME NEW limit \in Nat, NEW age \in 0 .. limit
  PROVE  /\ Older(age, limit) \in 0 .. limit
         /\ Older(age, limit) < limit => Older(age, limit) = age + 1
         /\ Older(age, limit) <= age + 1 /\ age <= Older(age, limit)
BY DEF Older

LEMMA RowKnown ==
  ASSUME NEW row \in Row, NEW x \in BOOLEAN, NEW new, new = [row EXCEPT !.known = x]
  PROVE  /\ new \in Row /\ new.known = x /\ new.scraped = row.scraped /\ new.age = row.age
         /\ new.depth = row.depth /\ new.incomplete = row.incomplete
BY DEF Row

LEMMA RowOlder ==
  ASSUME NEW row \in Row, NEW age \in Ages, NEW new, new = [row EXCEPT !.age = age]
  PROVE  /\ new \in Row /\ new.known = row.known /\ new.scraped = row.scraped /\ new.age = age
         /\ new.depth = row.depth /\ new.incomplete = row.incomplete
BY DEF Row

LEMMA RowScraped ==
  ASSUME NEW row \in Row, NEW x \in BOOLEAN, NEW age \in Ages, NEW depth \in 0 .. 3,
         NEW new, new = [row EXCEPT !.scraped = x, !.age = age, !.depth = depth]
  PROVE  /\ new \in Row /\ new.known = row.known /\ new.scraped = x /\ new.age = age
         /\ new.depth = depth /\ new.incomplete = row.incomplete
BY DEF Row

LEMMA RowsAre ==
  /\ Absent \in Row /\ ~Absent.known /\ ~Absent.scraped /\ ~Absent.incomplete
  /\ Absent.age = Old /\ Absent.depth = 0
  /\ Loaded \in Row /\ Loaded.known /\ ~Loaded.scraped /\ ~Loaded.incomplete
  /\ Loaded.age = Old /\ Loaded.depth = 0
  /\ ScrapedPerson \in Row /\ ScrapedPerson.known /\ ScrapedPerson.scraped
  /\ ~ScrapedPerson.incomplete /\ ScrapedPerson.age = 0 /\ ScrapedPerson.depth = 1
<1>1. /\ Absent \in Row /\ Absent.known = FALSE /\ Absent.scraped = FALSE
      /\ Absent.incomplete = FALSE /\ Absent.age = Old /\ Absent.depth = 0
  BY AgesAre DEF Row, Absent
<1> DEFINE yes == TRUE
<1>2. yes \in BOOLEAN /\ yes
  OBVIOUS
<1>3. Loaded = [Absent EXCEPT !.known = yes]
  BY DEF Loaded
<1>4. ScrapedPerson = [Loaded EXCEPT !.scraped = yes, !.age = 0, !.depth = 1]
  BY DEF ScrapedPerson
<1>5. 0 \in Ages /\ 1 \in 0 .. 3
  BY AgesAre
<1> HIDE DEF yes
<1>6. /\ Loaded \in Row /\ Loaded.known = yes /\ Loaded.scraped = FALSE
      /\ Loaded.incomplete = FALSE /\ Loaded.age = Old /\ Loaded.depth = 0
  BY <1>1, <1>2, <1>3 DEF Row
<1>7. /\ ScrapedPerson \in Row /\ ScrapedPerson.known = yes /\ ScrapedPerson.scraped = yes
      /\ ScrapedPerson.incomplete = FALSE /\ ScrapedPerson.age = 0 /\ ScrapedPerson.depth = 1
  BY <1>2, <1>4, <1>5, <1>6 DEF Row
<1> QED
  BY <1>1, <1>2, <1>6, <1>7

\* A company that is not known is due, and a row scraped within the cooldown only to
\* go deeper.
LEMMA AbsentIsDue ==
  ASSUME NEW row \in Row, ~row.known => row = Absent, NEW depth, NEW force \in BOOLEAN
  PROVE  ~row.known => Decide(row, depth, force) \in Reasons
BY RowsAre, AgesAre DEF Decide, Reasons

LEMMA FreshIsNotDue ==
  ASSUME NEW row \in Row, row.known, row.scraped, row.age < Cooldown,
         NEW depth \in 0 .. 3, NEW force \in BOOLEAN, Decide(row, depth, force) \in Reasons
  PROVE  Decide(row, depth, force) = "deepen" /\ row.depth < depth
BY AgesAre DEF Decide, Reasons, Row

LEMMA InitTyped == Init => TypeOK
<1> SUFFICES ASSUME Init PROVE TypeOK
  OBVIOUS
<1>1. entity \in {Absent, Loaded} /\ person \in {Absent, Loaded} /\ Loaded.known
  BY RowsAre DEF Init
<1> QED
  BY <1>1, RowsAre, AgesAre DEF Init, TypeOK

\* One request moves on.
LEMMA Moves ==
  ASSUME TypeOK, NEW r \in Req, NEW q \in {Idle} \cup Deciding \cup Running \cup Ending,
         req' = [req EXCEPT ![r] = q]
  PROVE  /\ req' \in [Req -> {Idle} \cup Deciding \cup Running \cup Ending]
         /\ req'[r] = q /\ \A o \in Req \ {r} : req'[o] = req[o]
BY DEF TypeOK

LEMMA DecidingMoves ==
  ASSUME NEW q \in Deciding, NEW at \in {"person", "miss", "expired", "claim"},
         NEW since \in 0 .. Cooldown
  PROVE  [q EXCEPT !.at = at] \in Deciding /\ [q EXCEPT !.at = at, !.since = since] \in Deciding
         /\ [q EXCEPT !.overlapped = TRUE] \in Deciding
BY DEF Deciding

LEMMA EndingMoves ==
  ASSUME NEW q \in Ending, NEW at \in {"release", "resolve", "person?", "clear", "record"}
  PROVE  [q EXCEPT !.at = at] \in Ending
BY DEF Ending

LEMMA Aging ==
  ASSUME NEW q \in Deciding \cup Running \cup Ending, NEW since \in 0 .. Cooldown
  PROVE  /\ q \in Deciding => [q EXCEPT !.since = since] \in Deciding
         /\ q \in Running  => [q EXCEPT !.since = since] \in Running
         /\ q \in Ending   => [q EXCEPT !.since = since] \in Ending
BY DEF Deciding, Running, Ending

LEMMA BegunRuns == \A q \in Deciding : Begun(q) \in Running
BY DEF Deciding, Running, Begun, Specs, Source, Target

LEMMA EndedEnds == \A q \in Running, stamped \in BOOLEAN : Ended(q, stamped) \in Ending
BY DEF Running, Ending, Ended

LEMMA OwesOf ==
  ASSUME TypeOK, NEW q \in Running, NEW stamped \in BOOLEAN
  PROVE  Owes(q, stamped) \in [of : SUBSET Source, how : {"stamped", "deepened", "unstamped"}]
BY DEF Owes, Running, TypeOK

LEMMA StampedRow ==
  ASSUME TypeOK, NEW q \in Running
  PROVE  /\ Stamped(q) \in Row /\ Stamped(q).known /\ Stamped(q).scraped /\ Stamped(q).age = 0
         /\ Stamped(q).depth = Later(entity.depth, q.reach)
         /\ Stamped(q).incomplete <=> q.marked \/ q.lost # {}
<1> DEFINE incomplete == q.marked \/ q.lost # {}
           depth == Later(entity.depth, q.reach)
<1>1. incomplete \in BOOLEAN /\ depth \in 0 .. 3
  <2>1. entity.depth \in 0 .. 3
    BY DEF TypeOK, Row
  <2>2. depth \in 0 .. 3
    <3>1. q.reach \in {0} \cup Depth
      BY DEF Running
    <3>2. {0} \cup Depth \subseteq 0 .. 3
      BY DepthAssumption
    <3>3. q.reach \in 0 .. 3
      BY <3>1, <3>2
    <3>4. depth \in {entity.depth, q.reach}
      BY DEF Later
    <3> QED
      BY <2>1, <3>3, <3>4
  <2>3. incomplete \in BOOLEAN
    OBVIOUS
  <2> QED
    BY <2>2, <2>3
<1>2. Stamped(q) = [known |-> TRUE, scraped |-> TRUE, age |-> 0, depth |-> depth,
                    incomplete |-> incomplete]
  BY DEF Stamped
<1> HIDE DEF incomplete, depth
<1>3. Stamped(q) \in Row /\ Stamped(q).known /\ Stamped(q).scraped /\ Stamped(q).age = 0
      /\ Stamped(q).depth = depth /\ Stamped(q).incomplete = incomplete
  BY <1>1, <1>2, AgesAre DEF Row
<1> QED
  BY <1>3 DEF incomplete, depth


-----------------------------------------------------------------------------
(* A source is asked *)

\* What recording a target leaves of a pass.
LEMMA Targeting ==
  ASSUME NEW q \in Running, NEW target \in {"here", "elsewhere"}, NEW depth \in {0} \cup Depth,
         NEW partial \in BOOLEAN, NEW t, t = Targeted(q, target, depth, partial)
  PROVE  /\ t \in Running /\ t.target = target
         /\ t.at = q.at /\ t.depth = q.depth /\ t.reason = q.reason /\ t.since = q.since
         /\ t.todo = q.todo /\ t.lost = q.lost /\ t.missed = q.missed
         /\ t.reach = (IF q.target = target THEN Later(q.reach, depth) ELSE depth)
         /\ t.marked <=> (q.target = target /\ q.marked) \/ partial
<1> DEFINE reach == IF q.target = target THEN Later(q.reach, depth) ELSE depth
           marked == (q.target = target /\ q.marked) \/ partial
<1>1. reach \in {0} \cup Depth /\ marked \in BOOLEAN
  BY DEF Running, Later
<1>2. t = [q EXCEPT !.target = target, !.reach = reach, !.marked = marked]
  BY DEF Targeted, Running
<1> HIDE DEF reach, marked
<1>3. /\ t \in Running /\ t.target = target /\ t.reach = reach /\ t.marked = marked
      /\ t.at = q.at /\ t.depth = q.depth /\ t.reason = q.reason /\ t.since = q.since
      /\ t.todo = q.todo /\ t.lost = q.lost /\ t.missed = q.missed
  BY <1>1, <1>2 DEF Running, Target
<1> QED
  BY <1>3 DEF reach, marked

\* One answer changes one request: what is still to ask, what was lost, and the target.
AskedFor(r, q, token, answer) ==
  LET source == Asked(token)
      depth  == RunDepth(req[r], source)
  IN
  /\ req' = [req EXCEPT ![r] = q]
  /\ q.depth = req[r].depth /\ q.reason = req[r].reason /\ q.since = req[r].since
  /\ token = NextSource(r) /\ token \in req[r].todo
  /\ q.todo \subseteq (req[r].todo \ {token}) \cup {"again"}
  /\ "again" \in q.todo => \/ "again" \in req[r].todo /\ token # "again"
                           \/ token = "wikidata" /\ answer = "nothing"
  /\ q.lost = (IF answer = "raised" THEN req[r].lost \cup {source} ELSE req[r].lost)
  /\ q.missed = (IF answer \in {"raised", "partial"} THEN req[r].missed \cup {source}
                 ELSE req[r].missed)
  /\ answer \in {"here", "partial"} =>
       /\ q.target = "here" /\ entity' = [entity EXCEPT !.known = TRUE]
       /\ q.reach = (IF req[r].target = "here" THEN Later(req[r].reach, depth) ELSE depth)
       /\ q.marked <=> (req[r].target = "here" /\ req[r].marked) \/ answer = "partial"
  /\ answer = "elsewhere" => q.target = "elsewhere"
  /\ answer \notin {"here", "partial", "elsewhere"} =>
       q.target = req[r].target /\ q.reach = req[r].reach /\ q.marked = req[r].marked
  /\ answer \notin {"here", "partial"} => entity' = entity
  /\ reached' = (IF answer = "here"
                 THEN Later(reached, IF source = "wikidata" THEN req[r].depth ELSE 0) ELSE reached)
  /\ UNCHANGED <<person, miss, inflight, pass, owed, faults>>

LEMMA Asks ==
  ASSUME TypeOK, NEW r \in Req, Ask(r)
  PROVE  \E q \in Running, token \in Source \cup {"again"} :
           \E answer \in Answers(Asked(token)) : AskedFor(r, q, token, answer)
<1> DEFINE token == NextSource(r)
           source == Asked(token)
           depth == RunDepth(req[r], source)
<1>1. req[r] \in Running /\ At(r, "run") /\ req[r].todo # {}
  BY StageIs DEF Ask, Runs
<1>2. token \in Source \cup {"again"} /\ token \in req[r].todo /\ source \in Source
  BY <1>1 DEF NextSource, Running, Source, Asked
<1>3. depth \in {0} \cup Depth
  BY <1>1 DEF RunDepth, Running
<1>4. PICK answer \in Answers(source), newId \in BOOLEAN :
       LET again == /\ token = "wikidata" /\ answer = "nothing"
                    /\ newId /\ req[r].target # "none"
           left == (req[r].todo \ {token}) \cup (IF again THEN {"again"} ELSE {})
           q == [req[r] EXCEPT !.todo = left,
                               !.lost = IF answer = "raised" THEN @ \cup {source} ELSE @,
                               !.missed = IF answer \in {"raised", "partial"}
                                          THEN @ \cup {source} ELSE @,
                               !.at = IF left = {} THEN "stamp" ELSE "run"]
       IN
       /\ newId => again
       /\ req' = [req EXCEPT ![r] =
            IF answer \in {"here", "partial"} THEN Targeted(q, "here", depth, answer = "partial")
            ELSE IF answer = "elsewhere" THEN Targeted(q, "elsewhere", depth, FALSE)
            ELSE q]
       /\ entity' = IF answer \in {"here", "partial"} THEN [entity EXCEPT !.known = TRUE] ELSE entity
       /\ reached' = IF answer = "here" THEN Later(reached, IF source = "wikidata" THEN req[r].depth ELSE 0) ELSE reached
  BY DEF Ask
<1> HIDE DEF token, source, depth
<1> DEFINE again == token = "wikidata" /\ answer = "nothing" /\ newId /\ req[r].target # "none"
           left == (req[r].todo \ {token}) \cup (IF again THEN {"again"} ELSE {})
           lost == IF answer = "raised" THEN req[r].lost \cup {source} ELSE req[r].lost
           missed == IF answer \in {"raised", "partial"} THEN req[r].missed \cup {source}
                     ELSE req[r].missed
           place == IF left = {} THEN "stamp" ELSE "run"
           q == [req[r] EXCEPT !.todo = left, !.lost = lost, !.missed = missed, !.at = place]
           p == IF answer \in {"here", "partial"} THEN Targeted(q, "here", depth, answer = "partial")
                ELSE IF answer = "elsewhere" THEN Targeted(q, "elsewhere", depth, FALSE)
                ELSE q
<1>5. /\ left \in SUBSET (Source \cup {"again"}) /\ lost \in SUBSET Source
      /\ missed \in SUBSET Source /\ place \in {"run", "stamp"}
      /\ left \subseteq (req[r].todo \ {token}) \cup {"again"}
      /\ "again" \in left =>
           ("again" \in req[r].todo /\ token # "again") \/ (token = "wikidata" /\ answer = "nothing")
  BY <1>1, <1>2 DEF Running
<1>6. req' = [req EXCEPT ![r] = p]
  BY <1>1, <1>4 DEF Running
<1> HIDE DEF left, lost, missed, place
<1>7. /\ q \in Running /\ q.todo = left /\ q.lost = lost /\ q.missed = missed
      /\ q.depth = req[r].depth /\ q.reason = req[r].reason /\ q.since = req[r].since
      /\ q.target = req[r].target /\ q.reach = req[r].reach /\ q.marked = req[r].marked
  BY <1>1, <1>5 DEF Running
<1> DEFINE partial == answer = "partial"
           never == FALSE
<1>8. partial \in BOOLEAN /\ never \in BOOLEAN
  OBVIOUS
<1> HIDE DEF q
<1>9. CASE answer \in {"here", "partial"}
  <2>1. p = Targeted(q, "here", depth, partial)
    BY <1>9
  <2> HIDE DEF p, partial
  <2>2. /\ p \in Running /\ p.target = "here"
        /\ p.depth = q.depth /\ p.reason = q.reason /\ p.since = q.since
        /\ p.todo = q.todo /\ p.lost = q.lost /\ p.missed = q.missed
        /\ p.reach = (IF q.target = "here" THEN Later(q.reach, depth) ELSE depth)
    BY <2>1, <1>3, <1>7, <1>8, Targeting DEF Running
  <2>3. p.marked <=> (req[r].target = "here" /\ req[r].marked) \/ answer = "partial"
    <3>1. p.marked <=> (q.target = "here" /\ q.marked) \/ partial
      BY <2>1, <1>3, <1>7, <1>8, Targeting DEF Running
    <3> QED
      BY <3>1, <1>7 DEF partial
  <2>4. /\ p.lost = (IF answer = "raised" THEN req[r].lost \cup {source} ELSE req[r].lost)
        /\ p.missed = (IF answer \in {"raised", "partial"} THEN req[r].missed \cup {source}
                       ELSE req[r].missed)
    BY <2>2, <1>7 DEF lost, missed
  <2>5. AskedFor(r, p, token, answer)
    BY <1>2, <1>4, <1>5, <1>6, <1>7, <1>9, <2>2, <2>3, <2>4 DEF source, depth, token, Ask, AskedFor
  <2> QED
    BY <1>2, <2>2, <2>5 DEF source
<1>10. CASE answer = "elsewhere"
  <2>1. p = Targeted(q, "elsewhere", depth, never)
    BY <1>10
  <2> HIDE DEF p, never
  <2>2. /\ p \in Running /\ p.target = "elsewhere"
        /\ p.depth = q.depth /\ p.reason = q.reason /\ p.since = q.since
        /\ p.todo = q.todo /\ p.lost = q.lost /\ p.missed = q.missed
    BY <2>1, <1>3, <1>7, <1>8, Targeting DEF Running
  <2>4. /\ p.lost = (IF answer = "raised" THEN req[r].lost \cup {source} ELSE req[r].lost)
        /\ p.missed = (IF answer \in {"raised", "partial"} THEN req[r].missed \cup {source}
                       ELSE req[r].missed)
    BY <2>2, <1>7 DEF lost, missed
  <2>5. AskedFor(r, p, token, answer)
    BY <1>2, <1>4, <1>5, <1>6, <1>7, <1>10, <2>2, <2>4 DEF source, token, Ask, AskedFor
  <2> QED
    BY <1>2, <2>2, <2>5 DEF source
<1>11. CASE answer \notin {"here", "partial", "elsewhere"}
  <2>1. p = q
    BY <1>11
  <2> HIDE DEF p
  <2>4. /\ p.lost = (IF answer = "raised" THEN req[r].lost \cup {source} ELSE req[r].lost)
        /\ p.missed = (IF answer \in {"raised", "partial"} THEN req[r].missed \cup {source}
                       ELSE req[r].missed)
    BY <2>1, <1>7 DEF lost, missed
  <2>5. AskedFor(r, p, token, answer)
    BY <1>2, <1>4, <1>5, <1>6, <1>7, <1>11, <2>1, <2>4 DEF source, token, Ask, AskedFor
  <2> QED
    BY <1>2, <1>7, <2>1, <2>5 DEF source
<1> QED
  BY <1>9, <1>10, <1>11


-----------------------------------------------------------------------------
(* A typed state stays typed *)

LEMMA Goes ==
  ASSUME TypeOK, NEW r \in Req, NEW place, Goto(r, place)
  PROVE  req' = [req EXCEPT ![r] = [req[r] EXCEPT !.at = place]]
BY DEF Goto, TypeOK

\* The pass over, the others only learn that they are late.
LEMMA OverMoves ==
  ASSUME TypeOK, NEW r \in Req, Ends(r), NEW left \in {"nothing", "stamp", "person", "miss"},
         Over(r, left)
  PROVE  /\ req' \in [Req -> {Idle} \cup Deciding \cup Running \cup Ending]
         /\ pass' \in [age : 0 .. Cooldown, left : {"nothing", "stamp", "person", "miss"}]
         /\ pass'.age = req[r].since /\ pass'.left = left /\ req'[r] = Idle
         /\ \A o \in Req \ {r} :
              /\ Decides(o) => req'[o] \in Deciding /\ req'[o].overlapped
              /\ ~Decides(o) => req'[o] = req[o]
<1>1. req[r].since \in 0 .. Cooldown
  BY StageIs DEF Ending
<1>2. ASSUME NEW o \in Req \ {r}, Decides(o)
      PROVE  req'[o] = [req[o] EXCEPT !.overlapped = TRUE]
  BY <1>2 DEF Over, Decides, At
<1>3. ASSUME NEW o \in Req \ {r}, ~Decides(o) PROVE req'[o] = req[o]
  BY <1>3 DEF Over, Decides, At
<1>4. ASSUME NEW o \in Req \ {r}, Decides(o) PROVE req'[o] \in Deciding /\ req'[o].overlapped
  <2>1. req[o] \in Deciding
    BY <1>4, StageIs
  <2> DEFINE late == TRUE
  <2>2. late \in BOOLEAN /\ late
    OBVIOUS
  <2>3. req'[o] = [req[o] EXCEPT !.overlapped = late]
    BY <1>2, <1>4
  <2> HIDE DEF late
  <2>4. req'[o] \in Deciding /\ req'[o].overlapped = late
    BY <2>1, <2>2, <2>3 DEF Deciding
  <2> QED
    BY <2>2, <2>4
<1>5. req'[r] = Idle
  BY DEF Over
<1>6. \A o \in Req : req'[o] \in {Idle} \cup Deciding \cup Running \cup Ending
  BY <1>3, <1>4, <1>5 DEF TypeOK
<1>7. req' \in [Req -> {Idle} \cup Deciding \cup Running \cup Ending]
  BY <1>6 DEF Over
<1> QED
  BY <1>1, <1>3, <1>4, <1>5, <1>7 DEF Over

LEMMA NextPreservesType == TypeOK /\ [Next]_vars => TypeOK'
<1> SUFFICES ASSUME TypeOK, [Next]_vars PROVE TypeOK'
  OBVIOUS
<1> DEFINE Reqs == [Req -> {Idle} \cup Deciding \cup Running \cup Ending]
<1>1. ASSUME NEW r \in Req, NEW depth \in Depth, NEW force \in BOOLEAN, View(r, depth, force)
      PROVE  TypeOK'
  <2>1. Decide(entity, depth, force) \in Reasons
    BY <1>1, AbsentIsDue DEF View, TypeOK
  <2> DEFINE at == IF ~entity.known /\ person.known THEN "person" ELSE "miss"
             never == FALSE
             q == [at |-> at, depth |-> depth, reason |-> Decide(entity, depth, force),
                   since |-> 0, overlapped |-> never]
  <2>2. never \in BOOLEAN /\ at \in {"person", "miss"}
    OBVIOUS
  <2>3. req' = [req EXCEPT ![r] = q]
    BY <1>1 DEF View
  <2> HIDE DEF never, at
  <2>4. q \in Deciding
    BY <2>1, <2>2, AgesAre DEF Deciding
  <2> HIDE DEF q
  <2>5. req' \in Reqs
    BY <2>3, <2>4, Moves
  <2> QED
    BY <1>1, <2>5 DEF View, TypeOK
<1>2. ASSUME NEW r \in Req, ScrapePerson(r) PROVE TypeOK'
  <2>1. CASE person' = ScrapedPerson /\ req' = [req EXCEPT ![r] = Idle]
    <3>1. req' \in Reqs
      BY <2>1, Moves
    <3> QED
      BY <1>2, <2>1, <3>1, RowsAre DEF ScrapePerson, TypeOK
  <2>2. CASE Goto(r, "miss") /\ UNCHANGED person
    <3>1. [req[r] EXCEPT !.at = "miss"] \in Deciding
      <4>1. req[r] \in Deciding
        BY <1>2, StageIs DEF ScrapePerson, Decides
      <4> QED
        BY <4>1 DEF Deciding
    <3>2. req' \in Reqs
      BY <2>2, <3>1, Goes, Moves
    <3> QED
      BY <1>2, <2>2, <3>2 DEF ScrapePerson, TypeOK
  <2> QED
    BY <1>2, <2>1, <2>2 DEF ScrapePerson
<1>3. ASSUME NEW r \in Req, ReadMiss(r) PROVE TypeOK'
  <2> DEFINE at == IF miss = NoMiss THEN "claim" ELSE "expired"
             q == [req[r] EXCEPT !.at = at, !.since = 0]
  <2>1. at \in {"claim", "expired"} /\ req[r] \in Deciding
    BY <1>3, StageIs DEF ReadMiss, Decides
  <2>2. req' = [req EXCEPT ![r] = IF miss < Cooldown THEN Idle ELSE q]
    BY <1>3, <2>1 DEF ReadMiss
  <2> HIDE DEF at
  <2>3. q \in Deciding
    <3>1. 0 \in 0 .. Cooldown
      BY AgesAre
    <3> QED
      BY <2>1, <3>1 DEF Deciding
  <2> HIDE DEF q
  <2>4. req' \in Reqs
    BY <2>2, <2>3, Moves
  <2> QED
    BY <1>3, <2>4 DEF ReadMiss, TypeOK
<1>4. ASSUME NEW r \in Req, DeleteExpired(r) PROVE TypeOK'
  <2>1. [req[r] EXCEPT !.at = "claim"] \in Deciding
    <3>1. req[r] \in Deciding
      BY <1>4, StageIs DEF DeleteExpired, Decides
    <3> QED
      BY <3>1 DEF Deciding
  <2>2. req' \in Reqs
    BY <1>4, <2>1, Goes, Moves DEF DeleteExpired
  <2>3. pass' \in [age : 0 .. Cooldown, left : {"nothing", "stamp", "person", "miss"}]
    BY <1>4 DEF DeleteExpired, TypeOK
  <2>4. miss' \in 0 .. NoMiss
    BY <1>4, AgesAre DEF DeleteExpired
  <2> QED
    BY <1>4, <2>2, <2>3, <2>4 DEF DeleteExpired, TypeOK
<1>5. ASSUME NEW r \in Req, Claim(r) PROVE TypeOK'
  <2>1. Begun(req[r]) \in Running
    BY <1>5, StageIs, BegunRuns DEF Claim, Decides
  <2>2. \/ req' = [req EXCEPT ![r] = Idle]
        \/ req' = [req EXCEPT ![r] = Begun(req[r])]
    BY <1>5 DEF Claim, TypeOK
  <2>3. req' \in Reqs
    BY <2>1, <2>2, Moves
  <2> QED
    BY <1>5, <2>3 DEF Claim, TypeOK
<1>6. ASSUME NEW r \in Req, Ask(r) PROVE TypeOK'
  <2>1. PICK q \in Running, token \in Source \cup {"again"} :
           \E answer \in Answers(Asked(token)) : AskedFor(r, q, token, answer)
    BY <1>6, Asks
  <2>2. PICK answer \in Answers(Asked(token)) : AskedFor(r, q, token, answer)
    BY <2>1
  <2>3. req' \in Reqs
    BY <2>2, Moves DEF AskedFor
  <2>4. entity' = entity \/ entity' = [entity EXCEPT !.known = TRUE]
    BY <2>2 DEF AskedFor
  <2>5. entity' \in Row /\ (~entity'.known => entity' = Absent)
    <3> DEFINE yes == TRUE
    <3>1. yes \in BOOLEAN /\ yes /\ (entity' = entity \/ entity' = [entity EXCEPT !.known = yes])
      BY <2>4
    <3> HIDE DEF yes
    <3>2. entity' = entity \/ (entity' \in Row /\ entity'.known = yes)
      BY <3>1, RowKnown DEF TypeOK, Row
    <3> QED
      BY <3>1, <3>2 DEF TypeOK
  <2>6. reached' \in 0 .. 3
    <3>1. req[r].depth \in 0 .. 3
      BY <1>6, StageIs DEF Ask, Runs, Running
    <3> QED
      BY <2>2, <3>1 DEF AskedFor, Later, TypeOK
  <2> QED
    BY <2>2, <2>3, <2>5, <2>6 DEF AskedFor, TypeOK
<1>7. ASSUME NEW r \in Req, Stamp(r) \/ StampFails(r) PROVE TypeOK'
  <2> DEFINE stamps == Stamp(r) /\ req[r].target = "here"
  <2>1. stamps \in BOOLEAN /\ req[r] \in Running
    BY <1>7, StageIs DEF Stamp, StampFails, Runs
  <2>2. owed' = Owes(req[r], stamps) /\ req' = [req EXCEPT ![r] = Ended(req[r], stamps)]
    BY <1>7, <2>1 DEF Stamp, StampFails, TypeOK
  <2>3. entity' \in Row /\ (~entity'.known => entity' = Absent)
    BY <1>7, <2>1, StampedRow DEF Stamp, StampFails, TypeOK
  <2> HIDE DEF stamps
  <2>4. req' \in Reqs
    BY <2>1, <2>2, EndedEnds, Moves
  <2>5. owed' \in [of : SUBSET Source, how : {"stamped", "deepened", "unstamped"}]
    BY <2>1, <2>2, OwesOf
  <2>6. faults' \in 0 .. MaxFaults
    <3>1. faults' = faults \/ (faults < MaxFaults /\ faults' = faults + 1)
      BY <1>7 DEF Stamp, StampFails, Fault
    <3> QED
      BY <3>1 DEF TypeOK
  <2> QED
    BY <1>7, <2>3, <2>4, <2>5, <2>6 DEF Stamp, StampFails, TypeOK
<1>8. ASSUME NEW r \in Req, Release(r) PROVE TypeOK'
  <2>1. [req[r] EXCEPT !.at = "resolve"] \in Ending
    BY <1>8, StageIs, EndingMoves DEF Release, Ends
  <2>2. req' \in Reqs
    BY <1>8, <2>1, Goes, Moves DEF Release
  <2> QED
    BY <1>8, <2>2 DEF Release, TypeOK
<1>9. ASSUME NEW r \in Req, Resolve(r) PROVE TypeOK'
  <2> DEFINE place == IF req[r].target # "none" \/ entity.known THEN "clear" ELSE "person?"
  <2>1. [req[r] EXCEPT !.at = place] \in Ending
    BY <1>9, StageIs, EndingMoves DEF Resolve, Ends
  <2>2. req' \in Reqs
    BY <1>9, <2>1, Goes, Moves DEF Resolve
  <2> QED
    BY <1>9, <2>2 DEF Resolve, TypeOK
<1>10. ASSUME NEW r \in Req, IsPerson(r) PROVE TypeOK'
  <2>1. \A place \in {"clear", "record"} : [req[r] EXCEPT !.at = place] \in Ending
    BY <1>10, StageIs, EndingMoves DEF IsPerson, Ends
  <2>2. req' \in Reqs
    BY <1>10, <2>1, Goes, Moves DEF IsPerson
  <2>3. person' \in Row
    BY <1>10, RowsAre DEF IsPerson, TypeOK
  <2> QED
    BY <1>10, <2>2, <2>3 DEF IsPerson, TypeOK
<1>11. ASSUME NEW r \in Req, ClearMiss(r) PROVE TypeOK'
  <2> DEFINE left == IF req[r].stamped THEN "stamp"
                     ELSE IF req[r].target = "none" /\ ~entity.known THEN "person"
                     ELSE "nothing"
  <2>1. left \in {"nothing", "stamp", "person", "miss"} /\ Ends(r) /\ Over(r, left)
    BY <1>11 DEF ClearMiss, Ends
  <2> HIDE DEF left
  <2>2. req' \in Reqs /\ pass' \in [age : 0 .. Cooldown, left : {"nothing", "stamp", "person", "miss"}]
    BY <2>1, OverMoves
  <2> QED
    BY <1>11, <2>2, AgesAre DEF ClearMiss, TypeOK
<1>12. ASSUME NEW r \in Req, RecordMiss(r) PROVE TypeOK'
  <2>1. req' \in Reqs /\ pass' \in [age : 0 .. Cooldown, left : {"nothing", "stamp", "person", "miss"}]
    BY <1>12, OverMoves DEF RecordMiss, Ends
  <2>2. miss' \in 0 .. NoMiss
    <3>1. req[r].since \in 0 .. Cooldown
      BY <1>12, StageIs DEF RecordMiss, Ends, Ending
    <3> QED
      BY <1>12, <3>1, AgesAre DEF RecordMiss
  <2> QED
    BY <1>12, <2>1, <2>2 DEF RecordMiss, TypeOK
<1>13. ASSUME NEW r \in Req, PassRaises(r) PROVE TypeOK'
  <2>1. req' \in Reqs
    BY <1>13, Moves DEF PassRaises
  <2> QED
    BY <1>13, <2>1 DEF PassRaises, Fault, TypeOK
<1>14. ASSUME NEW p \in Proc, Kill(p) PROVE TypeOK'
  BY <1>14 DEF Kill, Fault, TypeOK
<1>15. CASE BulkLoad
  BY <1>15, RowsAre DEF BulkLoad, TypeOK
<1>16. CASE Tick
  <2>1. entity' \in Row /\ person' \in Row
    <3>1. Older(entity.age, Old) \in Ages /\ Older(person.age, Old) \in Ages
      BY AgesAre, OlderAge DEF TypeOK, Row
    <3> QED
      BY <1>16, <3>1, RowOlder DEF Tick, TypeOK, Row
  <2>2. ~entity'.known => entity' = Absent
    <3>1. ASSUME ~entity.known PROVE entity' = Absent
      <4>1. entity = Absent /\ Absent.age = Old /\ Older(Old, Old) = Old
        BY <3>1, RowsAre, AgesAre DEF TypeOK, Older
      <4>2. entity' = [Absent EXCEPT !.age = Old]
        BY <1>16, <4>1 DEF Tick
      <4> QED
        BY <4>2 DEF Absent
    <3>2. entity'.known = entity.known
      BY <1>16 DEF Tick, TypeOK, Row
    <3> QED
      BY <3>1, <3>2
  <2>3. miss' \in 0 .. NoMiss
    BY <1>16, AgesAre DEF Tick, TypeOK, Older
  <2>4. pass' \in [age : 0 .. Cooldown, left : {"nothing", "stamp", "person", "miss"}]
    <3>1. Older(pass.age, Cooldown) \in 0 .. Cooldown
      BY AgesAre, OlderAge DEF TypeOK
    <3> QED
      BY <1>16, <3>1 DEF Tick, TypeOK
  <2>5. req' \in Reqs
    <3>1. ASSUME NEW r \in Req, req[r] # Idle
          PROVE  [req[r] EXCEPT !.since = Older(@, Cooldown)] \in Deciding \cup Running \cup Ending
      <4>1. req[r] \in Deciding \cup Running \cup Ending
        BY <3>1 DEF TypeOK
      <4>2. req[r].since \in 0 .. Cooldown
        BY <4>1 DEF Deciding, Running, Ending
      <4>3. Older(req[r].since, Cooldown) \in 0 .. Cooldown
        BY <4>2, AgesAre, OlderAge
      <4>4. [req[r] EXCEPT !.since = Older(@, Cooldown)] =
              [req[r] EXCEPT !.since = Older(req[r].since, Cooldown)]
        BY <4>1 DEF Deciding, Running, Ending
      <4> QED
        BY <4>1, <4>3, <4>4, Aging
    <3> QED
      BY <1>16, <3>1 DEF Tick
  <2> QED
    BY <1>16, <2>1, <2>2, <2>3, <2>4, <2>5 DEF Tick, TypeOK
<1>17. CASE UNCHANGED vars
  BY <1>17 DEF vars, TypeOK
<1> QED
  BY <1>1, <1>2, <1>3, <1>4, <1>5, <1>6, <1>7, <1>8, <1>9, <1>10, <1>11, <1>12, <1>13, <1>14,
     <1>15, <1>16, <1>17 DEF Next, Step

\* Type correctness of the company, the memory of misses and the requests.
THEOREM TypeCorrect == Spec => []TypeOK
BY InitTyped, NextPreservesType, PTL DEF Spec


-----------------------------------------------------------------------------
(* What is in step *)

LEMMA InitKnows == Init => Inv
<1> SUFFICES ASSUME Init PROVE Inv
  OBVIOUS
<1>1. TypeOK
  BY InitTyped
<1>2. Said
  BY RowsAre, AgesAre DEF Init, Said, LostSourceMarked, PassLeft
<1>3. \A r \in Req : RequestKnows(r)
  BY DEF Init, RequestKnows, ReachKnows, PassKnows, WillLeave, NothingToGoBy, Runs, Ends, Decides,
         At, Idle
<1> QED
  BY <1>1, <1>2, <1>3 DEF Inv

\* What every action but the passing of time leaves of the database: what is known
\* stays known, and a stamp is only replaced by a newer one.
Fresher ==
  /\ reached <= reached'
  /\ entity.known => entity'.known
  /\ entity.scraped => entity'.scraped /\ entity'.age <= entity.age
  /\ person' = person \/ person' = ScrapedPerson

LEMMA StillFresh ==
  ASSUME TypeOK, TypeOK', Fresher, NEW age \in Nat
  PROVE  /\ FreshCompany(age) => entity'.scraped /\ entity'.age <= age
         /\ FreshPerson(age) => /\ person'.known /\ person'.scraped /\ ~person'.incomplete
                                /\ person'.depth >= 1 /\ person'.age <= age
<1>1. FreshCompany(age) => entity'.scraped /\ entity'.age <= age
  BY AgesAre DEF FreshCompany, Fresher, TypeOK, Row
<1>2. CASE person' = person
  BY <1>1, <1>2 DEF FreshPerson
<1>3. CASE person' = ScrapedPerson
  BY <1>1, <1>3, RowsAre
<1> QED
  BY <1>2, <1>3 DEF Fresher

\* A company known as scraped is known.
LEMMA ScrapedIsKnown == ASSUME TypeOK PROVE entity.scraped => entity.known
BY RowsAre DEF TypeOK

\* An idle request knows nothing.
LEMMA IdleKnows == ASSUME NEW o \in Req, req'[o] = Idle PROVE RequestKnows(o)'
BY DEF RequestKnows, ReachKnows, PassKnows, WillLeave, NothingToGoBy, Runs, Ends, Decides, At, Idle

\* A request that does not move knows what it knew, but for what the last pass left.
LEMMA StaysPut ==
  ASSUME Inv, TypeOK', Fresher, NEW o \in Req, req'[o] = req[o]
  PROVE  ReachKnows(o)' /\ PassKnows(o)' /\ WillLeave(o)'
<1>1. TypeOK /\ ReachKnows(o) /\ PassKnows(o) /\ WillLeave(o)
  BY DEF Inv, RequestKnows
<1>2. ReachKnows(o)'
  <2>1. SUFFICES ASSUME Runs(o), req[o].target = "here" PROVE req[o].reach <= reached'
    BY DEF ReachKnows, Runs, At
  <2>2. req[o].reach <= reached /\ req[o].reach \in {0} \cup Depth
    BY <1>1, <2>1, StageIs DEF ReachKnows, Running
  <2>3. req[o].reach \in Nat /\ reached \in Nat /\ reached' \in Nat
    <3>1. {0} \cup Depth \subseteq Nat
      BY DepthAssumption
    <3>2. req[o].reach \in Nat
      BY <2>2, <3>1
    <3> QED
      BY <1>1, <3>2 DEF TypeOK
  <2> QED
    BY <2>2, <2>3 DEF Fresher
<1>3. PassKnows(o)'
  BY <1>1 DEF PassKnows, Runs, At
<1>4. WillLeave(o)'
  <2>1. SUFFICES ASSUME Ends(o), req[o].since < Cooldown
                 PROVE  /\ req[o].stamped => FreshCompany(req[o].since)'
                        /\ At(o, "clear") /\ req[o].target = "none" /\ ~entity'.known =>
                             FreshPerson(req[o].since)'
    BY DEF WillLeave, Ends, At, FreshCompany, FreshPerson
  <2>2. req[o].since \in Nat
    BY <1>1, <2>1, StageIs, AgesAre DEF Ending
  <2>3. /\ req[o].stamped => FreshCompany(req[o].since)
        /\ At(o, "clear") /\ req[o].target = "none" /\ ~entity'.known => FreshPerson(req[o].since)
    BY <1>1, <2>1 DEF WillLeave, Fresher
  <2> QED
    BY <1>1, <2>2, <2>3, StillFresh DEF FreshCompany, FreshPerson
<1> QED
  BY <1>2, <1>3, <1>4

LEMMA Stays ==
  ASSUME Inv, TypeOK', Fresher, pass' = pass \/ pass' = [pass EXCEPT !.left = "nothing"],
         NEW o \in Req, req'[o] = req[o]
  PROVE  RequestKnows(o)'
<1>1. NothingToGoBy(o) /\ TypeOK
  BY DEF Inv, RequestKnows
<1>2. pass'.age = pass.age /\ (pass'.left = pass.left \/ pass'.left = "nothing")
  BY <1>1 DEF TypeOK
<1>3. NothingToGoBy(o)'
  BY <1>1, <1>2 DEF NothingToGoBy, Decides, At, Fresher
<1> QED
  BY <1>3, StaysPut DEF RequestKnows

\* What is said of the company and the last pass stays true while neither changes.
LEMMA PassStays ==
  ASSUME Inv, TypeOK', Fresher, miss' = miss, pass' = pass
  PROVE  PassLeft'
<1>1. TypeOK /\ PassLeft /\ pass.age \in Nat
  BY AgesAre DEF Inv, Said, TypeOK
<1>2. /\ FreshCompany(pass.age) => FreshCompany(pass.age)'
      /\ FreshPerson(pass.age) => FreshPerson(pass.age)'
  BY <1>1, StillFresh DEF FreshCompany, FreshPerson
<1>3. ~entity'.known => ~entity.known
  BY DEF Fresher
<1> QED
  BY <1>1, <1>2, <1>3 DEF PassLeft, FreshCompany, FreshPerson

LEMMA SaidStays ==
  ASSUME Inv, TypeOK', Fresher, miss' = miss, pass' = pass, owed' = owed,
         entity'.depth = entity.depth, entity'.incomplete = entity.incomplete
  PROVE  Said'
<1>1. PassLeft'
  BY PassStays
<1>2. entity'.depth <= reached'
  <2>1. entity.depth \in Nat /\ reached \in Nat /\ reached' \in Nat /\ entity.depth <= reached
    BY DEF Inv, Said, TypeOK, Row
  <2> QED
    BY <2>1 DEF Fresher
<1>3. LostSourceMarked'
  BY DEF Inv, Said, LostSourceMarked
<1> QED
  BY <1>1, <1>2, <1>3 DEF Said

\* One request moves, and leaves the database as it was.
LEMMA OneMoves ==
  ASSUME Inv, TypeOK', NEW r \in Req, NEW q \in {Idle} \cup Deciding \cup Running \cup Ending,
         req' = [req EXCEPT ![r] = q], RequestKnows(r)',
         UNCHANGED <<entity, miss, pass, owed, reached>>,
         person' = person \/ person' = ScrapedPerson
  PROVE  Inv'
<1>1. TypeOK
  BY DEF Inv
<1>2. Fresher
  BY <1>1 DEF Fresher, TypeOK, Row, Ages
<1>3. Said'
  BY <1>2, SaidStays
<1>4. ASSUME NEW o \in Req \ {r} PROVE RequestKnows(o)'
  <2>1. req'[o] = req[o]
    BY <1>1, Moves
  <2> QED
    BY <1>2, <2>1, Stays
<1> QED
  BY <1>3, <1>4 DEF Inv


-----------------------------------------------------------------------------
(* Every action keeps what is known *)

LEMMA ViewKeeps ==
  ASSUME Inv, TypeOK', NEW r \in Req, NEW depth \in Depth, NEW force \in BOOLEAN,
         View(r, depth, force)
  PROVE  Inv'
<1> DEFINE at == IF ~entity.known /\ person.known THEN "person" ELSE "miss"
           reason == Decide(entity, depth, force)
<1>1. /\ TypeOK /\ PassLeft /\ entity \in Row /\ person \in Row
      /\ pass.age \in Nat /\ depth \in 0 .. 3
  BY AgesAre, DepthAssumption DEF Inv, Said, TypeOK
<1>2. at \in {"person", "miss"}
  OBVIOUS
<1>3. /\ req'[r].at = at /\ req'[r].reason = reason /\ req'[r] \in Deciding
      /\ req' = [req EXCEPT ![r] = req'[r]]
  <2>1. req' = [req EXCEPT ![r] = [at |-> at, depth |-> depth, reason |-> reason, since |-> 0,
                                   overlapped |-> FALSE]]
    BY DEF View
  <2> HIDE DEF at, reason
  <2>2. req'[r] = [at |-> at, depth |-> depth, reason |-> reason, since |-> 0, overlapped |-> FALSE]
    BY <1>1, <2>1 DEF TypeOK
  <2>3. req'[r].at = at /\ req'[r].reason = reason
    BY <2>2
  <2>4. req'[r] \in {Idle} \cup Deciding \cup Running \cup Ending
    BY DEF TypeOK
  <2>5. req'[r] \in Deciding
    BY <1>2, <2>3, <2>4 DEF Idle, Running, Ending
  <2> QED
    BY <2>1, <2>2, <2>3, <2>5
<1>4. pass.age < Cooldown =>
        reason = "deepen" \/ pass.left \in {"nothing", "miss"} \/ (pass.left = "person" /\ entity.known)
  <2> SUFFICES ASSUME pass.age < Cooldown PROVE
        reason = "deepen" \/ pass.left \in {"nothing", "miss"} \/ (pass.left = "person" /\ entity.known)
    OBVIOUS
  <2>1. CASE pass.left = "stamp"
    <3>1. entity.scraped /\ entity.age < Cooldown
      BY <1>1, <2>1, AgesAre DEF PassLeft, FreshCompany, Row
    <3>2. entity.known
      BY <1>1, <3>1, ScrapedIsKnown
    <3>3. reason \in Reasons
      BY <3>2 DEF View
    <3> QED
      BY <1>1, <3>1, <3>2, <3>3, FreshIsNotDue
  <2>2. CASE pass.left = "person" /\ ~entity.known
    <3>1. person.known /\ person.scraped /\ person.age < Cooldown /\ person.depth >= 1
      BY <1>1, <2>2, AgesAre DEF PassLeft, FreshPerson, Row
    <3>2. Decide(person, 1, force) \in Reasons
      BY <2>2, <3>1 DEF View
    <3>3. person.depth < 1
      BY <1>1, <3>1, <3>2, FreshIsNotDue
    <3> QED
      BY <1>1, <3>1, <3>3 DEF Row
  <2> QED
    BY <1>1, <2>1, <2>2 DEF TypeOK
<1>5. RequestKnows(r)'
  <2> HIDE DEF at, reason
  <2>1. NothingToGoBy(r)'
    BY <1>2, <1>3, <1>4 DEF NothingToGoBy, At, View
  <2>2. ~Runs(r)' /\ ~Ends(r)'
    BY <1>2, <1>3 DEF Runs, Ends, At
  <2> QED
    BY <2>1, <2>2 DEF RequestKnows, ReachKnows, PassKnows, WillLeave
<1> QED
  BY <1>3, <1>5, OneMoves DEF View

LEMMA ScrapePersonKeeps ==
  ASSUME Inv, TypeOK', NEW r \in Req, ScrapePerson(r) PROVE Inv'
<1>1. TypeOK /\ NothingToGoBy(r) /\ At(r, "person") /\ req[r] \in Deciding
  BY StageIs DEF Inv, RequestKnows, ScrapePerson, Decides
<1>2. CASE person' = ScrapedPerson /\ req' = [req EXCEPT ![r] = Idle]
  <2>1. RequestKnows(r)'
    BY <1>1, <1>2, Moves, IdleKnows
  <2> QED
    BY <1>2, <2>1, OneMoves DEF ScrapePerson
<1>3. CASE Goto(r, "miss") /\ UNCHANGED person
  <2> DEFINE q == [req[r] EXCEPT !.at = "miss"]
  <2>1. /\ q \in Deciding /\ q.at = "miss" /\ q.reason = req[r].reason
        /\ q.overlapped = req[r].overlapped
    BY <1>1 DEF Deciding
  <2>2. req' = [req EXCEPT ![r] = q]
    BY <1>1, <1>3, Goes
  <2> HIDE DEF q
  <2>3. req'[r] = q
    BY <1>1, <2>1, <2>2, Moves
  <2>4. NothingToGoBy(r)'
    BY <1>1, <2>1, <2>3 DEF NothingToGoBy, Decides, At, ScrapePerson
  <2>5. ~Runs(r)' /\ ~Ends(r)'
    BY <2>1, <2>3 DEF Runs, Ends, At
  <2>6. RequestKnows(r)'
    BY <2>4, <2>5 DEF RequestKnows, ReachKnows, PassKnows, WillLeave
  <2> QED
    BY <1>3, <2>1, <2>2, <2>6, OneMoves DEF ScrapePerson
<1> QED
  BY <1>2, <1>3 DEF ScrapePerson

LEMMA ReadMissKeeps ==
  ASSUME Inv, TypeOK', NEW r \in Req, ReadMiss(r) PROVE Inv'
<1>1. TypeOK /\ PassLeft /\ NothingToGoBy(r) /\ At(r, "miss") /\ req[r] \in Deciding
  BY StageIs DEF Inv, Said, RequestKnows, ReadMiss, Decides
<1> DEFINE at == IF miss = NoMiss THEN "claim" ELSE "expired"
           q == [req[r] EXCEPT !.at = at, !.since = 0]
<1>2. CASE miss < Cooldown
  <2>1. req' = [req EXCEPT ![r] = Idle]
    BY <1>2 DEF ReadMiss
  <2>2. RequestKnows(r)'
    BY <1>1, <2>1, Moves, IdleKnows
  <2> QED
    BY <2>1, <2>2, OneMoves DEF ReadMiss
<1>3. CASE ~(miss < Cooldown)
  <2>1. at \in {"claim", "expired"} /\ 0 \in 0 .. Cooldown
    BY AgesAre
  <2>2. req' = [req EXCEPT ![r] = q]
    BY <1>1, <1>3 DEF ReadMiss, TypeOK
  <2> HIDE DEF at
  <2>3. /\ q \in Deciding /\ q.at = at /\ q.reason = req[r].reason
        /\ q.overlapped = req[r].overlapped
    BY <1>1, <2>1 DEF Deciding
  <2> HIDE DEF q
  <2>4. req'[r] = q
    BY <1>1, <2>2, <2>3, Moves
  <2>5. pass.age < Cooldown => pass.left # "miss"
    BY <1>1, <1>3, AgesAre DEF PassLeft, TypeOK
  <2>6. NothingToGoBy(r)'
    BY <1>1, <2>1, <2>3, <2>4, <2>5 DEF NothingToGoBy, Decides, At, ReadMiss
  <2>7. ~Runs(r)' /\ ~Ends(r)'
    BY <2>1, <2>3, <2>4 DEF Runs, Ends, At
  <2>8. RequestKnows(r)'
    BY <2>6, <2>7 DEF RequestKnows, ReachKnows, PassKnows, WillLeave
  <2> QED
    BY <2>2, <2>3, <2>8, OneMoves DEF ReadMiss
<1> QED
  BY <1>2, <1>3

LEMMA DeleteExpiredKeeps ==
  ASSUME Inv, TypeOK', NEW r \in Req, DeleteExpired(r) PROVE Inv'
<1>1. /\ TypeOK /\ Said /\ NothingToGoBy(r) /\ At(r, "expired") /\ req[r] \in Deciding
  BY StageIs DEF Inv, RequestKnows, DeleteExpired, Decides
<1>2. Fresher
  BY <1>1 DEF Fresher, TypeOK, Row, Ages, DeleteExpired
<1>3. pass' = pass \/ pass' = [pass EXCEPT !.left = "nothing"]
  BY <1>1 DEF DeleteExpired, TypeOK
<1>4. /\ pass'.age = pass.age /\ (pass'.left = pass.left \/ pass'.left = "nothing")
      /\ miss < Cooldown => pass'.left = "nothing"
  BY <1>1 DEF DeleteExpired, TypeOK
<1>5. pass.age < Cooldown => pass'.left # "miss"
  BY <1>1, <1>4, AgesAre DEF Said, PassLeft, TypeOK
<1>6. PassLeft'
  BY <1>1, <1>4, <1>5 DEF Said, PassLeft, FreshCompany, FreshPerson, DeleteExpired
<1>7. Said'
  BY <1>1, <1>6 DEF Said, LostSourceMarked, DeleteExpired
<1> DEFINE q == [req[r] EXCEPT !.at = "claim"]
<1>8. /\ q \in Deciding /\ q.at = "claim" /\ q.reason = req[r].reason
      /\ q.overlapped = req[r].overlapped
  BY <1>1 DEF Deciding
<1>9. req' = [req EXCEPT ![r] = q]
  BY <1>1, Goes DEF DeleteExpired
<1> HIDE DEF q
<1>10. req'[r] = q /\ \A o \in Req \ {r} : req'[o] = req[o]
  BY <1>1, <1>8, <1>9, Moves
<1>11. NothingToGoBy(r)'
  BY <1>1, <1>4, <1>5, <1>8, <1>10 DEF NothingToGoBy, Decides, At, DeleteExpired
<1>12. ~Runs(r)' /\ ~Ends(r)'
  BY <1>8, <1>10 DEF Runs, Ends, At
<1>13. RequestKnows(r)'
  BY <1>11, <1>12 DEF RequestKnows, ReachKnows, PassKnows, WillLeave
<1>14. \A o \in Req \ {r} : RequestKnows(o)'
  BY <1>2, <1>3, <1>10, Stays
<1> QED
  BY <1>7, <1>13, <1>14 DEF Inv

LEMMA ClaimKeeps ==
  ASSUME Inv, TypeOK', NEW r \in Req, Claim(r) PROVE Inv'
<1>1. TypeOK /\ req[r] \in Deciding
  BY StageIs DEF Inv, Claim, Decides
<1>2. CASE req' = [req EXCEPT ![r] = Idle]
  <2>1. RequestKnows(r)'
    BY <1>1, <1>2, Moves, IdleKnows
  <2> QED
    BY <1>2, <2>1, OneMoves DEF Claim
<1>3. CASE req' = [req EXCEPT ![r] = Begun(req[r])]
  <2> DEFINE q == Begun(req[r])
  <2>1. /\ q \in Running /\ q.at = "run" /\ q.target = "none" /\ q.missed = {} /\ q.lost = {}
        /\ "again" \notin q.todo
    BY <1>1, BegunRuns DEF Begun, Specs, Source
  <2> HIDE DEF q
  <2>2. req' = [req EXCEPT ![r] = q]
    BY <1>3 DEF q
  <2>3. req'[r] = q
    BY <1>1, <2>1, <2>2, Moves
  <2>4. RequestKnows(r)'
    BY <2>1, <2>3
       DEF RequestKnows, ReachKnows, PassKnows, WillLeave, NothingToGoBy, Runs, Ends, Decides, At
  <2> QED
    BY <2>1, <2>2, <2>4, OneMoves DEF Claim
<1> QED
  BY <1>1, <1>2, <1>3 DEF Claim, TypeOK

LEMMA AskKeeps ==
  ASSUME Inv, TypeOK', NEW r \in Req, Ask(r) PROVE Inv'
<1>1. TypeOK /\ req[r] \in Running /\ At(r, "run") /\ ReachKnows(r) /\ PassKnows(r) /\ Runs(r)
  BY StageIs DEF Inv, RequestKnows, Ask, Runs
<1>2. PICK q \in Running, token \in Source \cup {"again"} :
         \E answer \in Answers(Asked(token)) : AskedFor(r, q, token, answer)
  BY <1>1, Asks
<1>3. PICK answer \in Answers(Asked(token)) : AskedFor(r, q, token, answer)
  BY <1>2
<1>4. req'[r] = q /\ \A o \in Req \ {r} : req'[o] = req[o]
  BY <1>1, <1>3, Moves DEF AskedFor
<1>5. entity'.scraped = entity.scraped /\ entity'.age = entity.age /\ entity'.depth = entity.depth
      /\ entity'.incomplete = entity.incomplete /\ (entity.known => entity'.known)
  <2> DEFINE yes == TRUE
  <2>1. yes \in BOOLEAN /\ yes /\ (entity' = entity \/ entity' = [entity EXCEPT !.known = yes])
    BY <1>3 DEF AskedFor
  <2> HIDE DEF yes
  <2> QED
    BY <1>1, <2>1 DEF TypeOK, Row
<1>6. req[r].depth \in Nat /\ reached \in Nat
  <2>1. Depth \subseteq Nat /\ req[r].depth \in Depth
    BY <1>1, DepthAssumption DEF Running
  <2>2. req[r].depth \in Nat
    BY <2>1
  <2> QED
    BY <1>1, <2>2 DEF TypeOK
<1>7. Fresher
  <2>1. reached <= reached'
    BY <1>3, <1>6 DEF AskedFor, Later
  <2> QED
    BY <1>1, <1>3, <1>5, <2>1 DEF Fresher, AskedFor, TypeOK, Row, Ages
<1>8. Said'
  BY <1>3, <1>5, <1>7, SaidStays DEF AskedFor
<1>9. ReachKnows(r)'
  <2> SUFFICES ASSUME q.target = "here" PROVE q.reach <= reached'
    BY <1>4 DEF ReachKnows
  <2>1. req[r].target = "here" => req[r].reach <= reached
    BY <1>1 DEF ReachKnows
  <2>2. req[r].reach \in Nat
    <3>1. {0} \cup Depth \subseteq Nat /\ req[r].reach \in {0} \cup Depth
      BY <1>1, DepthAssumption DEF Running
    <3> QED
      BY <3>1
  <2>3. reached' \in Nat /\ reached <= reached'
    BY <1>7 DEF TypeOK, Fresher
  <2>4. CASE answer = "here"
    <3>1. RunDepth(req[r], Asked(token)) = IF Asked(token) = "wikidata" THEN req[r].depth ELSE 0
      BY DEF RunDepth
    <3>2. RunDepth(req[r], Asked(token)) <= reached' /\ RunDepth(req[r], Asked(token)) \in Nat
      BY <1>3, <1>6, <2>4, <3>1 DEF AskedFor, Later
    <3> QED
      BY <1>3, <1>6, <2>1, <2>2, <2>3, <2>4, <3>2 DEF AskedFor, Later
  <2>5. CASE answer = "partial"
    <3>1. RunDepth(req[r], Asked(token)) = 0
      BY <2>5, AnswerAssumption DEF RunDepth, Asked, Source
    <3> QED
      BY <1>3, <1>6, <2>1, <2>2, <2>3, <2>5, <3>1 DEF AskedFor, Later
  <2>6. CASE answer \notin {"here", "partial"}
    BY <1>3, <1>6, <2>1, <2>2, <2>3, <2>6 DEF AskedFor
  <2> QED
    BY <2>4, <2>5, <2>6
<1>10. PassKnows(r)'
  <2>1. /\ "again" \in req[r].todo => req[r].todo = {"again"}
        /\ "sec" \in req[r].todo => req[r].missed = {}
        /\ req[r].missed \ req[r].lost # {} =>
             /\ req[r].target = "here" => req[r].marked
             /\ req[r].todo # {} => req[r].target = "here"
        /\ req[r].todo \subseteq {"sec", "wikidata", "again"}
    BY <1>1 DEF PassKnows, Running, Source
  <2>2. /\ token \in req[r].todo /\ q.todo \subseteq (req[r].todo \ {token}) \cup {"again"}
        /\ "again" \in q.todo => \/ "again" \in req[r].todo /\ token # "again"
                                 \/ token = "wikidata" /\ answer = "nothing"
        /\ "sec" \in req[r].todo => token = "sec"
    BY <1>3 DEF AskedFor, NextSource
  <2>3. "again" \in q.todo => q.todo = {"again"}
    BY <2>1, <2>2
  <2>4. "sec" \notin q.todo
    BY <2>1, <2>2
  <2>5. ASSUME q.missed \ q.lost # {}
        PROVE  (q.target = "here" => q.marked) /\ (q.todo # {} => q.target = "here")
    <3>1. CASE answer = "partial"
      BY <1>3, <3>1 DEF AskedFor
    <3>2. CASE answer # "partial"
      <4>1. req[r].missed \ req[r].lost # {}
        BY <1>3, <2>5, <3>2 DEF AskedFor
      <4>2. req[r].target = "here" /\ req[r].marked
        BY <2>1, <2>2, <4>1
      <4>3. answer = "elsewhere" => q.todo = {}
        BY <2>1, <2>2, <4>1
      <4>4. CASE answer = "here"
        BY <1>3, <4>2, <4>4 DEF AskedFor
      <4>5. CASE answer = "elsewhere"
        BY <1>3, <4>3, <4>5 DEF AskedFor
      <4>6. CASE answer \notin {"here", "partial", "elsewhere"}
        BY <1>3, <4>2, <4>6 DEF AskedFor
      <4> QED
        BY <3>2, <4>4, <4>5, <4>6
    <3> QED
      BY <3>1, <3>2
  <2> QED
    BY <1>4, <2>3, <2>4, <2>5 DEF PassKnows
<1>11. RequestKnows(r)'
  <2>1. ~Ends(r)' /\ ~Decides(r)'
    BY <1>4 DEF Ends, Decides, At, Running
  <2> QED
    BY <1>9, <1>10, <2>1 DEF RequestKnows, WillLeave, NothingToGoBy
<1>12. \A o \in Req \ {r} : RequestKnows(o)'
  BY <1>3, <1>4, <1>7, Stays DEF AskedFor
<1> QED
  BY <1>8, <1>11, <1>12 DEF Inv


LEMMA StampKeeps ==
  ASSUME Inv, TypeOK', NEW r \in Req, Stamp(r) \/ StampFails(r) PROVE Inv'
<1> DEFINE stamps == Stamp(r) /\ req[r].target = "here"
           q == Ended(req[r], stamps)
<1>1. /\ TypeOK /\ Said /\ req[r] \in Running /\ At(r, "stamp") /\ Runs(r)
      /\ ReachKnows(r) /\ PassKnows(r) /\ stamps \in BOOLEAN
  BY StageIs DEF Inv, RequestKnows, Stamp, StampFails, Runs
<1>2. /\ owed' = Owes(req[r], stamps) /\ req' = [req EXCEPT ![r] = q]
      /\ entity' = IF stamps THEN Stamped(req[r]) ELSE entity
  BY <1>1 DEF Stamp, StampFails, TypeOK
<1>3. UNCHANGED <<person, miss, pass, reached>>
  BY DEF Stamp, StampFails
<1>4. /\ Stamped(req[r]).known /\ Stamped(req[r]).scraped /\ Stamped(req[r]).age = 0
      /\ Stamped(req[r]).depth = Later(entity.depth, req[r].reach)
      /\ Stamped(req[r]).incomplete <=> req[r].marked \/ req[r].lost # {}
  BY <1>1, StampedRow
<1>5. stamps => req[r].target = "here"
  OBVIOUS
<1> HIDE DEF stamps
<1>6. /\ q \in Ending /\ q.at = "release" /\ q.since = req[r].since /\ q.target = req[r].target
      /\ q.stamped = stamps
  BY <1>1, EndedEnds DEF Ended
<1> HIDE DEF q
<1>7. req'[r] = q /\ \A o \in Req \ {r} : req'[o] = req[o]
  BY <1>1, <1>2, <1>6, Moves
<1>8. Fresher
  BY <1>1, <1>2, <1>3, <1>4 DEF Fresher, TypeOK, Row, Ages
<1>9. PassLeft'
  BY <1>3, <1>8, PassStays
<1>10. entity'.depth <= reached'
  <2>1. stamps => req[r].reach <= reached
    BY <1>1, <1>5 DEF ReachKnows
  <2>2. entity.depth <= reached
    BY <1>1 DEF Said
  <2> QED
    BY <1>2, <1>3, <1>4, <2>1, <2>2 DEF Later
<1>11. LostSourceMarked'
  <2>1. SUFFICES ASSUME stamps, req[r].reason # "deepen", owed'.of # {}
                 PROVE  req[r].marked \/ req[r].lost # {}
    BY <1>2, <1>4 DEF LostSourceMarked, Owes
  <2>2. owed'.of = (owed.of \ Source) \cup req[r].missed
    BY <1>2, <2>1 DEF Owes, Specs
  <2>3. owed.of \subseteq Source
    BY <1>1 DEF TypeOK
  <2>4. req[r].missed # {}
    BY <2>1, <2>2, <2>3
  <2> QED
    BY <1>1, <1>5, <2>1, <2>4 DEF PassKnows
<1>12. RequestKnows(r)'
  <2>1. ~Runs(r)' /\ ~Decides(r)'
    BY <1>6, <1>7 DEF Runs, Decides, At
  <2>2. WillLeave(r)'
    <3>1. req[r].since \in 0 .. Cooldown
      BY <1>1 DEF Running
    <3>2. stamps => entity'.scraped /\ entity'.age <= req[r].since
      BY <1>2, <1>4, <3>1, AgesAre
    <3> QED
      BY <1>6, <1>7, <3>2 DEF WillLeave, At, FreshCompany
  <2> QED
    BY <2>1, <2>2 DEF RequestKnows, ReachKnows, PassKnows, NothingToGoBy
<1>13. \A o \in Req \ {r} : RequestKnows(o)'
  BY <1>3, <1>7, <1>8, Stays
<1> QED
  BY <1>9, <1>10, <1>11, <1>12, <1>13 DEF Inv, Said

\* A pass that is ending goes on to another place.
LEMMA EndingGoes ==
  ASSUME Inv, TypeOK', NEW r \in Req, Ends(r),
         NEW place \in {"release", "resolve", "person?", "clear", "record"}, Goto(r, place),
         UNCHANGED <<entity, miss, pass, owed, reached>>,
         person' = person \/ person' = ScrapedPerson,
         place = "clear" /\ req[r].target = "none" /\ ~entity.known => person' = ScrapedPerson
  PROVE  Inv'
<1>1. TypeOK /\ req[r] \in Ending /\ WillLeave(r)
  BY StageIs DEF Inv, RequestKnows
<1> DEFINE q == [req[r] EXCEPT !.at = place]
<1>2. /\ q \in Ending /\ q.at = place /\ q.since = req[r].since /\ q.target = req[r].target
      /\ q.stamped = req[r].stamped
  BY <1>1 DEF Ending
<1>3. req' = [req EXCEPT ![r] = q]
  BY <1>1, Goes
<1> HIDE DEF q
<1>4. req'[r] = q
  BY <1>1, <1>2, <1>3, Moves
<1>5. ~Runs(r)' /\ ~Decides(r)'
  BY <1>2, <1>4 DEF Runs, Decides, At
<1>6. WillLeave(r)'
  <2>1. req[r].since \in 0 .. Cooldown
    BY <1>1 DEF Ending
  <2>2. req[r].since < Cooldown /\ req[r].stamped => FreshCompany(req[r].since)
    BY <1>1 DEF WillLeave
  <2>3. place = "clear" /\ req[r].target = "none" /\ ~entity.known =>
          /\ person'.known /\ person'.scraped /\ ~person'.incomplete
          /\ person'.depth >= 1 /\ person'.age <= req[r].since
    BY <2>1, RowsAre, AgesAre
  <2> QED
    BY <1>2, <1>4, <2>2, <2>3 DEF WillLeave, At, FreshCompany, FreshPerson
<1>7. RequestKnows(r)'
  BY <1>5, <1>6 DEF RequestKnows, ReachKnows, PassKnows, NothingToGoBy
<1> QED
  BY <1>2, <1>3, <1>7, OneMoves

LEMMA EndingKeeps ==
  ASSUME Inv, TypeOK', NEW r \in Req, Release(r) \/ Resolve(r) \/ IsPerson(r) PROVE Inv'
<1>1. CASE Release(r)
  BY <1>1, EndingGoes DEF Release, Ends
<1>2. CASE Resolve(r)
  <2> DEFINE place == IF req[r].target # "none" \/ entity.known THEN "clear" ELSE "person?"
  <2>1. /\ place \in {"release", "resolve", "person?", "clear", "record"} /\ Goto(r, place)
        /\ ~(place = "clear" /\ req[r].target = "none" /\ ~entity.known)
    BY <1>2 DEF Resolve
  <2> HIDE DEF place
  <2> QED
    BY <1>2, <2>1, EndingGoes DEF Resolve, Ends
<1>3. CASE IsPerson(r)
  <2>1. CASE person' = ScrapedPerson /\ Goto(r, "clear")
    BY <1>3, <2>1, EndingGoes DEF IsPerson, Ends
  <2>2. CASE Goto(r, "record") /\ UNCHANGED person
    BY <1>3, <2>2, EndingGoes DEF IsPerson, Ends
  <2> QED
    BY <1>3, <2>1, <2>2 DEF IsPerson
<1> QED
  BY <1>1, <1>2, <1>3

\* A pass that is over leaves what it had promised.
LEMMA OverKeeps ==
  ASSUME Inv, TypeOK', NEW r \in Req, Ends(r), NEW left \in {"nothing", "stamp", "person", "miss"},
         Over(r, left), UNCHANGED <<entity, person, owed, reached>>,
         left = "stamp" => req[r].stamped,
         left = "miss" => miss' <= req[r].since,
         left = "person" => At(r, "clear") /\ req[r].target = "none" /\ ~entity.known
  PROVE  Inv'
<1>1. TypeOK /\ Said /\ WillLeave(r)
  BY DEF Inv, RequestKnows
<1>2. /\ pass'.age = req[r].since /\ pass'.left = left /\ req'[r] = Idle
      /\ \A o \in Req \ {r} :
           /\ Decides(o) => req'[o] \in Deciding /\ req'[o].overlapped
           /\ ~Decides(o) => req'[o] = req[o]
  BY <1>1, OverMoves
<1>3. PassLeft'
  BY <1>1, <1>2 DEF PassLeft, WillLeave, FreshCompany, FreshPerson
<1>4. Said'
  BY <1>1, <1>3 DEF Said, LostSourceMarked
<1>5. Fresher
  BY <1>1 DEF Fresher, TypeOK, Row, Ages
<1>6. ASSUME NEW o \in Req \ {r}, Decides(o) PROVE RequestKnows(o)'
  <2>1. req'[o] \in Deciding /\ req'[o].overlapped
    BY <1>2, <1>6
  <2>2. ~Runs(o)' /\ ~Ends(o)'
    BY <2>1 DEF Runs, Ends, At, Deciding
  <2> QED
    BY <2>1, <2>2 DEF RequestKnows, ReachKnows, PassKnows, WillLeave, NothingToGoBy
<1>7. ASSUME NEW o \in Req \ {r}, ~Decides(o) PROVE RequestKnows(o)'
  <2>1. req'[o] = req[o]
    BY <1>2, <1>7
  <2>2. ~Decides(o)'
    BY <1>7, <2>1 DEF Decides, At
  <2> QED
    BY <1>5, <2>1, <2>2, StaysPut DEF RequestKnows, NothingToGoBy
<1>8. RequestKnows(r)'
  BY <1>2, IdleKnows
<1> QED
  BY <1>4, <1>6, <1>7, <1>8 DEF Inv

LEMMA MissKeeps ==
  ASSUME Inv, TypeOK', NEW r \in Req, ClearMiss(r) \/ RecordMiss(r) PROVE Inv'
<1>1. CASE ClearMiss(r)
  <2> DEFINE left == IF req[r].stamped THEN "stamp"
                     ELSE IF req[r].target = "none" /\ ~entity.known THEN "person"
                     ELSE "nothing"
  <2>1. /\ left \in {"nothing", "stamp", "person", "miss"} /\ Over(r, left) /\ left # "miss"
        /\ left = "stamp" => req[r].stamped
        /\ left = "person" => At(r, "clear") /\ req[r].target = "none" /\ ~entity.known
    BY <1>1 DEF ClearMiss
  <2> HIDE DEF left
  <2> QED
    BY <1>1, <2>1, OverKeeps DEF ClearMiss, Ends
<1>2. CASE RecordMiss(r)
  <2>1. Ends(r) /\ miss' <= req[r].since
    <3>1. Ends(r)
      BY <1>2 DEF RecordMiss, Ends
    <3>2. req[r].since \in 0 .. Cooldown
      BY <3>1, StageIs DEF Inv, Ending
    <3> QED
      BY <1>2, <3>1, <3>2, AgesAre DEF RecordMiss
  <2> QED
    BY <1>2, <2>1, OverKeeps DEF RecordMiss
<1> QED
  BY <1>1, <1>2

LEMMA FaultKeeps ==
  ASSUME Inv, TypeOK', (\E r \in Req : PassRaises(r)) \/ (\E p \in Proc : Kill(p)) PROVE Inv'
<1>1. UNCHANGED <<entity, person, miss, pass, owed, reached>>
  BY DEF PassRaises, Kill
<1>2. \A o \in Req : req'[o] = req[o] \/ req'[o] = Idle
  BY DEF Inv, TypeOK, PassRaises, Kill
<1>3. Fresher
  BY <1>1 DEF Inv, Fresher, TypeOK, Row, Ages
<1>4. Said'
  BY <1>1, <1>3, SaidStays
<1>5. \A o \in Req : RequestKnows(o)'
  BY <1>1, <1>2, <1>3, Stays, IdleKnows
<1> QED
  BY <1>4, <1>5 DEF Inv

LEMMA BulkLoadKeeps ==
  ASSUME Inv, TypeOK', BulkLoad PROVE Inv'
<1>1. TypeOK /\ entity = Absent /\ entity' = Loaded
  BY DEF Inv, BulkLoad, TypeOK
<1>2. Fresher
  BY <1>1, RowsAre DEF Fresher, TypeOK, BulkLoad
<1>3. entity'.depth = entity.depth /\ entity'.incomplete = entity.incomplete
  <2>1. entity.incomplete \in BOOLEAN /\ entity'.incomplete \in BOOLEAN
    BY DEF Inv, TypeOK, Row
  <2>2. entity'.incomplete <=> entity.incomplete
    BY <1>1, RowsAre
  <2> QED
    BY <1>1, <2>1, <2>2, RowsAre
<1>4. Said'
  BY <1>2, <1>3, SaidStays DEF BulkLoad
<1>5. \A o \in Req : RequestKnows(o)'
  BY <1>2, Stays DEF BulkLoad
<1> QED
  BY <1>4, <1>5 DEF Inv

\* Time passes: what is young ages with what it is measured against.
LEMMA TickKeeps ==
  ASSUME Inv, TypeOK', Tick PROVE Inv'
<1>1. /\ TypeOK /\ Said /\ \A r \in Req : RequestKnows(r)
      /\ entity \in Row /\ person \in Row /\ pass.age \in 0 .. Cooldown /\ miss \in 0 .. NoMiss
  BY DEF Inv, TypeOK
<1>2. /\ entity'.age = Older(entity.age, Old) /\ entity'.scraped = entity.scraped
      /\ entity'.known = entity.known /\ entity'.depth = entity.depth
      /\ entity'.incomplete = entity.incomplete
  BY <1>1 DEF Tick, Row
<1>3. /\ person'.age = Older(person.age, Old) /\ person'.scraped = person.scraped
      /\ person'.known = person.known /\ person'.depth = person.depth
      /\ person'.incomplete = person.incomplete
  BY <1>1 DEF Tick, Row
<1>4. pass'.age = Older(pass.age, Cooldown) /\ pass'.left = pass.left
  BY <1>1 DEF Tick, TypeOK
<1>5. /\ \A age \in Ages : Older(age, Old) <= age + 1
      /\ \A age \in 0 .. Cooldown : /\ age <= Older(age, Cooldown)
                                    /\ Older(age, Cooldown) < Cooldown =>
                                         Older(age, Cooldown) = age + 1 /\ age < Cooldown
  BY AgesAre DEF Older
<1>6. ASSUME NEW age \in 0 .. Cooldown, Older(age, Cooldown) < Cooldown
      PROVE  /\ FreshCompany(age) => entity'.scraped /\ entity'.age <= Older(age, Cooldown)
             /\ FreshPerson(age) =>
                  /\ person'.known /\ person'.scraped /\ ~person'.incomplete
                  /\ person'.depth >= 1 /\ person'.age <= Older(age, Cooldown)
  <2>1. age \in Nat /\ Older(age, Cooldown) = age + 1
    BY <1>5, <1>6
  <2>2. /\ entity.age \in Nat /\ entity'.age \in Nat /\ entity'.age <= entity.age + 1
        /\ person.age \in Nat /\ person'.age \in Nat /\ person'.age <= person.age + 1
    <3>1. entity.age \in Ages /\ person.age \in Ages
      BY <1>1 DEF Row
    <3> QED
      <4>1. /\ entity'.age <= entity.age + 1 /\ person'.age <= person.age + 1
        BY <1>2, <1>3, <1>5, <3>1
      <4>2. entity'.age \in Ages /\ person'.age \in Ages
        BY DEF TypeOK, Row
      <4> QED
        BY <3>1, <4>1, <4>2, AgesAre
  <2>3. FreshCompany(age) => entity'.scraped /\ entity'.age <= age + 1
    BY <1>2, <2>1, <2>2 DEF FreshCompany
  <2>4. FreshPerson(age) => /\ person'.known /\ person'.scraped /\ ~person'.incomplete
                            /\ person'.depth >= 1 /\ person'.age <= age + 1
    BY <1>3, <2>1, <2>2 DEF FreshPerson
  <2> QED
    BY <2>1, <2>3, <2>4
<1>7. PassLeft'
  <2>1. SUFFICES ASSUME Older(pass.age, Cooldown) < Cooldown
                 PROVE  /\ pass.left = "stamp" =>
                             entity'.scraped /\ entity'.age <= Older(pass.age, Cooldown)
                        /\ pass.left = "miss" => miss' <= Older(pass.age, Cooldown)
                        /\ pass.left = "person" /\ ~entity.known =>
                             /\ person'.known /\ person'.scraped /\ ~person'.incomplete
                             /\ person'.depth >= 1 /\ person'.age <= Older(pass.age, Cooldown)
    BY <1>2, <1>4 DEF PassLeft, FreshCompany, FreshPerson
  <2>2. pass.age < Cooldown
    BY <1>1, <1>5, <2>1
  <2>3. pass.left = "miss" => miss' <= Older(pass.age, Cooldown)
    <3>1. ASSUME miss <= pass.age PROVE miss' <= pass.age + 1
      BY <1>1, <2>2, <3>1, AgesAre DEF Tick, Older
    <3> QED
      BY <1>1, <1>5, <2>1, <2>2, <3>1 DEF Said, PassLeft
  <2> QED
    BY <1>1, <1>6, <2>1, <2>2, <2>3 DEF Said, PassLeft
<1>8. Said'
  <2>1. entity'.depth <= reached' /\ LostSourceMarked'
    BY <1>1, <1>2 DEF Said, LostSourceMarked, Tick
  <2> QED
    BY <1>7, <2>1 DEF Said
<1>9. ASSUME NEW r \in Req PROVE RequestKnows(r)'
  <2>1. CASE req[r] = Idle
    BY <2>1, IdleKnows DEF Tick
  <2>2. CASE Decides(r)
    <3>1. req[r] \in Deciding
      BY <1>1, <2>2, StageIs
    <3>2. /\ req'[r].at = req[r].at /\ req'[r].reason = req[r].reason
          /\ req'[r].overlapped = req[r].overlapped
      BY <2>2, <3>1 DEF Tick, Deciding, Idle, Decides, At
    <3>3. ~Runs(r)' /\ ~Ends(r)'
      BY <2>2, <3>2 DEF Runs, Ends, Decides, At
    <3>4. pass'.age < Cooldown => pass.age < Cooldown
      BY <1>1, <1>4, <1>5
    <3>5. NothingToGoBy(r)'
      BY <1>1, <1>2, <1>4, <3>2, <3>4 DEF RequestKnows, NothingToGoBy, Decides, At
    <3> QED
      BY <3>3, <3>5 DEF RequestKnows, ReachKnows, PassKnows, WillLeave
  <2>3. CASE Runs(r)
    <3>1. req[r] \in Running
      BY <1>1, <2>3, StageIs
    <3>2. /\ req'[r].at = req[r].at /\ req'[r].todo = req[r].todo
          /\ req'[r].target = req[r].target /\ req'[r].reach = req[r].reach
          /\ req'[r].lost = req[r].lost /\ req'[r].marked = req[r].marked
          /\ req'[r].missed = req[r].missed
      BY <2>3, <3>1 DEF Tick, Running, Idle, Runs, At
    <3>3. ~Decides(r)' /\ ~Ends(r)'
      BY <2>3, <3>2 DEF Runs, Ends, Decides, At
    <3>4. ReachKnows(r)' /\ PassKnows(r)'
      BY <1>1, <3>2 DEF RequestKnows, ReachKnows, PassKnows, Runs, At, Tick
    <3> QED
      BY <3>3, <3>4 DEF RequestKnows, WillLeave, NothingToGoBy
  <2>4. CASE Ends(r)
    <3>1. req[r] \in Ending
      BY <1>1, <2>4, StageIs
    <3>2. /\ req'[r].at = req[r].at /\ req'[r].target = req[r].target
          /\ req'[r].stamped = req[r].stamped /\ req'[r].since = Older(req[r].since, Cooldown)
      BY <2>4, <3>1 DEF Tick, Ending, Idle, Ends, At
    <3>3. ~Decides(r)' /\ ~Runs(r)'
      BY <2>4, <3>2 DEF Runs, Ends, Decides, At
    <3>4. WillLeave(r)'
      <4>1. SUFFICES ASSUME Older(req[r].since, Cooldown) < Cooldown
                     PROVE  /\ req[r].stamped =>
                                 entity'.scraped /\ entity'.age <= Older(req[r].since, Cooldown)
                            /\ At(r, "clear") /\ req[r].target = "none" /\ ~entity.known =>
                                 /\ person'.known /\ person'.scraped /\ ~person'.incomplete
                                 /\ person'.depth >= 1
                                 /\ person'.age <= Older(req[r].since, Cooldown)
        BY <1>2, <3>2 DEF WillLeave, At, FreshCompany, FreshPerson
      <4>2. req[r].since \in 0 .. Cooldown /\ req[r].since < Cooldown
        BY <1>5, <3>1, <4>1 DEF Ending
      <4>3. WillLeave(r)
        BY <1>1 DEF RequestKnows
      <4> QED
        BY <1>6, <2>4, <4>1, <4>2, <4>3 DEF WillLeave
    <3> QED
      BY <3>3, <3>4 DEF RequestKnows, ReachKnows, PassKnows, NothingToGoBy
  <2> QED
    BY <1>1, <2>1, <2>2, <2>3, <2>4, StageIs
<1> QED
  BY <1>8, <1>9 DEF Inv

LEMMA StutterKeeps ==
  ASSUME Inv, TypeOK', UNCHANGED vars PROVE Inv'
<1>1. Fresher
  BY DEF Inv, Fresher, TypeOK, Row, Ages, vars
<1>2. Said'
  BY <1>1, SaidStays DEF vars
<1>3. \A o \in Req : RequestKnows(o)'
  BY <1>1, Stays DEF vars
<1> QED
  BY <1>2, <1>3 DEF Inv

LEMMA NextKeeps == Inv /\ [Next]_vars => Inv'
<1> SUFFICES ASSUME Inv, [Next]_vars PROVE Inv'
  OBVIOUS
<1>1. TypeOK'
  BY NextPreservesType DEF Inv
<1>2. ASSUME NEW r \in Req, NEW depth \in Depth, NEW force \in BOOLEAN, View(r, depth, force)
      PROVE  Inv'
  BY <1>1, <1>2, ViewKeeps
<1>3. ASSUME NEW r \in Req, Step(r) PROVE Inv'
  BY <1>1, <1>3, ScrapePersonKeeps, ReadMissKeeps, DeleteExpiredKeeps, ClaimKeeps, AskKeeps,
     StampKeeps, EndingKeeps, MissKeeps DEF Step
<1>4. ASSUME NEW r \in Req, StampFails(r) \/ PassRaises(r) PROVE Inv'
  BY <1>1, <1>4, StampKeeps, FaultKeeps
<1>5. ASSUME NEW p \in Proc, Kill(p) PROVE Inv'
  BY <1>1, <1>5, FaultKeeps
<1>6. CASE BulkLoad
  BY <1>1, <1>6, BulkLoadKeeps
<1>7. CASE Tick
  BY <1>1, <1>7, TickKeeps
<1>8. CASE UNCHANGED vars
  BY <1>1, <1>8, StutterKeeps
<1> QED
  BY <1>2, <1>3, <1>4, <1>5, <1>6, <1>7, <1>8 DEF Next

THEOREM Invariance == Spec => []Inv
BY InitKnows, NextKeeps, PTL DEF Spec

-----------------------------------------------------------------------------

\* A company is never said to be scraped deeper than Wikidata came through
\* (set_scrape_target, _stamp_scrape_freshness), in whatever order requests of
\* several processes stamp it.
THEOREM DepthIsReached == Spec => []DepthReached
<1>1. Inv => DepthReached
  BY DEF Inv, Said, DepthReached
<1> QED
  BY <1>1, Invariance, PTL

\* A full pass that lost a source, or a section of one, and stamped the company has
\* left it marked incomplete (mark_scrape_incomplete, mark_source_lost).
THEOREM LossIsMarked == Spec => []LostSourceMarked
<1>1. Inv => LostSourceMarked
  BY DEF Inv, Said
<1> QED
  BY <1>1, Invariance, PTL

\* The sources rest: a search that claims them within the cooldown of the last pass
\* goes deeper, was decided before that pass ended, or has nothing of it to go by
\* (decide_scrape, _recent_miss, _claim).
THEOREM SourcesDoRest == Spec => SourcesRest
<1>1. ASSUME Inv
      PROVE  \A r \in Req :
               At(r, "claim") =>
                 \/ pass.age >= Cooldown
                 \/ pass.left = "nothing" \/ (pass.left = "person" /\ entity.known)
                 \/ req[r].reason = "deepen" \/ req[r].overlapped
  <2> TAKE r \in Req
  <2>1. SUFFICES ASSUME At(r, "claim"), pass.age < Cooldown, ~req[r].overlapped,
                        req[r].reason # "deepen"
                 PROVE  pass.left = "nothing" \/ (pass.left = "person" /\ entity.known)
    BY <1>1, AgesAre DEF Inv, TypeOK
  <2>2. NothingToGoBy(r) /\ Decides(r)
    BY <1>1, <2>1 DEF Inv, RequestKnows, Decides
  <2> QED
    BY <2>1, <2>2 DEF NothingToGoBy
<1>2. Inv => [\A r \in Req :
                At(r, "claim") /\ At(r, "run")' =>
                  \/ pass.age >= Cooldown
                  \/ pass.left = "nothing" \/ (pass.left = "person" /\ entity.known)
                  \/ req[r].reason = "deepen" \/ req[r].overlapped]_vars
  BY <1>1
<1> QED
  BY <1>2, Invariance, PTL DEF SourcesRest
=============================================================================
