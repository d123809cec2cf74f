------------------------------- MODULE Descent -------------------------------
(* A Wikidata scrape: the item a query names, by the ids the graph holds and   *)
(* then by name, and the walk from it down the subsidiaries its page lists.    *)
(* A request is asked again when it is lost; one that stays lost ends the run. *)
EXTENDS Naturals, Sequences, FiniteSets, SequencesExt

CONSTANTS
  Subs,       \* for each item, the subsidiary of every statement on its page, in
              \* _subsidiary_order; two periods of one holding are two statements
  Owners,     \* for each item, the companies its page names as owners
  Blank,      \* items whose page has no name, or is a person's
  Other,      \* items whose ids contradict the node they find
  Registered, \* items with an LEI or a CIK a register knows
  Company,    \* items that look like a company
  Query,      \* what is asked: [own, cik, lei, hits, plain]
  MaxFollowed, MaxDepth, MaxRetries,  \* MAX_SUBSIDIARIES_FOLLOWED, depth cap, _MAX_RETRIES
  MaxRuns, MaxFaults                  \* bounds of the model

Item == DOMAIN Subs

\* _aggregate: a company is listed once, however many statements name it.
Listed(i) ==
  FoldLeft(LAMBDA seen, s : IF s \in Range(seen) THEN seen ELSE Append(seen, s), <<>>, Subs[i])
No == "none"

VARIABLES
  pc,      \* where the run stands; "idle" between runs
  query, depth,
  hushed,  \* a look-up by id failed and was passed over
  tries,   \* times the request under way was lost
  page,    \* the page being asked for: [item, depth, parent, left]
  stack,   \* the pages half walked, the deepest first
  visited, scraped, conflicts,
  status,  \* the last run's answer
  held, owns, peopled,  \* the graph: nodes, holdings, items whose owners and people are written
  marked,  \* the depth a company was last scraped to
  runs, faults

vars == <<pc, query, depth, hushed, tries, page, stack, visited, scraped, conflicts,
          status, held, owns, peopled, marked, runs, faults>>
graph == <<held, owns, peopled, marked>>
walk == <<page, stack, visited, scraped, conflicts>>

TypeOK ==
  /\ pc \in {"idle", "own", "cik", "lei", "name", "plain", "page", "down"}
  /\ query.own \in Item \cup {No} /\ depth \in 0 .. MaxDepth /\ tries \in 0 .. MaxRetries /\ hushed \in BOOLEAN
  /\ visited \subseteq Item /\ held \subseteq Item /\ peopled \subseteq Item
  /\ owns \subseteq Item \X Item /\ marked \in [Item -> 0 .. MaxDepth]
  /\ \A k \in 1 .. Len(stack) : stack[k].item \in visited

Init ==
  /\ pc = "idle" /\ depth = 0 /\ hushed = FALSE /\ tries = 0
  /\ query = [own |-> No, cik |-> {}, lei |-> {}, hits |-> <<>>, plain |-> {}]
  /\ page = [item |-> No, depth |-> 0, parent |-> No, left |-> <<>>]
  /\ stack = <<>> /\ visited = {} /\ scraped = <<>> /\ conflicts = 0 /\ status = "none"
  /\ held = {} /\ owns = {} /\ peopled = {} /\ marked = [i \in Item |-> 0]
  /\ runs = 0 /\ faults = 0

-----------------------------------------------------------------------------
(* A request: wikidata._wd_get *)

Asking == pc \in {"own", "cik", "lei", "name", "plain", "page"}

Answered(next) == /\ pc' = next /\ tries' = 0

\* The run ends without having walked the tree.
Ends(answer) == /\ Answered("idle") /\ status' = answer

\* What is asked of one item: the three queries its page is made of, its
\* employees, and the details of its people.
Queries == <<"core", "people", "relations", "employees", "details">>
Optional == pc = "page" /\ Head(page.left) = "employees"

\* A timeout, a dropped connection or a transient status, and the wait.
Lost ==
  /\ Asking /\ tries < MaxRetries /\ faults < MaxFaults
  /\ tries' = tries + 1 /\ faults' = faults + 1
  /\ UNCHANGED <<pc, query, depth, hushed, status, walk, graph, runs>>

GoesOn == page' = [page EXCEPT !.left = Tail(@)]

\* Broken form: an error body of the search is read as "no hits".
Raised_AsEmpty ==
  /\ Asking /\ faults < MaxFaults
  /\ faults' = faults + 1
  /\ IF pc \in {"cik", "lei"}
     THEN /\ Answered("name") /\ hushed' = TRUE /\ UNCHANGED status
     ELSE /\ IF pc = "name" THEN Answered("plain") /\ UNCHANGED status ELSE Ends("failed")
          /\ UNCHANGED hushed
  /\ UNCHANGED <<query, depth, walk, graph, runs>>

\* The retries ran out, or the API answered with an error body: the error ends
\* the run, but in a look-up by id, which the name search follows, and for the
\* employees, which the page does without.
Raised ==
  /\ Asking /\ faults < MaxFaults
  /\ faults' = faults + 1
  /\ CASE pc \in {"cik", "lei"} -> Answered("name") /\ hushed' = TRUE /\ UNCHANGED <<status, page>>
       [] Optional -> Answered("page") /\ GoesOn /\ UNCHANGED <<hushed, status>>
       [] OTHER -> Ends("failed") /\ UNCHANGED <<hushed, page>>
  /\ UNCHANGED <<query, depth, stack, visited, scraped, conflicts, graph, runs>>

-----------------------------------------------------------------------------
(* Which item: run_scrape and what it asks *)

\* pick_candidate: the first of the best five that looks like a company.
Pick(hits) ==
  LET fit == {k \in 1 .. Len(hits) : k <= 5 /\ hits[k] \in Company}
  IN  IF fit = {} THEN No ELSE hits[CHOOSE k \in fit : \A j \in fit : k <= j]

\* _item_by_plain_name: exactly one company bears the name without its form.
Plain(items) == LET fit == items \cap Company
                IN  IF Cardinality(fit) = 1 THEN CHOOSE i \in fit : TRUE ELSE No

Found(item) ==
  /\ Answered("page")
  /\ page' = [item |-> item, depth |-> depth, parent |-> No, left |-> Queries]
  /\ visited' = {item}
  /\ UNCHANGED <<stack, scraped, conflicts, status>>

Begin(q, d) ==
  /\ pc = "idle" /\ runs < MaxRuns
  /\ runs' = runs + 1 /\ query' = q /\ depth' = d /\ hushed' = FALSE
  /\ visited' = {} /\ scraped' = <<>> /\ conflicts' = 0 /\ stack' = <<>>
  /\ pc' = IF q.own # No THEN "own" ELSE "cik"
  /\ UNCHANGED <<tries, page, status, graph, faults>>

\* The node's own item, if it looks like a company; no other id is then asked.
ByOwn ==
  /\ pc = "own"
  /\ LET item == Pick(<<query.own>>) IN
     IF item # No THEN Found(item) ELSE Answered("name") /\ UNCHANGED <<walk, status>>
  /\ UNCHANGED <<query, depth, hushed, graph, runs, faults>>

\* The items that state an id: one is taken or refused, several or none send to
\* the next id, the last of them to the name.
ById(field, next) ==
  LET stating == query[field] IN
  /\ pc = field
  /\ IF Cardinality(stating) # 1 THEN Answered(next) /\ UNCHANGED <<walk, status>>
     ELSE IF stating \subseteq Company THEN \E item \in stating : Found(item)
     ELSE Answered("name") /\ UNCHANGED <<walk, status>>
  /\ UNCHANGED <<query, depth, hushed, graph, runs, faults>>

ByName ==
  /\ pc = "name"
  /\ LET item == Pick(query.hits) IN
     IF item # No THEN Found(item) ELSE Answered("plain") /\ UNCHANGED <<walk, status>>
  /\ UNCHANGED <<query, depth, hushed, graph, runs, faults>>

ByPlainName ==
  /\ pc = "plain"
  /\ LET item == Plain(query.plain) IN
     IF item # No THEN Found(item)
     ELSE /\ Ends(IF query.hits = <<>> THEN "no_results" ELSE "not_a_company")
          /\ UNCHANGED walk
  /\ UNCHANGED <<query, depth, hushed, graph, runs, faults>>

-----------------------------------------------------------------------------
(* The walk: runner._scrape_node *)

\* _resolve_related_company and the writer behind it: the graph holds the item,
\* or a register knows it, and no register id contradicts it.
Admitted(item) == item \notin Other /\ item \in held \cup Registered

\* One query of several was answered.
ReadQuery ==
  /\ pc = "page" /\ Len(page.left) > 1
  /\ Answered("page") /\ GoesOn
  /\ UNCHANGED <<query, depth, hushed, stack, visited, scraped, conflicts, status, graph, runs, faults>>

\* Every query was, and the page is written: nothing of a person's or a nameless
\* item's, nor of one whose ids another company's node contradicts.
ReadPage ==
  LET i == page.item IN
  /\ pc = "page" /\ Len(page.left) = 1
  /\ Answered("down")
  /\ IF i \in Blank THEN UNCHANGED <<stack, scraped, conflicts, held, owns>>
     ELSE IF i \in Other
     THEN /\ conflicts' = conflicts + 1
          /\ UNCHANGED <<stack, scraped, held, owns>>
     ELSE /\ held' = held \cup {i}
          /\ scraped' = Append(scraped, i)
          /\ owns' = owns \cup {<<p, i>> : p \in {page.parent} \ {No}}
          /\ stack' = <<[item |-> i, depth |-> page.depth, rest |-> Listed(i), followed |-> 0]>> \o stack
          /\ UNCHANGED conflicts
  /\ UNCHANGED <<query, depth, hushed, page, visited, status, peopled, marked, runs, faults>>

Top == stack[1]
Walking == pc = "down" /\ stack # <<>>

\* Broken form: the cap counts every company the page lists.
SkipSub_Counted ==
  /\ Walking /\ Top.rest # <<>> /\ ~Admitted(Head(Top.rest))
  /\ stack' = [stack EXCEPT ![1].rest = Tail(@), ![1].followed = @ + 1]
  /\ UNCHANGED <<pc, query, depth, hushed, tries, page, visited, scraped, conflicts, status, graph, runs, faults>>

\* A company nobody can identify is passed over.
SkipSub ==
  /\ Walking /\ Top.rest # <<>> /\ ~Admitted(Head(Top.rest))
  /\ stack' = [stack EXCEPT ![1].rest = Tail(@)]
  /\ UNCHANGED <<pc, query, depth, hushed, tries, page, visited, scraped, conflicts, status, graph, runs, faults>>

\* The others are drawn; the first of them are followed, unless this run was
\* there before, and the rest are noted.
DrawSub ==
  LET sub == Head(Top.rest)
      follow == Top.depth > 1 /\ Top.followed < MaxFollowed
  IN
  /\ Walking /\ Top.rest # <<>> /\ Admitted(sub)
  /\ held' = held \cup {sub} /\ owns' = owns \cup {<<Top.item, sub>>}
  /\ stack' = [stack EXCEPT ![1].rest = Tail(@), ![1].followed = IF follow THEN @ + 1 ELSE @]
  /\ IF follow /\ sub \notin visited
     THEN /\ pc' = "page" /\ visited' = visited \cup {sub}
          /\ page' = [item |-> sub, depth |-> Top.depth - 1, parent |-> Top.item, left |-> Queries]
          /\ UNCHANGED scraped
     ELSE /\ scraped' = IF follow \/ sub \in Range(scraped) THEN scraped
                        ELSE Append(scraped, sub)
          /\ UNCHANGED <<pc, page, visited>>
  /\ UNCHANGED <<query, depth, hushed, tries, conflicts, status, peopled, marked, runs, faults>>

\* After its subsidiaries, a page's people, owners and successions.
Relate ==
  LET known == {o \in Owners[Top.item] : Admitted(o)} IN
  /\ Walking /\ Top.rest = <<>>
  /\ held' = held \cup known
  /\ owns' = owns \cup {<<o, Top.item>> : o \in known}
  /\ peopled' = peopled \cup {Top.item}
  /\ stack' = Tail(stack)
  /\ UNCHANGED <<pc, query, depth, hushed, tries, page, visited, scraped, conflicts, status, marked, runs, faults>>

\* The depth is stamped on the company that was asked for, when it was written.
Finish ==
  LET target == IF scraped = <<>> THEN No ELSE scraped[1] IN
  /\ pc = "down" /\ stack = <<>>
  /\ pc' = "idle"
  /\ status' = IF target = No /\ conflicts > 0 THEN "conflict" ELSE "ok"
  /\ marked' = [i \in Item |-> IF i = target THEN depth ELSE marked[i]]
  /\ UNCHANGED <<query, depth, hushed, tries, walk, held, owns, peopled, runs, faults>>

Next ==
  \/ \E q \in Query, d \in 1 .. MaxDepth : Begin(q, d)
  \/ Lost \/ Raised
  \/ ByOwn \/ ById("cik", "lei") \/ ById("lei", "name") \/ ByName \/ ByPlainName
  \/ ReadQuery \/ ReadPage \/ SkipSub \/ DrawSub \/ Relate \/ Finish

Spec == Init /\ [][Next]_vars

-----------------------------------------------------------------------------

\* What a walk to some depth must read: an item, and below it what its page's
\* first identified subsidiaries lead to.
RECURSIVE Within(_, _)
Within(i, d) ==
  LET known == SelectSeq(Listed(i), Admitted)
      first == {known[k] : k \in 1 .. Len(known)} \ {known[k] : k \in MaxFollowed + 1 .. Len(known)}
  IN  {i} \cup IF d <= 1 \/ i \in Blank THEN {} ELSE UNION {Within(s, d - 1) : s \in first}

\* A walk that ended well read every page within its depth, and each page it read
\* is in the graph whole: all its identified subsidiaries, however many are
\* followed, and what comes after them.
ReadToDepth ==
  pc = "idle" /\ status = "ok" /\ scraped # <<>> =>
    /\ Within(scraped[1], depth) \subseteq visited
    /\ \A i \in visited \ (Blank \cup Other) :
         /\ i \in peopled
         /\ \A s \in Range(Subs[i]) : Admitted(s) => <<i, s>> \in owns

\* "Nothing of that name" is the source's answer, never a request that failed:
\* by id, by name and by the plain name there was no company.
NothingIsAnAnswer ==
  pc = "idle" /\ status \in {"no_results", "not_a_company"} /\ ~hushed =>
    /\ query.own \notin Company
    /\ \/ query.own # No
       \/ Cardinality(query.cik) = 1
       \/ Cardinality(query.lei) # 1 \/ query.lei \cap Company = {}
    /\ \A k \in 1 .. Len(query.hits) : k <= 5 => query.hits[k] \notin Company
    /\ Cardinality(query.plain \cap Company) # 1
=============================================================================
