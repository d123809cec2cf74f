----------------------------- MODULE Reporting ------------------------------
(***************************************************************************)
(* What a parent and its subsidiary report on Schedule 13D/G about one     *)
(* issuer, and what the SEC passes make of it: the issuer's scrape reads   *)
(* the filings about it, a holder's scrape reads the ones it filed         *)
(* (sec_edgar), each statement is written onto the pair's edge             *)
(* (sec_writer._write_owns_sec), and after the last one a subsidiary's     *)
(* holding ends where its parent reports the shares itself                 *)
(* (close_reported_by_parent).  An insider's Form 4 yields to a 13D/G.     *)
(*                                                                         *)
(* A date is a number, 0 is none.  Only the SEC's own edges are here: what *)
(* other sources do to a shared edge is SharedEdge's.  Every filing is an  *)
(* original (an amendment's basis is SharedEdge's too), and a stake is one *)
(* number, so which share count it is restated against is left out.        *)
(***************************************************************************)
EXTENDS Naturals, Sequences, FiniteSets

CONSTANTS
  MaxFilings,   \* bound: filings about the issuer
  LastDay,      \* bound: the calendar
  MaxPasses,    \* bound: scrapes
  MaxOpened,    \* OWNERSHIP_MAX_OPENED, and the holders' max_filings
  MaxUnread,    \* bound: covers that cannot be read
  Beside,       \* whether filings and scrapes may come beside a scrape
  Insiders      \* who may also file a Form 4

VARIABLES
  feed,      \* EDGAR's filings about the issuer, the newest first
  form4,     \* who has filed a Form 4
  control,   \* the parent holds an open controlling edge to the subsidiary
  spells,    \* the OWNS edges of each holder, in the order they were drawn
  claims,    \* the open or ended 13D/G claim of each holder
  pass,      \* what each scrape is doing
  passes,    \* scrapes so far
  unread     \* covers that could not be read so far

vars == <<feed, form4, control, spells, claims, pass, passes, unread>>

Holders == {"parent", "sub"}
Scrapes == {"issuer", "parent", "sub"}
Idle    == [at |-> "idle"]

Open(e)     == e.until = 0
Reports(e)  == Open(e) /\ e.form = "13DG"
OpenOf(h)   == {i \in DOMAIN spells[h] : Open(spells[h][i])}
Quiet       == \A s \in Scrapes : pass[s] = Idle
Calm        == Beside \/ Quiet
Newest      == IF feed = <<>> THEN 1 ELSE feed[1].day

TypeOK ==
  /\ feed \in Seq([by : Holders, says : {"stake", "exit"}, day : 1 .. LastDay, event : 0 .. LastDay])
  /\ \A h \in Holders : \A i \in DOMAIN spells[h] : spells[h][i] \in
       [since : 0 .. LastDay, until : 0 .. LastDay, day : 0 .. LastDay,
        form : {"13DG", "4"}, why : {"none", "reported_by_parent"}]
  /\ claims \in [Holders -> {"none", "open", "ended"}]
  /\ passes \in 0 .. MaxPasses /\ unread \in 0 .. MaxUnread

Init ==
  /\ feed = <<>> /\ form4 = {} /\ control = TRUE
  /\ spells = [h \in Holders |-> <<>>]
  /\ claims = [h \in Holders |-> "none"]
  /\ pass = [s \in Scrapes |-> Idle]
  /\ passes = 0 /\ unread = 0

-----------------------------------------------------------------------------
(* EDGAR and the ownership lists *)

\* A holder states a stake or its exit, no earlier than the last filing, of an
\* event on that day or the day before, and after the events it filed before.
File(h, says, day, event) ==
  /\ Len(feed) < MaxFilings /\ Calm
  /\ \A i \in DOMAIN feed : feed[i].by = h => feed[i].event <= event
  /\ day \in {Newest, Newest + 1} /\ day <= LastDay /\ event \in {day - 1, day} \ {0}
  /\ feed' = <<[by |-> h, says |-> says, day |-> day, event |-> event]>> \o feed
  /\ UNCHANGED <<form4, control, spells, claims, pass, passes, unread>>

FileForm4(h) ==
  /\ h \in Insiders \ form4
  /\ form4' = form4 \cup {h}
  /\ UNCHANGED <<feed, control, spells, claims, pass, passes, unread>>

-----------------------------------------------------------------------------
(* The reading *)

\* The newest stake of a holder among the filings read ...
StakeAt(h, seen) ==
  LET stakes == {i \in seen : feed[i].by = h /\ feed[i].says = "stake"}
  IN IF stakes = {} THEN 0 ELSE CHOOSE i \in stakes : \A j \in stakes : i <= j

\* ... and the oldest exit newer than it (closed_since).
ClosedSince(h, seen) ==
  LET exits == {i \in seen : feed[i].by = h /\ feed[i].says = "exit" /\ i < StakeAt(h, seen)}
  IN IF exits = {} THEN 0 ELSE feed[CHOOSE i \in exits : \A j \in exits : j <= i].event

Statement(i, seen) ==
  [nth |-> i, by |-> feed[i].by, since |-> feed[i].event, day |-> feed[i].day,
   until |-> ClosedSince(feed[i].by, seen), form |-> "13DG"]

\* fetch_ownership_filings and fetch_filer_holdings: one statement for each
\* holder.
Statements(who, seen) ==
  {Statement(i, seen) : i \in {StakeAt(h, seen) : h \in who} \ {0}}

\* The first page of a scrape: the filings it opens, but for covers that give
\* no percentage.
Seen(s, skipped) ==
  LET filed == {i \in DOMAIN feed : s = "issuer" \/ feed[i].by = s}
  IN {i \in filed : Cardinality({j \in filed : j <= i}) <= MaxOpened} \ skipped

Read(s) ==
  /\ pass[s] = Idle /\ passes < MaxPasses
  /\ Calm
  /\ \E skipped \in SUBSET DOMAIN feed :
       /\ unread + Cardinality(skipped) <= MaxUnread
       /\ unread' = unread + Cardinality(skipped)
       /\ pass' = [pass EXCEPT ![s] =
            [at |-> "write", whole |-> skipped = {},
             todo |-> Statements(IF s = "issuer" THEN Holders ELSE {s}, Seen(s, skipped))]]
  /\ passes' = passes + 1
  /\ UNCHANGED <<feed, form4, control, spells, claims>>

-----------------------------------------------------------------------------
(* sec_writer: one statement onto the pair's edge *)

Before(since, day) == since = 0 \/ since <= day
Earliest(a, b)     == IF a = 0 \/ b = 0 THEN a + b ELSE IF a < b THEN a ELSE b

\* Broken form: an exit on the day the holding began closes nothing.
Candidates_Strict(h, s) ==
  {i \in OpenOf(h) : s.until = 0 \/ spells[h][i].since < s.until}

\* The edges a statement may be of: an open one, or the one that already
\* carries its end, else the open one that began before it.
Candidates(h, s) ==
  LET ofEnd == {i \in DOMAIN spells[h] : ~Open(spells[h][i]) /\ spells[h][i].until = s.until
                                         /\ Before(spells[h][i].since, s.until)}
      begun == {i \in OpenOf(h) : Before(spells[h][i].since, s.until)}
  IN IF s.until = 0 THEN OpenOf(h) ELSE IF ofEnd # {} THEN ofEnd ELSE begun

\* _dissolution_closed: a spell the rule closed, of a statement from before its
\* end; every spell closed for that reason is updated with it.
RuleClosed(h, s) ==
  LET closed == {i \in DOMAIN spells[h] : spells[h][i].why = "reported_by_parent"}
      dated  == IF s.since # 0 THEN s.since ELSE s.day
  IN IF s.until = 0 /\ \E i \in closed : Open(spells[h][i]) \/ dated <= spells[h][i].until
     THEN closed ELSE {}

Restated(e, s) == [e EXCEPT !.since = Earliest(e.since, s.since), !.until = s.until,
                            !.day = s.day, !.form = s.form]

\* _write_owns_sec: the edges it updates are all of one condition; with none of
\* its own the statement is an edge of its own.
WriteEdge(h, s) ==
  LET at == IF Candidates(h, s) # {} THEN Candidates(h, s) ELSE RuleClosed(h, s)
  IN spells' = [spells EXCEPT ![h] =
       IF at = {} THEN Append(@, [since |-> s.since, until |-> s.until, day |-> s.day,
                                  form |-> s.form, why |-> "none"])
       ELSE [i \in DOMAIN @ |-> IF i \in at THEN Restated(@[i], s) ELSE @[i]]]

\* The statements are written in the order of the feed.
Write(s) ==
  /\ pass[s].at = "write"
  /\ \E stmt \in pass[s].todo :
       /\ \A other \in pass[s].todo : stmt.nth <= other.nth
       /\ claims' = [claims EXCEPT ![stmt.by] = IF stmt.until = 0 THEN "open" ELSE "ended"]
       /\ WriteEdge(stmt.by, stmt)
       /\ pass' = [pass EXCEPT ![s].todo = @ \ {stmt}]
  /\ UNCHANGED <<feed, form4, control, passes, unread>>

-----------------------------------------------------------------------------
(* close_reported_by_parent *)

\* The holdings it compares: of several open edges of one holder, the last.
Held(h) == LET open == {i \in DOMAIN spells[h] : Reports(spells[h][i])}
           IN IF open = {} THEN 0 ELSE CHOOSE i \in open : \A j \in open : j <= i

Replaced == /\ control /\ Held("parent") # 0 /\ Held("sub") # 0
            /\ spells["parent"][Held("parent")].day > spells["sub"][Held("sub")].day

\* Where the subsidiary's holding ends: the parent's first report, when it
\* falls after the subsidiary's statement, else the parent's statement.
ReplacedOn ==
  LET theirs == spells["parent"][Held("parent")]
  IN IF theirs.since > spells["sub"][Held("sub")].day THEN theirs.since ELSE theirs.day

\* The edges of the issuer's owners, or of what the scraped company reports;
\* a scrape of the subsidiary closes its own holdings, one of the parent its
\* subsidiaries' too.
CloseRead(s) ==
  /\ pass[s].at = "write" /\ pass[s].todo = {}
  /\ LET held == Held("parent") # 0 /\ Held("sub") # 0
         whole == pass[s].whole
     IN pass' = [pass EXCEPT ![s] = IF ~held THEN [at |-> "form4", whole |-> whole]
          ELSE [at |-> "close", whole |-> whole, on |-> IF Replaced THEN ReplacedOn ELSE 0]]
  /\ UNCHANGED <<feed, form4, control, spells, claims, passes, unread>>

\* ... and a holding that stays open carries no reason.
Ended(e, on) ==
  IF ~Open(e) THEN e
  ELSE IF on # 0 THEN [e EXCEPT !.until = on, !.why = "reported_by_parent"]
  ELSE [e EXCEPT !.why = "none"]

Close(s) ==
  /\ pass[s].at = "close"
  /\ spells' = [h \in Holders |-> [i \in DOMAIN spells[h] |->
                  Ended(spells[h][i], IF h = "sub" THEN pass[s].on ELSE 0)]]
  /\ pass' = [pass EXCEPT ![s] = [at |-> "form4", whole |-> pass[s].whole]]
  /\ UNCHANGED <<feed, form4, control, claims, passes, unread>>

\* Broken form: the edge decides, closed by the rule or not, not the claim.
Yields_ByEdge(h) == \E i \in DOMAIN spells[h] : Reports(spells[h][i])

\* The insiders of the issuer: a Form 4 writes the stake of one who has no open
\* 13D/G statement (stated_by_13dg).
Yields(h) == claims[h] = "open"

Form4(s) ==
  /\ pass[s].at = "form4"
  /\ pass' = [pass EXCEPT ![s] = Idle]
  /\ LET stated == [since |-> 0, until |-> 0, day |-> Newest, form |-> "4"]
     IN IF s = "issuer" /\ \E h \in form4 : ~Yields(h)
        THEN \E h \in form4 : ~Yields(h) /\ WriteEdge(h, stated)
        ELSE UNCHANGED spells
  /\ UNCHANGED <<feed, form4, control, claims, passes, unread>>

\* Broken form: the rule is applied to what is filed, not to what is listed.
ReadList_Unruled ==
  /\ passes < MaxPasses /\ pass["parent"] = Idle /\ Calm
  /\ control' = ~control /\ passes' = passes + 1
  /\ UNCHANGED <<feed, form4, spells, claims, pass, unread>>

\* The parent's list is read, and names the subsidiary or no longer does; the
\* runner applies the rule to the parent's companies after it.
ReadList ==
  /\ passes < MaxPasses /\ pass["parent"] = Idle
  /\ Calm
  /\ control' = ~control /\ passes' = passes + 1
  /\ pass' = [pass EXCEPT !["parent"] = [at |-> "write", whole |-> TRUE, todo |-> {}]]
  /\ UNCHANGED <<feed, form4, spells, claims, unread>>

Next ==
  \/ \E h \in Holders, says \in {"stake", "exit"}, day \in 1 .. LastDay, event \in 0 .. LastDay :
       File(h, says, day, event)
  \/ \E h \in Holders : FileForm4(h)
  \/ \E s \in Scrapes : Read(s) \/ Write(s) \/ CloseRead(s) \/ Close(s) \/ Form4(s)
  \/ ReadList

Spec == Init /\ [][Next]_vars

-----------------------------------------------------------------------------
(* Properties *)

\* A group does not report one holding twice: once a scrape is through, no
\* holding of the subsidiary stands beside a newer report of its parent.
OneReportPerGroup == Quiet => ~Replaced

\* A holder whose last word is that it left is drawn as gone: after the
\* issuer's scrape read every filing, no 13D/G edge of its stands open.
Left(h) == \E i \in DOMAIN feed :
             /\ feed[i].by = h /\ feed[i].says = "exit"
             /\ \A j \in 1 .. (i - 1) : feed[j].by # h
ExitEndsStake ==
  [][\A h \in Holders :
       pass["issuer"].at = "form4" /\ pass["issuer"].whole /\ pass'["issuer"] = Idle /\ Left(h)
         => \A i \in DOMAIN spells[h] : ~Reports(spells[h][i])]_vars

\* While a 13D/G statement speaks for the pair, its edge is that statement's.
ReportSpeaks ==
  Quiet => \A h \in Holders : claims[h] = "open" => \A i \in OpenOf(h) : spells[h][i].form = "13DG"
=============================================================================
