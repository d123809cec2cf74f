------------------------------ MODULE Officers -------------------------------
(* Who runs a filer, as EDGAR tells it: an insider's first Form 3, the Form 4    *)
(* of each trade, a "Former ..." form, and the Item 5.02 of an 8-K, the only     *)
(* place a departure is announced (sec_edgar).  A scrape lists the insiders of   *)
(* its window, dates and closes their seats and writes what each of them holds   *)
(* (runner._write_sec_edgar, _seat_holders_pass).  The writers of a seat beside  *)
(* each other are Seats'; here a scrape is one step, and EDGAR's memory is long. *)
(*                                                                              *)
(* A date is a number, 0 is none.  One thing is filed on a day.                  *)
EXTENDS Naturals, Sequences, FiniteSets

CONSTANTS
  Person, Post,
  First,        \* [Person -> Post or "none"]: who holds what before EDGAR begins
  Trades,       \* [rows, left]: the rows of a Form 4, and what is left after it
  Whole,        \* how many shares there are of a class
  LastDay,      \* bound: the calendar
  MaxScrapes,   \* bound: scrapes
  MaxLost,      \* bound: documents that could not be fetched
  Window,       \* FORM4_WINDOW_DAYS
  MaxForms,     \* MAX_FORM4_SCAN and MAX_FORM4_FETCH
  MaxForm3,     \* MAX_FORM3_SCAN
  Inline,       \* how many filings the newest page of the index has
  Max8K,        \* MAX_8K_FETCH
  MaxLookups,   \* MAX_INSIDER_LOOKUPS
  MaxOwn,       \* MAX_PERSON_FORM4
  MaxAge,       \* DENOMINATOR_MAX_AGE_DAYS
  Comebacks     \* who left a post may have it again without a Form 3

VARIABLES
  day,
  feed,      \* the filings about the company, the oldest first
  serves,    \* who holds which post since when
  took,      \* ... and held
  stopped,   \* the day the issuer's count in one number ends; 0 while it is kept
  seats,     \* the HAS_ROLE edges
  stakes,    \* the OWNS edges of the insiders
  scrapes, lost,
  last       \* the newest scrape: its day, whether it fetched every document,
         \* whether a knowledge base came after it, and who was looked up

vars == <<day, feed, serves, took, stopped, seats, stakes, scrapes, lost, last>>

None    == "none"
Nobody  == [post |-> None, since |-> 0]
Forms34 == {"3", "4", "former"}

Init ==
  /\ day = 1 /\ feed = <<>> /\ stopped = 0
  /\ serves = [p \in Person |-> [post |-> First[p], since |-> 0]]
  /\ took = {} /\ seats = {} /\ stakes = [p \in Person |-> [n |-> 0]]
  /\ scrapes = 0 /\ lost = 0 /\ last = [day |-> 0, whole |-> FALSE, met |-> FALSE, asked |-> {}]

-----------------------------------------------------------------------------
(* EDGAR *)

Entry(form, p, post, on, until) ==
  [form |-> form, who |-> p, post |-> post, on |-> on, date |-> until, says |-> None]

Goes(p, now) == serves' = [serves EXCEPT ![p] = now] /\ took' = took \cup {[who |-> p, post |-> now.post, since |-> now.since]}

Filed(filings) ==
  /\ day < LastDay /\ day' = day + 1
  /\ feed' = feed \o filings
  /\ UNCHANGED <<seats, stakes, scrapes, lost, last>>

Left(p) == \E i \in DOMAIN feed : feed[i].who = p /\ feed[i].form \in {"former", "8-K"}

\* Somebody becomes an insider: a Form 3 of that day.  Who comes back to a post does
\* so once the departure was read: the start of a seat still open would take in both.
Join(p, post) ==
  /\ serves[p].post = None /\ ~\E s \in seats : s.who = p /\ s.post = post /\ s.until = 0
  /\ \A i \in DOMAIN feed : feed[i].who = p => feed[i].date <= day
  /\ \/ Filed(<<Entry("3", p, post, day + 1, day + 1)>>)
     \/ Comebacks /\ Left(p) /\ Filed(<<>>)
  /\ Goes(p, [post |-> post, since |-> day + 1]) /\ UNCHANGED stopped

\* A trade; who just left may report one late, under the old title.
Trade(p, t) ==
  /\ (stopped = 0) = ({t.rows[i].class : i \in DOMAIN t.rows} = {"common"})
  /\ \/ serves[p].post # None /\ Filed(<<[Entry("4", p, serves[p].post, day + 1, day + 1) EXCEPT !.says = t]>>)
     \/ /\ serves[p].post = None /\ feed # <<>> /\ feed[Len(feed)].who = p /\ feed[Len(feed)].form = "8-K"
        /\ Filed(<<[Entry("4", p, feed[Len(feed)].post, day + 1, day + 1) EXCEPT !.says = t]>>)
  /\ UNCHANGED <<serves, took, stopped>>

\* A post is left, for good or for another post: on the day, announced for the next
\* one, without a date, or told by a "Former ..." form.
Leave(p, to, how) ==
  /\ serves[p].post \notin {None, to} /\ (to # None => how # "former" /\ (Comebacks \/ ~Left(p)))
  /\ LET post == serves[p].post
         date == IF how = "ahead" THEN 0 ELSE IF how = "later" THEN day + 2 ELSE day + 1
     IN Filed(<<Entry(IF how = "former" THEN "former" ELSE "8-K", p, post, day + 1, date)>>)
  /\ Goes(p, IF to = None THEN Nobody ELSE [post |-> to, since |-> day + 1])
  /\ UNCHANGED stopped

\* The issuer has a second class from now on, and counts by class.
Split == stopped = 0 /\ stopped' = day /\ Filed(<<>>) /\ UNCHANGED <<serves, took>>

-----------------------------------------------------------------------------
(* fetch_executives *)

\* Broken form: the largest position between the trades of a form.
HeldAfter_Largest(rows, class) ==
  LET of == {i \in DOMAIN rows : rows[i].class = class}
  IN IF of = {} THEN 0 ELSE CHOOSE n \in {rows[i].n : i \in of} : \A i \in of : rows[i].n <= n

\* _form4_holdings: the last row of each nature, the natures summed.
HeldAfter(rows, class) ==
  LET of   == {i \in DOMAIN rows : rows[i].class = class}
      final == {i \in of : \A j \in of : rows[j].via = rows[i].via => j <= i}
      Count[n \in 0 .. Len(rows)] == IF n = 0 THEN 0 ELSE Count[n - 1] + (IF n \in final THEN rows[n].n ELSE 0)
  IN Count[Len(rows)]

Read(missing, forms) == {i \in DOMAIN feed : feed[i].form \in forms} \ missing
OnFirstPage(i)       == i + Inline > Len(feed)
Newest(is)           == CHOOSE i \in is : \A j \in is : j <= i

\* Where the listing stops: a document too many, or one before the window.
Full(i, missing) ==
  LET all == {j \in DOMAIN feed : feed[j].form \in Forms34 /\ OnFirstPage(j)}
  IN \/ Cardinality({j \in all \ missing : j > i}) >= MaxForms
     \/ feed[i].on + Window < feed[Newest(all)].on

Listing(missing) == {i \in Read(missing, Forms34) : OnFirstPage(i) /\ ~Full(i, missing)}
Listed(missing)  == {feed[i].who : i \in Listing(missing)}
OfPerson(p, missing) == Newest({i \in Listing(missing) : feed[i].who = p})

\* Form 3s that were opened: past the listing up to a cap, then on the older pages.
Opened3(missing) ==
  LET threes == Read(missing, {"3"})
  IN {i \in threes : i \in Listing(missing) \/ ~OnFirstPage(i) \/ Cardinality({j \in threes : j > i /\ OnFirstPage(j)}) < MaxForm3}

\* Broken form: a Form 3 of any post dates the seat.
Dating_AnyPost(p, missing) ==
  {i \in Opened3(missing) : feed[i].who = p /\ i < OfPerson(p, missing)}

\* A Form 3 of the same post, older than the form a person is listed from.
Dating(p, missing) ==
  {i \in Opened3(missing) : feed[i].who = p /\ i < OfPerson(p, missing) /\ feed[i].post = feed[OfPerson(p, missing)].post}

SinceOf(p, missing) ==
  LET i == OfPerson(p, missing)
  IN IF feed[i].form = "3" THEN feed[i].date
     ELSE IF feed[i].form = "former" \/ Dating(p, missing) = {} THEN 0 ELSE feed[Newest(Dating(p, missing))].date

-----------------------------------------------------------------------------
(* What a holding is a part of *)

\* Broken form: the number of one class is taken for all for ever.
CountOf_Kept(class) == IF stopped = 0 \/ class # "a" THEN Whole["common"] ELSE Whole["a"]

\* fetch_shares_outstanding_detail, stake_for: one number while it is fresh, else the
\* count of the class on the cover, if the title names one.
CountOf(class) ==
  IF stopped = 0 \/ stopped + MaxAge >= day THEN Whole["common"]
  ELSE IF class = "common" THEN 0 ELSE Whole[class]

Share(n, class) == IF CountOf(class) = 0 THEN 0 ELSE (100 * n) \div CountOf(class)

\* The class with the largest part, else with the most shares.
Pick(i) ==
  LET held == {c \in DOMAIN Whole : HeldAfter(feed[i].says.rows, c) > 0}
      N(c) == HeldAfter(feed[i].says.rows, c)
      best == CHOOSE c \in held : \A o \in held :
                Share(N(o), o) < Share(N(c), c) \/ (Share(N(o), o) = Share(N(c), c) /\ N(o) <= N(c))
  IN IF held = {} THEN [n |-> 0] ELSE [n |-> N(best), class |-> best, of |-> CountOf(best), from |-> i]

-----------------------------------------------------------------------------
(* The writing *)

Open(s)         == s.until = 0
Earlier(a, b)   == IF a = 0 \/ b = 0 THEN a + b ELSE IF a < b THEN a ELSE b
Touches(s, d)   == Open(s) \/ d <= s.until
Before(s, t)    == (Open(s) /\ ~Open(t)) \/ (Open(s) = Open(t) /\ s.since <= t.since)

\* Broken form: an assertion is of the seat that is there, ended or not.
About_Any(all, p, post, d) == {s \in all : s.who = p /\ s.post = post}

\* _same_seat: the seats of the post a day touches.
About(all, p, post, d) == {s \in all : s.who = p /\ s.post = post /\ Touches(s, d)}

\* _upsert_role_sec.
Stated(all, p, post, since, filed) ==
  LET fits == About(all, p, post, IF since = 0 THEN filed ELSE since)
      s    == CHOOSE t \in fits : \A o \in fits : Before(t, o)
  IN IF fits = {} THEN all \cup {[who |-> p, post |-> post, since |-> since, until |-> 0]}
     ELSE (all \ {s}) \cup {[s EXCEPT !.since = IF Open(s) THEN Earlier(@, since) ELSE IF @ = 0 THEN since ELSE @]}

\* Broken form: a departure closes whatever seat is open.
Ends_Any(s, until) == Open(s)

\* _close_role_sec: the open seats that began by then.
Ends(s, until) == Open(s) /\ s.since <= until
Closed(all, post, until) == {IF s.post = post /\ Ends(s, until) THEN [s EXCEPT !.until = until] ELSE s : s \in all}

\* The rows of one scrape, person after person: a "Former ..." form closes, any
\* other states the seat.
AfterForm(all, p, missing) ==
  LET i == OfPerson(p, missing)
  IN IF feed[i].form = "former"
     THEN Closed(all, feed[i].post, feed[i].date)
     ELSE Stated(all, p, feed[i].post, SinceOf(p, missing), feed[i].on)

Of(all, p) == {s \in all : s.who = p}

AfterForms(missing) ==
  UNION {IF p \in Listed(missing) THEN AfterForm(Of(seats, p), p, missing) ELSE Of(seats, p) : p \in Person}

\* fetch_departures: the newest 8-Ks of the item; the newest one about a person's post wins.
Items(missing) ==
  LET all == {i \in Read(missing, {"8-K"}) : OnFirstPage(i)} IN {i \in all : Cardinality({j \in all : j > i}) < Max8K}
Departures(missing) == {i \in Items(missing) : feed[i].date # 0}

AfterDepartures(all, missing) ==
  {LET told == {i \in Departures(missing) : feed[i].who = s.who /\ feed[i].post = s.post}
   IN IF told # {} /\ Ends(s, feed[Newest(told)].date) THEN [s EXCEPT !.until = feed[Newest(told)].date] ELSE s : s \in all}

\* Whoever has a seat and no holding is looked up by what they filed themselves.
Waiting(all, held) == {p \in Person : held[p].n = 0 /\ \E s \in all : s.who = p /\ Open(s)}
Asked(all, held) ==
  LET them == Waiting(all, held)
  IN {p \in them : Cardinality({q \in them : q # p /\ (CHOOSE o \in {p, q} : TRUE) = q}) < MaxLookups}
Own(p, missing) ==
  LET fours == {i \in DOMAIN feed : feed[i].who = p /\ feed[i].form = "4"}
  IN {i \in fours \ missing : Cardinality({j \in fours : j > i}) < MaxOwn}

Listed4(missing) == {p \in Listed(missing) : feed[OfPerson(p, missing)].form = "4"}
FromListing(missing) ==
  [p \in Person |-> IF p \notin Listed4(missing) \/ Pick(OfPerson(p, missing)).n = 0 THEN stakes[p]
                    ELSE Pick(OfPerson(p, missing))]
LookedUp(all, held, missing) ==
  [p \in Person |-> IF p \in Asked(all, held) /\ Own(p, missing) # {} THEN Pick(Newest(Own(p, missing))) ELSE held[p]]

\* A scrape; documents may be missing.
Scrape(missing) ==
  /\ scrapes < MaxScrapes /\ lost + Cardinality(missing) <= MaxLost
  /\ scrapes' = scrapes + 1 /\ lost' = lost + Cardinality(missing)
  /\ seats' = AfterDepartures(AfterForms(missing), missing)
  /\ stakes' = LookedUp(seats', FromListing(missing), missing)
  /\ last' = [day |-> day, whole |-> missing = {}, met |-> FALSE, asked |-> Asked(seats', FromListing(missing))]
  /\ UNCHANGED <<day, feed, serves, took, stopped>>

\* A knowledge base states the seat of somebody who has or had it ...
Meet(p, post, since) ==
  /\ scrapes < MaxScrapes /\ scrapes' = scrapes + 1
  /\ \/ serves[p].post = post /\ since \in {0, serves[p].since}
     \/ since = 0 /\ \E i \in DOMAIN feed : feed[i].who = p /\ feed[i].post = post /\ feed[i].form = "8-K"
  /\ ~\E s \in seats : s.who = p /\ s.post = post
  /\ seats' = seats \cup {[who |-> p, post |-> post, since |-> since, until |-> 0]}
  /\ last' = [last EXCEPT !.met = TRUE]
  /\ UNCHANGED <<day, feed, serves, took, stopped, stakes, lost>>

\* ... and the seats are looked at once more, if somebody new waits for it.
Again ==
  /\ last.day = day /\ last.met /\ Waiting(seats, stakes) \ last.asked # {}
  /\ seats' = AfterDepartures(seats, {})
  /\ stakes' = LookedUp(seats', stakes, {})
  /\ last' = [last EXCEPT !.met = FALSE]
  /\ UNCHANGED <<day, feed, serves, took, stopped, scrapes, lost>>

Next ==
  \/ \E p \in Person :
       \/ \E post \in Post : Join(p, post)
       \/ \E t \in Trades : Trade(p, t)
       \/ \E to \in Post \cup {None}, how \in {"now", "later", "ahead", "former"} : Leave(p, to, how)
       \/ \E post \in Post, since \in 0 .. day : Meet(p, post, since)
  \/ Split
  \/ \E missing \in SUBSET DOMAIN feed : Scrape(missing)
  \/ Again

Spec == Init /\ [][Next]_vars

-----------------------------------------------------------------------------

TypeOK ==
  /\ day \in 1 .. LastDay /\ scrapes \in 0 .. MaxScrapes /\ lost \in 0 .. MaxLost
  /\ \A s \in seats : s.who \in Person /\ s.post \in Post /\ s.since \in Nat /\ s.until \in Nat
  /\ \A p \in Person : stakes[p].n \in Nat

JustRead == last.whole /\ ~last.met /\ last.day = day
Seat(p, post) == {s \in seats : s.who = p /\ s.post = post /\ Open(s)}

\* A departure that is dated and among the newest ones is believed: whatever trade is
\* reported late and whatever a knowledge base still says, the seat is ended.
LeftIsClosed ==
  JustRead => \A i \in Departures({}) :
    (\A t \in took : t.who = feed[i].who /\ t.post = feed[i].post => t.since <= feed[i].on)
      => Seat(feed[i].who, feed[i].post) = {}

\* Who is listed from a form filed since they took their post has an open seat; who
\* had left it before, if the Form 3 of the return was read.
ServingIsOpen ==
  JustRead => \A p \in Listed({}) :
    /\ serves[p].post # None /\ feed[OfPerson(p, {})].on >= serves[p].since
    /\ \/ SinceOf(p, {}) = serves[p].since
       \/ ~\E i \in DOMAIN feed : feed[i].who = p /\ feed[i].post = serves[p].post /\ feed[i].form \in {"8-K", "former"}
    => Seat(p, serves[p].post) # {}

\* A seat begins on a day its holder took it, and does not end before.
StartIsTrue ==
  \A s \in seats : s.since # 0 =>
    [who |-> s.who, post |-> s.post, since |-> s.since] \in took /\ (Open(s) \/ s.since <= s.until)

\* A holding is what the form leaves, of the number of shares of that class.
StakeIsHeld ==
  \A p \in Person : stakes[p].n # 0 =>
    /\ stakes[p].n = feed[stakes[p].from].says.left[stakes[p].class]
    /\ stakes[p].of \in {0, Whole[stakes[p].class]}
=============================================================================
