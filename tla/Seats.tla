-------------------------------- MODULE Seats --------------------------------
(***************************************************************************)
(* One person's seats in one position at one company: the HAS_ROLE edges   *)
(* that the SEC passes (sec_writer), the Wikidata pass (graph_writer) and  *)
(* the death rule (roles.py) write, statement by statement, beside each    *)
(* other, and the role claim each source keeps.                            *)
(*                                                                         *)
(* A date is a number: 3m is the month m, 3m+1 and 3m+2 are days in it, in *)
(* the order of the ISO strings; 0 is no date.  The sources spell the      *)
(* position with labels of their own, which fold onto one; a founder's     *)
(* position, which never ends by death, is left out.                       *)
(***************************************************************************)
EXTENDS Naturals, Sequences, FiniteSets

CONSTANTS
  Stated,     \* what each writer may state: [by, since, until, filed]
  Deaths,     \* the dates the person may have died
  MaxCalls    \* bound: calls of the writers

VARIABLES
  seats,    \* the HAS_ROLE edges: label, since, until, cred
  claims,   \* the role claim of each source
  death,    \* Person.death_date
  call,     \* what each writer is doing
  calls,    \* calls so far
  met,      \* history: two calls were under way together
  lowered   \* history: an assertion moved a start to before a known death

vars == <<seats, claims, death, call, calls, met, lowered>>

Hand == {"sec", "wikidata", "person"}
Source == {"sec", "wikidata"}
Idle   == [at |-> "idle"]
NoClaim == [since |-> 0, until |-> 0, made |-> FALSE]

Label(w) == IF w = "sec" THEN "Director" ELSE "Board Member"
Cred(w)  == IF w = "sec" THEN 98 ELSE 80

SeatsTypeOK ==
  /\ \A i \in DOMAIN seats : seats[i] \in
       [label : {"Director", "Board Member"}, since : Nat, until : Nat, cred : {80, 98}]
  /\ claims \in [Source -> [since : Nat, until : Nat, made : BOOLEAN]]
  /\ death \in Deaths \cup {0}
  /\ calls \in 0 .. MaxCalls

Init ==
  /\ seats = <<>>
  /\ claims = [s \in Source |-> NoClaim]
  /\ death = 0
  /\ call = [w \in Hand |-> Idle]
  /\ calls = 0 /\ met = FALSE /\ lowered = FALSE

-----------------------------------------------------------------------------
(* roles.py: dates at two precisions *)

Coarse(d)      == d % 3 = 0
Within(b, a)   == Coarse(a) /\ b \div 3 = a \div 3

SameStart(a, b) == a # 0 /\ b # 0 /\ (a = b \/ Within(a, b) \/ Within(b, a))
Earlier(a, b)   == IF a < b THEN a ELSE b
Later(a, b)     == IF a < b THEN b ELSE a

\* combined_start: the finer of one date, else the earlier, else the one there is.
CombinedStart(a, b) ==
  IF a = 0 \/ b = 0 \/ SameStart(a, b) THEN Later(a, b) ELSE Earlier(a, b)

BeforeOrWithin(a, b) == SameStart(a, b) \/ a < b

\* periods_overlap.
PeriodsOverlap(a, b) ==
  /\ a.until # 0 /\ b.since # 0 => BeforeOrWithin(b.since, a.until)
  /\ b.until # 0 /\ a.since # 0 => BeforeOrWithin(a.since, b.until)

Open(s) == s.until = 0

EndsBy(s, until) == Open(s) /\ s.since <= until

\* _same_seat: an open seat before an ended one, the earlier start first; an
\* assertion without a date takes the first.
SameSeat(since, until) ==
  LET fits == {i \in DOMAIN seats : since = 0 \/ PeriodsOverlap(seats[i], [since |-> since, until |-> until])}
      Before(i, j) == \/ Open(seats[i]) /\ ~Open(seats[j])
                      \/ Open(seats[i]) = Open(seats[j]) /\ seats[i].since < seats[j].since
                      \/ Open(seats[i]) = Open(seats[j]) /\ seats[i].since = seats[j].since /\ i <= j
  IN IF fits = {} THEN 0 ELSE CHOOSE i \in fits : \A j \in fits : Before(i, j)

Update(where(_), set(_)) == [i \in DOMAIN seats |-> IF where(seats[i]) THEN set(seats[i]) ELSE seats[i]]

-----------------------------------------------------------------------------
(* claims.py: the claim of one source *)

\* record_claim, _END_KEPT: a write without an end and with the same start, or
\* none, leaves the end alone.
Restated(old, since, until) ==
  [since |-> since, made |-> TRUE,
   until |-> IF until = 0 /\ old.until # 0 /\ (since = 0 \/ since = old.since) THEN old.until ELSE until]

RecordClaim(w, since, until) == claims' = [claims EXCEPT ![w] = Restated(@, since, until)]

-----------------------------------------------------------------------------
(* The two writers of a seat *)

\* A statement that sets the start of seats.
Write(new) ==
  /\ seats' = new
  /\ lowered' = (lowered \/ \E i \in DOMAIN seats :
                    death # 0 /\ Open(seats[i]) /\ ~EndsBy(seats[i], death) /\ EndsBy(new[i], death))

Do(w, c)    == call' = [call EXCEPT ![w] = c]
At(w, place) == call[w].at = place
Return(w)   == Do(w, Idle)

Call(w) ==
  /\ At(w, "idle") /\ calls < MaxCalls
  /\ calls' = calls + 1
  /\ met' = (met \/ \E v \in Hand : call[v] # Idle)

\* record_claim, and the seat the assertion is about.  A Form 3 or 4 without a
\* date is placed by the day it was filed.
StateSeat(w) ==
  /\ Call(w)
  /\ \E a \in {s \in Stated : s.by = w} :
       /\ RecordClaim(w, a.since, a.until)
       /\ LET i == SameSeat(IF w = "sec" /\ a.since = 0 THEN a.filed ELSE a.since, a.until) IN
          Do(w, [at |-> "write", since |-> a.since, until |-> a.until,
                 hit |-> IF i = 0 THEN {} ELSE {seats[i]}])
  /\ UNCHANGED <<seats, death, lowered>>

Hit(w) == CHOOSE s \in call[w].hit : TRUE

\* Broken form: the writer of a new seat does not ask whether its holder is dead.
Create_Unasked(w) ==
  /\ At(w, "write") /\ call[w].hit = {}
  /\ seats' = Append(seats, [label |-> Label(w), since |-> call[w].since,
                             until |-> call[w].until, cred |-> Cred(w)])
  /\ Return(w)
  /\ UNCHANGED <<claims, death, calls, met, lowered>>

Create(w) ==
  /\ At(w, "write") /\ call[w].hit = {}
  /\ seats' = Append(seats, [label |-> Label(w), since |-> call[w].since,
                             until |-> call[w].until, cred |-> Cred(w)])
  /\ IF call[w].until = 0 THEN Do(w, [at |-> "mourn"]) ELSE Return(w)
  /\ UNCHANGED <<claims, death, calls, met, lowered>>

\* _upsert_role_sec on an ended seat: the start is filled in, the end stands.
RefreshEnded ==
  /\ At("sec", "write")
  /\ \E hit \in call["sec"].hit :
       /\ ~Open(hit)
       /\ seats' = Update(LAMBDA s : s.label = hit.label /\ s.until = hit.until,
                          LAMBDA s : [s EXCEPT !.since = IF @ = 0 THEN call["sec"].since ELSE @])
  /\ Return("sec")
  /\ UNCHANGED <<claims, death, calls, met, lowered>>

\* _upsert_role_sec on an open seat.
RefreshOpen ==
  /\ At("sec", "write")
  /\ \E hit \in call["sec"].hit :
       /\ Open(hit)
       /\ LET start == CombinedStart(hit.since, call["sec"].since) IN
          Write(Update(LAMBDA s : s.label = hit.label /\ Open(s),
                       LAMBDA s : [s EXCEPT !.since = start]))
       /\ Do("sec", [call["sec"] EXCEPT !.at = "relabel"])
  /\ UNCHANGED <<claims, death, calls, met>>

\* _upsert_role on the seat it found, open or ended.
RefreshSeat ==
  /\ At("wikidata", "write")
  /\ \E hit \in call["wikidata"].hit :
       LET start == CombinedStart(hit.since, call["wikidata"].since)
           next  == IF Open(hit) /\ call["wikidata"].until # 0 THEN "end" ELSE "relabel"
       IN /\ Write(Update(LAMBDA s : s.label = hit.label /\ s.since = hit.since /\ s.until = hit.until,
                          LAMBDA s : [s EXCEPT !.since = start]))
          /\ Do("wikidata", [call["wikidata"] EXCEPT !.at = next])
  /\ UNCHANGED <<claims, death, calls, met>>

EndSeat ==
  /\ At("wikidata", "end")
  /\ LET hit   == Hit("wikidata")
         start == CombinedStart(hit.since, call["wikidata"].since)
         until == call["wikidata"].until
     IN seats' = Update(LAMBDA s : s.label = hit.label /\ Open(s) /\ s.since = start /\ s.since <= until,
                        LAMBDA s : [s EXCEPT !.until = until])
  /\ Do("wikidata", [call["wikidata"] EXCEPT !.at = "relabel"])
  /\ UNCHANGED <<claims, death, calls, met, lowered>>

\* _relabel_if_more_credible: every seat with the old label.
Relabel(w) ==
  /\ At(w, "relabel")
  /\ LET hit == Hit(w) IN
     IF Cred(w) > hit.cred /\ Label(w) # hit.label
     THEN seats' = Update(LAMBDA s : s.label = hit.label,
                          LAMBDA s : [s EXCEPT !.label = Label(w), !.cred = Cred(w)])
     ELSE UNCHANGED seats
  /\ Return(w)
  /\ UNCHANGED <<claims, death, calls, met, lowered>>

-----------------------------------------------------------------------------
(* _close_role_sec: a "Former ..." Form 4, an 8-K *)

Depart ==
  /\ Call("sec")
  /\ \E a \in {s \in Stated : s.by = "departure"} :
       LET labels == {seats[i].label : i \in {j \in DOMAIN seats : EndsBy(seats[j], a.until)}}
       IN Do("sec", IF labels = {} THEN Idle ELSE [at |-> "close", until |-> a.until, labels |-> labels])
  /\ UNCHANGED <<seats, claims, death, lowered>>

\* One statement for each label read, then close_role_claim.
CloseRole ==
  /\ At("sec", "close")
  /\ LET until == call["sec"].until IN
     \E label \in call["sec"].labels :
       /\ seats' = Update(LAMBDA s : s.label = label /\ EndsBy(s, until),
                          LAMBDA s : [s EXCEPT !.until = until])
       /\ IF call["sec"].labels = {label}
          THEN /\ Return("sec")
               /\ claims' = [claims EXCEPT !["sec"] = [@ EXCEPT !.until = until, !.made = TRUE]]
          ELSE /\ Do("sec", [call["sec"] EXCEPT !.labels = @ \ {label}])
               /\ UNCHANGED claims
  /\ UNCHANGED <<death, calls, met, lowered>>

-----------------------------------------------------------------------------
(* The death rule *)

\* _upsert_person: the first source to state a death date sets it.
Die(d) ==
  /\ Call("person")
  /\ death' = (IF death = 0 THEN d ELSE death)
  /\ Do("person", [at |-> "mourn"])
  /\ UNCHANGED <<seats, claims, lowered>>

\* end_seats_at_death: the death, then the open seats that began by it ...
Mourn(w) ==
  /\ At(w, "mourn")
  /\ LET ended == {i \in DOMAIN seats : death # 0 /\ EndsBy(seats[i], death)} IN
     Do(w, IF ended = {} THEN Idle ELSE [at |-> "bury", ended |-> ended])
  /\ UNCHANGED <<seats, claims, death, calls, met, lowered>>

\* ... one UPDATE by record id for each.
Bury(w) ==
  /\ At(w, "bury")
  /\ LET i == CHOOSE j \in call[w].ended : \A k \in call[w].ended : j <= k IN
     /\ seats' = [seats EXCEPT ![i].until = death]
     /\ Do(w, IF call[w].ended = {i} THEN Idle ELSE [call[w] EXCEPT !.ended = @ \ {i}])
  /\ UNCHANGED <<claims, death, calls, met, lowered>>

Next ==
  \/ \E w \in Source : StateSeat(w) \/ Create(w) \/ Relabel(w)
  \/ RefreshEnded \/ RefreshOpen \/ RefreshSeat \/ EndSeat
  \/ Depart \/ CloseRole
  \/ \E d \in Deaths : Die(d)
  \/ \E w \in Hand : Mourn(w) \/ Bury(w)

Spec == Init /\ [][Next]_vars

-----------------------------------------------------------------------------

Quiet == \A w \in Hand : call[w] = Idle

\* The dead hold no seat that began in their lifetime: the writer of a seat asks
\* for the death after it has written, the writer of a death for the seats, so
\* whichever comes second ends it - unless a later assertion moved the start.
DeadHoldNoSeat ==
  Quiet /\ death # 0 /\ ~lowered => \A i \in DOMAIN seats : ~EndsBy(seats[i], death)

\* roles.py: "Two spells that do not touch stay two seats".
SpellsStaySeparate ==
  ~met => \A i, j \in DOMAIN seats : i # j => ~PeriodsOverlap(seats[i], seats[j])

\* An ended seat of the SEC's is an ended claim of the SEC's.
ClaimEndsWithSeat ==
  Quiet /\ claims["sec"].made /\ claims["sec"].until = 0 /\ seats # <<>> =>
     \E i \in DOMAIN seats : Open(seats[i])
=============================================================================
