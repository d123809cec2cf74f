---------------------------- MODULE PassesProofs ----------------------------
(***************************************************************************)
(* Proofs about three of the passes, each for every value of its own       *)
(* constants:                                                              *)
(*                                                                         *)
(*  - a person's seats: the dead hold none.  The death rule is run by      *)
(*    whoever writes second, and between the death, the read of the open   *)
(*    seats and the update of each of them stand the statements of the     *)
(*    other writers: the invariant says who still has which seat to end;   *)
(*  - GLEIF's two relationships of one pair, from the proofs about the     *)
(*    edge they share;                                                     *)
(*  - a filer's subsidiary lists: what a list drawn to its end leaves      *)
(*    stands, whatever passes run beside it, until a newer one is filed.   *)
(***************************************************************************)
EXTENDS MCPasses, Sequences, NaturalsInduction, WellFoundedInduction, TLAPS

-----------------------------------------------------------------------------
(* One person's seats *)

Labels  == {"Director", "Board Member"}
SeatRec == [label : Labels, since : Nat, until : Nat, cred : {80, 98}]
Working == [at : {"write", "end", "relabel"}, since : Nat, until : Nat, hit : SUBSET SeatRec]
Closing == [at : {"close"}, until : Nat, labels : SUBSET Labels]
Burying == [at : {"bury"}, ended : SUBSET Nat]
HandJob     == {Seats!Idle, [at |-> "mourn"]} \cup Working \cup Closing \cup Burying

SeatsTyped ==
  /\ seats_seats \in Seq(SeatRec)
  /\ seats_claims \in [Seats!Source -> [since : Nat, until : Nat, made : BOOLEAN]]
  /\ seats_death \in SeatsDeaths \cup {0}
  /\ seats_call \in [Seats!Hand -> HandJob]
  /\ seats_calls \in 0 .. SeatsCalls

\* What the sources state: dates, by the hands the model has.
SeatsFigures ==
  /\ SeatsStated \subseteq [by : {"sec", "wikidata", "departure"}, since : Nat, until : Nat, filed : Nat]
  /\ SeatsDeaths \subseteq Nat
  /\ SeatsCalls \in Nat

\* Somebody who will end seat i has yet to read the open seats, or has read it.
Minded(i) ==
  \E w \in Seats!Hand : seats_call[w].at = "mourn" \/ (seats_call[w].at = "bury" /\ i \in seats_call[w].ended)

Mourned ==
  seats_death # 0 /\ ~seats_lowered => \A i \in DOMAIN seats_seats : Seats!EndsBy(seats_seats[i], seats_death) => Minded(i)

SeatsInv == SeatsTyped /\ Mourned

-----------------------------------------------------------------------------
(* The statements that write seats *)

\* A write of the seats that opens none: the seats stay, and none the death ends
\* begins to be one, but for what `lowered` records.
Gentle ==
  /\ seats_seats' \in Seq(SeatRec)
  /\ DOMAIN seats_seats' = DOMAIN seats_seats
  /\ seats_lowered => seats_lowered'
  /\ seats_death # 0 /\ ~seats_lowered' =>
       \A i \in DOMAIN seats_seats : Seats!EndsBy(seats_seats'[i], seats_death) => Seats!EndsBy(seats_seats[i], seats_death)

\* A function over the places of the seats whose values are seats is a sequence of
\* seats.
LEMMA Retyped ==
  ASSUME seats_seats \in Seq(SeatRec), NEW f, f = [i \in DOMAIN seats_seats |-> f[i]],
         \A i \in DOMAIN seats_seats : f[i] \in SeatRec
  PROVE  f \in Seq(SeatRec) /\ DOMAIN f = DOMAIN seats_seats
<1>1. DOMAIN seats_seats = 1 .. Len(seats_seats) /\ Len(seats_seats) \in Nat
  OBVIOUS
<1>2. f \in [1 .. Len(seats_seats) -> SeatRec]
  BY <1>1
<1> QED
  BY <1>1, <1>2

\* What the three edits of a seat leave alone.
LEMMA SinceSet ==
  \A s \in SeatRec, d \in Nat :
    /\ s.since \in Nat /\ s.until \in Nat /\ s.label \in Labels
    /\ [s EXCEPT !.since = d] \in SeatRec
    /\ [s EXCEPT !.since = d].since = d /\ [s EXCEPT !.since = d].until = s.until
  BY DEF SeatRec

LEMMA UntilSet ==
  \A s \in SeatRec, d \in Nat :
    /\ [s EXCEPT !.until = d] \in SeatRec
    /\ [s EXCEPT !.until = d].until = d /\ [s EXCEPT !.until = d].since = s.since
  BY DEF SeatRec

LEMMA LabelSet ==
  \A s \in SeatRec, l \in Labels, c \in {80, 98} :
    /\ [s EXCEPT !.label = l, !.cred = c] \in SeatRec
    /\ [s EXCEPT !.label = l, !.cred = c].until = s.until
    /\ [s EXCEPT !.label = l, !.cred = c].since = s.since
  BY DEF SeatRec

LEMMA Worked ==
  \A c \in HandJob : c.at \in {"write", "end", "relabel"} =>
    /\ c.since \in Nat /\ c.until \in Nat /\ c.hit \subseteq SeatRec
    /\ \A p \in {"end", "relabel"} : [c EXCEPT !.at = p] \in HandJob
  BY DEF HandJob, Working, Closing, Burying, Seats!Idle

LEMMA CombinedIsADate == \A a, b \in Nat : Seats!CombinedStart(a, b) \in Nat
  BY DEF Seats!CombinedStart, Seats!Later, Seats!Earlier

LEMMA RefreshEndedGentle == ASSUME SeatsTyped, Seats!RefreshEnded PROVE Gentle
<1>1. PICK hit \in seats_call["sec"].hit :
        /\ ~Seats!Open(hit)
        /\ seats_seats' = [i \in DOMAIN seats_seats |->
             IF seats_seats[i].label = hit.label /\ seats_seats[i].until = hit.until
             THEN [seats_seats[i] EXCEPT !.since = IF @ = 0 THEN seats_call["sec"].since ELSE @] ELSE seats_seats[i]]
  BY DEF Seats!RefreshEnded, Seats!Update
<1>a. seats_call["sec"] \in HandJob /\ seats_call["sec"].at = "write"
  BY DEF SeatsTyped, Seats!RefreshEnded, Seats!At, Seats!Hand
<1>2. seats_call["sec"].since \in Nat
  BY <1>a, Worked
<1>3. ASSUME NEW i \in DOMAIN seats_seats
      PROVE  seats_seats'[i] \in SeatRec /\ (seats_seats'[i] = seats_seats[i] \/ seats_seats'[i].until # 0)
  <2>1. seats_seats[i] \in SeatRec
    BY DEF SeatsTyped
  <2> DEFINE d == IF seats_seats[i].since = 0 THEN seats_call["sec"].since ELSE seats_seats[i].since
  <2>2. d \in Nat
    BY <1>2, <2>1, SinceSet
  <2>3. [seats_seats[i] EXCEPT !.since = d] \in SeatRec /\ [seats_seats[i] EXCEPT !.since = d].until = seats_seats[i].until
    BY <2>1, <2>2, SinceSet
  <2>4. seats_seats'[i] = IF seats_seats[i].label = hit.label /\ seats_seats[i].until = hit.until
                    THEN [seats_seats[i] EXCEPT !.since = d] ELSE seats_seats[i]
    BY <1>1
  <2> HIDE DEF d
  <2> QED
    BY <1>1, <2>1, <2>3, <2>4 DEF Seats!Open
<1>4. seats_seats' \in Seq(SeatRec) /\ DOMAIN seats_seats' = DOMAIN seats_seats
  <2>1. seats_seats' = [i \in DOMAIN seats_seats |-> seats_seats'[i]]
    BY <1>1
  <2>2. \A i \in DOMAIN seats_seats : seats_seats'[i] \in SeatRec
    BY <1>3
  <2>3. seats_seats \in Seq(SeatRec)
    BY DEF SeatsTyped
  <2> QED
    BY <2>1, <2>2, <2>3, Retyped
<1>5. seats_lowered' = seats_lowered
  BY DEF Seats!RefreshEnded
<1> QED
  BY <1>3, <1>4, <1>5 DEF Gentle, Seats!EndsBy, Seats!Open


\* A statement that keeps every seat a seat, opens none, and says so when it moves a
\* start to before the death, is gentle.
LEMMA WriteGentle ==
  ASSUME SeatsTyped, NEW new, new = [i \in DOMAIN seats_seats |-> new[i]],
         \A i \in DOMAIN seats_seats : new[i] \in SeatRec /\ new[i].until = seats_seats[i].until,
         Seats!Write(new)
  PROVE  Gentle
<1>1. seats_seats' = new
  BY DEF Seats!Write
<1>2. seats_seats \in Seq(SeatRec)
  BY DEF SeatsTyped
<1>3. \A i \in DOMAIN seats_seats : new[i] \in SeatRec
  OBVIOUS
<1>4. new \in Seq(SeatRec) /\ DOMAIN new = DOMAIN seats_seats
  BY <1>2, <1>3, Retyped
<1>5. seats_lowered => seats_lowered'
  BY DEF Seats!Write
<1>6. ASSUME seats_death # 0, ~seats_lowered', NEW i \in DOMAIN seats_seats, Seats!EndsBy(new[i], seats_death)
      PROVE  Seats!EndsBy(seats_seats[i], seats_death)
  <2>1. Seats!Open(seats_seats[i])
    BY <1>6 DEF Seats!EndsBy, Seats!Open
  <2> QED
    BY <1>6, <2>1 DEF Seats!Write
<1> QED
  BY <1>1, <1>4, <1>5, <1>6 DEF Gentle

LEMMA RefreshOpenGentle == ASSUME SeatsTyped, Seats!RefreshOpen PROVE Gentle
<1>1. PICK hit \in seats_call["sec"].hit :
        Seats!Write([i \in DOMAIN seats_seats |->
          IF seats_seats[i].label = hit.label /\ Seats!Open(seats_seats[i])
          THEN [seats_seats[i] EXCEPT !.since = Seats!CombinedStart(hit.since, seats_call["sec"].since)] ELSE seats_seats[i]])
  BY DEF Seats!RefreshOpen, Seats!Update
<1>2. seats_call["sec"] \in HandJob /\ seats_call["sec"].at = "write"
  BY DEF SeatsTyped, Seats!RefreshOpen, Seats!At, Seats!Hand
<1>3. seats_call["sec"].since \in Nat /\ hit \in SeatRec
  BY <1>2, Worked
<1> DEFINE start == Seats!CombinedStart(hit.since, seats_call["sec"].since)
           new == [i \in DOMAIN seats_seats |->
             IF seats_seats[i].label = hit.label /\ Seats!Open(seats_seats[i]) THEN [seats_seats[i] EXCEPT !.since = start] ELSE seats_seats[i]]
<1>4. start \in Nat
  BY <1>3, CombinedIsADate, SinceSet
<1>5. \A i \in DOMAIN seats_seats : new[i] \in SeatRec /\ new[i].until = seats_seats[i].until
  <2> SUFFICES ASSUME NEW i \in DOMAIN seats_seats
               PROVE  new[i] \in SeatRec /\ new[i].until = seats_seats[i].until
    OBVIOUS
  <2>1. seats_seats[i] \in SeatRec
    BY DEF SeatsTyped
  <2> HIDE DEF start
  <2>2. [seats_seats[i] EXCEPT !.since = start] \in SeatRec /\ [seats_seats[i] EXCEPT !.since = start].until = seats_seats[i].until
    BY <1>4, <2>1, SinceSet
  <2> QED
    BY <2>1, <2>2
<1>6. Seats!Write(new)
  BY <1>1
<1>7. new = [i \in DOMAIN seats_seats |-> new[i]]
  OBVIOUS
<1> HIDE DEF new
<1> QED
  BY <1>5, <1>6, <1>7, WriteGentle

LEMMA RefreshSeatGentle == ASSUME SeatsTyped, Seats!RefreshSeat PROVE Gentle
<1>1. PICK hit \in seats_call["wikidata"].hit :
        Seats!Write([i \in DOMAIN seats_seats |->
          IF seats_seats[i].label = hit.label /\ seats_seats[i].since = hit.since /\ seats_seats[i].until = hit.until
          THEN [seats_seats[i] EXCEPT !.since = Seats!CombinedStart(hit.since, seats_call["wikidata"].since)] ELSE seats_seats[i]])
  BY DEF Seats!RefreshSeat, Seats!Update
<1>2. seats_call["wikidata"] \in HandJob /\ seats_call["wikidata"].at = "write"
  BY DEF SeatsTyped, Seats!RefreshSeat, Seats!At, Seats!Hand
<1>3. seats_call["wikidata"].since \in Nat /\ hit \in SeatRec
  BY <1>2, Worked
<1> DEFINE start == Seats!CombinedStart(hit.since, seats_call["wikidata"].since)
           new == [i \in DOMAIN seats_seats |->
             IF seats_seats[i].label = hit.label /\ seats_seats[i].since = hit.since /\ seats_seats[i].until = hit.until
             THEN [seats_seats[i] EXCEPT !.since = start] ELSE seats_seats[i]]
<1>4. start \in Nat
  BY <1>3, CombinedIsADate, SinceSet
<1>5. \A i \in DOMAIN seats_seats : new[i] \in SeatRec /\ new[i].until = seats_seats[i].until
  <2> SUFFICES ASSUME NEW i \in DOMAIN seats_seats
               PROVE  new[i] \in SeatRec /\ new[i].until = seats_seats[i].until
    OBVIOUS
  <2>1. seats_seats[i] \in SeatRec
    BY DEF SeatsTyped
  <2> HIDE DEF start
  <2>2. [seats_seats[i] EXCEPT !.since = start] \in SeatRec /\ [seats_seats[i] EXCEPT !.since = start].until = seats_seats[i].until
    BY <1>4, <2>1, SinceSet
  <2> QED
    BY <2>1, <2>2
<1>6. Seats!Write(new)
  BY <1>1
<1>7. new = [i \in DOMAIN seats_seats |-> new[i]]
  OBVIOUS
<1> HIDE DEF new
<1> QED
  BY <1>5, <1>6, <1>7, WriteGentle

\* A statement that only sets the end of seats, of open ones or to a day, is gentle
\* too.
LEMMA EndGentle ==
  ASSUME SeatsTyped, NEW ending, NEW until \in Nat, seats_lowered' = seats_lowered,
         seats_seats' = [i \in DOMAIN seats_seats |->
           IF i \in ending THEN [seats_seats[i] EXCEPT !.until = until] ELSE seats_seats[i]],
         seats_death # 0 => \A i \in DOMAIN seats_seats : i \in ending => Seats!Open(seats_seats[i]) \/ until # 0
  PROVE  Gentle
<1>1. seats_seats \in Seq(SeatRec)
  BY DEF SeatsTyped
<1>2. ASSUME NEW i \in DOMAIN seats_seats
      PROVE  /\ seats_seats'[i] \in SeatRec /\ seats_seats'[i].since = seats_seats[i].since
             /\ seats_death # 0 => seats_seats'[i] = seats_seats[i] \/ seats_seats'[i].until # 0 \/ Seats!Open(seats_seats[i])
  <2>1. seats_seats[i] \in SeatRec
    BY DEF SeatsTyped
  <2>2. /\ [seats_seats[i] EXCEPT !.until = until] \in SeatRec
        /\ [seats_seats[i] EXCEPT !.until = until].until = until
        /\ [seats_seats[i] EXCEPT !.until = until].since = seats_seats[i].since
    BY <2>1, UntilSet
  <2> QED
    BY <2>1, <2>2
<1>3. seats_seats' = [i \in DOMAIN seats_seats |-> seats_seats'[i]]
  OBVIOUS
<1>4. \A i \in DOMAIN seats_seats : seats_seats'[i] \in SeatRec
  BY <1>2
<1>5. seats_seats' \in Seq(SeatRec) /\ DOMAIN seats_seats' = DOMAIN seats_seats
  BY <1>1, <1>3, <1>4, Retyped
<1> QED
  BY <1>2, <1>5 DEF Gentle, Seats!EndsBy, Seats!Open

LEMMA EndSeatGentle == ASSUME SeatsTyped, Seats!EndSeat PROVE Gentle
<1> DEFINE hit == Seats!Hit("wikidata")
           start == Seats!CombinedStart(hit.since, seats_call["wikidata"].since)
           until == seats_call["wikidata"].until
           ending == {i \in DOMAIN seats_seats : /\ seats_seats[i].label = hit.label /\ Seats!Open(seats_seats[i])
                                           /\ seats_seats[i].since = start /\ seats_seats[i].since <= until}
<1>1. seats_seats' = [i \in DOMAIN seats_seats |->
        IF i \in ending THEN [seats_seats[i] EXCEPT !.until = until] ELSE seats_seats[i]]
  BY DEF Seats!EndSeat, Seats!Update
<1>2. seats_call["wikidata"] \in HandJob /\ seats_call["wikidata"].at = "end"
  BY DEF SeatsTyped, Seats!EndSeat, Seats!At, Seats!Hand
<1>3. until \in Nat
  BY <1>2, Worked
<1>4. seats_death # 0 => \A i \in DOMAIN seats_seats : i \in ending => Seats!Open(seats_seats[i]) \/ until # 0
  OBVIOUS
<1>5. seats_lowered' = seats_lowered
  BY DEF Seats!EndSeat
<1> HIDE DEF ending, until
<1> QED
  BY <1>1, <1>3, <1>4, <1>5, EndGentle

LEMMA CloseRoleGentle == ASSUME SeatsTyped, Seats!CloseRole PROVE Gentle
<1> DEFINE until == seats_call["sec"].until
<1>1. PICK label \in seats_call["sec"].labels :
        seats_seats' = [i \in DOMAIN seats_seats |->
          IF seats_seats[i].label = label /\ Seats!EndsBy(seats_seats[i], until)
          THEN [seats_seats[i] EXCEPT !.until = until] ELSE seats_seats[i]]
  BY DEF Seats!CloseRole, Seats!Update
<1> DEFINE ending == {i \in DOMAIN seats_seats : seats_seats[i].label = label /\ Seats!EndsBy(seats_seats[i], until)}
<1>2. seats_seats' = [i \in DOMAIN seats_seats |->
        IF i \in ending THEN [seats_seats[i] EXCEPT !.until = until] ELSE seats_seats[i]]
  BY <1>1
<1>3. seats_call["sec"] \in HandJob /\ seats_call["sec"].at = "close"
  BY DEF SeatsTyped, Seats!CloseRole, Seats!At, Seats!Hand
<1>4. until \in Nat
  BY <1>3 DEF HandJob, Seats!Idle, Working, Closing, Burying
<1>5. seats_death # 0 => \A i \in DOMAIN seats_seats : i \in ending => Seats!Open(seats_seats[i]) \/ until # 0
  BY DEF Seats!EndsBy
<1>6. seats_lowered' = seats_lowered
  BY DEF Seats!CloseRole
<1> HIDE DEF ending, until
<1> QED
  BY <1>2, <1>4, <1>5, <1>6, EndGentle

LEMMA RelabelGentle == ASSUME SeatsTyped, NEW w \in Seats!Source, Seats!Relabel(w) PROVE Gentle
<1>1. seats_seats \in Seq(SeatRec)
  BY DEF SeatsTyped
<1>2. seats_lowered' = seats_lowered
  BY DEF Seats!Relabel
<1>3. CASE seats_seats' = seats_seats
  BY <1>1, <1>2, <1>3 DEF Gentle
<1>4. CASE seats_seats' = [i \in DOMAIN seats_seats |->
             IF seats_seats[i].label = Seats!Hit(w).label
             THEN [seats_seats[i] EXCEPT !.label = Seats!Label(w), !.cred = Seats!Cred(w)] ELSE seats_seats[i]]
  <2>1. ASSUME NEW i \in DOMAIN seats_seats
        PROVE  /\ seats_seats'[i] \in SeatRec /\ seats_seats'[i].since = seats_seats[i].since
               /\ seats_seats'[i].until = seats_seats[i].until
    <3>1. seats_seats[i] \in SeatRec
      BY DEF SeatsTyped
    <3>2. Seats!Label(w) \in Labels /\ Seats!Cred(w) \in {80, 98}
      BY DEF Seats!Label, Labels, Seats!Cred
    <3> DEFINE l == Seats!Label(w)  c == Seats!Cred(w)
    <3>3. /\ [seats_seats[i] EXCEPT !.label = l, !.cred = c] \in SeatRec
          /\ [seats_seats[i] EXCEPT !.label = l, !.cred = c].until = seats_seats[i].until
          /\ [seats_seats[i] EXCEPT !.label = l, !.cred = c].since = seats_seats[i].since
      <4> HIDE DEF l, c
      <4> QED BY <3>1, <3>2, LabelSet DEF l, c
    <3> HIDE DEF l, c
    <3>4. seats_seats'[i] = IF seats_seats[i].label = Seats!Hit(w).label THEN [seats_seats[i] EXCEPT !.label = l, !.cred = c] ELSE seats_seats[i]
      BY <1>4 DEF l, c
    <3> QED
      BY <3>1, <3>3, <3>4
  <2>2. seats_seats' = [i \in DOMAIN seats_seats |-> seats_seats'[i]]
    BY <1>4
  <2>3. \A i \in DOMAIN seats_seats : seats_seats'[i] \in SeatRec
    BY <2>1
  <2>4. seats_seats' \in Seq(SeatRec) /\ DOMAIN seats_seats' = DOMAIN seats_seats
    BY <1>1, <2>2, <2>3, Retyped
  <2> QED
    BY <1>2, <2>1, <2>4 DEF Gentle, Seats!EndsBy, Seats!Open
<1> QED
  BY <1>3, <1>4 DEF Seats!Relabel, Seats!Update

LEMMA BuryGentle == ASSUME SeatsTyped, SeatsFigures, NEW w \in Seats!Hand, Seats!Bury(w) PROVE Gentle
<1> DEFINE i == CHOOSE j \in seats_call[w].ended : \A k \in seats_call[w].ended : j <= k
           ending == {i}
<1>1. seats_seats' = [j \in DOMAIN seats_seats |->
        IF j \in ending THEN [seats_seats[j] EXCEPT !.until = seats_death] ELSE seats_seats[j]]
  <2>1. seats_seats' = [seats_seats EXCEPT ![i].until = seats_death]
    BY DEF Seats!Bury
  <2>2. seats_seats = [j \in DOMAIN seats_seats |-> seats_seats[j]]
    BY DEF SeatsTyped
  <2> HIDE DEF i
  <2> QED
    BY <2>1, <2>2
<1>2. seats_death \in Nat
  BY DEF SeatsTyped, SeatsFigures
<1>3. seats_death # 0 => \A j \in DOMAIN seats_seats : j \in ending => Seats!Open(seats_seats[j]) \/ seats_death # 0
  OBVIOUS
<1>4. seats_lowered' = seats_lowered
  BY DEF Seats!Bury
<1> HIDE DEF ending
<1> QED
  BY <1>1, <1>2, <1>3, <1>4, EndGentle

-----------------------------------------------------------------------------
(* The types *)

LEMMA TypedInit == ASSUME SeatsFigures, Seats!Init PROVE SeatsTyped
  BY DEF SeatsFigures, Seats!Init, SeatsTyped, Seats!NoClaim, Seats!Source, Seats!Hand, HandJob, Seats!Idle

\* A hand at a known job.
LEMMA Handed ==
  ASSUME SeatsTyped, NEW w \in Seats!Hand, NEW c \in HandJob, Seats!Do(w, c)
  PROVE  seats_call' \in [Seats!Hand -> HandJob]
  BY DEF SeatsTyped, Seats!Do

LEMMA CallTyped ==
  ASSUME SeatsTyped, SeatsFigures, NEW w \in Seats!Hand, Seats!Call(w)
  PROVE  seats_calls' \in 0 .. SeatsCalls
  BY DEF SeatsTyped, SeatsFigures, Seats!Call

LEMMA ClaimsTyped ==
  ASSUME SeatsTyped, NEW w \in Seats!Source, NEW s \in Nat, NEW u \in Nat, Seats!RecordClaim(w, s, u)
  PROVE  seats_claims' \in [Seats!Source -> [since : Nat, until : Nat, made : BOOLEAN]]
<1> DEFINE Rec == [since : Nat, until : Nat, made : BOOLEAN]
<1>1. seats_claims[w] \in Rec
  BY DEF SeatsTyped
<1>2. Seats!Restated(seats_claims[w], s, u) \in Rec
  <2> DEFINE k == IF u = 0 /\ seats_claims[w].until # 0 /\ (s = 0 \/ s = seats_claims[w].since) THEN seats_claims[w].until ELSE u
  <2>1. k \in Nat
    BY <1>1
  <2>2. Seats!Restated(seats_claims[w], s, u) = [since |-> s, made |-> TRUE, until |-> k]
    BY DEF Seats!Restated
  <2> HIDE DEF k
  <2> QED
    BY <2>1, <2>2
<1>3. seats_claims' = [seats_claims EXCEPT ![w] = Seats!Restated(seats_claims[w], s, u)]
  BY DEF Seats!RecordClaim
<1>4. seats_claims \in [Seats!Source -> Rec]
  BY DEF SeatsTyped
<1> HIDE DEF Rec
<1>5. seats_claims' \in [Seats!Source -> Rec]
  BY <1>2, <1>3, <1>4
<1> QED
  BY <1>5 DEF Rec

\* A set of numbers that is not empty has a least one.
LEMMA Least ==
  ASSUME NEW D \in SUBSET Nat, D # {}
  PROVE  \E n \in D : \A m \in D : n <= m
<1> DEFINE R == {ss \in Nat \X Nat : ss[1] < ss[2]}
<1>1. IsWellFoundedOn(R, Nat)
  BY NatLessThanWellFounded DEF OpToRel
<1>2. \A n, m \in Nat : n < m => <<n, m>> \in R
  OBVIOUS
<1> HIDE DEF R
<1>3. PICK n \in D : \A m \in D : ~(<<m, n>> \in R)
  BY <1>1, WFMin
<1>4. ASSUME NEW m \in D PROVE n <= m
  <2>1. m \in Nat /\ n \in Nat /\ ~(<<m, n>> \in R)
    BY <1>3
  <2>2. ~(m < n)
    BY <1>2, <2>1
  <2> QED
    BY <2>1, <2>2
<1> QED
  BY <1>3, <1>4

\* The seat an assertion is about is one of the seats, or there is none.
LEMMA SameSeatIsASeat ==
  ASSUME SeatsTyped, NEW since \in Nat, NEW until \in Nat
  PROVE  Seats!SameSeat(since, until) = 0 \/ Seats!SameSeat(since, until) \in DOMAIN seats_seats
<1> DEFINE fits == {i \in DOMAIN seats_seats : since = 0 \/ Seats!PeriodsOverlap(seats_seats[i], [since |-> since, until |-> until])}
           Before(i, j) == \/ Seats!Open(seats_seats[i]) /\ ~Seats!Open(seats_seats[j])
                           \/ Seats!Open(seats_seats[i]) = Seats!Open(seats_seats[j]) /\ seats_seats[i].since < seats_seats[j].since
                           \/ Seats!Open(seats_seats[i]) = Seats!Open(seats_seats[j]) /\ seats_seats[i].since = seats_seats[j].since /\ i <= j
           opens == {i \in fits : Seats!Open(seats_seats[i])}
           lead == IF opens # {} THEN opens ELSE fits
           starts == {seats_seats[i].since : i \in lead}
<1>1. Seats!SameSeat(since, until) = IF fits = {} THEN 0 ELSE CHOOSE i \in fits : \A j \in fits : Before(i, j)
  BY DEF Seats!SameSeat
<1>2. DOMAIN seats_seats \subseteq Nat /\ \A i \in DOMAIN seats_seats : seats_seats[i].since \in Nat
  <2>1. seats_seats \in Seq(SeatRec)
    BY DEF SeatsTyped
  <2>2. DOMAIN seats_seats = 1 .. Len(seats_seats) /\ Len(seats_seats) \in Nat /\ \A i \in DOMAIN seats_seats : seats_seats[i] \in SeatRec
    BY <2>1
  <2>3. DOMAIN seats_seats \subseteq Nat
    BY <2>2
  <2>4. \A i \in DOMAIN seats_seats : seats_seats[i].since \in Nat
    BY <2>2, SinceSet
  <2> QED
    BY <2>3, <2>4
<1>3. ASSUME fits # {} PROVE \E i \in fits : \A j \in fits : Before(i, j)
  <2>1. lead # {} /\ lead \subseteq fits /\ fits \subseteq DOMAIN seats_seats
    BY <1>3
  <2>2. starts \in SUBSET Nat /\ starts # {}
    BY <1>2, <2>1
  <2>3. PICK n \in starts : \A m \in starts : n <= m
    <3> HIDE DEF starts
    <3> QED BY <2>2, Least
  <2> DEFINE first == {i \in lead : seats_seats[i].since = n}
  <2>4. first \in SUBSET Nat /\ first # {}
    BY <1>2, <2>1, <2>3
  <2>5. PICK i \in first : \A j \in first : i <= j
    <3> HIDE DEF first
    <3> QED BY <2>4, Least
  <2>6. i \in fits
    BY <2>1, <2>5
  <2>7. ASSUME NEW j \in fits PROVE Before(i, j)
    <3>1. CASE j \in lead
      <4>1. Seats!Open(seats_seats[i]) = Seats!Open(seats_seats[j])
        BY <2>5, <3>1 DEF Seats!Open
      <4>2. n = seats_seats[i].since /\ n <= seats_seats[j].since
        BY <2>3, <2>5, <3>1
      <4>3. seats_seats[j].since = n => i <= j
        BY <2>5, <3>1
      <4>4. seats_seats[j].since \in Nat /\ n \in Nat
        BY <1>2, <2>1, <2>6, <4>2
      <4> QED
        BY <4>1, <4>2, <4>3, <4>4
    <3>2. CASE j \notin lead
      <4>1. opens # {} /\ ~Seats!Open(seats_seats[j]) /\ Seats!Open(seats_seats[i])
        BY <2>5, <3>2
      <4> QED
        BY <4>1
    <3> QED
      BY <3>1, <3>2
  <2> QED
    BY <2>6, <2>7
<1>4. fits \subseteq DOMAIN seats_seats
  OBVIOUS
<1> HIDE DEF fits, Before
<1> QED
  BY <1>1, <1>3, <1>4

\* The steps that write no seat but by a gentle statement keep the types.
LEMMA RestTyped ==
  ASSUME SeatsTyped, Gentle \/ seats_seats' = seats_seats, seats_call' \in [Seats!Hand -> HandJob],
         seats_claims' \in [Seats!Source -> [since : Nat, until : Nat, made : BOOLEAN]],
         seats_death' \in SeatsDeaths \cup {0}, seats_calls' \in 0 .. SeatsCalls
  PROVE  SeatsTyped'
  BY DEF SeatsTyped, Gentle

LEMMA IdleJob == Seats!Idle \in HandJob /\ [at |-> "mourn"] \in HandJob
  BY DEF HandJob

LEMMA StateSeatTyped ==
  ASSUME SeatsTyped, SeatsFigures, NEW w \in Seats!Source, Seats!StateSeat(w)
  PROVE  SeatsTyped'
<1>1. PICK a \in SeatsStated :
        /\ a.by = w
        /\ Seats!RecordClaim(w, a.since, a.until)
        /\ LET i == Seats!SameSeat(IF w = "sec" /\ a.since = 0 THEN a.filed ELSE a.since, a.until) IN
           Seats!Do(w, [at |-> "write", since |-> a.since, until |-> a.until,
                  hit |-> IF i = 0 THEN {} ELSE {seats_seats[i]}])
  BY DEF Seats!StateSeat
<1>2. a.since \in Nat /\ a.until \in Nat /\ a.filed \in Nat
  BY DEF SeatsFigures
<1> DEFINE s == IF w = "sec" /\ a.since = 0 THEN a.filed ELSE a.since
           i == Seats!SameSeat(s, a.until)
           hit == IF i = 0 THEN {} ELSE {seats_seats[i]}
<1>3. s \in Nat
  BY <1>2
<1>4. hit \subseteq SeatRec
  <2> HIDE DEF s
  <2>1. i = 0 \/ i \in DOMAIN seats_seats
    BY <1>2, <1>3, SameSeatIsASeat
  <2> QED
    BY <2>1 DEF SeatsTyped
<1> HIDE DEF hit
<1>5. [at |-> "write", since |-> a.since, until |-> a.until, hit |-> hit] \in HandJob
  BY <1>2, <1>4 DEF HandJob, Working
<1>6. Seats!Do(w, [at |-> "write", since |-> a.since, until |-> a.until, hit |-> hit])
  BY <1>1 DEF hit
<1>7. w \in Seats!Hand
  BY DEF Seats!Source, Seats!Hand
<1>8. seats_call' \in [Seats!Hand -> HandJob]
  BY <1>5, <1>6, <1>7, Handed
<1>9. seats_claims' \in [Seats!Source -> [since : Nat, until : Nat, made : BOOLEAN]]
  BY <1>1, <1>2, ClaimsTyped
<1>10. Seats!Call(w) /\ seats_seats' = seats_seats /\ seats_death' = seats_death
  BY DEF Seats!StateSeat
<1>11. seats_calls' \in 0 .. SeatsCalls
  BY <1>7, <1>10, CallTyped
<1>12. seats_death' \in SeatsDeaths \cup {0}
  BY <1>10 DEF SeatsTyped
<1> QED
  BY <1>8, <1>9, <1>10, <1>11, <1>12, RestTyped

LEMMA CreateTyped ==
  ASSUME SeatsTyped, NEW w \in Seats!Source, Seats!Create(w)
  PROVE  SeatsTyped'
<1>1. w \in Seats!Hand /\ seats_call[w] \in HandJob /\ seats_call[w].at = "write"
  BY DEF Seats!Create, Seats!At, SeatsTyped, Seats!Source, Seats!Hand
<1>2. seats_call[w].since \in Nat /\ seats_call[w].until \in Nat
  BY <1>1, Worked
<1>3. Seats!Label(w) \in Labels /\ Seats!Cred(w) \in {80, 98}
  BY DEF Seats!Label, Seats!Cred, Labels
<1> DEFINE new == [label |-> Seats!Label(w), since |-> seats_call[w].since, until |-> seats_call[w].until, cred |-> Seats!Cred(w)]
<1>4. new \in SeatRec
  BY <1>2, <1>3 DEF SeatRec
<1>5. seats_seats \in Seq(SeatRec) /\ seats_seats' = Append(seats_seats, new)
  BY DEF SeatsTyped, Seats!Create
<1> HIDE DEF new
<1>6. seats_seats' \in Seq(SeatRec)
  BY <1>4, <1>5
<1>7. seats_call' \in [Seats!Hand -> HandJob]
  <2>1. Seats!Do(w, [at |-> "mourn"]) \/ Seats!Do(w, Seats!Idle)
    BY DEF Seats!Create, Seats!Return
  <2>2. CASE Seats!Do(w, [at |-> "mourn"])
    BY <1>1, <2>2, IdleJob, Handed
  <2>3. CASE Seats!Do(w, Seats!Idle)
    BY <1>1, <2>3, IdleJob, Handed
  <2> QED
    BY <2>1, <2>2, <2>3
<1>8. seats_claims' = seats_claims /\ seats_death' = seats_death /\ seats_calls' = seats_calls
  BY DEF Seats!Create
<1> QED
  BY <1>6, <1>7, <1>8 DEF SeatsTyped

LEMMA RefreshEndedTyped == ASSUME SeatsTyped, Seats!RefreshEnded PROVE SeatsTyped'
<1>1. Gentle
  BY RefreshEndedGentle
<1>2. "sec" \in Seats!Hand /\ Seats!Do("sec", Seats!Idle)
  BY DEF Seats!RefreshEnded, Seats!Return, Seats!Hand
<1>3. seats_call' \in [Seats!Hand -> HandJob]
  BY <1>2, IdleJob, Handed
<1>4. seats_claims' = seats_claims /\ seats_death' = seats_death /\ seats_calls' = seats_calls
  BY DEF Seats!RefreshEnded
<1> QED
  BY <1>1, <1>3, <1>4 DEF SeatsTyped, Gentle

LEMMA RefreshOpenTyped == ASSUME SeatsTyped, Seats!RefreshOpen PROVE SeatsTyped'
<1>1. Gentle
  BY RefreshOpenGentle
<1> DEFINE next == [seats_call["sec"] EXCEPT !.at = "relabel"]
<1>2. "sec" \in Seats!Hand /\ Seats!Do("sec", next) /\ seats_call["sec"] \in HandJob /\ seats_call["sec"].at = "write"
  BY DEF Seats!RefreshOpen, Seats!Hand, SeatsTyped, Seats!At
<1>3. next \in HandJob
  BY <1>2, Worked
<1> HIDE DEF next
<1>4. seats_call' \in [Seats!Hand -> HandJob]
  BY <1>2, <1>3, Handed
<1>5. seats_claims' = seats_claims /\ seats_death' = seats_death /\ seats_calls' = seats_calls
  BY DEF Seats!RefreshOpen
<1> QED
  BY <1>1, <1>4, <1>5 DEF SeatsTyped, Gentle

LEMMA RefreshSeatTyped == ASSUME SeatsTyped, Seats!RefreshSeat PROVE SeatsTyped'
<1>1. Gentle
  BY RefreshSeatGentle
<1>2. "wikidata" \in Seats!Hand /\ seats_call["wikidata"] \in HandJob /\ seats_call["wikidata"].at = "write"
  BY DEF Seats!RefreshSeat, Seats!Hand, SeatsTyped, Seats!At
<1>3. \E p \in {"end", "relabel"} : Seats!Do("wikidata", [seats_call["wikidata"] EXCEPT !.at = p])
  BY DEF Seats!RefreshSeat
<1>4. PICK p \in {"end", "relabel"} : Seats!Do("wikidata", [seats_call["wikidata"] EXCEPT !.at = p])
  BY <1>3
<1> DEFINE next == [seats_call["wikidata"] EXCEPT !.at = p]
<1>5. next \in HandJob
  BY <1>2, <1>4, Worked
<1>6. Seats!Do("wikidata", next)
  BY <1>4
<1> HIDE DEF next
<1>7. seats_call' \in [Seats!Hand -> HandJob]
  BY <1>2, <1>5, <1>6, Handed
<1>8. seats_claims' = seats_claims /\ seats_death' = seats_death /\ seats_calls' = seats_calls
  BY DEF Seats!RefreshSeat
<1> QED
  BY <1>1, <1>7, <1>8 DEF SeatsTyped, Gentle

LEMMA EndSeatTyped == ASSUME SeatsTyped, Seats!EndSeat PROVE SeatsTyped'
<1>1. Gentle
  BY EndSeatGentle
<1> DEFINE next == [seats_call["wikidata"] EXCEPT !.at = "relabel"]
<1>2. /\ "wikidata" \in Seats!Hand /\ Seats!Do("wikidata", next)
      /\ seats_call["wikidata"] \in HandJob /\ seats_call["wikidata"].at = "end"
  BY DEF Seats!EndSeat, Seats!Hand, SeatsTyped, Seats!At
<1>3. next \in HandJob
  BY <1>2, Worked
<1> HIDE DEF next
<1>4. seats_call' \in [Seats!Hand -> HandJob]
  BY <1>2, <1>3, Handed
<1>5. seats_claims' = seats_claims /\ seats_death' = seats_death /\ seats_calls' = seats_calls
  BY DEF Seats!EndSeat
<1> QED
  BY <1>1, <1>4, <1>5 DEF SeatsTyped, Gentle

LEMMA RelabelTyped == ASSUME SeatsTyped, NEW w \in Seats!Source, Seats!Relabel(w) PROVE SeatsTyped'
<1>1. Gentle
  BY RelabelGentle
<1>2. w \in Seats!Hand /\ Seats!Do(w, Seats!Idle)
  BY DEF Seats!Relabel, Seats!Return, Seats!Hand, Seats!Source
<1>3. seats_call' \in [Seats!Hand -> HandJob]
  BY <1>2, IdleJob, Handed
<1>4. seats_claims' = seats_claims /\ seats_death' = seats_death /\ seats_calls' = seats_calls
  BY DEF Seats!Relabel
<1> QED
  BY <1>1, <1>3, <1>4 DEF SeatsTyped, Gentle

LEMMA DepartTyped == ASSUME SeatsTyped, SeatsFigures, Seats!Depart PROVE SeatsTyped'
<1>1. PICK a \in SeatsStated :
        /\ a.by = "departure"
        /\ LET labels == {seats_seats[i].label : i \in {j \in DOMAIN seats_seats : Seats!EndsBy(seats_seats[j], a.until)}}
           IN Seats!Do("sec", IF labels = {} THEN Seats!Idle ELSE [at |-> "close", until |-> a.until, labels |-> labels])
  BY DEF Seats!Depart
<1> DEFINE labels == {seats_seats[i].label : i \in {j \in DOMAIN seats_seats : Seats!EndsBy(seats_seats[j], a.until)}}
<1>2. a.until \in Nat
  BY DEF SeatsFigures
<1>3. labels \subseteq Labels
  <2>1. \A i \in DOMAIN seats_seats : seats_seats[i] \in SeatRec
    BY DEF SeatsTyped
  <2> QED
    BY <2>1, SinceSet
<1>4. Seats!Do("sec", IF labels = {} THEN Seats!Idle ELSE [at |-> "close", until |-> a.until, labels |-> labels])
  BY <1>1
<1> HIDE DEF labels
<1> DEFINE next == IF labels = {} THEN Seats!Idle ELSE [at |-> "close", until |-> a.until, labels |-> labels]
<1>5. next \in HandJob
  BY <1>2, <1>3 DEF HandJob, Closing
<1>6. Seats!Do("sec", next)
  BY <1>4
<1> HIDE DEF next
<1>7. "sec" \in Seats!Hand /\ Seats!Call("sec") /\ seats_seats' = seats_seats /\ seats_claims' = seats_claims /\ seats_death' = seats_death
  BY DEF Seats!Depart, Seats!Hand
<1>8. seats_call' \in [Seats!Hand -> HandJob]
  BY <1>5, <1>6, <1>7, Handed
<1>9. seats_calls' \in 0 .. SeatsCalls
  BY <1>7, CallTyped
<1> QED
  BY <1>7, <1>8, <1>9 DEF SeatsTyped

LEMMA CloseRoleTyped == ASSUME SeatsTyped, Seats!CloseRole PROVE SeatsTyped'
<1>1. Gentle
  BY CloseRoleGentle
<1>2. seats_call["sec"] \in HandJob /\ seats_call["sec"].at = "close" /\ "sec" \in Seats!Hand
  BY DEF Seats!CloseRole, Seats!Hand, SeatsTyped, Seats!At
<1>3. seats_call["sec"] \in Closing
  BY <1>2 DEF HandJob, Seats!Idle, Working, Burying
<1>4. PICK label \in seats_call["sec"].labels :
        IF seats_call["sec"].labels = {label}
        THEN /\ Seats!Do("sec", Seats!Idle)
             /\ seats_claims' = [seats_claims EXCEPT !["sec"] = [@ EXCEPT !.until = seats_call["sec"].until, !.made = TRUE]]
        ELSE /\ Seats!Do("sec", [seats_call["sec"] EXCEPT !.labels = @ \ {label}])
             /\ seats_claims' = seats_claims
  BY DEF Seats!CloseRole, Seats!Return
<1> DEFINE next == [seats_call["sec"] EXCEPT !.labels = @ \ {label}]
           Rec == [since : Nat, until : Nat, made : BOOLEAN]
<1>5. next \in HandJob
  BY <1>3 DEF HandJob, Closing
<1>6. seats_call' \in [Seats!Hand -> HandJob]
  <2>1. CASE Seats!Do("sec", Seats!Idle)
    BY <1>2, <2>1, IdleJob, Handed
  <2>2. CASE Seats!Do("sec", next)
    <3> HIDE DEF next
    <3> QED BY <1>2, <1>5, <2>2, Handed
  <2> QED
    BY <1>4, <2>1, <2>2
<1>7. seats_claims' \in [Seats!Source -> Rec]
  <2>1. seats_claims \in [Seats!Source -> Rec]
    BY DEF SeatsTyped
  <2> DEFINE endedClaim == [seats_claims["sec"] EXCEPT !.until = seats_call["sec"].until, !.made = TRUE]
  <2>2. endedClaim \in Rec
    <3>1. seats_claims["sec"] \in Rec /\ seats_call["sec"].until \in Nat
      BY <1>3, <2>1 DEF Seats!Source, Closing
    <3> DEFINE t == TRUE  u == seats_call["sec"].until
    <3>2. t \in BOOLEAN
      OBVIOUS
    <3>3. endedClaim = [seats_claims["sec"] EXCEPT !.until = u, !.made = t]
      OBVIOUS
    <3> HIDE DEF t, u, endedClaim
    <3> QED
      BY <3>1, <3>2, <3>3 DEF u
  <2>3. seats_claims' = seats_claims \/ seats_claims' = [seats_claims EXCEPT !["sec"] = endedClaim]
    BY <1>4
  <2> HIDE DEF endedClaim, Rec
  <2> QED
    BY <2>1, <2>2, <2>3
<1>8. seats_death' = seats_death /\ seats_calls' = seats_calls
  BY DEF Seats!CloseRole
<1> QED
  BY <1>1, <1>6, <1>7, <1>8 DEF SeatsTyped, Gentle

LEMMA DieTyped ==
  ASSUME SeatsTyped, SeatsFigures, NEW d \in SeatsDeaths, Seats!Die(d)
  PROVE  SeatsTyped'
<1>1. "person" \in Seats!Hand /\ Seats!Call("person") /\ Seats!Do("person", [at |-> "mourn"])
  BY DEF Seats!Die, Seats!Hand
<1>2. seats_call' \in [Seats!Hand -> HandJob]
  BY <1>1, IdleJob, Handed
<1>3. seats_calls' \in 0 .. SeatsCalls
  BY <1>1, CallTyped
<1>4. seats_seats' = seats_seats /\ seats_claims' = seats_claims /\ seats_death' \in SeatsDeaths \cup {0}
  BY DEF Seats!Die, SeatsTyped
<1> QED
  BY <1>2, <1>3, <1>4 DEF SeatsTyped

LEMMA MournTyped == ASSUME SeatsTyped, NEW w \in Seats!Hand, Seats!Mourn(w) PROVE SeatsTyped'
<1> DEFINE ended == {i \in DOMAIN seats_seats : seats_death # 0 /\ Seats!EndsBy(seats_seats[i], seats_death)}
           next == IF ended = {} THEN Seats!Idle ELSE [at |-> "bury", ended |-> ended]
<1>1. DOMAIN seats_seats \subseteq Nat
  <2>1. seats_seats \in Seq(SeatRec)
    BY DEF SeatsTyped
  <2> QED
    BY <2>1
<1>2. ended \subseteq Nat
  BY <1>1
<1>3. Seats!Do(w, next)
  BY DEF Seats!Mourn
<1>4. next \in HandJob
  <2> HIDE DEF ended
  <2> QED
    BY <1>2 DEF HandJob, Burying
<1> HIDE DEF next
<1>5. seats_call' \in [Seats!Hand -> HandJob]
  BY <1>3, <1>4, Handed
<1>6. seats_seats' = seats_seats /\ seats_claims' = seats_claims /\ seats_death' = seats_death /\ seats_calls' = seats_calls
  BY DEF Seats!Mourn
<1> QED
  BY <1>5, <1>6 DEF SeatsTyped

LEMMA BuryTyped == ASSUME SeatsTyped, SeatsFigures, NEW w \in Seats!Hand, Seats!Bury(w) PROVE SeatsTyped'
<1>1. Gentle
  BY BuryGentle
<1>2. seats_call[w] \in HandJob /\ seats_call[w].at = "bury"
  BY DEF Seats!Bury, SeatsTyped, Seats!At
<1>3. seats_call[w] \in Burying
  BY <1>2 DEF HandJob, Seats!Idle, Working, Closing
<1> DEFINE i == CHOOSE j \in seats_call[w].ended : \A k \in seats_call[w].ended : j <= k
           rest == seats_call[w].ended \ {i}
           next == [seats_call[w] EXCEPT !.ended = rest]
<1>4. Seats!Do(w, Seats!Idle) \/ Seats!Do(w, next)
  BY DEF Seats!Bury
<1> HIDE DEF i
<1>5. next \in HandJob
  BY <1>3 DEF HandJob, Burying
<1>6. seats_call' \in [Seats!Hand -> HandJob]
  <2> HIDE DEF next
  <2>1. CASE Seats!Do(w, Seats!Idle)
    BY <2>1, IdleJob, Handed
  <2>2. CASE Seats!Do(w, next)
    BY <1>5, <2>2, Handed
  <2> QED
    BY <1>4, <2>1, <2>2
<1>7. seats_claims' = seats_claims /\ seats_death' = seats_death /\ seats_calls' = seats_calls
  BY DEF Seats!Bury
<1> QED
  BY <1>1, <1>6, <1>7 DEF SeatsTyped, Gentle

-----------------------------------------------------------------------------
(* Who has the seats of the dead to end *)

\* A gentle step of a hand that is not at the death rule.
LEMMA MournedKept ==
  ASSUME Mourned, Gentle, seats_death' = seats_death,
         NEW w \in Seats!Hand, seats_call[w].at \notin {"mourn", "bury"},
         \A v \in Seats!Hand \ {w} : seats_call'[v] = seats_call[v]
  PROVE  Mourned'
<1> SUFFICES ASSUME seats_death # 0, ~seats_lowered', NEW i \in DOMAIN seats_seats, Seats!EndsBy(seats_seats'[i], seats_death)
             PROVE  Minded(i)'
  BY DEF Mourned, Gentle
<1>1. Seats!EndsBy(seats_seats[i], seats_death) /\ ~seats_lowered
  BY DEF Gentle
<1>2. Minded(i)
  BY <1>1 DEF Mourned
<1> QED
  BY <1>2 DEF Minded

LEMMA OtherHands ==
  ASSUME SeatsTyped, NEW w \in Seats!Hand, NEW c, Seats!Do(w, c)
  PROVE  seats_call'[w] = c /\ \A v \in Seats!Hand \ {w} : seats_call'[v] = seats_call[v]
  BY DEF SeatsTyped, Seats!Do

\* One call that moves to another job, or none.
LEMMA SourcesMourn ==
  ASSUME SeatsTyped, Mourned,
         \/ \E w \in Seats!Source : Seats!StateSeat(w) \/ Seats!Relabel(w)
         \/ Seats!RefreshEnded \/ Seats!RefreshOpen \/ Seats!RefreshSeat \/ Seats!EndSeat \/ Seats!Depart \/ Seats!CloseRole
  PROVE  Mourned'
<1>1. Seats!Source \subseteq Seats!Hand /\ "sec" \in Seats!Hand /\ "wikidata" \in Seats!Hand
  BY DEF Seats!Source, Seats!Hand
<1>2. ASSUME seats_seats' = seats_seats, seats_lowered' = seats_lowered PROVE Gentle
  BY <1>2 DEF Gentle, SeatsTyped
<1>3. ASSUME NEW w \in Seats!Hand, seats_call[w].at \notin {"mourn", "bury"}, NEW c, Seats!Do(w, c), Gentle, seats_death' = seats_death
      PROVE  Mourned'
  <2>1. \A v \in Seats!Hand \ {w} : seats_call'[v] = seats_call[v]
    BY <1>3, OtherHands
  <2> QED
    BY <1>3, <2>1, MournedKept
<1>4. ASSUME NEW w \in Seats!Source, Seats!StateSeat(w) PROVE Mourned'
  <2>1. Gentle
    BY <1>2, <1>4 DEF Seats!StateSeat
  <2>2. seats_call[w].at \notin {"mourn", "bury"} /\ seats_death' = seats_death /\ \E c : Seats!Do(w, c)
    BY <1>4 DEF Seats!StateSeat, Seats!Call, Seats!At
  <2> QED
    BY <1>1, <1>3, <2>1, <2>2
<1>5. ASSUME NEW w \in Seats!Source, Seats!Relabel(w) PROVE Mourned'
  <2>1. Gentle
    BY <1>5, RelabelGentle
  <2>2. seats_call[w].at \notin {"mourn", "bury"} /\ seats_death' = seats_death /\ \E c : Seats!Do(w, c)
    BY <1>5 DEF Seats!Relabel, Seats!At, Seats!Return
  <2> QED
    BY <1>1, <1>3, <2>1, <2>2
<1>6. CASE Seats!RefreshEnded
  <2>1. seats_call["sec"].at \notin {"mourn", "bury"} /\ seats_death' = seats_death /\ \E c : Seats!Do("sec", c)
    BY <1>6 DEF Seats!RefreshEnded, Seats!At, Seats!Return
  <2> QED
    BY <1>1, <1>3, <1>6, <2>1, RefreshEndedGentle
<1>7. CASE Seats!RefreshOpen
  <2>1. seats_call["sec"].at \notin {"mourn", "bury"} /\ seats_death' = seats_death /\ \E c : Seats!Do("sec", c)
    BY <1>7 DEF Seats!RefreshOpen, Seats!At
  <2> QED
    BY <1>1, <1>3, <1>7, <2>1, RefreshOpenGentle
<1>8. CASE Seats!RefreshSeat
  <2>1. seats_call["wikidata"].at \notin {"mourn", "bury"} /\ seats_death' = seats_death /\ \E c : Seats!Do("wikidata", c)
    BY <1>8 DEF Seats!RefreshSeat, Seats!At
  <2> QED
    BY <1>1, <1>3, <1>8, <2>1, RefreshSeatGentle
<1>9. CASE Seats!EndSeat
  <2>1. seats_call["wikidata"].at \notin {"mourn", "bury"} /\ seats_death' = seats_death /\ \E c : Seats!Do("wikidata", c)
    BY <1>9 DEF Seats!EndSeat, Seats!At
  <2> QED
    BY <1>1, <1>3, <1>9, <2>1, EndSeatGentle
<1>10. CASE Seats!Depart
  <2>1. Gentle
    BY <1>2, <1>10 DEF Seats!Depart
  <2>2. seats_call["sec"].at \notin {"mourn", "bury"} /\ seats_death' = seats_death /\ \E c : Seats!Do("sec", c)
    BY <1>10 DEF Seats!Depart, Seats!Call, Seats!At
  <2> QED
    BY <1>1, <1>3, <2>1, <2>2
<1>11. CASE Seats!CloseRole
  <2>1. seats_call["sec"].at \notin {"mourn", "bury"} /\ seats_death' = seats_death /\ \E c : Seats!Do("sec", c)
    BY <1>11 DEF Seats!CloseRole, Seats!At, Seats!Return
  <2> QED
    BY <1>1, <1>3, <1>11, <2>1, CloseRoleGentle
<1> QED
  BY <1>4, <1>5, <1>6, <1>7, <1>8, <1>9, <1>10, <1>11

\* Whoever writes an open seat asks for the death after it.
LEMMA CreateMourns ==
  ASSUME SeatsTyped, Mourned, NEW w \in Seats!Source, Seats!Create(w)
  PROVE  Mourned'
<1> DEFINE new == [label |-> Seats!Label(w), since |-> seats_call[w].since, until |-> seats_call[w].until, cred |-> Seats!Cred(w)]
<1>1. /\ w \in Seats!Hand /\ seats_call[w].at = "write" /\ seats_seats \in Seq(SeatRec) /\ seats_seats' = Append(seats_seats, new)
      /\ seats_death' = seats_death /\ seats_lowered' = seats_lowered
  BY DEF Seats!Create, Seats!At, Seats!Source, Seats!Hand, SeatsTyped
<1>2. CASE seats_call[w].until = 0
  <2>1. Seats!Do(w, [at |-> "mourn"])
    BY <1>2 DEF Seats!Create
  <2>2. seats_call'[w] = [at |-> "mourn"]
    BY <1>1, <2>1, OtherHands
  <2> QED
    BY <1>1, <2>2 DEF Mourned, Minded
<1>3. CASE seats_call[w].until # 0
  <2>1. Seats!Do(w, Seats!Idle)
    BY <1>3 DEF Seats!Create, Seats!Return
  <2>2. \A v \in Seats!Hand \ {w} : seats_call'[v] = seats_call[v]
    BY <1>1, <2>1, OtherHands
  <2>3. ~Seats!Open(new)
    BY <1>3 DEF Seats!Open
  <2> HIDE DEF new
  <2> SUFFICES ASSUME seats_death # 0, ~seats_lowered, NEW i \in DOMAIN seats_seats', Seats!EndsBy(seats_seats'[i], seats_death)
               PROVE  Minded(i)'
    BY <1>1 DEF Mourned
  <2>4. i \in DOMAIN seats_seats /\ seats_seats'[i] = seats_seats[i]
    <3>1. DOMAIN seats_seats' = 1 .. Len(seats_seats) + 1 /\ DOMAIN seats_seats = 1 .. Len(seats_seats) /\ Len(seats_seats) \in Nat
      BY <1>1
    <3>2. seats_seats'[Len(seats_seats) + 1] = new
      BY <1>1
    <3>3. i # Len(seats_seats) + 1
      BY <2>3, <3>2 DEF Seats!EndsBy
    <3> QED
      BY <1>1, <3>1, <3>3
  <2>5. Minded(i)
    BY <2>4 DEF Mourned
  <2> QED
    BY <1>1, <2>2, <2>5 DEF Minded
<1> QED
  BY <1>2, <1>3

\* Whoever writes the death asks for the seats after it.
LEMMA DieMourns ==
  ASSUME SeatsTyped, NEW d \in SeatsDeaths, Seats!Die(d)
  PROVE  Mourned'
<1>1. "person" \in Seats!Hand /\ Seats!Do("person", [at |-> "mourn"])
  BY DEF Seats!Die, Seats!Hand
<1>2. seats_call'["person"] = [at |-> "mourn"]
  BY <1>1, OtherHands
<1> QED
  BY <1>1, <1>2 DEF Mourned, Minded

\* Who read the open seats has every one of them to end.
LEMMA MournMourns ==
  ASSUME SeatsTyped, Mourned, NEW w \in Seats!Hand, Seats!Mourn(w)
  PROVE  Mourned'
<1> DEFINE ended == {i \in DOMAIN seats_seats : seats_death # 0 /\ Seats!EndsBy(seats_seats[i], seats_death)}
           next == IF ended = {} THEN Seats!Idle ELSE [at |-> "bury", ended |-> ended]
<1>1. Seats!Do(w, next) /\ seats_seats' = seats_seats /\ seats_death' = seats_death /\ seats_lowered' = seats_lowered
  BY DEF Seats!Mourn
<1> HIDE DEF next
<1>2. seats_call'[w] = next
  BY <1>1, OtherHands
<1>3. ASSUME seats_death # 0, NEW i \in DOMAIN seats_seats, Seats!EndsBy(seats_seats[i], seats_death)
      PROVE  Minded(i)'
  <2>1. i \in ended
    BY <1>3
  <2>2. seats_call'[w] = [at |-> "bury", ended |-> ended]
    BY <1>2, <2>1 DEF next
  <2> HIDE DEF ended
  <2> QED
    BY <2>1, <2>2 DEF Minded
<1> QED
  BY <1>1, <1>3 DEF Mourned

\* The seat it takes off its list is the one it has ended.
LEMMA BuryMourns ==
  ASSUME SeatsTyped, SeatsFigures, Mourned, NEW w \in Seats!Hand, Seats!Bury(w)
  PROVE  Mourned'
<1>1. Gentle
  BY BuryGentle
<1> DEFINE i == CHOOSE j \in seats_call[w].ended : \A k \in seats_call[w].ended : j <= k
           rest == seats_call[w].ended \ {i}
<1>2. /\ seats_seats' = [seats_seats EXCEPT ![i].until = seats_death]
      /\ Seats!Do(w, IF seats_call[w].ended = {i} THEN Seats!Idle ELSE [seats_call[w] EXCEPT !.ended = rest])
      /\ seats_death' = seats_death /\ seats_lowered' = seats_lowered
  BY DEF Seats!Bury
<1>3. seats_call[w] \in Burying
  <2>1. seats_call[w] \in HandJob /\ seats_call[w].at = "bury"
    BY DEF Seats!Bury, SeatsTyped, Seats!At
  <2> QED
    BY <2>1 DEF HandJob, Seats!Idle, Working, Closing
<1> HIDE DEF i
<1> SUFFICES ASSUME seats_death # 0, ~seats_lowered, NEW j \in DOMAIN seats_seats, Seats!EndsBy(seats_seats'[j], seats_death)
             PROVE  Minded(j)'
  BY <1>1, <1>2 DEF Mourned, Gentle
<1>4. Seats!EndsBy(seats_seats[j], seats_death)
  BY <1>1, <1>2 DEF Gentle
<1>5. j # i
  <2>1. ASSUME j = i PROVE seats_seats'[j].until = seats_death
    <3>1. seats_seats[j] \in SeatRec
      BY DEF SeatsTyped
    <3>2. seats_seats'[j] = [seats_seats[j] EXCEPT !.until = seats_death]
      BY <1>2, <2>1
    <3> QED
      BY <3>1, <3>2 DEF SeatRec
  <2> QED
    BY <2>1 DEF Seats!EndsBy, Seats!Open
<1>6. PICK v \in Seats!Hand : seats_call[v].at = "mourn" \/ (seats_call[v].at = "bury" /\ j \in seats_call[v].ended)
  BY <1>4 DEF Mourned, Minded
<1>7. CASE v # w
  <2>1. seats_call'[v] = seats_call[v]
    BY <1>2, <1>7, OtherHands
  <2> QED
    BY <1>6, <2>1 DEF Minded
<1>8. CASE v = w
  <2>1. seats_call[w].at = "bury" /\ j \in seats_call[w].ended
    BY <1>3, <1>6, <1>8 DEF Burying
  <2>2. j \in rest /\ seats_call[w].ended # {i}
    BY <1>5, <2>1
  <2> DEFINE next == [seats_call[w] EXCEPT !.ended = rest]
  <2>3. Seats!Do(w, next)
    BY <1>2, <2>2
  <2>4. next.at = "bury" /\ next.ended = rest
    BY <1>3, <2>1 DEF Burying
  <2> HIDE DEF next, rest
  <2>5. seats_call'[w] = next
    BY <2>3, OtherHands
  <2> QED
    BY <2>2, <2>4, <2>5 DEF Minded
<1> QED
  BY <1>7, <1>8

-----------------------------------------------------------------------------
(* The theorems *)

LEMMA NextTyped ==
  ASSUME SeatsFigures, SeatsTyped, Seats!Next
  PROVE  SeatsTyped'
<1>1. ASSUME NEW w \in Seats!Source, Seats!StateSeat(w) PROVE SeatsTyped'
  BY <1>1, StateSeatTyped
<1>2. ASSUME NEW w \in Seats!Source, Seats!Create(w) PROVE SeatsTyped'
  BY <1>2, CreateTyped
<1>3. ASSUME NEW w \in Seats!Source, Seats!Relabel(w) PROVE SeatsTyped'
  BY <1>3, RelabelTyped
<1>4. ASSUME NEW d \in SeatsDeaths, Seats!Die(d) PROVE SeatsTyped'
  BY <1>4, DieTyped
<1>5. ASSUME NEW w \in Seats!Hand, Seats!Mourn(w) PROVE SeatsTyped'
  BY <1>5, MournTyped
<1>6. ASSUME NEW w \in Seats!Hand, Seats!Bury(w) PROVE SeatsTyped'
  BY <1>6, BuryTyped
<1>7. CASE Seats!RefreshEnded BY <1>7, RefreshEndedTyped
<1>8. CASE Seats!RefreshOpen BY <1>8, RefreshOpenTyped
<1>9. CASE Seats!RefreshSeat BY <1>9, RefreshSeatTyped
<1>10. CASE Seats!EndSeat BY <1>10, EndSeatTyped
<1>11. CASE Seats!Depart BY <1>11, DepartTyped
<1>12. CASE Seats!CloseRole BY <1>12, CloseRoleTyped
<1> QED
  BY <1>1, <1>2, <1>3, <1>4, <1>5, <1>6, <1>7, <1>8, <1>9, <1>10, <1>11, <1>12 DEF Seats!Next

LEMMA NextMourns ==
  ASSUME SeatsFigures, SeatsTyped, Mourned, Seats!Next
  PROVE  Mourned'
<1>1. ASSUME NEW w \in Seats!Source, Seats!Create(w) PROVE Mourned'
  BY <1>1, CreateMourns
<1>2. ASSUME NEW d \in SeatsDeaths, Seats!Die(d) PROVE Mourned'
  BY <1>2, DieMourns
<1>3. ASSUME NEW w \in Seats!Hand, Seats!Mourn(w) PROVE Mourned'
  BY <1>3, MournMourns
<1>4. ASSUME NEW w \in Seats!Hand, Seats!Bury(w) PROVE Mourned'
  BY <1>4, BuryMourns
<1> QED
  BY <1>1, <1>2, <1>3, <1>4, SourcesMourn DEF Seats!Next

LEMMA StutterMourns ==
  ASSUME SeatsInv, UNCHANGED Seats!vars
  PROVE  SeatsInv'
<1>1. /\ seats_seats' = seats_seats /\ seats_claims' = seats_claims /\ seats_death' = seats_death
      /\ seats_call' = seats_call /\ seats_calls' = seats_calls /\ seats_lowered' = seats_lowered
  BY DEF Seats!vars
<1>2. SeatsTyped'
  BY <1>1 DEF SeatsInv, SeatsTyped
<1>3. Mourned'
  BY <1>1 DEF SeatsInv, Mourned, Minded
<1> QED
  BY <1>2, <1>3 DEF SeatsInv

\* Of every seat that began by the death of its holder and is still open somebody at
\* the death rule has yet to end it, unless a later assertion moved its start.
THEOREM SeatsInvariance ==
  ASSUME SeatsFigures
  PROVE  Seats!Spec => []SeatsInv
<1>1. Seats!Init => SeatsInv
  BY TypedInit DEF SeatsInv, Seats!Init, Mourned
<1>2. SeatsInv /\ [Seats!Next]_(Seats!vars) => SeatsInv'
  BY NextTyped, NextMourns, StutterMourns DEF SeatsInv
<1> QED
  BY <1>1, <1>2, PTL DEF Seats!Spec

\* The dead hold no seat that began in their lifetime, once the writers of seats and
\* of deaths are through, however their statements met: for every stated seat, every
\* date of death and any number of calls.
THEOREM TheDeadHoldNoSeat ==
  ASSUME SeatsFigures
  PROVE  Seats!Spec => []DeadHoldNoSeat
<1>1. SeatsInv => DeadHoldNoSeat
  BY DEF SeatsInv, Mourned, Minded, DeadHoldNoSeat, Seats!DeadHoldNoSeat, Seats!Quiet, Seats!Idle
<1> QED
  BY <1>1, SeatsInvariance, PTL

\* The types of the seats, of the claims and of what each writer is doing.
THEOREM SeatsTypeCorrect ==
  ASSUME SeatsFigures
  PROVE  Seats!Spec => []Seats!SeatsTypeOK
<1>1. SeatsInv => Seats!SeatsTypeOK
  <2> SUFFICES ASSUME SeatsTyped PROVE Seats!SeatsTypeOK
    BY DEF SeatsInv
  <2>1. \A i \in DOMAIN seats_seats : seats_seats[i] \in SeatRec
    BY DEF SeatsTyped
  <2> QED
    BY <2>1 DEF SeatsTyped, Seats!SeatsTypeOK, SeatRec, Labels
<1> QED
  BY <1>1, SeatsInvariance, PTL

-----------------------------------------------------------------------------
(* GLEIF's two relationships of one pair *)

\* The shared edge with GLEIF as its only writer, and what is proved of it.
Shared == INSTANCE SharedEdgeProofs WITH
  Slot <- PairSlots, LastDay <- PairDays, Writer <- {"gleif"}, Says <- Recorded,
  MaxStatements <- PairStatements, MaxCrashes <- 0, Overlap <- FALSE, edge <- gleif_edge,
  job <- gleif_job, fold <- gleif_fold, redo <- gleif_redo, rr <- gleif_rr,
  given <- gleif_given, reopened <- gleif_reopened, made <- gleif_made,
  crashes <- gleif_crashes

\* What GLEIF's records say of a pair: which relationship, and its end when they retire it.
PairFigures ==
  /\ PairSlots \in SUBSET Nat /\ IsFiniteSet(PairSlots)
  /\ PairDays \in Nat /\ PairStatements \in Nat
  /\ PairRecords \subseteq Shared!Statement
  /\ \A st \in PairRecords : st.marker # "none" /\ (st.kind = "states" <=> st.until = 0)

LEMMA PairAssumptions ==
  ASSUME PairFigures
  PROVE  /\ Shared!SlotAssumption /\ Shared!DayAssumption /\ Shared!WriterAssumption
         /\ Shared!BoundAssumption /\ Shared!OverlapAssumption /\ Shared!StatementAssumption
         /\ Shared!RelationshipsOnly
<1>1. /\ Shared!SlotAssumption /\ Shared!DayAssumption
      /\ Shared!BoundAssumption /\ Shared!OverlapAssumption
  <2>1. Shared!SlotAssumption
    BY DEF PairFigures, Shared!SlotAssumption, IsFiniteSet, Shared!IsFiniteSet
  <2>2. Shared!DayAssumption
    BY DEF PairFigures, Shared!DayAssumption
  <2>3. Shared!BoundAssumption
    BY DEF PairFigures, Shared!BoundAssumption
  <2>4. Shared!OverlapAssumption
    BY DEF Shared!OverlapAssumption
  <2> QED
    BY <2>1, <2>2, <2>3, <2>4
<1>2. Shared!WriterAssumption
  BY DEF PairFigures, Shared!WriterAssumption, Shared!Source, Recorded
<1>3. Shared!StatementAssumption
  BY DEF PairFigures, Shared!StatementAssumption, Recorded
<1>4. Shared!RelationshipsOnly
  BY DEF PairFigures, Shared!RelationshipsOnly, Recorded
<1> QED
  BY <1>1, <1>2, <1>3, <1>4

\* The edge that is run is the edge that is proved about.
LEMMA SameEdge ==
  /\ Shared!Init <=> Gleif!Init
  /\ [Shared!Next]_(Shared!vars) <=> [Gleif!Next]_(Gleif!vars)
  /\ Shared!OtherRelationshipStands <=> Gleif!OtherRelationshipStands
<1>1. Shared!Init <=> Gleif!Init
  BY DEF
     Shared!Init, Gleif!Init, Shared!NoEdge, Gleif!NoEdge, Shared!NoJob, Gleif!NoJob,
     Shared!Source, Gleif!Source
<1>2. Shared!GleifStep <=> Gleif!GleifStep
  <2>1. ASSUME NEW st PROVE Shared!GleifFinds(st) <=> Gleif!GleifFinds(st)
    BY DEF
       Shared!Edges, Gleif!Edges, Shared!Ended, Gleif!Ended, Shared!Existing,
       Gleif!Existing, Shared!FirstOf, Gleif!FirstOf, Shared!GleifFinds,
       Gleif!GleifFinds, Shared!NoEdge, Gleif!NoEdge, Shared!NoJob, Gleif!NoJob,
       Shared!Open, Gleif!Open, Shared!Own, Gleif!Own, Shared!Source, Gleif!Source,
       Shared!Takes, Gleif!Takes
  <2>2. ASSUME NEW st PROVE Shared!GleifEnds(st) <=> Gleif!GleifEnds(st)
    BY DEF
       Shared!Edges, Gleif!Edges, Shared!GleifEnds, Gleif!GleifEnds, Shared!NoEdge,
       Gleif!NoEdge, Shared!NoJob, Gleif!NoJob, Shared!Open, Gleif!Open, Shared!Source,
       Gleif!Source, Shared!Takes, Gleif!Takes
  <2>3. Shared!GleifCreates <=> Gleif!GleifCreates
    BY DEF
       Shared!Applied, Gleif!Applied, Shared!At, Gleif!At, Shared!Draw, Gleif!Draw,
       Shared!Edges, Gleif!Edges, Shared!Finish, Gleif!Finish, Shared!Fresh, Gleif!Fresh,
       Shared!GleifCreates, Gleif!GleifCreates, Shared!NoEdge, Gleif!NoEdge,
       Shared!NoJob, Gleif!NoJob
  <2>4. Shared!GleifRestates <=> Gleif!GleifRestates
    BY DEF
       Shared!Above, Gleif!Above, Shared!Answered, Gleif!Answered, Shared!Applied,
       Gleif!Applied, Shared!At, Gleif!At, Shared!Cardinality, Gleif!Cardinality,
       Shared!Combine, Gleif!Combine, Shared!Credibility, Gleif!Credibility,
       Shared!Edges, Gleif!Edges, Shared!Ended, Gleif!Ended, Shared!Finish, Gleif!Finish,
       Shared!GleifAnswers, Gleif!GleifAnswers, Shared!GleifRestates,
       Gleif!GleifRestates, Shared!NoEdge, Gleif!NoEdge, Shared!NoJob, Gleif!NoJob,
       Shared!Official, Gleif!Official, Shared!Open, Gleif!Open, Shared!Outranks,
       Gleif!Outranks, Shared!Own, Gleif!Own, Shared!Rewrite, Gleif!Rewrite,
       Shared!Unstarted, Gleif!Unstarted
  <2>5. Shared!GleifFolds <=> Gleif!GleifFolds
    BY DEF
       Shared!Above, Gleif!Above, Shared!Answered, Gleif!Answered, Shared!Applied,
       Gleif!Applied, Shared!At, Gleif!At, Shared!Cardinality, Gleif!Cardinality,
       Shared!Combine, Gleif!Combine, Shared!Credibility, Gleif!Credibility,
       Shared!Edges, Gleif!Edges, Shared!Ended, Gleif!Ended, Shared!Finish, Gleif!Finish,
       Shared!GleifAnswers, Gleif!GleifAnswers, Shared!GleifFolds, Gleif!GleifFolds,
       Shared!NoEdge, Gleif!NoEdge, Shared!NoJob, Gleif!NoJob, Shared!Official,
       Gleif!Official, Shared!Open, Gleif!Open, Shared!Outranks, Gleif!Outranks,
       Shared!Own, Gleif!Own, Shared!Rewrite, Gleif!Rewrite, Shared!Unstarted,
       Gleif!Unstarted
  <2>6. Shared!GleifRetires <=> Gleif!GleifRetires
    BY DEF
       Shared!Applied, Gleif!Applied, Shared!At, Gleif!At, Shared!Cardinality,
       Gleif!Cardinality, Shared!Edges, Gleif!Edges, Shared!Ended, Gleif!Ended,
       Shared!Finish, Gleif!Finish, Shared!GleifRetires, Gleif!GleifRetires,
       Shared!NoEdge, Gleif!NoEdge, Shared!NoJob, Gleif!NoJob, Shared!Open, Gleif!Open,
       Shared!Own, Gleif!Own, Shared!Rewrite, Gleif!Rewrite
  <2>7. Shared!GleifCloses <=> Gleif!GleifCloses
    BY DEF
       Shared!At, Gleif!At, Shared!Cardinality, Gleif!Cardinality, Shared!Edges,
       Gleif!Edges, Shared!Ended, Gleif!Ended, Shared!GleifCloses, Gleif!GleifCloses,
       Shared!NoEdge, Gleif!NoEdge, Shared!NoJob, Gleif!NoJob, Shared!Open, Gleif!Open,
       Shared!Rewrite, Gleif!Rewrite, Shared!Then, Gleif!Then
  <2>8. Shared!GleifSucceeds <=> Gleif!GleifSucceeds
    BY DEF
       Shared!Applied, Gleif!Applied, Shared!At, Gleif!At, Shared!Draw, Gleif!Draw,
       Shared!Edges, Gleif!Edges, Shared!Finish, Gleif!Finish, Shared!GleifSucceeds,
       Gleif!GleifSucceeds, Shared!NoEdge, Gleif!NoEdge, Shared!NoJob, Gleif!NoJob
  <2> QED
    BY <2>1, <2>2, <2>3, <2>4, <2>5, <2>6, <2>7, <2>8 DEF Shared!GleifStep, Gleif!GleifStep
<1>3. Shared!DedupFolds <=> Gleif!DedupFolds
  BY DEF
     Shared!Above, Gleif!Above, Shared!Cardinality, Gleif!Cardinality, Shared!Combine,
     Gleif!Combine, Shared!Credibility, Gleif!Credibility, Shared!Day, Gleif!Day,
     Shared!DedupFolds, Gleif!DedupFolds, Shared!Edges, Gleif!Edges, Shared!FoldsInto,
     Gleif!FoldsInto, Shared!Given, Gleif!Given, Shared!NoEdge, Gleif!NoEdge,
     Shared!NoJob, Gleif!NoJob, Shared!Official, Gleif!Official, Shared!Preferred,
     Gleif!Preferred, Shared!Source, Gleif!Source, Shared!Top, Gleif!Top,
     Shared!Unstarted, Gleif!Unstarted
<1>4. Shared!DedupDeletes <=> Gleif!DedupDeletes
  BY DEF
     Shared!Cardinality, Gleif!Cardinality, Shared!DedupDeletes, Gleif!DedupDeletes,
     Shared!Edges, Gleif!Edges, Shared!NoEdge, Gleif!NoEdge, Shared!Open, Gleif!Open
<1>5. Shared!Crash("gleif") <=> Gleif!Crash("gleif")
  BY DEF
     Shared!Crash, Gleif!Crash, Shared!NoJob, Gleif!NoJob
<1>6. Shared!Next <=> Gleif!Next
  BY <1>2, <1>3, <1>4, <1>5 DEF Shared!Next, Gleif!Next
<1>7. [Shared!Next]_(Shared!vars) <=> [Gleif!Next]_(Gleif!vars)
  BY <1>6 DEF Shared!vars, Gleif!vars
<1>8. Shared!OtherRelationshipStands <=> Gleif!OtherRelationshipStands
  BY DEF
     Shared!AtRest, Gleif!AtRest, Shared!Edges, Gleif!Edges, Shared!NoEdge, Gleif!NoEdge,
     Shared!NoJob, Gleif!NoJob, Shared!Open, Gleif!Open,
     Shared!OtherRelationshipStands, Gleif!OtherRelationshipStands,
     Shared!Source, Gleif!Source
<1> QED
  BY <1>1, <1>7, <1>8

\* Of two relationships on one edge, one retired leaves the other one live
\* (retire_relationship), for every record GLEIF can publish of the pair.
THEOREM ThePairStands == ASSUME PairFigures PROVE Gleif!Spec => []GleifPairStands
<1>1. Shared!Spec => []Shared!Inv
  BY PairAssumptions, Shared!Invariance
<1>2. Shared!Spec => [](gleif_crashes = 0 => Shared!OtherRelationshipStands)
  BY PairAssumptions, Shared!OtherRelationshipGoesOn
<1>3. Shared!Inv => gleif_crashes = 0
  BY DEF Shared!Inv, Shared!Typed, Shared!TypeOK
<1>4. Shared!OtherRelationshipStands <=> GleifPairStands
  BY SameEdge DEF GleifPairStands
<1>5. Shared!Init <=> Gleif!Init
  BY SameEdge
<1>6. [Shared!Next]_(Shared!vars) <=> [Gleif!Next]_(Gleif!vars)
  BY SameEdge
<1> QED
  BY <1>1, <1>2, <1>3, <1>4, <1>5, <1>6, PTL DEF Shared!Spec, Gleif!Spec

-----------------------------------------------------------------------------
(* A filer's subsidiary lists *)

\* What a list may say, as the reader of a filing gives it: a row names a company, its
\* holder is another one, and a row under an intermediate parent names no stake of the
\* filer's own beside it.
Legible(x) ==
  x.own = "list" =>
    /\ DOMAIN x.rows \subseteq ListSubs
    /\ \A s \in DOMAIN x.rows :
         /\ x.rows[s].parent \in Lists!Node \ {s} /\ x.rows[s].co \subseteq Lists!Node
         /\ x.rows[s].parent # ListFiler => ListFiler \notin x.rows[s].co
ListFigures ==
  /\ ListFiler \notin ListSubs /\ \A x \in ListExhibits : Legible(x)
  /\ ListDeals \subseteq [sub : ListSubs, closing : Nat] /\ ListRelated \subseteq Lists!Pair

EdgeRec  == [src : {Lists!None, "sec", "gleif"}, form : {Lists!None, "list", "deal"}, url : Nat,
             stale : BOOLEAN, since : Nat, basis : Lists!Basis]
ClaimRec == [made : BOOLEAN, since : Nat, basis : Lists!Basis]
Dates    == [since : Nat, basis : Lists!Basis]
ListJob  == [at : {"rows", "withdraw", "detach", "stamp"}, y : Nat,
             rows : SUBSET ListSubs, row : ListSubs \cup {Lists!None}]

\* An edge of the SEC's says which family of filings drew it, no other does.
Fits(e) == (e.src = "sec" <=> e.form # Lists!None) /\ (e.src = Lists!None => e = Lists!NoEdge)

ListsShaped ==
  /\ lists_filed \in Seq(ListExhibits) /\ lists_ingested \in Nat
  /\ lists_edge \in [Lists!Pair -> EdgeRec] /\ \A p \in Lists!Pair : Fits(lists_edge[p])
  /\ lists_claim \in [Lists!Pair -> [Lists!Family -> ClaimRec]]
  /\ lists_job = [q \in Lists!Pass |-> lists_job[q]] /\ lists_job["list"] \in {Lists!Idle} \cup ListJob

\* The pair whose claim is withdrawn and whose edge is not yet.
Pending(p) == Lists!At("list", "detach") /\ p = <<ListFiler, lists_job["list"].row>>

Backs(e, c, excused) ==
  /\ e.src = Lists!None => \A f \in Lists!Family : ~c[f].made
  /\ e.src = "gleif" => c["gleif"].made
  /\ e.form = "deal" => c["deal"].made
  /\ e.form = "list" /\ ~excused => c["list"].made
Backed == \A p \in Lists!Pair : Backs(lists_edge[p], lists_claim[p], p \in lists_torn \/ Pending(p))
Withdrawn == \A p \in Lists!Pair : Pending(p) => ~lists_claim[p]["list"].made

OwnList(y)  == y \in Lists!Years /\ Lists!HasOwn(y)
Over(y, s) == Lists!CoHolders(y, s) \cup {Lists!Holder(y, s)}

\* An edge of a list's cites a year whose list names it.
Cited ==
  \A p \in Lists!Pair : lists_edge[p].form = "list" => OwnList(lists_edge[p].url) /\ p \in Lists!ListedPairs(lists_edge[p].url)

\* What drawing list y leaves of row s, and what it leaves of the rest.
Held(y, s)  == \A o \in Over(y, s) : LET e == lists_edge[<<o, s>>] IN e.form = "list" /\ ~e.stale /\ e.url = y
Apart(y, s) == Lists!Nested(y, s) => lists_edge[<<ListFiler, s>>].form # "list"
Dimmed(y) ==
  \A p \in Lists!Pair \ Lists!ListedPairs(y) :
    p[1] \in Lists!Holders(y) /\ lists_edge[p].form = "list" /\ ~lists_claim[p]["deal"].made => lists_edge[p].stale

Moving == Lists!At("list", "withdraw") \/ Lists!At("list", "detach")

\* What a pass that draws a list has done of it.
Drawing ==
  ~Lists!At("list", "idle") =>
    LET y == lists_job["list"].y IN
    /\ OwnList(y) /\ lists_ingested <= y /\ lists_job["list"].rows \subseteq Lists!Named(y)
    /\ \A p \in Lists!Pair : lists_edge[p].form = "list" => lists_edge[p].url <= y
    /\ Moving => lists_job["list"].row \in Lists!Named(y) /\ Lists!Nested(y, lists_job["list"].row)
    /\ \A s \in Lists!Named(y) \ lists_job["list"].rows :
         Held(y, s) /\ (Apart(y, s) \/ (Moving /\ s = lists_job["list"].row))
    /\ Lists!At("list", "stamp") => lists_job["list"].rows = {} /\ Dimmed(y)

\* What a list drawn to its end left stands until a newer list is filed.
Newest(y) == \A x \in Lists!Years : Lists!HasOwn(x) => x <= y
Finished ==
  lists_ingested # 0 =>
    /\ OwnList(lists_ingested)
    /\ Newest(lists_ingested) => (\A s \in Lists!Named(lists_ingested) : Held(lists_ingested, s) /\ Apart(lists_ingested, s)) /\ Dimmed(lists_ingested)

ListsInv == ListsShaped /\ Backed /\ Withdrawn /\ Cited /\ Drawing /\ Finished

-----------------------------------------------------------------------------
(* The edges and the claims a statement writes *)

\* What the earliest of two dates leaves of an edge.
LEMMA CombineKeeps ==
  ASSUME NEW e \in EdgeRec, NEW d \in Dates
  PROVE  /\ Lists!Combine(e, d) \in EdgeRec
         /\ Lists!Combine(e, d).src = e.src /\ Lists!Combine(e, d).form = e.form
         /\ Lists!Combine(e, d).url = e.url /\ Lists!Combine(e, d).stale = e.stale
<1> DEFINE u == [e EXCEPT !.since = d.since, !.basis = d.basis]
<1>1. u \in EdgeRec /\ u.src = e.src /\ u.form = e.form /\ u.url = e.url /\ u.stale = e.stale
  BY DEF EdgeRec, Dates
<1>2. Lists!Combine(e, d) \in {e, u}
  BY DEF Lists!Combine
<1> HIDE DEF u
<1> QED
  BY <1>1, <1>2

LEMMA StatedFacts ==
  ASSUME NEW e \in EdgeRec, NEW d \in Dates, NEW f \in {"list", "deal"}, NEW u \in Nat
  PROVE  /\ Lists!Stated(e, f, u, d) \in EdgeRec /\ Fits(Lists!Stated(e, f, u, d))
         /\ Lists!Stated(e, f, u, d).src = "sec" /\ Lists!Stated(e, f, u, d).form = f
         /\ Lists!Stated(e, f, u, d).url = u /\ ~Lists!Stated(e, f, u, d).stale
<1> DEFINE c == Lists!Combine(e, d)
<1>1. c \in EdgeRec
  BY CombineKeeps
<1>2. Lists!Stated(e, f, u, d) = [c EXCEPT !.src = "sec", !.form = f, !.url = u, !.stale = FALSE]
  BY DEF Lists!Stated
<1> HIDE DEF c
<1>3. /\ Lists!Stated(e, f, u, d) \in EdgeRec
      /\ Lists!Stated(e, f, u, d).src = "sec" /\ Lists!Stated(e, f, u, d).form = f
      /\ Lists!Stated(e, f, u, d).url = u /\ ~Lists!Stated(e, f, u, d).stale
  BY <1>1, <1>2 DEF EdgeRec
<1> QED
  BY <1>3 DEF Fits, Lists!None

\* A purchase leaves a listed edge listed, and makes no other one listed.
LEMMA BoughtFacts ==
  ASSUME NEW e \in EdgeRec, NEW n \in Nat, Fits(e)
  PROVE  /\ Lists!Bought(e, n) \in EdgeRec /\ Fits(Lists!Bought(e, n)) /\ Lists!Bought(e, n).src = "sec"
         /\ Lists!Bought(e, n).form \in {"list", "deal"} /\ ~Lists!Bought(e, n).stale
         /\ Lists!Bought(e, n).form = "list" <=> e.form = "list"
         /\ e.form = "list" => Lists!Bought(e, n).url = e.url
<1> DEFINE d == [since |-> n, basis |-> Lists!None]
           c == Lists!Combine(e, d)
           v == [c EXCEPT !.stale = FALSE]
           w == Lists!Stated(e, "deal", 0, d)
<1>1. d \in Dates
  BY DEF Dates, Lists!Basis
<1>2. Lists!Bought(e, n) = IF e.src = "sec" /\ e.form # "deal" THEN v ELSE w
  BY DEF Lists!Bought
<1>3. c \in EdgeRec /\ c.src = e.src /\ c.form = e.form /\ c.url = e.url
  <2> HIDE DEF d
  <2> QED BY <1>1, CombineKeeps
<1>4. w \in EdgeRec /\ Fits(w) /\ w.src = "sec" /\ w.form = "deal" /\ ~w.stale
  <2> HIDE DEF d
  <2> QED BY <1>1, StatedFacts
<1> HIDE DEF c, w, d
<1>5. v \in EdgeRec /\ v.src = e.src /\ v.form = e.form /\ v.url = e.url /\ ~v.stale
  BY <1>3 DEF EdgeRec
<1> HIDE DEF v
<1>6. e.form \in {Lists!None, "list", "deal"}
  BY DEF EdgeRec
<1>7. CASE e.src = "sec" /\ e.form # "deal"
  BY <1>2, <1>5, <1>6, <1>7 DEF Fits, Lists!None
<1>8. CASE ~(e.src = "sec" /\ e.form # "deal")
  BY <1>2, <1>4, <1>6, <1>8 DEF Fits, Lists!None
<1> QED
  BY <1>7, <1>8

\* A bound moves the date alone.
LEMMA BoundedFacts ==
  ASSUME NEW d \in Dates
  PROVE  /\ \A e \in EdgeRec :
              /\ Lists!Bounded(e, d) \in EdgeRec
              /\ Lists!Bounded(e, d).src = e.src /\ Lists!Bounded(e, d).form = e.form
              /\ Lists!Bounded(e, d).url = e.url /\ Lists!Bounded(e, d).stale = e.stale
         /\ \A c \in ClaimRec : Lists!Bounded(c, d) \in ClaimRec /\ Lists!Bounded(c, d).made = c.made
<1>1. ASSUME NEW e \in EdgeRec
      PROVE  /\ Lists!Bounded(e, d) \in EdgeRec
             /\ Lists!Bounded(e, d).src = e.src /\ Lists!Bounded(e, d).form = e.form
             /\ Lists!Bounded(e, d).url = e.url /\ Lists!Bounded(e, d).stale = e.stale
  <2> DEFINE u == [e EXCEPT !.since = d.since, !.basis = d.basis]
  <2>1. u \in EdgeRec /\ u.src = e.src /\ u.form = e.form /\ u.url = e.url /\ u.stale = e.stale
    BY DEF EdgeRec, Dates
  <2>2. Lists!Bounded(e, d) \in {e, u}
    BY DEF Lists!Bounded
  <2> HIDE DEF u
  <2> QED BY <2>1, <2>2
<1>2. ASSUME NEW c \in ClaimRec
      PROVE  Lists!Bounded(c, d) \in ClaimRec /\ Lists!Bounded(c, d).made = c.made
  <2> DEFINE u == [c EXCEPT !.since = d.since, !.basis = d.basis]
  <2>1. u \in ClaimRec /\ u.made = c.made
    BY DEF ClaimRec, Dates
  <2>2. Lists!Bounded(c, d) \in {c, u}
    BY DEF Lists!Bounded
  <2> HIDE DEF u
  <2> QED BY <2>1, <2>2
<1> QED
  BY <1>1, <1>2

\* What is left of an edge whose list claim is gone: the answer of another claim.
LEMMA ReansweredFacts ==
  ASSUME NEW e \in EdgeRec, NEW c \in [Lists!Family -> ClaimRec]
  PROVE  LET r == Lists!Reanswered(e, c) IN
         /\ r \in EdgeRec /\ Fits(r) /\ r.form # "list"
         /\ r.form = "deal" => c["deal"].made
         /\ r.src = "gleif" => c["gleif"].made
         /\ r.src = Lists!None => ~c["deal"].made /\ ~c["gleif"].made
<1> DEFINE bought == [e EXCEPT !.src = "sec", !.form = "deal", !.url = 0,
                               !.since = c["deal"].since, !.basis = c["deal"].basis]
           known == [e EXCEPT !.src = "gleif", !.form = Lists!None, !.url = 0, !.since = 0, !.basis = Lists!None]
<1>1. c["deal"] \in ClaimRec /\ c["gleif"] \in ClaimRec
  BY DEF Lists!Family
<1>2. /\ bought \in EdgeRec /\ bought.src = "sec" /\ bought.form = "deal"
  BY <1>1 DEF EdgeRec, ClaimRec
<1>3. /\ known \in EdgeRec /\ known.src = "gleif" /\ known.form = Lists!None
  BY DEF EdgeRec, Lists!Basis, Lists!None
<1>4. Lists!NoEdge \in EdgeRec /\ Lists!NoEdge.src = Lists!None /\ Lists!NoEdge.form = Lists!None
  BY DEF Lists!NoEdge, EdgeRec, Lists!Basis
<1>5. Lists!Reanswered(e, c) = IF c["deal"].made THEN bought ELSE IF c["gleif"].made THEN known ELSE Lists!NoEdge
  BY DEF Lists!Reanswered
<1> HIDE DEF bought, known
<1> QED
  BY <1>2, <1>3, <1>4, <1>5 DEF Fits, Lists!None

-----------------------------------------------------------------------------
(* The newest and the earliest list *)

LEMMA GreatestOf ==
  ASSUME NEW n \in Nat, NEW T \in SUBSET (1 .. n), T # {}
  PROVE  \E x \in T : \A y \in T : y <= x
<1> DEFINE above == {b \in Nat : \A y \in T : y <= b}
<1>1. n \in above
  OBVIOUS
<1>2. PICK b \in above : \A c \in above : b <= c
  <2> above \in SUBSET Nat /\ above # {}
    BY <1>1
  <2> HIDE DEF above
  <2> QED BY Least
<1>3. b \in Nat /\ \A y \in T : y <= b
  BY <1>2
<1>4. b \in T
  <2> SUFFICES ASSUME b \notin T PROVE FALSE
    OBVIOUS
  <2>1. PICK t \in T : TRUE
    OBVIOUS
  <2>2. b > 0
    BY <1>3, <2>1
  <2>3. b - 1 \in above
    <3>1. \A y \in T : y <= b - 1
      BY <1>3
    <3> QED BY <1>3, <2>2, <3>1
  <2> QED
    BY <1>2, <1>3, <2>3
<1> QED
  BY <1>3, <1>4

\* The list a pass reads is the newest of the filer's annual filings.
LEMMA NewestIsOwn ==
  ASSUME lists_filed \in Seq(ListExhibits), Lists!NewestList # 0
  PROVE  Lists!NewestList \in Nat /\ OwnList(Lists!NewestList) /\ Newest(Lists!NewestList)
<1> DEFINE n == Len(lists_filed)
           T == Lists!OwnBefore(n)
<1>1. n \in Nat /\ Lists!Years = 1 .. n
  BY DEF Lists!Years
<1>2. T # {} /\ Lists!NewestList = CHOOSE y \in T : \A x \in T : x <= y
  BY DEF Lists!NewestList
<1>3. T \in SUBSET (1 .. n)
  BY DEF Lists!OwnBefore
<1>4. \A x : x \in T <=> x \in Lists!Years /\ Lists!HasOwn(x)
  BY <1>1 DEF Lists!OwnBefore
<1> HIDE DEF T
<1>5. Lists!NewestList \in T /\ \A x \in T : x <= Lists!NewestList
  <2> HIDE DEF n
  <2> QED BY <1>1, <1>2, <1>3, GreatestOf
<1> QED
  BY <1>1, <1>3, <1>4, <1>5 DEF OwnList, Newest

LEMMA ListingIsDated ==
  ASSUME lists_filed \in Seq(ListExhibits), NEW s, Lists!Run(s) # {}
  PROVE  Lists!EarliestListing(s) \in Dates
<1> DEFINE T == Lists!Run(s)
           first == CHOOSE y \in T : \A x \in T : y <= x
<1>1. T \in SUBSET (Nat \ {0})
  BY DEF Lists!Run, Lists!Years
<1>2. first \in T
  <2>1. T \in SUBSET Nat /\ T # {}
    BY <1>1
  <2> HIDE DEF T
  <2> QED BY <2>1, Least
<1>3. Lists!AsOf(first) \in Nat
  BY <1>1, <1>2 DEF Lists!AsOf
<1>4. Lists!EarliestListing(s).since = Lists!AsOf(first) /\ Lists!EarliestListing(s).basis \in Lists!Basis
      /\ Lists!EarliestListing(s) = [since |-> Lists!EarliestListing(s).since, basis |-> Lists!EarliestListing(s).basis]
  BY DEF Lists!EarliestListing, Lists!Basis
<1> QED
  BY <1>3, <1>4 DEF Dates

-----------------------------------------------------------------------------
(* Steps that leave the lists alone *)

\* What is said of a list is said by its own filing.
LEMMA SameList ==
  ASSUME NEW y, lists_filed'[y] = lists_filed[y]
  PROVE  /\ Lists!HasOwn(y)' <=> Lists!HasOwn(y)
         /\ Lists!Named(y)' = Lists!Named(y) /\ Lists!Holders(y)' = Lists!Holders(y) /\ Lists!ListedPairs(y)' = Lists!ListedPairs(y)
         /\ \A s : Over(y, s)' = Over(y, s) /\ (Lists!Nested(y, s)' <=> Lists!Nested(y, s))
<1>1. /\ Lists!HasOwn(y)' <=> Lists!HasOwn(y)
      /\ Lists!Rows(y)' = Lists!Rows(y)
  BY DEF Lists!HasOwn, Lists!Rows
<1>2. Lists!Named(y)' = Lists!Named(y)
  BY <1>1 DEF Lists!Named
<1>3. \A s : Lists!Holder(y, s)' = Lists!Holder(y, s) /\ Lists!CoHolders(y, s)' = Lists!CoHolders(y, s)
  BY <1>1 DEF Lists!Holder, Lists!CoHolders
<1>4. Lists!Holders(y)' = Lists!Holders(y)
  BY <1>2, <1>3 DEF Lists!Holders
<1>5. \A s : Over(y, s)' = Over(y, s) /\ (Lists!Nested(y, s)' <=> Lists!Nested(y, s))
  BY <1>3 DEF Over, Lists!Nested
<1>6. Lists!ListedPairs(y)' = Lists!ListedPairs(y)
  BY <1>2, <1>3 DEF Lists!ListedPairs
<1> QED
  BY <1>1, <1>2, <1>4, <1>5, <1>6

LEMMA SameLists ==
  ASSUME UNCHANGED lists_filed
  PROVE  /\ \A y :
              /\ OwnList(y)' <=> OwnList(y)
              /\ Newest(y)' <=> Newest(y)
              /\ Lists!Named(y)' = Lists!Named(y) /\ Lists!Holders(y)' = Lists!Holders(y)
              /\ Lists!ListedPairs(y)' = Lists!ListedPairs(y)
              /\ \A s : Over(y, s)' = Over(y, s) /\ (Lists!Nested(y, s)' <=> Lists!Nested(y, s))
         /\ Lists!NewestList' = Lists!NewestList
<1>1. \A y : Lists!HasOwn(y)' <=> Lists!HasOwn(y)
  BY DEF Lists!HasOwn
<1>2. Lists!Years' = Lists!Years
  BY DEF Lists!Years
<1>3. \A y : (OwnList(y)' <=> OwnList(y)) /\ (Newest(y)' <=> Newest(y))
  BY <1>1, <1>2 DEF OwnList, Newest
<1>4. Lists!NewestList' = Lists!NewestList
  BY DEF Lists!NewestList, Lists!OwnBefore, Lists!HasOwn
<1>5. ASSUME NEW y
      PROVE  /\ Lists!Named(y)' = Lists!Named(y) /\ Lists!Holders(y)' = Lists!Holders(y)
             /\ Lists!ListedPairs(y)' = Lists!ListedPairs(y)
             /\ \A s : Over(y, s)' = Over(y, s) /\ (Lists!Nested(y, s)' <=> Lists!Nested(y, s))
  BY SameList
<1> QED
  BY <1>3, <1>4, <1>5

\* The pairs a list draws, by its rows.
LEMMA ListedBy ==
  ASSUME NEW y
  PROVE  \A p : p \in Lists!ListedPairs(y) <=> \E s \in Lists!Named(y) : \E o \in Over(y, s) : p = <<o, s>>
BY DEF Lists!ListedPairs, Over

\* A step that draws no list and withdraws nothing: what is listed stays listed, by
\* the same list, and dimmed but where a purchase is claimed.
Kept ==
  /\ UNCHANGED <<lists_filed, lists_ingested>> /\ lists_job'["list"] = lists_job["list"]
  /\ \A p \in Lists!Pair :
       /\ lists_edge'[p].form = "list" <=> lists_edge[p].form = "list"
       /\ lists_edge[p].form = "list" => lists_edge'[p].url = lists_edge[p].url
       /\ lists_edge'[p].stale => lists_edge[p].stale
       /\ lists_edge[p].stale => lists_edge'[p].stale \/ lists_claim'[p]["deal"].made
       /\ lists_claim[p]["deal"].made => lists_claim'[p]["deal"].made
       /\ lists_claim'[p]["list"].made <=> lists_claim[p]["list"].made

\* What is said of the lists.
Told == Withdrawn /\ Cited /\ Drawing /\ Finished

\* A row of a list that can be read: its pairs, and that it names no stake of the filer's own
\* under another holder.
LEMMA RowsRead ==
  ASSUME ListFigures, lists_filed \in Seq(ListExhibits), NEW y, OwnList(y)
  PROVE  /\ lists_filed[y] \in ListExhibits /\ y \in Nat /\ Lists!Named(y) \subseteq ListSubs
         /\ \A s \in Lists!Named(y) :
              /\ \A o \in Over(y, s) : <<o, s>> \in Lists!Pair
              /\ <<ListFiler, s>> \in Lists!Pair
              /\ Lists!Nested(y, s) => ListFiler \notin Over(y, s)
<1>1. lists_filed[y] \in ListExhibits /\ y \in Nat
  BY DEF OwnList, Lists!Years
<1>2. Legible(lists_filed[y]) /\ lists_filed[y].own = "list"
  BY <1>1 DEF ListFigures, OwnList, Lists!HasOwn
<1>3. Lists!Named(y) \subseteq ListSubs
  BY <1>2 DEF Legible, Lists!Named, Lists!Rows
<1>4. ASSUME NEW s \in Lists!Named(y)
      PROVE  /\ Lists!Holder(y, s) \in Lists!Node \ {s} /\ Lists!Rows(y)[s].co \subseteq Lists!Node
             /\ Lists!Holder(y, s) # ListFiler => ListFiler \notin Lists!Rows(y)[s].co
  BY <1>2 DEF Legible, Lists!Named, Lists!Rows, Lists!Holder
<1>5. ASSUME NEW s \in Lists!Named(y)
      PROVE  /\ \A o \in Over(y, s) : <<o, s>> \in Lists!Pair
             /\ <<ListFiler, s>> \in Lists!Pair
             /\ Lists!Nested(y, s) => ListFiler \notin Over(y, s)
  <2>1. s \in ListSubs /\ ListFiler # s /\ ListFiler \in Lists!Node
    BY <1>3 DEF ListFigures, Lists!Node
  <2>2. \A o \in Over(y, s) : o \in Lists!Node /\ o # s
    BY <1>4 DEF Over, Lists!CoHolders
  <2>3. Lists!Nested(y, s) => ListFiler \notin Over(y, s)
    BY <1>4 DEF Over, Lists!CoHolders, Lists!Nested
  <2>4. \A o : o \in Lists!Node /\ o # s => <<o, s>> \in Lists!Pair
    BY <2>1 DEF Lists!Pair
  <2> QED BY <2>1, <2>2, <2>3, <2>4
<1> QED
  BY <1>1, <1>3, <1>5

LEMMA KeptTold ==
  ASSUME ListFigures, ListsInv, Kept
  PROVE  Told'
<1> USE DEF ListsInv
<1>1. UNCHANGED <<lists_filed, lists_ingested>> /\ lists_job'["list"] = lists_job["list"]
  BY DEF Kept
<1>2. \A y :
        /\ OwnList(y)' <=> OwnList(y)
        /\ Newest(y)' <=> Newest(y)
        /\ Lists!Named(y)' = Lists!Named(y) /\ Lists!Holders(y)' = Lists!Holders(y)
        /\ Lists!ListedPairs(y)' = Lists!ListedPairs(y)
        /\ \A s : Over(y, s)' = Over(y, s) /\ (Lists!Nested(y, s)' <=> Lists!Nested(y, s))
  BY <1>1, SameLists
<1>3. \A c : Lists!At("list", c)' <=> Lists!At("list", c)
  BY <1>1 DEF Lists!At
<1>4. \A p : Pending(p)' <=> Pending(p)
  BY <1>1, <1>3 DEF Pending
<1>5. Withdrawn'
  BY <1>4 DEF Kept, Withdrawn
<1>6. Cited'
  BY <1>2 DEF Kept, Cited
<1>7. ASSUME NEW y, OwnList(y)
      PROVE  /\ \A s \in Lists!Named(y) :
                  /\ Held(y, s) => Held(y, s)'
                  /\ Apart(y, s) => Apart(y, s)'
             /\ Dimmed(y) => Dimmed(y)'
  <2>1. ASSUME NEW s \in Lists!Named(y), Held(y, s)
        PROVE  Held(y, s)'
    <3>1. ASSUME NEW o \in Over(y, s)
          PROVE  lists_edge'[<<o, s>>].form = "list" /\ ~lists_edge'[<<o, s>>].stale /\ lists_edge'[<<o, s>>].url = y
      <4>1. <<o, s>> \in Lists!Pair
        BY <1>7, RowsRead DEF ListsShaped
      <4>2. lists_edge[<<o, s>>].form = "list" /\ ~lists_edge[<<o, s>>].stale /\ lists_edge[<<o, s>>].url = y
        BY <2>1 DEF Held
      <4> QED BY <4>1, <4>2 DEF Kept
    <3> QED BY <1>2, <3>1 DEF Held
  <2>2. ASSUME NEW s \in Lists!Named(y), Apart(y, s)
        PROVE  Apart(y, s)'
    <3>1. <<ListFiler, s>> \in Lists!Pair
      BY <1>7, RowsRead DEF ListsShaped
    <3>2. lists_edge'[<<ListFiler, s>>].form = "list" <=> lists_edge[<<ListFiler, s>>].form = "list"
      BY <3>1 DEF Kept
    <3> QED BY <1>2, <2>2, <3>2 DEF Apart
  <2>3. ASSUME Dimmed(y)
        PROVE  Dimmed(y)'
    BY <1>2, <2>3 DEF Dimmed, Kept
  <2> QED BY <2>1, <2>2, <2>3
<1>8. Drawing'
  <2> SUFFICES ASSUME ~Lists!At("list", "idle") PROVE Drawing'
    BY <1>3 DEF Drawing
  <2>0. PICK y : y = lists_job["list"].y
    OBVIOUS
  <2>1. /\ OwnList(y) /\ lists_ingested <= y /\ lists_job["list"].rows \subseteq Lists!Named(y)
        /\ \A p \in Lists!Pair : lists_edge[p].form = "list" => lists_edge[p].url <= y
        /\ Moving => lists_job["list"].row \in Lists!Named(y) /\ Lists!Nested(y, lists_job["list"].row)
        /\ \A s \in Lists!Named(y) \ lists_job["list"].rows :
             Held(y, s) /\ (Apart(y, s) \/ (Moving /\ s = lists_job["list"].row))
        /\ Lists!At("list", "stamp") => lists_job["list"].rows = {} /\ Dimmed(y)
    BY <2>0 DEF Drawing
  <2>2. Moving' <=> Moving
    BY <1>3 DEF Moving
  <2>3. y = lists_job'["list"].y
    BY <1>1, <2>0
  <2>4. \A p \in Lists!Pair : lists_edge'[p].form = "list" => lists_edge'[p].url <= y
    BY <2>1 DEF Kept
  <2>5. \A s \in Lists!Named(y) \ lists_job["list"].rows :
             Held(y, s)' /\ (Apart(y, s)' \/ (Moving' /\ s = lists_job["list"].row))
    BY <1>7, <2>1, <2>2
  <2>6. Lists!At("list", "stamp")' => lists_job["list"].rows = {} /\ Dimmed(y)'
    BY <1>3, <1>7, <2>1
  <2>7. /\ OwnList(y)' /\ lists_ingested' <= y /\ lists_job'["list"].rows \subseteq Lists!Named(y)'
        /\ \A p \in Lists!Pair : lists_edge'[p].form = "list" => lists_edge'[p].url <= y
        /\ Moving' => lists_job'["list"].row \in Lists!Named(y)' /\ Lists!Nested(y, lists_job["list"].row)'
        /\ \A s \in Lists!Named(y)' \ lists_job'["list"].rows :
             Held(y, s)' /\ (Apart(y, s)' \/ (Moving' /\ s = lists_job'["list"].row))
        /\ Lists!At("list", "stamp")' => lists_job'["list"].rows = {} /\ Dimmed(y)'
    BY <1>1, <1>2, <2>1, <2>2, <2>4, <2>5, <2>6
  <2> QED
    BY <2>3, <2>7 DEF Drawing
<1>9. Finished'
  <2> SUFFICES ASSUME lists_ingested # 0 PROVE Finished'
    BY <1>1 DEF Finished
  <2>0. PICK y : y = lists_ingested
    OBVIOUS
  <2>1. /\ OwnList(y)
        /\ Newest(y) => (\A s \in Lists!Named(y) : Held(y, s) /\ Apart(y, s)) /\ Dimmed(y)
    BY <2>0 DEF Finished
  <2>2. y = lists_ingested'
    BY <1>1, <2>0
  <2>3. /\ OwnList(y)'
        /\ Newest(y)' => (\A s \in Lists!Named(y)' : Held(y, s)' /\ Apart(y, s)') /\ Dimmed(y)'
    BY <1>2, <1>7, <2>1
  <2> QED
    BY <2>2, <2>3 DEF Finished
<1> QED
  BY <1>5, <1>6, <1>8, <1>9 DEF Told

LEMMA PassMoves ==
  ASSUME ListsShaped, NEW q \in Lists!Pass, NEW j, Lists!Do(q, j)
  PROVE  /\ lists_job' = [r \in Lists!Pass |-> lists_job'[r]] /\ lists_job'[q] = j
         /\ \A r \in Lists!Pass : r # q => lists_job'[r] = lists_job[r]
BY DEF Lists!Do, ListsShaped

\* A pass that is drawing a list has a list.
LEMMA Drafting ==
  ASSUME ListsShaped, ~Lists!At("list", "idle")
  PROVE  lists_job["list"] \in ListJob
BY DEF ListsShaped, Lists!At, Lists!Idle

\* A step that moves another pass on, or the world, and writes nothing.
LEMMA QuietPass ==
  ASSUME ListFigures, ListsInv, UNCHANGED <<lists_filed, lists_edge, lists_claim, lists_ingested, lists_torn>>,
         lists_job' = [q \in Lists!Pass |-> lists_job'[q]], lists_job'["list"] = lists_job["list"]
  PROVE  ListsInv'
<1>1. Kept
  BY DEF Kept
<1>2. Told'
  BY <1>1, KeptTold
<1>3. ListsShaped'
  BY DEF ListsInv, ListsShaped
<1>4. \A p : Pending(p)' <=> Pending(p)
  BY DEF Pending, Lists!At
<1>5. Backed'
  BY <1>4 DEF ListsInv, Backed
<1> QED
  BY <1>2, <1>3, <1>5 DEF ListsInv, Told

LEMMA GleifStatesKeeps ==
  ASSUME ListFigures, ListsInv, NEW p \in ListRelated, Lists!GleifStates(p)
  PROVE  ListsInv'
<1> USE DEF ListsInv
<1> DEFINE g == [Lists!NoEdge EXCEPT !.src = "gleif"]
           e == IF lists_edge[p] = Lists!NoEdge THEN g ELSE lists_edge[p]
           c == [lists_claim[p] EXCEPT !["gleif"] = [made |-> TRUE, since |-> 0, basis |-> Lists!None]]
<1>1. p \in Lists!Pair
  BY DEF ListFigures
<1>2. lists_edge[p] \in EdgeRec /\ Fits(lists_edge[p]) /\ lists_claim[p] \in [Lists!Family -> ClaimRec]
  BY <1>1 DEF ListsShaped
<1>3. lists_edge' = [lists_edge EXCEPT ![p] = e]
  BY DEF Lists!GleifStates
<1>4. lists_claim' = [lists_claim EXCEPT ![p] = c]
  BY <1>1 DEF Lists!GleifStates, Lists!Claimed, ListsShaped, Lists!Undated
<1>5. UNCHANGED <<lists_filed, lists_ingested, lists_job, lists_torn>>
  BY DEF Lists!GleifStates
<1>6. g \in EdgeRec /\ g.src = "gleif" /\ g.form = Lists!None /\ g.stale = Lists!NoEdge.stale /\ Lists!NoEdge.form = Lists!None
  BY DEF Lists!NoEdge, EdgeRec, Lists!Basis
<1>7. /\ c \in [Lists!Family -> ClaimRec] /\ c["gleif"].made
      /\ c["list"] = lists_claim[p]["list"] /\ c["deal"] = lists_claim[p]["deal"]
  BY <1>2 DEF Lists!Family, ClaimRec, Lists!Basis
<1>8. e \in EdgeRec /\ Fits(e) /\ e.src # Lists!None /\ e.form = lists_edge[p].form /\ e.stale = lists_edge[p].stale
      /\ (e.form # Lists!None => e.url = lists_edge[p].url) /\ (e.src = "gleif" => e.form = Lists!None)
  <2> HIDE DEF g
  <2>1. CASE lists_edge[p] = Lists!NoEdge
    BY <1>6, <2>1 DEF Fits, Lists!None
  <2>2. CASE lists_edge[p] # Lists!NoEdge
    BY <1>2, <2>2 DEF Fits, Lists!None
  <2> QED BY <2>1, <2>2
<1> HIDE DEF g, e, c
<1>9. /\ lists_edge' \in [Lists!Pair -> EdgeRec] /\ lists_edge'[p] = e /\ \A q \in Lists!Pair : q # p => lists_edge'[q] = lists_edge[q]
      /\ lists_claim' \in [Lists!Pair -> [Lists!Family -> ClaimRec]] /\ lists_claim'[p] = c
      /\ \A q \in Lists!Pair : q # p => lists_claim'[q] = lists_claim[q]
  BY <1>1, <1>3, <1>4, <1>7, <1>8 DEF ListsShaped
<1>10. Kept
  <2>1. /\ lists_edge'[p].form = "list" <=> lists_edge[p].form = "list"
        /\ lists_edge[p].form = "list" => lists_edge'[p].url = lists_edge[p].url
        /\ lists_edge'[p].stale => lists_edge[p].stale
        /\ lists_edge[p].stale => lists_edge'[p].stale \/ lists_claim'[p]["deal"].made
        /\ lists_claim[p]["deal"].made => lists_claim'[p]["deal"].made
        /\ lists_claim'[p]["list"].made <=> lists_claim[p]["list"].made
    BY <1>7, <1>8, <1>9 DEF Lists!None
  <2> QED BY <1>5, <1>9, <2>1 DEF Kept
<1>11. Told'
  BY <1>10, KeptTold
<1>12. ListsShaped'
  BY <1>5, <1>8, <1>9 DEF ListsShaped
<1>13. \A q : Pending(q)' <=> Pending(q)
  BY <1>5 DEF Pending, Lists!At
<1>14. Backed'
  <2>1. Backs(lists_edge[p], lists_claim[p], p \in lists_torn \/ Pending(p))
    BY <1>1 DEF Backed
  <2>2. Backs(e, c, p \in lists_torn \/ Pending(p))
    BY <1>7, <1>8, <2>1 DEF Backs, Lists!None
  <2> QED BY <1>5, <1>9, <1>13, <2>2 DEF Backed
<1> QED
  BY <1>11, <1>12, <1>14 DEF Told

LEMMA AcquireKeeps ==
  ASSUME ListFigures, ListsInv, NEW d \in ListDeals, Lists!Acquire(d)
  PROVE  ListsInv'
<1> USE DEF ListsInv
<1> DEFINE p == <<ListFiler, d.sub>>
           e == Lists!Bought(lists_edge[p], d.closing)
           c == [lists_claim[p] EXCEPT !["deal"] = [made |-> TRUE, since |-> d.closing, basis |-> Lists!None]]
<1>0. d.sub \in ListSubs /\ d.closing \in Nat
  BY DEF ListFigures
<1>1. p \in Lists!Pair
  BY <1>0 DEF ListFigures, Lists!Pair, Lists!Node
<1>2. lists_edge[p] \in EdgeRec /\ Fits(lists_edge[p]) /\ lists_claim[p] \in [Lists!Family -> ClaimRec]
  BY <1>1 DEF ListsShaped
<1>3. lists_edge' = [lists_edge EXCEPT ![p] = e]
  BY DEF Lists!Acquire
<1>4. lists_claim' = [lists_claim EXCEPT ![p] = c]
  BY <1>1 DEF Lists!Acquire, Lists!Claimed, ListsShaped
<1>5. UNCHANGED <<lists_filed, lists_ingested, lists_torn>> /\ lists_job' = [q \in Lists!Pass |-> lists_job'[q]] /\ lists_job'["list"] = lists_job["list"]
  <2>1. \E j : Lists!Do("deals", j)
    BY DEF Lists!Acquire
  <2> QED BY <2>1, PassMoves DEF Lists!Acquire, Lists!Pass
<1>7. /\ c \in [Lists!Family -> ClaimRec] /\ c["deal"].made
      /\ c["list"] = lists_claim[p]["list"] /\ c["gleif"] = lists_claim[p]["gleif"]
  BY <1>0, <1>2 DEF Lists!Family, ClaimRec, Lists!Basis
<1> HIDE DEF p
<1>8. /\ e \in EdgeRec /\ Fits(e) /\ e.src = "sec" /\ ~e.stale /\ e.form \in {"list", "deal"}
      /\ e.form = "list" <=> lists_edge[p].form = "list"
      /\ lists_edge[p].form = "list" => e.url = lists_edge[p].url
  BY <1>0, <1>2, BoughtFacts
<1> HIDE DEF e, c
<1>9. /\ lists_edge' \in [Lists!Pair -> EdgeRec] /\ lists_edge'[p] = e /\ \A q \in Lists!Pair : q # p => lists_edge'[q] = lists_edge[q]
      /\ lists_claim' \in [Lists!Pair -> [Lists!Family -> ClaimRec]] /\ lists_claim'[p] = c
      /\ \A q \in Lists!Pair : q # p => lists_claim'[q] = lists_claim[q]
  BY <1>1, <1>3, <1>4, <1>7, <1>8 DEF ListsShaped
<1>10. Kept
  <2>1. /\ lists_edge'[p].form = "list" <=> lists_edge[p].form = "list"
        /\ lists_edge[p].form = "list" => lists_edge'[p].url = lists_edge[p].url
        /\ lists_edge'[p].stale => lists_edge[p].stale
        /\ lists_edge[p].stale => lists_edge'[p].stale \/ lists_claim'[p]["deal"].made
        /\ lists_claim[p]["deal"].made => lists_claim'[p]["deal"].made
        /\ lists_claim'[p]["list"].made <=> lists_claim[p]["list"].made
    BY <1>7, <1>8, <1>9
  <2> QED BY <1>5, <1>9, <2>1 DEF Kept
<1>11. Told'
  BY <1>10, KeptTold
<1>12. ListsShaped'
  BY <1>5, <1>8, <1>9 DEF ListsShaped
<1>13. \A q : Pending(q)' <=> Pending(q)
  BY <1>5 DEF Pending, Lists!At
<1>14. Backed'
  <2>1. Backs(lists_edge[p], lists_claim[p], p \in lists_torn \/ Pending(p))
    BY <1>1 DEF Backed
  <2>2. Backs(e, c, p \in lists_torn \/ Pending(p))
    BY <1>7, <1>8, <2>1 DEF Backs, Lists!None
  <2> QED BY <1>5, <1>9, <1>13, <2>2 DEF Backed
<1> QED
  BY <1>11, <1>12, <1>14 DEF Told

LEMMA DateKeeps ==
  ASSUME ListFigures, ListsInv, NEW p \in Lists!Pair, Lists!Date(p)
  PROVE  ListsInv'
<1> USE DEF ListsInv
<1>5. UNCHANGED <<lists_filed, lists_ingested, lists_torn>> /\ lists_job' = [q \in Lists!Pass |-> lists_job'[q]] /\ lists_job'["list"] = lists_job["list"]
  <2>1. \E j : Lists!Do("dates", j)
    BY DEF Lists!Date
  <2> QED BY <2>1, PassMoves DEF Lists!Date, Lists!Pass
<1>A. CASE ~(Lists!Run(p[2]) # {} /\ lists_claim[p]["list"].made)
  <2>1. UNCHANGED <<lists_edge, lists_claim>>
    BY <1>A DEF Lists!Date
  <2> QED BY <1>5, <2>1, QuietPass
<1>B. CASE Lists!Run(p[2]) # {} /\ lists_claim[p]["list"].made
  <2> DEFINE d == Lists!EarliestListing(p[2])
             e == IF lists_edge[p] = Lists!NoEdge THEN lists_edge[p] ELSE Lists!Bounded(lists_edge[p], d)
             c == [lists_claim[p] EXCEPT !["list"] = Lists!Bounded(lists_claim[p]["list"], d)]
  <2>1. d \in Dates
    BY <1>B, ListingIsDated DEF ListsShaped
  <2>2. lists_edge[p] \in EdgeRec /\ Fits(lists_edge[p]) /\ lists_claim[p] \in [Lists!Family -> ClaimRec] /\ lists_claim[p]["list"] \in ClaimRec
    BY DEF ListsShaped, Lists!Family
  <2>3. lists_edge' = [lists_edge EXCEPT ![p] = e]
    BY <1>B DEF Lists!Date
  <2>4. lists_claim' = [lists_claim EXCEPT ![p] = c]
    BY <1>B DEF Lists!Date, ListsShaped
  <2> HIDE DEF d
  <2>5. Lists!Bounded(lists_claim[p]["list"], d) \in ClaimRec /\ Lists!Bounded(lists_claim[p]["list"], d).made = lists_claim[p]["list"].made
    BY <2>1, <2>2, BoundedFacts
  <2>6. /\ Lists!Bounded(lists_edge[p], d) \in EdgeRec
        /\ Lists!Bounded(lists_edge[p], d).src = lists_edge[p].src /\ Lists!Bounded(lists_edge[p], d).form = lists_edge[p].form
        /\ Lists!Bounded(lists_edge[p], d).url = lists_edge[p].url /\ Lists!Bounded(lists_edge[p], d).stale = lists_edge[p].stale
    BY <2>1, <2>2, BoundedFacts
  <2>7. /\ c \in [Lists!Family -> ClaimRec] /\ c["list"].made = lists_claim[p]["list"].made
        /\ c["deal"] = lists_claim[p]["deal"] /\ c["gleif"] = lists_claim[p]["gleif"]
    BY <2>2, <2>5 DEF Lists!Family
  <2>8. /\ e \in EdgeRec /\ Fits(e) /\ e.src = lists_edge[p].src /\ e.form = lists_edge[p].form
        /\ e.url = lists_edge[p].url /\ e.stale = lists_edge[p].stale
    <3>1. CASE lists_edge[p] = Lists!NoEdge
      BY <2>2, <3>1
    <3>2. CASE lists_edge[p] # Lists!NoEdge
      BY <2>2, <2>6, <3>2 DEF Fits
    <3> QED BY <3>1, <3>2
  <2> HIDE DEF e, c
  <2>9. /\ lists_edge' \in [Lists!Pair -> EdgeRec] /\ lists_edge'[p] = e /\ \A q \in Lists!Pair : q # p => lists_edge'[q] = lists_edge[q]
        /\ lists_claim' \in [Lists!Pair -> [Lists!Family -> ClaimRec]] /\ lists_claim'[p] = c
        /\ \A q \in Lists!Pair : q # p => lists_claim'[q] = lists_claim[q]
    BY <2>3, <2>4, <2>7, <2>8 DEF ListsShaped
  <2>10. Kept
    <3>1. /\ lists_edge'[p].form = "list" <=> lists_edge[p].form = "list"
          /\ lists_edge[p].form = "list" => lists_edge'[p].url = lists_edge[p].url
          /\ lists_edge'[p].stale => lists_edge[p].stale
          /\ lists_edge[p].stale => lists_edge'[p].stale \/ lists_claim'[p]["deal"].made
          /\ lists_claim[p]["deal"].made => lists_claim'[p]["deal"].made
          /\ lists_claim'[p]["list"].made <=> lists_claim[p]["list"].made
      BY <2>7, <2>8, <2>9
    <3> QED BY <1>5, <2>9, <3>1 DEF Kept
  <2>11. Told'
    BY <2>10, KeptTold
  <2>12. ListsShaped'
    BY <1>5, <2>8, <2>9 DEF ListsShaped
  <2>13. \A q : Pending(q)' <=> Pending(q)
    BY <1>5 DEF Pending, Lists!At
  <2>14. Backed'
    <3>1. Backs(lists_edge[p], lists_claim[p], p \in lists_torn \/ Pending(p))
      BY DEF Backed
    <3>2. Backs(e, c, p \in lists_torn \/ Pending(p))
      <4>1. \A f \in Lists!Family : c[f].made <=> lists_claim[p][f].made
        BY <2>7 DEF Lists!Family
      <4> QED BY <2>7, <2>8, <3>1, <4>1 DEF Backs
    <3> QED BY <1>5, <2>9, <2>13, <3>2 DEF Backed
  <2> QED
    BY <2>11, <2>12, <2>14 DEF Told
<1> QED
  BY <1>A, <1>B

-----------------------------------------------------------------------------
(* A new filing, and the steps of the pass that draws a list *)

LEMMA FileAnnualKeeps ==
  ASSUME ListFigures, ListsInv, NEW x \in ListExhibits, Lists!FileAnnual(x)
  PROVE  ListsInv'
<1> USE DEF ListsInv
<1>1. UNCHANGED <<lists_edge, lists_claim, lists_ingested, lists_job, lists_torn>> /\ lists_filed' = Append(lists_filed, x)
  BY DEF Lists!FileAnnual
<1>2. /\ lists_filed' \in Seq(ListExhibits) /\ Lists!Years \subseteq Lists!Years'
      /\ \A y \in Lists!Years : lists_filed'[y] = lists_filed[y]
  BY <1>1 DEF ListsShaped, Lists!Years
<1>3. \A y \in Lists!Years :
        /\ Lists!HasOwn(y)' <=> Lists!HasOwn(y)
        /\ Lists!Named(y)' = Lists!Named(y) /\ Lists!Holders(y)' = Lists!Holders(y)
        /\ Lists!ListedPairs(y)' = Lists!ListedPairs(y)
        /\ \A s : Over(y, s)' = Over(y, s) /\ (Lists!Nested(y, s)' <=> Lists!Nested(y, s))
  BY <1>2, SameList
<1>4. \A y \in Lists!Years :
        /\ OwnList(y) => OwnList(y)'
        /\ Newest(y)' => Newest(y)
        /\ \A s : Held(y, s)' <=> Held(y, s)
        /\ \A s : Apart(y, s)' <=> Apart(y, s)
        /\ Dimmed(y)' <=> Dimmed(y)
  <2> SUFFICES ASSUME NEW y \in Lists!Years
               PROVE  /\ OwnList(y) => OwnList(y)'
                      /\ Newest(y)' => Newest(y)
                      /\ \A s : Held(y, s)' <=> Held(y, s)
                      /\ \A s : Apart(y, s)' <=> Apart(y, s)
                      /\ Dimmed(y)' <=> Dimmed(y)
    OBVIOUS
  <2>1. OwnList(y) => OwnList(y)'
    BY <1>2, <1>3 DEF OwnList
  <2>2. Newest(y)' => Newest(y)
    BY <1>2, <1>3 DEF Newest
  <2>3. \A s : Held(y, s)' <=> Held(y, s)
    BY <1>1, <1>3 DEF Held
  <2>4. \A s : Apart(y, s)' <=> Apart(y, s)
    BY <1>1, <1>3 DEF Apart
  <2>5. Dimmed(y)' <=> Dimmed(y)
    BY <1>1, <1>3 DEF Dimmed
  <2> QED BY <2>1, <2>2, <2>3, <2>4, <2>5
<1>5. ListsShaped'
  BY <1>1, <1>2 DEF ListsShaped
<1>6. (\A p : Pending(p)' <=> Pending(p)) /\ (Moving' <=> Moving) /\ \A c : Lists!At("list", c)' <=> Lists!At("list", c)
  BY <1>1 DEF Pending, Moving, Lists!At
<1>7. Backed' /\ Withdrawn'
  BY <1>1, <1>6 DEF Backed, Withdrawn
<1>8. Cited'
  BY <1>1, <1>3, <1>4 DEF Cited, OwnList
<1>9. Drawing'
  <2> SUFFICES ASSUME ~Lists!At("list", "idle") PROVE Drawing'
    BY <1>6 DEF Drawing
  <2>0. PICK y, r : y = lists_job["list"].y /\ r = lists_job["list"].row
    OBVIOUS
  <2>1. /\ OwnList(y) /\ lists_ingested <= y /\ lists_job["list"].rows \subseteq Lists!Named(y)
        /\ \A p \in Lists!Pair : lists_edge[p].form = "list" => lists_edge[p].url <= y
        /\ Moving => r \in Lists!Named(y) /\ Lists!Nested(y, r)
        /\ \A s \in Lists!Named(y) \ lists_job["list"].rows : Held(y, s) /\ (Apart(y, s) \/ (Moving /\ s = r))
        /\ Lists!At("list", "stamp") => lists_job["list"].rows = {} /\ Dimmed(y)
    BY <2>0 DEF Drawing
  <2>2. y \in Lists!Years
    BY <2>1 DEF OwnList
  <2>3. /\ OwnList(y)' /\ lists_ingested' <= y /\ lists_job'["list"].rows \subseteq Lists!Named(y)'
        /\ \A p \in Lists!Pair : lists_edge'[p].form = "list" => lists_edge'[p].url <= y
        /\ Moving' => r \in Lists!Named(y)' /\ Lists!Nested(y, r)'
        /\ \A s \in Lists!Named(y)' \ lists_job'["list"].rows : Held(y, s)' /\ (Apart(y, s)' \/ (Moving' /\ s = r))
        /\ Lists!At("list", "stamp")' => lists_job'["list"].rows = {} /\ Dimmed(y)'
    BY <1>1, <1>3, <1>4, <1>6, <2>1, <2>2
  <2> QED
    BY <1>1, <2>0, <2>3 DEF Drawing
<1>10. Finished'
  <2> SUFFICES ASSUME lists_ingested # 0 PROVE Finished'
    BY <1>1 DEF Finished
  <2>0. PICK y : y = lists_ingested
    OBVIOUS
  <2>1. /\ OwnList(y)
        /\ Newest(y) => (\A s \in Lists!Named(y) : Held(y, s) /\ Apart(y, s)) /\ Dimmed(y)
    BY <2>0 DEF Finished
  <2>2. y \in Lists!Years
    BY <2>1 DEF OwnList
  <2>3. /\ OwnList(y)'
        /\ Newest(y)' => (\A s \in Lists!Named(y)' : Held(y, s)' /\ Apart(y, s)') /\ Dimmed(y)'
    BY <1>3, <1>4, <2>1, <2>2
  <2> QED
    BY <1>1, <2>0, <2>3 DEF Finished
<1> QED
  BY <1>5, <1>7, <1>8, <1>9, <1>10

LEMMA OpenListKeeps ==
  ASSUME ListFigures, ListsInv, NEW force, Lists!OpenList(force)
  PROVE  ListsInv'
<1> USE DEF ListsInv
<1>0. PICK y : y = Lists!NewestList
  OBVIOUS
<1> DEFINE j == [at |-> "rows", y |-> y, rows |-> Lists!Named(y), row |-> Lists!None]
<1>1. UNCHANGED <<lists_filed, lists_edge, lists_claim, lists_ingested, lists_torn>> /\ Lists!At("list", "idle") /\ y # 0 /\ Lists!Do("list", j)
  BY <1>0 DEF Lists!OpenList, Lists!Free, Lists!Pass
<1>2. y \in Nat /\ OwnList(y) /\ Newest(y)
  BY <1>0, <1>1, NewestIsOwn DEF ListsShaped
<1>3. Lists!Named(y) \subseteq ListSubs
  BY <1>2, RowsRead DEF ListsShaped
<1>4. j \in ListJob
  BY <1>2, <1>3 DEF ListJob, Lists!None
<1>5. /\ j.at = "rows" /\ j.y = y /\ j.rows = Lists!Named(y)
  OBVIOUS
<1> HIDE DEF j
<1>6. lists_job' = [r \in Lists!Pass |-> lists_job'[r]] /\ lists_job'["list"] = j
  BY <1>1, PassMoves DEF Lists!Pass
<1>7. ListsShaped'
  BY <1>1, <1>4, <1>6 DEF ListsShaped
<1>8. \A c : Lists!At("list", c)' <=> c = "rows"
  BY <1>5, <1>6 DEF Lists!At
<1>9. \A p : ~Pending(p)' /\ ~Pending(p)
  BY <1>1, <1>8 DEF Pending, Lists!At
<1>10. Backed' /\ Withdrawn'
  BY <1>1, <1>9 DEF Backed, Withdrawn
<1>11. \A z :
         /\ OwnList(z)' <=> OwnList(z)
         /\ Newest(z)' <=> Newest(z)
         /\ Lists!Named(z)' = Lists!Named(z) /\ Lists!Holders(z)' = Lists!Holders(z)
         /\ Lists!ListedPairs(z)' = Lists!ListedPairs(z)
         /\ \A s : Over(z, s)' = Over(z, s) /\ (Lists!Nested(z, s)' <=> Lists!Nested(z, s))
  BY <1>1, SameLists
<1>12. Cited'
  BY <1>1, <1>11 DEF Cited
<1>13. Finished'
  <2>1. \A z, s : (Held(z, s)' <=> Held(z, s)) /\ (Apart(z, s)' <=> Apart(z, s))
    BY <1>1, <1>11 DEF Held, Apart
  <2>2. \A z : Dimmed(z)' <=> Dimmed(z)
    BY <1>1, <1>11 DEF Dimmed
  <2> QED BY <1>1, <1>11, <2>1, <2>2 DEF Finished
<1>14. Drawing'
  <2>1. \A z : OwnList(z) => z <= y
    BY <1>2 DEF OwnList, Newest
  <2>2. lists_ingested <= y
    BY <1>2, <2>1 DEF Finished, ListsShaped
  <2>3. \A p \in Lists!Pair : lists_edge'[p].form = "list" => lists_edge'[p].url <= y
    BY <1>1, <2>1 DEF Cited
  <2>4. ~Moving'
    BY <1>8 DEF Moving
  <2> QED BY <1>1, <1>2, <1>5, <1>6, <1>8, <1>11, <2>2, <2>3, <2>4 DEF Drawing
<1> QED
  BY <1>7, <1>10, <1>12, <1>13, <1>14

\* What a pass that draws list y knows of it, by name.
LEMMA AtWork ==
  ASSUME ListFigures, ListsInv, ~Lists!At("list", "idle"), NEW y, y = lists_job["list"].y
  PROVE  /\ lists_job["list"] \in ListJob /\ y \in Nat
         /\ OwnList(y) /\ lists_ingested <= y /\ lists_job["list"].rows \subseteq Lists!Named(y)
         /\ \A p \in Lists!Pair : lists_edge[p].form = "list" => lists_edge[p].url <= y
         /\ Moving => lists_job["list"].row \in Lists!Named(y) /\ Lists!Nested(y, lists_job["list"].row)
         /\ \A s \in Lists!Named(y) \ lists_job["list"].rows :
              Held(y, s) /\ (Apart(y, s) \/ (Moving /\ s = lists_job["list"].row))
         /\ Lists!At("list", "stamp") => lists_job["list"].rows = {} /\ Dimmed(y)
         /\ lists_ingested # 0 => OwnList(lists_ingested) /\ (Newest(lists_ingested) => lists_ingested = y)
<1>1. lists_job["list"] \in ListJob
  BY Drafting DEF ListsInv
<1>2. y \in Nat
  BY <1>1 DEF ListJob
<1>3. OwnList(y) /\ lists_ingested <= y
  BY DEF ListsInv, Drawing
<1>4. lists_ingested # 0 => OwnList(lists_ingested)
  BY DEF ListsInv, Finished
<1>5. lists_ingested # 0 /\ Newest(lists_ingested) => lists_ingested = y
  BY <1>2, <1>3, <1>4 DEF OwnList, Newest, ListsInv, ListsShaped
<1> QED
  BY <1>1, <1>2, <1>3, <1>4, <1>5 DEF ListsInv, Drawing

LEMMA WithdrawKeeps ==
  ASSUME ListFigures, ListsInv, Lists!Withdraw
  PROVE  ListsInv'
<1> USE DEF ListsInv
<1>0. PICK y, r : y = lists_job["list"].y /\ r = lists_job["list"].row
  OBVIOUS
<1> DEFINE j == [lists_job["list"] EXCEPT !.at = "detach"]
           p == <<ListFiler, r>>
           c == [lists_claim[p] EXCEPT !["list"] = Lists!NoClaim]
<1>1. UNCHANGED <<lists_filed, lists_edge, lists_ingested, lists_torn>> /\ Lists!At("list", "withdraw") /\ Lists!Do("list", j)
  BY DEF Lists!Withdraw
<1>2. ~Lists!At("list", "idle") /\ ~Lists!At("list", "detach") /\ ~Lists!At("list", "stamp") /\ Moving
  BY <1>1 DEF Lists!At, Moving
<1>3. /\ lists_job["list"] \in ListJob /\ y \in Nat
      /\ OwnList(y) /\ lists_ingested <= y /\ lists_job["list"].rows \subseteq Lists!Named(y)
      /\ \A q \in Lists!Pair : lists_edge[q].form = "list" => lists_edge[q].url <= y
      /\ r \in Lists!Named(y) /\ Lists!Nested(y, r)
      /\ \A s \in Lists!Named(y) \ lists_job["list"].rows : Held(y, s) /\ (Apart(y, s) \/ s = r)
  BY <1>0, <1>2, AtWork
<1>4. p \in Lists!Pair
  BY <1>3, RowsRead DEF ListsShaped
<1>5. lists_claim' = [lists_claim EXCEPT ![p] = c]
  BY <1>0, <1>4 DEF Lists!Withdraw, ListsShaped
<1>6. /\ j \in ListJob /\ j.at = "detach" /\ j.y = y /\ j.rows = lists_job["list"].rows /\ j.row = r
  BY <1>0, <1>3 DEF ListJob
<1> HIDE DEF j
<1>7. lists_job' = [q \in Lists!Pass |-> lists_job'[q]] /\ lists_job'["list"] = j
  BY <1>1, PassMoves DEF Lists!Pass
<1>8. /\ c \in [Lists!Family -> ClaimRec] /\ ~c["list"].made
      /\ c["deal"] = lists_claim[p]["deal"] /\ c["gleif"] = lists_claim[p]["gleif"]
  <2>1. lists_claim[p] \in [Lists!Family -> ClaimRec]
    BY <1>4 DEF ListsShaped
  <2> QED BY <2>1 DEF Lists!Family, ClaimRec, Lists!NoClaim, Lists!Basis
<1>9. p = <<ListFiler, lists_job'["list"].row>>
  BY <1>6, <1>7
<1> HIDE DEF p, c
<1>10. /\ lists_claim' \in [Lists!Pair -> [Lists!Family -> ClaimRec]] /\ lists_claim'[p] = c
       /\ \A q \in Lists!Pair : q # p => lists_claim'[q] = lists_claim[q]
  BY <1>4, <1>5, <1>8 DEF ListsShaped
<1>11. \A d : Lists!At("list", d)' <=> d = "detach"
  BY <1>6, <1>7 DEF Lists!At
<1>12. \A q : (Pending(q)' <=> q = p) /\ ~Pending(q)
  BY <1>2, <1>9, <1>11 DEF Pending
<1>13. Moving'
  BY <1>11 DEF Moving
<1>14. ListsShaped'
  BY <1>1, <1>6, <1>7, <1>10 DEF ListsShaped
<1>15. Withdrawn'
  BY <1>8, <1>10, <1>12 DEF Withdrawn
<1>16. Backed'
  <2>1. ASSUME NEW q \in Lists!Pair
        PROVE  Backs(lists_edge'[q], lists_claim'[q], q \in lists_torn' \/ Pending(q)')
    <3>0. Backs(lists_edge[q], lists_claim[q], q \in lists_torn)
      BY <1>12 DEF Backed
    <3>1. CASE q # p
      BY <1>1, <1>10, <1>12, <3>0, <3>1
    <3>2. CASE q = p
      <4>1. \A f \in Lists!Family : c[f].made => lists_claim[p][f].made
        BY <1>8 DEF Lists!Family
      <4> QED BY <1>1, <1>8, <1>10, <1>12, <3>0, <3>2, <4>1 DEF Backs
    <3> QED BY <3>1, <3>2
  <2> QED BY <2>1 DEF Backed
<1>17. \A z :
         /\ OwnList(z)' <=> OwnList(z)
         /\ Newest(z)' <=> Newest(z)
         /\ Lists!Named(z)' = Lists!Named(z) /\ Lists!Holders(z)' = Lists!Holders(z)
         /\ Lists!ListedPairs(z)' = Lists!ListedPairs(z)
         /\ \A s : Over(z, s)' = Over(z, s) /\ (Lists!Nested(z, s)' <=> Lists!Nested(z, s))
  BY <1>1, SameLists
<1>18. Cited'
  BY <1>1, <1>17 DEF Cited
<1>19. \A z, s : (Held(z, s)' <=> Held(z, s)) /\ (Apart(z, s)' <=> Apart(z, s))
  BY <1>1, <1>17 DEF Held, Apart
<1>20. Finished'
  <2>1. \A q \in Lists!Pair : lists_claim'[q]["deal"] = lists_claim[q]["deal"]
    BY <1>8, <1>10
  <2>2. \A z : Dimmed(z)' <=> Dimmed(z)
    BY <1>1, <1>17, <2>1 DEF Dimmed
  <2> QED BY <1>1, <1>17, <1>19, <2>2 DEF Finished
<1>21. Drawing'
  <2>1. /\ OwnList(y)' /\ lists_ingested' <= y /\ j.rows \subseteq Lists!Named(y)'
        /\ \A q \in Lists!Pair : lists_edge'[q].form = "list" => lists_edge'[q].url <= y
        /\ Moving' => r \in Lists!Named(y)' /\ Lists!Nested(y, r)'
        /\ \A s \in Lists!Named(y)' \ j.rows : Held(y, s)' /\ (Apart(y, s)' \/ (Moving' /\ s = r))
        /\ ~Lists!At("list", "stamp")'
    BY <1>1, <1>3, <1>6, <1>11, <1>13, <1>17, <1>19
  <2> QED BY <1>6, <1>7, <2>1 DEF Drawing
<1> QED
  BY <1>14, <1>15, <1>16, <1>18, <1>20, <1>21

\* The rows of a list that two instants share: what their edges say is one.
LEMMA OneRow ==
  ASSUME NEW y, NEW s, Over(y, s)' = Over(y, s), Lists!Nested(y, s)' <=> Lists!Nested(y, s)
  PROVE  /\ (\A o \in Over(y, s) : lists_edge'[<<o, s>>] = lists_edge[<<o, s>>]) => (Held(y, s)' <=> Held(y, s))
         /\ lists_edge'[<<ListFiler, s>>] = lists_edge[<<ListFiler, s>>] => (Apart(y, s)' <=> Apart(y, s))
BY DEF Held, Apart

LEMMA DrawRowKeeps ==
  ASSUME ListFigures, ListsInv, NEW s \in ListSubs, Lists!DrawRow(s)
  PROVE  ListsInv'
<1> USE DEF ListsInv
<1>0. PICK y : y = lists_job["list"].y
  OBVIOUS
<1> DEFINE drawn == {<<o, s>> : o \in Over(y, s)}
           j == [lists_job["list"] EXCEPT !.at = IF Lists!Nested(y, s) THEN "withdraw" ELSE "rows",
                                    !.rows = @ \ {s}, !.row = s]
           e(p) == Lists!Stated(lists_edge[p], "list", y, Lists!Undated)
           c(p) == [lists_claim[p] EXCEPT !["list"].made = TRUE]
<1>1. /\ UNCHANGED <<lists_filed, lists_ingested>> /\ Lists!At("list", "rows") /\ s \in lists_job["list"].rows
      /\ lists_edge' = [p \in Lists!Pair |-> IF p \in drawn THEN e(p) ELSE lists_edge[p]]
      /\ lists_claim' = [p \in Lists!Pair |-> IF p \in drawn THEN c(p) ELSE lists_claim[p]]
      /\ lists_torn' = lists_torn \ drawn /\ Lists!Do("list", j)
  BY <1>0 DEF Lists!DrawRow, Over
<1>2. ~Lists!At("list", "idle") /\ ~Lists!At("list", "detach") /\ ~Lists!At("list", "stamp") /\ ~Moving
  BY <1>1 DEF Lists!At, Moving
<1>3. /\ lists_job["list"] \in ListJob /\ y \in Nat
      /\ OwnList(y) /\ lists_ingested <= y /\ lists_job["list"].rows \subseteq Lists!Named(y)
      /\ \A q \in Lists!Pair : lists_edge[q].form = "list" => lists_edge[q].url <= y
      /\ \A t \in Lists!Named(y) \ lists_job["list"].rows : Held(y, t) /\ Apart(y, t)
      /\ lists_ingested # 0 => OwnList(lists_ingested) /\ (Newest(lists_ingested) => lists_ingested = y)
  BY <1>0, <1>2, AtWork
<1>4. /\ s \in Lists!Named(y) /\ drawn \subseteq Lists!Pair /\ \A t \in Lists!Named(y) : <<ListFiler, t>> \in Lists!Pair
      /\ \A t \in Lists!Named(y) : \A o \in Over(y, t) : <<o, t>> \in Lists!Pair
      /\ Lists!Nested(y, s) => ListFiler \notin Over(y, s)
  BY <1>1, <1>3, RowsRead DEF ListsShaped
<1>5. \A o, t : <<o, t>> \in drawn <=> t = s /\ o \in Over(y, s)
  OBVIOUS
<1>6. drawn \subseteq Lists!ListedPairs(y)
  BY <1>4, ListedBy
<1>7. /\ j \in ListJob /\ j.at = (IF Lists!Nested(y, s) THEN "withdraw" ELSE "rows") /\ j.y = y
      /\ j.rows = lists_job["list"].rows \ {s} /\ j.row = s
  BY <1>0, <1>3 DEF ListJob
<1>8. ASSUME NEW p \in Lists!Pair
      PROVE  /\ e(p) \in EdgeRec /\ Fits(e(p)) /\ e(p).src = "sec"
             /\ e(p).form = "list" /\ e(p).url = y /\ ~e(p).stale
             /\ c(p) \in [Lists!Family -> ClaimRec] /\ c(p)["list"].made
             /\ c(p)["deal"] = lists_claim[p]["deal"] /\ c(p)["gleif"] = lists_claim[p]["gleif"]
  <2>1. lists_edge[p] \in EdgeRec /\ lists_claim[p] \in [Lists!Family -> ClaimRec] /\ lists_claim[p]["list"] \in ClaimRec
    BY DEF ListsShaped, Lists!Family
  <2>2. Lists!Undated \in Dates
    BY DEF Lists!Undated, Dates, Lists!Basis
  <2>3. /\ e(p) \in EdgeRec /\ Fits(e(p)) /\ e(p).src = "sec"
        /\ e(p).form = "list" /\ e(p).url = y /\ ~e(p).stale
    BY <1>3, <2>1, <2>2, StatedFacts
  <2>4. [lists_claim[p]["list"] EXCEPT !.made = TRUE] \in ClaimRec /\ [lists_claim[p]["list"] EXCEPT !.made = TRUE].made
    BY <2>1 DEF ClaimRec
  <2>5. c(p) = [lists_claim[p] EXCEPT !["list"] = [lists_claim[p]["list"] EXCEPT !.made = TRUE]]
    BY <2>1
  <2>6. /\ c(p) \in [Lists!Family -> ClaimRec] /\ c(p)["list"].made
        /\ c(p)["deal"] = lists_claim[p]["deal"] /\ c(p)["gleif"] = lists_claim[p]["gleif"]
    BY <2>1, <2>4, <2>5 DEF Lists!Family
  <2> QED BY <2>3, <2>6
<1> HIDE DEF drawn, j, e, c
<1>9. /\ lists_edge' \in [Lists!Pair -> EdgeRec] /\ lists_claim' \in [Lists!Pair -> [Lists!Family -> ClaimRec]]
      /\ \A p \in Lists!Pair : p \in drawn =>
           /\ lists_edge'[p].src = "sec" /\ lists_edge'[p].form = "list" /\ lists_edge'[p].url = y /\ ~lists_edge'[p].stale
           /\ lists_claim'[p]["list"].made
      /\ \A p \in Lists!Pair : p \notin drawn => lists_edge'[p] = lists_edge[p] /\ lists_claim'[p] = lists_claim[p]
      /\ \A p \in Lists!Pair : Fits(lists_edge'[p]) /\ lists_claim'[p]["deal"] = lists_claim[p]["deal"]
  BY <1>1, <1>8 DEF ListsShaped
<1>10. lists_job' = [r \in Lists!Pass |-> lists_job'[r]] /\ lists_job'["list"] = j
  BY <1>1, PassMoves DEF Lists!Pass
<1>11. ListsShaped'
  BY <1>1, <1>7, <1>9, <1>10 DEF ListsShaped
<1>12. ~Lists!At("list", "idle")' /\ ~Lists!At("list", "detach")' /\ ~Lists!At("list", "stamp")' /\ (Moving' <=> Lists!Nested(y, s))
  BY <1>7, <1>10 DEF Lists!At, Moving
<1>13. \A p : ~Pending(p)' /\ ~Pending(p)
  BY <1>2, <1>12 DEF Pending
<1>14. Withdrawn'
  BY <1>13 DEF Withdrawn
<1>15. Backed'
  <2>1. ASSUME NEW p \in Lists!Pair
        PROVE  Backs(lists_edge'[p], lists_claim'[p], p \in lists_torn' \/ Pending(p)')
    <3>1. CASE p \in drawn
      BY <1>9, <3>1 DEF Backs, Lists!None
    <3>2. CASE p \notin drawn
      <4>1. Backs(lists_edge[p], lists_claim[p], p \in lists_torn)
        BY <1>13 DEF Backed
      <4>2. p \in lists_torn' \/ Pending(p)' <=> p \in lists_torn
        BY <1>1, <1>13, <3>2
      <4> QED BY <1>9, <3>2, <4>1, <4>2 DEF Backs
    <3> QED BY <3>1, <3>2
  <2> QED BY <2>1 DEF Backed
<1>16. \A z :
         /\ OwnList(z)' <=> OwnList(z)
         /\ Newest(z)' <=> Newest(z)
         /\ Lists!Named(z)' = Lists!Named(z) /\ Lists!Holders(z)' = Lists!Holders(z)
         /\ Lists!ListedPairs(z)' = Lists!ListedPairs(z)
         /\ \A t : Over(z, t)' = Over(z, t) /\ (Lists!Nested(z, t)' <=> Lists!Nested(z, t))
  BY <1>1, SameLists
<1>17. Cited'
  BY <1>3, <1>6, <1>9, <1>16 DEF Cited
<1>18. \A t \in Lists!Named(y) : Held(y, t) => Held(y, t)'
  <2> SUFFICES ASSUME NEW t \in Lists!Named(y), Held(y, t) PROVE Held(y, t)'
    OBVIOUS
  <2>1. ASSUME NEW o \in Over(y, t)
        PROVE  lists_edge'[<<o, t>>].form = "list" /\ ~lists_edge'[<<o, t>>].stale /\ lists_edge'[<<o, t>>].url = y
    <3>1. <<o, t>> \in Lists!Pair
      BY <1>4
    <3>2. lists_edge[<<o, t>>].form = "list" /\ ~lists_edge[<<o, t>>].stale /\ lists_edge[<<o, t>>].url = y
      BY DEF Held
    <3> QED BY <1>9, <3>1, <3>2
  <2> QED BY <1>16, <2>1 DEF Held
<1>19. Held(y, s)'
  <2>1. ASSUME NEW o \in Over(y, s)
        PROVE  lists_edge'[<<o, s>>].form = "list" /\ ~lists_edge'[<<o, s>>].stale /\ lists_edge'[<<o, s>>].url = y
    BY <1>4, <1>5, <1>9
  <2> QED BY <1>16, <2>1 DEF Held
<1>20. \A t \in Lists!Named(y) : Apart(y, t) => Apart(y, t)'
  <2> SUFFICES ASSUME NEW t \in Lists!Named(y), Apart(y, t) PROVE Apart(y, t)'
    OBVIOUS
  <2>1. CASE <<ListFiler, t>> \in drawn
    <3>1. ~Lists!Nested(y, t)
      BY <1>4, <1>5, <2>1
    <3> QED BY <1>16, <3>1 DEF Apart
  <2>2. CASE <<ListFiler, t>> \notin drawn
    BY <1>4, <1>9, <1>16, <2>2 DEF Apart
  <2> QED BY <2>1, <2>2
<1>21. ~Lists!Nested(y, s) => Apart(y, s)'
  BY <1>16 DEF Apart
<1>22. Drawing'
  <2>1. /\ OwnList(y)' /\ lists_ingested' <= y /\ j.rows \subseteq Lists!Named(y)'
        /\ \A q \in Lists!Pair : lists_edge'[q].form = "list" => lists_edge'[q].url <= y
        /\ Moving' => s \in Lists!Named(y)' /\ Lists!Nested(y, s)'
        /\ ~Lists!At("list", "stamp")'
    BY <1>1, <1>3, <1>4, <1>7, <1>9, <1>12, <1>16
  <2>2. \A t \in Lists!Named(y)' \ j.rows : Held(y, t)' /\ (Apart(y, t)' \/ (Moving' /\ t = s))
    <3> SUFFICES ASSUME NEW t \in Lists!Named(y), t \notin j.rows
                 PROVE  Held(y, t)' /\ (Apart(y, t)' \/ (Moving' /\ t = s))
      BY <1>16
    <3>1. CASE t = s
      BY <1>12, <1>19, <1>21, <3>1
    <3>2. CASE t # s
      BY <1>3, <1>7, <1>18, <1>20, <3>2
    <3> QED BY <3>1, <3>2
  <2> QED BY <1>7, <1>10, <2>1, <2>2 DEF Drawing
<1>23. Finished'
  <2>1. Dimmed(y) => Dimmed(y)'
    BY <1>6, <1>9, <1>16 DEF Dimmed
  <2> QED
    BY <1>1, <1>3, <1>16, <1>18, <1>20, <2>1 DEF Finished
<1> QED
  BY <1>11, <1>14, <1>15, <1>17, <1>22, <1>23

LEMMA DetachKeeps ==
  ASSUME ListFigures, ListsInv, Lists!Detach
  PROVE  ListsInv'
<1> USE DEF ListsInv
<1>0. PICK y, r : y = lists_job["list"].y /\ r = lists_job["list"].row
  OBVIOUS
<1> DEFINE j == [lists_job["list"] EXCEPT !.at = "rows"]
           p == <<ListFiler, r>>
           e == IF lists_edge[p].src = "sec" THEN Lists!Reanswered(lists_edge[p], lists_claim[p]) ELSE lists_edge[p]
<1>1. /\ UNCHANGED <<lists_filed, lists_claim, lists_ingested>> /\ Lists!At("list", "detach") /\ Lists!Do("list", j)
      /\ lists_edge' = [lists_edge EXCEPT ![p] = e] /\ lists_torn' = lists_torn \ {p}
  BY <1>0 DEF Lists!Detach
<1>2. ~Lists!At("list", "idle") /\ ~Lists!At("list", "stamp") /\ Moving
  BY <1>1 DEF Lists!At, Moving
<1>3. /\ lists_job["list"] \in ListJob /\ y \in Nat
      /\ OwnList(y) /\ lists_ingested <= y /\ lists_job["list"].rows \subseteq Lists!Named(y)
      /\ \A q \in Lists!Pair : lists_edge[q].form = "list" => lists_edge[q].url <= y
      /\ r \in Lists!Named(y) /\ Lists!Nested(y, r)
      /\ \A t \in Lists!Named(y) \ lists_job["list"].rows : Held(y, t) /\ (Apart(y, t) \/ t = r)
      /\ lists_ingested # 0 => OwnList(lists_ingested) /\ (Newest(lists_ingested) => lists_ingested = y)
  BY <1>0, <1>2, AtWork
<1>4. /\ p \in Lists!Pair /\ \A t \in Lists!Named(y) : <<ListFiler, t>> \in Lists!Pair
      /\ \A t \in Lists!Named(y) : \A o \in Over(y, t) : <<o, t>> \in Lists!Pair
      /\ ListFiler \notin Over(y, r)
  BY <1>3, RowsRead DEF ListsShaped
<1>5. /\ j \in ListJob /\ j.at = "rows" /\ j.y = y /\ j.rows = lists_job["list"].rows
  BY <1>0, <1>3 DEF ListJob
<1>6. Pending(p) /\ ~lists_claim[p]["list"].made /\ \A q : Pending(q) => q = p
  BY <1>0, <1>1, <1>4 DEF Pending, Withdrawn
<1>7. lists_edge[p] \in EdgeRec /\ Fits(lists_edge[p]) /\ lists_claim[p] \in [Lists!Family -> ClaimRec]
  BY <1>4 DEF ListsShaped
<1>8. Backs(lists_edge[p], lists_claim[p], TRUE)
  BY <1>4, <1>6 DEF Backed, Backs
<1>9. \A o, t : <<o, t>> = p => o = ListFiler /\ t = r
  OBVIOUS
<1> HIDE DEF j, p
<1>10. e \in EdgeRec /\ Fits(e) /\ e.form # "list" /\ Backs(e, lists_claim[p], FALSE)
  <2>1. CASE lists_edge[p].src = "sec"
    <3>1. /\ e \in EdgeRec /\ Fits(e) /\ e.form # "list"
          /\ e.form = "deal" => lists_claim[p]["deal"].made
          /\ e.src = "gleif" => lists_claim[p]["gleif"].made
          /\ e.src = Lists!None => ~lists_claim[p]["deal"].made /\ ~lists_claim[p]["gleif"].made
      BY <1>7, <2>1, ReansweredFacts
    <3> HIDE DEF e
    <3>2. e.src = Lists!None => \A f \in Lists!Family : ~lists_claim[p][f].made
      BY <1>6, <3>1 DEF Lists!Family
    <3> QED BY <3>1, <3>2 DEF Backs
  <2>2. CASE lists_edge[p].src # "sec"
    BY <1>7, <1>8, <2>2 DEF Fits, Backs, Lists!None
  <2> QED BY <2>1, <2>2
<1> HIDE DEF e
<1>11. /\ lists_edge' \in [Lists!Pair -> EdgeRec] /\ lists_edge'[p] = e /\ \A q \in Lists!Pair : q # p => lists_edge'[q] = lists_edge[q]
  BY <1>1, <1>4, <1>10 DEF ListsShaped
<1>12. lists_job' = [q \in Lists!Pass |-> lists_job'[q]] /\ lists_job'["list"] = j
  BY <1>1, PassMoves DEF Lists!Pass
<1>13. ListsShaped'
  BY <1>1, <1>5, <1>10, <1>11, <1>12 DEF ListsShaped
<1>14. ~Lists!At("list", "idle")' /\ ~Lists!At("list", "detach")' /\ ~Lists!At("list", "stamp")' /\ ~Moving'
  BY <1>5, <1>12 DEF Lists!At, Moving
<1>15. \A q : ~Pending(q)'
  BY <1>14 DEF Pending
<1>16. Withdrawn'
  BY <1>15 DEF Withdrawn
<1>17. Backed'
  <2>1. ASSUME NEW q \in Lists!Pair
        PROVE  Backs(lists_edge'[q], lists_claim'[q], q \in lists_torn' \/ Pending(q)')
    <3>1. CASE q = p
      BY <1>1, <1>10, <1>11, <1>15, <3>1 DEF Backs
    <3>2. CASE q # p
      <4>1. Backs(lists_edge[q], lists_claim[q], q \in lists_torn)
        BY <1>6, <3>2 DEF Backed
      <4>2. q \in lists_torn' \/ Pending(q)' <=> q \in lists_torn
        BY <1>1, <1>15, <3>2
      <4> QED BY <1>1, <1>11, <3>2, <4>1, <4>2 DEF Backs
    <3> QED BY <3>1, <3>2
  <2> QED BY <2>1 DEF Backed
<1>18. \A z :
         /\ OwnList(z)' <=> OwnList(z)
         /\ Newest(z)' <=> Newest(z)
         /\ Lists!Named(z)' = Lists!Named(z) /\ Lists!Holders(z)' = Lists!Holders(z)
         /\ Lists!ListedPairs(z)' = Lists!ListedPairs(z)
         /\ \A t : Over(z, t)' = Over(z, t) /\ (Lists!Nested(z, t)' <=> Lists!Nested(z, t))
  BY <1>1, SameLists
<1>19. Cited'
  BY <1>10, <1>11, <1>18 DEF Cited
<1>20. \A t \in Lists!Named(y) : Held(y, t) => Held(y, t)'
  <2> SUFFICES ASSUME NEW t \in Lists!Named(y), Held(y, t) PROVE Held(y, t)'
    OBVIOUS
  <2>1. \A o \in Over(y, t) : lists_edge'[<<o, t>>] = lists_edge[<<o, t>>]
    BY <1>4, <1>9, <1>11
  <2> QED BY <1>18, <2>1, OneRow
<1>21. \A t \in Lists!Named(y) : Apart(y, t) \/ t = r => Apart(y, t)'
  <2> SUFFICES ASSUME NEW t \in Lists!Named(y), Apart(y, t) \/ t = r PROVE Apart(y, t)'
    OBVIOUS
  <2>1. CASE t = r
    BY <1>10, <1>11, <1>18, <2>1 DEF Apart, p
  <2>2. CASE t # r
    <3>1. lists_edge'[<<ListFiler, t>>] = lists_edge[<<ListFiler, t>>]
      BY <1>4, <1>9, <1>11, <2>2
    <3> QED BY <1>18, <2>2, <3>1, OneRow
  <2> QED BY <2>1, <2>2
<1>22. Drawing'
  <2>1. /\ OwnList(y)' /\ lists_ingested' <= y /\ j.rows \subseteq Lists!Named(y)'
        /\ \A q \in Lists!Pair : lists_edge'[q].form = "list" => lists_edge'[q].url <= y
        /\ \A t \in Lists!Named(y)' \ j.rows : Held(y, t)' /\ Apart(y, t)'
    BY <1>1, <1>3, <1>5, <1>10, <1>11, <1>18, <1>20, <1>21
  <2> QED BY <1>5, <1>12, <1>14, <2>1 DEF Drawing
<1>23. Finished'
  <2>1. Dimmed(y) => Dimmed(y)'
    BY <1>1, <1>10, <1>11, <1>18 DEF Dimmed
  <2> QED
    BY <1>1, <1>3, <1>18, <1>20, <1>21, <2>1 DEF Finished
<1> QED
  BY <1>13, <1>16, <1>17, <1>19, <1>22, <1>23

LEMMA DimKeeps ==
  ASSUME ListFigures, ListsInv, Lists!Dim
  PROVE  ListsInv'
<1> USE DEF ListsInv
<1>0. PICK y : y = lists_job["list"].y
  OBVIOUS
<1> DEFINE j == [lists_job["list"] EXCEPT !.at = "stamp"]
           e(p) == [lists_edge[p] EXCEPT !.stale = TRUE]
<1>1. /\ UNCHANGED <<lists_filed, lists_claim, lists_ingested, lists_torn>> /\ Lists!At("list", "rows") /\ lists_job["list"].rows = {}
      /\ Lists!Do("list", j)
      /\ lists_edge' = [p \in Lists!Pair |-> IF Lists!Unlisted(p, y) THEN e(p) ELSE lists_edge[p]]
  BY <1>0 DEF Lists!Dim
<1>2. ~Lists!At("list", "idle") /\ ~Lists!At("list", "detach") /\ ~Lists!At("list", "stamp") /\ ~Moving
  BY <1>1 DEF Lists!At, Moving
<1>3. /\ lists_job["list"] \in ListJob /\ y \in Nat
      /\ OwnList(y) /\ lists_ingested <= y
      /\ \A q \in Lists!Pair : lists_edge[q].form = "list" => lists_edge[q].url <= y
      /\ \A t \in Lists!Named(y) : Held(y, t) /\ Apart(y, t)
      /\ lists_ingested # 0 => OwnList(lists_ingested) /\ (Newest(lists_ingested) => lists_ingested = y)
  BY <1>0, <1>1, <1>2, AtWork
<1>4. \A t \in Lists!Named(y) :
        /\ <<ListFiler, t>> \in Lists!Pair
        /\ \A o \in Over(y, t) : <<o, t>> \in Lists!Pair
  BY <1>3, RowsRead DEF ListsShaped
<1>5. /\ j \in ListJob /\ j.at = "stamp" /\ j.y = y /\ j.rows = {}
  BY <1>0, <1>1, <1>3 DEF ListJob
<1>6. ASSUME NEW p \in Lists!Pair
      PROVE  /\ e(p) \in EdgeRec /\ e(p).src = lists_edge[p].src /\ e(p).form = lists_edge[p].form
             /\ e(p).url = lists_edge[p].url /\ e(p).stale
  <2>1. lists_edge[p] \in EdgeRec
    BY DEF ListsShaped
  <2> QED BY <2>1 DEF EdgeRec
<1> HIDE DEF j, e
<1>7. lists_job' = [q \in Lists!Pass |-> lists_job'[q]] /\ lists_job'["list"] = j
  BY <1>1, PassMoves DEF Lists!Pass
<1>8. /\ lists_edge' \in [Lists!Pair -> EdgeRec]
      /\ \A p \in Lists!Pair :
           /\ lists_edge'[p].src = lists_edge[p].src /\ lists_edge'[p].form = lists_edge[p].form
           /\ lists_edge'[p].url = lists_edge[p].url
           /\ IF Lists!Unlisted(p, y) THEN lists_edge'[p].stale ELSE lists_edge'[p] = lists_edge[p]
  BY <1>1, <1>6 DEF ListsShaped
<1>9. \A p \in Lists!Pair : Fits(lists_edge'[p])
  <2> SUFFICES ASSUME NEW p \in Lists!Pair PROVE Fits(lists_edge'[p])
    OBVIOUS
  <2>1. Fits(lists_edge[p])
    BY DEF ListsShaped
  <2>2. CASE Lists!Unlisted(p, y)
    BY <1>8, <2>1, <2>2 DEF Fits, Lists!Unlisted, Lists!None
  <2>3. CASE ~Lists!Unlisted(p, y)
    BY <1>8, <2>1, <2>3
  <2> QED BY <2>2, <2>3
<1>10. ListsShaped'
  BY <1>1, <1>5, <1>7, <1>8, <1>9 DEF ListsShaped
<1>11. ~Lists!At("list", "idle")' /\ ~Lists!At("list", "detach")' /\ ~Moving'
  BY <1>5, <1>7 DEF Lists!At, Moving
<1>12. \A p : ~Pending(p)' /\ ~Pending(p)
  BY <1>2, <1>11 DEF Pending
<1>13. Backed' /\ Withdrawn'
  BY <1>1, <1>8, <1>12 DEF Backed, Withdrawn, Backs
<1>14. \A z :
         /\ OwnList(z)' <=> OwnList(z)
         /\ Newest(z)' <=> Newest(z)
         /\ Lists!Named(z)' = Lists!Named(z) /\ Lists!Holders(z)' = Lists!Holders(z)
         /\ Lists!ListedPairs(z)' = Lists!ListedPairs(z)
         /\ \A t : Over(z, t)' = Over(z, t) /\ (Lists!Nested(z, t)' <=> Lists!Nested(z, t))
  BY <1>1, SameLists
<1>15. Cited'
  BY <1>8, <1>14 DEF Cited
<1>16. \A t \in Lists!Named(y) : Held(y, t)' /\ Apart(y, t)'
  <2> SUFFICES ASSUME NEW t \in Lists!Named(y) PROVE Held(y, t)' /\ Apart(y, t)'
    OBVIOUS
  <2>1. ASSUME NEW o \in Over(y, t)
        PROVE  lists_edge'[<<o, t>>] = lists_edge[<<o, t>>]
    <3>1. <<o, t>> \in Lists!Pair /\ lists_edge[<<o, t>>].url = y
      BY <1>3, <1>4 DEF Held
    <3>2. ~Lists!Unlisted(<<o, t>>, y)
      BY <1>3, <3>1 DEF Lists!Unlisted
    <3> QED BY <1>8, <3>1, <3>2
  <2>2. Held(y, t)'
    BY <1>3, <1>14, <2>1, OneRow
  <2>3. lists_edge'[<<ListFiler, t>>].form = lists_edge[<<ListFiler, t>>].form
    BY <1>4, <1>8
  <2>4. Apart(y, t)'
    BY <1>3, <1>14, <2>3 DEF Apart
  <2> QED BY <2>2, <2>4
<1>17. Dimmed(y)'
  <2>1. ASSUME NEW p \in Lists!Pair \ Lists!ListedPairs(y), p[1] \in Lists!Holders(y), lists_edge'[p].form = "list"
        PROVE  lists_edge'[p].stale
    <3>1. lists_edge[p].form = "list" /\ lists_edge[p].url \in Nat /\ lists_edge[p].url <= y
      BY <1>3, <1>8, <2>1 DEF ListsShaped, EdgeRec
    <3>2. lists_edge[p].url # y
      BY <2>1, <3>1 DEF Cited
    <3>3. Lists!Unlisted(p, y)
      BY <1>3, <2>1, <3>1, <3>2 DEF Lists!Unlisted
    <3> QED BY <1>8, <2>1, <3>3
  <2> QED BY <1>14, <2>1 DEF Dimmed
<1>18. Drawing'
  <2>1. /\ OwnList(y)' /\ lists_ingested' <= y /\ j.rows \subseteq Lists!Named(y)'
        /\ \A q \in Lists!Pair : lists_edge'[q].form = "list" => lists_edge'[q].url <= y
        /\ \A t \in Lists!Named(y)' \ j.rows : Held(y, t)' /\ Apart(y, t)'
    BY <1>1, <1>3, <1>5, <1>8, <1>14, <1>16
  <2> QED BY <1>5, <1>7, <1>11, <1>17, <2>1 DEF Drawing
<1>19. Finished'
  BY <1>1, <1>3, <1>14, <1>16, <1>17 DEF Finished
<1> QED
  BY <1>10, <1>13, <1>15, <1>18, <1>19

\* The pass is over, or dead.
LEMMA StopKeeps ==
  ASSUME ListFigures, ListsInv, UNCHANGED <<lists_filed, lists_edge, lists_claim>>, Lists!Do("list", Lists!Idle),
         \A p : p \in lists_torn \/ Pending(p) <=> p \in lists_torn',
         lists_ingested' = lists_ingested \/ (Lists!At("list", "stamp") /\ lists_ingested' = lists_job["list"].y)
  PROVE  ListsInv'
<1> USE DEF ListsInv
<1>1. lists_job' = [q \in Lists!Pass |-> lists_job'[q]] /\ lists_job'["list"] = Lists!Idle
  BY PassMoves DEF Lists!Pass
<1>2. Lists!At("list", "idle")' /\ \A p : ~Pending(p)'
  BY <1>1 DEF Lists!At, Lists!Idle, Pending
<1>3. \A z :
        /\ OwnList(z)' <=> OwnList(z)
        /\ Newest(z)' <=> Newest(z)
        /\ Lists!Named(z)' = Lists!Named(z) /\ Lists!Holders(z)' = Lists!Holders(z)
        /\ Lists!ListedPairs(z)' = Lists!ListedPairs(z)
        /\ \A t : Over(z, t)' = Over(z, t) /\ (Lists!Nested(z, t)' <=> Lists!Nested(z, t))
  BY SameLists
<1>4. \A z, s : (Held(z, s)' <=> Held(z, s)) /\ (Apart(z, s)' <=> Apart(z, s))
  BY <1>3 DEF Held, Apart
<1>5. \A z : Dimmed(z)' <=> Dimmed(z)
  BY <1>3 DEF Dimmed
<1>6. Backed'
  <2>1. ASSUME NEW p \in Lists!Pair
        PROVE  Backs(lists_edge'[p], lists_claim'[p], p \in lists_torn' \/ Pending(p)')
    BY <1>2 DEF Backed, Backs
  <2> QED BY <2>1 DEF Backed
<1>7. Withdrawn' /\ Drawing'
  BY <1>2 DEF Withdrawn, Drawing
<1>8. Cited'
  BY <1>3 DEF Cited
<1>9. CASE lists_ingested' = lists_ingested
  <2>1. ListsShaped'
    BY <1>1, <1>9 DEF ListsShaped
  <2>2. Finished'
    BY <1>3, <1>4, <1>5, <1>9 DEF Finished
  <2> QED BY <1>6, <1>7, <1>8, <2>1, <2>2
<1>10. CASE Lists!At("list", "stamp") /\ lists_ingested' = lists_job["list"].y
  <2>0. PICK y : y = lists_job["list"].y
    OBVIOUS
  <2>1. ~Lists!At("list", "idle") /\ ~Moving
    BY <1>10 DEF Lists!At, Moving
  <2>2. /\ y \in Nat /\ OwnList(y) /\ Dimmed(y)
        /\ \A s \in Lists!Named(y) : Held(y, s) /\ Apart(y, s)
    BY <1>10, <2>0, <2>1, AtWork
  <2>3. ListsShaped'
    BY <1>1, <1>10, <2>0, <2>2 DEF ListsShaped
  <2>4. lists_ingested' = y
    BY <1>10, <2>0
  <2>5. /\ OwnList(y)'
        /\ Newest(y)' => (\A s \in Lists!Named(y)' : Held(y, s)' /\ Apart(y, s)') /\ Dimmed(y)'
    BY <1>3, <1>4, <1>5, <2>2
  <2>6. Finished'
    BY <2>4, <2>5 DEF Finished
  <2> QED BY <1>6, <1>7, <1>8, <2>3, <2>6
<1> QED
  BY <1>9, <1>10

LEMMA StampKeeps ==
  ASSUME ListFigures, ListsInv, Lists!Stamp
  PROVE  ListsInv'
<1>1. \A p : ~Pending(p)
  BY DEF Lists!Stamp, Lists!At, Pending
<1> QED
  BY <1>1, StopKeeps DEF Lists!Stamp

LEMMA DieKeeps ==
  ASSUME ListFigures, ListsInv, NEW q \in Lists!Pass, Lists!Die(q)
  PROVE  ListsInv'
<1>1. UNCHANGED <<lists_filed, lists_edge, lists_claim, lists_ingested>> /\ Lists!Do(q, Lists!Idle)
  BY DEF Lists!Die
<1>2. CASE q = "list"
  <2>1. lists_torn' = IF Lists!At("list", "detach") THEN lists_torn \cup {<<ListFiler, lists_job["list"].row>>} ELSE lists_torn
    BY <1>2 DEF Lists!Die
  <2>2. \A p : p \in lists_torn \/ Pending(p) <=> p \in lists_torn'
    BY <2>1 DEF Pending
  <2> QED BY <1>1, <1>2, <2>2, StopKeeps
<1>3. CASE q # "list"
  <2>1. UNCHANGED lists_torn
    BY <1>3 DEF Lists!Die
  <2>2. lists_job' = [r \in Lists!Pass |-> lists_job'[r]] /\ lists_job'["list"] = lists_job["list"]
    BY <1>1, <1>3, PassMoves DEF ListsInv, Lists!Pass
  <2> QED BY <1>1, <2>1, <2>2, QuietPass
<1> QED
  BY <1>2, <1>3

-----------------------------------------------------------------------------

LEMMA ListsNext ==
  ASSUME ListFigures, ListsInv, [Lists!Next]_(Lists!vars)
  PROVE  ListsInv'
<1>1. ASSUME NEW x \in ListExhibits, Lists!FileAnnual(x) PROVE ListsInv'
  BY <1>1, FileAnnualKeeps
<1>2. ASSUME Lists!FileQuarterly PROVE ListsInv'
  <2>1. lists_job' = [r \in Lists!Pass |-> lists_job'[r]]
    BY <1>2 DEF Lists!FileQuarterly, ListsInv, ListsShaped
  <2> QED BY <1>2, <2>1, QuietPass DEF Lists!FileQuarterly
<1>3. ASSUME NEW p \in ListRelated, Lists!GleifStates(p) PROVE ListsInv'
  BY <1>3, GleifStatesKeeps
<1>4. ASSUME NEW p \in Lists!Pair, Lists!Date(p) PROVE ListsInv'
  BY <1>4, DateKeeps
<1>5. ASSUME NEW force \in BOOLEAN, Lists!OpenList(force) PROVE ListsInv'
  BY <1>5, OpenListKeeps
<1>6. ASSUME NEW force \in BOOLEAN, Lists!OpenReports(force) PROVE ListsInv'
  <2>1. \E j : Lists!Do("deals", j)
    BY <1>6 DEF Lists!OpenReports
  <2>2. lists_job' = [r \in Lists!Pass |-> lists_job'[r]] /\ lists_job'["list"] = lists_job["list"]
    BY <2>1, PassMoves DEF ListsInv, Lists!Pass
  <2> QED BY <1>6, <2>2, QuietPass DEF Lists!OpenReports
<1>7. ASSUME NEW s \in ListSubs, Lists!DrawRow(s) PROVE ListsInv'
  BY <1>7, DrawRowKeeps
<1>8. ASSUME Lists!OpenHistory PROVE ListsInv'
  <2>1. \E j : Lists!Do("dates", j)
    BY <1>8 DEF Lists!OpenHistory
  <2>2. lists_job' = [r \in Lists!Pass |-> lists_job'[r]] /\ lists_job'["list"] = lists_job["list"]
    BY <2>1, PassMoves DEF ListsInv, Lists!Pass
  <2> QED BY <1>8, <2>2, QuietPass DEF Lists!OpenHistory
<1>9. ASSUME NEW d \in ListDeals, Lists!Acquire(d) PROVE ListsInv'
  BY <1>9, AcquireKeeps
<1>10. ASSUME Lists!StampReports PROVE ListsInv'
  <2>1. Lists!Do("deals", Lists!Idle)
    BY <1>10 DEF Lists!StampReports
  <2>2. lists_job' = [r \in Lists!Pass |-> lists_job'[r]] /\ lists_job'["list"] = lists_job["list"]
    BY <2>1, PassMoves DEF ListsInv, Lists!Pass
  <2> QED BY <1>10, <2>2, QuietPass DEF Lists!StampReports
<1>11. ASSUME NEW q \in Lists!Pass, Lists!Die(q) PROVE ListsInv'
  BY <1>11, DieKeeps
<1>12. ASSUME UNCHANGED Lists!vars PROVE ListsInv'
  <2>1. UNCHANGED <<lists_filed, lists_edge, lists_claim, lists_ingested, lists_torn, lists_job>>
    BY <1>12 DEF Lists!vars
  <2>2. lists_job' = [r \in Lists!Pass |-> lists_job'[r]]
    BY <2>1 DEF ListsInv, ListsShaped
  <2> QED BY <2>1, <2>2, QuietPass
<1> QED
  BY <1>1, <1>2, <1>3, <1>4, <1>5, <1>6, <1>7, <1>8, <1>9, <1>10, <1>11, <1>12,
     WithdrawKeeps, DetachKeeps, DimKeeps, StampKeeps DEF Lists!Next

LEMMA ListsInit ==
  ASSUME Lists!Init
  PROVE  ListsInv
<1>1. ListsShaped
  <2>1. Lists!NoEdge \in EdgeRec /\ Fits(Lists!NoEdge)
    BY DEF Lists!NoEdge, EdgeRec, Lists!Basis, Fits, Lists!None
  <2>2. Lists!NoClaim \in ClaimRec
    BY DEF Lists!NoClaim, ClaimRec, Lists!Basis
  <2> QED BY <2>1, <2>2 DEF Lists!Init, ListsShaped, Lists!Pass
<1>2. Lists!At("list", "idle")
  BY DEF Lists!Init, Lists!At, Lists!Pass, Lists!Idle
<1>3. \A p : ~Pending(p)
  BY <1>2 DEF Pending, Lists!At
<1>4. \A p \in Lists!Pair : lists_edge[p] = Lists!NoEdge /\ \A f \in Lists!Family : ~lists_claim[p][f].made
  BY DEF Lists!Init, Lists!NoClaim
<1>5. Lists!NoEdge.src = Lists!None /\ Lists!NoEdge.form = Lists!None
  BY DEF Lists!NoEdge
<1>6. Backed
  BY <1>4, <1>5 DEF Backed, Backs, Lists!None
<1>7. Cited
  BY <1>4, <1>5 DEF Cited, Lists!None
<1> QED
  BY <1>1, <1>2, <1>3, <1>6, <1>7 DEF ListsInv, Withdrawn, Drawing, Finished, Lists!Init

\* Whatever passes run beside each other and die on the way, what stands between the
\* claims, the edges and the lists holds in every state.
THEOREM ListsInvariance ==
  ASSUME ListFigures
  PROVE  Lists!Spec => []ListsInv
<1>1. Lists!Init => ListsInv
  BY ListsInit
<1>2. ListsInv /\ [Lists!Next]_(Lists!vars) => ListsInv'
  BY ListsNext
<1> QED
  BY <1>1, <1>2, PTL DEF Lists!Spec

\* Once the newest list is drawn, the graph shows it and what it no longer names is
\* dimmed (run_sec_ex21, mark_ex21_stale).
THEOREM TheListStands ==
  ASSUME ListFigures
  PROVE  Lists!Spec => []ListStands
<1>1. ListsInv => ListStands
  <2> SUFFICES ASSUME ListsInv, Lists!Drawn PROVE Lists!GraphShowsList /\ Lists!UnlistedDimmed
    BY DEF ListStands, Lists!GraphShowsList, Lists!UnlistedDimmed
  <2>1. lists_ingested # 0 /\ OwnList(lists_ingested) /\ Newest(lists_ingested)
    BY NewestIsOwn DEF Lists!Drawn, ListsInv, ListsShaped
  <2>2. (\A s \in Lists!Named(lists_ingested) : Held(lists_ingested, s) /\ Apart(lists_ingested, s)) /\ Dimmed(lists_ingested)
    BY <2>1 DEF ListsInv, Finished
  <2>3. \A p \in Lists!ListedPairs(lists_ingested) : lists_edge[p].form = "list" /\ ~lists_edge[p].stale
    BY <2>2, ListedBy DEF Held
  <2> QED BY <2>2, <2>3 DEF Lists!GraphShowsList, Lists!UnlistedDimmed, Apart, Dimmed
<1> QED
  BY <1>1, ListsInvariance, PTL

\* Once the newest list is drawn, an edge stands where a claim stands and cites one
\* that does, but for a withdrawal a crash cut in two.
THEOREM TheAnswerIsClaimed ==
  ASSUME ListFigures
  PROVE  Lists!Spec => []AnswerIsClaimed
<1>1. ListsInv => AnswerIsClaimed
  <2> SUFFICES ASSUME ListsInv, Lists!Drawn, NEW p \in Lists!Pair \ lists_torn
               PROVE  /\ (lists_edge[p] = Lists!NoEdge) = (\A f \in Lists!Family : ~lists_claim[p][f].made)
                      /\ lists_edge[p] # Lists!NoEdge => lists_claim[p][IF lists_edge[p].src = "sec" THEN lists_edge[p].form ELSE "gleif"].made
    BY DEF AnswerIsClaimed, Lists!AnswerIsClaimed
  <2>1. ~Pending(p)
    BY DEF Lists!Drawn, Lists!At, Pending
  <2>2. /\ lists_edge[p] \in EdgeRec /\ Fits(lists_edge[p])
        /\ lists_edge[p].src = Lists!None => \A f \in Lists!Family : ~lists_claim[p][f].made
        /\ lists_edge[p].src = "gleif" => lists_claim[p]["gleif"].made
        /\ lists_edge[p].form = "deal" => lists_claim[p]["deal"].made
        /\ lists_edge[p].form = "list" => lists_claim[p]["list"].made
    BY <2>1 DEF ListsInv, ListsShaped, Backed, Backs
  <2>3. Lists!NoEdge.src = Lists!None /\ lists_edge[p].src \in {Lists!None, "sec", "gleif"} /\ lists_edge[p].form \in {Lists!None, "list", "deal"}
    BY <2>2 DEF Lists!NoEdge, EdgeRec
  <2>4. CASE lists_edge[p].src = Lists!None
    BY <2>2, <2>4 DEF Fits
  <2>5. CASE lists_edge[p].src = "gleif"
    BY <2>2, <2>3, <2>5 DEF Lists!None, Lists!Family
  <2>6. CASE lists_edge[p].src = "sec"
    <3>1. lists_edge[p].form \in {"list", "deal"} /\ lists_edge[p] # Lists!NoEdge
      BY <2>2, <2>3, <2>6 DEF Fits, Lists!None
    <3>2. lists_edge[p].form \in Lists!Family /\ lists_claim[p][lists_edge[p].form].made
      BY <2>2, <3>1 DEF Lists!Family
    <3>3. lists_edge[p] # Lists!NoEdge /\ ~(\A f \in Lists!Family : ~lists_claim[p][f].made)
      BY <3>1, <3>2
    <3> QED BY <2>6, <3>2, <3>3
  <2> QED BY <2>3, <2>4, <2>5, <2>6
<1> QED
  BY <1>1, ListsInvariance, PTL

\* The suite's runs are runs of each component.
THEOREM SuiteRuns == SuiteSpec => Seats!Spec /\ Gleif!Spec /\ Lists!Spec /\ Spec
<1> DEFINE all == <<part, vars, gleifVars, seatsVars, listsVars, xVars>>
<1>1. SuiteInit => Seats!Init /\ Gleif!Init /\ Lists!Init /\ Init
  BY DEF SuiteInit
<1>2. ASSUME [SuiteNext]_all PROVE [Seats!Next]_(Seats!vars)
  BY <1>2 DEF SuiteNext, Seats!vars, seatsVars
<1>3. ASSUME [SuiteNext]_all PROVE [Lists!Next]_(Lists!vars)
  BY <1>3 DEF SuiteNext, Lists!vars, listsVars
<1>4. ASSUME [SuiteNext]_all PROVE [Next]_vars
  BY <1>4 DEF SuiteNext, vars
<1>5. ASSUME [SuiteNext]_all PROVE [Gleif!Next]_(Gleif!vars)
  BY <1>5 DEF SuiteNext, Gleif!vars, gleifVars
<1> QED
  BY <1>1, <1>2, <1>3, <1>4, <1>5, PTL DEF SuiteSpec, Seats!Spec, Gleif!Spec, Lists!Spec, Spec
=============================================================================
