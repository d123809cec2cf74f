--------------------------- MODULE ScrapesProofs ---------------------------
(***************************************************************************)
(* What runs that read and write again keep, for every value of the        *)
(* parameters: the dated stakes of a claim; the flags of the holdings that *)
(* other holdings make redundant; the managers' quarterly reports; and the *)
(* copy of the PSC register, which implements the abstract register        *)
(* mirror.                                                                 *)
(***************************************************************************)
EXTENDS MCScrapes, FiniteSetTheorems, NaturalsInduction, WellFoundedInduction, TLAPS

-----------------------------------------------------------------------------
(* The dated stakes *)

StakeFigures == StakeSizes \subseteq Nat /\ StakeLine \in Nat /\ StakeDays \in Nat

StakeSaid      == StakeSizes \cup {Stakes!None}
StakeRows      == [stake : StakeSaid, previous : StakeSaid, asOf : 1 .. StakeDays]
Says      == [stake : StakeSaid, day : 0 .. StakeDays]
Stored(said) == said \in Says /\ (said.day = 0 => said = Stakes!NoClaim)

\* Rows in the order of their dates, none later than what c says, the newest one on
\* c's side of the line.
Leads(rs, said) ==
  /\ \A i, j \in 1 .. Len(rs) : i <= j => rs[i].asOf <= rs[j].asOf
  /\ \A i \in 1 .. Len(rs) : rs[i].asOf <= said.day
  /\ rs # <<>> => ~Stakes!Material(rs[Len(rs)].stake, said.stake)

StakeTyped ==
  /\ Stored(sh_claim) /\ sh_rows \in Seq(StakeRows) /\ sh_astray \in BOOLEAN /\ sh_run.on \in BOOLEAN
  /\ sh_run.on => sh_run.wrote \in BOOLEAN
  /\ sh_run.on /\ sh_run.wrote =>
       /\ sh_run.last \in Says /\ sh_run.last.day # 0
       /\ sh_run.before = Stakes!Unread \/ Stored(sh_run.before)

\* The rows lead to what is stored, or a run will see to it.
Followed ==
  IF sh_run.on /\ sh_run.wrote
  THEN sh_run.before # Stakes!Unread /\ sh_run.last = sh_claim /\ sh_run.before.day <= sh_claim.day /\ Leads(sh_rows, sh_run.before)
  ELSE Leads(sh_rows, sh_claim)

StakeInv == StakeTyped /\ (~sh_astray => Followed)

LEMMA SameSide ==
  ASSUME StakeFigures, NEW ra \in StakeSaid, NEW rb \in StakeSaid, NEW said \in StakeSaid, ~Stakes!Material(ra, rb), ~Stakes!Material(rb, said)
  PROVE  ~Stakes!Material(ra, said)
  BY DEF Stakes!Material, Stakes!Pct, StakeFigures, StakeSaid, Stakes!None

LEMMA RowOf ==
  ASSUME StakeFigures, NEW rs \in Seq(StakeRows), NEW i \in 1 .. Len(rs)
  PROVE  rs[i].stake \in StakeSaid /\ rs[i].asOf \in Nat /\ rs[i].asOf # 0 /\ rs[i].asOf <= StakeDays
<1>1. rs[i] \in StakeRows
  OBVIOUS
<1>2. rs[i].stake \in StakeSaid /\ rs[i].asOf \in 1 .. StakeDays
  BY <1>1 DEF StakeRows
<1> QED
  BY <1>2 DEF StakeFigures

\* The row of what is said, alone or after the row of what was said.
LEMMA TwoForms ==
  ASSUME StakeFigures, NEW old, Stored(old), NEW new \in Says, new.day # 0
  PROVE  LET ra == Stakes!Row(old, Stakes!None)
             rb == Stakes!Row(new, old.stake)
         IN /\ rb \in StakeRows /\ rb.asOf = new.day /\ rb.stake = new.stake
            /\ \/ Stakes!RowsFor(old, new) = <<>>
               \/ Stakes!RowsFor(old, new) = <<rb>>
               \/ Stakes!RowsFor(old, new) = <<ra>> \o <<rb>> /\ sh_rows = <<>> /\ ra \in StakeRows /\ ra.asOf = old.day /\ old.day <= new.day
<1> DEFINE ra == Stakes!Row(old, Stakes!None)
           rb == Stakes!Row(new, old.stake)
<1>1. rb \in StakeRows /\ rb.asOf = new.day /\ rb.stake = new.stake
  BY DEF Stored, Stakes!Row, StakeRows, Says, StakeSaid, StakeFigures
<1>2. old.stake # Stakes!None => ra \in StakeRows /\ ra.asOf = old.day
  BY DEF Stored, Stakes!NoClaim, Stakes!Row, StakeRows, Says, StakeSaid, StakeFigures
<1> HIDE DEF ra, rb
<1>3. <<>> \o <<rb>> = <<rb>>
  BY <1>1
<1>4. \/ Stakes!RowsFor(old, new) = <<>>
      \/ Stakes!RowsFor(old, new) = <<>> \o <<rb>>
      \/ Stakes!RowsFor(old, new) = <<ra>> \o <<rb>> /\ sh_rows = <<>> /\ old.stake # Stakes!None /\ old.day <= new.day
  BY DEF Stakes!RowsFor, ra, rb
<1>5. \/ Stakes!RowsFor(old, new) = <<>>
      \/ Stakes!RowsFor(old, new) = <<rb>>
      \/ Stakes!RowsFor(old, new) = <<ra>> \o <<rb>> /\ sh_rows = <<>> /\ ra \in StakeRows /\ ra.asOf = old.day /\ old.day <= new.day
  BY <1>2, <1>3, <1>4
<1> QED
  BY <1>1, <1>5 DEF ra, rb

LEMMA AppendedTyped ==
  ASSUME StakeFigures, sh_rows \in Seq(StakeRows), NEW old, Stored(old), NEW new \in Says, new.day # 0
  PROVE  sh_rows \o Stakes!RowsFor(old, new) \in Seq(StakeRows)
<1> DEFINE ra == Stakes!Row(old, Stakes!None)
           rb == Stakes!Row(new, old.stake)
<1>1. /\ rb \in StakeRows
      /\ \/ Stakes!RowsFor(old, new) = <<>>
         \/ Stakes!RowsFor(old, new) = <<rb>>
         \/ Stakes!RowsFor(old, new) = <<ra>> \o <<rb>> /\ ra \in StakeRows
  BY TwoForms
<1> HIDE DEF ra, rb
<1>2. Stakes!RowsFor(old, new) \in Seq(StakeRows)
  <2>1. <<>> \in Seq(StakeRows) /\ <<rb>> \in Seq(StakeRows) /\ (ra \in StakeRows => <<ra>> \o <<rb>> \in Seq(StakeRows))
    BY <1>1
  <2> QED
    BY <1>1, <2>1
<1> QED
  BY <1>2

\* What a statement appends to rows that lead to the one before it leads to it.
LEMMA Appended ==
  ASSUME StakeFigures, sh_rows \in Seq(StakeRows), NEW old, Stored(old), NEW new \in Says, new.day # 0,
         old.day <= new.day, Leads(sh_rows, old)
  PROVE  Leads(sh_rows \o Stakes!RowsFor(old, new), new)
<1> DEFINE n == Len(sh_rows)
           ra == Stakes!Row(old, Stakes!None)
           rb == Stakes!Row(new, old.stake)
           rs == sh_rows \o Stakes!RowsFor(old, new)
<1>0. n \in Nat /\ (sh_rows # <<>> => n \in 1 .. n) /\ \A i \in 1 .. n : sh_rows[i].stake \in StakeSaid /\ sh_rows[i].asOf \in Nat /\ sh_rows[i].asOf # 0
  BY RowOf
<1>ra. old.day \in Nat /\ new.day \in Nat /\ old.day <= new.day /\ old.stake \in StakeSaid /\ new.stake \in StakeSaid
  BY DEF Stored, Says, StakeFigures
<1>rb. sh_rows # <<>> => old # Stakes!NoClaim
  <2>1. SUFFICES ASSUME sh_rows # <<>> PROVE old.day # 0
    BY DEF Stakes!NoClaim
  <2>2. sh_rows[1].asOf <= old.day /\ sh_rows[1].asOf \in Nat /\ sh_rows[1].asOf # 0
    BY <1>0, <2>1 DEF Leads
  <2> QED
    BY <1>ra, <2>2
<1>said. /\ rb \in StakeRows /\ rb.asOf = new.day /\ rb.stake = new.stake
      /\ \/ Stakes!RowsFor(old, new) = <<>>
         \/ Stakes!RowsFor(old, new) = <<rb>>
         \/ Stakes!RowsFor(old, new) = <<ra>> \o <<rb>> /\ sh_rows = <<>> /\ ra \in StakeRows /\ ra.asOf = old.day
  BY TwoForms
<1>d. ~Stakes!Material(rb.stake, new.stake)
  BY <1>said DEF Stakes!Material
<1>e. Stakes!RowsFor(old, new) = <<>> => old = Stakes!NoClaim \/ ~Stakes!Material(old.stake, new.stake)
  <2>1. \A x : <<x>> # <<>> /\ \A y : <<y>> \o <<x>> # <<>>
    OBVIOUS
  <2>2. ~(old = Stakes!NoClaim \/ ~Stakes!Material(old.stake, new.stake)) =>
          Stakes!RowsFor(old, new) = (IF sh_rows = <<>> /\ old.stake # Stakes!None /\ old.day <= new.day THEN <<ra>> ELSE <<>>) \o <<rb>>
    BY DEF Stakes!RowsFor
  <2>3. <<>> \o <<rb>> = <<rb>>
    BY <1>said
  <2> QED
    BY <2>1, <2>2, <2>3
<1> HIDE DEF ra, rb
<1>1. CASE Stakes!RowsFor(old, new) = <<>>
  <2>1. rs = sh_rows
    BY <1>1
  <2>2. sh_rows # <<>> => ~Stakes!Material(sh_rows[n].stake, new.stake)
    BY <1>0, <1>1, <1>ra, <1>rb, <1>e, SameSide DEF Leads
  <2>3. \A i \in 1 .. n : sh_rows[i].asOf <= new.day
    BY <1>0, <1>ra DEF Leads
  <2> QED
    BY <2>1, <2>2, <2>3 DEF Leads
<1>2. CASE Stakes!RowsFor(old, new) = <<rb>>
  <2>1. Len(rs) = n + 1 /\ rs[n + 1] = rb /\ (\A i \in 1 .. n : rs[i] = sh_rows[i])
    BY <1>2, <1>said
  <2>2. \A i \in 1 .. n + 1 : i \in 1 .. n \/ i = n + 1
    BY <1>0
  <2> HIDE DEF n, rs
  <2>3. \A i \in 1 .. n + 1 : rs[i].asOf <= new.day
    <3> TAKE i \in 1 .. n + 1
    <3>1. CASE i \in 1 .. n
      BY <1>0, <1>ra, <2>1, <3>1 DEF Leads, n
    <3>2. CASE i = n + 1
      BY <1>ra, <1>said, <2>1, <3>2
    <3> QED
      BY <2>2, <3>1, <3>2
  <2>4. \A i, j \in 1 .. n + 1 : i <= j => rs[i].asOf <= rs[j].asOf
    <3> TAKE i, j \in 1 .. n + 1
    <3>1. CASE j \in 1 .. n
      BY <1>0, <2>1, <2>2, <3>1 DEF Leads, n
    <3>2. CASE j = n + 1
      BY <1>said, <2>1, <2>3, <3>2
    <3> QED
      BY <2>2, <3>1, <3>2
  <2> QED
    BY <1>said, <1>d, <2>1, <2>3, <2>4 DEF Leads, rs
<1>3. CASE Stakes!RowsFor(old, new) = <<ra>> \o <<rb>> /\ sh_rows = <<>> /\ ra \in StakeRows /\ ra.asOf = old.day
  <2>1. rs = <<ra>> \o <<rb>>
    BY <1>said, <1>3
  <2>2. Len(rs) = 2 /\ rs[1] = ra /\ rs[2] = rb
    BY <1>said, <1>3, <2>1
  <2>3. \A i \in 1 .. 2 : i = 1 \/ i = 2
    OBVIOUS
  <2> HIDE DEF rs
  <2> QED
    BY <1>ra, <1>said, <1>d, <1>3, <2>2, <2>3 DEF Leads, rs
<1> QED
  BY <1>1, <1>2, <1>3, <1>said

LEMMA StakeInitInv == StakeFigures /\ Stakes!Init => StakeInv
<1> SUFFICES ASSUME StakeFigures, Stakes!Init PROVE StakeInv
  OBVIOUS
<1>1. Stored(sh_claim) /\ sh_rows = <<>> /\ sh_rows \in Seq(StakeRows) /\ Len(sh_rows) = 0 /\ ~sh_run.on /\ sh_run.on \in BOOLEAN /\ sh_astray \in BOOLEAN
  <2>1. 0 \in 0 .. StakeDays
    BY DEF StakeFigures
  <2>2. Stored(sh_claim)
    BY <2>1 DEF Stakes!Init, Stakes!NoClaim, Stored, Says, StakeSaid
  <2>3. sh_rows = <<>> /\ sh_rows \in Seq(StakeRows) /\ Len(sh_rows) = 0 /\ sh_astray \in BOOLEAN
    <3>1. sh_rows = <<>> /\ sh_astray \in BOOLEAN
      BY DEF Stakes!Init
    <3> QED
      BY <3>1
  <2> DEFINE no == FALSE
  <2>4. sh_run = [on |-> no]
    BY DEF Stakes!Init, Stakes!NoRun
  <2>5. sh_run.on = no
    BY <2>4
  <2> QED
    BY <2>2, <2>3, <2>5
<1>2. Leads(sh_rows, sh_claim)
  BY <1>1 DEF Leads
<1> QED
  BY <1>1, <1>2 DEF StakeInv, StakeTyped, Followed

\* A statement is recorded, at once or for the end of the run.
LEMMA RecordStep ==
  ASSUME StakeFigures, StakeInv, NEW stake \in StakeSizes \cup {Stakes!None}, NEW day \in 1 .. StakeDays, NEW fails \in BOOLEAN, NEW kept \in BOOLEAN,
         Stakes!Record([stake |-> stake, day |-> day], fails, kept)
  PROVE  StakeInv'
<1> DEFINE new == [stake |-> stake, day |-> day]
<1>1. new \in Says /\ new.day \in 1 .. StakeDays /\ new.day # 0
  BY DEF Says, StakeSaid, StakeFigures
<1> HIDE DEF new
<1>ra. sh_astray' = (sh_astray \/ fails \/ ~kept \/ Stakes!Late(new)) /\ sh_claim' = (IF kept THEN new ELSE sh_claim)
  BY DEF Stakes!Record, new
<1>rb. Stored(sh_claim) /\ sh_rows \in Seq(StakeRows) /\ sh_run.on \in BOOLEAN
  BY DEF StakeInv, StakeTyped
<1>2. Stored(sh_claim)' /\ sh_astray' \in BOOLEAN
  BY <1>1, <1>ra, <1>rb DEF StakeInv, StakeTyped, Stored, Stakes!NoClaim, Says, StakeSaid
<1>3. ~sh_astray' => ~sh_astray /\ ~fails /\ kept /\ sh_claim.day <= new.day /\ sh_claim' = new
  <2>1. ~Stakes!Late(new) => sh_claim.day <= new.day
    BY <1>1, <1>rb DEF Stakes!Late, Stored, Says, StakeFigures
  <2> QED
    BY <1>ra, <2>1, Zenon
<1>4. CASE ~sh_run.on
  <2>1. sh_run' = sh_run /\ sh_rows' = (IF fails \/ ~kept THEN sh_rows ELSE sh_rows \o Stakes!RowsFor(sh_claim, new))
    BY <1>4 DEF Stakes!Record, Stakes!RecordNow, Stakes!Deferred, new
  <2>2. sh_rows' \in Seq(StakeRows)
    BY <1>1, <1>rb, <2>1, AppendedTyped
  <2>3. ~sh_astray' => Leads(sh_rows', sh_claim')
    <3>1. SUFFICES ASSUME ~sh_astray' PROVE Leads(sh_rows', sh_claim')
      OBVIOUS
    <3>2. Leads(sh_rows, sh_claim) /\ sh_claim.day <= new.day /\ sh_claim' = new /\ sh_rows' = sh_rows \o Stakes!RowsFor(sh_claim, new)
      BY <1>3, <1>4, <2>1, <3>1 DEF StakeInv, Followed
    <3> QED
      BY <1>1, <1>rb, <3>2, Appended
  <2>4. ~sh_run'.on /\ sh_run'.on \in BOOLEAN
    BY <1>4, <1>rb, <2>1
  <2> QED
    BY <1>2, <2>2, <2>3, <2>4 DEF StakeInv, StakeTyped, Followed
<1>5. CASE sh_run.on
  <2>1. /\ sh_run' = [on |-> TRUE, wrote |-> TRUE, last |-> new,
                   before |-> IF sh_run.wrote THEN sh_run.before ELSE IF fails THEN Stakes!Unread ELSE sh_claim]
        /\ sh_rows' = sh_rows
    BY <1>5 DEF Stakes!Record, Stakes!RecordNow, Stakes!Deferred, new
  <2>2. /\ sh_run'.on /\ sh_run'.wrote /\ sh_run'.on \in BOOLEAN /\ sh_run'.wrote \in BOOLEAN /\ sh_run'.last = new
        /\ sh_run'.before = (IF sh_run.wrote THEN sh_run.before ELSE IF fails THEN Stakes!Unread ELSE sh_claim)
    BY <2>1
  <2>3. StakeTyped'
    <3>1. sh_run'.before = Stakes!Unread \/ Stored(sh_run'.before)
      BY <1>5, <1>rb, <2>2 DEF StakeInv, StakeTyped
    <3>2. (Stakes!Unread)' = Stakes!Unread
      BY DEF Stakes!Unread
    <3>3. Stored(sh_run.before)'  <=> Stored(sh_run'.before)
      BY DEF Stored, Says, StakeSaid, Stakes!NoClaim
    <3> QED
      BY <1>1, <1>2, <1>rb, <2>1, <2>2, <3>1, <3>2, <3>3 DEF StakeTyped, Says, StakeSaid, StakeRows
  <2>4. ~sh_astray' => Followed'
    <3> SUFFICES ASSUME ~sh_astray' PROVE Followed'
      OBVIOUS
    <3>1. ~sh_astray /\ ~fails /\ sh_claim.day <= new.day /\ sh_claim' = new /\ Followed
      BY <1>3 DEF StakeInv
    <3>2. sh_claim # Stakes!Unread
      BY <1>rb DEF Stored, Says, Stakes!Unread, StakeFigures
    <3>3. sh_claim.day \in Nat /\ new.day \in Nat
      BY <1>1, <1>rb DEF Stored, Says, StakeFigures
    <3>4. CASE sh_run.wrote
      <4>1. sh_run.before # Stakes!Unread /\ sh_run.before.day <= sh_claim.day /\ Leads(sh_rows, sh_run.before) /\ Stored(sh_run.before)
        BY <1>5, <3>1, <3>4 DEF Followed, StakeInv, StakeTyped
      <4>2. sh_run.before.day \in Nat
        BY <4>1 DEF Stored, Says, StakeFigures
      <4>3. sh_run'.before = sh_run.before
        BY <2>2, <3>4
      <4> QED
        BY <2>1, <2>2, <3>1, <3>3, <4>1, <4>2, <4>3 DEF Followed, Stakes!Unread, Leads, Stakes!Material, Stakes!Pct
    <3>5. CASE ~sh_run.wrote
      <4>1. Leads(sh_rows, sh_claim) /\ sh_run'.before = sh_claim
        BY <2>2, <3>1, <3>5 DEF Followed
      <4> QED
        BY <2>1, <2>2, <3>1, <3>2, <4>1 DEF Followed, Stakes!Unread, Leads, Stakes!Material, Stakes!Pct
    <3> QED
      BY <3>4, <3>5
  <2> QED
    BY <2>3, <2>4 DEF StakeInv
<1> QED
  BY <1>4, <1>5, <1>rb

\* A run begins, and has written nothing.
LEMMA BeginStep == StakeFigures /\ StakeInv /\ Stakes!Begin => StakeInv'
<1> SUFFICES ASSUME StakeFigures, StakeInv, Stakes!Begin PROVE StakeInv'
  OBVIOUS
<1>1. /\ ~sh_run.on /\ sh_run' = [on |-> TRUE, wrote |-> FALSE, before |-> Stakes!NoClaim, last |-> Stakes!NoClaim]
      /\ UNCHANGED <<sh_claim, sh_rows, sh_writes, sh_astray>>
  BY DEF Stakes!Begin
<1>2. sh_run'.on /\ ~sh_run'.wrote /\ sh_run'.on \in BOOLEAN /\ sh_run'.wrote \in BOOLEAN
  BY <1>1
<1>3. StakeTyped'
  BY <1>1, <1>2 DEF StakeInv, StakeTyped, Stored, Says, StakeSaid, StakeRows, Stakes!NoClaim
<1>4. Followed => Followed'
  BY <1>1, <1>2 DEF Followed, Leads, Stakes!Material, Stakes!Pct
<1> QED
  BY <1>1, <1>3, <1>4 DEF StakeInv

\* It ends, and what it wrote last is set against what it found.
LEMMA EndStep ==
  ASSUME StakeFigures, StakeInv, NEW fails \in BOOLEAN, Stakes!End(fails)
  PROVE  StakeInv'
<1>1. /\ sh_run.on /\ sh_run' = Stakes!NoRun
      /\ sh_rows' = (IF ~sh_run.wrote \/ sh_run.before = Stakes!Unread \/ fails THEN sh_rows ELSE sh_rows \o Stakes!RowsFor(sh_run.before, sh_run.last))
      /\ sh_astray' = (sh_astray \/ fails) /\ sh_claim' = sh_claim
  BY DEF Stakes!End
<1>2. ~sh_run'.on /\ sh_run'.on \in BOOLEAN
  BY <1>1 DEF Stakes!NoRun
<1>3. Stored(sh_claim) /\ sh_rows \in Seq(StakeRows) /\ sh_run.wrote \in BOOLEAN /\ sh_astray \in BOOLEAN
  BY <1>1 DEF StakeInv, StakeTyped
<1>4. sh_run.wrote /\ sh_run.before # Stakes!Unread => Stored(sh_run.before) /\ sh_run.last \in Says /\ sh_run.last.day # 0
  BY <1>1 DEF StakeInv, StakeTyped
<1>5. sh_rows' \in Seq(StakeRows)
  BY <1>1, <1>3, <1>4, AppendedTyped
<1>6. StakeTyped'
  <2>1. Stored(sh_claim)' /\ (Seq(StakeRows))' = Seq(StakeRows)
    BY <1>1, <1>3 DEF Stored, Says, StakeSaid, StakeRows, Stakes!NoClaim
  <2>2. sh_astray' \in BOOLEAN
    BY <1>1, <1>3, Zenon
  <2> QED
    BY <1>2, <1>5, <2>1, <2>2 DEF StakeTyped
<1>7. ~sh_astray' => Leads(sh_rows', sh_claim')
  <2> SUFFICES ASSUME ~sh_astray' PROVE Leads(sh_rows', sh_claim')
    OBVIOUS
  <2>1. ~fails /\ Followed
    <3>1. ~sh_astray /\ ~fails
      BY <1>1, Zenon
    <3> QED
      BY <3>1 DEF StakeInv
  <2>2. CASE sh_run.wrote
    <3>1. sh_run.before # Stakes!Unread /\ sh_run.last = sh_claim /\ sh_run.before.day <= sh_claim.day /\ Leads(sh_rows, sh_run.before)
      BY <1>1, <2>1, <2>2 DEF Followed
    <3>2. sh_rows' = sh_rows \o Stakes!RowsFor(sh_run.before, sh_run.last)
      BY <1>1, <2>1, <2>2, <3>1
    <3> QED
      BY <1>1, <1>3, <1>4, <2>2, <3>1, <3>2, Appended
  <2>3. CASE ~sh_run.wrote
    BY <1>1, <2>1, <2>3 DEF Followed
  <2> QED
    BY <1>3, <2>2, <2>3
<1>8. ~sh_astray' => Followed'
  BY <1>2, <1>7 DEF Followed
<1> QED
  BY <1>6, <1>8 DEF StakeInv

LEMMA DieStep == StakeFigures /\ StakeInv /\ Stakes!Die => StakeInv'
  BY DEF StakeInv, Stakes!Die, StakeTyped, Stakes!NoRun, Stored, Says, StakeSaid, StakeRows, Stakes!NoClaim

LEMMA StakeNextInv == StakeFigures /\ StakeInv /\ [Stakes!Next]_(Stakes!vars) => StakeInv'
<1> SUFFICES ASSUME StakeFigures, StakeInv, [Stakes!Next]_(Stakes!vars) PROVE StakeInv'
  OBVIOUS
<1>1. CASE \E stake \in StakeSizes \cup {Stakes!None}, day \in 1 .. StakeDays, fails, kept \in BOOLEAN :
             Stakes!Record([stake |-> stake, day |-> day], fails, kept)
  BY <1>1, RecordStep
<1>2. CASE Stakes!Begin \/ Stakes!Die \/ \E fails \in BOOLEAN : Stakes!End(fails)
  BY <1>2, BeginStep, DieStep, EndStep
<1>3. CASE UNCHANGED Stakes!vars
  BY <1>3 DEF StakeInv, Stakes!vars, StakeTyped, Followed, Stored, Says, StakeSaid, StakeRows, Stakes!NoClaim, Stakes!Unread, Leads, Stakes!Material, Stakes!Pct
<1> QED
  BY <1>1, <1>2, <1>3 DEF Stakes!Next

\* The row shown for today is the newest.
LEMMA ShownIsNewest ==
  ASSUME StakeFigures, StakeInv, ~sh_run.on, ~sh_astray, sh_rows # <<>>
  PROVE  Stakes!Shows(StakeDays) = sh_rows[Len(sh_rows)].stake
<1> DEFINE n == Len(sh_rows)
           upTo == {i \in DOMAIN sh_rows : sh_rows[i].asOf <= StakeDays}
<1>1. sh_rows \in Seq(StakeRows) /\ Leads(sh_rows, sh_claim)
  BY DEF StakeInv, StakeTyped, Followed
<1>2. n \in Nat /\ n # 0 /\ DOMAIN sh_rows = 1 .. n
  BY <1>1
<1>3. \A i \in 1 .. n : sh_rows[i].asOf \in Nat /\ sh_rows[i].asOf <= StakeDays
  BY <1>1, RowOf
<1>4. upTo = 1 .. n /\ upTo # {}
  BY <1>2, <1>3
<1>5. \A i \in 1 .. n : (\A j \in 1 .. n : sh_rows[j].asOf < sh_rows[i].asOf \/ (sh_rows[j].asOf = sh_rows[i].asOf /\ j <= i)) <=> i = n
  <2> TAKE i \in 1 .. n
  <2>1. \A j \in 1 .. n : sh_rows[j].asOf <= sh_rows[n].asOf
    BY <1>1, <1>2 DEF Leads
  <2>2. n \in 1 .. n /\ sh_rows[n].asOf \in Nat
    BY <1>2, <1>3
  <2> HIDE DEF n
  <2> QED
    BY <1>2, <1>3, <2>1, <2>2
<1>6. (CHOOSE i \in upTo : \A j \in upTo :
         sh_rows[j].asOf < sh_rows[i].asOf \/ (sh_rows[j].asOf = sh_rows[i].asOf /\ j <= i)) = n
  <2>1. n \in upTo /\ \A i \in upTo : (\A j \in upTo : sh_rows[j].asOf < sh_rows[i].asOf \/ (sh_rows[j].asOf = sh_rows[i].asOf /\ j <= i)) <=> i = n
    <3> DEFINE us == upTo
    <3>1. us = 1 .. n /\ n \in us
      BY <1>2, <1>4
    <3> HIDE DEF us, n
    <3>2. \A i \in us : (\A j \in us : sh_rows[j].asOf < sh_rows[i].asOf \/ (sh_rows[j].asOf = sh_rows[i].asOf /\ j <= i)) <=> i = n
      BY <1>5, <3>1 DEF n
    <3> QED
      BY <3>1, <3>2 DEF us
  <2> HIDE DEF upTo, n
  <2> QED
    BY <2>1
<1> QED
  BY <1>4, <1>6 DEF Stakes!Shows

\* Whatever is stated in and out of runs, the history shows for today what the claim says
\* (stake_history.rows_for, materially_different), as long as nothing was lost and no
\* statement came late.
THEOREM TodayAlwaysShown == ASSUME StakeFigures PROVE Stakes!Spec => []TodayShown
<1>1. StakeInv => TodayShown
  BY ShownIsNewest DEF StakeInv, Followed, Leads, TodayShown, Stakes!TodayShown
<1> QED
  BY <1>1, StakeInitInv, StakeNextInv, PTL DEF Stakes!Spec

-----------------------------------------------------------------------------
(* The flags of redundant holdings *)

\* The component's count is the library's.
LEMMA FlagCounts == \A s : Flags!Cardinality(s) = Cardinality(s)
  BY DEF Flags!Cardinality, Cardinality

\* Numbers one by one.
LEMMA Counting ==
  ASSUME NEW S, 0 \in S, \A n \in Nat : n \in S => n + 1 \in S
  PROVE  Nat \subseteq S
<1> SUFFICES ASSUME Nat \ S # {} PROVE FALSE
  OBVIOUS
<1> DEFINE R == {ss \in Nat \X Nat : ss[1] < ss[2]}
           D == Nat \ S
<1>1. IsWellFoundedOn(R, Nat)
  BY NatLessThanWellFounded DEF OpToRel
<1>2. \A m, n \in Nat : n < m => <<n, m>> \in R
  OBVIOUS
<1> HIDE DEF R
<1>3. PICK n \in D : \A m \in D : ~(<<m, n>> \in R)
  BY <1>1, WFMin
<1>4. n \in Nat /\ n # 0 /\ n - 1 \in Nat /\ n - 1 < n
  BY <1>3
<1>5. n - 1 \in S
  BY <1>2, <1>3, <1>4
<1>6. (n - 1) + 1 \in S
  BY <1>4, <1>5
<1> QED
  BY <1>3, <1>4, <1>6

\* One hop more.
Hop(s, held) == s \cup {x[2] : x \in {y \in held : y[1] \in s}}

\* What Within builds: a set for each number of hops.
Hops(r, from, held, n) ==
  r = [k \in 0 .. n |-> IF k = 0 THEN {from}
                        ELSE LET s == r[k - 1] IN s \cup {x[2] : x \in {y \in held : y[1] \in s}}]

Closed(s, held) == \A y \in held : y[1] \in s => y[2] \in s

LEMMA HopsOf ==
  ASSUME NEW r, NEW from, NEW held, NEW n \in Nat
  PROVE  Hops(r, from, held, n) <=>
           (r = [k \in 0 .. n |-> r[k]] /\ r[0] = {from} /\ \A k \in 0 .. n : k # 0 => r[k] = Hop(r[k - 1], held))
<1>1. ASSUME Hops(r, from, held, n)
      PROVE  r = [k \in 0 .. n |-> r[k]] /\ r[0] = {from} /\ \A k \in 0 .. n : k # 0 => r[k] = Hop(r[k - 1], held)
  <2>1. DOMAIN r = 0 .. n /\ r = [k \in DOMAIN r |-> r[k]]
    BY <1>1 DEF Hops
  <2>2. \A k \in 0 .. n : r[k] = IF k = 0 THEN {from} ELSE Hop(r[k - 1], held)
    BY <1>1 DEF Hops, Hop
  <2>3. r[0] = {from} /\ \A k \in 0 .. n : k # 0 => r[k] = Hop(r[k - 1], held)
    BY <2>2
  <2> QED
    BY <2>1, <2>3
<1>2. ASSUME r = [k \in 0 .. n |-> r[k]] /\ r[0] = {from} /\ \A k \in 0 .. n : k # 0 => r[k] = Hop(r[k - 1], held)
      PROVE  Hops(r, from, held, n)
  <2> DEFINE f == [k \in 0 .. n |-> IF k = 0 THEN {from} ELSE Hop(r[k - 1], held)]
  <2>1. DOMAIN r = 0 .. n /\ DOMAIN f = 0 .. n /\ f = [k \in 0 .. n |-> f[k]]
    BY <1>2
  <2>2. \A k \in 0 .. n : r[k] = f[k]
    BY <1>2
  <2>3. r = f
    BY <1>2, <2>1, <2>2
  <2> QED
    BY <2>3 DEF Hops, Hop
<1> QED
  BY <1>1, <1>2

\* Sets can be built for any number of hops.
LEMMA HopsThere ==
  ASSUME NEW from, NEW held
  PROVE  \A n \in Nat : \E r : Hops(r, from, held, n)
<1> DEFINE S == {n \in Nat : \E r : Hops(r, from, held, n)}
<1>1. 0 \in S
  <2> DEFINE r == [k \in 0 .. 0 |-> {from}]
  <2>1. r = [k \in 0 .. 0 |-> r[k]] /\ r[0] = {from} /\ \A k \in 0 .. 0 : k # 0 => r[k] = Hop(r[k - 1], held)
    OBVIOUS
  <2> HIDE DEF r
  <2>2. Hops(r, from, held, 0)
    BY <2>1, HopsOf
  <2> QED
    BY <2>2
<1>2. ASSUME NEW n \in Nat, n \in S PROVE n + 1 \in S
  <2>1. PICK r : Hops(r, from, held, n)
    BY <1>2
  <2>2. r[0] = {from} /\ \A k \in 0 .. n : k # 0 => r[k] = Hop(r[k - 1], held)
    BY <2>1, HopsOf
  <2> DEFINE f == [k \in 0 .. n + 1 |-> IF k \in 0 .. n THEN r[k] ELSE Hop(r[n], held)]
  <2>3. \A k \in 0 .. n : f[k] = r[k]
    OBVIOUS
  <2>4. f[n + 1] = Hop(f[n], held)
    BY <2>3
  <2>5. f = [k \in 0 .. n + 1 |-> f[k]]
    OBVIOUS
  <2> HIDE DEF f
  <2>6. ASSUME NEW k \in 0 .. n + 1, k # 0 PROVE f[k] = Hop(f[k - 1], held)
    <3>1. CASE k \in 0 .. n
      <4>1. k - 1 \in 0 .. n
        BY <2>6, <3>1
      <4> QED
        BY <2>2, <2>3, <2>6, <3>1, <4>1
    <3>2. CASE k = n + 1
      <4>1. k - 1 = n
        BY <3>2
      <4> QED
        BY <2>4, <3>2, <4>1
    <3> QED
      BY <2>6, <3>1, <3>2
  <2>7. f[0] = {from}
    BY <2>2, <2>3
  <2> DEFINE m == n + 1
  <2>8. m \in Nat /\ f = [k \in 0 .. m |-> f[k]]
    BY <2>5
  <2>9. \A k \in 0 .. m : k # 0 => f[k] = Hop(f[k - 1], held)
    BY <2>6
  <2> HIDE DEF m
  <2>10. Hops(f, from, held, m)
    BY <2>7, <2>8, <2>9, HopsOf
  <2> QED
    BY <2>10 DEF m
<1> HIDE DEF S
<1>3. Nat \subseteq S
  BY <1>1, <1>2, Counting
<1> QED
  BY <1>3 DEF S

\* Within is the last of them.
LEMMA WithinHops ==
  ASSUME NEW from, NEW held, NEW hops \in Nat
  PROVE  \E r : Hops(r, from, held, hops) /\ Flags!Within(from, held, hops) = r[hops]
<1> DEFINE w == CHOOSE r : Hops(r, from, held, hops)
<1>1. Flags!Within(from, held, hops) = w[hops]
  BY DEF Flags!Within, Hops
<1>2. Hops(w, from, held, hops)
  BY HopsThere
<1> QED
  BY <1>1, <1>2

\* Nothing is reached that a closed set leaves out.
LEMMA WithinClosed ==
  ASSUME NEW from, NEW held, NEW hops \in Nat, NEW s, from \in s, Closed(s, held)
  PROVE  Flags!Within(from, held, hops) \subseteq s
<1>1. PICK r : Hops(r, from, held, hops) /\ Flags!Within(from, held, hops) = r[hops]
  BY WithinHops
<1>2. r[0] = {from} /\ \A k \in 0 .. hops : k # 0 => r[k] = Hop(r[k - 1], held)
  BY <1>1, HopsOf
<1> DEFINE S == {n \in Nat : n <= hops => r[n] \subseteq s}
<1>3. 0 \in S
  BY <1>2
<1>4. ASSUME NEW n \in Nat, n \in S PROVE n + 1 \in S
  <2> SUFFICES ASSUME n + 1 <= hops PROVE r[n + 1] \subseteq s
    OBVIOUS
  <2>1. r[n] \subseteq s
    BY <1>4
  <2>2. r[n + 1] = Hop(r[n], held)
    BY <1>2
  <2> QED
    BY <2>1, <2>2 DEF Hop, Closed
<1> HIDE DEF S
<1>5. Nat \subseteq S
  BY <1>3, <1>4, Counting
<1>6. r[hops] \subseteq s
  BY <1>5 DEF S
<1> QED
  BY <1>1, <1>6

\* After as many hops as there are pairs nothing new is reached.
LEMMA WithinSettles ==
  ASSUME NEW P, IsFiniteSet(P), NEW from, NEW held, held \subseteq P
  PROVE  LET s == Flags!Within(from, held, Cardinality(P)) IN from \in s /\ Closed(s, held)
<1> DEFINE h == Cardinality(P)
<1>0. h \in Nat
  BY FS_CardinalityType
<1>1. PICK r : Hops(r, from, held, h) /\ Flags!Within(from, held, h) = r[h]
  BY <1>0, WithinHops
<1>2. r[0] = {from} /\ \A k \in 0 .. h : k # 0 => r[k] = Hop(r[k - 1], held)
  BY <1>0, <1>1, HopsOf
<1> HIDE DEF h
\* The pairs with both ends reached.
<1> DEFINE Both(s) == {y \in held : y[1] \in s /\ y[2] \in s}
           S == {n \in Nat : n <= h => /\ from \in r[n]
                                       /\ Closed(r[n], held) \/ n <= Cardinality(Both(r[n]))}
<1>3. \A s : IsFiniteSet(Both(s)) /\ Cardinality(Both(s)) \in Nat
  <2> SUFFICES ASSUME NEW s PROVE IsFiniteSet(Both(s))
    BY FS_CardinalityType
  <2>1. Both(s) \subseteq P
    OBVIOUS
  <2> HIDE DEF Both
  <2> QED
    BY <2>1, FS_Subset
<1>4. 0 \in S
  <2> HIDE DEF Both
  <2>1. from \in r[0]
    BY <1>2
  <2>2. 0 <= Cardinality(Both(r[0]))
    BY <1>3
  <2> QED
    BY <2>1, <2>2
<1>5. ASSUME NEW n \in Nat, n \in S PROVE n + 1 \in S
  <2> SUFFICES ASSUME n + 1 <= h
               PROVE  from \in r[n + 1] /\ (Closed(r[n + 1], held) \/ n + 1 <= Cardinality(Both(r[n + 1])))
    OBVIOUS
  <2>1. n <= h /\ n + 1 \in 0 .. h /\ n + 1 # 0 /\ (n + 1) - 1 = n
    BY <1>0
  <2>2. from \in r[n] /\ (Closed(r[n], held) \/ n <= Cardinality(Both(r[n])))
    BY <1>5, <2>1
  <2>3. r[n + 1] = Hop(r[n], held)
    BY <1>2, <2>1
  <2>4. CASE Closed(r[n], held)
    <3>1. r[n + 1] = r[n]
      BY <2>3, <2>4 DEF Hop, Closed
    <3> QED
      BY <2>2, <2>4, <3>1
  <2>5. CASE ~Closed(r[n], held)
    <3>1. PICK y \in held : y[1] \in r[n] /\ y[2] \notin r[n]
      BY <2>5 DEF Closed
    <3>2. r[n] \subseteq r[n + 1] /\ y[2] \in r[n + 1]
      BY <2>3, <3>1 DEF Hop
    <3>3. Both(r[n]) \subseteq Both(r[n + 1]) /\ y \in Both(r[n + 1]) /\ y \notin Both(r[n])
      BY <3>1, <3>2
    <3> HIDE DEF Both
    <3>4. Cardinality(Both(r[n])) < Cardinality(Both(r[n + 1]))
      BY <1>3, <3>3, FS_Subset
    <3>5. n <= Cardinality(Both(r[n]))
      BY <2>2, <2>5
    <3>6. n + 1 <= Cardinality(Both(r[n + 1]))
      BY <1>3, <3>4, <3>5
    <3> QED
      BY <2>2, <3>2, <3>6
  <2> QED
    BY <2>4, <2>5
<1> HIDE DEF S
<1>6. Nat \subseteq S
  BY <1>4, <1>5, Counting
<1>7. from \in r[h] /\ (Closed(r[h], held) \/ h <= Cardinality(Both(r[h])))
  BY <1>0, <1>6 DEF S
<1>8. Closed(r[h], held)
  <2> SUFFICES ASSUME h <= Cardinality(Both(r[h])) PROVE Closed(r[h], held)
    BY <1>7
  <2>1. Both(r[h]) \subseteq P
    OBVIOUS
  <2> HIDE DEF Both
  <2>2. Both(r[h]) = P
    BY <1>0, <1>3, <2>1, FS_Subset DEF h
  <2> QED
    BY <2>2 DEF Both, Closed
<1> QED
  BY <1>1, <1>7, <1>8 DEF h
-----------------------------------------------------------------------------
(* The pass *)

FlagFigures == IsFiniteSet(FlagPairs) /\ FlagHops \in Nat

Indirects == {x \in Flags!Current : s_owns[x].kind = "indirect"}
Directs   == {x \in Flags!Current : s_owns[x].kind = "direct"}

\* The flag a holding is due, and the entry of the pass that says so.
Due(x)  == IF x[2] \in Flags!Within(x[1], Directs, FlagHops) THEN "yes" ELSE "no"
Slip(x) == [rid |-> s_owns[x].rid, flag |-> Due(x)]

Holdings == [kind : {"none", "plain", "direct", "indirect"}, flag : {"null", "yes", "no"}, rid : Nat]

\* An edge has an id of its own, given once.
FlagTyped ==
  /\ s_owns \in [FlagPairs -> Holdings] /\ s_writes \in Nat
  /\ \A x \in Flags!Current : s_owns[x].rid <= s_writes
  /\ \A x, y \in Flags!Current : s_owns[x].rid = s_owns[y].rid => x = y
  /\ s_pass = [pc |-> s_pass.pc, direct |-> s_pass.direct, todo |-> s_pass.todo]

\* What the pass is about to write is due, and on ultimate parents' holdings alone.
SlipsDue ==
  s_pass.pc \in {"yes", "no"} =>
    \A t \in s_pass.todo, x \in Flags!Current : t.rid = s_owns[x].rid => x \in Indirects /\ t.flag = Due(x)

\* Such a holding has its flag, or the pass will see to it.
Settling ==
  \A x \in Indirects :
    \/ s_owns[x].flag = Due(x)
    \/ s_pass.pc = "indirect"
    \/ s_pass.pc = "yes" /\ Slip(x) \in s_pass.todo
    \/ s_pass.pc = "no" /\ Slip(x) \in s_pass.todo /\ Due(x) = "no"

Judging == /\ s_pass.pc # "idle" => s_pass.direct = Directs
           /\ SlipsDue /\ Settling

FlagInv == FlagTyped /\ (s_quiet => Judging)

\* The chain an ultimate parent's holding is left out for is drawn.
LEMMA SaidElsewhere ==
  ASSUME FlagFigures, FlagInv
  PROVE  HiddenIsSaidElsewhere
<1> SUFFICES ASSUME ~Flags!Unjudged, s_quiet, s_pass.pc = "idle", NEW x \in Flags!Current
             PROVE  x[2] \in Flags!Within(x[1], Flags!Drawn, Cardinality(FlagPairs))
  BY FlagCounts DEF HiddenIsSaidElsewhere, Flags!HiddenIsSaidElsewhere, Flags!NothingHidden
<1> DEFINE s == Flags!Within(x[1], Flags!Drawn, Cardinality(FlagPairs))
<1>1. x[1] \in s /\ Closed(s, Flags!Drawn)
  <2>1. Flags!Drawn \subseteq FlagPairs
    BY DEF Flags!Drawn, Flags!Current
  <2> QED
    BY <2>1, WithinSettles DEF FlagFigures
<1> HIDE DEF s
<1>2. CASE x \in Flags!Drawn
  BY <1>1, <1>2 DEF Closed, s
<1>3. CASE x \notin Flags!Drawn
  <2>1. s_owns[x].flag = "yes" /\ x \in Indirects
    BY <1>3 DEF Flags!Drawn, Flags!Unjudged, Indirects
  <2>2. Due(x) = "yes"
    BY <2>1 DEF FlagInv, Judging, Settling
  <2>3. x[2] \in Flags!Within(x[1], Directs, FlagHops)
    BY <2>2 DEF Due
  <2>4. Directs \subseteq Flags!Drawn
    BY DEF Directs, Flags!Drawn, Flags!Unjudged
  <2>5. Closed(s, Directs)
    BY <1>1, <2>4 DEF Closed
  <2>6. Flags!Within(x[1], Directs, FlagHops) \subseteq s
    BY <1>1, <2>5, WithinClosed DEF FlagFigures
  <2> QED
    BY <2>3, <2>6 DEF s
<1> QED
  BY <1>2, <1>3

LEMMA FlagInitInv == Flags!Init => FlagInv
  BY DEF Flags!Init, FlagInv, FlagTyped, Flags!NoEdge, Flags!Idle, Holdings, Flags!Current

\* A writer changes one holding, which keeps its id or gets a new one.
LEMMA WrittenStep ==
  ASSUME FlagInv, Flags!Writes, NEW x \in FlagPairs, NEW e \in Holdings, s_owns' = [s_owns EXCEPT ![x] = e],
         e.kind # "none" => e.rid = s_writes + 1 \/ (x \in Flags!Current /\ e.rid = s_owns[x].rid)
  PROVE  FlagInv'
<1>1. s_writes \in Nat /\ s_writes' = s_writes + 1 /\ ~s_quiet' /\ UNCHANGED s_pass /\ s_owns \in [FlagPairs -> Holdings]
  BY DEF Flags!Writes, FlagInv, FlagTyped
<1>2. s_owns' \in [FlagPairs -> Holdings] /\ \A y \in FlagPairs : s_owns'[y] = IF y = x THEN e ELSE s_owns[y]
  BY <1>1
<1>3. \A y \in FlagPairs : s_owns[y].rid \in Nat
  BY <1>1 DEF Holdings
<1>4. \A y \in Flags!Current' : y \in FlagPairs /\ s_owns'[y].kind # "none" /\ (y # x => y \in Flags!Current)
  BY <1>2 DEF Flags!Current
<1>5. \A y \in Flags!Current' :
        \/ s_owns'[y].rid = s_writes + 1 /\ y = x
        \/ y \in Flags!Current /\ s_owns'[y].rid = s_owns[y].rid
  BY <1>2, <1>4
<1>6. \A y \in Flags!Current : s_owns[y].rid <= s_writes
  BY DEF FlagInv, FlagTyped
<1>7. \A y \in Flags!Current' : s_owns'[y].rid <= s_writes + 1
  BY <1>1, <1>3, <1>5, <1>6 DEF Flags!Current
<1>8. \A y, z \in Flags!Current' : s_owns'[y].rid = s_owns'[z].rid => y = z
  <2>1. \A y \in Flags!Current : s_owns[y].rid # s_writes + 1
    BY <1>1, <1>3, <1>6 DEF Flags!Current
  <2>2. \A y, z \in Flags!Current : s_owns[y].rid = s_owns[z].rid => y = z
    BY DEF FlagInv, FlagTyped
  <2> QED
    BY <1>5, <2>1, <2>2
<1> QED
  BY <1>1, <1>2, <1>7, <1>8 DEF FlagInv, FlagTyped

LEMMA WriterStep ==
  ASSUME FlagInv, NEW x \in FlagPairs, Flags!Direct(x) \/ Flags!Ultimate(x) \/ Flags!Acquire(x) \/ Flags!End(x)
  PROVE  FlagInv'
<1>1. s_writes \in Nat /\ s_owns[x] \in Holdings /\ (x \in Flags!Current <=> s_owns[x].kind # "none")
  BY DEF FlagInv, FlagTyped, Flags!Current
<1>2. \A kind \in {"plain", "direct", "indirect"} : Flags!Edge(kind) \in Holdings /\ Flags!Edge(kind).rid = s_writes + 1
  BY <1>1 DEF Flags!Edge, Holdings
<1>3. \A kind \in {"plain", "direct", "indirect"} :
        [s_owns[x] EXCEPT !.kind = kind] \in Holdings /\ [s_owns[x] EXCEPT !.kind = kind].rid = s_owns[x].rid
  BY <1>1 DEF Holdings
<1>4. ASSUME NEW kind \in {"plain", "direct", "indirect"}, Flags!Writes,
             s_owns' = [s_owns EXCEPT ![x] = IF x \in Flags!Current THEN [@ EXCEPT !.kind = kind] ELSE Flags!Edge(kind)]
      PROVE  FlagInv'
  <2> DEFINE e == IF x \in Flags!Current THEN [s_owns[x] EXCEPT !.kind = kind] ELSE Flags!Edge(kind)
  <2>1. e \in Holdings /\ (e.rid = s_writes + 1 \/ (x \in Flags!Current /\ e.rid = s_owns[x].rid))
    BY <1>2, <1>3
  <2>2. s_owns' = [s_owns EXCEPT ![x] = e]
    BY <1>4
  <2> HIDE DEF e
  <2> QED
    BY <1>4, <2>1, <2>2, WrittenStep
<1>5. CASE Flags!Direct(x)
  BY <1>4, <1>5 DEF Flags!Direct
<1>6. CASE Flags!Ultimate(x)
  BY <1>4, <1>6 DEF Flags!Ultimate
<1>7. CASE Flags!Acquire(x)
  <2> DEFINE e == IF x \in Flags!Current THEN s_owns[x] ELSE Flags!Edge("plain")
             chain == Flags!Within(x[1], {y \in Flags!Drawn \ {x} : s_owns[y].kind # "indirect"}, FlagHops)
             f == IF x[2] \in chain THEN [e EXCEPT !.flag = "yes"] ELSE e
  <2>1. s_owns' = [s_owns EXCEPT ![x] = f] /\ Flags!Writes
    BY <1>7 DEF Flags!Acquire
  <2>2. e \in Holdings /\ (e.rid = s_writes + 1 \/ (x \in Flags!Current /\ e.rid = s_owns[x].rid))
    BY <1>1, <1>2
  <2> HIDE DEF e, chain
  <2>3. f \in Holdings /\ f.rid = e.rid
    BY <2>2 DEF Holdings
  <2> HIDE DEF f
  <2> QED
    BY <2>1, <2>2, <2>3, WrittenStep
<1>8. CASE Flags!End(x)
  <2>1. Flags!NoEdge \in Holdings /\ Flags!NoEdge.kind = "none" /\ s_owns' = [s_owns EXCEPT ![x] = Flags!NoEdge] /\ Flags!Writes
    BY <1>8 DEF Flags!End, Flags!NoEdge, Holdings
  <2> HIDE DEF Flags!NoEdge
  <2> QED
    BY <2>1, WrittenStep
<1> QED
  BY <1>5, <1>6, <1>7, <1>8

LEMMA ReadDirectStep == ASSUME FlagInv, Flags!ReadDirect PROVE FlagInv'
<1>1. /\ s_pass' = [pc |-> "indirect", direct |-> Directs, todo |-> {}]
      /\ UNCHANGED <<s_owns, s_writes>>
  BY DEF Flags!ReadDirect, Directs
<1>2. FlagTyped'
  BY <1>1 DEF FlagInv, FlagTyped, Flags!Current
<1>3. Directs' = Directs
  BY <1>1 DEF Directs, Flags!Current
<1>4. Judging'
  BY <1>1, <1>3 DEF Judging, SlipsDue, Settling
<1> QED
  BY <1>2, <1>4 DEF FlagInv

LEMMA ReadIndirectStep == ASSUME FlagInv, Flags!ReadIndirect PROVE FlagInv'
<1> DEFINE todo == {[rid |-> s_owns[x].rid, flag |-> Flags!Judged(x)] :
                      x \in {y \in Flags!Current : s_owns[y].kind = "indirect" /\ s_owns[y].flag # Flags!Judged(y)}}
<1>1. /\ s_pass' = [s_pass EXCEPT !.pc = "yes", !.todo = todo] /\ s_pass.pc = "indirect"
      /\ UNCHANGED <<s_owns, s_writes, s_quiet>>
  BY DEF Flags!ReadIndirect
<1> HIDE DEF todo
<1>2. s_pass'.pc = "yes" /\ s_pass'.todo = todo /\ s_pass'.direct = s_pass.direct
      /\ s_pass' = [pc |-> s_pass'.pc, direct |-> s_pass'.direct, todo |-> s_pass'.todo]
  BY <1>1 DEF FlagInv, FlagTyped
<1>3. FlagTyped'
  BY <1>1, <1>2 DEF FlagInv, FlagTyped, Flags!Current
<1>4. Directs' = Directs /\ Indirects' = Indirects /\ Flags!Current' = Flags!Current
  BY <1>1 DEF Directs, Indirects, Flags!Current
<1>5. \A x \in FlagPairs : Due(x)' = Due(x) /\ Slip(x)' = Slip(x)
  BY <1>1, <1>4 DEF Due, Slip
<1>6. ASSUME s_quiet PROVE Judging'
  <2>1. s_pass.direct = Directs
    BY <1>1, <1>6 DEF FlagInv, Judging
  <2>2. \A x \in FlagPairs : Flags!Judged(x) = Due(x)
    BY <2>1 DEF Flags!Judged, Flags!Reachable, Due
  <2>3. \A t \in todo : \E y \in Indirects : t.rid = s_owns[y].rid /\ t.flag = Due(y)
    BY <2>2 DEF todo, Indirects, Flags!Current
  <2>4. SlipsDue'
    <3> SUFFICES ASSUME NEW t \in todo, NEW x \in Flags!Current, t.rid = s_owns[x].rid
                 PROVE  x \in Indirects /\ t.flag = Due(x)
      BY <1>1, <1>2, <1>4, <1>5 DEF SlipsDue, Flags!Current
    <3>1. PICK y \in Indirects : t.rid = s_owns[y].rid /\ t.flag = Due(y)
      BY <2>3
    <3>2. y \in Flags!Current /\ x = y
      BY <3>1 DEF Indirects, FlagInv, FlagTyped
    <3> QED
      BY <3>1, <3>2
  <2>5. \A x \in Indirects : s_owns[x].flag = Due(x) \/ Slip(x) \in todo
    BY <2>2 DEF todo, Indirects, Flags!Current, Slip
  <2>6. Settling'
    BY <1>1, <1>2, <1>4, <1>5, <2>5 DEF Settling, Indirects, Flags!Current
  <2> QED
    BY <1>2, <1>4, <2>1, <2>4, <2>6 DEF Judging
<1> QED
  BY <1>1, <1>3, <1>6 DEF FlagInv

LEMMA WriteStep == ASSUME FlagInv, NEW flag \in {"yes", "no"}, Flags!Write(flag) PROVE FlagInv'
<1> DEFINE rids == {t.rid : t \in {u \in s_pass.todo : u.flag = flag}}
<1>1. /\ s_pass.pc = flag
      /\ s_pass' = IF flag = "yes" THEN [s_pass EXCEPT !.pc = "no"] ELSE Flags!Idle
      /\ s_writes' = s_writes
  BY DEF Flags!Write
<1>2. s_pass'.pc = (IF flag = "yes" THEN "no" ELSE "idle")
      /\ (flag = "yes" => s_pass'.direct = s_pass.direct /\ s_pass'.todo = s_pass.todo)
      /\ s_pass' = [pc |-> s_pass'.pc, direct |-> s_pass'.direct, todo |-> s_pass'.todo]
  BY <1>1 DEF FlagInv, FlagTyped, Flags!Idle
<1>3. CASE ~s_quiet' /\ UNCHANGED s_owns
  BY <1>1, <1>2, <1>3 DEF FlagInv, FlagTyped, Flags!Current
<1>4. CASE /\ s_owns' = [x \in FlagPairs |-> IF x \in Flags!Current /\ s_owns[x].rid \in rids THEN [s_owns[x] EXCEPT !.flag = flag] ELSE s_owns[x]]
           /\ UNCHANGED s_quiet
  <2>1. \A x \in FlagPairs : /\ s_owns'[x].kind = s_owns[x].kind /\ s_owns'[x].rid = s_owns[x].rid /\ s_owns'[x] \in Holdings
                        /\ s_owns'[x].flag = IF x \in Flags!Current /\ s_owns[x].rid \in rids THEN flag ELSE s_owns[x].flag
    <3> SUFFICES ASSUME NEW x \in FlagPairs
                 PROVE  /\ s_owns'[x].kind = s_owns[x].kind /\ s_owns'[x].rid = s_owns[x].rid /\ s_owns'[x] \in Holdings
                        /\ s_owns'[x].flag = IF x \in Flags!Current /\ s_owns[x].rid \in rids THEN flag ELSE s_owns[x].flag
      OBVIOUS
    <3> HIDE DEF rids
    <3>1. s_owns[x] \in Holdings
      BY DEF FlagInv, FlagTyped
    <3>2. s_owns'[x] = IF x \in Flags!Current /\ s_owns[x].rid \in rids THEN [s_owns[x] EXCEPT !.flag = flag] ELSE s_owns[x]
      BY <1>4
    <3> QED
      BY <3>1, <3>2 DEF Holdings
  <2>2. Flags!Current' = Flags!Current /\ Directs' = Directs /\ Indirects' = Indirects
    BY <2>1 DEF Flags!Current, Directs, Indirects
  <2>3. s_owns' \in [FlagPairs -> Holdings]
    BY <1>4, <2>1
  <2>4. FlagTyped'
    BY <1>1, <1>2, <2>1, <2>2, <2>3 DEF FlagInv, FlagTyped, Flags!Current
  <2>5. \A x \in FlagPairs : Due(x)' = Due(x) /\ Slip(x)' = Slip(x)
    BY <2>1, <2>2 DEF Due, Slip
  <2>6. ASSUME s_quiet PROVE Judging'
    <3>1. s_pass.direct = Directs /\ SlipsDue /\ Settling
      BY <1>1, <2>6 DEF FlagInv, Judging
    <3>2. \A x \in Flags!Current : s_owns[x].rid \in rids => x \in Indirects /\ Due(x) = flag
      BY <1>1, <3>1 DEF SlipsDue
    <3>3. \A x \in Flags!Current : Slip(x) \in s_pass.todo /\ Due(x) = flag => s_owns[x].rid \in rids
      BY DEF Slip
    <3>4. \A x \in Indirects : x \in Flags!Current /\ x \in FlagPairs
      BY DEF Indirects, Flags!Current
    <3> HIDE DEF rids
    <3>5. \A x \in Indirects : Due(x) = "yes" \/ Due(x) = "no"
      BY DEF Due
    <3>6. \A x \in Indirects : s_owns'[x].flag = Due(x) \/ (flag = "yes" /\ Due(x) = "no" /\ Slip(x) \in s_pass.todo)
      BY <1>1, <2>1, <3>1, <3>2, <3>3, <3>4, <3>5 DEF Settling
    <3>7. Settling'
      BY <1>2, <2>2, <2>5, <3>4, <3>6 DEF Settling
    <3>8. SlipsDue'
      <4>1. CASE flag = "yes"
        <5> SUFFICES ASSUME NEW t \in s_pass.todo, NEW x \in Flags!Current, t.rid = s_owns[x].rid
                     PROVE  x \in Indirects /\ t.flag = Due(x)
          BY <1>2, <2>1, <2>2, <2>5, <4>1 DEF SlipsDue, Flags!Current
        <5> QED
          BY <1>1, <3>1, <4>1 DEF SlipsDue
      <4>2. CASE flag = "no"
        BY <1>2, <4>2 DEF SlipsDue
      <4> QED
        BY <4>1, <4>2
    <3> QED
      BY <1>2, <2>2, <3>1, <3>7, <3>8 DEF Judging
  <2> QED
    BY <1>4, <2>4, <2>6 DEF FlagInv
<1> QED
  BY <1>3, <1>4 DEF Flags!Write

LEMMA FlagNextInv == ASSUME FlagInv, [Flags!Next]_(Flags!vars) PROVE FlagInv'
<1>1. CASE UNCHANGED Flags!vars
  <2>1. Flags!Current' = Flags!Current /\ Directs' = Directs /\ Indirects' = Indirects
    BY <1>1 DEF Flags!vars, Flags!Current, Directs, Indirects
  <2>2. \A x : Due(x)' = Due(x) /\ Slip(x)' = Slip(x)
    BY <1>1, <2>1 DEF Flags!vars, Due, Slip
  <2>3. FlagTyped'
    BY <1>1, <2>1 DEF Flags!vars, FlagInv, FlagTyped
  <2>4. Judging => Judging'
    BY <1>1, <2>1, <2>2 DEF Flags!vars, Judging, SlipsDue, Settling
  <2> QED
    BY <1>1, <2>3, <2>4 DEF Flags!vars, FlagInv
<1> QED
  BY <1>1, WriterStep, ReadDirectStep, ReadIndirectStep, WriteStep DEF Flags!Next

\* After a pass beside which nothing was written or failed, every holding is told: it is
\* drawn, or drawn holdings lead there (mark_ownership_shortcuts) - the flags that are no
\* ultimate parent's, which the pass never judges, apart.
THEOREM HiddenAlwaysSaid == ASSUME FlagFigures PROVE Flags!Spec => []HiddenIsSaidElsewhere
<1>1. FlagInv => HiddenIsSaidElsewhere
  BY SaidElsewhere
<1> QED
  BY <1>1, FlagInitInv, FlagNextInv, PTL DEF Flags!Spec

-----------------------------------------------------------------------------
(* The managers' quarters *)

\* The component's count is the library's.
LEMMA QuarterCounts == \A s : Quarters!Cardinality(s) = Cardinality(s)
  BY DEF Quarters!Cardinality, Cardinality

Report   == [by : QuarterFilers, quarter : Nat, at : Nat, names : BOOLEAN]
Holding  == [quarter : Nat, stale : BOOLEAN]
Reading  == [at : {"write", "stamp"}, todo : SUBSET Report, wrote : BOOLEAN, period : Nat, of : SUBSET Report]

QuartersTyped ==
  /\ q_now \in Nat /\ q_now # 0 /\ q_stamped \in Nat /\ q_faults \in Nat
  /\ q_filings \subseteq Report /\ IsFiniteSet(q_filings)
  /\ q_holding \in [QuarterFilers -> Holding]
  /\ q_run = Quarters!Idle \/ q_run \in Reading
  /\ q_prior \subseteq q_filings
  /\ q_run # Quarters!Idle =>
       q_prior \subseteq q_run.of /\ q_run.todo \subseteq q_run.of /\ q_run.of \subseteq q_filings

\* A manager files for the quarter it is, once, and later for a later one.
InOrder ==
  /\ \A n \in q_filings : n.quarter = Quarters!QuarterOf(n.at) /\ n.at <= q_now /\ n.at # 0
  /\ \A n, m \in q_filings : n.by = m.by /\ n.quarter = m.quarter => n = m

\* What a run found filed was filed before the rest.
Before(s) == \A n \in s, m \in q_filings \ s : n.by = m.by => n.quarter < m.quarter
Searched ==
  /\ Before(q_prior) /\ \A n \in q_prior : n.at <= q_stamped
  /\ q_run # Quarters!Idle => Before(q_run.of)

Confirms(n) == n.names /\ n.by \in QuarterPresent \cap QuarterSpelled /\ n.quarter = Quarters!QuarterOf(q_now)
Drawn(n)    == q_holding[n.by] = [quarter |-> n.quarter, stale |-> FALSE]

\* Who confirmed the quarter to an earlier run is drawn, and who does so to this one is
\* drawn or about to be, and from no other report.
DrawnOrRead ==
  /\ \A n \in q_prior : Confirms(n) => Drawn(n)
  /\ q_run # Quarters!Idle =>
       /\ q_run.period <= Quarters!QuarterOf(q_now)
       /\ \A n \in q_run.of : Confirms(n) => Drawn(n) \/ n \in q_run.todo
       /\ \A n \in q_run.of, m \in q_run.todo : Confirms(n) /\ n.by = m.by => n = m
       /\ q_run.at = "stamp" => q_run.todo = {}

QuartersInv == QuartersTyped /\ InOrder /\ Searched /\ (q_faults = 0 => DrawnOrRead)

-----------------------------------------------------------------------------
\* Quarters follow one another, two ticks each.
LEMMA QuarterNumber ==
  ASSUME NEW t \in Nat, NEW u \in Nat, t <= u
  PROVE  /\ Quarters!QuarterOf(t) \in Nat /\ Quarters!QuarterOf(t) <= Quarters!QuarterOf(u)
         /\ Quarters!QuarterOf(t) = Quarters!QuarterOf(u) => u <= t + 1
  BY DEF Quarters!QuarterOf

LEMMA QuartersBegin == Quarters!Init => QuartersInv
<1> SUFFICES ASSUME Quarters!Init PROVE QuartersInv
  OBVIOUS
<1>1. QuartersTyped
  BY FS_EmptySet DEF Quarters!Init, QuartersTyped, Quarters!NoEdge, Holding
<1>2. InOrder /\ Searched /\ DrawnOrRead
  BY DEF Quarters!Init, InOrder, Searched, Before, DrawnOrRead
<1> QED
  BY <1>1, <1>2 DEF QuartersInv

\* Nothing but the clock and what was filed counts: an idle step of it.
LEMMA FilingKeeps ==
  ASSUME QuartersInv, NEW f \in QuarterFilers, NEW names \in BOOLEAN, Quarters!File(f, names)
  PROVE  QuartersInv'
<1> DEFINE n == [by |-> f, quarter |-> Quarters!QuarterOf(q_now), at |-> q_now, names |-> names]
<1>1. /\ q_filings' = q_filings \cup {n} /\ \A m \in q_filings : m.by = f => m.quarter < n.quarter
      /\ UNCHANGED <<q_now, q_cusip, q_holding, q_stamped, q_prior, q_run, q_runs, q_faults>>
  BY DEF Quarters!File
<1>2. n \in Report /\ n.by = f /\ n.quarter = Quarters!QuarterOf(q_now) /\ n.at = q_now
  BY QuarterNumber DEF QuartersInv, QuartersTyped, Report
<1> HIDE DEF n
<1>3. QuartersTyped'
  BY <1>1, <1>2, FS_AddElement DEF QuartersInv, QuartersTyped
<1>4. \A m \in q_filings : m.by \in QuarterFilers /\ m.quarter \in Nat
  BY DEF QuartersInv, QuartersTyped, Report
<1>5. InOrder'
  <2>1. \A m \in q_filings : m.quarter = Quarters!QuarterOf(m.at) /\ m.at <= q_now /\ m.at # 0
    BY DEF QuartersInv, InOrder
  <2>2. \A m \in q_filings : m.by = n.by => m.quarter # n.quarter
    BY <1>1, <1>2, <1>4
  <2>3. \A m, o \in q_filings : m.by = o.by /\ m.quarter = o.quarter => m = o
    BY DEF QuartersInv, InOrder
  <2>4. \A m \in q_filings' : m.quarter = Quarters!QuarterOf(m.at) /\ m.at <= q_now /\ m.at # 0
    BY <1>1, <1>2, <2>1 DEF QuartersInv, QuartersTyped
  <2>5. \A m, o \in q_filings' : m.by = o.by /\ m.quarter = o.quarter => m = o
    BY <1>1, <2>2, <2>3
  <2> QED
    BY <1>1, <2>4, <2>5 DEF InOrder, Quarters!QuarterOf
<1>6. ASSUME NEW s, s \subseteq q_filings, Before(s) PROVE Before(s)'
  BY <1>1, <1>2, <1>6 DEF Before
<1>7. Searched'
  BY <1>1, <1>6 DEF QuartersInv, QuartersTyped, Searched, Before
<1>8. (q_faults = 0 => DrawnOrRead)'
  BY <1>1 DEF QuartersInv, DrawnOrRead, Confirms, Drawn, Quarters!QuarterOf
<1> QED
  BY <1>3, <1>5, <1>7, <1>8 DEF QuartersInv

\* In a new quarter nobody has confirmed yet.
LEMMA TickKeeps ==
  ASSUME QuartersInv, Quarters!Tick
  PROVE  QuartersInv'
<1>1. /\ q_run = Quarters!Idle /\ q_now' = q_now + 1
      /\ UNCHANGED <<q_filings, q_cusip, q_holding, q_stamped, q_prior, q_run, q_runs, q_faults>>
  BY DEF Quarters!Tick
<1>2. QuartersTyped'
  BY <1>1 DEF QuartersInv, QuartersTyped
<1>3. InOrder'
  BY <1>1 DEF QuartersInv, QuartersTyped, Report, InOrder, Quarters!QuarterOf
<1>4. Searched'
  BY <1>1 DEF QuartersInv, Searched, Before
<1>5. ASSUME q_faults = 0, NEW n \in q_prior, Confirms(n)' PROVE Drawn(n)'
  <2>1. n \in q_filings /\ n.at \in Nat /\ n.at <= q_now /\ n.quarter = Quarters!QuarterOf(n.at)
    BY DEF QuartersInv, QuartersTyped, InOrder, Report
  <2>2. Quarters!QuarterOf(n.at) <= Quarters!QuarterOf(q_now) /\ Quarters!QuarterOf(q_now) <= Quarters!QuarterOf(q_now + 1)
    BY <2>1, QuarterNumber DEF QuartersInv, QuartersTyped
  <2>3. Quarters!QuarterOf(n.at) \in Nat /\ Quarters!QuarterOf(q_now) \in Nat
    BY <2>1 DEF Quarters!QuarterOf, QuartersInv, QuartersTyped
  <2>4. n.quarter = Quarters!QuarterOf(q_now + 1)
    BY <1>1, <1>5 DEF Confirms, Quarters!QuarterOf
  <2>5. Confirms(n)
    BY <1>1, <1>5, <2>1, <2>2, <2>3, <2>4 DEF Confirms
  <2>6. Drawn(n)
    BY <1>5, <2>5 DEF QuartersInv, DrawnOrRead
  <2> QED
    BY <1>1, <2>6 DEF Drawn
<1>6. (q_faults = 0 => DrawnOrRead)'
  BY <1>1, <1>5 DEF DrawnOrRead, Confirms, Drawn
<1> QED
  BY <1>2, <1>3, <1>4, <1>6 DEF QuartersInv

-----------------------------------------------------------------------------
(* A search *)

\* What the searches of a run can find.
LEMMA Found ==
  ASSUME QuartersInv, NEW overlap \in SUBSET {n \in q_prior : n.at = q_stamped}, NEW known, NEW lost, NEW s \in Quarters!Holders(known, overlap, lost)
  PROVE  /\ s \subseteq q_filings
         /\ \A n \in s : n \notin q_prior \/ n.at = q_stamped
<1>1. s \subseteq Quarters!InWindow(overlap)
  BY DEF Quarters!Holders, Quarters!Picked, Quarters!NewestOf
<1>2. Quarters!InWindow(overlap) \subseteq q_filings
  BY DEF Quarters!InWindow
<1>3. ASSUME NEW n \in Quarters!InWindow(overlap), n \in q_prior PROVE n.at = q_stamped
  <2>1. n.at <= q_stamped /\ n.at # 0 /\ n.at \in Nat /\ q_stamped \in Nat
    BY <1>3 DEF QuartersInv, QuartersTyped, Searched, InOrder, Report
  <2>2. n \in overlap
    BY <1>3, <2>1 DEF Quarters!InWindow
  <2> QED
    BY <2>2
<1> QED
  BY <1>1, <1>2, <1>3

\* A report that confirms the quarter is the only one of its manager's that can be found.
LEMMA FoundAlone ==
  ASSUME QuartersInv, NEW n \in q_filings, Confirms(n), NEW m \in q_filings, m.by = n.by,
         n \in q_prior => (m \notin q_prior \/ m.at = q_stamped),
         n \notin q_prior => n.quarter <= m.quarter
  PROVE  n = m
<1>1. /\ n.at \in Nat /\ m.at \in Nat /\ q_now \in Nat /\ n.at <= q_now /\ m.at <= q_now
      /\ n.quarter = Quarters!QuarterOf(n.at) /\ m.quarter = Quarters!QuarterOf(m.at)
      /\ n.quarter \in Nat /\ m.quarter \in Nat
  BY DEF QuartersInv, QuartersTyped, InOrder, Report
<1>2. n.quarter = Quarters!QuarterOf(q_now) /\ m.quarter <= n.quarter
  BY <1>1, QuarterNumber DEF Confirms
<1>3. n.quarter <= m.quarter
  <2>1. CASE n \in q_prior /\ m \in q_prior
    <3>1. n.at <= m.at
      BY <2>1 DEF QuartersInv, Searched
    <3> QED
      BY <1>1, <3>1, QuarterNumber
  <2>2. CASE n \in q_prior /\ m \notin q_prior
    BY <1>1, <2>2 DEF QuartersInv, Searched, Before
  <2> QED
    BY <2>1, <2>2
<1>4. n.quarter = m.quarter
  BY <1>1, <1>2, <1>3
<1> QED
  BY <1>4 DEF QuartersInv, InOrder

\* The search for who is known brings each report that confirms the quarter, but for
\* those the last run read.
LEMMA FoundAtOnce ==
  ASSUME QuartersInv, NEW n \in q_filings, Confirms(n), n \notin q_prior,
         NEW overlap \in SUBSET {x \in q_prior : x.at = q_stamped}, NEW known, NEW s \in Quarters!Holders(known, overlap, {})
  PROVE  n \in s
<1> DEFINE found == {x \in Quarters!InWindow(overlap) : Quarters!Matches(x, known)}
<1>1. /\ n.at \in Nat /\ q_now \in Nat /\ n.at <= q_now
      /\ n.quarter = Quarters!QuarterOf(n.at) /\ n.quarter = Quarters!QuarterOf(q_now)
  BY DEF QuartersInv, QuartersTyped, InOrder, Report, Confirms
<1>2. n.at + Quarters!WindowTicks >= q_now
  <2>1. Quarters!QuarterOf(n.at) = Quarters!QuarterOf(q_now)
    BY <1>1
  <2>2. q_now <= n.at + 1
    BY <1>1, <2>1, QuarterNumber
  <2> QED
    BY <1>1, <2>2 DEF Quarters!WindowTicks
<1>3. n \in found
  BY <1>2 DEF Quarters!InWindow, Quarters!Matches, Confirms
<1>4. \A m \in found : m.quarter <= n.quarter
  <2> TAKE m \in found
  <2>1. m \in q_filings
    BY DEF Quarters!InWindow
  <2>2. m.at \in Nat /\ m.at <= q_now /\ m.quarter = Quarters!QuarterOf(m.at)
    BY <2>1 DEF QuartersInv, QuartersTyped, InOrder, Report
  <2> QED
    BY <1>1, <2>2, QuarterNumber
<1>5. n \in Quarters!NewestOf(found)
  BY <1>3, <1>4 DEF Quarters!NewestOf
<1>6. n.by \in Quarters!InGraph
  BY DEF Confirms, Quarters!InGraph
<1>7. PICK p \in Quarters!Picked(Quarters!NewestOf(found)) : s = p \ {}
  BY DEF Quarters!Holders
<1>8. n \in p
  BY <1>5, <1>6, <1>7 DEF Quarters!Picked
<1> QED
  BY <1>7, <1>8

LEMMA SearchKeeps ==
  ASSUME QuartersInv, NEW force \in BOOLEAN, Quarters!Search(force)
  PROVE  QuartersInv'
<1>0. /\ q_run = Quarters!Idle
      /\ UNCHANGED <<q_now, q_filings, q_holding, q_stamped, q_prior>>
  BY DEF Quarters!Search
<1>1. PICK overlap \in SUBSET {n \in q_prior : n.at = q_stamped}, lost \in SUBSET q_filings :
        /\ q_faults' = q_faults + Quarters!Cardinality(lost)
        /\ \E first \in Quarters!Holders(q_cusip, overlap, lost) :
             /\ q_cusip' = (q_cusip \/ Quarters!Learns(first))
             /\ \E second \in IF q_cusip' = q_cusip THEN {{}} ELSE Quarters!Holders(TRUE, overlap, lost) :
                  LET extra == {n \in second : \A m \in first : m.by # n.by}
                  IN \E period \in IF first = {} THEN {0} ELSE Quarters!Periods(first) :
                       q_run' = [at |-> "write", todo |-> first \cup extra, wrote |-> FALSE,
                                 period |-> period, of |-> q_filings]
  BY DEF Quarters!Search
<1>2. PICK first \in Quarters!Holders(q_cusip, overlap, lost),
           second \in IF q_cusip' = q_cusip THEN {{}} ELSE Quarters!Holders(TRUE, overlap, lost) :
        \E period \in IF first = {} THEN {0} ELSE Quarters!Periods(first) :
          q_run' = [at |-> "write", todo |-> first \cup {n \in second : \A m \in first : m.by # n.by},
                    wrote |-> FALSE, period |-> period, of |-> q_filings]
  BY <1>1
<1> DEFINE todo == first \cup {n \in second : \A m \in first : m.by # n.by}
<1>3. PICK period \in IF first = {} THEN {0} ELSE Quarters!Periods(first) :
        q_run' = [at |-> "write", todo |-> todo, wrote |-> FALSE, period |-> period, of |-> q_filings]
  BY <1>2
<1>4. /\ todo \subseteq q_filings
      /\ \A n \in todo : n \notin q_prior \/ n.at = q_stamped
  BY Found
<1>5. IsFiniteSet(lost) /\ Cardinality(lost) \in Nat /\ (Cardinality(lost) = 0 <=> lost = {})
  BY FS_Subset, FS_CardinalityType, FS_EmptySet DEF QuartersInv, QuartersTyped
<1>6. period \in Nat /\ period <= Quarters!QuarterOf(q_now)
  <2>1. \A n \in q_filings : n.quarter \in Nat /\ n.quarter <= Quarters!QuarterOf(q_now)
    BY QuarterNumber DEF QuartersInv, QuartersTyped, InOrder, Report
  <2>2. CASE first = {}
    BY <2>2 DEF Quarters!QuarterOf, QuartersInv, QuartersTyped
  <2>3. CASE first # {}
    BY <1>4, <2>1, <2>3 DEF Quarters!Periods
  <2> QED
    BY <2>2, <2>3
<1> HIDE DEF todo
<1>7. /\ q_run' # Quarters!Idle /\ q_run'.at = "write" /\ q_run'.todo = todo /\ q_run'.of = q_filings
      /\ q_run'.period = period /\ q_run' \in Reading
  BY <1>3, <1>4, <1>6 DEF Quarters!Idle, Reading, QuartersInv, QuartersTyped
<1>8. q_faults' \in Nat /\ (q_faults' = 0 => q_faults = 0 /\ lost = {})
  BY <1>1, <1>5, QuarterCounts DEF QuartersInv, QuartersTyped
<1>9. QuartersTyped'
  BY <1>0, <1>4, <1>7, <1>8 DEF QuartersInv, QuartersTyped
<1>10. InOrder'
  BY <1>0 DEF QuartersInv, InOrder
<1>11. Searched'
  BY <1>0, <1>7 DEF QuartersInv, Searched, Before
<1>12. ASSUME q_faults' = 0 PROVE DrawnOrRead'
  <2>1. DrawnOrRead
    BY <1>8, <1>12 DEF QuartersInv
  <2>2. \A n : (Confirms(n)' <=> Confirms(n)) /\ (Drawn(n)' <=> Drawn(n))
    BY <1>0 DEF Confirms, Drawn, Quarters!QuarterOf
  <2>3. ASSUME NEW n \in q_filings, Confirms(n), n \notin q_prior PROVE n \in first
    BY <1>8, <1>12, <2>3, FoundAtOnce
  <2>4. ASSUME NEW n \in q_filings, Confirms(n) PROVE Drawn(n) \/ n \in todo
    BY <2>1, <2>3, <2>4 DEF DrawnOrRead, todo
  <2>5. ASSUME NEW n \in q_filings, NEW m \in todo, Confirms(n), n.by = m.by PROVE n = m
    <3>1. CASE n \in q_prior
      BY <1>4, <2>5, <3>1, FoundAlone
    <3>2. CASE n \notin q_prior
      <4>1. n \in first
        BY <2>3, <2>5, <3>2
      <4>2. m \in first
        BY <2>5, <4>1 DEF todo
      <4>3. n.quarter <= m.quarter
        <5>1. PICK p \in Quarters!Picked(Quarters!NewestOf({x \in Quarters!InWindow(overlap) : Quarters!Matches(x, q_cusip)})) : first = p \ lost
          BY DEF Quarters!Holders
        <5>2. first \subseteq Quarters!NewestOf({x \in Quarters!InWindow(overlap) : Quarters!Matches(x, q_cusip)})
          BY <5>1 DEF Quarters!Picked
        <5> QED
          BY <2>5, <4>1, <4>2, <5>2 DEF Quarters!NewestOf
      <4> QED
        BY <1>4, <2>5, <3>2, <4>3, FoundAlone
    <3> QED
      BY <3>1, <3>2
  <2>6. \A n \in q_prior : Confirms(n) => Drawn(n)
    BY <2>1 DEF DrawnOrRead
  <2> QED
    BY <1>0, <1>6, <1>7, <2>2, <2>4, <2>5, <2>6 DEF DrawnOrRead, Quarters!QuarterOf
<1> QED
  BY <1>9, <1>10, <1>11, <1>12 DEF QuartersInv

-----------------------------------------------------------------------------
(* The writing *)

LEMMA WriteKeeps ==
  ASSUME QuartersInv, Quarters!Write
  PROVE  QuartersInv'
<1>1. PICK n \in q_run.todo :
        /\ q_run.at = "write"
        /\ q_holding' = [q_holding EXCEPT ![n.by] = [quarter |-> n.quarter, stale |-> FALSE]]
        /\ q_run' = [q_run EXCEPT !.todo = @ \ {n}, !.wrote = TRUE]
        /\ UNCHANGED <<q_now, q_filings, q_cusip, q_stamped, q_prior, q_runs, q_faults>>
  BY DEF Quarters!Write
<1>2. q_run \in Reading /\ q_run # Quarters!Idle
  BY <1>1 DEF QuartersInv, QuartersTyped, Quarters!Idle
<1>3. n \in q_run.of /\ n \in q_filings /\ n \in Report
  BY <1>2 DEF QuartersInv, QuartersTyped
<1>4. /\ q_run' \in Reading /\ q_run'.at = "write" /\ q_run'.todo = q_run.todo \ {n} /\ q_run'.of = q_run.of
      /\ q_run'.period = q_run.period
  BY <1>1, <1>2 DEF Reading
<1>5. q_run' # Quarters!Idle
  BY <1>4 DEF Quarters!Idle
<1>6. q_holding' \in [QuarterFilers -> Holding] /\ \A f \in QuarterFilers :
        q_holding'[f] = IF f = n.by THEN [quarter |-> n.quarter, stale |-> FALSE] ELSE q_holding[f]
  <2>1. [quarter |-> n.quarter, stale |-> FALSE] \in Holding /\ n.by \in QuarterFilers
    BY <1>3 DEF Holding, Report
  <2> QED
    BY <1>1, <2>1 DEF QuartersInv, QuartersTyped
<1>7. QuartersTyped'
  BY <1>1, <1>2, <1>4, <1>5, <1>6 DEF QuartersInv, QuartersTyped
<1>8. InOrder' /\ Searched'
  BY <1>1, <1>2, <1>4, <1>5 DEF QuartersInv, InOrder, Searched, Before
<1>9. ASSUME q_faults' = 0 PROVE DrawnOrRead'
  <2>1. DrawnOrRead /\ QuartersTyped
    BY <1>1, <1>9 DEF QuartersInv
  <2>2. ASSUME NEW m \in q_run.of, Confirms(m) PROVE (Drawn(m)' \/ m \in q_run.todo \ {n}) /\ (Drawn(m) => Drawn(m)')
    <3>1. m.by = n.by => m = n
      BY <1>2, <2>1, <2>2 DEF DrawnOrRead
    <3>2. m.by \in QuarterFilers
      BY <1>2, <2>1, <2>2 DEF QuartersTyped, Report
    <3>3. Drawn(m) \/ m \in q_run.todo
      BY <1>2, <2>1, <2>2 DEF DrawnOrRead
    <3> QED
      BY <1>6, <3>1, <3>2, <3>3 DEF Drawn
  <2>3. \A m : Confirms(m)' <=> Confirms(m)
    BY <1>1 DEF Confirms, Quarters!QuarterOf
  <2>4. \A m \in q_prior : Confirms(m) => Drawn(m)'
    BY <1>2, <2>1, <2>2 DEF DrawnOrRead, QuartersTyped
  <2> QED
    BY <1>1, <1>2, <1>4, <1>5, <2>1, <2>2, <2>3, <2>4 DEF DrawnOrRead, Quarters!QuarterOf
<1> QED
  BY <1>7, <1>8, <1>9 DEF QuartersInv

LEMMA MarkKeeps ==
  ASSUME QuartersInv, Quarters!Mark
  PROVE  QuartersInv'
<1>1. /\ q_run.at = "write" /\ q_run.todo = {}
      /\ q_holding' = [f \in QuarterFilers |->
           IF q_run.wrote /\ q_run.period # 0 /\ Quarters!Unconfirmed(f, q_run.period)
           THEN [q_holding[f] EXCEPT !.stale = TRUE] ELSE q_holding[f]]
      /\ q_run' = [q_run EXCEPT !.at = "stamp"]
      /\ UNCHANGED <<q_now, q_filings, q_cusip, q_stamped, q_prior, q_runs, q_faults>>
  BY DEF Quarters!Mark
<1>2. q_run \in Reading /\ q_run # Quarters!Idle
  BY <1>1 DEF QuartersInv, QuartersTyped, Quarters!Idle
<1>3. /\ q_run' \in Reading /\ q_run'.at = "stamp" /\ q_run'.todo = {} /\ q_run'.of = q_run.of
      /\ q_run'.period = q_run.period
  BY <1>1, <1>2 DEF Reading
<1>4. q_run' # Quarters!Idle
  BY <1>3 DEF Quarters!Idle
<1>5. q_holding' \in [QuarterFilers -> Holding]
  BY <1>1 DEF QuartersInv, QuartersTyped, Holding
<1>6. QuartersTyped'
  BY <1>1, <1>2, <1>3, <1>4, <1>5 DEF QuartersInv, QuartersTyped
<1>7. InOrder' /\ Searched'
  BY <1>1, <1>2, <1>3, <1>4 DEF QuartersInv, InOrder, Searched, Before
<1>8. ASSUME q_faults' = 0 PROVE DrawnOrRead'
  <2>1. DrawnOrRead /\ QuartersTyped
    BY <1>1, <1>8 DEF QuartersInv
  <2>2. ASSUME NEW m \in q_filings, Confirms(m), Drawn(m) PROVE Drawn(m)'
    <3>1. m.by \in QuarterFilers /\ m.quarter \in Nat
      BY <2>1 DEF QuartersTyped, Report
    <3>2. q_run.period \in Nat /\ q_run.period <= m.quarter
      BY <1>2, <2>1, <2>2 DEF DrawnOrRead, Confirms, Reading
    <3>3. q_holding[m.by].quarter = m.quarter
      BY <2>2 DEF Drawn
    <3>4. ~Quarters!Unconfirmed(m.by, q_run.period)
      BY <3>1, <3>2, <3>3 DEF Quarters!Unconfirmed
    <3> QED
      BY <1>1, <2>2, <3>1, <3>4 DEF Drawn
  <2>3. \A m : Confirms(m)' <=> Confirms(m)
    BY <1>1 DEF Confirms, Quarters!QuarterOf
  <2>4. \A m \in q_run.of : Confirms(m) => Drawn(m)
    BY <1>1, <1>2, <2>1 DEF DrawnOrRead
  <2>5. q_prior \subseteq q_run.of /\ q_run.of \subseteq q_filings
    BY <1>2, <2>1 DEF QuartersTyped
  <2> QED
    BY <1>1, <1>2, <1>3, <1>4, <2>1, <2>2, <2>3, <2>4, <2>5 DEF DrawnOrRead, Quarters!QuarterOf
<1> QED
  BY <1>6, <1>7, <1>8 DEF QuartersInv

LEMMA RunEndsKeeps ==
  ASSUME QuartersInv, Quarters!Stamp \/ Quarters!Die
  PROVE  QuartersInv'
<1>1. CASE Quarters!Stamp
  <2>1. /\ q_run.at = "stamp" /\ q_stamped' = q_now /\ q_prior' = q_run.of /\ q_run' = Quarters!Idle
        /\ UNCHANGED <<q_now, q_filings, q_cusip, q_holding, q_runs, q_faults>>
    BY <1>1 DEF Quarters!Stamp
  <2>2. q_run # Quarters!Idle /\ q_run.of \subseteq q_filings
    BY <2>1 DEF QuartersInv, QuartersTyped, Quarters!Idle
  <2>3. QuartersTyped' /\ InOrder'
    BY <2>1, <2>2 DEF QuartersInv, QuartersTyped, InOrder
  <2>4. Searched'
    BY <2>1, <2>2 DEF QuartersInv, InOrder, Searched, Before
  <2>5. (q_faults = 0 => DrawnOrRead)'
    BY <2>1, <2>2 DEF QuartersInv, DrawnOrRead, Confirms, Drawn, Quarters!QuarterOf
  <2> QED
    BY <2>3, <2>4, <2>5 DEF QuartersInv
<1>2. CASE Quarters!Die
  <2>1. /\ q_run' = Quarters!Idle
        /\ UNCHANGED <<q_now, q_filings, q_cusip, q_holding, q_stamped, q_prior, q_runs, q_faults>>
    BY <1>2 DEF Quarters!Die
  <2>2. QuartersTyped' /\ InOrder' /\ Searched'
    BY <2>1 DEF QuartersInv, QuartersTyped, InOrder, Searched, Before
  <2>3. (q_faults = 0 => DrawnOrRead)'
    BY <2>1 DEF QuartersInv, DrawnOrRead, Confirms, Drawn, Quarters!QuarterOf
  <2> QED
    BY <2>2, <2>3 DEF QuartersInv
<1> QED
  BY <1>1, <1>2

-----------------------------------------------------------------------------
\* The inductive invariant of the quarterly reports.
THEOREM QuartersInvariance == Quarters!Spec => []QuartersInv
<1>1. Quarters!Init => QuartersInv
  BY QuartersBegin
<1>2. QuartersInv /\ [Quarters!Next]_(Quarters!vars) => QuartersInv'
  <2>1. QuartersInv /\ UNCHANGED Quarters!vars => QuartersInv'
    BY DEF Quarters!vars, QuartersInv, QuartersTyped, InOrder, Searched, Before, DrawnOrRead, Confirms,
           Drawn, Quarters!QuarterOf
  <2> QED
    BY <2>1, FilingKeeps, TickKeeps, SearchKeeps, WriteKeeps, MarkKeeps, RunEndsKeeps DEF Quarters!Next
<1> QED
  BY <1>1, <1>2, PTL DEF Quarters!Spec

\* When a run completes, every manager the graph knew who named the company for the
\* quarter is drawn for it and not dimmed, for any managers, calendar and runs and
\* wherever a run dies (run_sec_13f, mark_13f_stale).
THEOREM ConfirmedAlwaysStands == Quarters!Spec => ConfirmedStands
<1>1. ASSUME QuartersInv, [Quarters!Next]_(Quarters!vars), q_run.at = "stamp", q_run' = Quarters!Idle, q_faults = 0,
             NEW n \in q_run.of, n.names, n.by \in QuarterPresent \cap QuarterSpelled,
             n.quarter = Quarters!QuarterOf(q_now)
      PROVE  q_holding'[n.by] = [quarter |-> n.quarter, stale |-> FALSE]
  <2>1. q_run # Quarters!Idle
    BY <1>1 DEF Quarters!Idle
  <2>2. Drawn(n)
    BY <1>1, <2>1 DEF QuartersInv, DrawnOrRead, Confirms
  <2>3. UNCHANGED q_holding
    <3>1. ASSUME NEW force, Quarters!Search(force) PROVE FALSE
      BY <2>1, <3>1 DEF Quarters!Search
    <3>2. ASSUME Quarters!Write \/ Quarters!Mark PROVE FALSE
      BY <1>1, <3>2 DEF Quarters!Write, Quarters!Mark
    <3> QED
      BY <1>1, <3>1, <3>2 DEF Quarters!Next, Quarters!File, Quarters!Tick, Quarters!Stamp, Quarters!Die, Quarters!vars
  <2> QED
    BY <2>2, <2>3 DEF Drawn
<1>2. QuartersInv /\ [Quarters!Next]_(Quarters!vars) =>
        (q_run.at = "stamp" /\ q_run' = Quarters!Idle /\ q_stamped' = q_now /\ q_faults = 0 =>
           \A n \in q_run.of :
             n.names /\ n.by \in QuarterPresent \cap QuarterSpelled /\ n.quarter = Quarters!QuarterOf(q_now)
               => q_holding'[n.by] = [quarter |-> n.quarter, stale |-> FALSE])
  BY <1>1
<1> QED
  BY <1>2, QuartersInvariance, PTL DEF Quarters!Spec, ConfirmedStands, Quarters!ConfirmedStands

-----------------------------------------------------------------------------
(* The copy of the PSC register *)

Writing == {"load", "apply", "claims", "rotate", "install"}
Places  == Writing \cup {"mark", "loaded", "clean-up", "date"}
Job     == [at : Places, day : Nat, todo : SUBSET Rec, gone : SUBSET Rec,
            known : SUBSET (Pair \cup {"full", "subset"})]

Typed ==
  /\ log \in Seq([Rec -> Statement]) /\ Len(log) >= 1
  /\ here \subseteq Pair /\ edges \subseteq EdgeRow
  /\ settled \in 0 .. Len(log) /\ digest \in {0, settled}
  /\ work \in [day : 0 .. Len(log), recs : SUBSET Rec]
  /\ stray \subseteq Rec /\ owed \subseteq Rec /\ twins \subseteq Pair
  /\ job = Idle \/ (job \in Job /\ job.day \in 1 .. Len(log))

Lives(r) == [link |-> r, state |-> "live"] \in edges

\* The snapshot whose statement the graph shows of an appointment.
Day(r) == IF r \in work.recs THEN work.day ELSE settled

\* Two appointments of a pair that was never twinned are not live together, in
\* any snapshot the graph shows something of.
TwinsKnown == Twinned(settled) \subseteq twins /\ Twinned(work.day) \subseteq twins

\* What a run still has to write is what its snapshot changes.
LoadKnows ==
  At("load") =>
    /\ \A r \in job.todo : /\ Stated(job.day, r) # "absent"
                           /\ Lives(r) /\ Stated(job.day, r) # "live" => r \in owed
    /\ \A r \in Rec \ (job.todo \cup work.recs \cup owed \cup stray) :
         Stated(job.day, r) = "absent" /\ ~Lives(r)

RefreshKnows ==
  /\ At("apply") =>
       /\ \A r \in job.todo : Stated(job.day, r) # "absent"
       /\ \A r \in job.gone : Stated(job.day, r) = "absent"
  /\ job.at \in {"apply", "claims", "rotate", "install"} =>
       \A r \in Rec \ (work.recs \cup owed \cup stray) :
         \/ Stated(settled, r) = Stated(job.day, r)
         \/ At("apply") /\ r \in job.todo \cup job.gone

RunKnows ==
  /\ job.at \in Writing => work.day = job.day
  /\ LoadKnows /\ RefreshKnows

\* An appointment has a live edge exactly when it is live in the snapshot it is
\* shown from.
ShownLive ==
  \A r \in Rec \ (owed \cup stray) : PairOf[r] \notin twins =>
    (Lives(r) <=> Stated(Day(r), r) = "live")

\* An appointment alone on its pair is shown as it is stated.
SolosShow == \A r \in Solo \ (owed \cup stray) : Mirror!Agrees(View(r), Stated(Day(r), r))

Inv == Typed /\ TwinsKnown /\ RunKnows /\ ShownLive /\ SolosShow

USE RecAssumption, PairAssumption, BoundAssumption, ScopeAssumption DEF Statement

-----------------------------------------------------------------------------
(* One live appointment, one edge *)

\* A finite set that has no two elements has one.
LEMMA NotTwo ==
  ASSUME NEW S, IsFiniteSet(S), ~(Cardinality(S) > 1), NEW a \in S, NEW b \in S
  PROVE  a = b
<1> SUFFICES ASSUME a # b PROVE FALSE
  OBVIOUS
<1>1. IsFiniteSet({a}) /\ Cardinality({a}) = 1
  BY FS_Singleton
<1>2. Cardinality({a} \cup {b}) = 2
  <2>1. Cardinality({a} \cup {b}) = Cardinality({a}) + 1
    BY <1>1, FS_AddElement
  <2> QED
    BY <1>1, <2>1
<1>3. {a} \cup {b} \in SUBSET S
  OBVIOUS
<1>4. Cardinality({a} \cup {b}) <= Cardinality(S) /\ Cardinality(S) \in Nat
  BY <1>3, FS_Subset, FS_CardinalityType
<1> QED
  BY <1>2, <1>4

\* On a pair that is not twinned that day, one appointment is live at most.
LEMMA LoneLive ==
  ASSUME NEW day, NEW p \in Pair, p \notin Twinned(day),
         NEW r \in LiveIn(day, p), NEW s \in LiveIn(day, p)
  PROVE  r = s
<1>1. LiveIn(day, p) \in SUBSET Rec
  BY DEF LiveIn, Of
<1>2. IsFiniteSet(LiveIn(day, p))
  BY <1>1, FS_Subset
<1> QED
  BY <1>2, NotTwo DEF Twinned

\* Before the first snapshot nothing is live.
LEMMA NoneTwinned == Twinned(0) = {}
<1>1. \A p \in Pair : LiveIn(0, p) = {}
  BY DEF LiveIn, Stated
<1> QED
  BY <1>1, FS_EmptySet DEF Twinned

-----------------------------------------------------------------------------
(* Types *)

LEMMA InitInv == Init => Inv
<1> SUFFICES ASSUME Init PROVE Inv
  OBVIOUS
<1>1. log \in Seq([Rec -> Statement]) /\ Len(log) = 1
  <2>1. log \in [1 .. 1 -> [Rec -> Statement]]
    BY FirstAssumption DEF Init
  <2> QED
    BY <2>1
<1>2. Typed
  BY <1>1 DEF Typed, Init
<1>3. TwinsKnown
  BY NoneTwinned DEF TwinsKnown, Init
<1>4. RunKnows
  BY DEF RunKnows, LoadKnows, RefreshKnows, Init, Idle, At, Writing
<1>5. ShownLive
  BY DEF ShownLive, Lives, Day, Stated, Init
<1>6. SolosShow
  BY DEF SolosShow, Mirror!Agrees, View, Day, Stated, Solo, Init
<1> QED
  BY <1>2, <1>3, <1>4, <1>5, <1>6 DEF Inv

\* The places a run goes through.
LEMMA PlacesAre ==
  /\ "load" \in Places /\ "mark" \in Places /\ "loaded" \in Places /\ "clean-up" \in Places
  /\ "apply" \in Places /\ "claims" \in Places /\ "rotate" \in Places
  /\ "install" \in Places /\ "date" \in Places /\ "idle" \notin Places
BY DEF Places, Writing

\* A job that goes to another place, or takes a record off its list, is one still.
LEMMA JobMoves ==
  ASSUME job \in Job, NEW place \in Places, Goto(place)
  PROVE  /\ job' \in Job /\ job'.at = place
         /\ job'.day = job.day /\ job'.todo = job.todo /\ job'.gone = job.gone
BY DEF Goto, Job

LEMMA JobShortens ==
  ASSUME job \in Job, NEW r, job' = [job EXCEPT !.todo = @ \ {r}]
  PROVE  /\ job' \in Job /\ job'.at = job.at
         /\ job'.day = job.day /\ job'.todo = job.todo \ {r} /\ job'.gone = job.gone
BY DEF Job

\* Only an idle place is no job.
LEMMA Busy ==
  ASSUME Typed, NEW place \in Places, At(place)
  PROVE  job \in Job /\ job.day \in 1 .. Len(log)
BY DEF Typed, Idle, At, Places, Writing

\* A typed state stays typed.
LEMMA NextPreservesType == Typed /\ [Next]_vars => Typed'
<1> SUFFICES ASSUME Typed, [Next]_vars PROVE Typed'
  OBVIOUS
<1> USE DEF Typed, files, memory, Fault
<1>0. Len(log) \in Nat /\ DOMAIN log = 1 .. Len(log)
  OBVIOUS
<1>1. CASE Publish
  <2>1. PICK today \in [Rec -> Statement] : log' = Append(log, today)
    BY <1>1 DEF Publish
  <2>2. log' \in Seq([Rec -> Statement]) /\ Len(log') = Len(log) + 1
    BY <2>1
  <2> QED
    BY <1>0, <1>1, <2>2 DEF Publish
<1>2. ASSUME NEW p \in Pair, Join(p) PROVE Typed'
  BY <1>2 DEF Join
<1>3. ASSUME NEW day \in Files, NEW extent \in Scopes, StartLoad(day, extent) PROVE Typed'
  <2>1. day \in 1 .. Len(log)
    BY <1>0 DEF Files
  <2>2. twins' \subseteq Pair /\ stray' \subseteq Rec
        /\ work' \in [day : 0 .. Len(log), recs : SUBSET Rec]
    BY <1>3, <2>1 DEF StartLoad, Begin, Twinned
  <2>3. owed' \subseteq Rec
    BY <1>3 DEF StartLoad, EdgeRow
  <2>4. job' \in Job /\ job'.day = day
    BY <1>3, <2>1 DEF StartLoad, Doing, Job, Places, Writing
  <2>5. here' \subseteq Pair
    BY <1>3 DEF StartLoad
  <2> QED
    BY <1>3, <2>1, <2>2, <2>3, <2>4, <2>5 DEF StartLoad
<1>4. ASSUME NEW r \in Rec, LoadRecord(r) PROVE Typed'
  <2>1. edges' \subseteq EdgeRow
    BY <1>4 DEF LoadRecord, EdgeRow, Mapped
  <2>2. job \in Job /\ job.day \in 1 .. Len(log)
    BY <1>4, Busy, PlacesAre DEF LoadRecord
  <2>3. job' \in Job /\ job'.day = job.day
    BY <1>4, <2>2, JobShortens DEF LoadRecord
  <2> QED
    BY <1>4, <2>1, <2>2, <2>3 DEF LoadRecord
<1>5. CASE FinishDigest
  <2>1. job \in Job /\ job.day \in 1 .. Len(log)
    BY <1>5, Busy, PlacesAre DEF FinishDigest
  <2>2. job' \in Job /\ job'.day = job.day
    BY <1>5, <2>1, JobMoves, PlacesAre DEF FinishDigest
  <2> QED
    BY <1>5, <2>1, <2>2 DEF FinishDigest, Settled
<1>6. CASE MarkLoad
  <2>1. job \in Job /\ job.day \in 1 .. Len(log)
    BY <1>6, Busy, PlacesAre DEF MarkLoad
  <2>2. job' \in Job /\ job'.day = job.day
    BY <1>6, <2>1, JobMoves, PlacesAre DEF MarkLoad
  <2> QED
    BY <1>6, <2>1, <2>2 DEF MarkLoad
<1>7. CASE DateLoad
  <2>1. job \in Job /\ job.day \in 1 .. Len(log)
    BY <1>7, Busy, PlacesAre DEF DateLoad
  <2>2. job' \in Job /\ job'.day = job.day
    BY <1>7, <2>1, JobMoves, PlacesAre DEF DateLoad
  <2> QED
    BY <1>7, <2>1, <2>2 DEF DateLoad
<1>8. CASE CleanUp
  BY <1>8 DEF CleanUp, EdgeRow
<1>9. CASE CleanUpFails
  BY <1>9 DEF CleanUpFails
<1>10. ASSUME NEW day \in Files, NEW force \in BOOLEAN, Refresh(day, force) PROVE Typed'
  <2>1. day \in 1 .. Len(log)
    BY <1>0 DEF Files
  <2>2. twins' \subseteq Pair /\ stray' \subseteq Rec
        /\ work' \in [day : 0 .. Len(log), recs : SUBSET Rec]
    BY <1>10, <2>1 DEF Refresh, Begin, Twinned
  <2>3. Touched(digest, day) \subseteq Rec /\ Gone(digest, day) \subseteq Rec
    BY DEF Touched, Gone
  <2>4. (IF scope = "full" THEN Pair ELSE here) \subseteq Pair
    OBVIOUS
  <2>5. job' \in Job /\ job'.day = day
    BY <1>10, <2>1, <2>3, <2>4 DEF Refresh, Doing, Job, Places, Writing
  <2> QED
    BY <1>10, <2>1, <2>2, <2>5 DEF Refresh
<1>11. ASSUME NEW r \in Rec, ApplyRecord(r) PROVE Typed'
  <2>0. job \in Job /\ job.day \in 1 .. Len(log)
    BY <1>11, Busy, PlacesAre DEF ApplyRecord
  <2>1. job' \in Job /\ job'.day = job.day
    BY <1>11, <2>0, JobShortens DEF ApplyRecord
  <2>2. CASE PairOf[r] \in job.known
    <3>1. edges' \subseteq EdgeRow
      BY <1>11, <2>2 DEF ApplyRecord, Written, Updated, Created, Adopted, EdgeRow, Mapped
    <3>2. {e.link : e \in Adopted(r, Stated(job.day, r))} \subseteq Rec
      BY DEF Adopted, OpenOf, EdgeRow
    <3> QED
      BY <1>11, <2>0, <2>1, <2>2, <3>1, <3>2 DEF ApplyRecord, Wrote
  <2>3. CASE PairOf[r] \notin job.known
    BY <1>11, <2>0, <2>1, <2>3 DEF ApplyRecord
  <2> QED
    BY <2>2, <2>3
<1>12. ASSUME NEW r \in Rec, PassOver(r) PROVE Typed'
  <2>1. job \in Job /\ job.day \in 1 .. Len(log)
    BY <1>12, Busy, PlacesAre DEF PassOver
  <2>2. job' \in Job /\ job'.day = job.day
    BY <1>12, <2>1, JobShortens DEF PassOver
  <2> QED
    BY <1>12, <2>1, <2>2 DEF PassOver
<1>13. CASE CloseEdges
  <2>1. edges' \subseteq EdgeRow
    BY <1>13 DEF CloseEdges, EdgeRow
  <2>2. job \in Job /\ job.day \in 1 .. Len(log)
    BY <1>13, Busy, PlacesAre DEF CloseEdges
  <2>3. job' \in Job /\ job'.day = job.day
    BY <1>13, <2>2, JobMoves, PlacesAre DEF CloseEdges
  <2>4. job.gone \subseteq Rec
    BY <2>2 DEF Job
  <2> QED
    BY <1>13, <2>1, <2>2, <2>3, <2>4 DEF CloseEdges, Wrote
<1>14. CASE CloseClaims
  <2>1. job \in Job /\ job.day \in 1 .. Len(log)
    BY <1>14, Busy, PlacesAre DEF CloseClaims
  <2>2. job' \in Job /\ job'.day = job.day
    BY <1>14, <2>1, JobMoves, PlacesAre DEF CloseClaims
  <2> QED
    BY <1>14, <2>1, <2>2 DEF CloseClaims
<1>15. CASE Retire
  <2>1. job \in Job /\ job.day \in 1 .. Len(log)
    BY <1>15, Busy, PlacesAre DEF Retire
  <2>2. job' \in Job /\ job'.day = job.day
    BY <1>15, <2>1, JobMoves, PlacesAre DEF Retire
  <2> QED
    BY <1>15, <2>1, <2>2 DEF Retire
<1>16. CASE Install
  <2>1. job \in Job /\ job.day \in 1 .. Len(log)
    BY <1>16, Busy, PlacesAre DEF Install
  <2>2. job' \in Job /\ job'.day = job.day
    BY <1>16, <2>1, JobMoves, PlacesAre DEF Install
  <2> QED
    BY <1>16, <2>1, <2>2 DEF Install, Settled
<1>17. CASE DateRefresh
  BY <1>17 DEF DateRefresh
<1>18. ASSUME NEW day \in Files, Rebuild(day) PROVE Typed'
  <2>1. day \in 1 .. Len(log)
    BY <1>0 DEF Files
  <2>2. job' \in Job /\ job'.day = day
    BY <1>18, <2>1 DEF Rebuild, Doing, Job, Places, Writing
  <2> QED
    BY <1>18, <2>1, <2>2 DEF Rebuild, Settled, Twinned
<1>19. CASE Crash
  BY <1>19 DEF Crash
<1>20. CASE UNCHANGED vars
  BY <1>20 DEF vars
<1> QED
  BY <1>1, <1>2, <1>3, <1>4, <1>5, <1>6, <1>7, <1>8, <1>9, <1>10, <1>11, <1>12,
     <1>13, <1>14, <1>15, <1>16, <1>17, <1>18, <1>19, <1>20
  DEF Next, Step

-----------------------------------------------------------------------------
(* What the graph shows, when the edges stay and when they change *)

\* The live edge of an appointment, and the edge that shows it live.
LEMMA LiveRow ==
  ASSUME NEW E, E \subseteq EdgeRow, NEW r \in Rec
  PROVE  (\E e \in E : e.link = r /\ e.state = "live") <=> [link |-> r, state |-> "live"] \in E
<1>1. ASSUME NEW e \in E, e.link = r, e.state = "live"
      PROVE  e = [link |-> r, state |-> "live"]
  BY <1>1 DEF EdgeRow
<1> QED
  BY <1>1

\* The rows of an appointment decide how it is shown.
LEMMA SameRows ==
  ASSUME Typed, Typed', NEW r \in Rec,
         \A s \in {"live", "ceased", "withdrawn"} :
           [link |-> r, state |-> s] \in edges' <=> [link |-> r, state |-> s] \in edges
  PROVE  (Lives(r)' <=> Lives(r)) /\ View(r)' = View(r)
<1>1. edges \subseteq EdgeRow /\ edges' \subseteq EdgeRow
  BY DEF Typed
<1>2. Lives(r)' <=> Lives(r)
  BY DEF Lives
<1>3. /\ (\E e \in edges : e.link = r /\ e.state = "live") <=> Lives(r)
      /\ (\E e \in edges' : e.link = r /\ e.state = "live") <=> Lives(r)'
  BY <1>1, LiveRow DEF Lives
<1> QED
  BY <1>2, <1>3 DEF View

\* Where the edges stay, what is still vouched for need only be stated the same.
LEMMA SameEdges ==
  ASSUME Inv, log' = log, edges' = edges, twins \subseteq twins',
         \A r \in Rec \ (owed' \cup stray') :
           r \notin owed \cup stray /\ Stated(Day(r), r)' = Stated(Day(r), r)
  PROVE  ShownLive' /\ SolosShow'
<1>1. ShownLive'
  BY DEF Inv, ShownLive, Lives
<1>2. SolosShow'
  <2>1. SUFFICES ASSUME NEW r \in Solo \ (owed' \cup stray')
        PROVE  Mirror!Agrees(View(r), Stated(Day(r), r))'
    BY DEF SolosShow
  <2>2. View(r)' = View(r)
    BY DEF View
  <2>3. Mirror!Agrees(View(r), Stated(Day(r), r))
    BY DEF Inv, SolosShow, Solo
  <2> QED
    BY <2>2, <2>3 DEF Mirror!Agrees, Solo
<1> QED
  BY <1>1, <1>2

\* Steps that write no edge and settle nothing.
LEMMA QuietKeeps ==
  ASSUME Inv, UNCHANGED <<log, edges, memory>>
  PROVE  TwinsKnown' /\ ShownLive' /\ SolosShow'
<1> USE DEF memory
<1>1. \A r \in Rec : Stated(Day(r), r)' = Stated(Day(r), r)
  BY DEF Stated, Day
<1>2. ShownLive' /\ SolosShow'
  BY <1>1, SameEdges
<1>3. TwinsKnown'
  BY DEF Inv, TwinsKnown, Twinned, LiveIn, Stated
<1> QED
  BY <1>2, <1>3

\* A run that writes no edges any more has nothing left to know.
LEMMA RestKnows == ASSUME job'.at \notin Writing PROVE RunKnows'
BY DEF RunKnows, LoadKnows, RefreshKnows, At, Writing

-----------------------------------------------------------------------------
(* One step after the other *)

\* A new snapshot changes nothing of the old ones.
LEMMA PublishKeeps == ASSUME Inv, Publish PROVE TwinsKnown' /\ RunKnows' /\ ShownLive' /\ SolosShow'
<1> USE DEF files, memory
<1>0. Typed
  BY DEF Inv
<1>1. PICK today \in [Rec -> Statement] : log' = Append(log, today)
  BY DEF Publish
<1>2. \A d \in 0 .. Len(log), r \in Rec : Stated(d, r)' = Stated(d, r)
  BY <1>0, <1>1 DEF Stated, Typed
<1>3. UNCHANGED <<edges, job, settled, work, stray, owed, twins>>
  BY DEF Publish
<1>4. settled \in 0 .. Len(log) /\ work.day \in 0 .. Len(log)
  BY <1>0 DEF Typed
<1>5. \A d \in 0 .. Len(log) : Twinned(d)' = Twinned(d)
  BY <1>2 DEF Twinned, LiveIn, Of
<1>6. TwinsKnown'
  BY <1>3, <1>4, <1>5 DEF Inv, TwinsKnown
<1>7. \A r \in Rec : Day(r) \in 0 .. Len(log) /\ Day(r)' = Day(r)
  BY <1>3, <1>4 DEF Day
<1>8. \A r \in Rec : Stated(Day(r), r)' = Stated(Day(r), r)
  BY <1>2, <1>3, <1>7 DEF Stated, Day
<1>9. ShownLive'
  BY <1>3, <1>8 DEF Inv, ShownLive, Lives
<1>10. SolosShow'
  <2>1. SUFFICES ASSUME NEW r \in Solo \ (owed \cup stray)
        PROVE  Mirror!Agrees(View(r), Stated(Day(r), r))'
    BY <1>3 DEF SolosShow
  <2>2. View(r)' = View(r)
    BY <1>3 DEF View
  <2>3. Mirror!Agrees(View(r), Stated(Day(r), r))
    BY DEF Inv, SolosShow
  <2> QED
    BY <1>8, <2>2, <2>3 DEF Mirror!Agrees, Solo
<1>11. RunKnows'
  <2>1. CASE job.at \notin Writing
    BY <1>3, <2>1, RestKnows
  <2>2. CASE job.at \in Writing
    <3>1. job \in Job /\ job.day \in 0 .. Len(log)
      BY <1>0, <2>2, Busy DEF At, Places
    <3>2. /\ job.todo \subseteq Rec /\ job.gone \subseteq Rec
          /\ \A r \in Rec : /\ Stated(job.day, r)' = Stated(job.day, r)
                            /\ Stated(settled, r)' = Stated(settled, r)
      BY <1>2, <1>3, <1>4, <3>1 DEF Job, Stated
    <3>3. work.day' = job.day'
      BY <1>3, <2>2 DEF Inv, RunKnows
    <3>4. LoadKnows'
      BY <1>3, <3>2 DEF Inv, RunKnows, LoadKnows, At, Lives
    <3>5. RefreshKnows'
      BY <1>3, <3>2 DEF Inv, RunKnows, RefreshKnows, At
    <3> QED
      BY <3>3, <3>4, <3>5 DEF RunKnows
  <2> QED
    BY <2>1, <2>2
<1> QED
  BY <1>6, <1>9, <1>10, <1>11

\* Where a run begins, what an earlier one wrote from another file goes astray.
LEMMA BeginKeeps ==
  ASSUME Inv, NEW day, Begin(day), UNCHANGED <<log, edges, settled>>, owed \subseteq owed'
  PROVE  TwinsKnown' /\ ShownLive' /\ SolosShow'
<1>0. Typed
  BY DEF Inv
<1>1. twins \subseteq twins'
  BY DEF Begin
<1>2. ASSUME NEW r \in Rec \ (owed' \cup stray')
      PROVE  r \notin owed \cup stray /\ Stated(Day(r), r)' = Stated(Day(r), r)
  BY <1>0 DEF Begin, Stated, Day, Typed
<1>3. ShownLive' /\ SolosShow'
  BY <1>1, <1>2, SameEdges
<1>4. TwinsKnown'
  BY DEF Inv, TwinsKnown, Begin, Twinned, LiveIn, Stated
<1> QED
  BY <1>3, <1>4

LEMMA StartLoadKeeps ==
  ASSUME Inv, NEW day \in Files, NEW extent \in Scopes, StartLoad(day, extent)
  PROVE  TwinsKnown' /\ RunKnows' /\ ShownLive' /\ SolosShow'
<1>0. Typed
  BY DEF Inv
<1>1. TwinsKnown' /\ ShownLive' /\ SolosShow'
  BY BeginKeeps DEF StartLoad, files
<1>2. PICK chosen \in SUBSET Pair :
        LET stated == {r \in Rec : Stated(day, r) # "absent"}
            mine   == {r \in stated : PairOf[r] \in chosen}
        IN /\ job' = Doing("load", day, mine, {}, {extent})
           /\ owed' = (owed \cup (stated \ mine))
                      \cup {e.link : e \in {o \in edges : o.state = "live" /\ Stated(day, o.link) # "live"}}
  BY DEF StartLoad
<1>3. job'.at = "load" /\ job'.day = day /\ work'.day = day
  BY <1>2 DEF Doing, StartLoad, Begin
<1>4. \A r \in Rec : Lives(r) /\ Stated(day, r) # "live" => r \in owed'
  BY <1>2 DEF Lives
<1>5. \A r \in Rec : Lives(r)' = Lives(r) /\ Stated(day, r)' = Stated(day, r)
  BY DEF StartLoad, Lives, Stated
<1>6. job'.todo \subseteq Rec /\ \A r \in job'.todo : Stated(day, r) # "absent"
  BY <1>2 DEF Doing
<1>7. \A r \in Rec \ (job'.todo \cup owed') : Stated(day, r) = "absent"
  BY <1>2 DEF Doing
<1>8. LoadKnows'
  BY <1>3, <1>4, <1>5, <1>6, <1>7 DEF LoadKnows, Stated
<1>9. RefreshKnows'
  BY <1>3 DEF RefreshKnows, At
<1> QED
  BY <1>1, <1>3, <1>8, <1>9 DEF RunKnows

LEMMA LoadRecordKeeps ==
  ASSUME Inv, NEW r \in Rec, LoadRecord(r)
  PROVE  TwinsKnown' /\ RunKnows' /\ ShownLive' /\ SolosShow'
<1>0. Typed /\ Typed'
  BY NextPreservesType DEF Inv, Next, Step
<1>1. /\ job \in Job /\ r \in job.todo /\ job.at = "load" /\ work.day = job.day
      /\ job'.at = "load" /\ job'.day = job.day /\ job'.todo = job.todo \ {r}
  <2>1. job \in Job
    BY <1>0, Busy, PlacesAre DEF LoadRecord
  <2> QED
    BY <2>1, JobShortens DEF LoadRecord, Inv, RunKnows, At, Writing
<1>2. /\ UNCHANGED <<log, settled, stray, owed, twins>>
      /\ edges' = edges \cup {[link |-> r, state |-> Mapped(Stated(job.day, r))]}
      /\ work'.day = work.day /\ work'.recs = work.recs \cup {r}
  BY <1>0 DEF LoadRecord, Typed
<1>3. TwinsKnown'
  BY <1>2 DEF Inv, TwinsKnown, Twinned, LiveIn, Stated
<1>4. ASSUME NEW s \in Rec, s # r
      PROVE  (Lives(s)' <=> Lives(s)) /\ View(s)' = View(s) /\ Day(s)' = Day(s)
  BY <1>0, <1>2, <1>4, SameRows DEF Day
<1>5. \A s \in Rec : Stated(job.day, s)' = Stated(job.day, s)
  BY <1>1, <1>2 DEF Stated
<1>6. /\ Stated(job.day, r) \in {"live", "ceased"}
      /\ r \notin owed => (Lives(r) => Stated(job.day, r) = "live")
  <2>1. Stated(job.day, r) \in Statement
    BY <1>0, <1>1 DEF Typed, Stated, Idle
  <2> QED
    BY <1>1, <2>1 DEF Inv, RunKnows, LoadKnows, At
<1>7. r \notin owed =>
        /\ Lives(r)' <=> Stated(job.day, r) = "live"
        /\ View(r)' = Stated(job.day, r)
  <2>1. Lives(r)' <=> Lives(r) \/ Stated(job.day, r) = "live"
    BY <1>2, <1>6 DEF Lives, Mapped
  <2>2. (\E e \in edges' : e.link = r /\ e.state = "live") <=> Lives(r)'
    BY <1>0, LiveRow DEF Lives, Typed
  <2> QED
    BY <1>2, <1>6, <2>1, <2>2 DEF View, Mapped
<1>8. Stated(Day(r), r)' = Stated(job.day, r)
  BY <1>1, <1>2 DEF Stated, Day
<1>9. \A s \in Rec : s # r => Stated(Day(s), s)' = Stated(Day(s), s)
  BY <1>2, <1>4 DEF Stated
<1>10. ShownLive'
  BY <1>2, <1>4, <1>7, <1>8, <1>9 DEF Inv, ShownLive
<1>11. SolosShow'
  <2> SUFFICES ASSUME NEW s \in Solo \ (owed \cup stray)
      PROVE Mirror!Agrees(View(s), Stated(Day(s), s))'
    BY <1>2 DEF SolosShow
  <2>1. CASE s = r
    BY <1>6, <1>7, <1>8, <2>1 DEF Mirror!Agrees
  <2>2. CASE s # r
    <3>1. s \in Rec /\ Mirror!Agrees(View(s), Stated(Day(s), s))
      BY DEF Inv, SolosShow, Solo
    <3> QED
      BY <1>4, <1>9, <2>2, <3>1 DEF Mirror!Agrees
  <2> QED
    BY <2>1, <2>2
<1>12. LoadKnows'
  <2> SUFFICES
        /\ \A s \in job'.todo : /\ Stated(job.day, s) # "absent"
                                /\ Lives(s)' /\ Stated(job.day, s) # "live" => s \in owed
        /\ \A s \in Rec \ (job'.todo \cup work'.recs \cup owed \cup stray) :
             Stated(job.day, s) = "absent" /\ ~Lives(s)'
    BY <1>1, <1>2, <1>5 DEF LoadKnows, Stated
  <2>1. job.todo \subseteq Rec
    BY <1>1 DEF Job
  <2> QED
    BY <1>1, <1>2, <1>4, <2>1 DEF Inv, RunKnows, LoadKnows, At
<1>13. RefreshKnows'
  BY <1>1 DEF RefreshKnows, At
<1> QED
  BY <1>1, <1>2, <1>3, <1>10, <1>11, <1>12, <1>13 DEF RunKnows

LEMMA FinishDigestKeeps ==
  ASSUME Inv, FinishDigest
  PROVE  TwinsKnown' /\ RunKnows' /\ ShownLive' /\ SolosShow'
<1>0. Typed
  BY DEF Inv
<1>1. job \in Job /\ job.at = "load" /\ job.todo = {} /\ work.day = job.day /\ job'.at = "mark"
  <2>1. job \in Job
    BY <1>0, Busy, PlacesAre DEF FinishDigest
  <2> QED
    BY <2>1, JobMoves, PlacesAre DEF FinishDigest, Inv, RunKnows, At, Writing
<1>2. /\ UNCHANGED <<log, edges, stray, owed, twins>>
      /\ settled' = job.day /\ work' = [day |-> 0, recs |-> {}]
  BY DEF FinishDigest, Settled
<1>3. TwinsKnown'
  <2>1. Twinned(settled)' = Twinned(work.day)
    BY <1>1, <1>2 DEF Twinned, LiveIn, Stated
  <2>2. Twinned(work.day)' = Twinned(0)
    BY <1>2 DEF Twinned, LiveIn, Stated
  <2> QED
    BY <1>2, <2>1, <2>2, NoneTwinned DEF Inv, TwinsKnown
<1>4. \A r \in Rec : /\ Stated(Day(r), r)' = Stated(job.day, r)
                     /\ Lives(r)' = Lives(r) /\ View(r)' = View(r)
  BY <1>2 DEF Stated, Day, Lives, View
<1>5. ASSUME NEW r \in Rec \ (owed \cup stray), r \notin work.recs
      PROVE  Stated(job.day, r) = "absent" /\ ~Lives(r)
  BY <1>1, <1>5 DEF Inv, RunKnows, LoadKnows, At
<1>6. \A r \in work.recs : Stated(Day(r), r) = Stated(job.day, r)
  BY <1>1 DEF Stated, Day
<1>7. ShownLive'
  BY <1>2, <1>4, <1>5, <1>6 DEF Inv, ShownLive
<1>8. SolosShow'
  <2> SUFFICES ASSUME NEW r \in Solo \ (owed \cup stray)
      PROVE Mirror!Agrees(View(r), Stated(Day(r), r))'
    BY <1>2 DEF SolosShow
  <2>0. r \in Rec
    BY DEF Solo
  <2>1. CASE r \in work.recs
    <3>1. Mirror!Agrees(View(r), Stated(Day(r), r))
      BY DEF Inv, SolosShow
    <3> QED
      BY <1>4, <1>6, <2>0, <2>1, <3>1 DEF Mirror!Agrees
  <2>2. CASE r \notin work.recs
    <3>1. View(r) # "live"
      BY <1>0, <1>5, <2>0, <2>2, LiveRow DEF View, Lives, Typed
    <3> QED
      BY <1>4, <1>5, <2>0, <2>2, <3>1 DEF Mirror!Agrees
  <2> QED
    BY <2>1, <2>2
<1> QED
  BY <1>1, <1>3, <1>7, <1>8, RestKnows DEF Writing

LEMMA CleanUpKeeps ==
  ASSUME Inv, CleanUp
  PROVE  TwinsKnown' /\ RunKnows' /\ ShownLive' /\ SolosShow'
<1>0. Typed /\ Typed'
  BY NextPreservesType DEF Inv, Next, Step
<1>1. PICK kept \in SUBSET {e \in edges : e.state = "live"} :
        /\ edges' = {e \in edges : e.state # "live"} \cup kept
        /\ stray' = stray \cup {e.link : e \in {o \in edges \ kept : o.state = "live"}}
  BY DEF CleanUp
<1>2. UNCHANGED <<log, settled, work, owed, twins>> /\ job'.at \notin Writing
  BY DEF CleanUp, Idle, Writing
<1>3. ASSUME NEW r \in Rec \ stray'
      PROVE  (Lives(r)' <=> Lives(r)) /\ View(r)' = View(r)
  <2>1. \A s \in {"live", "ceased", "withdrawn"} :
          [link |-> r, state |-> s] \in edges' <=> [link |-> r, state |-> s] \in edges
    BY <1>1
  <2> QED
    BY <1>0, <2>1, SameRows
<1>4. \A r \in Rec : Stated(Day(r), r)' = Stated(Day(r), r)
  BY <1>2 DEF Stated, Day
<1>5. ShownLive'
  BY <1>1, <1>2, <1>3, <1>4 DEF Inv, ShownLive
<1>6. SolosShow'
  <2> SUFFICES ASSUME NEW r \in Solo \ (owed \cup stray')
      PROVE Mirror!Agrees(View(r), Stated(Day(r), r))'
    BY <1>2 DEF SolosShow
  <2>1. r \in Rec /\ Mirror!Agrees(View(r), Stated(Day(r), r))
    BY <1>1 DEF Inv, SolosShow, Solo
  <2> QED
    BY <1>3, <1>4, <2>1 DEF Mirror!Agrees
<1>7. TwinsKnown'
  BY <1>2 DEF Inv, TwinsKnown, Twinned, LiveIn, Stated
<1> QED
  BY <1>2, <1>5, <1>6, <1>7, RestKnows

LEMMA RefreshKeeps ==
  ASSUME Inv, NEW day \in Files, NEW force \in BOOLEAN, Refresh(day, force)
  PROVE  TwinsKnown' /\ RunKnows' /\ ShownLive' /\ SolosShow'
<1>0. Typed
  BY DEF Inv
<1>1. TwinsKnown' /\ ShownLive' /\ SolosShow'
  BY BeginKeeps DEF Refresh, files
<1>2. /\ digest = settled /\ UNCHANGED <<log, settled>>
      /\ job'.at = "apply" /\ job'.day = day /\ work'.day = day
      /\ job'.todo = Touched(settled, day) /\ job'.gone = Gone(settled, day)
  BY <1>0 DEF Refresh, Begin, Doing, Typed
<1>3. \A d, r : Stated(d, r)' = Stated(d, r)
  BY <1>2 DEF Stated
<1>4. /\ \A r \in job'.todo : Stated(day, r) # "absent"
      /\ \A r \in job'.gone : Stated(day, r) = "absent"
      /\ \A r \in Rec : \/ Stated(settled, r) = Stated(day, r)
                        \/ r \in job'.todo \cup job'.gone
  BY <1>2 DEF Touched, Gone
<1>5. RefreshKnows'
  BY <1>2, <1>4 DEF RefreshKnows, At, Stated
<1>6. LoadKnows'
  BY <1>2 DEF LoadKnows, At
<1> QED
  BY <1>1, <1>2, <1>5, <1>6 DEF RunKnows

\* What an applied record leaves of its own rows and of the others'.
LEMMA WrittenRows ==
  ASSUME Typed, Typed', NEW r \in Rec, NEW statement \in {"live", "ceased"},
         edges' = Written(r, statement)
  PROVE  /\ Lives(r)' <=> statement = "live"
         /\ View(r)' = statement
         /\ \A s \in Rec \ ({r} \cup {e.link : e \in Adopted(r, statement)}) :
              (Lives(s)' <=> Lives(s)) /\ View(s)' = View(s)
         /\ \A e \in Adopted(r, statement) : ~Lives(e.link)' \/ e.link = r
<1>1. edges \subseteq EdgeRow /\ edges' \subseteq EdgeRow
  BY DEF Typed
<1>2. \A s \in {"live", "ceased", "withdrawn"} :
        [link |-> r, state |-> s] \in edges' <=> s = Mapped(statement)
  <2>1. CASE Known(r)
    <3>1. edges' = Updated(r, statement)
      BY <2>1 DEF Written
    <3>2. PICK e \in edges : e.link = r
      BY <2>1 DEF Known
    <3>3. [e EXCEPT !.state = Mapped(statement)] = [link |-> r, state |-> Mapped(statement)]
      BY <1>1, <3>2 DEF EdgeRow
    <3>4. [link |-> r, state |-> Mapped(statement)] \in edges'
      BY <3>1, <3>2, <3>3 DEF Updated
    <3>5. \A f \in edges' : f.link = r => f.state = Mapped(statement)
      BY <1>1, <3>1 DEF Updated, EdgeRow
    <3> QED
      BY <3>4, <3>5
  <2>2. CASE ~Known(r)
    <3>1. edges' = (edges \ Adopted(r, statement)) \cup {[link |-> r, state |-> Mapped(statement)]}
      BY <2>2 DEF Written, Created
    <3>2. \A s : [link |-> r, state |-> s] \notin edges
      BY <2>2 DEF Known
    <3> QED
      BY <3>1, <3>2
  <2> QED
    BY <2>1, <2>2
<1>3. (\E e \in edges' : e.link = r /\ e.state = "live") <=> [link |-> r, state |-> "live"] \in edges'
  BY <1>1, LiveRow
<1>4. (Lives(r)' <=> statement = "live") /\ View(r)' = statement
  BY <1>2, <1>3 DEF Lives, View, Mapped
<1>5. ASSUME NEW s \in Rec, s # r, s \notin {e.link : e \in Adopted(r, statement)}
      PROVE  (Lives(s)' <=> Lives(s)) /\ View(s)' = View(s)
  <2>1. ASSUME NEW z \in {"live", "ceased", "withdrawn"}
        PROVE  [link |-> s, state |-> z] \in edges' <=> [link |-> s, state |-> z] \in edges
    <3>1. CASE Known(r)
      <4> DEFINE New(e) == [e EXCEPT !.state = IF e.link = r THEN Mapped(statement) ELSE @]
      <4>1. edges' = {New(e) : e \in edges}
        BY <3>1 DEF Written, Updated
      <4>2. \A e \in edges : (e.link # r => New(e) = e) /\ New(e).link = e.link
        BY <1>1 DEF EdgeRow
      <4>3. ASSUME NEW e \in edges, New(e) = [link |-> s, state |-> z]
            PROVE  e = [link |-> s, state |-> z]
        <5>1. New(e).link = s
          BY <4>3
        <5> QED
          BY <1>5, <4>2, <4>3, <5>1
      <4>4. ASSUME [link |-> s, state |-> z] \in edges
            PROVE  New([link |-> s, state |-> z]) = [link |-> s, state |-> z]
        BY <1>5
      <4> HIDE DEF New
      <4> QED
        BY <4>1, <4>3, <4>4
    <3>2. CASE ~Known(r)
      BY <1>5, <3>2 DEF Written, Created
    <3> QED
      BY <3>1, <3>2
  <2> QED
    BY <2>1, SameRows
<1>6. ASSUME NEW e \in Adopted(r, statement), e.link # r PROVE ~Lives(e.link)'
  <2>1. ~Known(r) /\ e \in edges /\ e.state = "live"
    BY DEF Adopted, OpenOf
  <2>2. e = [link |-> e.link, state |-> "live"]
    BY <1>1, <2>1 DEF EdgeRow
  <2>3. edges' = (edges \ Adopted(r, statement)) \cup {[link |-> r, state |-> Mapped(statement)]}
    BY <2>1 DEF Written, Created
  <2> QED
    BY <1>6, <2>2, <2>3 DEF Lives
<1> QED
  BY <1>4, <1>5, <1>6

\* A live edge that is taken over belongs to an appointment of the same pair, which
\* is not live that day, or the pair is known to have had two.
LEMMA ApplyRecordKeeps ==
  ASSUME Inv, NEW r \in Rec, ApplyRecord(r)
  PROVE  TwinsKnown' /\ RunKnows' /\ ShownLive' /\ SolosShow'
<1>0. Typed /\ Typed'
  BY NextPreservesType DEF Inv, Next, Step
<1> DEFINE statement == Stated(job.day, r)
           taken == {e.link : e \in Adopted(r, statement)}
<1>1. /\ job \in Job /\ r \in job.todo /\ job.at = "apply" /\ work.day = job.day
      /\ job.day \in 1 .. Len(log)
      /\ job'.at = "apply" /\ job'.day = job.day
      /\ job'.todo = job.todo \ {r} /\ job'.gone = job.gone
  <2>1. job \in Job /\ job.day \in 1 .. Len(log)
    BY <1>0, Busy, PlacesAre DEF ApplyRecord
  <2> QED
    BY <2>1, JobShortens DEF ApplyRecord, Inv, RunKnows, At, Writing
<1>2. UNCHANGED <<log, settled, twins>> /\ work'.day = work.day
  BY <1>0 DEF ApplyRecord, Wrote, Typed
<1>3. TwinsKnown'
  BY <1>2 DEF Inv, TwinsKnown, Twinned, LiveIn, Stated
<1>4. statement \in {"live", "ceased"}
  <2>1. statement \in Statement
    BY <1>0, <1>1 DEF Typed, Stated
  <2> QED
    BY <1>1, <2>1 DEF Inv, RunKnows, RefreshKnows, At
<1>5. CASE PairOf[r] \notin job.known
  <2>1. UNCHANGED <<edges, work, stray>> /\ owed' = owed \cup {r}
    BY <1>5 DEF ApplyRecord
  <2>2. \A s \in Rec : Stated(Day(s), s)' = Stated(Day(s), s)
    BY <1>2, <2>1 DEF Stated, Day
  <2>3. ShownLive' /\ SolosShow'
    BY <1>2, <2>1, <2>2, SameEdges
  <2>4. RefreshKnows'
    BY <1>1, <1>2, <2>1 DEF Inv, RunKnows, RefreshKnows, At, Stated
  <2>5. LoadKnows'
    BY <1>1 DEF LoadKnows, At
  <2> QED
    BY <1>1, <1>2, <1>3, <2>3, <2>4, <2>5 DEF RunKnows
<1>6. CASE PairOf[r] \in job.known
  <2>1. /\ edges' = Written(r, statement)
        /\ work'.recs = work.recs \cup {r} \cup taken
        /\ owed' = owed \ {r} /\ stray' = stray \ {r}
    BY <1>0, <1>6 DEF ApplyRecord, Wrote, Typed
  <2>2. /\ Lives(r)' <=> statement = "live"
        /\ View(r)' = statement
        /\ \A s \in Rec \ ({r} \cup taken) : (Lives(s)' <=> Lives(s)) /\ View(s)' = View(s)
        /\ \A e \in Adopted(r, statement) : ~Lives(e.link)' \/ e.link = r
    BY <1>0, <1>4, <2>1, WrittenRows
  <2>3. \A s \in taken : /\ ~Lives(s)' \/ s = r
                         /\ PairOf[s] = PairOf[r] /\ s \in Rec /\ statement = "live"
    BY <1>0, <2>2 DEF Adopted, OpenOf, Typed, EdgeRow
  <2>4. /\ \A s \in {r} \cup taken : Stated(Day(s), s)' = Stated(job.day, s)
        /\ \A s \in Rec \ ({r} \cup taken) : Stated(Day(s), s)' = Stated(Day(s), s)
    BY <1>1, <1>2, <2>1 DEF Stated, Day
  <2>5. ShownLive'
    <3> SUFFICES ASSUME NEW s \in Rec \ (owed' \cup stray'), PairOf[s] \notin twins
        PROVE (Lives(s) <=> Stated(Day(s), s) = "live")'
      BY <1>2 DEF ShownLive
    <3>1. CASE s = r
      BY <2>2, <2>4, <3>1
    <3>2. CASE s # r /\ s \in taken
      <4>1. PairOf[s] \in Pair /\ PairOf[s] \notin Twinned(job.day)
        BY <1>1 DEF Inv, TwinsKnown
      <4>2. Stated(job.day, s) # "live"
        <5>1. SUFFICES ASSUME Stated(job.day, s) = "live" PROVE FALSE
          OBVIOUS
        <5>2. r \in LiveIn(job.day, PairOf[s]) /\ s \in LiveIn(job.day, PairOf[s])
          BY <2>3, <3>2, <5>1 DEF LiveIn, Of
        <5> QED
          BY <3>2, <4>1, <5>2, LoneLive
      <4> QED
        BY <2>3, <2>4, <3>2, <4>2
    <3>3. CASE s \notin {r} \cup taken
      <4>1. s \notin owed \cup stray
        BY <2>1, <3>3
      <4> QED
        BY <2>2, <2>4, <3>3, <4>1 DEF Inv, ShownLive
    <3> QED
      BY <3>1, <3>2, <3>3
  <2>6. SolosShow'
    <3> SUFFICES ASSUME NEW s \in Solo \ (owed' \cup stray')
        PROVE Mirror!Agrees(View(s), Stated(Day(s), s))'
      BY DEF SolosShow
    <3>0. s \in Rec /\ (s \in taken => s = r)
      BY <2>3 DEF Solo, Of
    <3>1. CASE s = r
      BY <1>4, <2>2, <2>4, <3>1 DEF Mirror!Agrees
    <3>2. CASE s # r
      <4>1. Mirror!Agrees(View(s), Stated(Day(s), s))
        BY <2>1, <3>2 DEF Inv, SolosShow
      <4> QED
        BY <2>2, <2>4, <3>0, <3>2, <4>1 DEF Mirror!Agrees
    <3> QED
      BY <3>1, <3>2
  <2>7. RefreshKnows'
    <3>1. \A s \in Rec : /\ Stated(job.day, s)' = Stated(job.day, s)
                         /\ Stated(settled, s)' = Stated(settled, s)
      BY <1>1, <1>2 DEF Stated
    <3>2. job.gone \subseteq Rec /\ job.todo \subseteq Rec
      BY <1>1 DEF Job
    <3>3. /\ \A s \in job'.todo : Stated(job.day, s) # "absent"
          /\ \A s \in job'.gone : Stated(job.day, s) = "absent"
      BY <1>1 DEF Inv, RunKnows, RefreshKnows, At
    <3>4. \A s \in Rec \ (work'.recs \cup owed' \cup stray') :
            \/ Stated(settled, s) = Stated(job.day, s)
            \/ s \in job'.todo \cup job'.gone
      BY <1>1, <2>1 DEF Inv, RunKnows, RefreshKnows, At
    <3> QED
      BY <1>1, <1>2, <3>1, <3>2, <3>3, <3>4 DEF RefreshKnows, At, Stated
  <2>8. LoadKnows'
    BY <1>1 DEF LoadKnows, At
  <2> QED
    BY <1>1, <1>2, <1>3, <2>5, <2>6, <2>7, <2>8 DEF RunKnows
<1> QED
  BY <1>5, <1>6

LEMMA PassOverKeeps ==
  ASSUME Inv, NEW r \in Rec, PassOver(r)
  PROVE  TwinsKnown' /\ RunKnows' /\ ShownLive' /\ SolosShow'
<1>0. Typed
  BY DEF Inv
<1>1. /\ job \in Job /\ r \in job.todo /\ job.at = "apply"
      /\ job'.at = "apply" /\ job'.day = job.day
      /\ job'.todo = job.todo \ {r} /\ job'.gone = job.gone
  <2>1. job \in Job
    BY <1>0, Busy, PlacesAre DEF PassOver
  <2> QED
    BY <2>1, JobShortens DEF PassOver, At
<1>2. UNCHANGED <<log, edges, settled, work, stray, twins>> /\ owed' = owed \cup {r}
  BY DEF PassOver
<1>3. TwinsKnown'
  BY <1>2 DEF Inv, TwinsKnown, Twinned, LiveIn, Stated
<1>4. \A s \in Rec : Stated(Day(s), s)' = Stated(Day(s), s)
  BY <1>2 DEF Stated, Day
<1>5. ShownLive' /\ SolosShow'
  BY <1>2, <1>4, SameEdges
<1>6. RefreshKnows'
  BY <1>1, <1>2 DEF Inv, RunKnows, RefreshKnows, At, Stated
<1>7. LoadKnows'
  BY <1>1 DEF LoadKnows, At
<1>8. work.day = job.day
  BY <1>1 DEF Inv, RunKnows, Writing
<1> QED
  BY <1>1, <1>2, <1>3, <1>5, <1>6, <1>7, <1>8 DEF RunKnows

\* What is withdrawn is absent from the day's file.
LEMMA CloseEdgesKeeps ==
  ASSUME Inv, CloseEdges
  PROVE  TwinsKnown' /\ RunKnows' /\ ShownLive' /\ SolosShow'
<1>0. Typed /\ Typed'
  BY NextPreservesType DEF Inv, Next, Step
<1>1. /\ job \in Job /\ job.todo = {} /\ job.at = "apply" /\ work.day = job.day
      /\ job'.at = "claims" /\ job'.day = job.day
      /\ job'.todo = {} /\ job'.gone = job.gone /\ job.gone \subseteq Rec
  <2>1. job \in Job
    BY <1>0, Busy, PlacesAre DEF CloseEdges
  <2>2. job.gone \subseteq Rec
    BY <2>1 DEF Job
  <2> QED
    BY <2>1, <2>2, JobMoves, PlacesAre DEF CloseEdges, Inv, RunKnows, At, Writing
<1> DEFINE New(e) ==
      [e EXCEPT !.state = IF e.link \in job.gone /\ @ = "live" THEN "withdrawn" ELSE @]
<1>2. /\ UNCHANGED <<log, settled, twins>> /\ edges' = {New(e) : e \in edges}
      /\ work'.day = work.day /\ work'.recs = work.recs \cup job.gone
      /\ owed' = owed \ job.gone /\ stray' = stray \ job.gone
  BY <1>0 DEF CloseEdges, Wrote, Typed
<1>3. TwinsKnown'
  BY <1>2 DEF Inv, TwinsKnown, Twinned, LiveIn, Stated
<1>4. \A e \in edges : /\ New(e).link = e.link
                       /\ e.link \notin job.gone => New(e) = e
                       /\ e.link \in job.gone => New(e).state # "live"
  BY <1>0 DEF Typed, EdgeRow
<1>5. ASSUME NEW s \in Rec, s \notin job.gone
      PROVE  (Lives(s)' <=> Lives(s)) /\ View(s)' = View(s)
  <2>1. ASSUME NEW z \in {"live", "ceased", "withdrawn"}
        PROVE  [link |-> s, state |-> z] \in edges' <=> [link |-> s, state |-> z] \in edges
    <3>1. ASSUME NEW e \in edges, New(e) = [link |-> s, state |-> z]
          PROVE  e = [link |-> s, state |-> z]
      <4>1. New(e).link = s
        BY <3>1
      <4> QED
        BY <1>4, <1>5, <3>1, <4>1
    <3>2. ASSUME [link |-> s, state |-> z] \in edges
          PROVE  New([link |-> s, state |-> z]) = [link |-> s, state |-> z]
      BY <1>4, <1>5, <3>2
    <3> HIDE DEF New
    <3> QED
      BY <1>2, <3>1, <3>2
  <2> QED
    BY <1>0, <2>1, SameRows
<1>6. ASSUME NEW s \in job.gone
      PROVE  ~Lives(s)' /\ View(s)' # "live" /\ Stated(job.day, s) = "absent"
  <2>1. \A e \in edges' : e.link = s => e.state # "live"
    <3> HIDE DEF New
    <3> QED
      BY <1>2, <1>4
  <2>2. ~Lives(s)'
    BY <2>1 DEF Lives
  <2>3. View(s)' # "live"
    BY <2>1 DEF View
  <2>4. Stated(job.day, s) = "absent"
    BY <1>1 DEF Inv, RunKnows, RefreshKnows, At
  <2> QED
    BY <2>2, <2>3, <2>4
<1>7. /\ \A s \in job.gone : Stated(Day(s), s)' = Stated(job.day, s)
      /\ \A s \in Rec \ job.gone : Stated(Day(s), s)' = Stated(Day(s), s)
  BY <1>1, <1>2 DEF Stated, Day
<1> HIDE DEF New
<1>8. ShownLive'
  BY <1>1, <1>2, <1>5, <1>6, <1>7 DEF Inv, ShownLive
<1>9. SolosShow'
  <2> SUFFICES ASSUME NEW s \in Solo \ (owed' \cup stray')
      PROVE Mirror!Agrees(View(s), Stated(Day(s), s))'
    BY DEF SolosShow
  <2>0. s \in Rec
    BY DEF Solo
  <2>1. CASE s \in job.gone
    BY <1>6, <1>7, <2>1 DEF Mirror!Agrees
  <2>2. CASE s \notin job.gone
    <3>1. Mirror!Agrees(View(s), Stated(Day(s), s))
      BY <1>2, <2>2 DEF Inv, SolosShow
    <3> QED
      BY <1>5, <1>7, <2>0, <2>2, <3>1 DEF Mirror!Agrees
  <2> QED
    BY <2>1, <2>2
<1>10. RefreshKnows'
  <2>1. \A s \in Rec \ (work.recs \cup owed \cup stray \cup job.gone) :
          Stated(settled, s) = Stated(job.day, s)
    BY <1>1 DEF Inv, RunKnows, RefreshKnows, At
  <2> QED
    BY <1>1, <1>2, <2>1 DEF RefreshKnows, At, Stated
<1>11. LoadKnows'
  BY <1>1 DEF LoadKnows, At
<1> QED
  BY <1>1, <1>2, <1>3, <1>8, <1>9, <1>10, <1>11 DEF RunKnows

\* The claims are closed and the old digest is retired: no edge is written.
LEMMA RotationKeeps ==
  ASSUME Inv, CloseClaims \/ Retire
  PROVE  TwinsKnown' /\ RunKnows' /\ ShownLive' /\ SolosShow'
<1>0. Typed
  BY DEF Inv
<1>1. UNCHANGED <<log, edges, memory>>
  BY DEF CloseClaims, Retire
<1>2. TwinsKnown' /\ ShownLive' /\ SolosShow'
  BY <1>1, QuietKeeps
<1>3. /\ job.at \in {"claims", "rotate"} /\ job'.at \in {"rotate", "install"}
      /\ job'.day = job.day
  <2>1. job \in Job
    BY <1>0, Busy, PlacesAre DEF CloseClaims, Retire
  <2> QED
    BY <2>1, JobMoves, PlacesAre DEF CloseClaims, Retire, At
<1>4. RefreshKnows'
  BY <1>1, <1>3 DEF Inv, RunKnows, RefreshKnows, At, Stated, memory
<1>5. LoadKnows'
  BY <1>3 DEF LoadKnows, At
<1>6. (work.day = job.day)'
  BY <1>1, <1>3 DEF Inv, RunKnows, Writing, memory
<1> QED
  BY <1>2, <1>4, <1>5, <1>6 DEF RunKnows

LEMMA InstallKeeps ==
  ASSUME Inv, Install
  PROVE  TwinsKnown' /\ RunKnows' /\ ShownLive' /\ SolosShow'
<1>0. Typed
  BY DEF Inv
<1>1. job \in Job /\ job.at = "install" /\ work.day = job.day /\ job'.at = "date"
  <2>1. job \in Job
    BY <1>0, Busy, PlacesAre DEF Install
  <2> QED
    BY <2>1, JobMoves, PlacesAre DEF Install, Inv, RunKnows, At, Writing
<1>2. /\ UNCHANGED <<log, edges, stray, owed, twins>>
      /\ settled' = job.day /\ work' = [day |-> 0, recs |-> {}]
  BY DEF Install, Settled
<1>3. TwinsKnown'
  <2>1. Twinned(settled)' = Twinned(work.day)
    BY <1>1, <1>2 DEF Twinned, LiveIn, Stated
  <2>2. Twinned(work.day)' = Twinned(0)
    BY <1>2 DEF Twinned, LiveIn, Stated
  <2> QED
    BY <1>2, <2>1, <2>2, NoneTwinned DEF Inv, TwinsKnown
<1>4. ASSUME NEW r \in Rec \ (owed \cup stray)
      PROVE  Stated(Day(r), r)' = Stated(Day(r), r)
  <2>1. Stated(Day(r), r)' = Stated(job.day, r)
    BY <1>2 DEF Stated, Day
  <2>2. r \notin work.recs => Stated(settled, r) = Stated(job.day, r)
    BY <1>1 DEF Inv, RunKnows, RefreshKnows, At
  <2> QED
    BY <1>1, <2>1, <2>2 DEF Day
<1>5. ShownLive' /\ SolosShow'
  BY <1>2, <1>4, SameEdges
<1> QED
  BY <1>1, <1>3, <1>5, RestKnows DEF Writing

LEMMA RebuildKeeps ==
  ASSUME Inv, NEW day \in Files, Rebuild(day)
  PROVE  TwinsKnown' /\ RunKnows' /\ ShownLive' /\ SolosShow'
<1>1. /\ UNCHANGED <<log, edges>> /\ twins' = twins \cup Twinned(day)
      /\ owed' = owed \cup {r \in Rec : Stated(settled, r) # Stated(day, r)}
      /\ stray' = stray \cup work.recs
      /\ settled' = day /\ work' = [day |-> 0, recs |-> {}] /\ job'.at = "date"
  BY DEF Rebuild, Settled, Doing
<1>2. TwinsKnown'
  <2>1. Twinned(settled)' = Twinned(day) /\ Twinned(work.day)' = Twinned(0)
    BY <1>1 DEF Twinned, LiveIn, Stated
  <2> QED
    BY <1>1, <2>1, NoneTwinned DEF TwinsKnown
<1>3. ASSUME NEW r \in Rec \ (owed' \cup stray')
      PROVE  r \notin owed \cup stray /\ Stated(Day(r), r)' = Stated(Day(r), r)
  BY <1>1 DEF Stated, Day
<1>4. ShownLive' /\ SolosShow'
  BY <1>1, <1>3, SameEdges
<1> QED
  BY <1>1, <1>2, <1>4, RestKnows DEF Writing

-----------------------------------------------------------------------------

\* Every step preserves the inductive invariant.
LEMMA NextPreservesInv == Inv /\ [Next]_vars => Inv'
<1> SUFFICES ASSUME Inv, [Next]_vars PROVE TwinsKnown' /\ RunKnows' /\ ShownLive' /\ SolosShow'
  BY NextPreservesType DEF Inv
<1>1. ASSUME UNCHANGED <<log, edges, memory>>, job'.at \notin Writing
      PROVE  TwinsKnown' /\ RunKnows' /\ ShownLive' /\ SolosShow'
  BY <1>1, QuietKeeps, RestKnows
<1>2. CASE (\E p \in Pair : Join(p)) \/ UNCHANGED vars
  <2>1. UNCHANGED <<log, edges, memory, job>>
    BY <1>2 DEF Join, vars, memory
  <2>2. RunKnows'
    BY <2>1 DEF Inv, RunKnows, LoadKnows, RefreshKnows, At, Stated, Lives, memory
  <2> QED
    BY <2>1, <2>2, QuietKeeps
<1>3. CASE MarkLoad \/ DateLoad
  <2>1. UNCHANGED <<log, edges, memory>> /\ job \in Job
    BY <1>3, Busy, PlacesAre DEF MarkLoad, DateLoad, Inv
  <2>2. job'.at \in {"loaded", "clean-up"}
    BY <1>3, <2>1, JobMoves, PlacesAre DEF MarkLoad, DateLoad
  <2> QED
    BY <1>1, <2>1, <2>2 DEF Writing
<1>4. CASE CleanUpFails \/ DateRefresh \/ Crash
  <2>1. UNCHANGED <<log, edges, memory>> /\ job' = Idle
    BY <1>4 DEF CleanUpFails, DateRefresh, Crash
  <2> QED
    BY <1>1, <2>1 DEF Idle, Writing
<1> QED
  BY <1>2, <1>3, <1>4, PublishKeeps, StartLoadKeeps, LoadRecordKeeps, FinishDigestKeeps,
     CleanUpKeeps, RefreshKeeps, ApplyRecordKeeps, PassOverKeeps, CloseEdgesKeeps,
     RotationKeeps, InstallKeeps, RebuildKeeps
  DEF Next, Step

THEOREM Invariance == Spec => []Inv
<1>1. Init => Inv
  BY InitInv
<1>2. Inv /\ [Next]_vars => Inv'
  BY NextPreservesInv
<1> QED
  BY <1>1, <1>2, PTL DEF Spec

\* Whatever was adopted, reopened, withdrawn, left by a dead run or done again,
\* between runs a pair that is vouched for has one live edge when an appointment
\* of it is live in the snapshot last settled, and none when none is.
THEOREM MirrorsSnapshot == Spec => []GraphMirrorsSnapshot
<1>1. Inv => GraphMirrorsSnapshot
  <2> SUFFICES ASSUME Inv, NEW p \in Pair, Vouched(p)
      PROVE  Cardinality(OpenOf(p)) = (IF LiveIn(settled, p) # {} THEN 1 ELSE 0)
    BY DEF GraphMirrorsSnapshot
  <2>1. edges \subseteq EdgeRow
    BY DEF Inv, Typed
  <2>2. p \notin Twinned(settled)
    BY DEF Inv, TwinsKnown, Vouched
  <2>3. ASSUME NEW r \in Of(p) PROVE Lives(r) <=> r \in LiveIn(settled, p)
    BY DEF Inv, ShownLive, Vouched, Of, Day, LiveIn
  <2>4. ASSUME NEW e \in OpenOf(p)
        PROVE  e = [link |-> e.link, state |-> "live"] /\ e.link \in LiveIn(settled, p)
    <3>1. e = [link |-> e.link, state |-> "live"] /\ e.link \in Of(p)
      BY <2>1 DEF OpenOf, EdgeRow, Of
    <3>2. Lives(e.link)
      BY <3>1 DEF Lives, OpenOf
    <3> QED
      BY <2>3, <3>1, <3>2
  <2>5. CASE LiveIn(settled, p) = {}
    <3>1. OpenOf(p) = {}
      BY <2>4, <2>5
    <3> QED
      BY <2>5, <3>1, FS_EmptySet
  <2>6. CASE LiveIn(settled, p) # {}
    <3>1. PICK r \in LiveIn(settled, p) : TRUE
      BY <2>6
    <3>2. r \in Of(p) /\ Lives(r)
      BY <2>3 DEF LiveIn
    <3>3. [link |-> r, state |-> "live"] \in OpenOf(p)
      BY <3>2 DEF OpenOf, Lives, Of
    <3>4. ASSUME NEW e \in OpenOf(p) PROVE e = [link |-> r, state |-> "live"]
      BY <2>2, <2>4, LoneLive
    <3>5. OpenOf(p) = {[link |-> r, state |-> "live"]}
      BY <3>3, <3>4
    <3> QED
      BY <2>6, <3>5, FS_Singleton
  <2> QED
    BY <2>5, <2>6
<1> QED
  BY <1>1, Invariance, PTL

-----------------------------------------------------------------------------
(* The load and the refresh implement the mirror *)

\* Some appointments of those alone on their pair are written from one day's file;
\* they are vouched for again, all of them or none.
LEMMA MirrorShows ==
  ASSUME UNCHANGED <<log, settled>>,
         NEW day \in DOMAIN log, day # 0, NEW some \in SUBSET Solo,
         \A r \in some : Mirror!Agrees(View(r)', Stated(day, r)),
         \A r \in Solo \ some : View(r)' = View(r) \/ r \in owed \cup stray,
         \/ Solo \cap (owed' \cup stray') = Solo \cap (owed \cup stray)
         \/ Solo \cap (owed' \cup stray') = (Solo \cap (owed \cup stray)) \ some
  PROVE  Mirror!Show
<1>1. Solo' = Solo
  BY DEF Solo, Of
<1>2. \A r \in Solo : Mirror!Stated(day, r) = Stated(day, r)
  BY DEF Mirror!Stated, Stated
<1>3. \A r \in Solo : View(r)' \in Mirror!Shown
  BY DEF View, Mirror!Shown
<1> HIDE DEF Solo
<1> QED
  BY <1>1, <1>2, <1>3 DEF Mirror!Show

\* Some are lost track of, nothing is written.
LEMMA MirrorOwes ==
  ASSUME UNCHANGED <<log, settled, edges>>,
         owed \cup stray \subseteq owed' \cup stray'
  PROVE  Mirror!Owe
<1>1. \A r \in Solo : View(r)' = View(r)
  BY DEF View
<1> QED
  BY <1>1 DEF Mirror!Owe

\* The graph is said to show another day.
LEMMA MirrorSettles ==
  ASSUME Inv, Inv', UNCHANGED <<log, edges>>, owed \cup stray \subseteq owed' \cup stray',
         NEW day \in 1 .. Len(log), settled' = day, work' = [day |-> 0, recs |-> {}]
  PROVE  Mirror!Settle
<1>1. day \in DOMAIN log /\ day # 0
  BY DEF Inv, Typed
<1>2. \A r \in Solo : Mirror!Stated(day, r) = Stated(day, r)
  BY <1>1 DEF Mirror!Stated, Stated
<1>3. \A r \in Solo : View(r)' = View(r) /\ Stated(Day(r), r)' = Stated(day, r)
  BY DEF View, Day, Stated, Solo
<1>4. ASSUME NEW r \in Solo, r \notin owed' \cup stray'
      PROVE  Mirror!Agrees(View(r), Stated(day, r))
  <2>1. Mirror!Agrees(View(r), Stated(Day(r), r))'
    BY <1>4 DEF Inv, SolosShow
  <2> QED
    BY <1>3, <2>1 DEF Mirror!Agrees
<1> QED
  BY <1>1, <1>2, <1>3, <1>4 DEF Mirror!Settle

\* A new snapshot is one to the mirror.
LEMMA MirrorPublishes ==
  ASSUME Inv, Publish PROVE Mirror!Publish
<1>1. PICK today \in [Rec -> Statement] : log' = Append(log, today)
  BY DEF Publish
<1>2. log \in Seq([Rec -> Statement]) /\ Len(log) \in Nat /\ DOMAIN log = 1 .. Len(log)
  BY DEF Inv, Typed
<1> DEFINE seen    == [d \in DOMAIN log |-> [r \in Solo |-> log[d][r]]]
           seenNow == [d \in DOMAIN log' |-> [r \in Solo |-> log'[d][r]]]
           now     == [r \in Solo |-> today[r]]
<1>3. Solo \subseteq Rec
  BY DEF Solo
<1>4. seen \in Seq([Solo -> Statement]) /\ Len(seen) = Len(log)
  BY <1>2, <1>3
<1>5. now \in [Solo -> Statement]
  BY <1>3
<1>6. DOMAIN log' = 1 .. Len(log) + 1
      /\ \A d \in 1 .. Len(log) + 1 : log'[d] = IF d = Len(log) + 1 THEN today ELSE log[d]
  BY <1>1, <1>2
<1>7. seenNow = Append(seen, now)
  <2>1. Append(seen, now) = [d \in 1 .. Len(seen) + 1 |-> IF d = Len(seen) + 1 THEN now ELSE seen[d]]
    BY <1>4, <1>5
  <2>2. ASSUME NEW d \in 1 .. Len(log) + 1
        PROVE  [r \in Solo |-> log'[d][r]] = IF d = Len(log) + 1 THEN now ELSE seen[d]
    <3>1. CASE d = Len(log) + 1
      BY <1>6, <3>1
    <3>2. CASE d # Len(log) + 1
      BY <1>2, <1>6, <3>2
    <3> QED
      BY <3>1, <3>2
  <2>3. seenNow = [d \in 1 .. Len(log) + 1 |-> IF d = Len(log) + 1 THEN now ELSE seen[d]]
    BY <1>6, <2>2
  <2>4. Len(seen) = Len(log)
    BY <1>4
  <2> HIDE DEF seen, seenNow, now
  <2> QED
    BY <2>1, <2>3, <2>4, Zenon
<1>8. \A r \in Solo : View(r)' = View(r)
  BY DEF Publish, View
<1>9. UNCHANGED <<settled, stray, owed>>
  BY DEF Publish, memory
<1>10. Len(log) < MaxDay
  BY DEF Publish
<1> QED
  BY <1>4, <1>5, <1>7, <1>8, <1>9, <1>10 DEF Mirror!Publish, Mirror!Statement

\* Every step is one of the mirror's, or leaves it as it is.
LEMMA StepImplements ==
  Inv /\ Inv' /\ [Next]_vars => [Mirror!Next]_Mirror!vars
<1> SUFFICES ASSUME Inv, Inv', [Next]_vars PROVE [Mirror!Next]_Mirror!vars
  OBVIOUS
<1>0. Typed /\ Typed' /\ DOMAIN log = 1 .. Len(log)
  BY DEF Inv, Typed
<1>1. ASSUME UNCHANGED <<log, settled>>, \A r \in Solo : View(r)' = View(r),
             Solo \cap (owed' \cup stray') = Solo \cap (owed \cup stray)
      PROVE  UNCHANGED Mirror!vars
  <2>1. Solo' = Solo
    BY DEF Solo, Of
  <2> HIDE DEF Solo
  <2> QED
    BY <1>1, <2>1 DEF Mirror!vars
<1>2. ASSUME UNCHANGED <<log, settled, edges, stray, owed>> PROVE UNCHANGED Mirror!vars
  <2>1. \A r \in Solo : View(r)' = View(r)
    BY <1>2 DEF View
  <2> QED
    BY <1>1, <1>2, <2>1
<1>3. CASE Publish
  BY <1>3, MirrorPublishes DEF Mirror!Next
<1>4. ASSUME NEW day \in Files, NEW extent \in Scopes, StartLoad(day, extent)
      PROVE  Mirror!Next
  <2>1. UNCHANGED <<log, edges, settled>> /\ owed \subseteq owed' /\ stray \subseteq stray'
    BY <1>4 DEF StartLoad, Begin
  <2> QED
    BY <2>1, MirrorOwes DEF Mirror!Next
<1>5. ASSUME NEW r \in Rec, LoadRecord(r) PROVE [Mirror!Next]_Mirror!vars
  <2>1. /\ job \in Job /\ r \in job.todo /\ job.day \in 1 .. Len(log)
        /\ job.at = "load" /\ work.day = job.day
    BY <1>0, <1>5, Busy, PlacesAre DEF LoadRecord, Inv, RunKnows, At, Writing
  <2>2. /\ UNCHANGED <<log, settled, stray, owed, twins>>
        /\ edges' = edges \cup {[link |-> r, state |-> Mapped(Stated(job.day, r))]}
        /\ work'.day = work.day /\ work'.recs = work.recs \cup {r}
    BY <1>0, <1>5 DEF LoadRecord, Typed
  <2>3. \A s \in Rec : s # r => View(s)' = View(s)
    BY <1>0, <2>2, SameRows
  <2>4. CASE r \in Solo \ (owed \cup stray)
    <3>1. Mirror!Agrees(View(r), Stated(Day(r), r))'
      BY <2>2, <2>4 DEF Inv, SolosShow
    <3>2. Stated(Day(r), r)' = Stated(job.day, r)
      BY <2>1, <2>2 DEF Day, Stated
    <3>3. Mirror!Agrees(View(r)', Stated(job.day, r))
      BY <3>1, <3>2 DEF Mirror!Agrees
    <3>4. {r} \in SUBSET Solo /\ \A s \in Solo \ {r} : View(s)' = View(s)
      BY <2>3, <2>4 DEF Solo
    <3>5. job.day \in DOMAIN log /\ job.day # 0
      BY <1>0, <2>1
    <3>6. Mirror!Show
      BY <2>2, <3>3, <3>4, <3>5, MirrorShows
    <3> QED
      BY <3>6 DEF Mirror!Next
  <2>5. CASE r \notin Solo \ (owed \cup stray)
    <3>1. \A s \in Solo : View(s)' = View(s) \/ s \in owed \cup stray
      BY <2>3, <2>5 DEF Solo
    <3>2. job.day \in DOMAIN log /\ job.day # 0
      BY <1>0, <2>1
    <3>3. Mirror!Show
      <4>1. {} \in SUBSET Solo
        OBVIOUS
      <4> QED
        BY <2>2, <3>1, <3>2, <4>1, MirrorShows
    <3> QED
      BY <3>3 DEF Mirror!Next
  <2> QED
    BY <2>4, <2>5
<1>6. CASE FinishDigest \/ Install
  <2>1. job.day \in 1 .. Len(log)
    BY <1>0, <1>6, Busy, PlacesAre DEF FinishDigest, Install
  <2>2. /\ UNCHANGED <<log, edges, owed, stray>>
        /\ settled' = job.day /\ work' = [day |-> 0, recs |-> {}]
    BY <1>6 DEF FinishDigest, Install, Settled
  <2>3. Mirror!Settle
    BY <2>1, <2>2, MirrorSettles
  <2> QED
    BY <2>3 DEF Mirror!Next
<1>7. ASSUME NEW day \in Files, Rebuild(day) PROVE Mirror!Next
  <2>1. day \in 1 .. Len(log)
    BY <1>0 DEF Files
  <2>2. /\ UNCHANGED <<log, edges>> /\ owed \subseteq owed' /\ stray \subseteq stray'
        /\ settled' = day /\ work' = [day |-> 0, recs |-> {}]
    BY <1>7 DEF Rebuild, Settled
  <2>3. Mirror!Settle
    BY <2>1, <2>2, MirrorSettles
  <2> QED
    BY <2>3 DEF Mirror!Next
<1>8. CASE CleanUp
  <2>1. PICK kept \in SUBSET {e \in edges : e.state = "live"} :
          /\ \A p \in Pair : OpenOf(p) # {} => Cardinality(kept \cap OpenOf(p)) = 1
          /\ edges' = {e \in edges : e.state # "live"} \cup kept
          /\ stray' = stray \cup {e.link : e \in {o \in edges \ kept : o.state = "live"}}
    BY <1>8 DEF CleanUp
  <2>2. UNCHANGED <<log, settled, owed>>
    BY <1>8 DEF CleanUp
  <2>3. ASSUME NEW e \in edges, e.state = "live", e.link \in Solo PROVE e \in kept
    <3>1. e.link \in Rec /\ PairOf[e.link] \in Pair /\ Of(PairOf[e.link]) = {e.link}
      BY <2>3 DEF Solo
    <3>2. e \in OpenOf(PairOf[e.link])
      BY <2>3 DEF OpenOf
    <3>3. \A f \in OpenOf(PairOf[e.link]) : f = e
      <4> SUFFICES ASSUME NEW f \in OpenOf(PairOf[e.link]) PROVE f = e
        OBVIOUS
      <4>1. f \in EdgeRow /\ e \in EdgeRow /\ f.state = "live" /\ PairOf[f.link] = PairOf[e.link]
        BY <1>0 DEF OpenOf, Typed
      <4>2. f.link \in Of(PairOf[e.link])
        BY <4>1 DEF Of, EdgeRow
      <4>3. f.link = e.link
        BY <3>1, <4>2
      <4> QED
        BY <2>3, <4>1, <4>3 DEF EdgeRow
    <3>4. kept \cap OpenOf(PairOf[e.link]) # {}
      <4>1. Cardinality(kept \cap OpenOf(PairOf[e.link])) = 1
        BY <2>1, <3>1, <3>2
      <4> QED
        BY <4>1, FS_EmptySet
    <3> QED
      BY <3>3, <3>4
  <2>4. ASSUME NEW r \in Solo PROVE View(r)' = View(r)
    <3>1. \A s \in {"live", "ceased", "withdrawn"} :
            [link |-> r, state |-> s] \in edges' <=> [link |-> r, state |-> s] \in edges
      BY <2>1, <2>3
    <3>2. r \in Rec
      BY DEF Solo
    <3> QED
      BY <1>0, <3>1, <3>2, SameRows
  <2>5. Solo \cap stray' = Solo \cap stray
    BY <2>1, <2>3
  <2> QED
    BY <1>1, <2>2, <2>4, <2>5
<1>9. ASSUME NEW day \in Files, NEW force \in BOOLEAN, Refresh(day, force) PROVE Mirror!Next
  <2>1. UNCHANGED <<log, edges, settled, owed>> /\ stray \subseteq stray'
    BY <1>9 DEF Refresh, Begin
  <2> QED
    BY <2>1, MirrorOwes DEF Mirror!Next
<1>10. ASSUME NEW r \in Rec, ApplyRecord(r) PROVE [Mirror!Next]_Mirror!vars
  <2>1. CASE PairOf[r] \notin job.known
    <3>1. UNCHANGED <<log, edges, settled, stray>> /\ owed \subseteq owed'
      BY <1>10, <2>1 DEF ApplyRecord
    <3> QED
      BY <3>1, MirrorOwes DEF Mirror!Next
  <2>2. CASE PairOf[r] \in job.known
    <3> DEFINE statement == Stated(job.day, r)
    <3>1. /\ job \in Job /\ job.day \in 1 .. Len(log) /\ r \in job.todo
          /\ job.at = "apply" /\ work.day = job.day
      BY <1>0, <1>10, Busy, PlacesAre DEF ApplyRecord, Inv, RunKnows, At, Writing
    <3>2. /\ UNCHANGED <<log, settled, twins>> /\ edges' = Written(r, statement)
          /\ owed' = owed \ {r} /\ stray' = stray \ {r}
      BY <1>10, <2>2 DEF ApplyRecord, Wrote
    <3>3. statement \in {"live", "ceased"}
      <4>1. statement \in Statement
        BY <1>0, <3>1 DEF Typed, Stated
      <4> QED
        BY <3>1, <4>1 DEF Inv, RunKnows, RefreshKnows, At
    <3>4. /\ View(r)' = statement
          /\ \A s \in Rec \ ({r} \cup {e.link : e \in Adopted(r, statement)}) : View(s)' = View(s)
      BY <1>0, <3>2, <3>3, WrittenRows
    <3>5. \A s \in Solo \ {r} : s \notin {e.link : e \in Adopted(r, statement)}
      <4> SUFFICES ASSUME NEW e \in Adopted(r, statement), e.link \in Solo PROVE e.link = r
        OBVIOUS
      <4>1. PairOf[e.link] = PairOf[r] /\ Of(PairOf[e.link]) = {e.link}
        BY DEF Adopted, OpenOf, Solo
      <4> QED
        BY <4>1 DEF Of
    <3>6. \A s \in Solo \ {r} : View(s)' = View(s)
      BY <3>4, <3>5 DEF Solo
    <3>7. \A s \in Solo \cap {r} : Mirror!Agrees(View(s)', Stated(job.day, s))
      BY <3>3, <3>4 DEF Mirror!Agrees
    <3>8. Solo \cap (owed' \cup stray') = (Solo \cap (owed \cup stray)) \ (Solo \cap {r})
      BY <3>2
    <3>9. job.day \in DOMAIN log /\ job.day # 0
      BY <1>0, <3>1
    <3>10. Mirror!Show
      <4>1. Solo \cap {r} \in SUBSET Solo
        OBVIOUS
      <4>2. \A s \in Solo \ (Solo \cap {r}) : View(s)' = View(s)
        BY <3>6
      <4> QED
        BY <3>2, <3>7, <3>8, <3>9, <4>1, <4>2, MirrorShows
    <3> QED
      BY <3>10 DEF Mirror!Next
  <2> QED
    BY <2>1, <2>2
<1>11. ASSUME NEW r \in Rec, PassOver(r) PROVE Mirror!Next
  <2>1. UNCHANGED <<log, edges, settled, stray>> /\ owed \subseteq owed'
    BY <1>11 DEF PassOver
  <2> QED
    BY <2>1, MirrorOwes DEF Mirror!Next
<1>12. CASE CloseEdges
  <2> DEFINE New(e) ==
        [e EXCEPT !.state = IF e.link \in job.gone /\ @ = "live" THEN "withdrawn" ELSE @]
  <2>1. job \in Job /\ job.day \in 1 .. Len(log) /\ job.at = "apply" /\ work.day = job.day
    BY <1>0, <1>12, Busy, PlacesAre DEF CloseEdges, Inv, RunKnows, At, Writing
  <2>2. /\ UNCHANGED <<log, settled>> /\ edges' = {New(e) : e \in edges}
        /\ work'.day = work.day /\ work'.recs = work.recs \cup job.gone
        /\ owed' = owed \ job.gone /\ stray' = stray \ job.gone
    BY <1>0, <1>12 DEF CloseEdges, Wrote, Typed
  <2>3. \A e \in edges : New(e).link = e.link /\ (e.link \notin job.gone => New(e) = e)
    BY <1>0 DEF Typed, EdgeRow
  <2>4. ASSUME NEW s \in Solo \ job.gone PROVE View(s)' = View(s)
    <3>1. ASSUME NEW z \in {"live", "ceased", "withdrawn"}
          PROVE  [link |-> s, state |-> z] \in edges' <=> [link |-> s, state |-> z] \in edges
      <4>1. ASSUME NEW e \in edges, New(e) = [link |-> s, state |-> z]
            PROVE  e = [link |-> s, state |-> z]
        <5>1. New(e).link = s
          BY <4>1
        <5> QED
          BY <2>3, <2>4, <4>1, <5>1
      <4>2. ASSUME [link |-> s, state |-> z] \in edges
            PROVE  New([link |-> s, state |-> z]) = [link |-> s, state |-> z]
        BY <2>3, <2>4, <4>2
      <4> HIDE DEF New
      <4> QED
        BY <2>2, <4>1, <4>2
    <3>2. s \in Rec
      BY DEF Solo
    <3> QED
      BY <1>0, <3>1, <3>2, SameRows
  <2>5. ASSUME NEW s \in Solo \cap job.gone PROVE Mirror!Agrees(View(s)', Stated(job.day, s))
    <3>1. s \notin owed' \cup stray'
      BY <2>2
    <3>2. Mirror!Agrees(View(s), Stated(Day(s), s))'
      BY <3>1 DEF Inv, SolosShow, Solo
    <3>3. Stated(Day(s), s)' = Stated(job.day, s)
      BY <2>1, <2>2 DEF Day, Stated
    <3> QED
      BY <3>2, <3>3 DEF Mirror!Agrees
  <2>6. Solo \cap (owed' \cup stray') = (Solo \cap (owed \cup stray)) \ (Solo \cap job.gone)
    BY <2>2
  <2>7. job.day \in DOMAIN log /\ job.day # 0
    BY <1>0, <2>1
  <2>8. Mirror!Show
    <3>1. Solo \cap job.gone \in SUBSET Solo /\ \A s \in Solo \ (Solo \cap job.gone) : View(s)' = View(s)
      BY <2>4
    <3> HIDE DEF New
    <3> QED
      BY <2>2, <2>5, <2>6, <2>7, <3>1, MirrorShows
  <2> QED
    BY <2>8 DEF Mirror!Next
<1>13. CASE \/ \E p \in Pair : Join(p)
            \/ MarkLoad \/ DateLoad \/ CleanUpFails \/ CloseClaims \/ Retire
            \/ DateRefresh \/ Crash \/ UNCHANGED vars
  <2>1. UNCHANGED <<log, settled, edges, stray, owed>>
    BY <1>13 DEF Join, MarkLoad, DateLoad, CleanUpFails, CloseClaims, Retire, DateRefresh,
                 Crash, vars, memory
  <2> QED
    BY <1>2, <2>1
<1> QED
  BY <1>3, <1>4, <1>5, <1>6, <1>7, <1>8, <1>9, <1>10, <1>11, <1>12, <1>13 DEF Next, Step

\* The load, the refresh, their digest files and what becomes of them when a run
\* dies implement a mirror that answers for one day and says which appointments
\* it has lost track of.
THEOREM ImplementsMirror == Spec => MirrorSpec
<1>1. Init => Mirror!Init
  <2> SUFFICES ASSUME Init PROVE Mirror!Init
    OBVIOUS
  <2>1. log \in [1 .. 1 -> [Rec -> Statement]]
    BY FirstAssumption DEF Init
  <2>2. [d \in DOMAIN log |-> [r \in Solo |-> log[d][r]]] \in [1 .. 1 -> [Solo -> Statement]]
    BY <2>1 DEF Solo
  <2>3. \A r \in Solo : View(r) = "none"
    BY DEF Init, View
  <2> QED
    BY <2>2, <2>3 DEF Init, Mirror!Init, Mirror!Statement
<1>2. Inv /\ Inv' /\ [Next]_vars => [Mirror!Next]_Mirror!vars
  BY StepImplements
<1> QED
  BY <1>1, <1>2, Invariance, PTL DEF Spec, MirrorSpec, Mirror!Spec

-----------------------------------------------------------------------------
(* The suite *)

\* A behaviour of the suite is one of each component's, at work or still: what is proved
\* of them holds of what is checked.
THEOREM ScrapesRunEach == SuiteSpec => Stakes!Spec /\ Flags!Spec /\ Quarters!Spec /\ Spec
<1> DEFINE all == <<part, vars, qVars, shVars, sVars>>
<1>1. SuiteInit => Stakes!Init /\ Flags!Init /\ Quarters!Init /\ Init
  BY DEF SuiteInit
<1>2. ASSUME [SuiteNext]_all PROVE [Stakes!Next]_(Stakes!vars)
  BY <1>2 DEF SuiteNext, Stakes!vars, shVars
<1>3. ASSUME [SuiteNext]_all PROVE [Flags!Next]_(Flags!vars)
  BY <1>3 DEF SuiteNext, Flags!vars, sVars
<1>4. ASSUME [SuiteNext]_all PROVE [Quarters!Next]_(Quarters!vars)
  BY <1>4 DEF SuiteNext, Quarters!vars, qVars
<1>5. ASSUME [SuiteNext]_all PROVE [Next]_vars
  BY <1>5 DEF SuiteNext, vars
<1> QED
  BY <1>1, <1>2, <1>3, <1>4, <1>5, PTL DEF SuiteSpec, Stakes!Spec, Flags!Spec, Quarters!Spec, Spec
=============================================================================
