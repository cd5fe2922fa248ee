--------------------------- MODULE ProgressProofs ---------------------------
(***************************************************************************)
(* Theorems about Progress, for any uploads, sizes, resolution of the      *)
(* clock and time between: a lone upload is shown in time, and what is     *)
(* shown is true of it.                                                    *)
(*                                                                         *)
(* The first inductive invariant bounds the last turn of the timer on both *)
(* sides: it is not long ago, since whoever reports takes the next, and    *)
(* it is no later than a second after something was shown, since only a    *)
(* young upload loses a turn. The second says what a picture was drawn of; *)
(* the rest is arithmetic on the operators that draw it.                   *)
(***************************************************************************)
EXTENDS Progress, SequenceTheorems, TLAPS

Pictures ==
  {<<>>} \cup {<<Picture(current, total, age)>> : current \in Nat, total \in Nat, age \in Int}

Upload == [size : Nat, start : Nat, current : Nat, picture : Pictures, silent : Nat,
           alone : BOOLEAN, reported : BOOLEAN, steady : BOOLEAN]

Types ==
  /\ now \in Nat /\ slot \in Nat /\ slot <= now
  /\ upload \in [Uploads -> Upload]
  /\ \A u \in Under : upload[u].start <= upload[u].silent /\ upload[u].silent <= now

\* What is known of the timer while u is alone and has reported in every tick.
TurnTaken(u) ==
  LET up == upload[u]
  IN  /\ slot < up.silent + TicksPerSecond
      /\ up.reported => now <= slot + TimeBetween
      /\ ~up.reported => now = up.start \/ now <= slot + TimeBetween + 1

IInv ==
  /\ Types
  /\ \A u \in Under : upload[u].alone => Under = {u}
  /\ \A u \in Under : (upload[u].alone /\ upload[u].steady) => TurnTaken(u)

LEMMA Constants ==
  /\ TicksPerSecond \in Nat \ {0} /\ TimeBetween \in Nat
  /\ \A size \in Sizes : size \in Nat \ {0}
  /\ Parts \subseteq Nat
BY ProgressAssumption

LEMMA IInvInit == Init => IInv
BY DEF Init, IInv, Types, Under, Idle, Upload, Pictures, TurnTaken

LEMMA IdleUpload == Idle \in Upload /\ Idle.size = 0
BY DEF Idle, Upload, Pictures

\* A question to the timer leaves it at its last turn, or takes the turn now.
LEMMA CanSendCases ==
  ASSUME Types
  PROVE  /\ CanSend.slot \in Nat /\ slot <= CanSend.slot /\ CanSend.slot <= now
         /\ now <= CanSend.slot + TimeBetween
         /\ CanSend.yes => CanSend.slot = now
         /\ ~CanSend.yes => CanSend.slot = slot
<1> DEFINE due == now > slot + TimeBetween
<1>1. CanSend = [yes |-> due, slot |-> IF due THEN now ELSE slot]
  BY DEF CanSend
<1>2. (CanSend.yes <=> due) /\ CanSend.slot = IF due THEN now ELSE slot
  <2> HIDE DEF due
  <2> QED
    BY <1>1
<1> QED
  BY <1>2, Constants DEF Types

LEMMA BeginKeeps ==
  ASSUME IInv, NEW u \in Uploads, NEW size \in Sizes, Begin(u, size)
  PROVE  IInv'
<1> DEFINE new == [Idle EXCEPT !.size = size, !.start = now, !.silent = now,
                               !.alone = (Under = {}), !.steady = TRUE]
<1>1. /\ u \notin Under /\ now' = now /\ slot' = slot
      /\ upload' = [v \in Uploads |->
           IF v = u THEN new ELSE [upload[v] EXCEPT !.alone = FALSE]]
  BY DEF Begin
<1>2. /\ new \in Upload /\ new.size # 0 /\ new.start = now /\ new.silent = now
      /\ new.alone <=> Under = {}
      /\ ~new.reported
  <2>1. /\ size \in Nat /\ size # 0 /\ now \in Nat
        /\ Idle \in Upload /\ ~Idle.reported
    BY Constants, IdleUpload DEF IInv, Types, Idle
  <2> QED
    BY <2>1 DEF Upload
<1>3. \A v \in Uploads : upload[v] \in Upload
  BY DEF IInv, Types
<1> HIDE DEF new
<1>4. /\ upload'[u] = new
      /\ \A v \in Uploads \ {u} :
           /\ upload'[v] \in Upload /\ ~upload'[v].alone
           /\ upload'[v].size = upload[v].size /\ upload'[v].start = upload[v].start
           /\ upload'[v].silent = upload[v].silent
  BY <1>1, <1>3 DEF Upload
<1>5. Under' = Under \cup {u}
  BY <1>2, <1>4 DEF Under
<1>6. Types'
  <2>1. upload' \in [Uploads -> Upload]
    BY <1>1, <1>2, <1>3 DEF Upload
  <2>2. \A v \in Under' : upload'[v].start <= upload'[v].silent /\ upload'[v].silent <= now'
    BY <1>1, <1>2, <1>4, <1>5 DEF IInv, Types, Under
  <2> QED
    BY <1>1, <2>1, <2>2 DEF IInv, Types
<1>7. \A v \in Under' : upload'[v].alone => v = u /\ Under' = {u}
  BY <1>2, <1>4, <1>5 DEF Under
<1>8. TurnTaken(u)'
  BY <1>1, <1>2, <1>4, Constants DEF TurnTaken, IInv, Types
<1> QED
  BY <1>6, <1>7, <1>8 DEF IInv

LEMMA ReportKeeps ==
  ASSUME IInv, NEW u \in Uploads, NEW current \in Parts \cup {upload[u].size},
         Report(u, current)
  PROVE  IInv'
<1> DEFINE shown == CanSend.yes /\ ~Young(u)
           said == [upload[u] EXCEPT !.current = current, !.reported = TRUE]
           drawn == <<Picture(current, upload[u].size, Age(u))>>
           new == IF shown THEN [said EXCEPT !.silent = now, !.picture = drawn] ELSE said
<1>1. /\ u \in Under /\ now' = now /\ slot' = CanSend.slot
      /\ upload' = [upload EXCEPT ![u] = new]
  BY DEF Report
<1>2. upload[u] \in Upload /\ current \in Nat /\ now \in Nat
  BY Constants DEF IInv, Types, Upload
<1>3. drawn \in Pictures
  BY <1>2 DEF Pictures, Upload, Age
<1>4. /\ new \in Upload /\ new.size = upload[u].size /\ new.start = upload[u].start
      /\ new.alone <=> upload[u].alone
      /\ new.steady <=> upload[u].steady
      /\ new.reported
      /\ new.silent = IF shown THEN now ELSE upload[u].silent
  <2> HIDE DEF drawn, shown
  <2> QED
    BY <1>2, <1>3 DEF Upload
<1> HIDE DEF new
<1>5. /\ upload' \in [Uploads -> Upload] /\ upload'[u] = new
      /\ \A v \in Uploads \ {u} : upload'[v] = upload[v]
  BY <1>1, <1>4 DEF IInv, Types
<1>6. Under' = Under
  BY <1>4, <1>5 DEF Under
<1>7. Types'
  <2>1. /\ now' \in Nat /\ slot' \in Nat /\ slot' <= now'
    BY <1>1, <1>2, CanSendCases DEF IInv
  <2>2. upload[u].start <= upload[u].silent /\ upload[u].silent <= now
    BY <1>1 DEF IInv, Types
  <2>3. new.start <= new.silent /\ new.silent <= now
    BY <1>2, <1>4, <2>2 DEF Upload
  <2>4. \A v \in Under' : upload'[v].start <= upload'[v].silent /\ upload'[v].silent <= now'
    BY <1>1, <1>5, <1>6, <2>3 DEF IInv, Types, Under
  <2> QED
    BY <1>5, <2>1, <2>4 DEF Types
<1>8. \A v \in Under' : upload'[v].alone => Under' = {v}
  BY <1>4, <1>5, <1>6 DEF IInv, Under
<1>9. ASSUME NEW v \in Under', upload'[v].alone, upload'[v].steady
      PROVE  TurnTaken(v)'
  <2>1. v = u
    BY <1>1, <1>6, <1>8, <1>9
  <2>2. upload[u].alone /\ upload[u].steady /\ TurnTaken(u)
    <3>1. new.alone /\ new.steady
      BY <1>5, <1>9, <2>1
    <3>2. upload[u].alone /\ upload[u].steady
      BY <1>4, <3>1
    <3> QED
      BY <1>1, <3>2 DEF IInv
  <2>3. slot' < new.silent + TicksPerSecond
    <3>1. CASE shown
      BY <1>1, <1>2, <1>4, <3>1, CanSendCases, Constants DEF IInv
    <3>2. CASE CanSend.yes /\ Young(u)
      <4>1. slot' = now /\ new.silent = upload[u].silent
        BY <1>1, <1>4, <3>2, CanSendCases DEF IInv
      <4>2. now - upload[u].start < TicksPerSecond
        BY <3>2 DEF Young, Age
      <4>3. upload[u].start <= upload[u].silent
        BY <1>1 DEF IInv, Types
      <4>4. upload[u].start \in Nat /\ upload[u].silent \in Nat
        BY <1>2 DEF Upload
      <4> QED
        BY <1>2, <4>1, <4>2, <4>3, <4>4, Constants
    <3>3. CASE ~CanSend.yes
      BY <1>1, <1>4, <2>2, <3>3, CanSendCases DEF IInv, TurnTaken
    <3> QED
      BY <3>1, <3>2, <3>3
  <2>4. now' <= slot' + TimeBetween
    BY <1>1, CanSendCases DEF IInv
  <2> QED
    BY <1>4, <1>5, <2>1, <2>3, <2>4 DEF TurnTaken
<1> QED
  BY <1>7, <1>8, <1>9 DEF IInv

\* Sending again, or ending, takes the upload out of what is claimed.
LEMMA AgainKeeps ==
  ASSUME IInv, NEW u \in Uploads, Again(u) \/ End(u)
  PROVE  IInv'
<1>1. /\ u \in Under /\ now' = now
      /\ slot' \in Nat /\ slot' <= now
      /\ \A v \in Uploads \ {u} : upload'[v] = upload[v]
  BY CanSendCases DEF Again, End, IInv, Types
<1>2. /\ upload' \in [Uploads -> Upload]
      /\ ~upload'[u].steady
      /\ upload'[u].size = 0 \/ /\ upload'[u].size = upload[u].size
                                /\ upload'[u].start = upload[u].start
                                /\ upload'[u].silent = upload[u].silent
                                /\ upload'[u].alone = upload[u].alone
  <2>1. CASE Again(u)
    BY <2>1 DEF Again, IInv, Types, Upload
  <2>2. CASE End(u)
    BY <2>2, IdleUpload DEF End, IInv, Types, Idle
  <2> QED
    BY <2>1, <2>2
<1>3. Under' \subseteq Under /\ (u \notin Under' => Under' = Under \ {u})
      /\ (u \in Under' => Under' = Under /\ upload'[u].size # 0)
  BY <1>1, <1>2 DEF Under
<1>4. Types'
  BY <1>1, <1>2, <1>3 DEF IInv, Types, Under
<1>5. \A v \in Under' : upload'[v].alone => Under' = {v}
  BY <1>1, <1>2, <1>3 DEF IInv, Under
<1>6. ASSUME NEW v \in Under', upload'[v].alone, upload'[v].steady
      PROVE  TurnTaken(v)'
  <2>1. v # u /\ v \in Under /\ upload[v].alone
    BY <1>1, <1>2, <1>3, <1>6 DEF Under
  <2> QED
    BY <1>1, <2>1 DEF IInv
<1> QED
  BY <1>4, <1>5, <1>6 DEF IInv

LEMMA TickKeeps ==
  ASSUME IInv, Tick
  PROVE  IInv'
<1> DEFINE after(u) == [upload[u] EXCEPT !.reported = FALSE,
                                         !.steady = upload[u].steady /\ upload[u].reported]
<1>1. now' = now + 1 /\ slot' = slot /\ now \in Nat /\ slot \in Nat
  BY DEF Tick, IInv, Types
<1>2. \A u \in Uploads : upload[u] \in Upload /\ upload'[u] = after(u)
  BY DEF Tick, IInv, Types
<1>3. \A u \in Uploads :
        /\ upload'[u].size = upload[u].size /\ upload'[u].start = upload[u].start
        /\ upload'[u].silent = upload[u].silent
  BY <1>2 DEF Upload
<1>4. \A u \in Uploads :
        /\ ~upload'[u].reported
        /\ upload'[u].steady => upload[u].steady /\ upload[u].reported
        /\ upload'[u].alone <=> upload[u].alone
  BY <1>2 DEF Upload
<1>5. Under' = Under
  BY <1>3 DEF Under
<1>6. Types'
  <2>1. upload' \in [Uploads -> Upload]
    <3>1. \A u \in Uploads : after(u) \in Upload
      BY <1>2 DEF Upload
    <3>2. upload' = [u \in Uploads |-> after(u)]
      BY DEF Tick
    <3> HIDE DEF after
    <3> QED
      BY <3>1, <3>2
  <2>2. /\ now' \in Nat /\ slot' \in Nat /\ slot' <= now' /\ now <= now'
    BY <1>1 DEF IInv, Types
  <2>3. ASSUME NEW u \in Under
        PROVE  upload'[u].start <= upload'[u].silent /\ upload'[u].silent <= now'
    <3>1. upload[u].start <= upload[u].silent /\ upload[u].silent <= now /\ u \in Uploads
      BY DEF IInv, Types, Under
    <3>2. upload[u].silent \in Nat /\ now \in Nat
      BY <1>2, <3>1 DEF IInv, Types, Upload
    <3> QED
      BY <1>1, <1>3, <3>1, <3>2
  <2> QED
    BY <1>5, <2>1, <2>2, <2>3 DEF Types
<1>7. \A u \in Under' : upload'[u].alone => Under' = {u}
  BY <1>5, <1>4 DEF IInv, Under
<1>8. ASSUME NEW u \in Under', upload'[u].alone, upload'[u].steady
      PROVE  TurnTaken(u)'
  <2>1. u \in Uploads /\ TurnTaken(u) /\ upload[u].reported
    BY <1>5, <1>8, <1>4 DEF IInv, Under
  <2>2. /\ slot < upload[u].silent + TicksPerSecond
        /\ now <= slot + TimeBetween
    BY <2>1 DEF TurnTaken
  <2>3. now' <= slot' + TimeBetween + 1
    BY <1>1, <2>2, Constants DEF IInv, Types
  <2>4. slot' < upload'[u].silent + TicksPerSecond /\ ~upload'[u].reported
    BY <1>1, <1>3, <1>4, <2>1, <2>2
  <2> QED
    BY <2>3, <2>4 DEF TurnTaken
<1> QED
  BY <1>6, <1>7, <1>8 DEF IInv

LEMMA IInvStep == IInv /\ [Next]_vars => IInv'
<1> SUFFICES ASSUME IInv, [Next]_vars PROVE IInv'
  OBVIOUS
<1>1. CASE UNCHANGED vars
  BY <1>1 DEF vars, IInv, Types, Under, TurnTaken
<1>2. CASE Restart
  <2>1. /\ now' = now /\ slot' = now /\ upload' = [u \in Uploads |-> Idle]
        /\ Under' = {}
    BY <1>2, IdleUpload DEF Restart, Under
  <2> QED
    BY <2>1, IdleUpload DEF IInv, Types
<1> QED
  BY <1>1, <1>2, BeginKeeps, ReportKeeps, AgainKeeps, TickKeeps DEF Next

\* An upload that is alone and reports in every tick is shown at least once in
\* TimeBetween and a second (p_bar.py:34-38, 94-98).
THEOREM LoneUploadIsShown == Spec => []LoneUploadShown
<1>1. IInv => LoneUploadShown
  <2> SUFFICES ASSUME IInv, NEW u \in Under, upload[u].alone, upload[u].steady
               PROVE  now - upload[u].silent <= TimeBetween + TicksPerSecond
    BY DEF LoneUploadShown
  <2>1. /\ TurnTaken(u) /\ now \in Nat /\ slot \in Nat
        /\ upload[u].silent \in Nat /\ upload[u].start \in Nat
        /\ upload[u].start <= upload[u].silent /\ upload[u].silent <= now
    BY DEF IInv, Types, Under, Upload
  <2> QED
    BY <2>1, Constants DEF TurnTaken
<1> QED
  BY <1>1, IInvInit, IInvStep, PTL DEF Spec
-----------------------------------------------------------------------------
(* What a picture says. The lemmas are about the operators that make it, for *)
(* all numbers; the invariant is that what is shown was made of an age of at *)
(* least a second and of no more than the whole file.                        *)

\* Division of whole numbers rounds down.
LEMMA Quotient ==
  ASSUME NEW a \in Nat, NEW t \in Nat \ {0}
  PROVE  /\ a \div t \in Nat /\ (a \div t) * t <= a /\ a < ((a \div t) + 1) * t
OBVIOUS

LEMMA Remainder ==
  ASSUME NEW a \in Nat, NEW t \in Nat \ {0}
  PROVE  a % t \in Nat /\ a % t <= t - 1 /\ (a < t => a % t = a)
OBVIOUS

LEMMA QuotientBound ==
  ASSUME NEW a \in Nat, NEW t \in Nat \ {0}, NEW k \in Nat, a < (k + 1) * t
  PROVE  a \div t <= k
<1> DEFINE q == a \div t
<1>1. q \in Nat /\ q * t <= a
  BY Quotient
<1> HIDE DEF q
<1>2. CASE q >= k + 1
  <2>1. q * t >= (k + 1) * t
    BY <1>1, <1>2
  <2> QED
    BY <1>1, <2>1
<1> QED
  BY <1>1, <1>2 DEF q

\* A bar of eleven cells, which is full when everything was sent.
LEMMA Cells ==
  ASSUME NEW total \in Nat \ {0}, NEW current \in 0 .. total
  PROVE  /\ (current * 11) \div total \in 0 .. 11
         /\ (current * 11) \div total = 11 <=> current = total
<1> DEFINE q == (current * 11) \div total
<1>1. current * 11 \in Nat
  OBVIOUS
<1>2. q \in Nat /\ q * total <= current * 11 /\ current * 11 < q * total + total
  BY <1>1, Quotient
<1> HIDE DEF q
<1>3. q <= 11
  <2>1. CASE q >= 12
    <3>1. q * total >= 12 * total
      BY <1>2, <2>1
    <3> QED
      BY <1>2, <3>1
  <2> QED
    BY <1>2, <2>1
<1>4. q = 11 => current = total
  BY <1>2
<1>5. ASSUME current = total
      PROVE  q = 11
  <2>1. CASE q <= 10
    <3>1. q * total <= 10 * total
      BY <1>2, <2>1
    <3> QED
      BY <1>2, <1>5, <3>1
  <2> QED
    BY <1>2, <1>3, <2>1
<1> QED
  BY <1>2, <1>3, <1>4, <1>5 DEF q

\* A second or more is not rounded to nothing.
LEMMA Rounded ==
  ASSUME NEW age \in Nat, age >= TicksPerSecond
  PROVE  Round(age) \in Nat /\ Round(age) >= 1
<1> DEFINE q == age \div TicksPerSecond
<1>1. TicksPerSecond \in Nat \ {0}
  BY Constants
<1>2. q \in Nat /\ age < q * TicksPerSecond + TicksPerSecond
  BY <1>1, Quotient
<1> HIDE DEF q
<1>3. q >= 1
  BY <1>1, <1>2
<1>4. Round(age) \in {q, q + 1}
  BY DEF Round, q
<1> QED
  BY <1>2, <1>3, <1>4

\* The first piece is in the largest unit there is one of, rounded down.
FirstIsFair(pieces, seconds) ==
  \E n \in Nat, unit \in DOMAIN UnitSeconds :
    /\ SubSeq(pieces, 1, 1) = <<[n |-> n, unit |-> unit]>>
    /\ n * UnitSeconds[unit] <= seconds /\ seconds < (n + 1) * UnitSeconds[unit]
    /\ unit # "d" => n <= AtMost[unit]

LEMMA FirstOf ==
  ASSUME NEW S, NEW x \in S, NEW rest \in Seq(S)
  PROVE  SubSeq(<<x>> \o rest, 1, 1) = <<x>>
<1>1. <<x>> \in Seq(S) /\ Len(<<x>>) = 1
  OBVIOUS
<1> DEFINE one == <<x>>
<1> HIDE DEF one
<1>2. SubSeq(one \o rest, 1, 1) = SubSeq(one, 1, 1)
  BY <1>1, SubSeqOfConcat1 DEF one
<1>3. SubSeq(one, 1, 1) = one
  BY <1>1, SubSeqFull DEF one
<1> QED
  BY <1>2, <1>3 DEF one

LEMMA PieceIsSeq ==
  ASSUME NEW S, NEW x \in S
  PROVE  <<x>> \in Seq(S) /\ <<>> \in Seq(S)
OBVIOUS

LEMMA NothingBefore ==
  ASSUME NEW S, NEW q \in Seq(S)
  PROVE  <<>> \o q = q
OBVIOUS

LEMMA Seconds ==
  /\ DOMAIN UnitSeconds = {"s", "m", "h", "d"}
  /\ UnitSeconds["s"] = 1 /\ UnitSeconds["m"] = 60
  /\ UnitSeconds["h"] = 3600 /\ UnitSeconds["d"] = 86400
  /\ AtMost["s"] = 59 /\ AtMost["m"] = 59 /\ AtMost["h"] = 23
BY DEF UnitSeconds, AtMost

LEMMA Fair ==
  ASSUME NEW pieces, NEW seconds \in Nat, NEW n \in Nat, NEW unit \in {"s", "m", "h", "d"},
         SubSeq(pieces, 1, 1) = <<[n |-> n, unit |-> unit]>>,
         n * UnitSeconds[unit] <= seconds /\ seconds < (n + 1) * UnitSeconds[unit],
         unit # "d" => n <= AtMost[unit]
  PROVE  FirstIsFair(pieces, seconds)
BY Seconds DEF FirstIsFair

LEMMA FirstPiece ==
  ASSUME NEW seconds \in Nat
  PROVE  FirstIsFair(Hrt(seconds), seconds)
<1> DEFINE days == seconds \div 86400
           inDay == seconds % 86400
           hours == inDay \div 3600
           inHour == inDay % 3600
           minutes == inHour \div 60
           rest == inHour % 60
           d == Piece(days, "d", days # 0)
           h == Piece(hours, "h", inDay >= 3600)
           m == Piece(minutes, "m", inHour >= 60)
           s == Piece(rest, "s", rest > 0 \/ d \o h \o m = <<>>)
           Pieces == [n : Nat, unit : DOMAIN UnitSeconds]
<1>1. Hrt(seconds) = ((d \o h) \o m) \o s
  BY DEF Hrt
<1>2. /\ days \in Nat /\ days * 86400 <= seconds /\ seconds < (days + 1) * 86400
      /\ inDay \in Nat /\ inDay <= 86399 /\ (days = 0 => inDay = seconds)
  <2>1. days \in Nat /\ days * 86400 <= seconds /\ seconds < (days + 1) * 86400
    BY Quotient
  <2>2. inDay \in Nat /\ inDay <= 86400 - 1 /\ (seconds < 86400 => inDay = seconds)
    BY Remainder
  <2> HIDE DEF days, inDay
  <2> QED
    BY <2>1, <2>2
<1>3. /\ hours \in Nat /\ hours * 3600 <= inDay /\ inDay < (hours + 1) * 3600 /\ hours <= 23
      /\ inHour \in Nat /\ inHour <= 3600 - 1 /\ (inDay < 3600 => inHour = inDay)
  <2>1. inDay \in Nat /\ inDay < (23 + 1) * 3600
    BY <1>2
  <2> HIDE DEF inDay
  <2>2. hours \in Nat /\ hours * 3600 <= inDay /\ inDay < (hours + 1) * 3600
    BY <2>1, Quotient
  <2>3. hours <= 23
    BY <2>1, QuotientBound
  <2>4. inHour \in Nat /\ inHour <= 3600 - 1 /\ (inDay < 3600 => inHour = inDay)
    BY <2>1, Remainder
  <2> QED
    BY <2>2, <2>3, <2>4
<1>4. /\ minutes \in Nat /\ minutes * 60 <= inHour /\ inHour < (minutes + 1) * 60 /\ minutes <= 59
      /\ rest \in Nat /\ rest <= 60 - 1 /\ (inHour < 60 => rest = inHour)
  <2>1. inHour \in Nat /\ inHour < (59 + 1) * 60
    BY <1>3
  <2> HIDE DEF inHour
  <2>2. minutes \in Nat /\ minutes * 60 <= inHour /\ inHour < (minutes + 1) * 60
    BY <2>1, Quotient
  <2>3. minutes <= 59
    BY <2>1, QuotientBound
  <2>4. rest \in Nat /\ rest <= 60 - 1 /\ (inHour < 60 => rest = inHour)
    BY <2>1, Remainder
  <2> QED
    BY <2>2, <2>3, <2>4
<1> HIDE DEF days, inDay, hours, inHour, minutes, rest
<1>5. DOMAIN UnitSeconds = {"s", "m", "h", "d"}
  BY DEF UnitSeconds
<1>6. d \in Seq(Pieces) /\ h \in Seq(Pieces) /\ m \in Seq(Pieces) /\ s \in Seq(Pieces)
  <2>1. days \in Nat /\ hours \in Nat /\ minutes \in Nat /\ rest \in Nat
    BY <1>2, <1>3, <1>4
  <2>2. \A n \in Nat : \A unit \in {"s", "m", "h", "d"} : [n |-> n, unit |-> unit] \in Pieces
    BY <1>5
  <2> HIDE DEF Pieces
  <2>3. d \in Seq(Pieces)
    <3> DEFINE x == [n |-> days, unit |-> "d"]
    <3>1. <<x>> \in Seq(Pieces) /\ <<>> \in Seq(Pieces)
      <4>1. x \in Pieces
        BY <2>1, <2>2
      <4> QED
        BY <4>1, PieceIsSeq
    <3>2. d \in {<<x>>, <<>>}
      BY DEF Piece
    <3> HIDE DEF d
    <3> QED
      BY <3>1, <3>2
  <2>4. h \in Seq(Pieces)
    <3> DEFINE x == [n |-> hours, unit |-> "h"]
    <3>1. <<x>> \in Seq(Pieces) /\ <<>> \in Seq(Pieces)
      <4>1. x \in Pieces
        BY <2>1, <2>2
      <4> QED
        BY <4>1, PieceIsSeq
    <3>2. h \in {<<x>>, <<>>}
      BY DEF Piece
    <3> HIDE DEF h
    <3> QED
      BY <3>1, <3>2
  <2>5. m \in Seq(Pieces)
    <3> DEFINE x == [n |-> minutes, unit |-> "m"]
    <3>1. <<x>> \in Seq(Pieces) /\ <<>> \in Seq(Pieces)
      <4>1. x \in Pieces
        BY <2>1, <2>2
      <4> QED
        BY <4>1, PieceIsSeq
    <3>2. m \in {<<x>>, <<>>}
      BY DEF Piece
    <3> HIDE DEF m
    <3> QED
      BY <3>1, <3>2
  <2> HIDE DEF d, h, m
  <2>6. s \in Seq(Pieces)
    <3> DEFINE x == [n |-> rest, unit |-> "s"]
    <3>1. <<x>> \in Seq(Pieces) /\ <<>> \in Seq(Pieces)
      <4>1. x \in Pieces
        BY <2>1, <2>2
      <4> QED
        BY <4>1, PieceIsSeq
    <3>2. s \in {<<x>>, <<>>}
      BY DEF Piece
    <3> HIDE DEF s
    <3> QED
      BY <3>1, <3>2
  <2> QED
    BY <2>3, <2>4, <2>5, <2>6
<1>7. CASE days # 0
  <2>1. d = <<[n |-> days, unit |-> "d"]>>
    BY <1>7 DEF Piece
  <2> HIDE DEF d, h, m, s, Pieces
  <2>2. SubSeq(((d \o h) \o m) \o s, 1, 1) = d
    <3>1. ((d \o h) \o m) \o s = d \o ((h \o m) \o s) /\ (h \o m) \o s \in Seq(Pieces)
      BY <1>6
    <3>2. [n |-> days, unit |-> "d"] \in Pieces
      BY <1>2, <1>5 DEF Pieces
    <3> QED
      BY <2>1, <3>1, <3>2, FirstOf
  <2>3. days * UnitSeconds["d"] <= seconds /\ seconds < (days + 1) * UnitSeconds["d"]
    BY <1>2, Seconds
  <2>4. SubSeq(Hrt(seconds), 1, 1) = <<[n |-> days, unit |-> "d"]>>
    BY <1>1, <2>1, <2>2
  <2>5. /\ days \in Nat /\ "d" \in {"s", "m", "h", "d"}
        /\ "d" # "d" => days <= AtMost["d"]
    BY <1>2
  <2> QED
    BY <2>3, <2>4, <2>5, Fair, Zenon
<1>8. CASE days = 0 /\ inDay >= 3600
  <2>1. d = <<>> /\ h = <<[n |-> hours, unit |-> "h"]>>
    BY <1>8 DEF Piece
  <2> HIDE DEF d, h, m, s, Pieces
  <2>2. SubSeq(((d \o h) \o m) \o s, 1, 1) = h
    <3>1. ((d \o h) \o m) \o s = h \o (m \o s) /\ m \o s \in Seq(Pieces)
      <4>1. d \o h = h
        BY <1>6, <2>1, NothingBefore
      <4> QED
        BY <1>6, <4>1
    <3>2. [n |-> hours, unit |-> "h"] \in Pieces
      BY <1>3, <1>5 DEF Pieces
    <3> QED
      BY <2>1, <3>1, <3>2, FirstOf
  <2>4. /\ hours * UnitSeconds["h"] <= seconds
        /\ seconds < (hours + 1) * UnitSeconds["h"]
        /\ hours <= AtMost["h"]
    BY <1>2, <1>3, <1>8, Seconds
  <2>5. SubSeq(Hrt(seconds), 1, 1) = <<[n |-> hours, unit |-> "h"]>>
    BY <1>1, <2>1, <2>2
  <2>6. /\ hours \in Nat /\ "h" \in {"s", "m", "h", "d"}
        /\ "h" # "d" => hours <= AtMost["h"]
    BY <1>3, <2>4
  <2> QED
    BY <2>4, <2>5, <2>6, Fair, Zenon
<1>9. CASE days = 0 /\ inDay < 3600 /\ inHour >= 60
  <2>1. d = <<>> /\ h = <<>> /\ m = <<[n |-> minutes, unit |-> "m"]>>
    BY <1>9, <1>2, <1>3 DEF Piece
  <2> HIDE DEF d, h, m, s, Pieces
  <2>2. SubSeq(((d \o h) \o m) \o s, 1, 1) = m
    <3>1. ((d \o h) \o m) \o s = m \o s
      <4>1. d \o h = h /\ h \o m = m
        BY <1>6, <2>1, NothingBefore
      <4> QED
        BY <4>1
    <3>2. [n |-> minutes, unit |-> "m"] \in Pieces
      BY <1>4, <1>5 DEF Pieces
    <3> QED
      BY <1>6, <2>1, <3>1, <3>2, FirstOf
  <2>4. /\ minutes * UnitSeconds["m"] <= seconds
        /\ seconds < (minutes + 1) * UnitSeconds["m"]
        /\ minutes <= AtMost["m"]
    BY <1>2, <1>3, <1>4, <1>9, Seconds
  <2>5. SubSeq(Hrt(seconds), 1, 1) = <<[n |-> minutes, unit |-> "m"]>>
    BY <1>1, <2>1, <2>2
  <2>6. /\ minutes \in Nat /\ "m" \in {"s", "m", "h", "d"}
        /\ "m" # "d" => minutes <= AtMost["m"]
    BY <1>4, <2>4
  <2> QED
    BY <2>4, <2>5, <2>6, Fair, Zenon
<1>10. CASE days = 0 /\ inDay < 3600 /\ inHour < 60
  <2>1. d = <<>> /\ h = <<>> /\ m = <<>>
    BY <1>10, <1>2, <1>3, <1>4 DEF Piece
  <2>2. d \o h \o m = <<>>
    BY <2>1
  <2>3. s = <<[n |-> rest, unit |-> "s"]>>
    BY <2>2 DEF Piece
  <2> HIDE DEF d, h, m, s, Pieces
  <2>4. SubSeq(((d \o h) \o m) \o s, 1, 1) = s
    <3>1. ((d \o h) \o m) \o s = s
      <4>1. (d \o h) \o m = <<>>
        BY <2>2 DEF d, h, m
      <4> QED
        BY <1>6, <4>1, NothingBefore
    <3>2. Len(s) = 1 /\ SubSeq(s, 1, Len(s)) = s
      BY <1>6, <2>3, SubSeqFull
    <3> QED
      BY <3>1, <3>2
  <2>5. /\ rest * UnitSeconds["s"] <= seconds
        /\ seconds < (rest + 1) * UnitSeconds["s"]
        /\ rest <= AtMost["s"]
    BY <1>2, <1>3, <1>4, <1>10, Seconds
  <2>6. SubSeq(Hrt(seconds), 1, 1) = <<[n |-> rest, unit |-> "s"]>>
    BY <1>1, <2>3, <2>4
  <2>7. /\ rest \in Nat /\ "s" \in {"s", "m", "h", "d"}
        /\ "s" # "d" => rest <= AtMost["s"]
    BY <1>4, <2>5
  <2> QED
    BY <2>5, <2>6, <2>7, Fair, Zenon
<1> QED
  BY <1>2, <1>3, <1>4, <1>7, <1>8, <1>9, <1>10
\* What is shown was drawn of some report.
Drawn(u) ==
  Shown(u) =>
    \E current \in 0 .. upload[u].size, age \in Nat :
      /\ age >= TicksPerSecond
      /\ upload[u].picture = <<Picture(current, upload[u].size, age)>>

AllDrawn == \A u \in Under : Drawn(u)

\* A new upload shows nothing.
LEMMA Begun ==
  ASSUME IInv, NEW u \in Uploads, NEW size \in Sizes, Begin(u, size)
  PROVE  /\ upload'[u].picture = <<>>
         /\ \A v \in Uploads \ {u} :
              upload'[v].picture = upload[v].picture /\ upload'[v].size = upload[v].size
<1>1. \A v \in Uploads : upload[v] \in Upload
  BY DEF IInv, Types
<1>2. Idle \in Upload /\ Idle.picture = <<>>
  BY IdleUpload DEF Idle
<1>3. ASSUME NEW v \in Uploads \ {u}
      PROVE  upload'[v].picture = upload[v].picture /\ upload'[v].size = upload[v].size
  <2>1. upload'[v] = [upload[v] EXCEPT !.alone = FALSE] /\ upload[v] \in Upload
    BY <1>1 DEF Begin
  <2> QED
    BY <2>1 DEF Upload
<1>4. upload'[u].picture = <<>>
  BY DEF Begin, Idle
<1> QED
  BY <1>3, <1>4

\* A picture is drawn where the age is a second at least, of what was sent.
LEMMA Reported ==
  ASSUME IInv, AllDrawn, NEW u \in Uploads, NEW current \in Parts \cup {upload[u].size},
         Report(u, current)
  PROVE  AllDrawn'
<1> DEFINE shown == CanSend.yes /\ ~Young(u)
           said == [upload[u] EXCEPT !.current = current, !.reported = TRUE]
           drawn == <<Picture(current, upload[u].size, Age(u))>>
           new == IF shown THEN [said EXCEPT !.silent = now, !.picture = drawn] ELSE said
<1>1. /\ u \in Under /\ current <= upload[u].size
      /\ upload' = [upload EXCEPT ![u] = new]
  BY DEF Report
<1>2. /\ upload \in [Uploads -> Upload] /\ upload[u] \in Upload /\ current \in Nat
      /\ upload[u].size \in Nat
  BY Constants DEF IInv, Types, Upload
<1>3. new.size = upload[u].size /\ new.picture = IF shown THEN drawn ELSE upload[u].picture
  <2> HIDE DEF shown, drawn
  <2> QED
    BY <1>2 DEF Upload
<1>4. current \in 0 .. upload[u].size
  BY <1>1, <1>2
<1>5. shown => Age(u) \in Nat /\ Age(u) >= TicksPerSecond
  <2>1. now \in Nat /\ upload[u].start \in Nat
    BY <1>2 DEF IInv, Types, Upload
  <2> QED
    BY <2>1, Constants DEF Young, Age
<1> HIDE DEF new
<1>6. /\ upload'[u] = new /\ \A v \in Uploads \ {u} : upload'[v] = upload[v]
      /\ Under' = Under
  BY <1>1, <1>2, <1>3 DEF Under
<1> SUFFICES ASSUME NEW v \in Under', Shown(v)' PROVE Drawn(v)'
  BY DEF AllDrawn, Drawn
<1>7. CASE v = u /\ shown
  <2>1. upload'[v].picture = <<Picture(current, upload'[v].size, Age(u))>>
    BY <1>3, <1>6, <1>7
  <2>2. current \in 0 .. upload'[v].size
    BY <1>3, <1>4, <1>6, <1>7
  <2> HIDE DEF shown
  <2> QED
    BY <1>5, <1>7, <2>1, <2>2 DEF Drawn
<1>8. CASE ~(v = u /\ shown)
  <2>1. upload'[v].picture = upload[v].picture /\ upload'[v].size = upload[v].size
    BY <1>3, <1>6, <1>8 DEF Under
  <2>2. Drawn(v) /\ Shown(v)
    BY <1>6, <2>1 DEF AllDrawn, Shown
  <2> QED
    BY <2>1, <2>2 DEF Drawn, Shown
<1> QED
  BY <1>7, <1>8

\* Nothing else draws: what is under way after the step shows nothing, or what
\* it showed before it.
LEMMA NothingDrawn ==
  ASSUME AllDrawn,
         \A u \in Under' : \/ upload'[u].picture = <<>>
                           \/ /\ u \in Under /\ upload'[u].size = upload[u].size
                              /\ upload'[u].picture = upload[u].picture
  PROVE  AllDrawn'
<1> SUFFICES ASSUME NEW u \in Under', Shown(u)' PROVE Drawn(u)'
  BY DEF AllDrawn, Drawn
<1>1. /\ u \in Under /\ upload'[u].size = upload[u].size
      /\ upload'[u].picture = upload[u].picture
  BY DEF Shown
<1>2. Drawn(u) /\ Shown(u)
  BY <1>1 DEF AllDrawn, Shown
<1> QED
  BY <1>1, <1>2 DEF Drawn, Shown

LEMMA DrawnStep == IInv /\ AllDrawn /\ [Next]_vars => AllDrawn'
<1> SUFFICES ASSUME IInv, AllDrawn, [Next]_vars PROVE AllDrawn'
  OBVIOUS
<1>1. upload \in [Uploads -> Upload]
  BY DEF IInv, Types
<1>2. CASE UNCHANGED vars
  BY <1>2 DEF vars, AllDrawn, Drawn, Shown, Under
<1>3. CASE \E u \in Uploads, size \in Sizes : Begin(u, size)
  <2> PICK u \in Uploads, size \in Sizes : Begin(u, size)
    BY <1>3
  <2> QED
    BY Begun, NothingDrawn DEF Under
<1>4. CASE \E u \in Uploads : \E current \in Parts \cup {upload[u].size} : Report(u, current)
  BY <1>4, Reported
<1>5. ASSUME NEW u \in Uploads, Again(u) \/ End(u)
      PROVE  AllDrawn'
  <2>1. \A v \in Uploads \ {u} : upload'[v] = upload[v]
    BY <1>1, <1>5 DEF Again, End
  <2>2. \/ upload'[u].picture = <<>>
        \/ /\ u \in Under /\ upload'[u].size = upload[u].size
           /\ upload'[u].picture = upload[u].picture
    <3>1. CASE Again(u)
      BY <1>1, <3>1 DEF Again, Upload
    <3>2. CASE End(u)
      BY <1>1, <3>2 DEF End, Idle
    <3> QED
      BY <1>5, <3>1, <3>2
  <2>3. ASSUME NEW v \in Under'
        PROVE  \/ upload'[v].picture = <<>>
               \/ /\ v \in Under /\ upload'[v].size = upload[v].size
                  /\ upload'[v].picture = upload[v].picture
    BY <2>1, <2>2 DEF Under
  <2> QED
    BY <2>3, NothingDrawn
<1>6. CASE Tick
  <2>1. \A u \in Uploads :
          upload'[u].size = upload[u].size /\ upload'[u].picture = upload[u].picture
    <3> TAKE u \in Uploads
    <3>1. /\ upload[u] \in Upload
          /\ upload'[u] = [upload[u] EXCEPT !.reported = FALSE,
                                            !.steady = upload[u].steady /\ upload[u].reported]
      BY <1>1, <1>6 DEF Tick
    <3> QED
      BY <3>1 DEF Upload
  <2> QED
    BY <2>1, NothingDrawn DEF Under
<1>7. CASE Restart
  <2>1. \A u \in Uploads : upload'[u].picture = <<>>
    BY <1>7 DEF Restart, Idle
  <2> QED
    BY <2>1, NothingDrawn DEF Under
<1> QED
  BY <1>2, <1>3, <1>4, <1>5, <1>6, <1>7 DEF Next

LEMMA PicturesInvariance == Spec => [](IInv /\ AllDrawn)
<1>1. Init => AllDrawn
  <2>1. Init => Under = {}
    BY DEF Init, Under, Idle
  <2> QED
    BY <2>1 DEF AllDrawn
<1> QED
  BY <1>1, IInvInit, IInvStep, DrawnStep, PTL DEF Spec

\* What is known of a picture that is shown.
LEMMA Known ==
  ASSUME IInv, AllDrawn, NEW u \in Under, Shown(u)
  PROVE  /\ upload[u].size \in Nat \ {0}
         /\ \E current \in 0 .. upload[u].size, elapsed \in Nat \ {0} :
              /\ Last(u).current = current /\ Last(u).elapsed = elapsed
              /\ Last(u).cells = (current * 11) \div upload[u].size
              /\ Last(u).eta = IF current = 0 THEN <<>>
                               ELSE SubSeq(Hrt(SecondsLeft(current, upload[u].size, elapsed)), 1, 1)
<1>1. upload[u].size \in Nat \ {0}
  BY DEF IInv, Types, Under, Upload
<1>2. PICK current \in 0 .. upload[u].size, age \in Nat :
        /\ age >= TicksPerSecond
        /\ upload[u].picture = <<Picture(current, upload[u].size, age)>>
  BY DEF AllDrawn, Drawn
<1>3. Last(u) = Picture(current, upload[u].size, age)
  BY <1>2 DEF Last
<1>4. Round(age) \in Nat \ {0}
  BY <1>2, Rounded
<1>5. /\ Last(u).current = current /\ Last(u).elapsed = Round(age)
      /\ Last(u).cells = (current * 11) \div upload[u].size
      /\ Last(u).eta = IF current = 0 THEN <<>>
                       ELSE SubSeq(Hrt(SecondsLeft(current, upload[u].size, Round(age))), 1, 1)
  BY <1>3, <1>4 DEF Picture
<1> QED
  BY <1>1, <1>4, <1>5

\* A turn of the timer is not in the future, nor is anything shown before its
\* upload began; the speed is not divided by nothing, and the bar has eleven
\* cells (p_bar.py:34-38, 97-120).
THEOREM TypesCorrect == Spec => []TypeOK
<1>1. IInv /\ AllDrawn => TypeOK
  <2> SUFFICES ASSUME IInv, AllDrawn PROVE TypeOK
    OBVIOUS
  <2>1. now \in Nat /\ slot \in 0 .. now
    BY DEF IInv, Types
  <2>2. ASSUME NEW u \in Under
        PROVE  upload[u].start \in 0 .. now /\ upload[u].silent \in upload[u].start .. now
    <3>1. /\ upload[u] \in Upload
          /\ upload[u].start <= upload[u].silent /\ upload[u].silent <= now
      BY DEF IInv, Types, Under
    <3> QED
      BY <2>1, <3>1 DEF Upload
  <2>3. ASSUME NEW u \in Under, Shown(u)
        PROVE  Last(u).elapsed >= 1 /\ Last(u).cells \in 0 .. 11
    <3>1. PICK current \in 0 .. upload[u].size, elapsed \in Nat \ {0} :
            /\ Last(u).elapsed = elapsed
            /\ Last(u).cells = (current * 11) \div upload[u].size
      BY <2>3, Known
    <3>2. upload[u].size \in Nat \ {0}
      BY <2>3, Known
    <3>3. (current * 11) \div upload[u].size \in 0 .. 11
      BY <3>2, Cells
    <3> QED
      BY <3>1, <3>3
  <2> QED
    BY <2>1, <2>2, <2>3 DEF TypeOK
<1> QED
  BY <1>1, PicturesInvariance, PTL

\* The time left is in the largest unit there is one of, rounded down, and is
\* said if anything was sent; the bar is full for whole files only
\* (p_bar.py:58-86, 103-120).
THEOREM PicturesAreHonest == Spec => []PictureHonest
<1>1. IInv /\ AllDrawn => PictureHonest
  <2> SUFFICES ASSUME IInv, AllDrawn, NEW u \in Under, Shown(u)
               PROVE  LET p == Last(u)
                      IN  /\ p.cells = 11 <=> p.current = upload[u].size
                          /\ p.current = 0 <=> p.eta = <<>>
                          /\ p.current # 0 =>
                               LET piece == p.eta[1]
                                   left == SecondsLeft(p.current, upload[u].size, p.elapsed)
                               IN  /\ piece.n * UnitSeconds[piece.unit] <= left
                                   /\ left < (piece.n + 1) * UnitSeconds[piece.unit]
                                   /\ piece.unit # "d" => piece.n <= AtMost[piece.unit]
    BY DEF PictureHonest
  <2> DEFINE size == upload[u].size
             p == Last(u)
  <2>1. PICK current \in 0 .. size, elapsed \in Nat \ {0} :
          /\ p.current = current /\ p.elapsed = elapsed
          /\ p.cells = (current * 11) \div size
          /\ p.eta = IF current = 0 THEN <<>>
                     ELSE SubSeq(Hrt(SecondsLeft(current, size, elapsed)), 1, 1)
    BY Known
  <2>2. size \in Nat \ {0}
    BY Known
  <2> HIDE DEF p, size
  <2>3. p.cells = 11 <=> p.current = size
    BY <2>1, <2>2, Cells
  <2>4. ASSUME current # 0
        PROVE  /\ p.eta # <<>>
               /\ LET piece == p.eta[1]
                      left == SecondsLeft(p.current, size, p.elapsed)
                  IN  /\ piece.n * UnitSeconds[piece.unit] <= left
                      /\ left < (piece.n + 1) * UnitSeconds[piece.unit]
                      /\ piece.unit # "d" => piece.n <= AtMost[piece.unit]
    <3> DEFINE left == SecondsLeft(current, size, elapsed)
    <3>1. left \in Nat
      <4>1. current \in Nat \ {0} /\ size - current \in Nat
        BY <2>2, <2>4
      <4>2. (size - current) * elapsed \in Nat
        BY <4>1
      <4> QED
        BY <4>1, <4>2, Quotient DEF SecondsLeft
    <3> HIDE DEF left
    <3>2. FirstIsFair(Hrt(left), left)
      BY <3>1, FirstPiece
    <3>3. PICK n \in Nat, unit \in DOMAIN UnitSeconds :
            /\ SubSeq(Hrt(left), 1, 1) = <<[n |-> n, unit |-> unit]>>
            /\ n * UnitSeconds[unit] <= left /\ left < (n + 1) * UnitSeconds[unit]
            /\ unit # "d" => n <= AtMost[unit]
      BY <3>2 DEF FirstIsFair
    <3>4. p.eta = <<[n |-> n, unit |-> unit]>>
      BY <2>1, <2>4, <3>3 DEF left
    <3>5. p.eta # <<>> /\ p.eta[1].n = n /\ p.eta[1].unit = unit
      BY <3>4
    <3>6. SecondsLeft(p.current, size, p.elapsed) = left
      BY <2>1 DEF left
    <3> QED
      BY <3>3, <3>5, <3>6
  <2>5. p.current = 0 <=> p.eta = <<>>
    BY <2>1, <2>4
  <2> QED
    BY <2>1, <2>3, <2>4, <2>5 DEF p, size
<1> QED
  BY <1>1, PicturesInvariance, PTL
=============================================================================
