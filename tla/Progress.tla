------------------------------ MODULE Progress ------------------------------
(***************************************************************************)
(* progress_bar of p_bar.py, which pyrogram calls for every part of a file *)
(* it has sent, and the one Timer that all uploads of the process share.   *)
(* What is shown is the number of full cells and the time left.            *)
(***************************************************************************)
EXTENDS Integers, Sequences

CONSTANTS
  Uploads,           \* slots for uploads under way
  Sizes,             \* the sizes of files
  Parts,             \* how much of a file may have been sent; the whole also may
  TicksPerSecond,    \* resolution of the clock
  TimeBetween,       \* ticks; Timer's time_between
  MaxTime            \* bound: the clock stops here

\* With a shorter time between than a second, a young upload need not wait.
ASSUME ProgressAssumption ==
  /\ Sizes \subseteq Nat \ {0} /\ Parts \subseteq Nat /\ MaxTime \in Nat
  /\ TicksPerSecond \in Nat \ {0} /\ TimeBetween \in Nat /\ TimeBetween >= TicksPerSecond

VARIABLES
  now,
  slot,      \* Timer.start_time
  upload     \* what each slot is doing

vars == <<now, slot, upload>>

-----------------------------------------------------------------------------
(* What is shown.                                                          *)

\* p_bar.py:58-86, for whole seconds: the pieces, largest unit first.
Piece(n, unit, shown) == IF shown THEN <<[n |-> n, unit |-> unit]>> ELSE <<>>
Hrt_StrictHour(seconds) ==
  LET days == seconds \div 86400
      inDay == seconds % 86400
      hours == IF inDay > 3600 THEN inDay \div 3600 ELSE 0
      inHour == inDay - hours * 3600
      larger == Piece(days, "d", days # 0) \o Piece(hours, "h", hours # 0)
                  \o Piece(inHour \div 60, "m", inHour >= 60)
  IN  larger \o Piece(inHour % 60, "s", inHour % 60 > 0 \/ larger = <<>>)
Hrt(seconds) ==
  LET days == seconds \div 86400
      inDay == seconds % 86400
      inHour == inDay % 3600
      larger == Piece(days, "d", days # 0)
                  \o Piece(inDay \div 3600, "h", inDay >= 3600)
                  \o Piece(inHour \div 60, "m", inHour >= 60)
  IN  larger \o Piece(inHour % 60, "s", inHour % 60 > 0 \/ larger = <<>>)

\* round(), which takes halves to the even side (p_bar.py:102).
Round(ticks) ==
  LET q == ticks \div TicksPerSecond
      r == 2 * (ticks % TicksPerSecond)
  IN  IF r < TicksPerSecond \/ (r = TicksPerSecond /\ q % 2 = 0) THEN q ELSE q + 1

\* p_bar.py:100-118; eta is empty where nothing was sent.
SecondsLeft(current, total, elapsed) == ((total - current) * elapsed) \div current
Picture(current, total, age) ==
  [current |-> current, elapsed |-> Round(age),
   cells |-> (current * 11) \div total,
   eta |-> IF current = 0 \/ Round(age) = 0 THEN <<>>
           ELSE SubSeq(Hrt(SecondsLeft(current, total, Round(age))), 1, 1)]

-----------------------------------------------------------------------------
(* Uploads.                                                                *)

\* silent: since when nothing new was shown. alone: no other upload has been
\* under way since this one began. reported: in this tick; steady: in every
\* tick so far.
Idle == [size |-> 0, start |-> 0, current |-> 0, picture |-> <<>>, silent |-> 0,
         alone |-> FALSE, reported |-> FALSE, steady |-> FALSE]

Under == {u \in Uploads : upload[u].size # 0}
Age(u) == now - upload[u].start

\* p_bar.py:34-38.
CanSend_Sliding ==
  [yes |-> now > slot + TimeBetween, slot |-> now]
CanSend ==
  [yes |-> now > slot + TimeBetween,
   slot |-> IF now > slot + TimeBetween THEN now ELSE slot]

\* helper.py:219-222: the upload begins, and its clock with it.
Begin(u, size) ==
  /\ u \notin Under
  /\ upload' = [v \in Uploads |->
       IF v = u THEN [Idle EXCEPT !.size = size, !.start = now, !.silent = now,
                                  !.alone = (Under = {}), !.steady = TRUE]
       ELSE [upload[v] EXCEPT !.alone = FALSE]]
  /\ UNCHANGED <<now, slot>>

\* p_bar.py:97-98.
Young_HalfSecond(u) == 2 * Age(u) < TicksPerSecond
Young(u) == Age(u) < TicksPerSecond

\* p_bar.py:93-123: a turn of the timer is taken by whoever asks first after
\* its time, and is lost on an upload younger than a second.
Report(u, current) ==
  LET shown == CanSend.yes /\ ~Young(u)
      said == [upload[u] EXCEPT !.current = current, !.reported = TRUE]
  IN  /\ u \in Under
      /\ upload[u].current <= current /\ current <= upload[u].size
      /\ slot' = CanSend.slot
      /\ upload' = [upload EXCEPT ![u] =
           IF shown
           THEN [said EXCEPT !.silent = now,
                   !.picture = <<Picture(current, upload[u].size, Age(u))>>]
           ELSE said]
      /\ UNCHANGED now

\* A video that cannot be sent is sent again as a document, on the same clock;
\* the turn of the timer goes too if the reason was a pause that Telegram asked
\* for, which p_bar.py:125-126 fail to make: a FloodWait has no x
\* (helper.py:221-224).
Again(u) ==
  /\ u \in Under
  /\ upload' = [upload EXCEPT ![u].current = 0, ![u].steady = FALSE]
  /\ slot' \in {slot, CanSend.slot}
  /\ UNCHANGED now

\* The file is sent, or sending it fails.
End(u) ==
  /\ u \in Under
  /\ upload' = [upload EXCEPT ![u] = Idle]
  /\ slot' \in {slot, CanSend.slot}
  /\ UNCHANGED now

Tick ==
  /\ now < MaxTime
  /\ now' = now + 1
  /\ upload' = [u \in Uploads |->
       [upload[u] EXCEPT !.reported = FALSE,
                         !.steady = upload[u].steady /\ upload[u].reported]]
  /\ UNCHANGED slot

\* The process is replaced; the timer starts with it.
Restart ==
  /\ slot' = now
  /\ upload' = [u \in Uploads |-> Idle]
  /\ UNCHANGED now

Init == now = 0 /\ slot = 0 /\ upload = [u \in Uploads |-> Idle]

Next ==
  \/ \E u \in Uploads :
       \/ \E size \in Sizes : Begin(u, size)
       \/ \E current \in Parts \cup {upload[u].size} : Report(u, current)
       \/ Again(u) \/ End(u)
  \/ Tick \/ Restart

Spec == Init /\ [][Next]_vars

-----------------------------------------------------------------------------
(* Properties.                                                             *)

Shown(u) == upload[u].picture # <<>>
Last(u) == upload[u].picture[1]

\* Types: at least one second has elapsed when the speed is divided by it,
\* although the age is rounded (p_bar.py:97-102), and there are eleven cells.
TypeOK ==
  /\ now \in Nat /\ slot \in 0 .. now
  /\ \A u \in Under :
       /\ upload[u].start \in 0 .. now /\ upload[u].silent \in upload[u].start .. now
       /\ Shown(u) => Last(u).elapsed >= 1 /\ Last(u).cells \in 0 .. 11

\* An upload that is alone and reports all the time is shown at least once in
\* TimeBetween and a second, though its first turn may be lost on its youth
\* and the turn before on another upload (p_bar.py:34-38, 94-98).
LoneUploadShown ==
  \A u \in Under :
    (upload[u].alone /\ upload[u].steady) =>
      now - upload[u].silent <= TimeBetween + TicksPerSecond

UnitSeconds == [s |-> 1, m |-> 60, h |-> 3600, d |-> 86400]
AtMost == [s |-> 59, m |-> 59, h |-> 23]

\* The single piece of the time left is in the largest unit there is one of,
\* rounded down: it never promises more than it, nor a whole unit less; the
\* bar is full for whole files only (p_bar.py:58-86, 103-120).
PictureHonest ==
  \A u \in Under : Shown(u) =>
    LET p == Last(u)
    IN  /\ p.cells = 11 <=> p.current = upload[u].size
        /\ p.current = 0 <=> p.eta = <<>>
        /\ p.current # 0 =>
             LET piece == p.eta[1]
                 left == SecondsLeft(p.current, upload[u].size, p.elapsed)
             IN  /\ piece.n * UnitSeconds[piece.unit] <= left
                 /\ left < (piece.n + 1) * UnitSeconds[piece.unit]
                 /\ piece.unit # "d" => piece.n <= AtMost[piece.unit]
=============================================================================
