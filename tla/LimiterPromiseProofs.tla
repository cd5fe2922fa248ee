------------------------ MODULE LimiterPromiseProofs ------------------------
(***************************************************************************)
(* What the limiter promises, for every number of addresses, identifiers,  *)
(* attempts and entries, and every length of the windows: it implements    *)
(* the windows of FixedWindow, it grants no more than twice the limit less *)
(* one across the border of two of them, and a client that it refuses is   *)
(* told when to come back. The three rest on the invariant of              *)
(* RateLimiterProofs, of which the first uses most: the limiter and        *)
(* FixedWindow differ in when a closed window goes, at once there, with    *)
(* the next call here, and an entry of the dict counts as long as its      *)
(* window is open.                                                         *)
(***************************************************************************)
EXTENDS RateLimiterLedger, RetryAfter, RateLimiterProofs

Used == [k \in Keys |-> CountOf(k)]
Closes == [k \in Keys |-> CloseOf(k)]

\* Counts and closing times of the open windows are positive, all others zero.
LEMMA OpenWindows ==
  ASSUME TypeOK
  PROVE  /\ now \in Nat /\ Live(now) \subseteq Keys
         /\ \A k \in Live(now) :
              /\ Used[k] = counters[k].count /\ Closes[k] = counters[k].expires_at
              /\ Used[k] \in Nat \ {0} /\ Closes[k] \in Nat /\ Closes[k] > now
         /\ \A k \in Keys \ Live(now) : Used[k] = 0 /\ Closes[k] = 0
BY LiveType DEF TypeOK, Used, Closes, CountOf, CloseOf, Counter

\* After a call the entries of the dict are the open windows.
LEMMA AllOpen ==
  ASSUME DOMAIN counters' \subseteq Keys,
         \A k \in DOMAIN counters' : counters'[k].expires_at > now'
  PROVE  /\ Used' = [k \in Keys |-> IF k \in DOMAIN counters' THEN counters'[k].count ELSE 0]
         /\ Closes' = [k \in Keys |-> IF k \in DOMAIN counters'
                                      THEN counters'[k].expires_at ELSE 0]
BY DEF Used, Closes, CountOf, CloseOf, Live

-----------------------------------------------------------------------------
(* An attempt.                                                             *)

\* What both counters are charged, and the other entries of the dict.
LEMMA ChargedWindows ==
  ASSUME IInv, NEW ip \in Ips, NEW id \in Identifiers, NEW k \in Keys
  PROVE  LET entries == Charged(ip, id)
             charged == KeysOf(ip, id)
             u == IF k \in charged THEN Used[k] + 1 ELSE Used[k]
         IN  /\ k \in DOMAIN entries <=> u > 0
             /\ k \in DOMAIN entries =>
                  /\ entries[k].count = u
                  /\ entries[k].expires_at =
                       IF u = 1 /\ k \in charged THEN now + Window ELSE Closes[k]
                  /\ entries[k].expires_at > now
             /\ k \in charged => k \in DOMAIN entries /\ entries[k] = ConsumeKey(k)
<1>1. /\ TypeOK /\ WindowBound /\ now \in Nat /\ Live(now) \subseteq Keys
      /\ \A j \in Live(now) :
           /\ Used[j] = counters[j].count /\ Closes[j] = counters[j].expires_at
           /\ Used[j] \in Nat \ {0} /\ Closes[j] \in Nat /\ Closes[j] > now
      /\ \A j \in Keys \ Live(now) : Used[j] = 0 /\ Closes[j] = 0
      /\ Window \in Nat \ {0}
  BY OpenWindows, WindowType DEF IInv
<1>2. k \in DOMAIN Charged(ip, id) <=> k \in Live(now) \/ k \in KeysOf(ip, id)
  BY DEF Charged
<1>3. CASE k \in KeysOf(ip, id)
  <2>1. Charged(ip, id)[k] = ConsumeKey(k)
    BY <1>3 DEF Charged
  <2>2. CASE k \in Live(now)
    <3>1. ConsumeKey(k).expires_at = Closes[k] /\ ConsumeKey(k).count = Used[k] + 1
      BY <1>1, <2>2, ConsumeKeyType
    <3> QED
      BY <1>1, <1>2, <1>3, <2>1, <2>2, <3>1
  <2>3. CASE k \notin Live(now)
    <3>1. ConsumeKey(k) = [count |-> 1, expires_at |-> now + Window]
      BY <2>3 DEF ConsumeKey
    <3> QED
      BY <1>1, <1>2, <1>3, <2>1, <2>3, <3>1
  <2> QED
    BY <2>2, <2>3
<1>4. CASE k \notin KeysOf(ip, id)
  <2>1. k \in Live(now) => Charged(ip, id)[k] = counters[k]
    BY <1>4 DEF Charged
  <2> QED
    BY <1>1, <1>2, <1>4, <2>1
<1> QED
  BY <1>3, <1>4

\* consume() allows an attempt when neither charged counter exceeds its limit.
LEMMA AllowedMeans ==
  ASSUME NEW ip \in Ips, NEW id \in Identifiers,
         \A k \in KeysOf(ip, id) : ConsumeKey(k).count \in Nat /\ Limit(k) \in Nat
  PROVE  Allowed(ip, id) <=> \A k \in KeysOf(ip, id) : ConsumeKey(k).count <= Limit(k)
<1> DEFINE beyond == {k \in KeysOf(ip, id) : ConsumeKey(k).count > Limit(k)}
<1>1. Allowed(ip, id) <=> beyond = {}
  BY Zenon DEF Allowed, Waits
<1>2. beyond = {} <=> \A k \in KeysOf(ip, id) : ~(ConsumeKey(k).count > Limit(k))
  OBVIOUS
<1> HIDE DEF beyond
<1> QED
  BY <1>1, <1>2

\* The cardinality of FixedWindow is that of this module.
LEMMA SameCardinality == \A S : Abstract!Cardinality(S) = Cardinality(S)
BY DEF Abstract!Cardinality, Cardinality

LEMMA AttemptRefines ==
  ASSUME IInv, NEW ip \in Ips, NEW id \in Identifiers,
         Consume(ip, id), allowed' = Allowed(ip, id)
  PROVE  Abstract!Attempt(ip, id)
<1> DEFINE charged == {<<"ip", ip>>, <<"id", id>>}
           entries == Charged(ip, id)
           order == ChargedOrder(ip, id)
           u == [k \in Keys |-> IF k \in charged THEN Used[k] + 1 ELSE Used[k]]
           c == [k \in Keys |-> IF u[k] = 1 /\ k \in charged THEN now + Window ELSE Closes[k]]
           open == {k \in Keys : u[k] > 0}
<1>1. PICK out \in Oldest(entries, order, Overflow(entries)) :
        /\ counters' = [k \in DOMAIN entries \ out |-> entries[k]]
        /\ now' = now
  BY DEF Consume
<1>2. charged = KeysOf(ip, id) /\ charged \subseteq Keys
  BY KeysOfType DEF KeysOf, IpKey, IdentifierKey
<1>3. \A k \in Keys :
        /\ k \in DOMAIN entries <=> u[k] > 0
        /\ k \in DOMAIN entries =>
             /\ entries[k].count = u[k] /\ entries[k].expires_at = c[k]
             /\ entries[k].expires_at > now
        /\ k \in charged => k \in DOMAIN entries /\ entries[k] = ConsumeKey(k)
  BY <1>2, ChargedWindows
<1>4. /\ DOMAIN entries \subseteq Keys /\ IsFiniteSet(DOMAIN entries)
      /\ \A k \in DOMAIN entries : entries[k] \in Counter
      /\ Sorted(entries, order) /\ Total(order, DOMAIN entries)
  BY ChargedOK
<1> HIDE DEF entries, order, u, c
<1>5. open = DOMAIN entries
  BY <1>3, <1>4
<1>6. /\ out \subseteq DOMAIN entries
      /\ Cardinality(DOMAIN entries \ out) <= MaxEntries
      /\ out # {} => Cardinality(DOMAIN entries \ out) = MaxEntries
      /\ \A k \in out, j \in DOMAIN entries \ out : Before(entries, order, k, j)
  BY <1>4, OldestLeaves
<1>7. \A k \in out, j \in open \ out : c[k] <= c[j]
  <2> SUFFICES ASSUME NEW k \in out, NEW j \in DOMAIN entries \ out
               PROVE  entries[k].expires_at <= entries[j].expires_at
    BY <1>3, <1>4, <1>5, <1>6
  <2>1. /\ entries[k].expires_at \in Nat /\ entries[j].expires_at \in Nat
        /\ Before(entries, order, k, j)
    BY <1>4, <1>6 DEF Counter
  <2> QED
    BY <2>1 DEF Before
<1>8. DOMAIN counters' = DOMAIN entries \ out
  BY <1>1
<1>9. /\ Used' = [k \in Keys |-> IF k \in out THEN 0 ELSE u[k]]
      /\ Closes' = [k \in Keys |-> IF k \in out THEN 0 ELSE c[k]]
  <2>1. \A k \in DOMAIN counters' : counters'[k] = entries[k]
    BY <1>1
  <2>2. /\ Used' = [k \in Keys |-> IF k \in DOMAIN counters' THEN counters'[k].count ELSE 0]
        /\ Closes' = [k \in Keys |-> IF k \in DOMAIN counters'
                                     THEN counters'[k].expires_at ELSE 0]
    BY <1>1, <1>3, <1>4, <1>8, <2>1, AllOpen
  <2>3. \A k \in Keys \ DOMAIN entries : u[k] = 0 /\ c[k] = 0
    <3> SUFFICES ASSUME NEW k \in Keys \ DOMAIN entries PROVE u[k] = 0 /\ c[k] = 0
      OBVIOUS
    <3>1. k \notin charged /\ k \notin Live(now)
      BY <1>3 DEF entries, Charged
    <3>2. Used[k] = 0 /\ Closes[k] = 0
      BY <3>1, OpenWindows DEF IInv
    <3> QED
      BY <3>1, <3>2 DEF u, c
  <2> QED
    BY <1>3, <1>4, <1>6, <1>8, <2>1, <2>2, <2>3
<1>10. allowed' = (\A k \in charged : u[k] <= Limit(k))
  <2>1. \A k \in charged : ConsumeKey(k).count = u[k] /\ u[k] \in Nat
    BY <1>2, <1>3, <1>4 DEF Counter
  <2>2. \A k \in charged : Limit(k) \in Nat
    BY LimiterAssumption DEF Limit
  <2>3. Allowed(ip, id) <=> \A k \in charged : u[k] <= Limit(k)
    BY <1>2, <2>1, <2>2, AllowedMeans
  <2>4. Allowed(ip, id) \in BOOLEAN
    BY DEF Allowed
  <2> QED
    BY <2>3, <2>4
<1>11. /\ Abstract!Keys = Keys /\ \A k : Abstract!Limit(k) = Limit(k)
       /\ Abstract!Open(u) = open
       /\ out \in SUBSET open
  BY <1>5, <1>6 DEF Abstract!Keys, Keys, Abstract!Limit, Limit, Abstract!Open
<1>12. Abstract!Become(u, c, out)
  BY <1>9, <1>11 DEF Abstract!Become, Used, Closes
<1> HIDE DEF charged, open
<1>13. \E gone \in SUBSET open :
         /\ \A k \in gone, j \in open \ gone : c[k] <= c[j]
         /\ gone # {} => Cardinality(open \ gone) = MaxEntries
         /\ Cardinality(open \ gone) <= MaxEntries
         /\ Abstract!Become(u, c, gone)
  BY <1>5, <1>6, <1>7, <1>11, <1>12
<1> DEFINE ua == [k \in Abstract!Keys |-> IF k \in charged THEN Used[k] + 1 ELSE Used[k]]
           ca == [k \in Abstract!Keys |-> IF ua[k] = 1 /\ k \in charged
                                          THEN now + Window ELSE Closes[k]]
<1>14. ua = u /\ ca = c
  BY <1>11 DEF u, c
<1>15. /\ allowed' = (\A k \in charged : ua[k] <= Abstract!Limit(k))
       /\ \E gone \in SUBSET Abstract!Open(ua) :
            /\ \A k \in gone, j \in Abstract!Open(ua) \ gone : ca[k] <= ca[j]
            /\ gone # {} => Abstract!Cardinality(Abstract!Open(ua) \ gone) = MaxEntries
            /\ Abstract!Cardinality(Abstract!Open(ua) \ gone) <= MaxEntries
            /\ Abstract!Become(ua, ca, gone)
       /\ now' = now
  <2> HIDE DEF ua, ca
  <2> QED
    BY <1>1, <1>10, <1>11, <1>13, <1>14, SameCardinality
<1> QED
  BY <1>15, Zenon DEF Abstract!Attempt, charged, Used, Closes

-----------------------------------------------------------------------------
(* The other steps.                                                        *)

LEMMA ForgettingRefines ==
  ASSUME IInv, UNCHANGED allowed
  PROVE  /\ \A id \in Identifiers : ClearIdentifier(id) => Abstract!Forgive(id)
         /\ ForgetAll => Abstract!ForgetAll
<1>1. /\ TypeOK /\ Abstract!Keys = Keys
  BY DEF IInv, Abstract!Keys, Keys
<1>2. ASSUME NEW id \in Identifiers, ClearIdentifier(id) PROVE Abstract!Forgive(id)
  <2>1. /\ now' = now /\ DOMAIN counters' = DOMAIN counters \ {IdentifierKey(id)}
        /\ \A k \in DOMAIN counters' : counters'[k] = counters[k]
    BY <1>2 DEF ClearIdentifier
  <2>2. Live(now)' = Live(now) \ {IdentifierKey(id)}
    BY <2>1 DEF Live
  <2>3. \A k \in Keys :
          /\ CountOf(k)' = IF k = IdentifierKey(id) THEN 0 ELSE CountOf(k)
          /\ CloseOf(k)' = IF k = IdentifierKey(id) THEN 0 ELSE CloseOf(k)
    BY <2>1, <2>2 DEF CountOf, CloseOf, Live
  <2>4. Abstract!Become(Used, Closes, {<<"id", id>>})
    BY <1>1, <2>3 DEF Abstract!Become, Used, Closes, IdentifierKey
  <2> QED
    BY <2>1, <2>4 DEF Abstract!Forgive, Used, Closes
<1>3. ASSUME ForgetAll PROVE Abstract!ForgetAll
  <2>1. now' = now /\ Live(now)' = {}
    BY <1>3 DEF ForgetAll, Live
  <2>2. \A k \in Keys : CountOf(k)' = 0 /\ CloseOf(k)' = 0
    BY <2>1 DEF CountOf, CloseOf
  <2>3. Abstract!Become(Used, Closes, Keys)
    BY <1>1, <2>2 DEF Abstract!Become, Used, Closes
  <2> QED
    BY <1>1, <2>1, <2>3 DEF Abstract!ForgetAll, Used, Closes
<1> QED
  BY <1>2, <1>3

\* When the clock moves, windows close; the dict keeps their entries.
LEMMA TickRefines ==
  ASSUME IInv, Tick, UNCHANGED allowed
  PROVE  Abstract!Advance
<1> DEFINE gone == {k \in Keys : Closes[k] <= now'}
<1>1. /\ TypeOK /\ Abstract!Keys = Keys
      /\ now' = now + 1 /\ counters' = counters /\ now \in Nat
  BY DEF IInv, TypeOK, Tick, Abstract!Keys, Keys
<1>2. Live(now)' \subseteq Live(now)
  BY <1>1 DEF TypeOK, Live, Counter
<1>3. \A k \in Keys :
        /\ Used'[k] = IF k \in gone THEN 0 ELSE Used[k]
        /\ Closes'[k] = IF k \in gone THEN 0 ELSE Closes[k]
  <2> SUFFICES ASSUME NEW k \in Keys
               PROVE  /\ Used'[k] = IF k \in gone THEN 0 ELSE Used[k]
                      /\ Closes'[k] = IF k \in gone THEN 0 ELSE Closes[k]
    OBVIOUS
  <2>1. /\ Used'[k] = IF k \in Live(now)' THEN counters[k].count ELSE 0
        /\ Closes'[k] = IF k \in Live(now)' THEN counters[k].expires_at ELSE 0
    BY <1>1 DEF Used, Closes, CountOf, CloseOf
  <2>2. CASE k \in Live(now)
    <3>1. Used[k] = counters[k].count /\ Closes[k] = counters[k].expires_at
      BY <1>1, <2>2, OpenWindows
    <3>2. k \in Live(now)' <=> ~(Closes[k] <= now')
      BY <1>1, <2>2, <3>1, OpenWindows DEF Live
    <3> QED
      BY <2>1, <3>1, <3>2
  <2>3. CASE k \notin Live(now)
    BY <1>1, <1>2, <2>1, <2>3, OpenWindows
  <2> QED
    BY <2>2, <2>3
<1>4. Abstract!Become(Used, Closes, gone)
  BY <1>1, <1>3 DEF Abstract!Become, Used, Closes
<1> QED
  BY <1>1, <1>4 DEF Abstract!Advance, Used, Closes

LEMMA WindowInit == LedgerInit => Abstract!Init
BY DEF LedgerInit, LimiterInit, CountOf, CloseOf, Live, Abstract!Init, Abstract!Keys, Keys

LEMMA WindowStep ==
  IInv /\ [LedgerNext]_ledgerVars => [Abstract!Next]_(Abstract!vars)
<1> SUFFICES ASSUME IInv, [LedgerNext]_ledgerVars
             PROVE  [Abstract!Next]_(Abstract!vars)
  OBVIOUS
<1>1. ASSUME NEW ip \in Ips, NEW id \in Identifiers, LedgerConsume(ip, id)
      PROVE  Abstract!Next
  BY <1>1, AttemptRefines DEF LedgerConsume, Abstract!Next
<1>2. ASSUME NEW id \in Identifiers, LedgerClear(id) PROVE Abstract!Next
  BY <1>2, ForgettingRefines DEF LedgerClear, Abstract!Next
<1>3. CASE LedgerTick
  BY <1>3, TickRefines DEF LedgerTick, Abstract!Next
<1>4. CASE LedgerForgetAll
  BY <1>4, ForgettingRefines DEF LedgerForgetAll, Abstract!Next
<1>5. CASE UNCHANGED ledgerVars
  BY <1>5 DEF ledgerVars, limiterVars, Abstract!vars, CountOf, CloseOf, Live
<1> QED
  BY <1>1, <1>2, <1>3, <1>4, <1>5 DEF LedgerNext

\* The history that the ledger keeps disturbs the limiter in nothing.
LEMMA LedgerInvariance == LedgerSpec => []IInv
<1>1. LedgerInit => IInv
  BY InitIInv DEF LedgerInit
<1>2. IInv /\ [LedgerNext]_ledgerVars => IInv'
  <2>1. [LedgerNext]_ledgerVars => [LimiterNext]_limiterVars
    BY DEF LedgerNext, ledgerVars, LimiterNext, LedgerConsume, LedgerClear, LedgerTick,
           LedgerForgetAll
  <2> QED
    BY <2>1, NextIInv
<1> QED
  BY <1>1, <1>2, PTL DEF LedgerSpec

\* The lazily pruned dict with its insertion order and its overflow sort gives
\* every key one window that opens with an attempt, closes on time and is
\* charged for each attempt, and consume() decides by them
\* (rate_limit.py:54-111).
THEOREM LimiterImplementsWindows == LedgerSpec => ImplementsFixedWindow
BY WindowInit, WindowStep, LedgerInvariance, PTL
   DEF LedgerSpec, ImplementsFixedWindow, Abstract!Spec
-----------------------------------------------------------------------------
(* What is granted across the border of two windows.                       *)
(*                                                                         *)
(* Of an open window the bound needs that no more was granted in it than   *)
(* it was charged, that one less was granted after the tick at which it    *)
(* opened, and that what was granted before that tick, and is not a window *)
(* old yet, falls short of the limit. The second hands the third on to the *)
(* next window: the attempt that opened a window is too old when it closes.*)

Since(grants, t) == {g \in grants : g.at >= t}
Until(grants, t) == {g \in grants : g.at < t}

OpenShare(grants, limit, count, opened) ==
  LET most == IF count <= limit THEN count ELSE limit
  IN  /\ Cardinality(Since(grants, opened)) <= most
      /\ Cardinality(Since(grants, opened + 1)) <= most - 1
      /\ Cardinality(Until(grants, opened)) <= limit - 1

ClosedShare(grants, limit, t) ==
  /\ Cardinality(grants) <= limit - 1
  /\ \A g \in grants : g.at < t

Shares ==
  \A k \in Keys :
    IF k \in Live(now)
    THEN OpenShare(granted[k], Limit(k), counters[k].count, counters[k].expires_at - Window)
    ELSE ClosedShare(granted[k], Limit(k), now)

GrantType ==
  /\ DOMAIN granted = Keys
  /\ \A k \in Keys :
       /\ IsFiniteSet(granted[k])
       /\ \A g \in granted[k] : g.at \in Nat /\ g.at <= now

\* The numbers tell all the attempts of one tick apart: the history counts
\* each of them.
ToldApart ==
  \A k \in Keys : \A g \in granted[k] :
    g.nth \in 1 .. Cardinality({h \in granted[k] : h.at = g.at})

LInv == GrantType /\ Shares /\ ToldApart

\* Parts of a history.
LEMMA PartsOfHistory ==
  ASSUME NEW grants, IsFiniteSet(grants), NEW t \in Int,
         \A g \in grants : g.at \in Int
  PROVE  /\ IsFiniteSet(Since(grants, t)) /\ Cardinality(Since(grants, t)) \in Nat
         /\ IsFiniteSet(Until(grants, t)) /\ Cardinality(Until(grants, t)) \in Nat
         /\ Cardinality(grants) \in Nat
         /\ Cardinality(grants) <= Cardinality(Since(grants, t)) + Cardinality(Until(grants, t))
<1>1. /\ Since(grants, t) \in SUBSET grants /\ Until(grants, t) \in SUBSET grants
      /\ Since(grants, t) \cap Until(grants, t) = {}
      /\ grants = Since(grants, t) \cup Until(grants, t)
  BY DEF Since, Until
<1>2. IsFiniteSet(Since(grants, t)) /\ IsFiniteSet(Until(grants, t))
  BY <1>1, FS_Subset
<1>3. Cardinality(grants) = Cardinality(Since(grants, t)) + Cardinality(Until(grants, t))
                              - Cardinality(Since(grants, t) \cap Until(grants, t))
  BY <1>1, <1>2, FS_Union
<1>4. Cardinality(Since(grants, t) \cap Until(grants, t)) = 0
  BY <1>1, FS_EmptySet
<1> QED
  BY <1>2, <1>3, <1>4, FS_CardinalityType

\* A shorter history grants no more.
LEMMA LessOfHistory ==
  ASSUME NEW grants, IsFiniteSet(grants), NEW t \in Int,
         \A g \in grants : g.at \in Int, NEW some \in SUBSET grants
  PROVE  /\ IsFiniteSet(some)
         /\ Cardinality(some) <= Cardinality(grants)
         /\ Cardinality(Since(some, t)) <= Cardinality(Since(grants, t))
         /\ Cardinality(Until(some, t)) <= Cardinality(Until(grants, t))
<1>1. /\ Since(some, t) \in SUBSET Since(grants, t)
      /\ Until(some, t) \in SUBSET Until(grants, t)
  BY DEF Since, Until
<1> QED
  BY <1>1, FS_Subset, PartsOfHistory

LEMMA AtMostOneMore ==
  ASSUME NEW S, NEW x, IsFiniteSet(S)
  PROVE  Cardinality(S \cup {x}) \in Nat /\ Cardinality(S \cup {x}) <= Cardinality(S) + 1
<1>1. IsFiniteSet(S \cup {x}) /\ Cardinality(S) \in Nat
  BY FS_AddElement, FS_CardinalityType
<1>2. Cardinality(S \cup {x}) = IF x \in S THEN Cardinality(S) ELSE Cardinality(S) + 1
  BY FS_AddElement
<1> QED
  BY <1>1, <1>2

\* One more attempt in an open window: refused, or allowed within the limit.
LEMMA OpenGoesOn ==
  ASSUME NEW grants, IsFiniteSet(grants), \A g \in grants : g.at \in Int,
         NEW limit \in Nat, NEW count \in Nat, NEW opened \in Int,
         OpenShare(grants, limit, count, opened),
         NEW more, NEW g, g.at \in Int, g.at >= opened,
         more = grants \/ (more = grants \cup {g} /\ count + 1 <= limit)
  PROVE  OpenShare(more, limit, count + 1, opened)
<1>1. /\ Cardinality(Since(grants, opened)) \in Nat
      /\ Cardinality(Since(grants, opened + 1)) \in Nat
      /\ Cardinality(Until(grants, opened)) \in Nat
      /\ IsFiniteSet(Since(grants, opened)) /\ IsFiniteSet(Since(grants, opened + 1))
  BY PartsOfHistory
<1>2. CASE more = grants
  BY <1>1, <1>2 DEF OpenShare
<1>3. CASE more = grants \cup {g} /\ count + 1 <= limit
  <2>1. /\ Until(more, opened) = Until(grants, opened)
        /\ Since(more, opened) = Since(grants, opened) \cup {g}
        /\ \/ Since(more, opened + 1) = Since(grants, opened + 1) \cup {g}
           \/ Since(more, opened + 1) = Since(grants, opened + 1)
    BY <1>3 DEF Since, Until
  <2>2. /\ Cardinality(Since(more, opened)) <= Cardinality(Since(grants, opened)) + 1
        /\ Cardinality(Since(more, opened + 1)) <= Cardinality(Since(grants, opened + 1)) + 1
        /\ Cardinality(Since(more, opened)) \in Nat
        /\ Cardinality(Since(more, opened + 1)) \in Nat
    <3>1. /\ Cardinality(Since(more, opened)) <= Cardinality(Since(grants, opened)) + 1
          /\ Cardinality(Since(more, opened)) \in Nat
      BY <1>1, <2>1, AtMostOneMore
    <3>2. CASE Since(more, opened + 1) = Since(grants, opened + 1) \cup {g}
      <4>1. /\ Cardinality(Since(more, opened + 1))
                 <= Cardinality(Since(grants, opened + 1)) + 1
            /\ Cardinality(Since(more, opened + 1)) \in Nat
        BY <1>1, <3>2, AtMostOneMore
      <4> QED
        BY <3>1, <4>1
    <3>3. CASE Since(more, opened + 1) = Since(grants, opened + 1)
      BY <1>1, <3>1, <3>3
    <3> QED
      BY <2>1, <3>2, <3>3
  <2> QED
    BY <1>1, <1>3, <2>1, <2>2 DEF OpenShare
<1> QED
  BY <1>2, <1>3

\* An attempt opens a window, whether it is allowed or not.
LEMMA OpenBegins ==
  ASSUME NEW grants, IsFiniteSet(grants), \A g \in grants : g.at \in Int,
         NEW limit \in Nat \ {0}, NEW t \in Int, ClosedShare(grants, limit, t),
         NEW more, NEW g, g.at = t, more = grants \/ more = grants \cup {g}
  PROVE  OpenShare(more, limit, 1, t)
<1>1. /\ Since(more, t) \in SUBSET {g}
      /\ Since(more, t + 1) = {}
      /\ Until(more, t) = grants
  BY DEF Since, Until, ClosedShare
<1>2. IsFiniteSet({g}) /\ Cardinality({g}) = 1
  BY FS_Singleton
<1>3. Cardinality(Since(more, t)) <= 1
  BY <1>1, <1>2, FS_Subset
<1>4. Cardinality(Since(more, t + 1)) = 0
  BY <1>1, FS_EmptySet
<1> QED
  BY <1>1, <1>3, <1>4 DEF OpenShare, ClosedShare

\* A window closes: what is not too old by then was granted after it opened.
LEMMA OpenEnds ==
  ASSUME NEW grants, IsFiniteSet(grants), \A g \in grants : g.at \in Int,
         NEW limit \in Nat, NEW count \in Nat, NEW opened \in Int, NEW t \in Int,
         OpenShare(grants, limit, count, opened),
         NEW some \in SUBSET grants, \A g \in some : g.at > opened /\ g.at < t
  PROVE  ClosedShare(some, limit, t)
<1>1. some \in SUBSET Since(grants, opened + 1)
  BY DEF Since
<1>2. /\ IsFiniteSet(Since(grants, opened + 1))
      /\ Cardinality(Since(grants, opened + 1)) \in Nat
  BY PartsOfHistory
<1>3. Cardinality(some) <= Cardinality(Since(grants, opened + 1)) /\ Cardinality(some) \in Nat
  BY <1>1, <1>2, FS_Subset, FS_CardinalityType
<1> QED
  BY <1>2, <1>3 DEF OpenShare, ClosedShare

\* A shorter history keeps the share of an open window and of a closed one.
LEMMA SharesOfLess ==
  ASSUME NEW grants, IsFiniteSet(grants), \A g \in grants : g.at \in Int,
         NEW limit \in Nat, NEW some \in SUBSET grants
  PROVE  /\ \A count \in Nat, opened \in Int :
              OpenShare(grants, limit, count, opened) => OpenShare(some, limit, count, opened)
         /\ \A t, u \in Int :
              ClosedShare(grants, limit, t) /\ t <= u => ClosedShare(some, limit, u)
<1>1. ASSUME NEW count \in Nat, NEW opened \in Int, OpenShare(grants, limit, count, opened)
      PROVE  OpenShare(some, limit, count, opened)
  <2>1. /\ IsFiniteSet(some) /\ \A g \in some : g.at \in Int
        /\ Cardinality(Since(some, opened)) <= Cardinality(Since(grants, opened))
        /\ Cardinality(Since(some, opened + 1)) <= Cardinality(Since(grants, opened + 1))
        /\ Cardinality(Until(some, opened)) <= Cardinality(Until(grants, opened))
    BY LessOfHistory
  <2>2. /\ Cardinality(Since(some, opened)) \in Nat /\ Cardinality(Since(grants, opened)) \in Nat
        /\ Cardinality(Since(some, opened + 1)) \in Nat
        /\ Cardinality(Since(grants, opened + 1)) \in Nat
        /\ Cardinality(Until(some, opened)) \in Nat /\ Cardinality(Until(grants, opened)) \in Nat
    BY <2>1, PartsOfHistory
  <2> QED
    BY <1>1, <2>1, <2>2 DEF OpenShare
<1>2. ASSUME NEW t \in Int, NEW u \in Int, ClosedShare(grants, limit, t), t <= u
      PROVE  ClosedShare(some, limit, u)
  <2>1. IsFiniteSet(some) /\ Cardinality(some) <= Cardinality(grants)
    BY FS_Subset
  <2>2. Cardinality(some) \in Nat /\ Cardinality(grants) \in Nat
    BY <2>1, FS_CardinalityType
  <2> QED
    BY <1>2, <2>1, <2>2 DEF ClosedShare
<1> QED
  BY <1>1, <1>2

-----------------------------------------------------------------------------
(* The steps of the ledger keep the shares.                                *)

LEMMA LimitType == \A k : Limit(k) \in Nat \ {0}
BY LimiterAssumption DEF Limit

LEMMA NothingGranted ==
  ASSUME NEW limit \in Nat \ {0}, NEW t
  PROVE  ClosedShare({}, limit, t)
BY FS_EmptySet DEF ClosedShare

\* What an attempt does to the windows.
LEMMA ConsumeWindows ==
  ASSUME IInv, NEW ip \in Ips, NEW id \in Identifiers, Consume(ip, id), NEW k \in Keys
  PROVE  /\ now' = now /\ (k \in Live(now)' <=> k \in DOMAIN counters')
         /\ k \notin Live(now) /\ k \in KeysOf(ip, id) =>
              /\ k \in Live(now)'
              /\ counters'[k].count = 1 /\ counters'[k].expires_at = now + Window
         /\ k \notin Live(now) /\ k \notin KeysOf(ip, id) => k \notin Live(now)'
         /\ k \in Live(now) /\ k \in Live(now)' =>
              /\ counters'[k].expires_at = counters[k].expires_at
              /\ counters'[k].count = IF k \in KeysOf(ip, id) THEN counters[k].count + 1
                                      ELSE counters[k].count
<1> DEFINE entries == Charged(ip, id)
<1>1. PICK out \in Oldest(entries, ChargedOrder(ip, id), Overflow(entries)) :
        /\ counters' = [j \in DOMAIN entries \ out |-> entries[j]]
        /\ now' = now
  BY DEF Consume
<1>2. DOMAIN entries = Live(now) \cup KeysOf(ip, id)
  BY DEF Charged
<1>3. k \in DOMAIN entries => entries[k].expires_at > now
  BY ChargedWindows
<1>4. k \in DOMAIN counters' => k \in DOMAIN entries /\ counters'[k] = entries[k]
  BY <1>1
<1>5. k \in Live(now)' <=> k \in DOMAIN counters'
  BY <1>1, <1>3, <1>4 DEF Live
<1>6. ASSUME k \notin Live(now), k \in KeysOf(ip, id)
      PROVE  /\ k \in DOMAIN counters'
             /\ counters'[k].count = 1 /\ counters'[k].expires_at = now + Window
  <2>1. k \in DOMAIN counters' /\ counters'[k] = ConsumeKey(k)
    BY <1>6, FreshStays
  <2>2. ConsumeKey(k) = [count |-> 1, expires_at |-> now + Window]
    BY <1>6 DEF ConsumeKey
  <2> QED
    BY <2>1, <2>2
<1>7. ASSUME k \in Live(now), k \in DOMAIN counters'
      PROVE  /\ counters'[k].expires_at = counters[k].expires_at
             /\ counters'[k].count = IF k \in KeysOf(ip, id) THEN counters[k].count + 1
                                     ELSE counters[k].count
  <2>1. CASE k \in KeysOf(ip, id)
    <3>1. entries[k] = ConsumeKey(k)
      BY <1>2, <2>1 DEF Charged
    <3> QED
      BY <1>4, <1>7, <2>1, <3>1, ConsumeKeyType DEF IInv
  <2>2. CASE k \notin KeysOf(ip, id)
    <3>1. entries[k] = counters[k]
      BY <1>2, <1>7, <2>2 DEF Charged
    <3> QED
      BY <1>4, <1>7, <2>2, <3>1
  <2> QED
    BY <2>1, <2>2
<1> QED
  BY <1>1, <1>2, <1>4, <1>5, <1>6, <1>7

\* An attempt that is allowed leaves no charged counter above its limit.
LEMMA AllowedWithin ==
  ASSUME IInv, NEW ip \in Ips, NEW id \in Identifiers, Allowed(ip, id),
         NEW k \in KeysOf(ip, id)
  PROVE  ConsumeKey(k).count <= Limit(k)
<1>1. \A j \in KeysOf(ip, id) : ConsumeKey(j).count \in Nat /\ Limit(j) \in Nat
  BY KeysOfType, ConsumeKeyType, LimitType DEF IInv, Counter
<1> QED
  BY <1>1, AllowedMeans

LEMMA ConsumeShares ==
  ASSUME IInv, LInv, NEW ip \in Ips, NEW id \in Identifiers, LedgerConsume(ip, id)
  PROVE  Shares'
<1> SUFFICES ASSUME NEW k \in Keys
             PROVE  IF k \in Live(now)'
                    THEN OpenShare(granted'[k], Limit(k), counters'[k].count,
                                   counters'[k].expires_at - Window)
                    ELSE ClosedShare(granted'[k], Limit(k), now')
  BY DEF Shares, Limit, Window
<1> DEFINE more == IF Allowed(ip, id) /\ k \in KeysOf(ip, id)
                   THEN granted[k] \cup {Grant(k)} ELSE granted[k]
           opened == counters[k].expires_at - Window
<1>1. Consume(ip, id)
  BY DEF LedgerConsume
<1>2. now' = now /\ (k \in Live(now)' <=> k \in DOMAIN counters')
  BY <1>1, ConsumeWindows
<1>3. granted'[k] = IF k \in Live(now) /\ k \notin Live(now)' THEN {} ELSE more
  BY <1>2 DEF LedgerConsume, Remember
<1>4. /\ IsFiniteSet(granted[k]) /\ \A g \in granted[k] : g.at \in Int
      /\ Limit(k) \in Nat \ {0} /\ now \in Nat /\ Window \in Nat \ {0}
      /\ Grant(k).at = now
  BY LimitType, WindowType DEF LInv, GrantType, IInv, TypeOK, Grant
<1> HIDE DEF more
<1>5. CASE k \in Live(now)
  <2>1. /\ OpenShare(granted[k], Limit(k), counters[k].count, opened)
        /\ counters[k].count \in Nat /\ opened \in Int /\ now >= opened
    BY <1>4, <1>5, LiveType DEF LInv, Shares, IInv, WindowBound, Counter
  <2>2. CASE k \notin Live(now)'
    BY <1>3, <1>4, <1>5, <2>2, NothingGranted
  <2>3. CASE k \in Live(now)'
    <3>1. granted'[k] = more /\ counters'[k].expires_at - Window = opened
      BY <1>1, <1>3, <1>5, <2>3, ConsumeWindows
    <3>2. CASE k \in KeysOf(ip, id)
      <4>1. counters'[k].count = counters[k].count + 1
        BY <1>1, <1>5, <2>3, <3>2, ConsumeWindows
      <4>2. more = granted[k]
              \/ (more = granted[k] \cup {Grant(k)} /\ counters[k].count + 1 <= Limit(k))
        <5>1. ConsumeKey(k).count = counters[k].count + 1
          BY <1>5, ConsumeKeyType DEF IInv
        <5>2. CASE Allowed(ip, id)
          <6>1. ConsumeKey(k).count <= Limit(k)
            BY <3>2, <5>2, AllowedWithin
          <6> QED
            BY <3>2, <5>1, <5>2, <6>1 DEF more
        <5>3. CASE ~Allowed(ip, id)
          <6>1. more = granted[k]
            BY <5>3 DEF more
          <6> QED
            BY <6>1
        <5> QED
          BY <5>2, <5>3
      <4>3. OpenShare(more, Limit(k), counters[k].count + 1, opened)
        <5> HIDE DEF opened
        <5> QED
          BY <1>4, <2>1, <4>2, OpenGoesOn
      <4> QED
        BY <2>3, <3>1, <4>1, <4>3
    <3>3. CASE k \notin KeysOf(ip, id)
      <4>1. more = granted[k] /\ counters'[k].count = counters[k].count
        BY <1>1, <1>5, <2>3, <3>3, ConsumeWindows DEF more
      <4> QED
        BY <2>1, <2>3, <3>1, <4>1
    <3> QED
      BY <3>2, <3>3
  <2> QED
    BY <2>2, <2>3
<1>6. CASE k \notin Live(now)
  <2>1. ClosedShare(granted[k], Limit(k), now) /\ granted'[k] = more
    BY <1>3, <1>6 DEF LInv, Shares
  <2>2. CASE k \in KeysOf(ip, id)
    <3>1. /\ k \in Live(now)' /\ counters'[k].count = 1
          /\ counters'[k].expires_at = now + Window
      BY <1>1, <1>6, <2>2, ConsumeWindows
    <3>2. counters'[k].expires_at - Window = now
      BY <1>4, <3>1
    <3>3. more = granted[k] \/ more = granted[k] \cup {Grant(k)}
      BY DEF more
    <3>4. OpenShare(more, Limit(k), 1, now)
      BY <1>4, <2>1, <3>3, OpenBegins
    <3> QED
      BY <2>1, <3>1, <3>2, <3>4
  <2>3. CASE k \notin KeysOf(ip, id)
    <3>1. k \notin Live(now)' /\ more = granted[k]
      BY <1>1, <1>6, <2>3, ConsumeWindows DEF more
    <3> QED
      BY <1>2, <2>1, <3>1
  <2> QED
    BY <2>2, <2>3
<1> QED
  BY <1>5, <1>6

\* Clearing, a restart: the windows that go take their history with them.
LEMMA ForgettingShares ==
  ASSUME IInv, LInv, Remember(granted), now' = now,
         DOMAIN counters' \subseteq DOMAIN counters,
         \A k \in DOMAIN counters' : counters'[k] = counters[k]
  PROVE  Shares'
<1> SUFFICES ASSUME NEW k \in Keys
             PROVE  IF k \in Live(now)'
                    THEN OpenShare(granted'[k], Limit(k), counters'[k].count,
                                   counters'[k].expires_at - Window)
                    ELSE ClosedShare(granted'[k], Limit(k), now')
  BY DEF Shares, Limit, Window
<1>1. k \in Live(now)' <=> k \in Live(now) /\ k \in DOMAIN counters'
  BY DEF Live
<1>2. granted'[k] = IF k \in Live(now) /\ k \notin Live(now)' THEN {} ELSE granted[k]
  BY <1>1 DEF Remember
<1>3. IF k \in Live(now)
      THEN OpenShare(granted[k], Limit(k), counters[k].count, counters[k].expires_at - Window)
      ELSE ClosedShare(granted[k], Limit(k), now)
  BY DEF LInv, Shares
<1>4. CASE k \in Live(now)'
  BY <1>1, <1>2, <1>3, <1>4
<1>5. CASE k \in Live(now) /\ k \notin Live(now)'
  BY <1>2, <1>5, NothingGranted, LimitType
<1>6. CASE k \notin Live(now)
  BY <1>1, <1>2, <1>3, <1>6
<1> QED
  BY <1>4, <1>5, <1>6

LEMMA TickShares ==
  ASSUME IInv, LInv, LedgerTick
  PROVE  Shares'
<1> SUFFICES ASSUME NEW k \in Keys
             PROVE  IF k \in Live(now)'
                    THEN OpenShare(granted'[k], Limit(k), counters'[k].count,
                                   counters'[k].expires_at - Window)
                    ELSE ClosedShare(granted'[k], Limit(k), now')
  BY DEF Shares, Limit, Window
<1>1. /\ now' = now + 1 /\ counters' = counters
      /\ granted'[k] = {g \in granted[k] : g.at > now' - Window}
  BY DEF LedgerTick, Tick
<1>2. /\ IsFiniteSet(granted[k]) /\ \A g \in granted[k] : g.at \in Int /\ g.at <= now
      /\ Limit(k) \in Nat /\ now \in Nat /\ Window \in Nat \ {0}
      /\ granted'[k] \in SUBSET granted[k]
  BY <1>1, LimitType, WindowType DEF LInv, GrantType, IInv, TypeOK
<1>3. CASE k \in Live(now)
  <2> DEFINE opened == counters[k].expires_at - Window
  <2>1. /\ OpenShare(granted[k], Limit(k), counters[k].count, opened)
        /\ counters[k].count \in Nat /\ opened \in Int /\ counters[k].expires_at \in Nat
        /\ counters[k].expires_at > now
    BY <1>2, <1>3, LiveType DEF LInv, Shares, IInv, Counter
  <2>2. CASE k \in Live(now)'
    <3>1. OpenShare(granted'[k], Limit(k), counters[k].count, opened)
      <4> HIDE DEF opened
      <4> QED
        BY <1>2, <2>1, SharesOfLess
    <3> QED
      BY <1>1, <2>2, <3>1
  <2>3. CASE k \notin Live(now)'
    <3>1. counters[k].expires_at = now + 1
      BY <1>1, <1>2, <1>3, <2>1, <2>3 DEF Live
    <3>2. \A g \in granted'[k] : g.at > opened /\ g.at < now'
      BY <1>1, <1>2, <3>1
    <3>3. ClosedShare(granted'[k], Limit(k), now')
      <4> HIDE DEF opened
      <4>1. now' \in Int
        BY <1>1, <1>2
      <4> QED
        BY <1>2, <2>1, <3>2, <4>1, OpenEnds
    <3> QED
      BY <2>3, <3>3
  <2> QED
    BY <2>2, <2>3
<1>4. CASE k \notin Live(now)
  <2>1. k \notin Live(now)'
    BY <1>1, <1>2, <1>4 DEF Live, IInv, TypeOK, Counter
  <2>2. ClosedShare(granted[k], Limit(k), now)
    BY <1>4 DEF LInv, Shares
  <2>3. ClosedShare(granted'[k], Limit(k), now')
    <3>1. now \in Int /\ now' \in Int /\ now <= now'
      BY <1>1, <1>2
    <3> QED
      BY <1>2, <2>2, <3>1, SharesOfLess
  <2> QED
    BY <2>1, <2>3
<1> QED
  BY <1>3, <1>4

\* The numbers in the history are those of the attempts of the tick.
LEMMA GrantIsNew ==
  ASSUME LInv, NEW k \in Keys
  PROVE  Grant(k) \notin granted[k]
<1> DEFINE same == {h \in granted[k] : h.at = now}
<1>1. Cardinality(same) \in Nat
  BY FS_Subset, FS_CardinalityType DEF LInv, GrantType
<1>2. Grant(k).at = now /\ Grant(k).nth = Cardinality(same) + 1
  BY DEF Grant
<1>3. ASSUME Grant(k) \in granted[k] PROVE FALSE
  <2>1. Grant(k).nth \in 1 .. Cardinality({h \in granted[k] : h.at = Grant(k).at})
    BY <1>3 DEF LInv, ToldApart
  <2> QED
    BY <1>1, <1>2, <2>1
<1> QED
  BY <1>3

LEMMA GrantToldApart ==
  ASSUME LInv, NEW k \in Keys, NEW g \in granted[k] \cup {Grant(k)}
  PROVE  g.nth \in 1 .. Cardinality({h \in granted[k] \cup {Grant(k)} : h.at = g.at})
<1> DEFINE more == granted[k] \cup {Grant(k)}
           Same(set, t) == {h \in set : h.at = t}
<1>1. /\ IsFiniteSet(granted[k])
      /\ Grant(k).at = now /\ Grant(k).nth = Cardinality(Same(granted[k], now)) + 1
      /\ Grant(k) \notin granted[k]
  BY GrantIsNew DEF LInv, GrantType, Grant
<1>2. /\ Same(granted[k], g.at) \in SUBSET granted[k]
      /\ Same(granted[k], g.at) \in SUBSET Same(more, g.at)
      /\ Same(more, now) = Same(granted[k], now) \cup {Grant(k)}
      /\ Grant(k) \notin Same(granted[k], now)
      /\ Same(more, g.at) \in SUBSET more
  BY <1>1
<1>3. /\ IsFiniteSet(more) /\ IsFiniteSet(Same(more, g.at))
      /\ IsFiniteSet(Same(granted[k], g.at))
  <2>1. IsFiniteSet(more)
    BY <1>1, FS_AddElement
  <2> QED
    BY <1>1, <1>2, <2>1, FS_Subset
<1>4. /\ Cardinality(Same(granted[k], g.at)) <= Cardinality(Same(more, g.at))
      /\ Cardinality(Same(granted[k], g.at)) \in Nat /\ Cardinality(Same(more, g.at)) \in Nat
  BY <1>2, <1>3, FS_Subset, FS_CardinalityType
<1>5. CASE g \in granted[k]
  <2>1. g.nth \in 1 .. Cardinality(Same(granted[k], g.at))
    BY <1>5 DEF LInv, ToldApart
  <2> QED
    BY <1>4, <2>1
<1>6. CASE g = Grant(k)
  <2>1. g.at = now
    BY <1>1, <1>6
  <2>2. Cardinality(Same(more, now)) = Cardinality(Same(granted[k], now)) + 1
    <3>1. IsFiniteSet(Same(granted[k], now))
      BY <1>3, <2>1
    <3>2. Cardinality(Same(granted[k], now) \cup {Grant(k)})
            = Cardinality(Same(granted[k], now)) + 1
      BY <1>2, <3>1, FS_AddElement
    <3> QED
      BY <1>2, <3>2
  <2>3. g.nth = Cardinality(Same(granted[k], now)) + 1
    BY <1>1, <1>6
  <2>4. /\ Cardinality(Same(granted[k], now)) \in Nat
        /\ Same(more, g.at) = Same(more, now)
    BY <1>4, <2>1
  <2>5. g.nth = Cardinality(Same(more, g.at)) /\ g.nth \in Nat \ {0}
    <3> HIDE DEF Same
    <3> QED
      BY <2>2, <2>3, <2>4
  <2> QED
    BY <2>5
<1> QED
  BY <1>5, <1>6

\* A history that is kept, longer by an attempt allowed now, dropped, or cut at
\* a time, stays one.
LEMMA HistoryKept ==
  ASSUME LInv, now \in Nat, now' \in Nat, now <= now', DOMAIN granted' = Keys,
         \A k \in Keys :
           \/ granted'[k] = {} \/ granted'[k] = granted[k]
           \/ granted'[k] = granted[k] \cup {Grant(k)}
           \/ \E t \in Int : granted'[k] = {g \in granted[k] : g.at > t}
  PROVE  GrantType' /\ ToldApart'
<1>1. ASSUME NEW k \in Keys
      PROVE  /\ IsFiniteSet(granted'[k])
             /\ \A g \in granted'[k] : g.at \in Nat /\ g.at <= now'
             /\ \A g \in granted'[k] :
                  g.nth \in 1 .. Cardinality({h \in granted'[k] : h.at = g.at})
  <2>1. /\ IsFiniteSet(granted[k]) /\ \A g \in granted[k] : g.at \in Nat /\ g.at <= now
        /\ \A g \in granted[k] : g.nth \in 1 .. Cardinality({h \in granted[k] : h.at = g.at})
        /\ Grant(k).at = now
    BY DEF LInv, GrantType, ToldApart, Grant
  <2>2. CASE granted'[k] = {}
    BY <2>2, FS_EmptySet
  <2>3. CASE granted'[k] = granted[k]
    BY <2>1, <2>3
  <2>4. CASE granted'[k] = granted[k] \cup {Grant(k)}
    <3>1. IsFiniteSet(granted'[k])
      BY <2>1, <2>4, FS_AddElement
    <3>2. \A g \in granted'[k] : g.at \in Nat /\ g.at <= now'
      BY <2>1, <2>4
    <3>3. \A g \in granted'[k] :
            g.nth \in 1 .. Cardinality({h \in granted'[k] : h.at = g.at})
      BY <2>4, GrantToldApart
    <3> QED
      BY <3>1, <3>2, <3>3
  <2>5. ASSUME NEW t \in Int, granted'[k] = {g \in granted[k] : g.at > t}
        PROVE  /\ IsFiniteSet(granted'[k])
               /\ \A g \in granted'[k] : g.at \in Nat /\ g.at <= now'
               /\ \A g \in granted'[k] :
                    g.nth \in 1 .. Cardinality({h \in granted'[k] : h.at = g.at})
    <3>1. granted'[k] \in SUBSET granted[k]
      BY <2>5
    <3>2. IsFiniteSet(granted'[k])
      BY <2>1, <3>1, FS_Subset
    <3>3. \A g \in granted'[k] :
            {h \in granted'[k] : h.at = g.at} = {h \in granted[k] : h.at = g.at}
      BY <2>5
    <3> QED
      BY <2>1, <3>1, <3>2, <3>3
  <2> QED
    BY <1>1, <2>2, <2>3, <2>4, <2>5
<1> QED
  BY <1>1 DEF GrantType, ToldApart

LEMMA InitLInv == LedgerInit => LInv
<1> SUFFICES ASSUME LedgerInit PROVE LInv
  OBVIOUS
<1>1. /\ DOMAIN granted = Keys /\ \A k \in Keys : granted[k] = {}
      /\ Live(now) = {}
  BY DEF LedgerInit, LimiterInit, Live
<1>2. GrantType /\ ToldApart
  BY <1>1, FS_EmptySet DEF GrantType, ToldApart
<1>3. Shares
  BY <1>1, NothingGranted, LimitType DEF Shares
<1> QED
  BY <1>2, <1>3 DEF LInv

LEMMA NextLInv == IInv /\ LInv /\ [LedgerNext]_ledgerVars => LInv'
<1> SUFFICES ASSUME IInv, LInv, [LedgerNext]_ledgerVars PROVE LInv'
  OBVIOUS
<1>1. now \in Nat /\ Window \in Nat
  BY WindowType DEF IInv, TypeOK
<1>2. ASSUME NEW ip \in Ips, NEW id \in Identifiers, LedgerConsume(ip, id) PROVE LInv'
  <2>1. now' = now
    BY <1>2 DEF LedgerConsume, Consume
  <2>2. /\ DOMAIN granted' = Keys
        /\ \A k \in Keys :
             \/ granted'[k] = {} \/ granted'[k] = granted[k]
             \/ granted'[k] = granted[k] \cup {Grant(k)}
    BY <1>2 DEF LedgerConsume, Remember
  <2>3. GrantType' /\ ToldApart'
    BY <1>1, <2>1, <2>2, HistoryKept
  <2> QED
    BY <1>2, <2>3, ConsumeShares DEF LInv
<1>3. ASSUME Remember(granted), now' = now PROVE GrantType' /\ ToldApart'
  <2>1. /\ DOMAIN granted' = Keys
        /\ \A k \in Keys : granted'[k] = {} \/ granted'[k] = granted[k]
    BY <1>3 DEF Remember
  <2> QED
    BY <1>1, <1>3, <2>1, HistoryKept
<1>4. ASSUME NEW id \in Identifiers, LedgerClear(id) PROVE LInv'
  <2>1. /\ Remember(granted) /\ now' = now /\ DOMAIN counters' \subseteq DOMAIN counters
        /\ \A k \in DOMAIN counters' : counters'[k] = counters[k]
    BY <1>4 DEF LedgerClear, ClearIdentifier
  <2> QED
    BY <1>3, <2>1, ForgettingShares DEF LInv
<1>5. CASE LedgerForgetAll
  <2>1. /\ Remember(granted) /\ now' = now /\ DOMAIN counters' = {}
    BY <1>5 DEF LedgerForgetAll, ForgetAll
  <2> QED
    BY <1>3, <2>1, ForgettingShares DEF LInv
<1>6. CASE LedgerTick
  <2>1. /\ now' = now + 1 /\ now' - Window \in Int
        /\ DOMAIN granted' = Keys
        /\ \A k \in Keys : granted'[k] = {g \in granted[k] : g.at > now' - Window}
    BY <1>1, <1>6 DEF LedgerTick, Tick
  <2>2. GrantType' /\ ToldApart'
    BY <1>1, <2>1, HistoryKept
  <2> QED
    BY <1>6, <2>2, TickShares DEF LInv
<1>7. CASE UNCHANGED ledgerVars
  BY <1>7 DEF ledgerVars, limiterVars, LInv, GrantType, ToldApart, Shares, Live
<1> QED
  BY <1>2, <1>4, <1>5, <1>6, <1>7 DEF LedgerNext

\* A window's worth of history holds at most the share of the window that is
\* open, and less than the limit from before it.
LEMMA SharesBound == IInv /\ LInv => SlidingBound
<1> SUFFICES ASSUME IInv, LInv, NEW k \in Keys
             PROVE  Cardinality(granted[k]) <= 2 * Limit(k) - 1
  BY DEF SlidingBound
<1>1. /\ IsFiniteSet(granted[k]) /\ \A g \in granted[k] : g.at \in Int
      /\ Limit(k) \in Nat \ {0}
  BY LimitType DEF LInv, GrantType
<1>2. Cardinality(granted[k]) \in Nat
  BY <1>1, FS_CardinalityType
<1>3. CASE k \in Live(now)
  <2> DEFINE opened == counters[k].expires_at - Window
  <2>1. OpenShare(granted[k], Limit(k), counters[k].count, opened)
    BY <1>3 DEF LInv, Shares
  <2>2. opened \in Int /\ counters[k].count \in Nat
    BY <1>3, LiveType, WindowType DEF IInv, Counter
  <2> HIDE DEF opened
  <2>3. /\ Cardinality(Since(granted[k], opened)) \in Nat
        /\ Cardinality(Until(granted[k], opened)) \in Nat
        /\ Cardinality(granted[k]) <= Cardinality(Since(granted[k], opened))
                                      + Cardinality(Until(granted[k], opened))
    BY <1>1, <2>2, PartsOfHistory
  <2> QED
    BY <1>1, <1>2, <2>1, <2>2, <2>3 DEF OpenShare
<1>4. CASE k \notin Live(now)
  <2>1. ClosedShare(granted[k], Limit(k), now)
    BY <1>4 DEF LInv, Shares
  <2> QED
    BY <1>1, <1>2, <2>1 DEF ClosedShare
<1> QED
  BY <1>3, <1>4

\* In any interval one window long, also across the border of two windows, a
\* key is allowed at most twice its limit less one attempts, unless its counter
\* was cleared, evicted or lost with the process (rate_limit.py:54-111).
THEOREM GrantsAreBounded == LedgerSpec => []SlidingBound
<1>1. LedgerSpec => []LInv
  BY InitLInv, NextLInv, LedgerInvariance, PTL DEF LedgerSpec
<1> QED
  BY <1>1, SharesBound, LedgerInvariance, PTL
-----------------------------------------------------------------------------
(* What a refused client is told.                                          *)
(*                                                                         *)
(* Of the client that waits the bound needs that no window it waits for    *)
(* closes later than it was told, and that, until the last second of it,   *)
(* one of them is still open, charged up to its limit, and closes within   *)
(* that last second: the seconds it was told are those of the window that  *)
(* closes last, rounded up.                                                *)

Told ==
  /\ waiting.by \subseteq KeysOf(waiting.ip, waiting.id) \cap Keys
  /\ waiting.due \in Nat
  /\ \A k \in waiting.by : k \in Live(now) => counters[k].expires_at <= waiting.due
  /\ now + TicksPerSecond <= waiting.due =>
       \E k \in waiting.by :
         /\ k \in Live(now) /\ counters[k].count >= Limit(k)
         /\ counters[k].expires_at + TicksPerSecond > waiting.due

\* Ticks are rounded up to whole seconds.
LEMMA CeilBounds ==
  ASSUME NEW ticks \in Nat \ {0}
  PROVE  /\ Ceil(ticks) \in Nat \ {0}
         /\ Ceil(ticks) * TicksPerSecond >= ticks
         /\ Ceil(ticks) * TicksPerSecond < ticks + TicksPerSecond
BY LimiterAssumption DEF Ceil

\* The largest of one or two numbers.
LEMMA MaxOfTwo ==
  ASSUME NEW S, NEW a \in Int, NEW b \in Int, S \subseteq {a, b}, S # {}
  PROVE  Max(S) \in S /\ \A x \in S : x <= Max(S)
<1>1. \E x \in S : \A y \in S : x >= y
  <2>1. CASE a \in S /\ (b \in S => a >= b)
    BY <2>1
  <2>2. CASE b \in S /\ (a \in S => b >= a)
    BY <2>2
  <2>3. a \in S \/ b \in S
    OBVIOUS
  <2>4. a >= b \/ b >= a
    OBVIOUS
  <2> QED
    BY <2>1, <2>2, <2>3, <2>4
<1>2. Max(S) \in S /\ \A y \in S : Max(S) >= y
  BY <1>1 DEF Max
<1> QED
  BY <1>2

\* The seconds a refused attempt is told cover every window that refuses it,
\* and one of these closes within the last of the seconds.
LEMMA RefusalIsFair ==
  ASSUME IInv, NEW ip \in Ips, NEW id \in Identifiers, ~Allowed(ip, id)
  PROVE  LET told == Refusal(ip, id)
         IN  /\ told.ip = ip /\ told.id = id
             /\ told.by \subseteq KeysOf(ip, id)
             /\ told.due \in Nat
             /\ \A k \in told.by : ConsumeKey(k).count > Limit(k)
             /\ \A k \in told.by : ConsumeKey(k).expires_at <= told.due
             /\ \E k \in told.by : ConsumeKey(k).expires_at + TicksPerSecond > told.due
<1> DEFINE told == Refusal(ip, id)
           wait(k) == ConsumeKey(k).expires_at - now
           longest == Max(Waits(ip, id))
<1>1. /\ told.ip = ip /\ told.id = id
      /\ told.by = {k \in KeysOf(ip, id) : ConsumeKey(k).count > Limit(k)}
      /\ told.due = now + RetryAfterSeconds(ip, id) * TicksPerSecond
  BY DEF Refusal
<1>2. \A k \in KeysOf(ip, id) : wait(k) \in Nat \ {0}
  <2> SUFFICES ASSUME NEW k \in KeysOf(ip, id) PROVE wait(k) \in Nat \ {0}
    OBVIOUS
  <2>1. k \in Keys /\ now \in Nat /\ Window \in Nat \ {0}
    BY KeysOfType, WindowType DEF IInv, TypeOK
  <2>2. k \in Live(now) => counters[k].expires_at > now
    BY LiveType DEF IInv
  <2>3. ConsumeKey(k).expires_at \in Nat
    BY <2>1, ConsumeKeyType DEF IInv, Counter
  <2> QED
    BY <2>1, <2>2, <2>3, ConsumeKeyType DEF IInv
<1>3. Waits(ip, id) = {wait(k) : k \in told.by}
  BY <1>1 DEF Waits
<1>4. Waits(ip, id) # {}
  BY DEF Allowed
<1>5. Waits(ip, id) \subseteq {wait(IpKey(ip)), wait(IdentifierKey(id))}
  BY <1>1, <1>3 DEF KeysOf
<1>6. wait(IpKey(ip)) \in Int /\ wait(IdentifierKey(id)) \in Int
  BY <1>2 DEF KeysOf
<1> HIDE DEF wait
<1>7. longest \in Waits(ip, id) /\ \A x \in Waits(ip, id) : x <= longest
  BY <1>4, <1>5, <1>6, MaxOfTwo
<1>8. longest \in Nat \ {0}
  BY <1>1, <1>2, <1>3, <1>7
<1> HIDE DEF longest
<1>9. RetryAfterSeconds(ip, id) = Ceil(longest)
  <2>1. RetryAfterSeconds(ip, id) = Max({1, Ceil(longest)})
    BY DEF RetryAfterSeconds, longest
  <2>2. Ceil(longest) \in Nat \ {0}
    BY <1>8, CeilBounds
  <2>3. /\ Max({1, Ceil(longest)}) \in {1, Ceil(longest)}
        /\ \A x \in {1, Ceil(longest)} : x <= Max({1, Ceil(longest)})
    BY <2>2, MaxOfTwo
  <2> QED
    BY <2>1, <2>2, <2>3
<1> DEFINE span == Ceil(longest) * TicksPerSecond
<1>10. /\ span \in Nat /\ span >= longest /\ span < longest + TicksPerSecond
       /\ now \in Nat /\ TicksPerSecond \in Nat
       /\ told.due = now + span
  BY <1>1, <1>8, <1>9, CeilBounds, LimiterAssumption DEF IInv, TypeOK
<1> HIDE DEF span, told
<1>11. \A k \in told.by : ConsumeKey(k).expires_at = now + wait(k) /\ wait(k) <= longest
  <2> SUFFICES ASSUME NEW k \in told.by
               PROVE  ConsumeKey(k).expires_at = now + wait(k) /\ wait(k) <= longest
    OBVIOUS
  <2>1. k \in KeysOf(ip, id) /\ k \in Keys
    BY <1>1, KeysOfType
  <2>2. ConsumeKey(k).expires_at \in Nat
    BY <2>1, ConsumeKeyType DEF IInv, Counter
  <2> QED
    BY <1>3, <1>7, <1>10, <2>2 DEF wait
<1>12. \A k \in told.by : ConsumeKey(k).expires_at <= told.due
  BY <1>1, <1>2, <1>8, <1>10, <1>11
<1>13. \E k \in told.by : ConsumeKey(k).expires_at + TicksPerSecond > told.due
  <2>1. PICK k \in told.by : wait(k) = longest
    BY <1>3, <1>7
  <2> QED
    BY <1>8, <1>10, <1>11, <2>1
<1> QED
  BY <1>1, <1>10, <1>12, <1>13 DEF told

\* A window that is open already, or opened now, is in the dict as it was
\* charged, unless it was evicted.
LEMMA ChargedIsKept ==
  ASSUME IInv, NEW ip \in Ips, NEW id \in Identifiers, Consume(ip, id),
         NEW k \in KeysOf(ip, id), k \in DOMAIN counters'
  PROVE  counters'[k] = ConsumeKey(k)
BY DEF Consume, Charged

LEMMA RefusalTold ==
  ASSUME IInv, NEW ip \in Ips, NEW id \in Identifiers, Consume(ip, id), ~Allowed(ip, id),
         Refusal(ip, id).by \subseteq DOMAIN counters', waiting' = Refusal(ip, id)
  PROVE  Told'
<1> DEFINE told == Refusal(ip, id)
<1>1. /\ told.ip = ip /\ told.id = id /\ told.by \subseteq KeysOf(ip, id)
      /\ told.due \in Nat
      /\ \A k \in told.by : ConsumeKey(k).count > Limit(k)
      /\ \A k \in told.by : ConsumeKey(k).expires_at <= told.due
      /\ \E k \in told.by : ConsumeKey(k).expires_at + TicksPerSecond > told.due
  BY RefusalIsFair
<1>2. \A k \in told.by :
        k \in Live(now)' /\ counters'[k] = ConsumeKey(k) /\ ConsumeKey(k) \in Counter
  <2> SUFFICES ASSUME NEW k \in told.by
               PROVE  k \in Live(now)' /\ counters'[k] = ConsumeKey(k)
                      /\ ConsumeKey(k) \in Counter
    OBVIOUS
  <2>1. k \in Keys /\ k \in DOMAIN counters'
    BY <1>1, KeysOfType
  <2> QED
    BY <1>1, <2>1, ConsumeWindows, ChargedIsKept, ConsumeKeyType DEF IInv
<1>3. told.by \subseteq Keys
  BY <1>1, KeysOfType
<1> HIDE DEF told
<1>4. waiting' = told
  BY DEF told
<1>5. waiting.by' \subseteq KeysOf(waiting.ip, waiting.id)' \cap Keys
  BY <1>1, <1>3, <1>4 DEF KeysOf, IpKey, IdentifierKey
<1>6. \E k \in told.by :
        /\ k \in Live(now)' /\ counters'[k].count >= Limit(k)
        /\ counters'[k].expires_at + TicksPerSecond > told.due
  <2>1. PICK k \in told.by : ConsumeKey(k).expires_at + TicksPerSecond > told.due
    BY <1>1
  <2>2. ConsumeKey(k).count >= Limit(k)
    BY <1>1, <1>2, LimitType DEF Counter
  <2> QED
    BY <1>2, <2>1, <2>2
<1> QED
  BY <1>1, <1>2, <1>4, <1>5, <1>6 DEF Told, Keys, Limit

\* A client that is no one, or given up, waits for nothing.
LEMMA NobodyTold == IInv /\ waiting = Nobody => Told
BY LimiterAssumption DEF IInv, TypeOK, Told, Nobody

LEMMA GivenUp ==
  ASSUME IInv', waiting' = Nobody
  PROVE  Told'
BY LimiterAssumption DEF IInv, TypeOK, Told, Nobody

\* The client goes on waiting while the windows it waits for stay as they are.
LEMMA StillTold ==
  ASSUME IInv, Told, now' \in Nat, now <= now', waiting' = waiting,
         \A k \in waiting.by : k \in Live(now)' => k \in Live(now),
         \A k \in waiting.by : k \in Live(now) /\ counters[k].expires_at > now' => k \in Live(now)',
         \A k \in waiting.by : k \in Live(now)' =>
           /\ counters'[k].expires_at = counters[k].expires_at
           /\ counters'[k].count \in Nat /\ counters'[k].count >= counters[k].count
  PROVE  Told'
<1>1. /\ waiting.by \subseteq KeysOf(waiting.ip, waiting.id) \cap Keys
      /\ waiting.due \in Nat /\ now \in Nat /\ TicksPerSecond \in Nat \ {0}
      /\ \A k \in waiting.by : k \in Live(now) => counters[k].expires_at <= waiting.due
  BY LimiterAssumption DEF Told, IInv, TypeOK
<1>2. (waiting.by \subseteq KeysOf(waiting.ip, waiting.id) \cap Keys)'
  BY <1>1 DEF KeysOf, IpKey, IdentifierKey, Keys
<1>3. \A k \in waiting.by : k \in Live(now)' => counters'[k].expires_at <= waiting.due
  BY <1>1
<1>4. ASSUME now' + TicksPerSecond <= waiting.due
      PROVE  \E k \in waiting.by :
               /\ k \in Live(now)' /\ counters'[k].count >= Limit(k)
               /\ counters'[k].expires_at + TicksPerSecond > waiting.due
  <2>1. PICK k \in waiting.by :
          /\ k \in Live(now) /\ counters[k].count >= Limit(k)
          /\ counters[k].expires_at + TicksPerSecond > waiting.due
    BY <1>1, <1>4 DEF Told
  <2>2. counters[k].expires_at \in Nat /\ counters[k].count \in Nat /\ Limit(k) \in Nat
    BY <2>1, LiveType, LimitType DEF IInv, Counter
  <2>3. counters[k].expires_at > now'
    BY <1>1, <1>4, <2>1, <2>2
  <2>4. /\ k \in Live(now)' /\ counters'[k].expires_at = counters[k].expires_at
        /\ counters'[k].count >= Limit(k)
    BY <2>1, <2>2, <2>3
  <2> QED
    BY <2>1, <2>4
<1> QED
  BY <1>1, <1>2, <1>3, <1>4 DEF Told, Limit

LEMMA WaitingConsumeTold ==
  ASSUME IInv, IInv', Told, NEW ip \in Ips, NEW id \in Identifiers, WaitingConsume(ip, id)
  PROVE  Told'
<1>1. Consume(ip, id) /\ now' = now /\ now \in Nat
  BY DEF WaitingConsume, Consume, IInv, TypeOK
<1>2. CASE waiting' = Nobody
  BY <1>2, GivenUp
<1>3. CASE /\ ~Allowed(ip, id) /\ Refusal(ip, id).by \subseteq DOMAIN counters'
           /\ waiting' = Refusal(ip, id)
  BY <1>1, <1>3, RefusalTold
<1>4. CASE /\ waiting.by \subseteq Live(now) \/ waiting.by \cap KeysOf(ip, id) = {}
           /\ waiting.by \cap (Live(now') \ DOMAIN counters') = {}
           /\ waiting' = waiting
  <2>1. waiting.by \subseteq Keys
    BY DEF Told
  <2>2. \A k \in waiting.by : k \in Live(now)' => k \in Live(now)
    BY <1>1, <1>4, <2>1, ConsumeWindows
  <2>3. \A k \in waiting.by : k \in Live(now) => k \in Live(now)'
    BY <1>1, <1>4, <2>1, ConsumeWindows
  <2>4. \A k \in waiting.by : k \in Live(now)' =>
          /\ counters'[k].expires_at = counters[k].expires_at
          /\ counters'[k].count \in Nat /\ counters'[k].count >= counters[k].count
    <3> SUFFICES ASSUME NEW k \in waiting.by, k \in Live(now)'
                 PROVE  /\ counters'[k].expires_at = counters[k].expires_at
                        /\ counters'[k].count \in Nat /\ counters'[k].count >= counters[k].count
      OBVIOUS
    <3>1. k \in Keys /\ k \in Live(now) /\ counters[k].count \in Nat
      BY <2>1, <2>2, LiveType DEF IInv, Counter
    <3> QED
      BY <1>1, <3>1, ConsumeWindows
  <2> QED
    BY <1>1, <1>4, <2>2, <2>3, <2>4, StillTold
<1> QED
  BY <1>2, <1>3, <1>4 DEF WaitingConsume, Follow

LEMMA InitTold == WaitingInit => Told
BY InitIInv, NobodyTold DEF WaitingInit

LEMMA NextTold == IInv /\ IInv' /\ Told /\ [WaitingNext]_waitingVars => Told'
<1> SUFFICES ASSUME IInv, IInv', Told, [WaitingNext]_waitingVars PROVE Told'
  OBVIOUS
<1>1. now \in Nat /\ \A k \in Live(now) : counters[k] \in Counter
  BY LiveType DEF IInv, TypeOK
<1>2. ASSUME NEW ip \in Ips, NEW id \in Identifiers, WaitingConsume(ip, id) PROVE Told'
  BY <1>2, WaitingConsumeTold
<1>3. ASSUME Follow(waiting), now' = now, DOMAIN counters' \subseteq DOMAIN counters,
             \A k \in DOMAIN counters' : counters'[k] = counters[k]
      PROVE  Told'
  <2>1. CASE waiting' = Nobody
    BY <2>1, GivenUp
  <2>2. CASE /\ waiting' = waiting
             /\ waiting.by \cap (Live(now') \ DOMAIN counters') = {}
    <3>1. \A k : k \in Live(now)' <=> k \in Live(now) /\ k \in DOMAIN counters'
      BY <1>3 DEF Live
    <3>2. \A k \in waiting.by : k \in Live(now) => k \in Live(now)'
      BY <1>3, <2>2, <3>1
    <3>3. \A k \in Live(now)' :
            /\ counters'[k].expires_at = counters[k].expires_at
            /\ counters'[k].count \in Nat /\ counters'[k].count >= counters[k].count
      BY <1>1, <1>3, <3>1 DEF Counter
    <3> QED
      BY <1>1, <1>3, <2>2, <3>1, <3>2, <3>3, StillTold
  <2> QED
    BY <1>3, <2>1, <2>2 DEF Follow
<1>4. ASSUME NEW id \in Identifiers, WaitingClear(id) PROVE Told'
  BY <1>3, <1>4 DEF WaitingClear, ClearIdentifier
<1>5. CASE WaitingForgetAll
  BY <1>3, <1>5 DEF WaitingForgetAll, ForgetAll
<1>6. CASE WaitingTick
  <2>1. now' = now + 1 /\ counters' = counters /\ waiting' = waiting
    BY <1>6 DEF WaitingTick, Tick
  <2>2. \A k : k \in Live(now)' <=> k \in Live(now) /\ counters[k].expires_at > now'
    <3>1. \A k \in DOMAIN counters : counters[k].expires_at \in Nat
      BY DEF IInv, TypeOK, Counter
    <3> QED
      BY <1>1, <2>1, <3>1 DEF Live
  <2>3. \A k \in Live(now)' :
          /\ counters'[k].expires_at = counters[k].expires_at
          /\ counters'[k].count \in Nat /\ counters'[k].count >= counters[k].count
    BY <1>1, <2>1, <2>2 DEF Counter
  <2> QED
    BY <1>1, <2>1, <2>2, <2>3, StillTold
<1>7. CASE UNCHANGED waitingVars
  <2>1. now' = now /\ counters' = counters /\ waiting' = waiting
    BY <1>7 DEF waitingVars, limiterVars
  <2> QED
    BY <2>1 DEF Told, Live
<1> QED
  BY <1>2, <1>4, <1>5, <1>6, <1>7 DEF WaitingNext

LEMMA WaitingInvariance == WaitingSpec => []IInv
<1>1. WaitingInit => IInv
  BY InitIInv DEF WaitingInit
<1>2. IInv /\ [WaitingNext]_waitingVars => IInv'
  <2>1. [WaitingNext]_waitingVars => [LimiterNext]_limiterVars
    BY DEF WaitingNext, waitingVars, LimiterNext, WaitingConsume, WaitingClear, WaitingTick,
           WaitingForgetAll
  <2> QED
    BY <2>1, NextIInv
<1> QED
  BY <1>1, <1>2, PTL DEF WaitingSpec

LEMMA ToldIsHonest == IInv /\ Told => RetryAfterIsHonest
<1> SUFFICES ASSUME IInv, Told PROVE RetryAfterIsHonest
  OBVIOUS
<1>1. /\ now \in Nat /\ waiting.due \in Nat
      /\ waiting.by \subseteq KeysOf(waiting.ip, waiting.id) /\ waiting.by \subseteq Keys
  BY DEF IInv, TypeOK, Told
<1>2. ASSUME now >= waiting.due, NEW k \in waiting.by PROVE ConsumeKey(k).count <= Limit(k)
  <2>1. k \notin Live(now)
    <3>1. k \in Live(now) =>
            /\ counters[k].expires_at \in Nat /\ counters[k].expires_at > now
            /\ counters[k].expires_at <= waiting.due
      BY LiveType DEF Told, IInv, Counter
    <3> QED
      BY <1>1, <1>2, <3>1
  <2>2. ConsumeKey(k).count = 1
    BY <2>1 DEF ConsumeKey
  <2> QED
    BY <2>2, LimitType
<1>3. ASSUME now + TicksPerSecond <= waiting.due PROVE ~Allowed(waiting.ip, waiting.id)
  <2>1. PICK k \in waiting.by : k \in Live(now) /\ counters[k].count >= Limit(k)
    BY <1>3 DEF Told
  <2>2. ConsumeKey(k).count > Limit(k)
    <3>1. ConsumeKey(k).count = counters[k].count + 1 /\ counters[k].count \in Nat
      BY <1>1, <2>1, ConsumeKeyType, LiveType DEF IInv, Counter
    <3> QED
      BY <2>1, <3>1, LimitType
  <2>3. k \in {j \in KeysOf(waiting.ip, waiting.id) : ConsumeKey(j).count > Limit(j)}
    BY <1>1, <2>2
  <2> QED
    BY <2>3, Zenon DEF Allowed, Waits
<1> QED
  BY <1>2, <1>3 DEF RetryAfterIsHonest

\* A refused client that waits the seconds it was told finds every counter that
\* refused it open again, however many others tried the same keys meanwhile,
\* and a whole second earlier it would have been refused (rate_limit.py:84-106).
THEOREM RetryAfterKept == WaitingSpec => []RetryAfterIsHonest
<1>1. WaitingSpec => []Told
  BY InitTold, NextTold, WaitingInvariance, PTL DEF WaitingSpec
<1> QED
  BY <1>1, ToldIsHonest, WaitingInvariance, PTL
=============================================================================
