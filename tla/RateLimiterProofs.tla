------------------------- MODULE RateLimiterProofs -------------------------
(***************************************************************************)
(* Theorems about RateLimiter, for every number of addresses, identifiers, *)
(* attempts and entries, and every length of the windows.                  *)
(*                                                                         *)
(* The inductive invariant joins the types, the size of the dict and its   *)
(* age order: that eviction takes the oldest counters, and that the one    *)
(* inserted last closes last, each rest on the other.                      *)
(***************************************************************************)
EXTENDS RateLimiter, FiniteSetTheorems, TLAPS

-----------------------------------------------------------------------------
(* Insertion orders.                                                       *)

\* order lists every two different members of keys one way, and nothing else.
Total(order, keys) ==
  /\ order \subseteq keys \X keys
  /\ \A k \in keys : <<k, k>> \notin order
  /\ \A k, j \in keys : k # j => (<<k, j>> \in order <=> <<j, k>> \notin order)

\* What stands before another entry closes no later than it.
Sorted(entries, order) ==
  \A k, j \in DOMAIN entries :
    <<k, j>> \in order => entries[k].expires_at <= entries[j].expires_at

\* Removing keys from a dict leaves the others in their order.
LEMMA OnlyTotal ==
  ASSUME NEW order, NEW keys, NEW kept \in SUBSET keys, Total(order, keys)
  PROVE  Total(Only(order, kept), kept)
BY DEF Total, Only

\* A key that is not there yet is inserted after all the others.
LEMMA PutLastTotal ==
  ASSUME NEW order, NEW keys, NEW k, Total(order, keys)
  PROVE  /\ Total(PutLast(k, keys, order), keys \cup {k})
         /\ Only(PutLast(k, keys, order), keys) = order
<1>1. CASE k \in keys
  BY <1>1 DEF Total, PutLast, Only
<1>2. CASE k \notin keys
  BY <1>2 DEF Total, PutLast, Only
<1> QED
  BY <1>1, <1>2

-----------------------------------------------------------------------------
(* The inductive invariant.                                                *)

AgeTotal == Total(older, DOMAIN counters)

IInv ==
  /\ TypeOK
  /\ SizeBound
  /\ AgeTotal
  /\ Sorted(counters, older)
  /\ WindowBound

\* The invariant says of the dict's order what AgeOrder says.
LEMMA IInvImpliesAgeOrder == IInv => AgeOrder
BY DEF IInv, AgeTotal, Total, Sorted, AgeOrder

LEMMA WindowType == Window \in Nat \ {0}
BY LimiterAssumption DEF Window

\* The counters that pruning keeps are counters of the dict.
LEMMA LiveType ==
  ASSUME TypeOK
  PROVE  /\ Live(now) \subseteq DOMAIN counters
         /\ \A k \in Live(now) : counters[k] \in Counter /\ counters[k].expires_at > now
BY DEF TypeOK, Live

\* _consume_key returns a counter; it moves no open window, and opens none
\* that closes later than one window from now.
LEMMA ConsumeKeyType ==
  ASSUME TypeOK, WindowBound, NEW k \in Keys
  PROVE  /\ ConsumeKey(k) \in Counter
         /\ ConsumeKey(k).expires_at <= now + Window
         /\ k \in Live(now) =>
              /\ ConsumeKey(k).expires_at = counters[k].expires_at
              /\ ConsumeKey(k).count = counters[k].count + 1
         /\ k \notin Live(now) => ConsumeKey(k).expires_at = now + Window
<1>1. now \in Nat /\ Window \in Nat \ {0}
  BY WindowType DEF TypeOK
<1>2. CASE k \in Live(now)
  <2>1. /\ counters[k] \in Counter
        /\ counters[k].expires_at <= now + Window
    BY <1>2, LiveType DEF WindowBound
  <2>2. ConsumeKey(k) = [counters[k] EXCEPT !.count = @ + 1]
    BY <1>2 DEF ConsumeKey
  <2> QED
    BY <1>2, <2>1, <2>2 DEF Counter
<1>3. CASE k \notin Live(now)
  <2>1. ConsumeKey(k) = [count |-> 1, expires_at |-> now + Window]
    BY <1>3 DEF ConsumeKey
  <2> QED
    BY <1>1, <1>3, <2>1 DEF Counter
<1> QED
  BY <1>2, <1>3

LEMMA KeysOfType ==
  ASSUME NEW ip \in Ips, NEW id \in Identifiers
  PROVE  KeysOf(ip, id) \subseteq Keys
BY DEF KeysOf, Keys, IpKey, IdentifierKey

\* The dict between the two prunings of consume() is well formed: its order is
\* that of the open windows, with the new ones, which close last, at the end.
LEMMA ChargedOK ==
  ASSUME IInv, NEW ip \in Ips, NEW id \in Identifiers
  PROVE  LET entries == Charged(ip, id)
             order == ChargedOrder(ip, id)
         IN  /\ DOMAIN entries \subseteq Keys
             /\ IsFiniteSet(DOMAIN entries)
             /\ \A k \in DOMAIN entries : entries[k] \in Counter
             /\ Total(order, DOMAIN entries)
             /\ Sorted(entries, order)
             /\ \A k \in DOMAIN entries : entries[k].expires_at <= now + Window
             /\ Only(order, Live(now)) = Only(older, Live(now))
             /\ \A k, j \in DOMAIN entries :
                  <<k, j>> \in order /\ j \in Live(now) => k \in Live(now)
<1> DEFINE entries == Charged(ip, id)
           order == ChargedOrder(ip, id)
           first == Only(older, Live(now))
           second == PutLast(IpKey(ip), Live(now), first)
<1>1. /\ TypeOK /\ WindowBound
      /\ Live(now) \subseteq DOMAIN counters /\ Live(now) \subseteq Keys
      /\ KeysOf(ip, id) \subseteq Keys
      /\ IpKey(ip) \in Keys /\ IdentifierKey(id) \in Keys
  BY LiveType, KeysOfType DEF IInv, TypeOK, KeysOf
<1>2. DOMAIN entries = Live(now) \cup KeysOf(ip, id)
  BY DEF Charged
<1>3. DOMAIN entries = (Live(now) \cup {IpKey(ip)}) \cup {IdentifierKey(id)}
  BY <1>2 DEF KeysOf
<1>4. IsFiniteSet(DOMAIN entries)
  <2>1. IsFiniteSet(Live(now))
    BY <1>1, FS_Subset DEF IInv, SizeBound
  <2>2. IsFiniteSet(Live(now) \cup {IpKey(ip)})
    BY <2>1, FS_AddElement
  <2>3. IsFiniteSet((Live(now) \cup {IpKey(ip)}) \cup {IdentifierKey(id)})
    BY <2>2, FS_AddElement
  <2> QED
    BY <1>3, <2>3
<1>5. \A k \in DOMAIN entries :
        /\ entries[k] \in Counter
        /\ entries[k].expires_at <= now + Window
        /\ k \in Live(now) => entries[k].expires_at = counters[k].expires_at
        /\ k \notin Live(now) => entries[k].expires_at = now + Window
  <2> TAKE k \in DOMAIN entries
  <2>1. CASE k \in KeysOf(ip, id)
    BY <1>1, <1>2, <2>1, ConsumeKeyType DEF Charged
  <2>2. CASE k \notin KeysOf(ip, id)
    BY <1>1, <1>2, <2>2, LiveType DEF Charged, WindowBound
  <2> QED
    BY <2>1, <2>2
<1>6. Total(first, Live(now))
  BY <1>1, OnlyTotal DEF IInv, AgeTotal
<1>7. /\ Total(second, Live(now) \cup {IpKey(ip)})
      /\ Only(second, Live(now)) = first
  BY <1>6, PutLastTotal
<1>8. /\ order = PutLast(IdentifierKey(id), Live(now) \cup {IpKey(ip)}, second)
      /\ Total(order, DOMAIN entries)
      /\ Only(order, Live(now) \cup {IpKey(ip)}) = second
  BY <1>3, <1>7, PutLastTotal DEF ChargedOrder
<1>9. Only(order, Live(now)) = first
  BY <1>7, <1>8 DEF Only
<1>10. \A k, j \in DOMAIN entries :
         <<k, j>> \in order => j \notin Live(now) \/ <<k, j>> \in first
  BY <1>6, <1>7, <1>8, <1>9 DEF PutLast, Only, Total
<1>12. \A k, j \in DOMAIN entries :
         <<k, j>> \in order /\ j \in Live(now) => k \in Live(now)
  BY <1>10 DEF Only
<1>11. Sorted(entries, order)
  <2> SUFFICES ASSUME NEW k \in DOMAIN entries, NEW j \in DOMAIN entries,
                      <<k, j>> \in order
               PROVE  entries[k].expires_at <= entries[j].expires_at
    BY DEF Sorted
  <2>1. CASE j \notin Live(now)
    BY <1>5, <2>1
  <2>2. CASE j \in Live(now)
    <3>1. <<k, j>> \in older /\ k \in Live(now)
      BY <1>10, <2>2 DEF Only
    <3> QED
      BY <1>1, <1>5, <2>2, <3>1 DEF IInv, Sorted
  <2> QED
    BY <2>1, <2>2
<1> QED
  BY <1>1, <1>2, <1>4, <1>5, <1>8, <1>9, <1>11, <1>12

\* Dropping entries keeps a dict well formed.
LEMMA KeepSome ==
  ASSUME NEW entries, NEW order, NEW kept \in SUBSET DOMAIN entries,
         DOMAIN entries \subseteq Keys,
         \A k \in DOMAIN entries : entries[k] \in Counter,
         Total(order, DOMAIN entries), Sorted(entries, order),
         \A k \in DOMAIN entries : entries[k].expires_at <= now + Window,
         TypeOK, now' = now,
         counters' = [k \in kept |-> entries[k]], older' = Only(order, kept)
  PROVE  TypeOK' /\ AgeTotal' /\ Sorted(counters, older)' /\ WindowBound'
<1>1. DOMAIN counters' = kept /\ \A k \in kept : counters'[k] = entries[k]
  OBVIOUS
<1>2. TypeOK'
  BY <1>1 DEF TypeOK, Only
<1>3. AgeTotal'
  BY <1>1, OnlyTotal DEF AgeTotal
<1>4. Sorted(counters, older)'
  BY <1>1 DEF Sorted, Only
<1>5. WindowBound'
  BY <1>1 DEF WindowBound, Window
<1> QED
  BY <1>2, <1>3, <1>4, <1>5

-----------------------------------------------------------------------------
(* The invariant holds initially and every step preserves it.              *)

LEMMA InitIInv == LimiterInit => IInv
<1> SUFFICES ASSUME LimiterInit PROVE IInv
  OBVIOUS
<1>1. now = 0 /\ DOMAIN counters = {} /\ older = {}
  BY DEF LimiterInit
<1>2. TypeOK
  BY <1>1 DEF TypeOK
<1>3. SizeBound
  BY <1>1, FS_EmptySet, LimiterAssumption DEF SizeBound
<1>4. AgeTotal /\ Sorted(counters, older) /\ WindowBound
  BY <1>1 DEF AgeTotal, Total, Sorted, WindowBound
<1> QED
  BY <1>2, <1>3, <1>4 DEF IInv

\* The size of what the overflow sort leaves.
LEMMA OldestLeaves ==
  ASSUME NEW entries, NEW order, IsFiniteSet(DOMAIN entries),
         NEW out \in Oldest(entries, order, Overflow(entries))
  PROVE  /\ out \subseteq DOMAIN entries
         /\ IsFiniteSet(DOMAIN entries \ out)
         /\ Cardinality(DOMAIN entries \ out) <= MaxEntries
         /\ out # {} => Cardinality(DOMAIN entries \ out) = MaxEntries
         /\ \A k \in out, j \in DOMAIN entries \ out : Before(entries, order, k, j)
<1>1. /\ out \subseteq DOMAIN entries
      /\ Cardinality(out) = Overflow(entries)
      /\ \A k \in out, j \in DOMAIN entries \ out : Before(entries, order, k, j)
  BY DEF Oldest
<1>2. /\ IsFiniteSet(DOMAIN entries \ out)
      /\ Cardinality(DOMAIN entries \ out) = Cardinality(DOMAIN entries) - Cardinality(out)
  <2>1. DOMAIN entries \cap out = out
    BY <1>1
  <2> QED
    BY <2>1, FS_Difference
<1>3. Cardinality(DOMAIN entries) \in Nat /\ MaxEntries \in Nat
  BY FS_CardinalityType, LimiterAssumption
<1>4. out # {} => Cardinality(out) # 0
  BY <1>1, FS_Subset, FS_EmptySet
<1> QED
  BY <1>1, <1>2, <1>3, <1>4 DEF Overflow

LEMMA ConsumeIInv ==
  ASSUME IInv, NEW ip \in Ips, NEW id \in Identifiers, Consume(ip, id)
  PROVE  IInv'
<1> DEFINE entries == Charged(ip, id)
           order == ChargedOrder(ip, id)
<1>1. PICK out \in Oldest(entries, order, Overflow(entries)) :
        /\ counters' = [k \in DOMAIN entries \ out |-> entries[k]]
        /\ older' = Only(order, DOMAIN entries \ out)
        /\ now' = now
  BY DEF Consume
<1>2. /\ IsFiniteSet(DOMAIN entries \ out)
      /\ Cardinality(DOMAIN entries \ out) <= MaxEntries
  BY ChargedOK, OldestLeaves
<1>3. SizeBound'
  <2>1. DOMAIN counters' = DOMAIN entries \ out
    BY <1>1
  <2> QED
    BY <1>2, <2>1 DEF SizeBound
<1>4. TypeOK
  BY DEF IInv
<1>5. TypeOK' /\ AgeTotal' /\ Sorted(counters, older)' /\ WindowBound'
  <2> HIDE DEF entries, order
  <2>1. DOMAIN entries \ out \in SUBSET DOMAIN entries
    OBVIOUS
  <2>2. /\ DOMAIN entries \subseteq Keys
        /\ \A k \in DOMAIN entries : entries[k] \in Counter
        /\ Total(order, DOMAIN entries) /\ Sorted(entries, order)
        /\ \A k \in DOMAIN entries : entries[k].expires_at <= now + Window
    BY ChargedOK DEF entries, order
  <2> QED
    BY <1>1, <1>4, <2>1, <2>2, KeepSome
<1> QED
  BY <1>3, <1>5 DEF IInv

LEMMA ClearIdentifierIInv ==
  ASSUME IInv, NEW id \in Identifiers, ClearIdentifier(id)
  PROVE  IInv'
<1> DEFINE kept == DOMAIN counters \ {IdentifierKey(id)}
<1>1. /\ counters' = [k \in kept |-> counters[k]]
      /\ older' = Only(older, kept)
      /\ now' = now
  BY DEF ClearIdentifier
<1>2. SizeBound'
  <2>1. DOMAIN counters' = kept /\ kept \subseteq DOMAIN counters
    BY <1>1
  <2> QED
    BY <2>1, FS_Subset, FS_CardinalityType, LimiterAssumption DEF IInv, SizeBound
<1>3. TypeOK' /\ AgeTotal' /\ Sorted(counters, older)' /\ WindowBound'
  <2>1. /\ kept \in SUBSET DOMAIN counters
        /\ DOMAIN counters \subseteq Keys
        /\ \A k \in DOMAIN counters : counters[k] \in Counter
        /\ Total(older, DOMAIN counters) /\ Sorted(counters, older)
        /\ \A k \in DOMAIN counters : counters[k].expires_at <= now + Window
        /\ TypeOK
    BY DEF IInv, TypeOK, AgeTotal, WindowBound
  <2> QED
    BY <1>1, <2>1, KeepSome
<1> QED
  BY <1>2, <1>3 DEF IInv

LEMMA TickIInv == IInv /\ Tick => IInv'
<1> SUFFICES ASSUME IInv, Tick PROVE IInv'
  OBVIOUS
<1>1. now' = now + 1 /\ counters' = counters /\ older' = older
  BY DEF Tick
<1>2. TypeOK' /\ SizeBound' /\ AgeTotal' /\ Sorted(counters, older)'
  BY <1>1 DEF IInv, TypeOK, SizeBound, AgeTotal, Sorted
<1>3. WindowBound'
  <2>1. /\ now \in Nat /\ Window \in Nat /\ Window' = Window
        /\ \A k \in DOMAIN counters :
             counters[k].expires_at \in Nat /\ counters[k].expires_at <= now + Window
    BY WindowType DEF IInv, TypeOK, WindowBound, Counter, Window
  <2> QED
    BY <1>1, <2>1 DEF WindowBound
<1> QED
  BY <1>2, <1>3 DEF IInv

LEMMA ForgetAllIInv == IInv /\ ForgetAll => IInv'
<1> SUFFICES ASSUME IInv, ForgetAll PROVE IInv'
  OBVIOUS
<1>1. now' = now /\ DOMAIN counters' = {} /\ older' = {}
  BY DEF ForgetAll
<1>2. TypeOK'
  BY <1>1 DEF IInv, TypeOK
<1>3. SizeBound'
  BY <1>1, FS_EmptySet, LimiterAssumption DEF SizeBound
<1>4. AgeTotal' /\ Sorted(counters, older)' /\ WindowBound'
  BY <1>1 DEF AgeTotal, Total, Sorted, WindowBound
<1> QED
  BY <1>2, <1>3, <1>4 DEF IInv

LEMMA NextIInv == IInv /\ [LimiterNext]_limiterVars => IInv'
<1> SUFFICES ASSUME IInv, [LimiterNext]_limiterVars PROVE IInv'
  OBVIOUS
<1>1. ASSUME NEW ip \in Ips, NEW id \in Identifiers, Consume(ip, id) PROVE IInv'
  BY <1>1, ConsumeIInv
<1>2. ASSUME NEW id \in Identifiers, ClearIdentifier(id) PROVE IInv'
  BY <1>2, ClearIdentifierIInv
<1>3. CASE Tick
  BY <1>3, TickIInv
<1>4. CASE ForgetAll
  BY <1>4, ForgetAllIInv
<1>5. CASE UNCHANGED limiterVars
  BY <1>5 DEF limiterVars, IInv, TypeOK, SizeBound, AgeTotal, Sorted, WindowBound, Window
<1> QED
  BY <1>1, <1>2, <1>3, <1>4, <1>5 DEF LimiterNext

\* The inductive invariant is one.
THEOREM Invariance == LimiterSpec => []IInv
BY InitIInv, NextIInv, PTL DEF LimiterSpec

\* The clock, the dict and its order are always what the code's types say
\* (rate_limit.py:18-48).
THEOREM TypeCorrect == LimiterSpec => []TypeOK
<1>1. IInv => TypeOK
  BY DEF IInv
<1> QED
  BY <1>1, Invariance, PTL

\* The dict of counters never outgrows max_entries between two calls, whatever
\* the mix of addresses and identifiers (rate_limit.py:69-82).
THEOREM BoundedSize == LimiterSpec => []SizeBound
<1>1. IInv => SizeBound
  BY DEF IInv
<1> QED
  BY <1>1, Invariance, PTL

\* Insertion order is expiry order, so that the overflow sort evicts the
\* oldest counters, and no key is blocked beyond one window from now
\* (rate_limit.py:60-82).
THEOREM OrderedByAge == LimiterSpec => []AgeOrder
BY IInvImpliesAgeOrder, Invariance, PTL

-----------------------------------------------------------------------------
(* The steps.                                                              *)

LEMMA ConsumeSteps ==
  ASSUME IInv, NEW ip \in Ips, NEW id \in Identifiers, Consume(ip, id)
  PROVE  /\ WindowsStay /\ LossExplained
         /\ \A k \in Live(now') \ DOMAIN counters' :
              Cardinality(DOMAIN counters') = MaxEntries
<1> DEFINE entries == Charged(ip, id)
           order == ChargedOrder(ip, id)
<1>1. PICK out \in Oldest(entries, order, Overflow(entries)) :
        /\ counters' = [k \in DOMAIN entries \ out |-> entries[k]]
        /\ now' = now
  BY DEF Consume
<1>2. /\ TypeOK /\ WindowBound
      /\ now \in Nat
      /\ Live(now) \subseteq DOMAIN counters /\ Live(now) \subseteq Keys
      /\ Live(now) \subseteq DOMAIN entries
      /\ \A k \in Live(now) : counters[k] \in Counter
  BY LiveType DEF IInv, TypeOK, Charged
<1>3. \A k \in Live(now) :
        /\ entries[k].expires_at = counters[k].expires_at
        /\ entries[k].count >= counters[k].count
  <2> TAKE k \in Live(now)
  <2>1. CASE k \in KeysOf(ip, id)
    <3>1. entries[k] = ConsumeKey(k)
      BY <1>2, <2>1 DEF Charged
    <3> QED
      BY <1>2, <3>1, ConsumeKeyType DEF Counter
  <2>2. CASE k \notin KeysOf(ip, id)
    <3>1. entries[k] = counters[k]
      BY <1>2, <2>2 DEF Charged
    <3> QED
      BY <1>2, <3>1 DEF Counter
  <2> QED
    BY <2>1, <2>2
<1>4. DOMAIN counters' = DOMAIN entries \ out
  BY <1>1
<1>5. WindowsStay
  BY <1>1, <1>3, <1>4 DEF WindowsStay
<1>6. ASSUME NEW k \in Live(now') \ DOMAIN counters'
      PROVE  /\ Cardinality(DOMAIN counters') = MaxEntries
             /\ \A j \in DOMAIN counters' :
                  j \in Live(now) => <<k, j>> \in older
  <2> HIDE DEF entries, order
  <2>1. k \in Live(now) /\ k \in out
    BY <1>1, <1>2, <1>4
  <2>2. /\ IsFiniteSet(DOMAIN entries)
        /\ Total(order, DOMAIN entries) /\ Sorted(entries, order)
        /\ Only(order, Live(now)) = Only(older, Live(now))
        /\ \A j \in DOMAIN entries : entries[j] \in Counter
    BY ChargedOK DEF entries, order
  <2>3. Cardinality(DOMAIN counters') = MaxEntries
    BY <1>4, <2>1, <2>2, OldestLeaves
  <2>4. ASSUME NEW j \in DOMAIN counters', j \in Live(now)
        PROVE  <<k, j>> \in older
    <3>1. j \in DOMAIN entries /\ j # k /\ Before(entries, order, k, j)
      BY <1>4, <2>1, <2>2, <2>4, OldestLeaves
    <3>2. <<k, j>> \in order
      <4>1. CASE <<k, j>> \notin order
        <5>1. <<j, k>> \in order
          BY <1>2, <2>1, <2>2, <3>1, <4>1 DEF Total
        <5>2. entries[j].expires_at <= entries[k].expires_at
          BY <1>2, <2>1, <2>2, <3>1, <5>1 DEF Sorted
        <5>3. entries[k].expires_at < entries[j].expires_at
          BY <3>1, <4>1 DEF Before
        <5> QED
          BY <1>2, <2>1, <2>2, <3>1, <5>2, <5>3 DEF Counter
      <4> QED
        BY <4>1
    <3> QED
      BY <2>1, <2>2, <2>4, <3>2 DEF Only
  <2> QED
    BY <2>3, <2>4
<1> QED
  BY <1>5, <1>6 DEF LossExplained

\* A counter that consume() opens is not among those its own overflow sort
\* evicts: it closes last and stands last, and max_entries is two or more.
LEMMA FreshStays ==
  ASSUME IInv, NEW ip \in Ips, NEW id \in Identifiers, Consume(ip, id),
         NEW k \in KeysOf(ip, id), k \notin Live(now)
  PROVE  k \in DOMAIN counters' /\ counters'[k] = ConsumeKey(k)
<1> DEFINE entries == Charged(ip, id)
           order == ChargedOrder(ip, id)
<1>1. PICK out \in Oldest(entries, order, Overflow(entries)) :
        counters' = [j \in DOMAIN entries \ out |-> entries[j]]
  BY DEF Consume
<1>2. /\ k \in DOMAIN entries /\ entries[k] = ConsumeKey(k)
      /\ DOMAIN entries = Live(now) \cup KeysOf(ip, id)
  BY DEF Charged
<1>3. entries[k].expires_at = now + Window
  <2>1. k \in Keys
    BY KeysOfType
  <2> QED
    BY <1>2, <2>1, ConsumeKeyType DEF IInv
<1>4. /\ IsFiniteSet(DOMAIN entries)
      /\ \A j \in DOMAIN entries : entries[j] \in Counter /\ entries[j].expires_at <= now + Window
      /\ Total(order, DOMAIN entries)
      /\ \A i, j \in DOMAIN entries :
           <<i, j>> \in order /\ j \in Live(now) => i \in Live(now)
  BY ChargedOK
<1> HIDE DEF entries, order
<1>5. ASSUME k \in out PROVE FALSE
  <2>1. /\ out \subseteq DOMAIN entries
        /\ Cardinality(DOMAIN entries \ out) = MaxEntries
        /\ \A j \in DOMAIN entries \ out : Before(entries, order, k, j)
    BY <1>4, <1>5, OldestLeaves
  <2>2. ASSUME NEW j \in DOMAIN entries \ out PROVE j \in KeysOf(ip, id) \ {k}
    <3>1. /\ Before(entries, order, k, j)
          /\ entries[j].expires_at \in Nat /\ entries[j].expires_at <= now + Window
          /\ now + Window \in Nat
      BY <1>2, <1>3, <1>4, <2>1, WindowType DEF IInv, TypeOK, Counter
    <3>2. <<k, j>> \in order
      BY <1>3, <3>1 DEF Before
    <3> QED
      BY <1>2, <1>4, <1>5, <2>2, <3>2
  <2>3. PICK other : DOMAIN entries \ out \subseteq {other}
    <3>1. k = IpKey(ip) \/ k = IdentifierKey(id)
      BY DEF KeysOf
    <3>2. k = IpKey(ip) => DOMAIN entries \ out \subseteq {IdentifierKey(id)}
      BY <2>2 DEF KeysOf
    <3>3. k = IdentifierKey(id) => DOMAIN entries \ out \subseteq {IpKey(ip)}
      BY <2>2 DEF KeysOf
    <3> QED
      BY <3>1, <3>2, <3>3
  <2>4. Cardinality(DOMAIN entries \ out) <= 1
    <3>1. IsFiniteSet({other}) /\ Cardinality({other}) = 1
      BY FS_Singleton
    <3> QED
      BY <2>3, <3>1, FS_Subset
  <2> QED
    BY <2>1, <2>4, LimiterAssumption
<1> QED
  BY <1>1, <1>2, <1>5

LEMMA NextSteps ==
  IInv /\ [LimiterNext]_limiterVars
    => [WindowsStay]_limiterVars /\ [LossExplained]_limiterVars
<1> SUFFICES ASSUME IInv, LimiterNext PROVE WindowsStay /\ LossExplained
  OBVIOUS
<1>1. ASSUME NEW ip \in Ips, NEW id \in Identifiers, Consume(ip, id)
      PROVE  WindowsStay /\ LossExplained
  BY <1>1, ConsumeSteps
<1>2. ASSUME NEW id \in Identifiers, ClearIdentifier(id)
      PROVE  WindowsStay /\ LossExplained
  <2>1. /\ DOMAIN counters' = DOMAIN counters \ {IdentifierKey(id)}
        /\ \A k \in DOMAIN counters' : counters'[k] = counters[k]
        /\ Live(now') \subseteq DOMAIN counters
    BY <1>2 DEF ClearIdentifier, Live
  <2>2. \A k \in DOMAIN counters : counters[k] \in Counter
    BY DEF IInv, TypeOK
  <2>3. WindowsStay
    BY <2>1, <2>2 DEF WindowsStay, Counter
  <2>4. \A k \in Live(now') \ DOMAIN counters' : k = IdentifierKey(id)
    BY <2>1
  <2> QED
    BY <2>1, <2>3, <2>4 DEF LossExplained, IdentifierKey
<1>3. CASE Tick
  <2>1. counters' = counters /\ Live(now') \subseteq DOMAIN counters
    BY <1>3 DEF Tick, Live
  <2>2. \A k \in DOMAIN counters : counters[k] \in Counter
    BY DEF IInv, TypeOK
  <2> QED
    BY <2>1, <2>2 DEF WindowsStay, LossExplained, Counter
<1>4. CASE ForgetAll
  <2>1. DOMAIN counters' = {}
    BY <1>4 DEF ForgetAll
  <2> QED
    BY <2>1 DEF WindowsStay, LossExplained
<1> QED
  BY <1>1, <1>2, <1>3, <1>4 DEF LimiterNext

\* No step moves the end of a window that stays open, or refunds an attempt
\* charged to it: refused attempts prolong no lockout (rate_limit.py:60-67).
THEOREM WindowsDoNotMove == LimiterSpec => WindowNeverMoves
<1>1. IInv /\ [LimiterNext]_limiterVars => [WindowsStay]_limiterVars
  BY NextSteps
<1> QED
  BY <1>1, Invariance, PTL DEF LimiterSpec, WindowNeverMoves

\* An open window is lost only to a cleared identifier, a restart, or an
\* overflow by younger windows (rate_limit.py:69-111).
THEOREM LossesAreExplained == LimiterSpec => ForgottenForCause
<1>1. IInv /\ [LimiterNext]_limiterVars => [LossExplained]_limiterVars
  BY NextSteps
<1> QED
  BY <1>1, Invariance, PTL DEF LimiterSpec, ForgottenForCause
=============================================================================
