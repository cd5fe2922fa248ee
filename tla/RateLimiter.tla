---------------------------- MODULE RateLimiter ----------------------------
(***************************************************************************)
(* AuthenticationRateLimiter of xxx-main/auth_api/rate_limit.py: the       *)
(* process-local fixed-window counters that throttle POST /auth/token.     *)
(*                                                                         *)
(* Neither consume() nor clear_identifier() awaits anything while it holds *)
(* the asyncio lock, and the lock is therefore always free when a          *)
(* coroutine asks for it: each call is one step of the event loop, from    *)
(* the clock reading to the release.                                       *)
(*                                                                         *)
(* Time is counted in ticks, several to the second, because the clock is a *)
(* float and the Retry-After header a whole number of seconds.             *)
(***************************************************************************)
EXTENDS Integers, FiniteSets, FiniteSetsExt

CONSTANTS
  Ips,               \* client addresses
  Identifiers,       \* resolved identifiers, "kind:value"
  TicksPerSecond,    \* resolution of the clock
  WindowSeconds,     \* AUTH_RATE_LIMIT_WINDOW_SECONDS
  IdentifierLimit,   \* AUTH_RATE_LIMIT_PER_IDENTIFIER
  IpLimit,           \* AUTH_RATE_LIMIT_PER_IP
  MaxEntries,        \* max_entries of the constructor
  MaxTime,           \* bound: the clock stops here
  MaxCount           \* bound: no counter is charged beyond this

\* config.py:54-59 rejects every other value of the first three at startup.
ASSUME LimiterAssumption ==
  /\ WindowSeconds \in Nat \ {0}
  /\ IdentifierLimit \in Nat \ {0}
  /\ IpLimit \in Nat \ {0}
  /\ TicksPerSecond \in Nat \ {0}
  /\ MaxEntries \in Nat \ {0, 1}
  /\ MaxTime \in Nat
  /\ MaxCount \in Nat

VARIABLES
  now,       \* the monotonic clock
  counters,  \* the dict: key -> [count, expires_at]
  older      \* the dict's order: <<k, j>> when k was inserted before j

limiterVars == <<now, counters, older>>

-----------------------------------------------------------------------------
(* Keys and windows.                                                       *)

\* The HMAC digests of the two scopes never collide: a key is its scope and
\* its value.
IpKey(ip) == <<"ip", ip>>
IdentifierKey(id) == <<"id", id>>
Keys == ({"ip"} \X Ips) \cup ({"id"} \X Identifiers)
KeysOf(ip, id) == {IpKey(ip), IdentifierKey(id)}

Limit(k) == IF k[1] = "ip" THEN IpLimit ELSE IdentifierLimit
Window == WindowSeconds * TicksPerSecond

\* The keys _prune keeps: their window is still open.
Live_AtClose(n) == {k \in DOMAIN counters : counters[k].expires_at >= n}
Live(n) == {k \in DOMAIN counters : counters[k].expires_at > n}

-----------------------------------------------------------------------------
(* _consume_key: charge one attempt to the open window of the key, or open *)
(* a new one. A refused attempt is charged too, and never moves the end of *)
(* the window.                                                             *)

ConsumeKey_Sliding(k) ==
  [count |-> IF k \in Live(now) THEN counters[k].count + 1 ELSE 1,
   expires_at |-> now + Window]
ConsumeKey_Uncharged(k) ==
  IF k \in Live(now)
  THEN [counters[k] EXCEPT !.count = IF @ < Limit(k) THEN @ + 1 ELSE 1]
  ELSE [count |-> 1, expires_at |-> now + Window]
ConsumeKey_FromZero(k) ==
  IF k \in Live(now)
  THEN [counters[k] EXCEPT !.count = @ + 1]
  ELSE [count |-> 0, expires_at |-> now + Window]
ConsumeKey(k) ==
  IF k \in Live(now)
  THEN [counters[k] EXCEPT !.count = @ + 1]
  ELSE [count |-> 1, expires_at |-> now + Window]

-----------------------------------------------------------------------------
(* The decision of consume(), taken from the two counters it has charged.  *)

\* The ticks left in the windows whose limit this attempt exceeds.
Waits_OffByOne(ip, id) ==
  {ConsumeKey(k).expires_at - now :
     k \in {j \in KeysOf(ip, id) : ConsumeKey(j).count > Limit(j) + 1}}
Waits(ip, id) ==
  {ConsumeKey(k).expires_at - now :
     k \in {j \in KeysOf(ip, id) : ConsumeKey(j).count > Limit(j)}}

Allowed(ip, id) == Waits(ip, id) = {}

Ceil_Floor(ticks) == ticks \div TicksPerSecond
Ceil(ticks) == (ticks + TicksPerSecond - 1) \div TicksPerSecond

\* retry_after_seconds; 0 when the attempt is allowed.
RetryAfterSeconds(ip, id) ==
  IF Allowed(ip, id) THEN 0 ELSE Max({1, Ceil(Max(Waits(ip, id)))})

-----------------------------------------------------------------------------
(* _prune on overflow: the dict is sorted by expires_at, a stable sort, so *)
(* ties are in insertion order; the first entries beyond max_entries go.   *)

Before_LeastUsed(entries, order, k, j) ==
  \/ entries[k].count < entries[j].count
  \/ entries[k].count = entries[j].count /\ <<k, j>> \in order
Before(entries, order, k, j) ==
  \/ entries[k].expires_at < entries[j].expires_at
  \/ entries[k].expires_at = entries[j].expires_at /\ <<k, j>> \in order

Overflow_OffByOne(entries) ==
  Max({0, Cardinality(DOMAIN entries) - MaxEntries - 1})
Overflow(entries) ==
  IF Cardinality(DOMAIN entries) > MaxEntries
  THEN Cardinality(DOMAIN entries) - MaxEntries
  ELSE 0

\* The sets of the n entries that stand first; there is exactly one.
Oldest(entries, order, n) ==
  {out \in SUBSET DOMAIN entries :
     /\ Cardinality(out) = n
     /\ \A k \in out, j \in DOMAIN entries \ out : Before(entries, order, k, j)}

Only(order, keys) == order \cap (keys \X keys)
PutLast(k, keys, order) == IF k \in keys THEN order ELSE order \cup (keys \X {k})

-----------------------------------------------------------------------------
(* The operations.                                                         *)

\* The dict after both _consume_key calls and before the second _prune.
Charged(ip, id) ==
  [k \in Live(now) \cup KeysOf(ip, id) |->
     IF k \in KeysOf(ip, id) THEN ConsumeKey(k) ELSE counters[k]]

ChargedOrder(ip, id) ==
  PutLast(IdentifierKey(id), Live(now) \cup {IpKey(ip)},
          PutLast(IpKey(ip), Live(now), Only(older, Live(now))))

\* consume(): prune, charge the address, charge the identifier, prune. The
\* first prune finds no overflow: SizeBound holds between two calls.
Consume(ip, id) ==
  LET entries == Charged(ip, id)
      order == ChargedOrder(ip, id)
  IN  /\ \A k \in KeysOf(ip, id) : ConsumeKey(k).count <= MaxCount
      /\ \E out \in Oldest(entries, order, Overflow(entries)) :
           LET kept == DOMAIN entries \ out
           IN  /\ counters' = [k \in kept |-> entries[k]]
               /\ older' = Only(order, kept)
      /\ UNCHANGED now

\* clear_identifier(): forget the identifier's counter, not the address's.
ClearIdentifier(id) ==
  LET kept == DOMAIN counters \ {IdentifierKey(id)}
  IN  /\ counters' = [k \in kept |-> counters[k]]
      /\ older' = Only(older, kept)
      /\ UNCHANGED now

Tick ==
  /\ now < MaxTime
  /\ now' = now + 1
  /\ UNCHANGED <<counters, older>>

\* The process is replaced (a redeploy, a crash, the bot's /STOP): the
\* counters are kept nowhere else.
ForgetAll ==
  /\ counters' = [k \in {} |-> [count |-> 0, expires_at |-> 0]]
  /\ older' = {}
  /\ UNCHANGED now

LimiterInit ==
  /\ now = 0
  /\ counters = [k \in {} |-> [count |-> 0, expires_at |-> 0]]
  /\ older = {}

LimiterNext ==
  \/ \E ip \in Ips, id \in Identifiers : Consume(ip, id)
  \/ \E id \in Identifiers : ClearIdentifier(id)
  \/ Tick
  \/ ForgetAll

LimiterSpec == LimiterInit /\ [][LimiterNext]_limiterVars

-----------------------------------------------------------------------------
(* Properties.                                                             *)

Counter == [count : Nat \ {0}, expires_at : Nat]

\* The variables hold what the dataclass and the dict can hold.
TypeOK ==
  /\ now \in Nat
  /\ DOMAIN counters \subseteq Keys
  /\ counters \in [DOMAIN counters -> Counter]
  /\ older \subseteq (DOMAIN counters) \X (DOMAIN counters)

\* Between two calls the dict never holds more than max_entries counters,
\* whatever mix of new addresses and identifiers arrives (_prune runs before
\* and after the two insertions of consume()).
SizeBound ==
  /\ IsFiniteSet(DOMAIN counters)
  /\ Cardinality(DOMAIN counters) <= MaxEntries

\* No key is blocked for longer than one window from now.
WindowBound == \A k \in DOMAIN counters : counters[k].expires_at <= now + Window

\* The dict stands sorted by expires_at although no insertion sorts it: a
\* counter's window never moves, and an expired counter is pruned before its
\* key is charged again, so that insertion order is expiry order and the
\* overflow sort of _prune evicts in order of age.
AgeOrder ==
  /\ \A k, j \in DOMAIN counters :
       k # j => (<<k, j>> \in older <=> <<j, k>> \notin older)
  /\ \A k, j \in DOMAIN counters :
       <<k, j>> \in older =>
         k # j /\ counters[k].expires_at <= counters[j].expires_at
  /\ WindowBound

WindowsStay ==
  \A k \in Live(now') \cap DOMAIN counters' :
    /\ counters'[k].expires_at = counters[k].expires_at
    /\ counters'[k].count >= counters[k].count

LossExplained ==
  \A k \in Live(now') \ DOMAIN counters' :
    \/ DOMAIN counters' = DOMAIN counters \ {k} /\ k[1] = "id"
    \/ DOMAIN counters' = {}
    \/ /\ Cardinality(DOMAIN counters') = MaxEntries
       /\ \A j \in DOMAIN counters' : j \in Live(now) => <<k, j>> \in older

\* A step never shortens, extends or refunds a window that stays open: a
\* refused attempt neither moves expires_at nor lowers the count, so the
\* Retry-After a client was given stays true while others keep trying.
WindowNeverMoves == [][WindowsStay]_limiterVars

\* An open window is forgotten early in three ways only: alone (the
\* identifier is cleared), with every other one (the process restarts), or as
\* one of the oldest counters of a dict that is full of younger ones.
ForgottenForCause == [][LossExplained]_limiterVars
=============================================================================
