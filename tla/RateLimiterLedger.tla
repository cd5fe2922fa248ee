------------------------- MODULE RateLimiterLedger -------------------------
(***************************************************************************)
(* What the rate limiter grants over time. The limiter remembers a count   *)
(* per key; this module adds the decision that consume() returned last and *)
(* a history of the attempts it allowed, so that what it grants across the *)
(* border of two windows can be stated, and shows that the limiter         *)
(* implements the abstract FixedWindow.                                    *)
(***************************************************************************)
EXTENDS RateLimiter

VARIABLES
  granted,   \* the attempts allowed per key that are less than a window old
  allowed    \* the last decision

ledgerVars == <<limiterVars, granted, allowed>>

\* An attempt allowed now is the nth of its key at this tick.
Grant(k) ==
  [at |-> now, nth |-> Cardinality({g \in granted[k] : g.at = now}) + 1]

\* The history of a key starts again when its window is forgotten early: the
\* limiter promises nothing across an eviction, a clearing or a restart.
Remember(history) ==
  granted' = [k \in Keys |-> IF k \in Live(now') \ DOMAIN counters'
                             THEN {} ELSE history[k]]

LedgerConsume(ip, id) ==
  /\ Consume(ip, id)
  /\ allowed' = Allowed(ip, id)
  /\ Remember([k \in Keys |-> IF Allowed(ip, id) /\ k \in KeysOf(ip, id)
                              THEN granted[k] \cup {Grant(k)}
                              ELSE granted[k]])

LedgerClear(id) == ClearIdentifier(id) /\ Remember(granted) /\ UNCHANGED allowed

LedgerForgetAll == ForgetAll /\ Remember(granted) /\ UNCHANGED allowed

LedgerTick ==
  /\ Tick
  /\ granted' = [k \in Keys |-> {g \in granted[k] : g.at > now' - Window}]
  /\ UNCHANGED allowed

LedgerInit ==
  /\ LimiterInit
  /\ granted = [k \in Keys |-> {}]
  /\ allowed = TRUE

LedgerNext ==
  \/ \E ip \in Ips, id \in Identifiers : LedgerConsume(ip, id)
  \/ \E id \in Identifiers : LedgerClear(id)
  \/ LedgerTick
  \/ LedgerForgetAll

LedgerSpec == LedgerInit /\ [][LedgerNext]_ledgerVars

-----------------------------------------------------------------------------
(* Properties.                                                             *)

\* A fixed window is no sliding window, and this is how far it is from one:
\* in any interval one window long, wherever it starts, a key is allowed at
\* most twice its limit less one attempts, so long as its counter is neither
\* cleared, evicted nor lost with the process (consume(), _consume_key).
SlidingBound == \A k \in Keys : Cardinality(granted[k]) <= 2 * Limit(k) - 1

-----------------------------------------------------------------------------
(* The eager windows that the lazily pruned dict implements.               *)

CountOf(k) == IF k \in Live(now) THEN counters[k].count ELSE 0
CloseOf(k) == IF k \in Live(now) THEN counters[k].expires_at ELSE 0

Abstract == INSTANCE FixedWindow WITH
  used <- [k \in Keys |-> CountOf(k)],
  closes <- [k \in Keys |-> CloseOf(k)]

\* The dict of rate_limit.py, with its lazy pruning, insertion order and
\* overflow sort, implements per-key windows that vanish when they close, and
\* consume() decides as they do.
ImplementsFixedWindow == Abstract!Spec
=============================================================================
