----------------------------- MODULE RetryAfter -----------------------------
(***************************************************************************)
(* The retry_after_seconds of a refused attempt, followed by a client that *)
(* waits as it is told while others go on trying.                          *)
(***************************************************************************)
EXTENDS RateLimiter

VARIABLE waiting   \* a refused client: the keys that refused it, and until when

waitingVars == <<limiterVars, waiting>>

Nobody == [ip |-> "none", id |-> "none", by |-> {}, due |-> 0]

Refusal(ip, id) ==
  [ip |-> ip, id |-> id,
   by |-> {k \in KeysOf(ip, id) : ConsumeKey(k).count > Limit(k)},
   due |-> now + RetryAfterSeconds(ip, id) * TicksPerSecond]

\* A client is followed until one of its counters is forgotten early.
Follow(client) ==
  waiting' = IF client.by \cap (Live(now') \ DOMAIN counters') = {}
             THEN client ELSE Nobody

\* The client followed from here on is the one refused now, or the former one,
\* given up if others take the room it waits for once its windows have closed.
WaitingConsume(ip, id) ==
  /\ Consume(ip, id)
  /\ \/ /\ ~Allowed(ip, id)
        /\ Refusal(ip, id).by \subseteq DOMAIN counters'
        /\ Follow(Refusal(ip, id))
     \/ /\ \/ waiting.by \subseteq Live(now)
           \/ waiting.by \cap KeysOf(ip, id) = {}
        /\ Follow(waiting)
     \/ waiting' = Nobody

WaitingClear(id) == ClearIdentifier(id) /\ Follow(waiting)
WaitingForgetAll == ForgetAll /\ Follow(waiting)
WaitingTick == Tick /\ UNCHANGED waiting

WaitingInit == LimiterInit /\ waiting = Nobody

WaitingNext ==
  \/ \E ip \in Ips, id \in Identifiers : WaitingConsume(ip, id)
  \/ \E id \in Identifiers : WaitingClear(id)
  \/ WaitingTick
  \/ WaitingForgetAll

WaitingSpec == WaitingInit /\ [][WaitingNext]_waitingVars

-----------------------------------------------------------------------------
\* Retry-After is honest (rate_limit.py:101-105), however many others try the
\* same keys while they are refused. Once the seconds a refused client was
\* told have passed, no counter that refused it refuses it still; a whole
\* second earlier it is refused whatever it does. It may yet be refused by its
\* other counter, to which the refused attempt was charged as well.
RetryAfterIsHonest ==
  waiting # Nobody =>
    /\ now >= waiting.due =>
         \A k \in waiting.by : ConsumeKey(k).count <= Limit(k)
    /\ now + TicksPerSecond <= waiting.due => ~Allowed(waiting.ip, waiting.id)
=============================================================================
