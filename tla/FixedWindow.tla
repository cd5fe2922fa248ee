---------------------------- MODULE FixedWindow ----------------------------
(***************************************************************************)
(* What the authentication rate limiter promises: every address and every  *)
(* identifier has a window of fixed length, opened by its first attempt,   *)
(* and an attempt is allowed when both windows still have room. A closed   *)
(* window is gone at once; nothing is said of dicts, pruning or sorting.   *)
(***************************************************************************)
EXTENDS Integers, FiniteSets

CONSTANTS Ips, Identifiers, IdentifierLimit, IpLimit, Window, MaxEntries

VARIABLES
  now,      \* the time
  used,     \* attempts in the open window of each key, 0 when none is open
  closes,   \* when that window closes, 0 when none is open
  allowed   \* the answer to the last attempt

vars == <<now, used, closes, allowed>>

Keys == ({"ip"} \X Ips) \cup ({"id"} \X Identifiers)
Limit(k) == IF k[1] = "ip" THEN IpLimit ELSE IdentifierLimit
Open(u) == {k \in Keys : u[k] > 0}

\* used and closes become u and c, less the windows of the keys in gone.
Become(u, c, gone) ==
  /\ used' = [k \in Keys |-> IF k \in gone THEN 0 ELSE u[k]]
  /\ closes' = [k \in Keys |-> IF k \in gone THEN 0 ELSE c[k]]

\* An attempt is charged to both of its keys, refused or not. When more than
\* MaxEntries windows would be open, the surplus that closes first is dropped.
Attempt(ip, id) ==
  LET charged == {<<"ip", ip>>, <<"id", id>>}
      u == [k \in Keys |-> IF k \in charged THEN used[k] + 1 ELSE used[k]]
      c == [k \in Keys |-> IF u[k] = 1 /\ k \in charged
                           THEN now + Window ELSE closes[k]]
  IN  /\ allowed' = (\A k \in charged : u[k] <= Limit(k))
      /\ \E gone \in SUBSET Open(u) :
           /\ \A k \in gone, j \in Open(u) \ gone : c[k] <= c[j]
           /\ gone # {} => Cardinality(Open(u) \ gone) = MaxEntries
           /\ Cardinality(Open(u) \ gone) <= MaxEntries
           /\ Become(u, c, gone)
      /\ UNCHANGED now

\* The password was proved: the identifier starts afresh, the address does not.
Forgive(id) ==
  /\ Become(used, closes, {<<"id", id>>})
  /\ UNCHANGED <<now, allowed>>

ForgetAll ==
  /\ Become(used, closes, Keys)
  /\ UNCHANGED <<now, allowed>>

Advance ==
  /\ now' = now + 1
  /\ Become(used, closes, {k \in Keys : closes[k] <= now'})
  /\ UNCHANGED allowed

Init ==
  /\ now = 0
  /\ used = [k \in Keys |-> 0]
  /\ closes = [k \in Keys |-> 0]
  /\ allowed = TRUE

Next ==
  \/ \E ip \in Ips, id \in Identifiers : Attempt(ip, id)
  \/ \E id \in Identifiers : Forgive(id)
  \/ ForgetAll
  \/ Advance

Spec == Init /\ [][Next]_vars
=============================================================================
