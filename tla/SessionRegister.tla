-------------------------- MODULE SessionRegister --------------------------
(***************************************************************************)
(* What CookieSessionManager promises the handlers of /cookie, whatever    *)
(* goes on between its threads: one session, dropped as a whole when a     *)
(* login begins, established at once with the cookies of that very login,  *)
(* and given out as it stands. Only expiry may take single cookies of it.  *)
(***************************************************************************)
EXTENDS Integers

CONSTANTS Handlers, Names

VARIABLES
  held,     \* the session: name -> the login its cookie is of
  begun,    \* logins begun so far
  given     \* what each handler was last given

vars == <<held, begun, given>>

Nothing == [n \in {} |-> 0]

Init == held = Nothing /\ begun = 0 /\ given = [h \in Handlers |-> Nothing]

BeginLogin ==
  /\ begun' = begun + 1
  /\ held' = Nothing
  /\ UNCHANGED given

\* The latest login succeeds: its handler is given the whole new session.
Establish(h) ==
  /\ held = Nothing
  /\ \E names \in (SUBSET Names) \ {{}} : held' = [n \in names |-> begun]
  /\ given' = [given EXCEPT ![h] = held']
  /\ UNCHANGED begun

Expire(n) ==
  /\ held' = [m \in DOMAIN held \ {n} |-> held[m]]
  /\ UNCHANGED <<begun, given>>

Read(h) ==
  /\ held # Nothing
  /\ given' = [given EXCEPT ![h] = held]
  /\ UNCHANGED <<held, begun>>

\* A handler forgets what it was given once it has sent it.
Finish(h) ==
  /\ given' = [given EXCEPT ![h] = Nothing]
  /\ UNCHANGED <<held, begun>>

Restart ==
  /\ held' = Nothing
  /\ given' = [h \in Handlers |-> Nothing]
  /\ UNCHANGED begun

Next ==
  \/ BeginLogin \/ Restart
  \/ \E h \in Handlers : Establish(h) \/ Read(h) \/ Finish(h)
  \/ \E n \in Names : Expire(n)

Spec == Init /\ [][Next]_vars
=============================================================================
