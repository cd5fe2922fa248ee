------------------------ MODULE CookieSessionProofs ------------------------
(***************************************************************************)
(* Theorems about CookieSession, for any number of handlers, cookies and   *)
(* commands.                                                               *)
(*                                                                         *)
(* The inductive invariant says who may touch the session, and of which    *)
(* login it is: the lock is held by the one handler whose login is on its  *)
(* way, that login is the latest, and whatever is in the jar is of the     *)
(* latest login.                                                           *)
(***************************************************************************)
EXTENDS CookieSession, FiniteSetTheorems, TLAPS

-----------------------------------------------------------------------------
(* The inductive invariant.                                                *)

Jars == UNION {[names -> Nat] : names \in SUBSET Names}

Types ==
  /\ handlers \in [Handlers -> [stage : Stages, refresh : BOOLEAN, since : Nat,
                                login : Nat, cookies : Jars]]
  /\ lock \in Handlers \cup {"free"}
  /\ jar \in Jars /\ stale \subseteq DOMAIN jar
  /\ authenticated \in BOOLEAN /\ logins \in Nat

\* Whoever holds the lock is posting, the latest login, and nobody claims that
\* there is a session.
LockHeld ==
  /\ \A h \in Handlers : handlers[h].stage = "posting" <=> lock = h
  /\ \A h \in Handlers : handlers[h].stage = "posting" =>
       handlers[h].login = logins /\ handlers[h].since < logins
  /\ ~LockFree => ~authenticated

JarOfLatest == \A n \in DOMAIN jar : jar[n] = logins

\* The cookies of a handler are of one login, after its command was received.
Given(h) ==
  LET r == handlers[h]
  IN  /\ r.since <= logins
      /\ r.stage = "to_read" => ~r.refresh
      /\ r.stage \notin {"got", "sending", "answered"} => r.cookies = NoCookies
      /\ \A n, m \in DOMAIN r.cookies : r.cookies[n] = r.cookies[m]
      /\ \A n \in DOMAIN r.cookies :
           r.cookies[n] >= r.since /\ (r.refresh => r.cookies[n] > r.since)

IInv ==
  /\ Types
  /\ LockHeld
  /\ SessionConsistent
  /\ JarOfLatest
  /\ \A h \in Handlers : Given(h)

LEMMA JarsDef ==
  ASSUME NEW f
  PROVE  f \in Jars <=> f \in [DOMAIN f -> Nat] /\ DOMAIN f \in SUBSET Names
BY DEF Jars

\* NoCookies is the one jar without a cookie.
LEMMA NoCookiesJar ==
  /\ NoCookies \in Jars /\ DOMAIN NoCookies = {}
  /\ \A f \in Jars : f = NoCookies <=> DOMAIN f = {}
<1>1. NoCookies \in [DOMAIN NoCookies -> Nat] /\ DOMAIN NoCookies = {}
  BY DEF NoCookies
<1>2. ASSUME NEW f \in Jars, DOMAIN f = {} PROVE f = NoCookies
  BY <1>2, JarsDef DEF NoCookies
<1> QED
  BY <1>1, <1>2, JarsDef

\* What is left of a jar is a jar, of the same login.
LEMMA ActiveJar ==
  ASSUME Types, JarOfLatest
  PROVE  /\ Active \in Jars
         /\ DOMAIN Active = DOMAIN jar \ stale
         /\ \A n \in DOMAIN Active : Active[n] = logins
<1>1. jar \in [DOMAIN jar -> Nat] /\ DOMAIN jar \in SUBSET Names
  BY JarsDef DEF Types
<1>2. /\ DOMAIN Active = DOMAIN jar \ stale
      /\ Active \in [DOMAIN Active -> Nat]
      /\ \A n \in DOMAIN Active : Active[n] = jar[n]
  BY <1>1 DEF Active, Restrict
<1> QED
  BY <1>1, <1>2, JarsDef DEF JarOfLatest

LEMMA IInvInit == Init => IInv
<1> SUFFICES ASSUME Init PROVE IInv
  OBVIOUS
<1>1. \A h \in Handlers : handlers[h] = Slot("idle", FALSE, 0)
  BY DEF Init, Idle
<1>2. Types
  BY NoCookiesJar DEF Types, Init, Idle, Slot, Stages
<1>3. LockHeld
  BY <1>1, SessionAssumption DEF LockHeld, Init, Slot, LockFree
<1>4. SessionConsistent /\ JarOfLatest
  BY NoCookiesJar DEF SessionConsistent, JarOfLatest, Init
<1>5. \A h \in Handlers : Given(h)
  BY <1>1, NoCookiesJar DEF Given, Init, Slot
<1> QED
  BY <1>2, <1>3, <1>4, <1>5 DEF IInv

-----------------------------------------------------------------------------
(* Steps.                                                                  *)

\* A step of a handler to a stage at which it neither posts nor holds cookies
\* it did not have, and which leaves the session alone.
LEMMA MoveKeeps ==
  ASSUME IInv, NEW h \in Handlers, NEW stage \in Stages \ {"posting"},
         Move(h, stage),
         handlers[h].stage # "posting",
         stage = "to_read" => ~handlers[h].refresh,
         handlers[h].stage \in {"got", "sending", "answered"} =>
           stage \in {"got", "sending", "answered"},
         UNCHANGED <<lock, session, logins>>
  PROVE  IInv'
<1> USE DEF IInv
<1>1. /\ handlers' = [handlers EXCEPT ![h].stage = stage]
      /\ \A k \in Handlers :
           handlers'[k] = IF k = h THEN [handlers[k] EXCEPT !.stage = stage] ELSE handlers[k]
      /\ lock' = lock /\ jar' = jar /\ stale' = stale
      /\ authenticated' = authenticated /\ logins' = logins
  BY DEF Move, session, Types
<1>2. \A k \in Handlers :
        /\ handlers'[k].refresh = handlers[k].refresh
        /\ handlers'[k].since = handlers[k].since
        /\ handlers'[k].login = handlers[k].login
        /\ handlers'[k].cookies = handlers[k].cookies
        /\ handlers'[k].stage = IF k = h THEN stage ELSE handlers[k].stage
  BY <1>1 DEF Types
<1>3. Types'
  BY <1>1 DEF Types
<1>4. LockHeld'
  BY <1>1, <1>2 DEF LockHeld, LockFree
<1>5. SessionConsistent' /\ JarOfLatest'
  BY <1>1 DEF SessionConsistent, JarOfLatest, LockFree
<1>6. \A k \in Handlers : Given(k)'
  BY <1>1, <1>2 DEF Given
<1> QED
  BY <1>3, <1>4, <1>5, <1>6

\* What a session looks like once it is dropped.
LEMMA Dropped ==
  ASSUME Clear
  PROVE  /\ jar' \in Jars /\ stale' \subseteq DOMAIN jar' /\ JarOfLatest'
         /\ jar' = NoCookies
BY NoCookiesJar DEF Clear, JarOfLatest

LEMMA ReceiveKeeps ==
  ASSUME IInv, NEW h \in Handlers, NEW refresh \in BOOLEAN, Receive(h, refresh)
  PROVE  IInv'
<1> USE DEF IInv
<1>1. /\ handlers' = [handlers EXCEPT ![h] = Slot("received", refresh, logins)]
      /\ handlers[h].stage = "idle"
      /\ lock' = lock /\ jar' = jar /\ stale' = stale
      /\ authenticated' = authenticated /\ logins' = logins
  BY DEF Receive, session
<1>2. /\ \A k \in Handlers \ {h} : handlers'[k] = handlers[k]
      /\ handlers'[h] = Slot("received", refresh, logins)
  BY <1>1 DEF Types
<1>3. Types'
  BY <1>1, NoCookiesJar DEF Types, Slot, Stages
<1>4. LockHeld'
  BY <1>1, <1>2 DEF LockHeld, LockFree, Slot
<1>5. SessionConsistent' /\ JarOfLatest'
  BY <1>1 DEF SessionConsistent, JarOfLatest, LockFree
<1>6. \A k \in Handlers : Given(k)'
  BY <1>1, <1>2, NoCookiesJar DEF Given, Slot, Types
<1> QED
  BY <1>3, <1>4, <1>5, <1>6

LEMMA LeaveKeeps ==
  ASSUME IInv, NEW h \in Handlers, Leave(h)
  PROVE  IInv'
<1> USE DEF IInv
<1>1. /\ handlers' = [handlers EXCEPT ![h] = Slot("idle", FALSE, 0)]
      /\ handlers[h].stage = "answered"
      /\ lock' = lock /\ jar' = jar /\ stale' = stale
      /\ authenticated' = authenticated /\ logins' = logins
  BY DEF Leave, session, Idle
<1>2. /\ \A k \in Handlers \ {h} : handlers'[k] = handlers[k]
      /\ handlers'[h] = Slot("idle", FALSE, 0)
  BY <1>1 DEF Types
<1>3. Types'
  BY <1>1, NoCookiesJar DEF Types, Slot, Stages
<1>4. LockHeld'
  BY <1>1, <1>2 DEF LockHeld, LockFree, Slot
<1>5. SessionConsistent' /\ JarOfLatest'
  BY <1>1 DEF SessionConsistent, JarOfLatest, LockFree
<1>6. \A k \in Handlers : Given(k)'
  BY <1>1, <1>2, NoCookiesJar DEF Given, Slot, Types
<1> QED
  BY <1>3, <1>4, <1>5, <1>6

\* A login begins only when no other is on its way, and drops the session.
LEMMA StartLoginKeeps ==
  ASSUME IInv, NEW h \in Handlers, StartLogin(h)
  PROVE  IInv'
<1> USE DEF IInv
<1>1. /\ handlers' = [handlers EXCEPT ![h].stage = "posting", ![h].login = logins']
      /\ handlers[h].stage = "to_login"
      /\ lock = "free" /\ lock' = h /\ logins' = logins + 1
      /\ authenticated' = FALSE
  BY DEF StartLogin, Post, LockFree
<1>2. /\ \A k \in Handlers \ {h} : handlers'[k] = handlers[k]
      /\ handlers'[h] = [handlers[h] EXCEPT !.stage = "posting", !.login = logins']
  BY <1>1 DEF Types
<1>3. /\ handlers'[h].stage = "posting" /\ handlers'[h].login = logins'
      /\ handlers'[h].since = handlers[h].since /\ handlers'[h].refresh = handlers[h].refresh
      /\ handlers'[h].cookies = handlers[h].cookies
  BY <1>2 DEF Types
<1>4. Clear
  BY DEF StartLogin
<1>5. Types'
  <2>1. logins' \in Nat
    BY <1>1 DEF Types
  <2>2. handlers' \in [Handlers -> [stage : Stages, refresh : BOOLEAN, since : Nat,
                                    login : Nat, cookies : Jars]]
    BY <1>1, <2>1 DEF Types, Stages
  <2>3. /\ lock' \in Handlers \cup {"free"} /\ authenticated' \in BOOLEAN
        /\ jar' \in Jars /\ stale' \subseteq DOMAIN jar'
    BY <1>1, <1>4, Dropped
  <2> QED
    BY <2>1, <2>2, <2>3 DEF Types
<1>6. LockHeld'
  <2>1. \A k \in Handlers : handlers[k].stage # "posting"
    BY <1>1, SessionAssumption DEF LockHeld
  <2>2. handlers[h].since < logins'
    BY <1>1 DEF Given, Types
  <2>3. \A k \in Handlers : handlers'[k].stage = "posting" <=> lock' = k
    BY <1>1, <1>2, <1>3, <2>1
  <2>4. \A k \in Handlers : handlers'[k].stage = "posting" =>
          handlers'[k].login = logins' /\ handlers'[k].since < logins'
    BY <1>2, <1>3, <2>1, <2>2
  <2> QED
    BY <1>1, <2>3, <2>4 DEF LockHeld
<1>7. SessionConsistent' /\ JarOfLatest'
  BY <1>1, <1>4, Dropped, SessionAssumption DEF SessionConsistent, LockFree
<1>8. \A k \in Handlers : Given(k)'
  <2>1. ASSUME NEW k \in Handlers \ {h} PROVE Given(k)'
    BY <1>1, <1>2, <2>1 DEF Given, Types
  <2>2. Given(h)'
    BY <1>1, <1>3 DEF Given, Types
  <2> QED
    BY <2>1, <2>2
<1> QED
  BY <1>5, <1>6, <1>7, <1>8

\* Only the login that holds the lock sets cookies, and it is the latest.
LEMMA SetCookieKeeps ==
  ASSUME IInv, NEW h \in Handlers, NEW n \in Names, SetCookie(h, n)
  PROVE  IInv'
<1> USE DEF IInv
<1>1. /\ handlers[h].stage = "posting" /\ handlers[h].login = logins
      /\ jar' = [m \in DOMAIN jar \cup {n} |->
                   IF m = n THEN handlers[h].login ELSE jar[m]]
      /\ stale' = stale \ {n}
      /\ handlers' = handlers /\ lock' = lock
      /\ authenticated' = authenticated /\ logins' = logins
  BY DEF SetCookie, LockHeld
<1>2. lock = h /\ lock # "free"
  BY <1>1, SessionAssumption DEF LockHeld
<1>3. /\ jar \in [DOMAIN jar -> Nat] /\ DOMAIN jar \in SUBSET Names /\ logins \in Nat
  BY JarsDef DEF Types
<1>4. /\ DOMAIN jar' = DOMAIN jar \cup {n} /\ jar' \in [DOMAIN jar' -> Nat]
      /\ JarOfLatest'
  BY <1>1, <1>3 DEF JarOfLatest
<1>5. jar' \in Jars
  BY <1>3, <1>4, JarsDef
<1>6. Types'
  BY <1>1, <1>4, <1>5 DEF Types
<1>7. LockHeld' /\ SessionConsistent'
  BY <1>1, <1>2 DEF LockHeld, SessionConsistent, LockFree
<1>8. \A k \in Handlers : Given(k)'
  BY <1>1 DEF Given
<1> QED
  BY <1>4, <1>6, <1>7, <1>8

\* What a worker's call leaves of the handlers when it ends.
LEMMA Returned ==
  ASSUME Types, NEW h \in Handlers, NEW stage \in Stages, NEW cookies \in Jars,
         Return(h, stage, cookies)
  PROVE  /\ handlers' \in [Handlers -> [stage : Stages, refresh : BOOLEAN, since : Nat,
                                        login : Nat, cookies : Jars]]
         /\ \A k \in Handlers \ {h} : handlers'[k] = handlers[k]
         /\ handlers'[h].stage = stage /\ handlers'[h].cookies = cookies
         /\ handlers'[h].refresh = handlers[h].refresh
         /\ handlers'[h].since = handlers[h].since
BY DEF Types, Return

LEMMA LoginKeeps ==
  ASSUME IInv, NEW h \in Handlers, Login(h)
  PROVE  IInv'
<1> USE DEF IInv
<1> DEFINE stage == IF Active # NoCookies THEN "got" ELSE "empty"
<1>1. /\ handlers[h].stage = "posting" /\ lock = h /\ lock' = "free"
      /\ jar' = Active /\ stale' = {} /\ logins' = logins
      /\ authenticated' = (Active # NoCookies)
      /\ Return(h, stage, Active)
  BY DEF Login, Release, LockHeld
<1>2. /\ Active \in Jars /\ \A n \in DOMAIN Active : Active[n] = logins
  BY ActiveJar
<1>3. stage \in Stages /\ stage # "posting" /\ stage # "to_read"
  BY DEF Stages
<1>4. /\ handlers' \in [Handlers -> [stage : Stages, refresh : BOOLEAN, since : Nat,
                                     login : Nat, cookies : Jars]]
      /\ \A k \in Handlers \ {h} : handlers'[k] = handlers[k]
      /\ handlers'[h].stage = stage /\ handlers'[h].cookies = Active
      /\ handlers'[h].refresh = handlers[h].refresh
      /\ handlers'[h].since = handlers[h].since
  BY <1>1, <1>2, <1>3, Returned
<1> HIDE DEF stage
<1>5. Types'
  BY <1>1, <1>2, <1>4 DEF Types
<1>6. LockHeld'
  <2>1. \A k \in Handlers : handlers'[k].stage # "posting"
    BY <1>1, <1>3, <1>4 DEF LockHeld
  <2> QED
    BY <1>1, <2>1, SessionAssumption DEF LockHeld, LockFree
<1>7. SessionConsistent' /\ JarOfLatest'
  BY <1>1, <1>2 DEF SessionConsistent, JarOfLatest
<1>8. \A k \in Handlers : Given(k)'
  <2>1. ASSUME NEW k \in Handlers \ {h} PROVE Given(k)'
    BY <1>1, <1>4, <2>1 DEF Given
  <2>2. handlers[h].since < logins /\ logins \in Nat /\ handlers[h].since \in Nat
    BY <1>1 DEF LockHeld, Types
  <2>3. stage \notin {"got", "sending", "answered"} => Active = NoCookies
    BY DEF stage
  <2>4. Given(h)'
    BY <1>1, <1>2, <1>3, <1>4, <2>2, <2>3 DEF Given
  <2> QED
    BY <2>1, <2>4
<1> QED
  BY <1>5, <1>6, <1>7, <1>8

LEMMA LoginFailsKeeps ==
  ASSUME IInv, NEW h \in Handlers, LoginFails(h)
  PROVE  IInv'
<1> USE DEF IInv
<1>1. /\ handlers[h].stage = "posting" /\ lock = h /\ lock' = "free"
      /\ handlers' = [handlers EXCEPT ![h].stage = "failed"]
      /\ logins' = logins /\ authenticated' = authenticated /\ ~authenticated
  BY SessionAssumption DEF LoginFails, Release, LockHeld, LockFree, Move
<1>2. /\ \A k \in Handlers \ {h} : handlers'[k] = handlers[k]
      /\ handlers'[h].stage = "failed" /\ handlers'[h].cookies = handlers[h].cookies
      /\ handlers'[h].refresh = handlers[h].refresh
      /\ handlers'[h].since = handlers[h].since
  BY <1>1 DEF Types
<1>3. /\ jar' \in Jars /\ stale' \subseteq DOMAIN jar' /\ JarOfLatest'
      /\ jar' = NoCookies
  BY Dropped DEF LoginFails
<1>4. Types'
  BY <1>1, <1>3 DEF Types, Stages
<1>5. LockHeld'
  <2>1. \A k \in Handlers : handlers'[k].stage # "posting"
    BY <1>1, <1>2 DEF LockHeld
  <2> QED
    BY <1>1, <2>1, SessionAssumption DEF LockHeld, LockFree
<1>6. SessionConsistent'
  BY <1>1, <1>3 DEF SessionConsistent
<1>7. \A k \in Handlers : Given(k)'
  BY <1>1, <1>2 DEF Given
<1> QED
  BY <1>3, <1>4, <1>5, <1>6, <1>7

\* Reading gives out the latest login's cookies to a command that asked for no
\* later one.
LEMMA GetCookiesKeeps ==
  ASSUME IInv, NEW h \in Handlers, GetCookies(h)
  PROVE  IInv'
<1>1. CASE ~authenticated
  <2>1. /\ Move(h, "no_session") /\ UNCHANGED <<lock, session, logins>>
        /\ handlers[h].stage = "to_read"
    BY <1>1 DEF GetCookies, session
  <2> QED
    BY <2>1, MoveKeeps DEF Stages
<1>2. CASE authenticated
  <2> USE DEF IInv
  <2> DEFINE stage == IF Active # NoCookies THEN "got" ELSE "no_session"
  <2>1. /\ handlers[h].stage = "to_read" /\ lock = "free" /\ lock' = lock
        /\ jar' = Active /\ stale' = {} /\ logins' = logins
        /\ authenticated' = (Active # NoCookies)
        /\ Return(h, stage, Active)
    BY <1>2 DEF GetCookies, LockFree
  <2>2. /\ Active \in Jars /\ \A n \in DOMAIN Active : Active[n] = logins
    BY ActiveJar
  <2>3. stage \in Stages /\ stage # "posting" /\ stage # "to_read"
    BY DEF Stages
  <2>4. /\ handlers' \in [Handlers -> [stage : Stages, refresh : BOOLEAN, since : Nat,
                                       login : Nat, cookies : Jars]]
        /\ \A k \in Handlers \ {h} : handlers'[k] = handlers[k]
        /\ handlers'[h].stage = stage /\ handlers'[h].cookies = Active
        /\ handlers'[h].refresh = handlers[h].refresh
        /\ handlers'[h].since = handlers[h].since
    BY <2>1, <2>2, <2>3, Returned
  <2>5. stage \notin {"got", "sending", "answered"} => Active = NoCookies
    OBVIOUS
  <2> HIDE DEF stage
  <2>6. Types'
    BY <2>1, <2>2, <2>4 DEF Types
  <2>7. LockHeld'
    <3>1. \A k \in Handlers : handlers'[k].stage # "posting"
      BY <2>1, <2>3, <2>4, SessionAssumption DEF LockHeld
    <3> QED
      BY <2>1, <3>1, SessionAssumption DEF LockHeld, LockFree
  <2>8. SessionConsistent' /\ JarOfLatest'
    BY <2>1, <2>2 DEF SessionConsistent, JarOfLatest
  <2>9. \A k \in Handlers : Given(k)'
    <3>1. ASSUME NEW k \in Handlers \ {h} PROVE Given(k)'
      BY <2>1, <2>4, <3>1 DEF Given
    <3>2. /\ handlers[h].since <= logins /\ ~handlers[h].refresh
          /\ logins \in Nat /\ handlers[h].since \in Nat
      BY <2>1 DEF Given, Types
    <3>3. Given(h)'
      BY <2>1, <2>2, <2>3, <2>4, <2>5, <3>2 DEF Given
    <3> QED
      BY <3>1, <3>3
  <2> QED
    BY <2>6, <2>7, <2>8, <2>9
<1> QED
  BY <1>1, <1>2

LEMMA RestartKeeps ==
  ASSUME IInv, Restart
  PROVE  IInv'
<1> USE DEF IInv
<1>1. /\ handlers' = [h \in Handlers |-> Slot("idle", FALSE, 0)]
      /\ lock' = "free" /\ ~authenticated' /\ logins' = logins
  BY DEF Restart, Release, Idle
<1>2. /\ jar' \in Jars /\ stale' \subseteq DOMAIN jar' /\ JarOfLatest'
      /\ jar' = NoCookies
  BY Dropped DEF Restart
<1>3. Types'
  <2>1. handlers' \in [Handlers -> [stage : Stages, refresh : BOOLEAN, since : Nat,
                                    login : Nat, cookies : Jars]]
    BY <1>1, NoCookiesJar DEF Slot, Stages
  <2>2. authenticated' \in BOOLEAN
    BY DEF Restart
  <2> QED
    BY <1>1, <1>2, <2>1, <2>2 DEF Types
<1>4. LockHeld' /\ SessionConsistent'
  BY <1>1, <1>2, SessionAssumption DEF LockHeld, LockFree, SessionConsistent, Slot
<1>5. \A h \in Handlers : Given(h)'
  BY <1>1, NoCookiesJar DEF Given, Slot, Types
<1> QED
  BY <1>2, <1>3, <1>4, <1>5

LEMMA ExpireKeeps ==
  ASSUME IInv, NEW n \in Names, Expire(n)
  PROVE  IInv'
<1>1. /\ stale' \subseteq DOMAIN jar' /\ jar' = jar
      /\ handlers' = handlers /\ lock' = lock
      /\ authenticated' = authenticated /\ logins' = logins
  BY DEF Expire, IInv, Types
<1> QED
  BY <1>1 DEF IInv, Types, LockHeld, LockFree, SessionConsistent, JarOfLatest, Given

\* The steps that only move a handler on.
LEMMA ProceedKeeps ==
  ASSUME IInv, NEW h \in Handlers, Proceed(h)
  PROVE  IInv'
<1>1. CASE Check(h) \/ Unblock(h)
  <2>1. /\ Choice(h) \in Stages \ {"posting"}
        /\ Choice(h) = "to_read" => ~handlers[h].refresh
    BY DEF Choice, Stages
  <2>2. /\ Move(h, Choice(h)) /\ handlers[h].stage \in {"received", "blocking"}
        /\ UNCHANGED <<lock, session, logins>>
    BY <1>1 DEF Check, Unblock, session
  <2> QED
    BY <2>1, <2>2, MoveKeeps
<1>2. CASE Block(h) \/ Retry(h) \/ Misconfigured(h)
  <2>1. PICK stage \in {"blocking", "to_login", "unconfigured"} :
          /\ Move(h, stage)
          /\ handlers[h].stage \in {"received", "no_session", "to_login"}
          /\ UNCHANGED <<lock, session, logins>>
    BY <1>2 DEF Block, Retry, Misconfigured, session
  <2> QED
    BY <2>1, MoveKeeps DEF Stages
<1>3. CASE Send(h) \/ Apologise(h) \/ Deliver(h)
  <2>1. PICK stage \in {"sending", "answered"} :
          /\ Move(h, stage)
          /\ handlers[h].stage \in {"got", "unconfigured", "failed", "empty", "sending"}
          /\ UNCHANGED <<lock, session, logins>>
    BY <1>3 DEF Send, Apologise, Deliver, session
  <2> QED
    BY <2>1, MoveKeeps DEF Stages
<1> QED
  BY <1>1, <1>2, <1>3, StartLoginKeeps, GetCookiesKeeps DEF Proceed

LEMMA IInvStep == IInv /\ [Next]_vars => IInv'
<1> SUFFICES ASSUME IInv, [Next]_vars PROVE IInv'
  OBVIOUS
<1>1. CASE UNCHANGED vars
  BY <1>1 DEF vars, session, IInv, Types, LockHeld, LockFree, SessionConsistent,
              JarOfLatest, Given
<1>2. CASE Next
  BY <1>2, ReceiveKeeps, ProceedKeeps, SetCookieKeeps, LoginKeeps, LoginFailsKeeps,
     LeaveKeeps, ExpireKeeps, RestartKeeps DEF Next
<1> QED
  BY <1>1, <1>2

LEMMA Invariance == Spec => []IInv
BY IInvInit, IInvStep, PTL DEF Spec

-----------------------------------------------------------------------------
(* Theorems.                                                               *)

\* The flag tells the truth about the jar whenever nobody holds the lock
\* (cookie_session.py:173-226).
THEOREM FlagIsTrue == Spec => []SessionConsistent
<1>1. IInv => SessionConsistent
  BY DEF IInv
<1> QED
  BY <1>1, Invariance, PTL

\* The cookies of one answer are of one login, whatever runs at once
\* (cookie_session.py:173-226).
THEOREM AnswersOfOneLogin == Spec => []CookiesOfOneLogin
<1>1. IInv => CookiesOfOneLogin
  BY DEF IInv, Given, CookiesOfOneLogin
<1> QED
  BY <1>1, Invariance, PTL

\* No answer is older than its command, and a refresh is answered with a login
\* begun after it (main.py:156-163).
THEOREM AnswersAreNew == Spec => []NeverOlderThanCommand
<1>1. IInv => NeverOlderThanCommand
  BY DEF IInv, Given, NeverOlderThanCommand
<1> QED
  BY <1>1, Invariance, PTL

-----------------------------------------------------------------------------
(* A command logs in once.                                                 *)

\* The handlers that have not logged in yet and may still do.
ToLogIn == In("received") \cup In("blocking") \cup In("to_login") \cup In("to_read")
             \cup In("no_session")

\* Every login is that of a command of its own, and what a handler knows is of
\* a login that began.
OneLoginEach ==
  /\ commands \in Nat /\ commands <= MaxCommands /\ configured \in BOOLEAN
  /\ IsFiniteSet(ToLogIn) /\ logins + Cardinality(ToLogIn) <= commands
  /\ \A h \in Handlers :
       /\ handlers[h].stage \in StagesToLogIn => handlers[h].login = 0
       /\ handlers[h].login <= logins
       /\ \A n \in DOMAIN handlers[h].cookies : handlers[h].cookies[n] <= logins

LEMMA ToLogInDef == ToLogIn = {h \in Handlers : handlers[h].stage \in StagesToLogIn}
BY DEF ToLogIn, In, StagesToLogIn

LEMMA OneLoginInit == Init => OneLoginEach
<1> SUFFICES ASSUME Init PROVE OneLoginEach
  OBVIOUS
<1>1. /\ \A h \in Handlers : handlers[h] = Slot("idle", FALSE, 0)
      /\ logins = 0 /\ commands = 0 /\ configured \in BOOLEAN
  BY DEF Init, Idle
<1>2. ToLogIn = {}
  BY <1>1 DEF ToLogIn, In, Slot
<1>3. \A h \in Handlers : handlers[h].login = 0 /\ DOMAIN handlers[h].cookies = {}
  BY <1>1, NoCookiesJar DEF Slot
<1> QED
  BY <1>1, <1>2, <1>3, FS_EmptySet, SessionAssumption DEF OneLoginEach

\* One handler moves, and not to where it may log in from where it may not.
LEMMA OneMoves ==
  ASSUME IInv, OneLoginEach, NEW h \in Handlers,
         \A k \in Handlers \ {h} : handlers'[k] = handlers[k],
         handlers'[h].stage \in StagesToLogIn => handlers[h].stage \in StagesToLogIn,
         handlers'[h].stage \in StagesToLogIn => handlers'[h].login = 0,
         handlers'[h].login <= logins,
         \A n \in DOMAIN handlers'[h].cookies : handlers'[h].cookies[n] <= logins,
         UNCHANGED <<logins, commands, configured>>
  PROVE  OneLoginEach'
<1>1. ToLogIn' = {k \in Handlers : handlers'[k].stage \in StagesToLogIn}
  BY DEF ToLogIn, In, StagesToLogIn
<1>2. ToLogIn' \subseteq ToLogIn
  BY <1>1, ToLogInDef
<1>3. /\ IsFiniteSet(ToLogIn') /\ Cardinality(ToLogIn') <= Cardinality(ToLogIn)
      /\ Cardinality(ToLogIn) \in Nat /\ Cardinality(ToLogIn') \in Nat
  BY <1>2, FS_Subset, FS_CardinalityType DEF OneLoginEach
<1>4. logins \in Nat /\ commands \in Nat
  BY DEF IInv, Types, OneLoginEach
<1>5. logins' + Cardinality(ToLogIn') <= commands'
  BY <1>3, <1>4 DEF OneLoginEach
<1>6. \A k \in Handlers :
        /\ handlers'[k].stage \in StagesToLogIn => handlers'[k].login = 0
        /\ handlers'[k].login <= logins
        /\ \A n \in DOMAIN handlers'[k].cookies : handlers'[k].cookies[n] <= logins
  BY DEF OneLoginEach
<1> QED
  BY <1>3, <1>5, <1>6 DEF OneLoginEach

LEMMA MoveOneLogin ==
  ASSUME IInv, OneLoginEach, NEW h \in Handlers, NEW stage, Move(h, stage),
         stage \in StagesToLogIn => handlers[h].stage \in StagesToLogIn,
         UNCHANGED <<logins, commands, configured>>
  PROVE  OneLoginEach'
<1>1. /\ \A k \in Handlers \ {h} : handlers'[k] = handlers[k]
      /\ handlers'[h].stage = stage /\ handlers'[h].login = handlers[h].login
      /\ handlers'[h].cookies = handlers[h].cookies
  BY DEF Move, IInv, Types
<1>2. /\ handlers[h].stage \in StagesToLogIn => handlers[h].login = 0
      /\ handlers[h].login <= logins
      /\ \A n \in DOMAIN handlers[h].cookies : handlers[h].cookies[n] <= logins
  BY DEF OneLoginEach
<1> QED
  BY <1>1, <1>2, OneMoves

LEMMA ReturnOneLogin ==
  ASSUME IInv, OneLoginEach, NEW h \in Handlers, NEW stage, Return(h, stage, Active),
         stage \in StagesToLogIn => handlers[h].stage \in StagesToLogIn,
         UNCHANGED <<logins, commands, configured>>
  PROVE  OneLoginEach'
<1>1. /\ \A k \in Handlers \ {h} : handlers'[k] = handlers[k]
      /\ handlers'[h].stage = stage /\ handlers'[h].login = handlers[h].login
      /\ handlers'[h].cookies = Active
  BY DEF Return, IInv, Types
<1>2. \A n \in DOMAIN Active : Active[n] <= logins
  BY ActiveJar DEF IInv, Types
<1>3. /\ handlers[h].stage \in StagesToLogIn => handlers[h].login = 0
      /\ handlers[h].login <= logins
  BY DEF OneLoginEach
<1> QED
  BY <1>1, <1>2, <1>3, OneMoves

LEMMA ReceiveOneLogin ==
  ASSUME IInv, OneLoginEach, NEW h \in Handlers, NEW refresh \in BOOLEAN, Receive(h, refresh)
  PROVE  OneLoginEach'
<1>1. /\ \A k \in Handlers \ {h} : handlers'[k] = handlers[k]
      /\ handlers'[h] = Slot("received", refresh, logins)
      /\ logins' = logins /\ commands' = commands + 1 /\ configured' = configured
      /\ commands < MaxCommands
  BY DEF Receive, IInv, Types
<1>2. /\ logins \in Nat /\ commands \in Nat /\ MaxCommands \in Nat
      /\ IsFiniteSet(ToLogIn) /\ Cardinality(ToLogIn) \in Nat
  BY SessionAssumption, FS_CardinalityType DEF IInv, Types, OneLoginEach
<1>3. ToLogIn' = ToLogIn \cup {h}
  <2>1. handlers'[h].stage = "received"
    BY <1>1 DEF Slot
  <2>2. ToLogIn' = {k \in Handlers : handlers'[k].stage \in StagesToLogIn}
    BY DEF ToLogIn, In, StagesToLogIn
  <2> QED
    BY <1>1, <2>1, <2>2, ToLogInDef DEF StagesToLogIn
<1>4. IsFiniteSet(ToLogIn') /\ Cardinality(ToLogIn') <= Cardinality(ToLogIn) + 1
      /\ Cardinality(ToLogIn') \in Nat
  BY <1>2, <1>3, FS_AddElement, FS_CardinalityType
<1>5. logins' + Cardinality(ToLogIn') <= commands'
  BY <1>1, <1>2, <1>4 DEF OneLoginEach
<1>6. \A k \in Handlers :
        /\ handlers'[k].stage \in StagesToLogIn => handlers'[k].login = 0
        /\ handlers'[k].login <= logins
        /\ \A n \in DOMAIN handlers'[k].cookies : handlers'[k].cookies[n] <= logins
  <2>1. handlers'[h].login = 0 /\ DOMAIN handlers'[h].cookies = {}
    BY <1>1, NoCookiesJar DEF Slot
  <2> QED
    BY <1>1, <1>2, <2>1 DEF OneLoginEach
<1> QED
  BY <1>1, <1>2, <1>4, <1>5, <1>6 DEF OneLoginEach

LEMMA StartLoginOneLogin ==
  ASSUME IInv, OneLoginEach, NEW h \in Handlers, StartLogin(h)
  PROVE  OneLoginEach'
<1>1. /\ handlers' = [handlers EXCEPT ![h].stage = "posting", ![h].login = logins']
      /\ handlers[h].stage = "to_login"
      /\ logins' = logins + 1 /\ commands' = commands /\ configured' = configured
  BY DEF StartLogin, Post
<1>2. /\ \A k \in Handlers \ {h} : handlers'[k] = handlers[k]
      /\ handlers'[h] = [handlers[h] EXCEPT !.stage = "posting", !.login = logins']
  BY <1>1 DEF IInv, Types
<1>3. /\ handlers'[h].stage = "posting" /\ handlers'[h].login = logins'
      /\ handlers'[h].cookies = handlers[h].cookies
  BY <1>2 DEF IInv, Types
<1>4. /\ logins \in Nat /\ commands \in Nat
      /\ IsFiniteSet(ToLogIn) /\ Cardinality(ToLogIn) \in Nat
      /\ \A k \in Handlers : handlers[k].login \in Nat /\
           \A n \in DOMAIN handlers[k].cookies : handlers[k].cookies[n] \in Nat
  <2>1. \A k \in Handlers : handlers[k].login \in Nat /\ handlers[k].cookies \in Jars
    BY DEF IInv, Types
  <2> QED
    BY <2>1, JarsDef, FS_CardinalityType DEF IInv, Types, OneLoginEach
<1>5. ToLogIn' = ToLogIn \ {h} /\ h \in ToLogIn
  <2>1. ToLogIn' = {k \in Handlers : handlers'[k].stage \in StagesToLogIn}
    BY DEF ToLogIn, In, StagesToLogIn
  <2> QED
    BY <1>1, <1>2, <1>3, <2>1, ToLogInDef DEF StagesToLogIn
<1>6. IsFiniteSet(ToLogIn') /\ Cardinality(ToLogIn') = Cardinality(ToLogIn) - 1
  BY <1>4, <1>5, FS_RemoveElement
<1>7. logins' + Cardinality(ToLogIn') <= commands'
  BY <1>1, <1>4, <1>6 DEF OneLoginEach
<1>8. \A k \in Handlers :
        /\ handlers'[k].stage \in StagesToLogIn => handlers'[k].login = 0
        /\ handlers'[k].login <= logins'
        /\ \A n \in DOMAIN handlers'[k].cookies : handlers'[k].cookies[n] <= logins'
  <2>1. ASSUME NEW k \in Handlers
        PROVE  /\ handlers[k].login <= logins'
               /\ \A n \in DOMAIN handlers[k].cookies : handlers[k].cookies[n] <= logins'
    <3>1. \A n \in DOMAIN handlers[k].cookies :
            handlers[k].cookies[n] \in Nat /\ handlers[k].cookies[n] <= logins
      BY <1>4 DEF OneLoginEach
    <3>2. handlers[k].login \in Nat /\ handlers[k].login <= logins
      BY <1>4 DEF OneLoginEach
    <3> QED
      BY <1>1, <1>4, <3>1, <3>2
  <2>2. logins' <= logins'
    BY <1>1, <1>4
  <2>3. handlers'[h].login <= logins'
    BY <1>3, <2>2
  <2>4. \A n \in DOMAIN handlers'[h].cookies : handlers'[h].cookies[n] <= logins'
    BY <1>3, <2>1
  <2>5. \A k \in Handlers : handlers'[k].stage \in StagesToLogIn => handlers'[k].login = 0
    BY <1>2, <1>3 DEF OneLoginEach, StagesToLogIn
  <2> QED
    BY <1>2, <2>1, <2>3, <2>4, <2>5
<1> QED
  BY <1>1, <1>6, <1>7, <1>8 DEF OneLoginEach

LEMMA RestartOneLogin ==
  ASSUME IInv, OneLoginEach, Restart
  PROVE  OneLoginEach'
<1>1. /\ \A h \in Handlers : handlers'[h] = Slot("idle", FALSE, 0)
      /\ UNCHANGED <<logins, commands, configured>>
  BY DEF Restart, Idle
<1>2. ToLogIn' = {}
  BY <1>1 DEF ToLogIn, In, Slot
<1>3. \A h \in Handlers : handlers'[h].login = 0 /\ DOMAIN handlers'[h].cookies = {}
  BY <1>1, NoCookiesJar DEF Slot
<1>4. logins \in Nat /\ commands \in Nat /\ Cardinality(ToLogIn) \in Nat
  BY FS_CardinalityType DEF IInv, Types, OneLoginEach
<1> QED
  BY <1>1, <1>2, <1>3, <1>4, FS_EmptySet DEF OneLoginEach

LEMMA OneLoginStep == IInv /\ OneLoginEach /\ [Next]_vars => OneLoginEach'
<1> SUFFICES ASSUME IInv, OneLoginEach, [Next]_vars PROVE OneLoginEach'
  OBVIOUS
<1>1. ASSUME UNCHANGED <<handlers, logins, commands, configured>> PROVE OneLoginEach'
  BY <1>1 DEF OneLoginEach, ToLogIn, In
<1>2. ASSUME NEW h \in Handlers, Proceed(h) PROVE OneLoginEach'
  <2>1. CASE Check(h) \/ Unblock(h)
    <3>1. /\ Move(h, Choice(h)) /\ handlers[h].stage \in {"received", "blocking"}
          /\ UNCHANGED <<logins, commands, configured>>
      BY <2>1 DEF Check, Unblock
    <3> QED
      BY <3>1, MoveOneLogin DEF StagesToLogIn
  <2>2. CASE Block(h) \/ Retry(h)
    <3>1. PICK stage : /\ Move(h, stage) /\ handlers[h].stage \in {"received", "no_session"}
                       /\ UNCHANGED <<logins, commands, configured>>
      BY <2>2 DEF Block, Retry
    <3> QED
      BY <3>1, MoveOneLogin DEF StagesToLogIn
  <2>3. CASE Misconfigured(h) \/ Send(h) \/ Apologise(h) \/ Deliver(h)
    <3>1. PICK stage \in {"unconfigured", "sending", "answered"} :
            /\ Move(h, stage) /\ UNCHANGED <<logins, commands, configured>>
      BY <2>3 DEF Misconfigured, Send, Apologise, Deliver
    <3> QED
      BY <3>1, MoveOneLogin DEF StagesToLogIn
  <2>4. CASE GetCookies(h)
    <3>1. handlers[h].stage \in StagesToLogIn /\ UNCHANGED <<logins, commands, configured>>
      BY <2>4 DEF GetCookies, StagesToLogIn
    <3>2. CASE authenticated
      <4>1. PICK stage : Return(h, stage, Active)
        BY <2>4, <3>2 DEF GetCookies
      <4> QED
        BY <3>1, <4>1, ReturnOneLogin
    <3>3. CASE ~authenticated
      <4>1. Move(h, "no_session")
        BY <2>4, <3>3 DEF GetCookies
      <4> QED
        BY <3>1, <4>1, MoveOneLogin
    <3> QED
      BY <3>2, <3>3
  <2> QED
    BY <1>2, <2>1, <2>2, <2>3, <2>4, StartLoginOneLogin DEF Proceed
<1>3. ASSUME NEW h \in Handlers, Login(h) PROVE OneLoginEach'
  <2>1. PICK stage \in {"got", "empty"} :
          Return(h, stage, Active) /\ UNCHANGED <<logins, commands, configured>>
    BY <1>3 DEF Login
  <2> QED
    BY <2>1, ReturnOneLogin DEF StagesToLogIn
<1>4. ASSUME NEW h \in Handlers, LoginFails(h) PROVE OneLoginEach'
  <2>1. Move(h, "failed") /\ UNCHANGED <<logins, commands, configured>>
    BY <1>4 DEF LoginFails
  <2> QED
    BY <2>1, MoveOneLogin DEF StagesToLogIn
<1>5. ASSUME NEW h \in Handlers, Leave(h) PROVE OneLoginEach'
  <2>1. /\ \A k \in Handlers \ {h} : handlers'[k] = handlers[k]
        /\ handlers'[h] = Slot("idle", FALSE, 0)
        /\ UNCHANGED <<logins, commands, configured>>
    BY <1>5 DEF Leave, Idle, IInv, Types
  <2>2. /\ handlers'[h].stage = "idle" /\ handlers'[h].login = 0
        /\ DOMAIN handlers'[h].cookies = {}
    BY <2>1, NoCookiesJar DEF Slot
  <2>3. logins \in Nat /\ handlers'[h].stage \notin StagesToLogIn
    BY <2>2 DEF IInv, Types, StagesToLogIn
  <2>4. /\ handlers'[h].login <= logins
        /\ \A n \in DOMAIN handlers'[h].cookies : handlers'[h].cookies[n] <= logins
    BY <2>2, <2>3
  <2> QED
    BY <2>1, <2>3, <2>4, OneMoves
<1>6. ASSUME NEW h \in Handlers, NEW n \in Names, SetCookie(h, n) PROVE OneLoginEach'
  BY <1>1, <1>6 DEF SetCookie
<1>7. ASSUME NEW n \in Names, Expire(n) PROVE OneLoginEach'
  BY <1>1, <1>7 DEF Expire
<1>8. CASE UNCHANGED vars
  BY <1>1, <1>8 DEF vars
<1> QED
  BY <1>2, <1>3, <1>4, <1>5, <1>6, <1>7, <1>8, ReceiveOneLogin, RestartOneLogin DEF Next

LEMMA OneLoginInvariance == Spec => []OneLoginEach
BY OneLoginInit, OneLoginStep, Invariance, PTL DEF Spec

\* A jar whose cookies are all of logins that commands account for.
LEMMA JarWithin ==
  ASSUME NEW f \in Jars, NEW n \in Nat, n <= MaxCommands, \A m \in DOMAIN f : f[m] <= n
  PROVE  f \in Cookies
<1>1. f \in [DOMAIN f -> Nat] /\ DOMAIN f \in SUBSET Names
  BY JarsDef
<1>2. \A m \in DOMAIN f : f[m] \in Logins
  BY <1>1, SessionAssumption DEF Logins
<1>3. f \in [DOMAIN f -> Logins]
  BY <1>1, <1>2
<1> QED
  BY <1>1, <1>3 DEF Cookies

LEMMA OneLoginTypes == IInv /\ OneLoginEach => TypeOK
<1> SUFFICES ASSUME IInv, OneLoginEach PROVE TypeOK
  OBVIOUS
<1>1. /\ logins \in Nat /\ logins <= commands /\ commands \in Nat /\ commands <= MaxCommands
      /\ MaxCommands \in Nat
  <2>1. Cardinality(ToLogIn) \in Nat
    BY FS_CardinalityType DEF OneLoginEach
  <2> QED
    BY <2>1, SessionAssumption DEF IInv, Types, OneLoginEach
<1>2. /\ logins \in Logins /\ commands \in Logins /\ logins \in 0 .. commands
      /\ \A h \in Handlers : handlers[h].stage \in StagesToLogIn => handlers[h].login = 0
  BY <1>1 DEF Logins, OneLoginEach, IInv, Types
<1>3. \A h \in Handlers :
        handlers[h] \in [stage : Stages, refresh : BOOLEAN, since : Logins,
                         login : Logins, cookies : Cookies]
  <2> SUFFICES ASSUME NEW h \in Handlers
               PROVE  handlers[h] \in [stage : Stages, refresh : BOOLEAN, since : Logins,
                                       login : Logins, cookies : Cookies]
    OBVIOUS
  <2>1. /\ handlers[h] \in [stage : Stages, refresh : BOOLEAN, since : Nat,
                            login : Nat, cookies : Jars]
        /\ handlers[h].since <= logins /\ handlers[h].login <= logins
        /\ \A n \in DOMAIN handlers[h].cookies : handlers[h].cookies[n] <= logins
    BY DEF IInv, Types, Given, OneLoginEach
  <2>2. handlers[h].cookies \in Cookies
    BY <1>1, <2>1, JarWithin
  <2>3. handlers[h].since \in Logins /\ handlers[h].login \in Logins
    BY <1>1, <2>1 DEF Logins
  <2> QED
    BY <2>1, <2>2, <2>3
<1>4. jar \in Cookies
  <2>1. \A n \in DOMAIN jar : jar[n] <= logins
    BY <1>1 DEF IInv, JarOfLatest
  <2> QED
    BY <1>1, <2>1, JarWithin DEF IInv, Types
<1>5. handlers \in [Handlers -> [stage : Stages, refresh : BOOLEAN, since : Logins,
                                 login : Logins, cookies : Cookies]]
  BY <1>3 DEF IInv, Types
<1> QED
  BY <1>2, <1>4, <1>5 DEF TypeOK, IInv, Types, OneLoginEach

\* The variables hold what the code's can; no command that may still log in has
\* logged in before, also one that finds its session gone; and no more logins
\* are begun than commands were received (main.py:156-163).
THEOREM TypesCorrect == Spec => []TypeOK
BY OneLoginInvariance, Invariance, OneLoginTypes, PTL

-----------------------------------------------------------------------------
(* The refinement of SessionRegister.                                      *)

Held == IF lock = "free" THEN Active ELSE NoCookies
AllGiven == [h \in Handlers |-> handlers[h].cookies]

LEMMA RegisterVars ==
  ASSUME Held' = Held, logins' = logins, AllGiven' = AllGiven
  PROVE  UNCHANGED Register!vars
BY DEF Register!vars, Held, AllGiven

\* A session without expired cookies is given out as it is.
LEMMA ActiveOfFresh ==
  ASSUME IInv, jar' = Active, stale' = {}
  PROVE  Active' = Active
BY ActiveJar, JarsDef DEF Active, Restrict, IInv

LEMMA ActiveOfNone ==
  ASSUME jar = NoCookies
  PROVE  Active = NoCookies
BY DEF Active, Restrict, NoCookies

\* Who has been given what, after one worker's call has ended.
LEMMA GivenTo ==
  ASSUME IInv, NEW h \in Handlers, NEW stage \in Stages, NEW cookies \in Jars,
         Return(h, stage, cookies)
  PROVE  AllGiven' = [AllGiven EXCEPT ![h] = cookies]
<1>1. /\ \A k \in Handlers \ {h} : handlers'[k] = handlers[k]
      /\ handlers'[h].cookies = cookies
  BY Returned DEF IInv
<1> QED
  BY <1>1 DEF AllGiven

\* A step that gives nothing to anybody.
LEMMA GivenStays ==
  ASSUME \A h \in Handlers : handlers'[h].cookies = handlers[h].cookies
  PROVE  AllGiven' = AllGiven
BY DEF AllGiven

LEMMA RegisterInit == Init => Register!Init
<1> SUFFICES ASSUME Init PROVE Register!Init
  OBVIOUS
<1>1. Active = NoCookies
  BY ActiveOfNone DEF Init
<1> QED
  BY <1>1 DEF Init, Idle, Slot, Register!Init, Register!Nothing, NoCookies

LEMMA LoginRefines ==
  ASSUME IInv, NEW h \in Handlers, Login(h)
  PROVE  [Register!Next]_(Register!vars)
<1> DEFINE stage == IF Active # NoCookies THEN "got" ELSE "empty"
<1>1. /\ lock = h /\ lock # "free" /\ lock' = "free" /\ logins' = logins
      /\ jar' = Active /\ stale' = {} /\ Return(h, stage, Active)
      /\ handlers[h].cookies = NoCookies
  BY SessionAssumption DEF Login, Release, IInv, LockHeld, Given
<1>2. /\ Active \in Jars /\ \A n \in DOMAIN Active : Active[n] = logins
  BY ActiveJar DEF IInv
<1>3. Held = NoCookies /\ Held' = Active
  BY <1>1, ActiveOfFresh DEF Held
<1>4. AllGiven' = [AllGiven EXCEPT ![h] = Active]
  BY <1>1, <1>2, GivenTo DEF Stages
<1>5. CASE Active = NoCookies
  <2>1. AllGiven' = AllGiven
    BY <1>1, <1>4, <1>5 DEF AllGiven
  <2> QED
    BY <1>1, <1>3, <1>5, <2>1, RegisterVars
<1>6. CASE Active # NoCookies
  <2>1. /\ DOMAIN Active \in (SUBSET Names) \ {{}}
        /\ Active = [n \in DOMAIN Active |-> logins]
    BY <1>2, <1>6, JarsDef, NoCookiesJar
  <2>2. Register!Establish(h)
    BY <1>1, <1>3, <1>4, <2>1 DEF Register!Establish, Register!Nothing, Held, AllGiven, NoCookies
  <2> QED
    BY <2>2 DEF Register!Next
<1> QED
  BY <1>5, <1>6

LEMMA GetCookiesRefines ==
  ASSUME IInv, NEW h \in Handlers, GetCookies(h)
  PROVE  [Register!Next]_(Register!vars)
<1>1. CASE ~authenticated
  <2>1. Move(h, "no_session") /\ UNCHANGED <<lock, jar, stale, logins>>
    BY <1>1 DEF GetCookies, session
  <2>2. AllGiven' = AllGiven
    BY <2>1, GivenStays DEF Move, IInv, Types
  <2>3. Held' = Held
    BY <2>1 DEF Held, Active, Restrict
  <2> QED
    BY <2>1, <2>2, <2>3, RegisterVars
<1>2. CASE authenticated
  <2> DEFINE stage == IF Active # NoCookies THEN "got" ELSE "no_session"
  <2>1. /\ lock = "free" /\ lock' = lock /\ logins' = logins
        /\ jar' = Active /\ stale' = {} /\ Return(h, stage, Active)
        /\ handlers[h].cookies = NoCookies
    BY <1>2 DEF GetCookies, LockFree, IInv, Given
  <2>2. Active \in Jars
    BY ActiveJar DEF IInv
  <2>3. Held = Active /\ Held' = Active
    BY <2>1, ActiveOfFresh DEF Held
  <2>4. AllGiven' = [AllGiven EXCEPT ![h] = Active]
    BY <2>1, <2>2, GivenTo DEF Stages
  <2>5. CASE Active = NoCookies
    <3>1. AllGiven' = AllGiven
      BY <2>1, <2>4, <2>5 DEF AllGiven
    <3> QED
      BY <2>1, <2>3, <3>1, RegisterVars
  <2>6. CASE Active # NoCookies
    <3>1. Register!Read(h)
      BY <2>1, <2>3, <2>4, <2>6 DEF Register!Read, Register!Nothing, Held, AllGiven, NoCookies
    <3> QED
      BY <3>1 DEF Register!Next
  <2> QED
    BY <2>5, <2>6
<1> QED
  BY <1>1, <1>2

LEMMA StartLoginRefines ==
  ASSUME IInv, NEW h \in Handlers, StartLogin(h)
  PROVE  [Register!Next]_(Register!vars)
<1>1. /\ lock' = h /\ lock' # "free" /\ logins' = logins + 1
  BY SessionAssumption DEF StartLogin, Post
<1>2. AllGiven' = AllGiven
  BY GivenStays DEF StartLogin, Post, IInv, Types
<1>3. Register!BeginLogin
  BY <1>1, <1>2 DEF Register!BeginLogin, Register!Nothing, NoCookies, AllGiven
<1> QED
  BY <1>3 DEF Register!Next

\* The loss of the process, and the end of a handler.
LEMMA ForgettingRefines ==
  ASSUME IInv
  PROVE  /\ Restart => Register!Restart
         /\ \A h \in Handlers : Leave(h) => Register!Finish(h)
<1>1. ASSUME Restart PROVE Register!Restart
  <2>1. jar' = NoCookies /\ lock' = "free" /\ logins' = logins
        /\ handlers' = [h \in Handlers |-> Idle]
    BY <1>1 DEF Restart, Clear, Release
  <2>2. Active' = NoCookies
    BY <2>1 DEF Active, Restrict, NoCookies
  <2> QED
    BY <2>1, <2>2 DEF Register!Restart, Register!Nothing, NoCookies, Idle, Slot
<1>2. ASSUME NEW h \in Handlers, Leave(h) PROVE Register!Finish(h)
  <2>1. /\ handlers' = [handlers EXCEPT ![h] = Idle] /\ logins' = logins
        /\ lock' = lock /\ jar' = jar /\ stale' = stale
    BY <1>2 DEF Leave, session
  <2>2. AllGiven' = [AllGiven EXCEPT ![h] = NoCookies]
    BY <2>1 DEF AllGiven, Idle, Slot, IInv, Types
  <2>3. Held' = Held
    BY <2>1 DEF Held, Active, Restrict
  <2> QED
    BY <2>1, <2>2, <2>3 DEF Register!Finish, Register!Nothing, NoCookies, Held, AllGiven
<1> QED
  BY <1>1, <1>2

LEMMA ExpireRefines ==
  ASSUME IInv, NEW n \in Names, Expire(n)
  PROVE  [Register!Next]_(Register!vars)
<1>1. /\ stale' = stale \cup {n} /\ jar' = jar /\ lock' = lock
      /\ handlers' = handlers /\ logins' = logins
  BY DEF Expire
<1>2. AllGiven' = AllGiven
  BY <1>1, GivenStays
<1>3. CASE lock = "free"
  <2>1. Held' = [m \in DOMAIN Held \ {n} |-> Held[m]]
    BY <1>1, <1>3 DEF Held, Active, Restrict
  <2> QED
    BY <1>1, <1>2, <2>1 DEF Register!Next, Register!Expire, Held, AllGiven
<1>4. CASE lock # "free"
  BY <1>1, <1>2, <1>4, RegisterVars DEF Held
<1> QED
  BY <1>3, <1>4

\* Whatever else happens is not seen through the register.
LEMMA UnseenRefines ==
  ASSUME IInv, NEW h \in Handlers,
         \/ \E refresh \in BOOLEAN : Receive(h, refresh)
         \/ Check(h) \/ Block(h) \/ Unblock(h) \/ Retry(h) \/ Misconfigured(h)
         \/ Send(h) \/ Apologise(h) \/ Deliver(h)
         \/ \E n \in Names : SetCookie(h, n)
         \/ LoginFails(h)
  PROVE  UNCHANGED Register!vars
<1>1. CASE \E refresh \in BOOLEAN : Receive(h, refresh)
  <2>1. PICK refresh \in BOOLEAN : Receive(h, refresh)
    BY <1>1
  <2>2. /\ UNCHANGED <<lock, jar, stale, logins>>
        /\ handlers' = [handlers EXCEPT ![h] = Slot("received", refresh, logins)]
        /\ handlers[h].cookies = NoCookies
    BY <2>1 DEF Receive, session, IInv, Given
  <2>3. AllGiven' = AllGiven
    BY <2>2, GivenStays DEF Slot, IInv, Types
  <2> QED
    BY <2>2, <2>3, RegisterVars DEF Held, Active, Restrict
<1>2. CASE \/ Check(h) \/ Block(h) \/ Unblock(h) \/ Retry(h) \/ Misconfigured(h)
           \/ Send(h) \/ Apologise(h) \/ Deliver(h)
  <2>1. PICK stage : Move(h, stage) /\ UNCHANGED <<lock, jar, stale, logins>>
    BY <1>2 DEF Check, Block, Unblock, Retry, Misconfigured, Send, Apologise, Deliver, session
  <2>2. AllGiven' = AllGiven
    BY <2>1, GivenStays DEF Move, IInv, Types
  <2> QED
    BY <2>1, <2>2, RegisterVars DEF Held, Active, Restrict
<1>3. CASE \E n \in Names : SetCookie(h, n)
  <2>1. lock # "free" /\ lock' = lock /\ handlers' = handlers /\ logins' = logins
    BY <1>3, SessionAssumption DEF SetCookie, IInv, LockHeld
  <2> QED
    BY <2>1, GivenStays, RegisterVars DEF Held
<1>4. CASE LoginFails(h)
  <2>1. lock # "free" /\ lock' = "free" /\ jar' = NoCookies /\ logins' = logins
        /\ Move(h, "failed")
    BY <1>4, SessionAssumption DEF LoginFails, Release, Clear, IInv, LockHeld
  <2>2. AllGiven' = AllGiven
    BY <2>1, GivenStays DEF Move, IInv, Types
  <2>3. Active' = NoCookies
    BY <2>1 DEF Active, Restrict, NoCookies
  <2> QED
    BY <2>1, <2>2, <2>3, RegisterVars DEF Held
<1> QED
  BY <1>1, <1>2, <1>3, <1>4

LEMMA RegisterStep == IInv /\ [Next]_vars => [Register!Next]_(Register!vars)
<1> SUFFICES ASSUME IInv, [Next]_vars PROVE [Register!Next]_(Register!vars)
  OBVIOUS
<1>1. CASE UNCHANGED vars
  BY <1>1, RegisterVars DEF vars, session, Held, Active, Restrict, AllGiven
<1>2. ASSUME NEW h \in Handlers, Leave(h) PROVE [Register!Next]_(Register!vars)
  BY <1>2, ForgettingRefines DEF Register!Next
<1>3. CASE Restart
  BY <1>3, ForgettingRefines DEF Register!Next
<1>4. ASSUME NEW h \in Handlers, Proceed(h) PROVE [Register!Next]_(Register!vars)
  BY <1>4, StartLoginRefines, GetCookiesRefines, UnseenRefines DEF Proceed
<1>5. ASSUME NEW h \in Handlers,
             \/ \E refresh \in BOOLEAN : Receive(h, refresh)
             \/ \E n \in Names : SetCookie(h, n)
             \/ LoginFails(h)
      PROVE  [Register!Next]_(Register!vars)
  BY <1>5, UnseenRefines
<1> QED
  BY <1>1, <1>2, <1>3, <1>4, <1>5, LoginRefines, ExpireRefines DEF Next

\* The lock, the jar and the flag together implement one register of sessions
\* (cookie_session.py:173-230).
THEOREM SessionsImplementRegister == Spec => ImplementsRegister
BY RegisterInit, RegisterStep, Invariance, PTL DEF Spec, ImplementsRegister, Register!Spec
=============================================================================
