--------------------------- MODULE CookieSession ---------------------------
(***************************************************************************)
(* The admin's /cookie command: _active_cookies and cookie_handler of      *)
(* main.py over the CookieSessionManager of cookie_session.py.             *)
(*                                                                         *)
(* Handlers are coroutines of one event loop, which serves the             *)
(* authentication API too. authenticate() and get_cookies() run in worker  *)
(* threads, one call each, under a lock that authenticate() keeps during   *)
(* its whole HTTP exchange. is_authenticated takes the same lock on the    *)
(* event loop's own thread: while it waits, no coroutine runs.             *)
(***************************************************************************)
EXTENDS Integers, FiniteSets, Functions

CONSTANTS
  Handlers,       \* slots for commands under way
  Names,          \* names of the cookies the endpoint sets
  SelfHosted,     \* COOKIE_AUTH_URL is this process's own token endpoint
  MaxCommands     \* bound: commands received in a behaviour

ASSUME SessionAssumption ==
  /\ "free" \notin Handlers
  /\ SelfHosted \in BOOLEAN
  /\ MaxCommands \in Nat

VARIABLES
  handlers,        \* what each slot is doing
  lock,            \* the handler whose worker holds the RLock, or "free"
  jar,             \* the session's cookies: name -> the login that set it
  stale,           \* the names in the jar that have expired
  authenticated,   \* _authenticated
  configured,      \* whether CookieAuthConfig.validate() passes, for good
  logins,          \* logins begun so far
  commands         \* commands received so far

vars == <<handlers, lock, jar, stale, authenticated, configured, logins, commands>>
session == <<jar, stale, authenticated>>

-----------------------------------------------------------------------------
(* Handlers.                                                               *)

NoCookies == [n \in {} |-> 0]

\* login numbers the handler's own login, 0 before it; since is the number of
\* logins begun when the command was received.
Slot(stage, refresh, since) ==
  [stage |-> stage, refresh |-> refresh, since |-> since,
   login |-> 0, cookies |-> NoCookies]
Idle == Slot("idle", FALSE, 0)

In(stage) == {h \in Handlers : handlers[h].stage = stage}
Move(h, stage) == handlers' = [handlers EXCEPT ![h].stage = stage]

LoopFree == In("blocking") = {}
LockFree_Ignored == TRUE
LockFree == lock = "free"

\* Who answers a login: the event loop itself, or somebody else.
EndpointRuns == SelfHosted => LoopFree

\* cookie_session.py:228-230: the cookies left once the expired are cleared.
Active == Restrict(jar, DOMAIN jar \ stale)

\* Session.cookies.clear(), and the end of a with block.
Clear_Never == UNCHANGED <<jar, stale>>
Clear == jar' = NoCookies /\ stale' = {}

Release_Never == UNCHANGED lock
Release == lock' = "free"

-----------------------------------------------------------------------------
(* On the event loop.                                                      *)

\* main.py:165-181: an authorised, well-formed command; its status message is
\* on its way. Any other command is answered without touching the session.
Receive(h, refresh) ==
  /\ LoopFree
  /\ handlers[h].stage = "idle"
  /\ commands < MaxCommands
  /\ handlers' = [handlers EXCEPT ![h] = Slot("received", refresh, logins)]
  /\ commands' = commands + 1
  /\ UNCHANGED <<lock, session, configured, logins>>

\* main.py:156-160: which call the worker thread is given.
Choice_IgnoreRefresh(h) == IF authenticated THEN "to_read" ELSE "to_login"
Choice(h) ==
  IF handlers[h].refresh \/ ~authenticated THEN "to_login" ELSE "to_read"

\* force_refresh, or the flag read while nobody holds the lock.
Check(h) ==
  /\ LoopFree
  /\ handlers[h].stage = "received"
  /\ handlers[h].refresh \/ LockFree
  /\ Move(h, Choice(h))
  /\ UNCHANGED <<lock, session, configured, logins, commands>>

\* is_authenticated finds the lock taken and waits, and the loop with it.
Block(h) ==
  /\ LoopFree
  /\ handlers[h].stage = "received"
  /\ ~handlers[h].refresh /\ ~LockFree
  /\ Move(h, "blocking")
  /\ UNCHANGED <<lock, session, configured, logins, commands>>

Unblock(h) ==
  /\ handlers[h].stage = "blocking"
  /\ LockFree
  /\ Move(h, Choice(h))
  /\ UNCHANGED <<lock, session, configured, logins, commands>>

\* main.py:161-162: get_cookies found no session; log in after all.
Retry(h) ==
  /\ LoopFree
  /\ handlers[h].stage = "no_session"
  /\ Move(h, "to_login")
  /\ UNCHANGED <<lock, session, configured, logins, commands>>

\* main.py:182-225: the worker's result is sent to the admin, or its error
\* written into the status message.
Send(h) ==
  /\ LoopFree
  /\ handlers[h].stage = "got"
  /\ Move(h, "sending")
  /\ UNCHANGED <<lock, session, configured, logins, commands>>

Apologise(h) ==
  /\ LoopFree
  /\ handlers[h].stage \in {"unconfigured", "failed", "empty"}
  /\ Move(h, "answered")
  /\ UNCHANGED <<lock, session, configured, logins, commands>>

\* main.py:226-237: delivered, or the delivery failed and the admin is told.
Deliver(h) ==
  /\ LoopFree
  /\ handlers[h].stage = "sending"
  /\ Move(h, "answered")
  /\ UNCHANGED <<lock, session, configured, logins, commands>>

Leave(h) ==
  /\ handlers[h].stage = "answered"
  /\ handlers' = [handlers EXCEPT ![h] = Idle]
  /\ UNCHANGED <<lock, session, configured, logins, commands>>

-----------------------------------------------------------------------------
(* In the worker threads.                                                  *)

\* cookie_session.py:175: validate() raises before the lock is asked for.
Misconfigured(h) ==
  /\ handlers[h].stage = "to_login"
  /\ ~configured
  /\ Move(h, "unconfigured")
  /\ UNCHANGED <<lock, session, configured, logins, commands>>

Post(h) ==
  /\ logins' = logins + 1
  /\ handlers' = [handlers EXCEPT ![h].stage = "posting", ![h].login = logins']

\* cookie_session.py:177-193: the session is dropped and the POST goes out.
StartLogin(h) ==
  /\ handlers[h].stage = "to_login"
  /\ configured /\ LockFree
  /\ lock' = h
  /\ Clear /\ authenticated' = FALSE
  /\ Post(h)
  /\ UNCHANGED <<configured, commands>>

\* A response on the way, a redirect or the last, sets a cookie.
SetCookie(h, n) ==
  /\ handlers[h].stage = "posting"
  /\ EndpointRuns
  /\ jar' = [m \in DOMAIN jar \cup {n} |->
               IF m = n THEN handlers[h].login ELSE jar[m]]
  /\ stale' = stale \ {n}
  /\ UNCHANGED <<handlers, lock, authenticated, configured, logins, commands>>

\* The worker's call ends with the cookies it has read.
Return(h, stage, cookies) ==
  handlers' = [handlers EXCEPT ![h].stage = stage, ![h].cookies = cookies]

\* cookie_session.py:194, 206-213: the POST succeeded, with cookies or without.
Login(h) ==
  /\ handlers[h].stage = "posting"
  /\ EndpointRuns
  /\ jar' = Active /\ stale' = {}
  /\ authenticated' = (Active # NoCookies)
  /\ Return(h, IF Active # NoCookies THEN "got" ELSE "empty", Active)
  /\ Release
  /\ UNCHANGED <<configured, logins, commands>>

\* cookie_session.py:195-204: a timeout or another request error.
LoginFails_KeepJar(h) ==
  handlers[h].stage = "posting" /\ Move(h, "failed") /\ Release
    /\ UNCHANGED <<session, configured, logins, commands>>
LoginFails_Retry(h) ==
  handlers[h].stage = "posting" /\ Clear /\ Move(h, "to_login") /\ Release
    /\ UNCHANGED <<authenticated, configured, logins, commands>>
LoginFails(h) ==
  /\ handlers[h].stage = "posting"
  /\ Clear
  /\ Move(h, "failed")
  /\ Release
  /\ UNCHANGED <<authenticated, configured, logins, commands>>

\* cookie_session.py:215-226: an active session is read; one that was lost, or
\* whose cookies have all expired, is reported and forgotten.
GetCookies(h) ==
  /\ handlers[h].stage = "to_read"
  /\ LockFree
  /\ IF authenticated
     THEN /\ jar' = Active /\ stale' = {}
          /\ authenticated' = (Active # NoCookies)
          /\ Return(h, IF Active # NoCookies THEN "got" ELSE "no_session", Active)
     ELSE Move(h, "no_session") /\ UNCHANGED session
  /\ UNCHANGED <<lock, configured, logins, commands>>

-----------------------------------------------------------------------------
(* The environment.                                                        *)

Expire(n) ==
  /\ n \in DOMAIN jar \ stale
  /\ stale' = stale \cup {n}
  /\ UNCHANGED <<handlers, lock, jar, authenticated, configured, logins, commands>>

\* The process is replaced; the session is in memory only.
Restart ==
  /\ handlers' = [h \in Handlers |-> Idle]
  /\ Release
  /\ Clear /\ authenticated' = FALSE
  /\ UNCHANGED <<configured, logins, commands>>

Init ==
  /\ handlers = [h \in Handlers |-> Idle]
  /\ lock = "free"
  /\ jar = NoCookies /\ stale = {} /\ authenticated = FALSE
  /\ configured \in BOOLEAN
  /\ logins = 0 /\ commands = 0

\* The steps of a command once it is received.
Proceed(h) ==
  \/ Check(h) \/ Block(h) \/ Unblock(h) \/ Retry(h)
  \/ Misconfigured(h) \/ StartLogin(h) \/ GetCookies(h)
  \/ Send(h) \/ Apologise(h) \/ Deliver(h)

Next ==
  \/ \E h \in Handlers :
       \/ \E refresh \in BOOLEAN : Receive(h, refresh)
       \/ Proceed(h)
       \/ \E n \in Names : SetCookie(h, n)
       \/ Login(h) \/ LoginFails(h)
       \/ Leave(h)
  \/ \E n \in Names : Expire(n)
  \/ Restart

\* Coroutines and threads that can run do. requests gives up a silent endpoint
\* after the configured timeout, so that every login ends.
Fairness ==
  \A h \in Handlers :
    /\ WF_vars(Proceed(h))
    /\ WF_vars(Login(h) \/ LoginFails(h))

Spec == Init /\ [][Next]_vars /\ Fairness

-----------------------------------------------------------------------------
(* Properties.                                                             *)

Stages ==
  {"idle", "received", "blocking", "to_login", "to_read", "posting", "no_session",
   "got", "empty", "failed", "unconfigured", "sending", "answered"}

Logins == 0 .. MaxCommands

Cookies == UNION {[names -> Logins] : names \in SUBSET Names}

\* At these stages a command may still log in.
StagesToLogIn == {"received", "blocking", "to_login", "to_read", "no_session"}

\* Types; and no command that may still log in has done so before, however it
\* came to where it is: a failed or empty login is not tried again, and the
\* second attempt after a session that is gone is the command's first login
\* (main.py:156-163). The logins begun are then no more than the commands.
TypeOK ==
  /\ handlers \in [Handlers -> [stage : Stages, refresh : BOOLEAN, since : Logins,
                                login : Logins, cookies : Cookies]]
  /\ lock \in Handlers \cup {"free"}
  /\ jar \in Cookies
  /\ stale \subseteq DOMAIN jar
  /\ authenticated \in BOOLEAN /\ configured \in BOOLEAN
  /\ commands \in Logins /\ logins \in 0 .. commands
  /\ \A h \in Handlers : handlers[h].stage \in StagesToLogIn => handlers[h].login = 0

\* Whenever nobody holds the lock, the flag tells the truth about the jar: no
\* failed, timed-out, empty or half-redirected login leaves cookies behind that
\* the flag denies, and no session is claimed for an empty jar
\* (cookie_session.py:173-226).
SessionConsistent == LockFree => (authenticated <=> jar # NoCookies)

\* The cookies a command answers with were all set by one and the same login,
\* however many logins and readings run at once (the lock of authenticate()
\* and get_cookies(), and the clear() before the POST).
CookiesOfOneLogin ==
  \A h \in Handlers :
    \A n, m \in DOMAIN handlers[h].cookies :
      handlers[h].cookies[n] = handlers[h].cookies[m]

\* The lock, the jar and the flag together are one register of sessions: while
\* a thread holds the lock there is none, otherwise the cookies that are left
\* (cookie_session.py:173-230). It is a refinement with the session of
\* SessionRegister computed from what the threads see.
Register == INSTANCE SessionRegister WITH
  held <- IF lock = "free" THEN Active ELSE NoCookies,
  begun <- logins,
  given <- [h \in Handlers |-> handlers[h].cookies]
ImplementsRegister == Register!Spec

\* No command answers with a session that was already being replaced when it
\* was received, and /cookie refresh answers with a login begun after it, not
\* with one that was under way (main.py:156-163, README.md:101).
NeverOlderThanCommand ==
  \A h \in Handlers :
    \A n \in DOMAIN handlers[h].cookies :
      /\ handlers[h].cookies[n] >= handlers[h].since
      /\ handlers[h].refresh => handlers[h].cookies[n] > handlers[h].since

\* Every /cookie is answered, cookies or regrets, unless the process is
\* replaced, even when the endpoint is this very process, whose event loop a
\* second command stops until the first one's request has timed out.
EveryCommandAnswered ==
  \A h \in Handlers :
    handlers[h].stage = "received" ~> handlers[h].stage \in {"answered", "idle"}

\* "Later /cookie calls reuse the active cookie jar; /cookie refresh forces a
\* new login" (README.md:101): a plain /cookie never logs in over a session
\* that is active.
PlainCommandReusesSession ==
  [][\A h \in Handlers :
       (handlers[h].stage # "posting" /\ handlers'[h].stage = "posting")
         => handlers[h].refresh \/ ~authenticated \/ Active = NoCookies]_vars

\* "To authenticate against this project's own endpoint, set COOKIE_AUTH_URL"
\* (README.md:118): while a login is on its way to the own endpoint, the event
\* loop that has to answer it runs.
OwnEndpointCanAnswer == SelfHosted /\ In("posting") # {} => LoopFree
=============================================================================
