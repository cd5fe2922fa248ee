--------------------------- MODULE TokenEndpoint ---------------------------
(***************************************************************************)
(* POST /api/v1/auth/token: issue_token of xxx-main/auth_api/routes/       *)
(* auth.py over the rate limiter, the user index and the anyio             *)
(* CapacityLimiter that bounds the Argon2id verifications under way.       *)
(*                                                                         *)
(* A handler gives up the event loop in one place only, the await of the   *)
(* password verification: what it does before is one step (Admit or        *)
(* Refuse), what it does after another (Reject or Grant). Between the two  *)
(* the request waits for a token of the CapacityLimiter and is then hashed *)
(* in a worker thread, while other handlers, and the clock, go on.         *)
(***************************************************************************)
EXTENDS RateLimiter, Sequences

CONSTANTS
  Requests,      \* slots for requests under way
  Users,         \* configured accounts
  NoUser,        \* the None of find_by_identifier
  UserOf,        \* the index: identifier -> account or NoUser
  Active,        \* accounts with is_active
  Malformed,     \* accounts whose password_hash argon2 cannot read
  Concurrency    \* AUTH_PASSWORD_HASH_CONCURRENCY

\* users.py:48-74 maps each identifier to one account; several may share it.
\* Of a password_hash users.py:33 looks at the first letters only.
ASSUME EndpointAssumption ==
  /\ NoUser \notin Users /\ "dummy" \notin Users
  /\ UserOf \in [Identifiers -> Users \cup {NoUser}]
  /\ Active \subseteq Users /\ Malformed \subseteq Users
  /\ Concurrency \in Nat \ {0}

VARIABLES
  requests,    \* what each slot is doing
  queue,       \* requests waiting for a token, first come first served
  borrowers    \* requests that hold one

endpointVars == <<limiterVars, requests, queue, borrowers>>

-----------------------------------------------------------------------------
(* Passwords and hashes. A stored hash that can be read is named by the    *)
(* one password it verifies: an account's own, or the one behind           *)
(* DUMMY_PASSWORD_HASH. The wrong passwords of an account are those of the *)
(* other hashes.                                                           *)

DummyPassword == "dummy"
Readable == (Users \ Malformed) \cup {DummyPassword}
Passwords == Readable

FindByIdentifier(id) == UserOf[id]
StoredHash_Empty(id) ==
  IF FindByIdentifier(id) = NoUser THEN "none" ELSE FindByIdentifier(id)
StoredHash(id) ==
  IF FindByIdentifier(id) = NoUser THEN DummyPassword ELSE FindByIdentifier(id)

\* security.py:45-49: a hash that cannot be read is no match either, but argon2
\* raises before it has hashed anything.
VerifyPassword(password, hash) ==
  CASE hash \notin Readable -> "unreadable"
    [] hash \in Readable /\ password = hash -> "match"
    [] hash \in Readable /\ password # hash -> "mismatch"

-----------------------------------------------------------------------------
(* Requests.                                                               *)

Stages == {"idle", "queued", "hashing", "hashed", "answered"}

Slot(stage, ip, id, password, verified, status) ==
  [stage |-> stage, ip |-> ip, id |-> id, password |-> password,
   verified |-> verified, status |-> status]

\* verified is "unhashed" until a thread has been through verify_password.
Idle == Slot("idle", "none", "none", "none", "unhashed", 0)

In(stage) == {r \in Requests : requests[r].stage = stage}

\* How a request joins the others: bound for a hash (auth.py:71-73), whether or
\* not its account exists, and at the end of the CapacityLimiter's queue.
Admitted_KnownOnly(ip, id, password) ==
  IF FindByIdentifier(id) = NoUser
  THEN Slot("answered", ip, id, password, "unhashed", 401)
  ELSE Slot("queued", ip, id, password, "unhashed", 0)
Admitted(ip, id, password) == Slot("queued", ip, id, password, "unhashed", 0)

Joined_First(r) == <<r>> \o queue
Joined(r) == Append(queue, r)

\* auth.py:75-83: the one condition, and the one answer when it fails.
Proved_AnyUser(r) == requests[r].verified = "match"
Proved(r) ==
  LET user == FindByIdentifier(requests[r].id)
  IN  user # NoUser /\ user \in Active /\ requests[r].verified = "match"

-----------------------------------------------------------------------------
(* The steps of a request.                                                 *)

\* auth.py:49-72: charged and allowed, the request asks for a hash.
Admit(r, ip, id, password) ==
  /\ requests[r].stage = "idle"
  /\ Allowed(ip, id)
  /\ Consume(ip, id)
  /\ requests' = [requests EXCEPT ![r] = Admitted(ip, id, password)]
  /\ queue' = Joined(r)
  /\ UNCHANGED borrowers

\* auth.py:56-62: charged and refused, the 429 is sent at once.
Refuse(r, ip, id, password) ==
  /\ requests[r].stage = "idle"
  /\ ~Allowed(ip, id)
  /\ Consume(ip, id)
  /\ requests' = [requests EXCEPT
                    ![r] = Slot("answered", ip, id, password, "unhashed", 429)]
  /\ UNCHANGED <<queue, borrowers>>

\* The CapacityLimiter lends its next token to the request that waits longest.
StartHash(r) ==
  /\ queue # <<>> /\ Head(queue) = r
  /\ Cardinality(borrowers) < Concurrency
  /\ requests' = [requests EXCEPT ![r].stage = "hashing"]
  /\ queue' = Tail(queue)
  /\ borrowers' = borrowers \cup {r}
  /\ UNCHANGED limiterVars

\* verify_password in the worker thread.
FinishHash(r) ==
  /\ requests[r].stage = "hashing"
  /\ requests' = [requests EXCEPT
       ![r].stage = "hashed",
       ![r].verified = VerifyPassword(requests[r].password, StoredHash(requests[r].id))]
  /\ UNCHANGED <<limiterVars, queue, borrowers>>

Released_OnSuccess(r) == IF Proved(r) THEN borrowers \ {r} ELSE borrowers
Released(r) == borrowers \ {r}

\* The coroutine resumes, gives its token back and sends status.
Respond(r, status) ==
  /\ requests' = [requests EXCEPT ![r].stage = "answered", ![r].status = status]
  /\ borrowers' = Released(r)
  /\ UNCHANGED queue

\* auth.py:77-83.
Reject_Clearing(r) ==
  requests[r].stage = "hashed" /\ Respond(r, 401) /\ ClearIdentifier(requests[r].id)
Reject(r) ==
  /\ requests[r].stage = "hashed"
  /\ ~Proved(r)
  /\ Respond(r, 401)
  /\ UNCHANGED limiterVars

\* auth.py:85-121: the tokens are issued and the identifier's counter, not the
\* address's, is forgotten.
Grant(r) ==
  /\ requests[r].stage = "hashed"
  /\ Proved(r)
  /\ Respond(r, 200)
  /\ ClearIdentifier(requests[r].id)

\* The client has its answer; the slot is free for another request.
Leave(r) ==
  /\ requests[r].stage = "answered"
  /\ requests' = [requests EXCEPT ![r] = Idle]
  /\ UNCHANGED <<limiterVars, queue, borrowers>>

EndpointTick == Tick /\ UNCHANGED <<requests, queue, borrowers>>

\* The process is replaced: requests under way are cut off, counters lost.
Restart ==
  /\ ForgetAll
  /\ requests' = [r \in Requests |-> Idle]
  /\ queue' = <<>>
  /\ borrowers' = {}

EndpointInit ==
  /\ LimiterInit
  /\ requests = [r \in Requests |-> Idle]
  /\ queue = <<>>
  /\ borrowers = {}

Arrive(r) ==
  \E ip \in Ips, id \in Identifiers, password \in Passwords :
    Admit(r, ip, id, password) \/ Refuse(r, ip, id, password)

EndpointNext ==
  \/ \E r \in Requests :
       \/ Arrive(r)
       \/ StartHash(r)
       \/ FinishHash(r)
       \/ Reject(r)
       \/ Grant(r)
       \/ Leave(r)
  \/ EndpointTick
  \/ Restart

\* The event loop and the worker threads run: a hash that may start starts,
\* one under way ends, and a coroutine whose result is there is resumed.
Fairness ==
  \A r \in Requests :
    /\ WF_endpointVars(StartHash(r))
    /\ WF_endpointVars(FinishHash(r))
    /\ WF_endpointVars(Reject(r))
    /\ WF_endpointVars(Grant(r))

EndpointSpec == EndpointInit /\ [][EndpointNext]_endpointVars /\ Fairness

-----------------------------------------------------------------------------
(* Properties.                                                             *)

Request ==
  [stage : Stages, ip : Ips \cup {"none"}, id : Identifiers \cup {"none"},
   password : Passwords \cup {"none"},
   verified : {"unhashed", "unreadable", "match", "mismatch"},
   status : {0, 200, 401, 429}]

\* What the stage of a request says of its other fields.
StageTells(q) ==
  /\ q.stage = "idle" => q = Idle
  /\ q.status # 0 <=> q.stage = "answered"
  /\ q.verified # "unhashed" <=> q.stage \in {"hashed", "answered"} /\ q.status # 429

\* Types; and a request has a status exactly when it is answered, the status is
\* 200, 401 or 429 and no other, and there is a verdict on the password exactly
\* when a thread has been through verify_password, which every answer but a 429
\* has waited for (auth.py:56-83).
EndpointTypeOK ==
  /\ TypeOK
  /\ requests \in [Requests -> Request]
  /\ \A r \in Requests : StageTells(requests[r])
  /\ queue \in Seq(Requests)
  /\ borrowers \subseteq Requests

\* A request is in one place at a time and no token leaks, whichever way a
\* request ends: those queued are the ones that wait, once each, and tokens are
\* held by requests that are hashed or about to resume, never more than
\* AUTH_PASSWORD_HASH_CONCURRENCY of them (auth.py:71-73).
PlacesConsistent ==
  /\ {queue[i] : i \in 1 .. Len(queue)} = In("queued")
  /\ Len(queue) = Cardinality(In("queued"))
  /\ borrowers = In("hashing") \cup In("hashed")
  /\ Cardinality(borrowers) <= Concurrency

\* Tokens go to no one who has not given the own password of an enabled
\* account; the password behind DUMMY_PASSWORD_HASH opens nothing, although it
\* verifies (security.py:25-27, auth.py:66-83).
TokensOnlyForProof ==
  \A r \in Requests :
    requests[r].status = 200 =>
      /\ UserOf[requests[r].id] \in Active
      /\ requests[r].password = UserOf[requests[r].id]

\* Accounts cannot be told apart by the work done for them: every 401, like
\* every 200, follows the one hash that a request costs, whether the account
\* exists, is disabled or neither, and a 429 none (the comments at auth.py:75-76
\* and security.py:25-27). An account configured with a hash that cannot be read
\* is the one exception: it is refused without the work.
WorkMatchesAnswer ==
  \A r \in In("answered") :
    requests[r].verified \in {"match", "mismatch"} <=>
      /\ requests[r].status # 429
      /\ FindByIdentifier(requests[r].id) \notin Malformed

\* An open window of an identifier is forgotten only by a request for that
\* very identifier that proved its password (rate_limit.py:109), when the dict
\* overflows or with the process; no window of an address is ever forgotten
\* by a login.
LockoutLiftedByProof ==
  [][\A k \in Live(now') \ DOMAIN counters' :
       \/ \E r \in Requests :
            /\ requests[r].stage = "hashed" /\ requests'[r].status = 200
            /\ k = IdentifierKey(requests[r].id)
       \/ /\ Cardinality(DOMAIN counters') = MaxEntries
          /\ \E r \in In("idle") : requests'[r].stage # "idle"
       \/ DOMAIN counters' = {} /\ requests' = [r \in Requests |-> Idle]]_endpointVars

\* Every admitted request gets its answer unless the process is replaced:
\* tokens return, the queue moves, and newcomers overtake nobody for ever.
EventuallyAnswered ==
  \A r \in Requests :
    requests[r].stage = "queued" ~> requests[r].stage \in {"answered", "idle"}
=============================================================================
