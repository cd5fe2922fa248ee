------------------------ MODULE TokenEndpointProofs ------------------------
(***************************************************************************)
(* Theorems about TokenEndpoint, for any number of requests, places,       *)
(* accounts and identifiers.                                               *)
(*                                                                         *)
(* The endpoint uses its rate limiter as LimiterSpec allows, so that every *)
(* theorem about the limiter holds of it here. The inductive invariant is  *)
(* about the requests alone: what is known of a request at each stage, who *)
(* stands in the queue, and who holds a token of the CapacityLimiter.      *)
(***************************************************************************)
EXTENDS TokenEndpoint, RateLimiterProofs

-----------------------------------------------------------------------------
(* The inductive invariant.                                                *)

\* What is known of a request at each of its stages.
RequestOK(r) ==
  LET q == requests[r]
  IN  /\ StageTells(q)
      /\ q.stage # "idle" => q.id \in Identifiers
      /\ q.verified # "unhashed" =>
           (q.verified = "unreadable" <=> FindByIdentifier(q.id) \in Malformed)
      /\ q.verified = "match" => q.id \in Identifiers /\ q.password = StoredHash(q.id)
      /\ q.status = 200 =>
           q.id \in Identifiers /\ UserOf[q.id] \in Active /\ q.password = UserOf[q.id]

\* Those who wait are in the queue, once each.
QueueOK ==
  /\ queue \in Seq(Requests)
  /\ \A i, j \in 1 .. Len(queue) : queue[i] = queue[j] => i = j
  /\ \A r \in Requests :
       requests[r].stage = "queued" <=> \E i \in 1 .. Len(queue) : queue[i] = r

BorrowersOK ==
  /\ borrowers = In("hashing") \cup In("hashed")
  /\ IsFiniteSet(borrowers) /\ Cardinality(borrowers) <= Concurrency

EndpointInv ==
  /\ requests \in [Requests -> Request]
  /\ \A r \in Requests : RequestOK(r)
  /\ QueueOK
  /\ BorrowersOK

LEMMA SlotType ==
  ASSUME NEW stage \in Stages, NEW ip \in Ips \cup {"none"}, NEW id \in Identifiers \cup {"none"},
         NEW password \in Passwords \cup {"none"}, NEW status \in {0, 200, 401, 429}
  PROVE  Slot(stage, ip, id, password, "unhashed", status) \in Request
BY DEF Slot, Request

\* A request that changes two fields changes no other, and stays a request.
LEMMA Answered ==
  ASSUME NEW q \in Request, NEW status \in {0, 200, 401, 429}
  PROVE  LET new == [q EXCEPT !.stage = "answered", !.status = status]
         IN  /\ new \in Request /\ new.stage = "answered" /\ new.status = status
             /\ new.id = q.id /\ new.verified = q.verified /\ new.password = q.password
<1> DEFINE first == [q EXCEPT !.stage = "answered"]
           new == [first EXCEPT !.status = status]
<1>1. /\ first \in Request /\ first.stage = "answered" /\ first.id = q.id
      /\ first.verified = q.verified /\ first.password = q.password
  BY DEF Request, Stages
<1> HIDE DEF first
<1>2. /\ new \in Request /\ new.stage = "answered" /\ new.status = status
      /\ new.id = q.id /\ new.verified = q.verified /\ new.password = q.password
  BY <1>1 DEF Request
<1> QED
  BY <1>2 DEF first

LEMMA Hashed ==
  ASSUME NEW q \in Request, NEW verdict \in {"unreadable", "match", "mismatch"}
  PROVE  LET new == [q EXCEPT !.stage = "hashed", !.verified = verdict]
         IN  /\ new \in Request /\ new.stage = "hashed" /\ new.verified = verdict
             /\ new.id = q.id /\ new.status = q.status /\ new.password = q.password
<1> DEFINE first == [q EXCEPT !.stage = "hashed"]
           new == [first EXCEPT !.verified = verdict]
<1>1. /\ first \in Request /\ first.stage = "hashed" /\ first.id = q.id
      /\ first.status = q.status /\ first.password = q.password
  BY DEF Request, Stages
<1> HIDE DEF first
<1>2. /\ new \in Request /\ new.stage = "hashed" /\ new.verified = verdict
      /\ new.id = q.id /\ new.status = q.status /\ new.password = q.password
  BY <1>1 DEF Request
<1> QED
  BY <1>2 DEF first

LEMMA IdleOK == Idle \in Request /\ Idle.stage = "idle" /\ Idle.verified = "unhashed" /\ Idle.status = 0
BY SlotType DEF Idle, Stages, Slot

LEMMA EndpointInvInit == EndpointInit => EndpointInv
<1> SUFFICES ASSUME EndpointInit PROVE EndpointInv
  OBVIOUS
<1>1. /\ requests \in [Requests -> Request] /\ queue = <<>> /\ borrowers = {}
      /\ \A r \in Requests : requests[r] = Idle
  BY IdleOK DEF EndpointInit
<1>2. \A r \in Requests : RequestOK(r)
  BY <1>1, IdleOK DEF RequestOK, StageTells
<1>3. QueueOK
  BY <1>1, IdleOK DEF QueueOK
<1>4. BorrowersOK
  BY <1>1, IdleOK, FS_EmptySet, EndpointAssumption DEF BorrowersOK, In
<1> QED
  BY <1>1, <1>2, <1>3, <1>4 DEF EndpointInv

-----------------------------------------------------------------------------
(* Steps.                                                                  *)

\* A step of r that changes no other request, neither queues nor hashes it, and
\* leaves queue and borrowers without it.
LEMMA OneRequestKeeps ==
  ASSUME EndpointInv, NEW r \in Requests, NEW new \in Request,
         requests' = [requests EXCEPT ![r] = new],
         requests[r].stage # "queued", new.stage \notin {"queued", "hashing", "hashed"},
         RequestOK(r)',
         queue' = queue, borrowers' = borrowers \ {r}
  PROVE  EndpointInv'
<1>1. /\ requests' \in [Requests -> Request] /\ requests'[r] = new
      /\ \A s \in Requests \ {r} : requests'[s] = requests[s]
  BY DEF EndpointInv
<1>2. \A s \in Requests : RequestOK(s)'
  BY <1>1 DEF EndpointInv, RequestOK
<1>3. QueueOK'
  BY <1>1 DEF EndpointInv, QueueOK
<1>4. BorrowersOK'
  <2>1. IsFiniteSet(borrowers') /\ Cardinality(borrowers') <= Cardinality(borrowers)
    BY FS_Subset DEF EndpointInv, BorrowersOK
  <2>2. borrowers' = In("hashing")' \cup In("hashed")'
    BY <1>1 DEF EndpointInv, BorrowersOK, In
  <2>3. Cardinality(borrowers) \in Nat /\ Cardinality(borrowers') \in Nat /\ Concurrency \in Nat
    BY <2>1, FS_CardinalityType, EndpointAssumption DEF EndpointInv, BorrowersOK
  <2> QED
    BY <2>1, <2>2, <2>3 DEF EndpointInv, BorrowersOK
<1> QED
  BY <1>1, <1>2, <1>3, <1>4 DEF EndpointInv

LEMMA RefuseKeeps ==
  ASSUME EndpointInv, NEW r \in Requests, NEW ip \in Ips, NEW id \in Identifiers,
         NEW password \in Passwords, Refuse(r, ip, id, password)
  PROVE  EndpointInv'
<1> DEFINE new == Slot("answered", ip, id, password, "unhashed", 429)
<1>1. /\ requests' = [requests EXCEPT ![r] = new] /\ requests[r].stage = "idle"
      /\ queue' = queue /\ borrowers' = borrowers
  BY DEF Refuse
<1>2. new \in Request
  BY SlotType DEF Stages
<1>3. /\ new.stage = "answered" /\ new.id = id /\ new.verified = "unhashed" /\ new.status = 429
  BY DEF Slot
<1> HIDE DEF new
<1>4. requests'[r] = new
  BY <1>1 DEF EndpointInv
<1>5. RequestOK(r)'
  BY <1>3, <1>4 DEF RequestOK, StageTells
<1>6. borrowers' = borrowers \ {r}
  BY <1>1 DEF EndpointInv, BorrowersOK, In
<1> QED
  BY <1>1, <1>2, <1>3, <1>5, <1>6, OneRequestKeeps

LEMMA AdmitKeeps ==
  ASSUME EndpointInv, NEW r \in Requests, NEW ip \in Ips, NEW id \in Identifiers,
         NEW password \in Passwords, Admit(r, ip, id, password)
  PROVE  EndpointInv'
<1> DEFINE new == Slot("queued", ip, id, password, "unhashed", 0)
<1>1. /\ requests' = [requests EXCEPT ![r] = new] /\ requests[r].stage = "idle"
      /\ queue' = Append(queue, r) /\ borrowers' = borrowers
  BY DEF Admit, Admitted, Joined
<1>2. new \in Request
  BY SlotType DEF Stages
<1>3. /\ new.stage = "queued" /\ new.id = id /\ new.verified = "unhashed" /\ new.status = 0
  BY DEF Slot
<1> HIDE DEF new
<1>4. /\ requests' \in [Requests -> Request] /\ requests'[r] = new
      /\ \A s \in Requests \ {r} : requests'[s] = requests[s]
  BY <1>1, <1>2 DEF EndpointInv
<1>5. \A s \in Requests : RequestOK(s)'
  <2>1. RequestOK(r)'
    BY <1>3, <1>4 DEF RequestOK, StageTells
  <2>2. ASSUME NEW s \in Requests \ {r} PROVE RequestOK(s)'
    BY <1>4, <2>2 DEF EndpointInv, RequestOK
  <2> QED
    BY <2>1, <2>2
<1>6. QueueOK'
  <2>1. /\ queue \in Seq(Requests)
        /\ \A i \in 1 .. Len(queue) : queue[i] # r
    BY <1>1 DEF EndpointInv, QueueOK
  <2>2. /\ queue' \in Seq(Requests) /\ Len(queue') = Len(queue) + 1 /\ Len(queue) \in Nat
        /\ \A i \in 1 .. Len(queue) : queue'[i] = queue[i]
        /\ queue'[Len(queue) + 1] = r
    BY <1>1, <2>1
  <2>3. \A i, j \in 1 .. Len(queue') : queue'[i] = queue'[j] => i = j
    BY <2>1, <2>2 DEF EndpointInv, QueueOK
  <2>4. ASSUME NEW s \in Requests
        PROVE  requests'[s].stage = "queued" <=> \E i \in 1 .. Len(queue') : queue'[i] = s
    <3>1. CASE s = r
      BY <1>3, <1>4, <2>2, <3>1
    <3>2. CASE s # r
      BY <1>4, <2>2, <3>2 DEF EndpointInv, QueueOK
    <3> QED
      BY <3>1, <3>2
  <2> QED
    BY <2>2, <2>3, <2>4 DEF QueueOK
<1>7. BorrowersOK'
  BY <1>1, <1>3, <1>4 DEF EndpointInv, BorrowersOK, In
<1> QED
  BY <1>4, <1>5, <1>6, <1>7 DEF EndpointInv

\* The head of the queue is lent the token that is left.
LEMMA StartHashKeeps ==
  ASSUME EndpointInv, NEW r \in Requests, StartHash(r)
  PROVE  EndpointInv'
<1>1. /\ queue # <<>> /\ Head(queue) = r /\ queue' = Tail(queue)
      /\ Cardinality(borrowers) < Concurrency /\ borrowers' = borrowers \cup {r}
      /\ requests' = [requests EXCEPT ![r].stage = "hashing"]
      /\ queue \in Seq(Requests)
  BY DEF StartHash, EndpointInv, QueueOK
<1>2. /\ Len(queue) \in Nat /\ Len(queue) >= 1 /\ queue[1] = r
      /\ queue' \in Seq(Requests) /\ Len(queue') = Len(queue) - 1
      /\ \A i \in 1 .. Len(queue') : i + 1 \in 1 .. Len(queue) /\ queue'[i] = queue[i + 1]
  BY <1>1
<1>3. requests[r].stage = "queued"
  BY <1>2 DEF EndpointInv, QueueOK
<1>4. /\ requests' \in [Requests -> Request]
      /\ \A s \in Requests \ {r} : requests'[s] = requests[s]
      /\ requests'[r].stage = "hashing" /\ requests'[r].id = requests[r].id
      /\ requests'[r].verified = requests[r].verified /\ requests'[r].status = requests[r].status
      /\ requests'[r].password = requests[r].password
  <2>1. requests[r] \in Request /\ requests \in [Requests -> Request]
    BY DEF EndpointInv
  <2> DEFINE new == [requests[r] EXCEPT !.stage = "hashing"]
  <2>2. /\ new \in Request /\ new.stage = "hashing" /\ new.id = requests[r].id
        /\ new.verified = requests[r].verified /\ new.status = requests[r].status
        /\ new.password = requests[r].password
    BY <2>1 DEF Request, Stages
  <2>3. requests' = [requests EXCEPT ![r] = new]
    BY <1>1, <2>1, Zenon
  <2> HIDE DEF new
  <2> QED
    BY <2>1, <2>2, <2>3
<1>5. \A s \in Requests : RequestOK(s)'
  <2>1. RequestOK(r)'
    BY <1>3, <1>4 DEF EndpointInv, RequestOK, StageTells
  <2>2. ASSUME NEW s \in Requests \ {r} PROVE RequestOK(s)'
    BY <1>4, <2>2 DEF EndpointInv, RequestOK
  <2> QED
    BY <2>1, <2>2
<1>6. QueueOK'
  <2>1. \A i, j \in 1 .. Len(queue') : queue'[i] = queue'[j] => i = j
    BY <1>2 DEF EndpointInv, QueueOK
  <2>2. \A i \in 1 .. Len(queue') : queue'[i] # r
    BY <1>2 DEF EndpointInv, QueueOK
  <2>3. ASSUME NEW s \in Requests, s # r, NEW i \in 1 .. Len(queue), queue[i] = s
        PROVE  \E j \in 1 .. Len(queue') : queue'[j] = s
    <3>1. i # 1 /\ i - 1 \in 1 .. Len(queue')
      BY <1>2, <2>3
    <3>2. queue'[i - 1] = queue[i - 1 + 1] /\ i - 1 + 1 = i
      BY <1>2, <3>1
    <3> QED
      BY <2>3, <3>1, <3>2
  <2>4. ASSUME NEW s \in Requests
        PROVE  requests'[s].stage = "queued" <=> \E i \in 1 .. Len(queue') : queue'[i] = s
    <3>1. CASE s = r
      BY <1>4, <2>2, <3>1
    <3>2. CASE s # r
      BY <1>2, <1>4, <2>3, <3>2 DEF EndpointInv, QueueOK
    <3> QED
      BY <3>1, <3>2
  <2> QED
    BY <1>2, <2>1, <2>4 DEF QueueOK
<1>7. BorrowersOK'
  <2>1. r \notin borrowers
    BY <1>3 DEF EndpointInv, BorrowersOK, In
  <2>2. /\ IsFiniteSet(borrowers') /\ Cardinality(borrowers') = Cardinality(borrowers) + 1
        /\ Cardinality(borrowers) \in Nat
    BY <1>1, <2>1, FS_AddElement, FS_CardinalityType DEF EndpointInv, BorrowersOK
  <2>3. borrowers' = In("hashing")' \cup In("hashed")'
    BY <1>1, <1>4 DEF EndpointInv, BorrowersOK, In
  <2> QED
    BY <1>1, <2>2, <2>3, EndpointAssumption DEF BorrowersOK
<1> QED
  BY <1>4, <1>5, <1>6, <1>7 DEF EndpointInv

\* A verdict is reached without a hash exactly for the accounts that were
\* configured with one nobody can read.
LEMMA Verdict ==
  ASSUME NEW id \in Identifiers, NEW password
  PROVE  LET verdict == VerifyPassword(password, StoredHash(id))
         IN  /\ verdict \in {"unreadable", "match", "mismatch"}
             /\ verdict = "match" => password = StoredHash(id)
             /\ verdict = "unreadable" <=> FindByIdentifier(id) \in Malformed
<1>1. StoredHash(id) \notin Readable <=> FindByIdentifier(id) \in Malformed
  BY EndpointAssumption DEF StoredHash, FindByIdentifier, Readable, DummyPassword
<1>2. CASE StoredHash(id) \notin Readable
  BY <1>1, <1>2 DEF VerifyPassword
<1>3. CASE StoredHash(id) \in Readable
  BY <1>1, <1>3 DEF VerifyPassword
<1> QED
  BY <1>2, <1>3

\* A request that holds a token and goes on holding it.
LEMMA FinishHashKeeps ==
  ASSUME EndpointInv, NEW r \in Requests, FinishHash(r)
  PROVE  EndpointInv'
<1> DEFINE verdict == VerifyPassword(requests[r].password, StoredHash(requests[r].id))
<1>1. /\ requests[r] \in Request /\ requests[r].stage = "hashing"
      /\ requests[r].id \in Identifiers /\ requests[r].status = 0
  <2>1. requests[r] \in Request /\ requests[r].stage = "hashing"
    BY DEF FinishHash, EndpointInv
  <2>2. requests[r].status \in {0, 200, 401, 429}
    BY <2>1 DEF Request
  <2> QED
    BY <2>1, <2>2 DEF EndpointInv, RequestOK, StageTells
<1>2. /\ verdict \in {"unreadable", "match", "mismatch"}
      /\ verdict = "match" => requests[r].password = StoredHash(requests[r].id)
      /\ verdict = "unreadable" <=> FindByIdentifier(requests[r].id) \in Malformed
  BY <1>1, Verdict
<1>3. requests' = [requests EXCEPT ![r].stage = "hashed", ![r].verified = verdict]
  BY DEF FinishHash
<1> HIDE DEF verdict
<1> DEFINE new == [requests[r] EXCEPT !.stage = "hashed", !.verified = verdict]
<1>4. /\ new \in Request /\ new.stage = "hashed" /\ new.verified = verdict
      /\ new.id = requests[r].id /\ new.status = requests[r].status
      /\ new.password = requests[r].password
  BY <1>1, <1>2, Hashed
<1>5. requests' = [requests EXCEPT ![r] = new]
  BY <1>3, Zenon DEF EndpointInv
<1> HIDE DEF new
<1>6. /\ requests' \in [Requests -> Request]
      /\ \A s \in Requests \ {r} : requests'[s] = requests[s]
      /\ requests'[r].stage = "hashed" /\ requests'[r].verified = verdict
      /\ requests'[r].id = requests[r].id /\ requests'[r].status = requests[r].status
      /\ requests'[r].password = requests[r].password
  BY <1>4, <1>5 DEF EndpointInv
<1>7. \A s \in Requests : RequestOK(s)'
  <2>1. RequestOK(r)'
    BY <1>1, <1>2, <1>6 DEF RequestOK, StageTells
  <2>2. ASSUME NEW s \in Requests \ {r} PROVE RequestOK(s)'
    BY <1>6, <2>2 DEF EndpointInv, RequestOK
  <2> QED
    BY <2>1, <2>2
<1>8. QueueOK'
  BY <1>1, <1>6 DEF FinishHash, EndpointInv, QueueOK
<1>9. BorrowersOK'
  BY <1>1, <1>6 DEF FinishHash, EndpointInv, BorrowersOK, In
<1> QED
  BY <1>6, <1>7, <1>8, <1>9 DEF EndpointInv

\* The answer to a hashed request: what Respond writes, and what it keeps.
LEMMA RespondKeeps ==
  ASSUME EndpointInv, NEW r \in Requests, NEW status \in {200, 401},
         requests[r].stage = "hashed", Respond(r, status), status = 200 => Proved(r)
  PROVE  EndpointInv'
<1> DEFINE new == [requests[r] EXCEPT !.stage = "answered", !.status = status]
<1>1. /\ requests[r] \in Request /\ requests[r].id \in Identifiers
      /\ requests[r].verified # "unhashed"
      /\ requests[r].verified = "unreadable" <=>
           FindByIdentifier(requests[r].id) \in Malformed
      /\ requests[r].verified = "match" =>
           requests[r].password = StoredHash(requests[r].id)
  BY DEF EndpointInv, RequestOK, StageTells
<1>2. /\ new \in Request /\ new.stage = "answered" /\ new.status = status
      /\ new.id = requests[r].id /\ new.verified = requests[r].verified
      /\ new.password = requests[r].password
  <2>1. status \in {0, 200, 401, 429}
    OBVIOUS
  <2> QED
    BY <1>1, <2>1, Answered
<1>3. /\ requests' = [requests EXCEPT ![r] = new]
      /\ queue' = queue /\ borrowers' = borrowers \ {r}
  <2>1. requests \in [Requests -> Request] /\ DOMAIN requests = Requests
    BY DEF EndpointInv
  <2>2. requests' = [requests EXCEPT ![r].stage = "answered", ![r].status = status]
    BY DEF Respond
  <2>3. requests' = [requests EXCEPT ![r] = new]
    BY <2>1, <2>2, Zenon
  <2> QED
    BY <2>3 DEF Respond, Released
<1> HIDE DEF new
<1>4. requests'[r] = new
  BY <1>3 DEF EndpointInv
<1>5. status = 200 =>
        UserOf[new.id] \in Active /\ new.password = UserOf[new.id]
  BY <1>1, <1>2 DEF Proved, FindByIdentifier, StoredHash
<1>6. RequestOK(r)'
  <2>1. /\ status # 0 /\ status # 429
        /\ new.verified = "match" => new.password = StoredHash(new.id)
    BY <1>1, <1>2
  <2> QED
    BY <1>1, <1>2, <1>4, <1>5, <2>1 DEF RequestOK, StageTells
<1> QED
  BY <1>2, <1>3, <1>6, OneRequestKeeps

LEMMA RejectKeeps ==
  ASSUME EndpointInv, NEW r \in Requests, Reject(r)
  PROVE  EndpointInv'
<1>1. requests[r].stage = "hashed" /\ Respond(r, 401)
  BY DEF Reject
<1> QED
  BY <1>1, RespondKeeps

LEMMA GrantKeeps ==
  ASSUME EndpointInv, NEW r \in Requests, Grant(r)
  PROVE  EndpointInv'
<1>1. requests[r].stage = "hashed" /\ Respond(r, 200) /\ Proved(r)
  BY DEF Grant
<1> QED
  BY <1>1, RespondKeeps

LEMMA LeaveKeeps ==
  ASSUME EndpointInv, NEW r \in Requests, Leave(r)
  PROVE  EndpointInv'
<1>1. /\ requests' = [requests EXCEPT ![r] = Idle] /\ requests[r].stage = "answered"
      /\ queue' = queue /\ borrowers' = borrowers
  BY DEF Leave
<1>2. requests'[r] = Idle
  BY <1>1 DEF EndpointInv
<1>3. RequestOK(r)'
  BY <1>2, IdleOK DEF RequestOK, StageTells
<1>4. borrowers' = borrowers \ {r}
  BY <1>1 DEF EndpointInv, BorrowersOK, In
<1> QED
  BY <1>1, <1>3, <1>4, IdleOK, OneRequestKeeps

LEMMA RestartKeeps ==
  ASSUME Restart
  PROVE  EndpointInv'
<1>1. /\ requests' \in [Requests -> Request] /\ queue' = <<>> /\ borrowers' = {}
      /\ \A r \in Requests : requests'[r] = Idle
  BY IdleOK DEF Restart
<1>2. \A r \in Requests : RequestOK(r)'
  BY <1>1, IdleOK DEF RequestOK, StageTells
<1>3. QueueOK'
  BY <1>1, IdleOK DEF QueueOK
<1>4. BorrowersOK'
  BY <1>1, IdleOK, FS_EmptySet, EndpointAssumption DEF BorrowersOK, In
<1> QED
  BY <1>1, <1>2, <1>3, <1>4 DEF EndpointInv

LEMMA EndpointInvStep == EndpointInv /\ [EndpointNext]_endpointVars => EndpointInv'
<1> SUFFICES ASSUME EndpointInv, [EndpointNext]_endpointVars PROVE EndpointInv'
  OBVIOUS
<1>1. ASSUME NEW r \in Requests, Arrive(r) PROVE EndpointInv'
  BY <1>1, AdmitKeeps, RefuseKeeps DEF Arrive
<1>2. ASSUME NEW r \in Requests, StartHash(r) PROVE EndpointInv'
  BY <1>2, StartHashKeeps
<1>3. ASSUME NEW r \in Requests, FinishHash(r) PROVE EndpointInv'
  BY <1>3, FinishHashKeeps
<1>4. ASSUME NEW r \in Requests, Reject(r) PROVE EndpointInv'
  BY <1>4, RejectKeeps
<1>5. ASSUME NEW r \in Requests, Grant(r) PROVE EndpointInv'
  BY <1>5, GrantKeeps
<1>6. ASSUME NEW r \in Requests, Leave(r) PROVE EndpointInv'
  BY <1>6, LeaveKeeps
<1>7. CASE EndpointTick \/ UNCHANGED endpointVars
  <2>1. requests' = requests /\ queue' = queue /\ borrowers' = borrowers
    BY <1>7 DEF EndpointTick, endpointVars
  <2>2. \A r \in Requests : RequestOK(r)'
    BY <2>1 DEF EndpointInv, RequestOK
  <2>3. QueueOK' /\ BorrowersOK'
    BY <2>1 DEF EndpointInv, QueueOK, BorrowersOK, In
  <2> QED
    BY <2>1, <2>2, <2>3 DEF EndpointInv
<1>8. CASE Restart
  BY <1>8, RestartKeeps
<1> QED
  BY <1>1, <1>2, <1>3, <1>4, <1>5, <1>6, <1>7, <1>8 DEF EndpointNext

\* The inductive invariant is one.
THEOREM EndpointInvariance == EndpointSpec => []EndpointInv
BY EndpointInvInit, EndpointInvStep, PTL DEF EndpointSpec

-----------------------------------------------------------------------------
(* The limiter in the endpoint.                                            *)

LEMMA EndpointLimiterStep ==
  EndpointInv /\ [EndpointNext]_endpointVars => [LimiterNext]_limiterVars
<1> SUFFICES ASSUME EndpointInv, [EndpointNext]_endpointVars
             PROVE  [LimiterNext]_limiterVars
  OBVIOUS
<1>1. CASE UNCHANGED endpointVars
  BY <1>1 DEF endpointVars
<1>2. ASSUME NEW r \in Requests, Arrive(r) PROVE LimiterNext
  BY <1>2 DEF Arrive, Admit, Refuse, LimiterNext
<1>3. ASSUME NEW r \in Requests, StartHash(r) \/ FinishHash(r) \/ Reject(r) \/ Leave(r)
      PROVE  UNCHANGED limiterVars
  BY <1>3 DEF StartHash, FinishHash, Reject, Leave
<1>4. ASSUME NEW r \in Requests, Grant(r) PROVE LimiterNext
  <2>1. requests[r].id \in Identifiers
    BY <1>4 DEF Grant, EndpointInv, RequestOK
  <2>2. ClearIdentifier(requests[r].id)
    BY <1>4 DEF Grant
  <2> QED
    BY <2>1, <2>2 DEF LimiterNext
<1>5. CASE EndpointTick \/ Restart
  BY <1>5 DEF EndpointTick, Restart, LimiterNext
<1> QED
  BY <1>1, <1>2, <1>3, <1>4, <1>5 DEF EndpointNext

\* The endpoint uses its limiter as LimiterSpec says: every theorem about the
\* limiter, such as BoundedSize and WindowsDoNotMove, holds of it while requests
\* come, are hashed, answered and cut off (auth.py:49-121).
THEOREM EndpointUsesLimiter == EndpointSpec => LimiterSpec
<1>1. EndpointInit => LimiterInit
  BY DEF EndpointInit
<1> QED
  BY <1>1, EndpointLimiterStep, EndpointInvariance, PTL DEF EndpointSpec, LimiterSpec

-----------------------------------------------------------------------------
(* Theorems.                                                               *)

\* The slots, the queue and the tokens, like the limiter, always hold what the
\* code's types say, and a request has a verdict and a status exactly at the
\* stages where it should (auth.py:56-83).
THEOREM EndpointTypeCorrect == EndpointSpec => []EndpointTypeOK
<1>1. EndpointInv /\ TypeOK => EndpointTypeOK
  BY DEF EndpointInv, RequestOK, QueueOK, BorrowersOK, In, EndpointTypeOK
<1> QED
  BY <1>1, EndpointInvariance, EndpointUsesLimiter, TypeCorrect, PTL

\* Only the own password of an enabled account is ever answered with tokens,
\* whatever is hashed at the same time (auth.py:66-83).
THEOREM OnlyForProof == EndpointSpec => []TokensOnlyForProof
<1>1. EndpointInv => TokensOnlyForProof
  BY DEF EndpointInv, RequestOK, TokensOnlyForProof
<1> QED
  BY <1>1, EndpointInvariance, PTL

\* The work done for a request tells nothing of its account: a 401 and a 200
\* cost one hash each, a 429 none (auth.py:56-76); unless the account was
\* configured with a hash that cannot be read.
THEOREM SameWork == EndpointSpec => []WorkMatchesAnswer
<1>1. EndpointInv => WorkMatchesAnswer
  <2> SUFFICES ASSUME EndpointInv, NEW r \in In("answered")
               PROVE  requests[r].verified \in {"match", "mismatch"} <=>
                        /\ requests[r].status # 429
                        /\ FindByIdentifier(requests[r].id) \notin Malformed
    BY DEF WorkMatchesAnswer
  <2>1. /\ requests[r] \in Request /\ RequestOK(r)
        /\ requests[r].stage = "answered"
    BY DEF EndpointInv, In
  <2>2. requests[r].verified \in {"unhashed", "unreadable", "match", "mismatch"}
    BY <2>1 DEF Request
  <2>3. requests[r].verified # "unhashed" <=> requests[r].status # 429
    BY <2>1 DEF RequestOK, StageTells
  <2> QED
    BY <2>1, <2>2, <2>3 DEF RequestOK
<1> QED
  BY <1>1, EndpointInvariance, PTL

\* A queue without repetition is as long as the set of those who stand in it.
LEMMA QueueLength == EndpointInv => Len(queue) = Cardinality(In("queued"))
<1> SUFFICES ASSUME EndpointInv PROVE Len(queue) = Cardinality(In("queued"))
  OBVIOUS
<1> DEFINE S == 1 .. Len(queue)
           T == In("queued")
<1>1. /\ Len(queue) \in Nat /\ DOMAIN queue = S
      /\ \A i \in S : queue[i] \in T
  BY DEF EndpointInv, QueueOK, In
<1>2. queue \in [S -> T]
  BY <1>1 DEF EndpointInv, QueueOK
<1>3. \A i, j \in S : queue[i] = queue[j] => i = j
  BY DEF EndpointInv, QueueOK
<1>4. \A r \in T : \E i \in S : queue[i] = r
  BY DEF EndpointInv, QueueOK, In
<1>5. IsFiniteSet(S) /\ Cardinality(S) = Len(queue)
  BY <1>1, FS_Interval
<1> HIDE DEF S, T
<1>6. queue \in Bijection(S, T)
  BY <1>2, <1>3, <1>4 DEF Bijection, Injection, Surjection, IsInjective
<1>7. ExistsBijection(S, T)
  BY <1>6 DEF ExistsBijection
<1>8. Cardinality(S) = Cardinality(T)
  BY <1>5, <1>7, FS_Bijection
<1> QED
  BY <1>5, <1>8 DEF T

\* No token of the CapacityLimiter leaks and no request is in two places,
\* whichever way requests end (auth.py:71-83).
THEOREM PlacesAgree == EndpointSpec => []PlacesConsistent
<1>1. EndpointInv => {queue[i] : i \in 1 .. Len(queue)} = In("queued")
  BY DEF EndpointInv, QueueOK, In
<1>2. EndpointInv => PlacesConsistent
  BY <1>1, QueueLength DEF EndpointInv, BorrowersOK, PlacesConsistent
<1> QED
  BY <1>2, EndpointInvariance, PTL

-----------------------------------------------------------------------------
(* Lockouts.                                                               *)

\* What LockoutLiftedByProof says of a step.
LockoutStep ==
  \A k \in Live(now') \ DOMAIN counters' :
       \/ \E r \in Requests :
            /\ requests[r].stage = "hashed" /\ requests'[r].status = 200
            /\ k = IdentifierKey(requests[r].id)
       \/ /\ Cardinality(DOMAIN counters') = MaxEntries
          /\ \E r \in In("idle") : requests'[r].stage # "idle"
       \/ DOMAIN counters' = {} /\ requests' = [r \in Requests |-> Idle]

LEMMA LockoutSteps ==
  ASSUME IInv, EndpointInv, [EndpointNext]_endpointVars
  PROVE  LockoutStep
<1>1. counters' = counters => LockoutStep
  BY DEF LockoutStep, Live
<1>2. ASSUME NEW r \in Requests, Arrive(r) PROVE LockoutStep
  <2> PICK ip \in Ips, id \in Identifiers, password \in Passwords :
        Admit(r, ip, id, password) \/ Refuse(r, ip, id, password)
    BY <1>2 DEF Arrive
  <2>1. Consume(ip, id) /\ r \in In("idle")
    BY DEF Admit, Refuse, In
  <2>2. requests'[r].stage \in {"queued", "answered"}
    BY DEF Admit, Refuse, Admitted, Slot, EndpointInv
  <2>3. \A k \in Live(now') \ DOMAIN counters' :
          Cardinality(DOMAIN counters') = MaxEntries
    BY <2>1, ConsumeSteps
  <2> QED
    BY <2>1, <2>2, <2>3 DEF LockoutStep
<1>3. ASSUME NEW r \in Requests, Grant(r) PROVE LockoutStep
  <2>1. /\ requests[r].stage = "hashed"
        /\ requests' = [requests EXCEPT ![r].stage = "answered", ![r].status = 200]
        /\ DOMAIN counters' = DOMAIN counters \ {IdentifierKey(requests[r].id)}
    BY <1>3 DEF Grant, Respond, ClearIdentifier
  <2>2. requests'[r].status = 200
    BY <2>1 DEF EndpointInv, Request
  <2>3. \A k \in Live(now') \ DOMAIN counters' : k = IdentifierKey(requests[r].id)
    BY <2>1 DEF Live
  <2> QED
    BY <2>1, <2>2, <2>3 DEF LockoutStep
<1>4. ASSUME NEW r \in Requests, StartHash(r) \/ FinishHash(r) \/ Reject(r) \/ Leave(r)
      PROVE  counters' = counters
  BY <1>4 DEF StartHash, FinishHash, Reject, Leave, limiterVars
<1>5. EndpointTick \/ UNCHANGED endpointVars => counters' = counters
  BY DEF EndpointTick, Tick, endpointVars, limiterVars
<1>6. CASE Restart
  <2>1. DOMAIN counters' = {} /\ requests' = [r \in Requests |-> Idle]
    BY <1>6 DEF Restart, ForgetAll
  <2> QED
    BY <2>1 DEF LockoutStep
<1> QED
  BY <1>1, <1>2, <1>3, <1>4, <1>5, <1>6 DEF EndpointNext

\* An open window is forgotten only by a login that proved the password of
\* that very identifier, by a full dict as a newcomer is charged, or with the
\* process (rate_limit.py:69-82, 109-115; auth.py:85).
THEOREM LockoutLifted == EndpointSpec => LockoutLiftedByProof
<1>1. IInv /\ EndpointInv /\ [EndpointNext]_endpointVars => [LockoutStep]_endpointVars
  BY LockoutSteps
<1>2. EndpointSpec => [][LockoutStep]_endpointVars
  BY <1>1, EndpointInvariance, EndpointUsesLimiter, Invariance, PTL DEF EndpointSpec
<1> QED
  BY <1>2 DEF LockoutLiftedByProof, LockoutStep
=============================================================================
