------------------------ MODULE UserDirectoryProofs ------------------------
(***************************************************************************)
(* Theorems about UserDirectory, for every set of spellings, every         *)
(* behaviour of the libraries that LibraryAssumption allows, and any       *)
(* number of entries.                                                      *)
(*                                                                         *)
(* The inductive invariant says what the constructor has established of    *)
(* the entries it has looked at, and what generate-user has established of *)
(* those it printed; that a login finds its account follows from the two   *)
(* and from how the normal forms relate.                                   *)
(***************************************************************************)
EXTENDS UserDirectory, TLAPS

-----------------------------------------------------------------------------
(* Normal forms.                                                           *)

LEMMA NormalTypes ==
  ASSUME NEW t \in Texts
  PROVE  /\ Nfkc[t] \in Texts /\ NormalizeUsername(t) \in Texts
         /\ LoginName(t) \in Texts /\ StoredName(t) \in Texts
<1>1. \A s \in Texts : Nfkc[s] \in Texts /\ Fold[s] \in Texts
  BY LibraryAssumption
<1> QED
  BY <1>1 DEF NormalizeUsername, LoginName, StoredName

LEMMA LibraryTypes ==
  /\ None \notin Texts /\ WithAt \subseteq Texts
  /\ \A t \in DOMAIN Email : t \in WithAt /\ Email[t] \in Texts
  /\ \A r \in Regions : \A t \in DOMAIN Phone[r] : Phone[r][t] \in Texts /\ t \notin WithAt
BY LibraryAssumption

\* A text is an address, a phone number, or a username, whatever else.
LEMMA ResolveCases ==
  ASSUME NEW t \in Texts, NEW r \in Regions
  PROVE  /\ Nfkc[t] \in WithAt =>
              Resolve(t, r) = <<"email", IF Nfkc[t] \in DOMAIN Email THEN Email[Nfkc[t]]
                                         ELSE Fold[Nfkc[t]]>>
         /\ Nfkc[t] \in DOMAIN Phone[r] => Resolve(t, r) = <<"phone", Phone[r][Nfkc[t]]>>
         /\ (Nfkc[t] \notin WithAt /\ Nfkc[t] \notin DOMAIN Phone[r]) =>
              Resolve(t, r) = <<"username", LoginName(t)>>
BY LibraryTypes DEF Resolve

LEMMA ResolveType ==
  ASSUME NEW t \in Texts, NEW r \in Regions
  PROVE  Resolve(t, r) \in {"email", "phone", "username"} \X Texts
<1>1. Nfkc[t] \in Texts /\ LoginName(t) \in Texts /\ Fold[Nfkc[t]] \in Texts
  BY NormalTypes, LibraryAssumption
<1> QED
  BY <1>1, ResolveCases, LibraryTypes

\* A username that was accepted is looked up as one, and stored as one.
LEMMA UsernameKeys ==
  ASSUME NEW t \in Texts, NEW r \in Regions, IsUsername(t, r)
  PROVE  /\ Resolve(t, r) = <<"username", LoginName(t)>>
         /\ Resolve(NormalizeUsername(t), r) = <<"username", StoredName(t)>>
<1> DEFINE name == NormalizeUsername(t)
<1>1. name \in Texts /\ name \notin WithAt /\ Resolve(name, r)[1] = "username"
  BY NormalTypes DEF IsUsername
<1>2. Nfkc[name] \notin WithAt /\ Nfkc[name] \notin DOMAIN Phone[r]
  <2> HIDE DEF name
  <2> QED
    BY <1>1, ResolveCases
<1>3. Nfkc[t] \notin WithAt /\ Nfkc[t] \notin DOMAIN Phone[r]
  BY <1>1, <1>2, LibraryAssumption
<1>4. Resolve(name, r) = <<"username", LoginName(name)>>
  <2> HIDE DEF name
  <2> QED
    BY <1>1, <1>2, ResolveCases
<1> QED
  BY <1>3, <1>4, ResolveCases DEF StoredName

\* Login and stored form agree exactly where a further normalisation changes
\* nothing, and a login form never is the stored form of another spelling only.
LEMMA LoginMeetsStored ==
  ASSUME NEW t \in Texts
  PROVE  /\ Stable(StoredName(t))
         /\ Stable(LoginName(t)) => LoginName(t) = StoredName(t)
BY LibraryAssumption

-----------------------------------------------------------------------------
(* Entries.                                                                *)

LEMMA EntryFields ==
  ASSUME NEW entry \in Entries
  PROVE  /\ entry.id \in Ids
         /\ entry.email # None => entry.email \in Texts
         /\ entry.phone # None => entry.phone \in Texts
         /\ entry.username # None => entry.username \in Texts
BY DEF Entries, Optional

LEMMA KeysType ==
  ASSUME NEW entry \in Entries, NEW r \in Regions, Valid(entry, r)
  PROVE  Keys(entry, r) \subseteq {"email", "phone", "username"} \X Texts
<1>1. entry.email # None => <<"email", Email[entry.email]>> \in {"email"} \X Texts
  BY LibraryTypes DEF Valid
<1>2. entry.phone # None => Resolve(entry.phone, r) \in {"email", "phone", "username"} \X Texts
  BY EntryFields, ResolveType
<1>3. entry.username # None =>
        Resolve(NormalizeUsername(entry.username), r) \in {"email", "phone", "username"} \X Texts
  BY EntryFields, NormalTypes, ResolveType
<1> QED
  BY <1>1, <1>2, <1>3 DEF Keys

LEMMA KeysExist ==
  ASSUME NEW entry, NEW r, Valid(entry, r)
  PROVE  Keys(entry, r) # {}
<1>1. entry.email # None \/ entry.phone # None \/ entry.username # None
  BY DEF Valid, Identified
<1> QED
  BY <1>1 DEF Keys

\* The only username among the keys of an entry is the stored form of its own.
LEMMA UsernameKey ==
  ASSUME NEW entry \in Entries, NEW r \in Regions, Valid(entry, r),
         NEW name, <<"username", name>> \in Keys(entry, r)
  PROVE  entry.username # None /\ name = StoredName(entry.username)
<1>1. entry.phone # None => Resolve(entry.phone, r)[1] = "phone"
  BY DEF Valid, IsPhone
<1>2. entry.username # None =>
        Resolve(NormalizeUsername(entry.username), r) = <<"username", StoredName(entry.username)>>
  BY EntryFields, UsernameKeys DEF Valid
<1> QED
  BY <1>1, <1>2 DEF Keys

LEMMA PrintedEntry ==
  ASSUME NEW entry \in Entries, NEW r \in Regions, Valid(entry, r)
  PROVE  /\ Printed(entry, r) \in Entries
         /\ Printed(entry, r).username # None =>
              /\ entry.username \in Texts
              /\ Printed(entry, r).username = NormalizeUsername(entry.username)
<1>1. entry.email # None => Email[entry.email] \in Texts
  BY LibraryTypes DEF Valid
<1>2. entry.phone # None => Resolve(entry.phone, r)[2] \in Texts
  BY EntryFields, ResolveType
<1>3. entry.username # None =>
        entry.username \in Texts /\ NormalizeUsername(entry.username) \in Texts
  BY EntryFields, NormalTypes
<1> QED
  BY <1>1, <1>2, <1>3 DEF Printed, Entries, Optional

-----------------------------------------------------------------------------
(* The inductive invariant.                                                *)

Configured == [entry : Entries, by : {"hand", "cli"}, region : Regions]

\* What is known of the entries the constructor has passed, of the one it has
\* stopped at, and of those that generate-user printed.
Passed ==
  status \in {"starting", "serving"} =>
    \A i \in 1 .. next - 1 : Valid(Entry(i), server)

Completed == status = "serving" => next = Len(config) + 1

Alike(i, j) ==
  \/ Entry(i).id = Entry(j).id
  \/ Keys(Entry(i), server) \cap Keys(Entry(j), server) # {}

StoppedAt ==
  status = "refused" =>
    /\ next <= Len(config)
    /\ Valid(Entry(next), server) => \E j \in 1 .. next - 1 : Alike(next, j)

PrintedValid ==
  \A i \in 1 .. Len(config) : config[i].by = "cli" =>
    /\ Valid(Entry(i), config[i].region)
    /\ Entry(i).username # None =>
         \E t \in Texts : Entry(i).username = NormalizeUsername(t)

IInv ==
  /\ TypeOK
  /\ IndexFaithful
  /\ Passed /\ Completed /\ StoppedAt
  /\ PrintedValid

LEMMA EntryType ==
  ASSUME TypeOK, NEW i \in 1 .. Len(config)
  PROVE  /\ Entry(i) \in Entries
         /\ config[i].by \in {"hand", "cli"} /\ config[i].region \in Regions
<1>1. config \in Seq(Configured)
  BY DEF TypeOK, Configured
<1>2. config[i] \in Configured
  BY <1>1
<1> QED
  BY <1>2 DEF Configured, Entry

LEMMA IInvInit == Init => IInv
BY DEF Init, IInv, TypeOK, IndexFaithful, Passed, Completed, StoppedAt, PrintedValid, NoUsers

\* The configuration grows, by a valid entry if generate-user printed it.
LEMMA ConfigureKeeps ==
  ASSUME IInv, NEW entry \in Entries, NEW by \in {"hand", "cli"}, NEW region \in Regions,
         Configure(entry, by, region),
         by = "cli" => /\ Valid(entry, region)
                       /\ entry.username # None =>
                            \E t \in Texts : entry.username = NormalizeUsername(t)
  PROVE  IInv'
<1> DEFINE new == [entry |-> entry, by |-> by, region |-> region]
<1>1. /\ status = "stopped" /\ status' = status
      /\ server' = server /\ next' = next /\ users' = users
      /\ config' = Append(config, new) /\ config \in Seq(Configured)
      /\ new \in Configured
  BY DEF Configure, IInv, TypeOK, Configured
<1> HIDE DEF new
<1>2. /\ config' \in Seq(Configured) /\ Len(config') = Len(config) + 1
      /\ \A i \in 1 .. Len(config) : config'[i] = config[i]
      /\ config'[Len(config) + 1] = new
  BY <1>1
<1>3. TypeOK'
  BY <1>1, <1>2 DEF IInv, TypeOK, Configured
<1>4. IndexFaithful' /\ Passed' /\ Completed' /\ StoppedAt'
  BY <1>1 DEF IndexFaithful, Passed, Completed, StoppedAt
<1>5. PrintedValid'
  <2> SUFFICES ASSUME NEW i \in 1 .. Len(config'), config'[i].by = "cli"
               PROVE  /\ Valid(config'[i].entry, config'[i].region)
                      /\ config'[i].entry.username # None =>
                           \E t \in Texts : config'[i].entry.username = NormalizeUsername(t)
    BY DEF PrintedValid, Entry
  <2>1. CASE i \in 1 .. Len(config)
    BY <1>2, <2>1 DEF IInv, PrintedValid, Entry
  <2>2. CASE i = Len(config) + 1
    BY <1>2, <2>2 DEF new
  <2>3. Len(config) \in Nat
    BY <1>1
  <2> QED
    BY <1>2, <2>1, <2>2, <2>3
<1> QED
  BY <1>3, <1>4, <1>5 DEF IInv

LEMMA GenerateUserKeeps ==
  ASSUME IInv, NEW entry \in Entries, NEW region \in Regions, GenerateUser(entry, region)
  PROVE  IInv'
<1>1. /\ Valid(entry, region) /\ Valid(Printed(entry, region), region)
      /\ Configure(Printed(entry, region), "cli", region)
  BY DEF GenerateUser
<1> QED
  BY <1>1, PrintedEntry, ConfigureKeeps

\* Two entries the constructor has passed are not alike; the next one is a
\* duplicate exactly if it is like one of them.
LEMMA DuplicateMeansAlike ==
  ASSUME IInv, status = "starting", next <= Len(config)
  PROVE  Duplicate(next) <=> \E j \in 1 .. next - 1 : Alike(next, j)
BY DEF IInv, IndexFaithful, Duplicate, Alike, TypeOK

LEMMA AddAccountKeeps ==
  ASSUME IInv, AddAccount
  PROVE  IInv'
<1> DEFINE new == Keys(Entry(next), server)
           id == Entry(next).id
<1>1. /\ status = "starting" /\ status' = status /\ config' = config /\ server' = server
      /\ next' = next + 1 /\ next \in 1 .. Len(config) /\ next \in Nat
      /\ users' = [key \in DOMAIN users \cup new |-> IF key \in new THEN id ELSE users[key]]
  BY DEF AddAccount, IInv, TypeOK
<1>2. Entry(next) \in Entries /\ server \in Regions /\ Valid(Entry(next), server)
  BY <1>1, EntryType DEF IInv, TypeOK, AddAccount, Acceptable
<1>3. /\ \A j \in 1 .. next - 1 : Entry(j).id # id
      /\ new \cap DOMAIN users = {}
  BY DEF AddAccount, Acceptable, Duplicate
<1>4. id \in Ids /\ new \subseteq {"email", "phone", "username"} \X Texts
  BY <1>2, EntryFields, KeysType
<1>5. \A i : Entry(i)' = Entry(i)
  BY <1>1 DEF Entry
<1>6. 1 .. next' - 1 = (1 .. next - 1) \cup {next}
  BY <1>1
<1> HIDE DEF new, id
<1>7. /\ DOMAIN users' = DOMAIN users \cup new
      /\ \A key \in new : users'[key] = id
      /\ \A key \in DOMAIN users : users'[key] = users[key]
  BY <1>1, <1>3
<1>8. TypeOK'
  <2>1. DOMAIN users' \subseteq {"email", "phone", "username"} \X Texts
    BY <1>4, <1>7 DEF IInv, TypeOK
  <2>2. users' \in [DOMAIN users' -> Ids]
    BY <1>1, <1>4, <1>7 DEF IInv, TypeOK
  <2>3. next' \in 1 .. Len(config') + 1
    BY <1>1 DEF IInv, TypeOK
  <2> QED
    BY <1>1, <2>1, <2>2, <2>3 DEF IInv, TypeOK
<1>9. IndexFaithful'
  <2>1. DOMAIN users = UNION {Keys(Entry(i), server) : i \in 1 .. next - 1}
    BY <1>1 DEF IInv, IndexFaithful
  <2>2. DOMAIN users' = UNION {Keys(Entry(i), server) : i \in (1 .. next - 1) \cup {next}}
    BY <1>7, <2>1 DEF new
  <2>3. \A i \in 1 .. next - 1 : \A key \in Keys(Entry(i), server) :
          key \in DOMAIN users /\ users[key] = Entry(i).id
    BY <1>1, <2>1 DEF IInv, IndexFaithful
  <2>4. \A i \in (1 .. next - 1) \cup {next} : \A key \in Keys(Entry(i), server) :
          users'[key] = Entry(i).id
    BY <1>7, <2>3 DEF new, id
  <2>5. \A i \in (1 .. next - 1) \cup {next} : \A j \in 1 .. i - 1 : Entry(j).id # Entry(i).id
    BY <1>1, <1>3 DEF IInv, IndexFaithful, id
  <2>6. \A i \in (1 .. next - 1) \cup {next} : Keys(Entry(i), server) # {}
    BY <1>1, <1>2, KeysExist DEF IInv, IndexFaithful
  <2>7. /\ DOMAIN users' = UNION {Keys(Entry(i), server) : i \in 1 .. next' - 1}
        /\ \A i \in 1 .. next' - 1 :
             /\ Keys(Entry(i), server) # {}
             /\ \A key \in Keys(Entry(i), server) : users'[key] = Entry(i).id
             /\ \A j \in 1 .. i - 1 : Entry(j).id # Entry(i).id
    BY <1>6, <2>2, <2>4, <2>5, <2>6
  <2>8. config' = config /\ server' = server
    BY <1>1
  <2> QED
    BY <2>7, <2>8 DEF IndexFaithful, Entry
<1>10. Passed'
  BY <1>1, <1>2, <1>5, <1>6 DEF IInv, Passed
<1>11. Completed' /\ StoppedAt'
  BY <1>1 DEF Completed, StoppedAt
<1>12. PrintedValid'
  BY <1>1, <1>5 DEF IInv, PrintedValid
<1> QED
  BY <1>8, <1>9, <1>10, <1>11, <1>12 DEF IInv

LEMMA RefuseKeeps ==
  ASSUME IInv, Refuse
  PROVE  IInv'
<1>1. /\ status = "starting" /\ status' = "refused" /\ next <= Len(config) /\ users' = NoUsers
      /\ config' = config /\ server' = server /\ next' = next
  BY DEF Refuse
<1>2. Valid(Entry(next), server) => \E j \in 1 .. next - 1 : Alike(next, j)
  BY <1>1, DuplicateMeansAlike DEF Refuse, Acceptable
<1>3. StoppedAt'
  BY <1>1, <1>2 DEF StoppedAt, Alike, Entry
<1>4. TypeOK' /\ IndexFaithful' /\ Passed' /\ Completed' /\ PrintedValid'
  BY <1>1 DEF IInv, TypeOK, IndexFaithful, Passed, Completed, PrintedValid, Entry, NoUsers
<1> QED
  BY <1>3, <1>4 DEF IInv

LEMMA IInvStep == IInv /\ [Next]_vars => IInv'
<1> SUFFICES ASSUME IInv, [Next]_vars PROVE IInv'
  OBVIOUS
<1>1. CASE UNCHANGED vars
  <2>1. /\ config' = config /\ server' = server /\ status' = status
        /\ next' = next /\ users' = users
    BY <1>1 DEF vars
  <2>2. TypeOK' /\ Passed' /\ Completed' /\ PrintedValid'
    BY <2>1 DEF IInv, TypeOK, Passed, Completed, PrintedValid, Entry
  <2>3. IndexFaithful' /\ StoppedAt'
    BY <2>1 DEF IInv, IndexFaithful, StoppedAt, Alike, Entry
  <2> QED
    BY <2>2, <2>3 DEF IInv
<1>2. ASSUME NEW entry \in Typed, WriteByHand(entry) PROVE IInv'
  BY <1>2, ConfigureKeeps, LibraryAssumption DEF WriteByHand, IInv, TypeOK
<1>3. ASSUME NEW entry \in Typed, NEW region \in Regions, GenerateUser(entry, region)
      PROVE  IInv'
  BY <1>3, GenerateUserKeeps, LibraryAssumption
<1>4. CASE Start
  <2>1. /\ config' = config /\ server' = server /\ status' = "starting" /\ next' = 1
        /\ users' = NoUsers
    BY <1>4 DEF Start
  <2> QED
    BY <2>1 DEF IInv, TypeOK, IndexFaithful, Passed, Completed, StoppedAt, PrintedValid,
                Entry, NoUsers
<1>5. CASE Serve
  BY <1>5 DEF Serve, IInv, TypeOK, IndexFaithful, Passed, Completed, StoppedAt, PrintedValid,
              Entry
<1>6. CASE Stop
  BY <1>6 DEF Stop, IInv, TypeOK, IndexFaithful, Passed, Completed, StoppedAt, PrintedValid,
              Entry, NoUsers
<1> QED
  BY <1>1, <1>2, <1>3, <1>4, <1>5, <1>6, AddAccountKeeps, RefuseKeeps DEF Next

LEMMA Invariance == Spec => []IInv
BY IInvInit, IInvStep, PTL DEF Spec

-----------------------------------------------------------------------------
(* Theorems.                                                               *)

\* The index is the union of the identifiers of all entries, each under its
\* own id (users.py:57-74).
THEOREM TypesAndIndex == Spec => [](TypeOK /\ IndexFaithful)
<1>1. IInv => TypeOK /\ IndexFaithful
  BY DEF IInv
<1> QED
  BY <1>1, Invariance, PTL

\* What is read of the environment and kept of it has its type from the first
\* load to the last, also over failed starts (config.py, users.py:36-89).
THEOREM TypesCorrect == Spec => []TypeOK
BY TypesAndIndex, PTL

\* While the server serves, every entry has been passed.
LEMMA Served ==
  ASSUME IInv, status = "serving", NEW i \in 1 .. Len(config)
  PROVE  /\ Entry(i) \in Entries /\ Valid(Entry(i), server) /\ server \in Regions
         /\ \A key \in Keys(Entry(i), server) : key \in DOMAIN users /\ users[key] = Entry(i).id
         /\ \A key \in DOMAIN users : \E j \in 1 .. Len(config) : key \in Keys(Entry(j), server)
<1>1. next = Len(config) + 1 /\ Len(config) \in Nat
  BY DEF IInv, Completed, TypeOK
<1>2. 1 .. next - 1 = 1 .. Len(config)
  BY <1>1
<1> QED
  BY <1>2, EntryType DEF IInv, IndexFaithful, Passed, TypeOK

\* Whom a username is found to be: its entry if the login form is stable,
\* and otherwise nobody.
LEMMA FindUsername ==
  ASSUME IInv, status = "serving", NEW i \in 1 .. Len(config), Entry(i).username # None
  PROVE  LET t == Entry(i).username
         IN  IF Stable(LoginName(t)) THEN Find(t) = Entry(i).id ELSE Find(t) = None
<1> DEFINE t == Entry(i).username
<1>1. /\ Entry(i) \in Entries /\ Valid(Entry(i), server) /\ server \in Regions
      /\ t \in Texts
  BY Served, EntryFields
<1>2. IsUsername(t, server)
  BY <1>1 DEF Valid
<1>3. /\ Resolve(t, server) = <<"username", LoginName(t)>>
      /\ <<"username", StoredName(t)>> \in Keys(Entry(i), server)
  <2>1. Resolve(NormalizeUsername(t), server) \in Keys(Entry(i), server)
    BY DEF Keys
  <2> QED
    BY <1>1, <1>2, <2>1, UsernameKeys
<1>4. CASE Stable(LoginName(t))
  <2>1. LoginName(t) = StoredName(t)
    BY <1>1, <1>4, LoginMeetsStored
  <2>2. Resolve(t, server) \in DOMAIN users /\ users[Resolve(t, server)] = Entry(i).id
    BY <1>3, <2>1, Served
  <2> QED
    BY <1>4, <2>2 DEF Find
<1>5. CASE ~Stable(LoginName(t))
  <2>1. SUFFICES ASSUME Resolve(t, server) \in DOMAIN users PROVE FALSE
    BY <1>5 DEF Find
  <2>2. PICK j \in 1 .. Len(config) : <<"username", LoginName(t)>> \in Keys(Entry(j), server)
    BY <1>3, <2>1, Served
  <2>3. /\ Entry(j).username \in Texts /\ LoginName(t) = StoredName(Entry(j).username)
    BY <2>2, Served, UsernameKey, EntryFields
  <2> QED
    BY <1>5, <2>3, LoginMeetsStored
<1> QED
  BY <1>4, <1>5

LEMMA FindPhone ==
  ASSUME IInv, status = "serving", NEW i \in 1 .. Len(config), Entry(i).phone # None
  PROVE  Find(Entry(i).phone) = Entry(i).id
<1>1. Resolve(Entry(i).phone, server) \in Keys(Entry(i), server)
  BY DEF Keys
<1> QED
  BY <1>1, Served DEF Find

\* None is no id, so that who is found is told from who is not.
LEMMA FindEmail ==
  ASSUME IInv, status = "serving", NEW i \in 1 .. Len(config),
         Entry(i).email # None, Nfkc[Entry(i).email] = Entry(i).email
  PROVE  Find(Entry(i).email) = Entry(i).id
<1> DEFINE t == Entry(i).email
<1>1. /\ t \in Texts /\ t \in DOMAIN Email /\ t \in WithAt /\ server \in Regions
  BY Served, EntryFields, LibraryTypes DEF Valid
<1>2. Resolve(t, server) = <<"email", Email[t]>>
  BY <1>1, ResolveCases
<1>3. <<"email", Email[t]>> \in Keys(Entry(i), server)
  BY DEF Keys
<1> QED
  BY <1>2, <1>3, Served DEF Find

\* Nobody reaches an account with another's phone number or username, although
\* the stored forms are normalised once more (users.py:105, identifier.py:63).
THEOREM NobodyElsesAccount == Spec => []OwnAccountOnly
<1>1. IInv => OwnAccountOnly
  BY FindPhone, FindUsername DEF OwnAccountOnly
<1> QED
  BY <1>1, Invariance, PTL

\* A username reaches its account if and only if its login form is stable
\* (users.py:89-115, identifier.py:41-63).
THEOREM StableNamesReach == Spec => []ReachedIfStable
<1>1. ASSUME IInv, status = "serving", NEW i \in 1 .. Len(config), Entry(i).username # None
      PROVE  Find(Entry(i).username) = Entry(i).id <=> Stable(LoginName(Entry(i).username))
  <2>1. Entry(i).id # None
    BY <1>1, Served, EntryFields, LibraryAssumption
  <2> QED
    BY <1>1, <2>1, FindUsername
<1>2. IInv => ReachedIfStable
  BY <1>1, FindEmail DEF ReachedIfStable
<1> QED
  BY <1>2, Invariance, PTL

\* What generate-user prints is found in the spelling it was printed in
\* (cli.py:113-125).
THEOREM PrintedReach == Spec => []ReachedAsPrinted
<1>1. ASSUME IInv, status = "serving", NEW i \in 1 .. Len(config), config[i].by = "cli",
             Entry(i).username # None
      PROVE  Find(Entry(i).username) = Entry(i).id
  <2>1. PICK t \in Texts : Entry(i).username = NormalizeUsername(t)
    BY <1>1 DEF IInv, PrintedValid
  <2>2. LoginName(Entry(i).username) = StoredName(t)
    BY <2>1 DEF StoredName
  <2>3. Stable(LoginName(Entry(i).username))
    BY <2>2, LoginMeetsStored
  <2> QED
    BY <1>1, <2>3, FindUsername
<1>2. IInv => ReachedAsPrinted
  BY <1>1, FindPhone DEF ReachedAsPrinted
<1> QED
  BY <1>2, Invariance, PTL

\* The server does not refuse what generate-user printed for its region,
\* unless two entries are alike (cli.py:111, users.py:57-74).
THEOREM RefusalHasCause == Spec => []RefusedForCause
<1>1. ASSUME IInv, status = "refused" PROVE RefusedForCause
  <2>1. /\ next \in 1 .. Len(config) /\ Len(config) \in Nat
        /\ Valid(Entry(next), server) => \E j \in 1 .. next - 1 : Alike(next, j)
    BY <1>1 DEF IInv, StoppedAt, TypeOK
  <2>2. CASE Valid(Entry(next), server)
    <3>1. PICK j \in 1 .. next - 1 : Alike(next, j)
      BY <2>1, <2>2
    <3>2. j \in 1 .. Len(config) /\ j # next
      BY <2>1
    <3> QED
      BY <2>1, <3>1, <3>2 DEF RefusedForCause, Alike
  <2>3. CASE ~Valid(Entry(next), server)
    <3>1. config[next].by = "hand" \/ config[next].region # server
      BY <1>1, <2>1, <2>3, EntryType DEF IInv, PrintedValid
    <3> QED
      BY <2>1, <3>1 DEF RefusedForCause
  <2> QED
    BY <2>2, <2>3
<1>2. IInv => RefusedForCause
  BY <1>1 DEF RefusedForCause
<1> QED
  BY <1>2, Invariance, PTL
=============================================================================
