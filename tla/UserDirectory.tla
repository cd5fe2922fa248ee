--------------------------- MODULE UserDirectory ---------------------------
(***************************************************************************)
(* The accounts of the authentication API: the index that                  *)
(* InMemoryUserRepository (users.py) builds at each start from the entries *)
(* of AUTH_API_USERS, the identifiers a login is looked up by              *)
(* (identifier.py), and the generate-user command that prints entries      *)
(* (cli.py).                                                               *)
(*                                                                         *)
(* A text is a spelling somebody may type. What the libraries make of it,  *)
(* Unicode normalisation, case folding, the validators of addresses and    *)
(* phone numbers, is given by functions; the module is about how the code  *)
(* chains them, which is not the same on every path.                       *)
(***************************************************************************)
EXTENDS Integers, Sequences

CONSTANTS
  Texts,
  Nfkc,          \* text -> its NFKC form, spaces stripped
  Fold,          \* text -> its casefold()
  WithAt,        \* the texts with an "@"
  Sized,         \* the texts of 1 to 64 characters
  Email,         \* valid email address -> its normalized, folded form
  Phone,         \* region -> valid phone number -> its E.164 form
  Ids,
  Typed,         \* the entries people come up with
  MaxEntries     \* bound: entries configured

None == "none"
Regions == DOMAIN Phone
Optional == Texts \cup {None}
Entries == [id : Ids, email : Optional, phone : Optional, username : Optional]

\* identifier.py:27-28.
NormalizeUsername(text) == Fold[Nfkc[text]]

\* The form a login looks a username up by, and the form it is stored in
\* (identifier.py:41 and 63; users.py:105 and 110 before that).
LoginName(text) == NormalizeUsername(Nfkc[text])
StoredName(text) == LoginName(NormalizeUsername(text))

Stable(text) == NormalizeUsername(text) = text

\* What is taken of the libraries. A stored name is left alone by further
\* normalising, and a login name that is left alone is the stored one (both
\* hold of Unicode as far as it was tried: every character, and every kind of
\* pair). Neither an "@" nor a phone number gets lost in folding. Numbers in
\* normal form stay as they are, whatever the region; the normal form of an
\* address is an address, though not always its own normal form.
ASSUME LibraryAssumption ==
  /\ None \notin Texts \cup Ids
  /\ Nfkc \in [Texts -> Texts] /\ Fold \in [Texts -> Texts]
  /\ \A t \in Texts :
       /\ Stable(StoredName(t))
       /\ Stable(LoginName(t)) => LoginName(t) = StoredName(t)
       /\ Nfkc[t] \in WithAt => NormalizeUsername(t) \in WithAt
       /\ \A r \in Regions : Nfkc[t] \in DOMAIN Phone[r] =>
            Nfkc[NormalizeUsername(t)] \in DOMAIN Phone[r]
  /\ DOMAIN Email \subseteq WithAt
  /\ \A t \in DOMAIN Email : Email[t] \in DOMAIN Email
  /\ \A r, s \in Regions : \A t \in DOMAIN Phone[r] :
       /\ t \in Texts \ WithAt
       /\ Phone[r][t] \in DOMAIN Phone[s] /\ Phone[s][Phone[r][t]] = Phone[r][t]
       /\ Nfkc[Phone[r][t]] = Phone[r][t]
  /\ WithAt \subseteq Texts
  /\ Typed \subseteq Entries /\ MaxEntries \in Nat

VARIABLES
  config,    \* AUTH_API_USERS, each entry with how it was come by
  server,    \* DEFAULT_PHONE_REGION of the server
  status,    \* "stopped", "starting", "serving" or "refused"
  next,      \* the entry the constructor looks at
  users      \* the index: <<kind, value>> -> id

vars == <<config, server, status, next, users>>

-----------------------------------------------------------------------------
(* Identifiers (identifier.py:31-63).                                      *)

Resolve_CaseSensitive(text, region) ==
  LET raw == Nfkc[text]
  IN  CASE raw \in WithAt ->
             <<"email", IF raw \in DOMAIN Email THEN Email[raw] ELSE Fold[raw]>>
        [] raw \in DOMAIN Phone[region] -> <<"phone", Phone[region][raw]>>
        [] OTHER -> <<"username", raw>>
Resolve(text, region) ==
  LET raw == Nfkc[text]
  IN  CASE raw \in WithAt ->
             <<"email", IF raw \in DOMAIN Email THEN Email[raw] ELSE Fold[raw]>>
        [] raw \in DOMAIN Phone[region] -> <<"phone", Phone[region][raw]>>
        [] OTHER -> <<"username", LoginName(text)>>

Find(text) ==
  LET key == Resolve(text, server)
  IN  IF key \in DOMAIN users THEN users[key] ELSE None

-----------------------------------------------------------------------------
(* Entries (users.py:83-117, cli.py:63-91).                                *)

IsPhone(text, region) == Resolve(text, region)[1] = "phone"

IsUsername(text, region) ==
  LET name == NormalizeUsername(text)
  IN  /\ name \in Sized /\ name \notin WithAt
      /\ Resolve(name, region)[1] = "username"

Identified(entry) ==
  \E field \in {"email", "phone", "username"} : entry[field] # None

\* What neither ConfiguredUser and the constructor (users.py:31-32 and 83-115)
\* nor the command (cli.py:63-99) raises an error for.
Valid(entry, region) ==
  /\ Identified(entry)
  /\ entry.email # None => entry.email \in DOMAIN Email
  /\ entry.phone # None => IsPhone(entry.phone, region)
  /\ entry.username # None => IsUsername(entry.username, region)

\* The keys of a valid entry. The username passes normalize_username on its
\* own before resolve_identifier applies it again; the email is not composed.
Keys_NoneToo(entry, region) ==
  {<<"email", IF entry.email = None THEN None ELSE Email[entry.email]>>}
    \cup (IF entry.phone = None THEN {} ELSE {Resolve(entry.phone, region)})
    \cup (IF entry.username = None THEN {}
          ELSE {Resolve(NormalizeUsername(entry.username), region)})
Keys(entry, region) ==
  (IF entry.email = None THEN {} ELSE {<<"email", Email[entry.email]>>})
    \cup (IF entry.phone = None THEN {} ELSE {Resolve(entry.phone, region)})
    \cup (IF entry.username = None THEN {}
          ELSE {Resolve(NormalizeUsername(entry.username), region)})

\* cli.py:95-97, 113-125: the normal forms the command prints.
Printed_AsTyped(entry, region) == entry
Printed(entry, region) ==
  [entry EXCEPT
     !.email = IF @ = None THEN None ELSE Email[@],
     !.phone = IF @ = None THEN None ELSE Resolve(@, region)[2],
     !.username = IF @ = None THEN None ELSE NormalizeUsername(@)]

-----------------------------------------------------------------------------
(* The configuration.                                                      *)

Configure(entry, by, region) ==
  /\ status = "stopped"
  /\ Len(config) < MaxEntries
  /\ config' = Append(config, [entry |-> entry, by |-> by, region |-> region])
  /\ UNCHANGED <<server, status, next, users>>

WriteByHand(entry) == Configure(entry, "hand", server)

\* cli.py:94-125: checked as typed and as printed; an error prints nothing.
GenerateUser_AnyUsername(entry, region) ==
  /\ Identified(entry)
  /\ entry.email # None => entry.email \in DOMAIN Email
  /\ entry.phone # None => IsPhone(entry.phone, region)
  /\ Configure(Printed(entry, region), "cli", region)
GenerateUser(entry, region) ==
  /\ Valid(entry, region) /\ Valid(Printed(entry, region), region)
  /\ Configure(Printed(entry, region), "cli", region)

-----------------------------------------------------------------------------
(* The server (app.py:29-33, users.py:48-74).                              *)

NoUsers == [key \in {} |-> None]

Start ==
  /\ status = "stopped"
  /\ status' = "starting" /\ next' = 1 /\ users' = NoUsers
  /\ UNCHANGED <<config, server>>

Entry(i) == config[i].entry

\* users.py:58-59, 70: an id or a key that was configured before.
Duplicate_IdsOnly(i) == \E j \in 1 .. i - 1 : Entry(j).id = Entry(i).id
Duplicate_KeysOnly(i) == Keys(Entry(i), server) \cap DOMAIN users # {}
Duplicate(i) ==
  \/ \E j \in 1 .. i - 1 : Entry(j).id = Entry(i).id
  \/ Keys(Entry(i), server) \cap DOMAIN users # {}

Acceptable(i) == Valid(Entry(i), server) /\ ~Duplicate(i)

AddAccount ==
  /\ status = "starting" /\ next <= Len(config)
  /\ Acceptable(next)
  /\ users' = [key \in DOMAIN users \cup Keys(Entry(next), server) |->
                 IF key \in Keys(Entry(next), server) THEN Entry(next).id
                 ELSE users[key]]
  /\ next' = next + 1
  /\ UNCHANGED <<config, server, status>>

\* The constructor raises, and the server does not start.
Refuse ==
  /\ status = "starting" /\ next <= Len(config)
  /\ ~Acceptable(next)
  /\ status' = "refused" /\ users' = NoUsers
  /\ UNCHANGED <<config, server, next>>

Serve ==
  /\ status = "starting" /\ next > Len(config)
  /\ status' = "serving"
  /\ UNCHANGED <<config, server, next, users>>

Stop ==
  /\ status \in {"serving", "refused"}
  /\ status' = "stopped" /\ users' = NoUsers
  /\ UNCHANGED <<config, server, next>>

Init ==
  /\ config = <<>> /\ server \in Regions
  /\ status = "stopped" /\ next = 1 /\ users = NoUsers

Next ==
  \/ \E entry \in Typed : WriteByHand(entry)
  \/ \E entry \in Typed, region \in Regions : GenerateUser(entry, region)
  \/ Start \/ AddAccount \/ Refuse \/ Serve \/ Stop

Spec == Init /\ [][Next]_vars

-----------------------------------------------------------------------------
(* Properties.                                                             *)

\* What the variables hold: ids of configured entries in the index.
TypeOK ==
  /\ config \in Seq([entry : Entries, by : {"hand", "cli"}, region : Regions])
  /\ server \in Regions
  /\ status \in {"stopped", "starting", "serving", "refused"}
  /\ next \in 1 .. Len(config) + 1
  /\ DOMAIN users \subseteq {"email", "phone", "username"} \X Texts
  /\ users \in [DOMAIN users -> Ids]

\* The index holds every identifier of the entries looked at, each under the
\* entry's own id, and nothing else: no entry is shadowed by another, in parts
\* or as a whole, and none is without an identifier (users.py:31-32, 57-74).
IndexFaithful ==
  status \in {"starting", "serving"} =>
    /\ DOMAIN users = UNION {Keys(Entry(i), server) : i \in 1 .. next - 1}
    /\ \A i \in 1 .. next - 1 :
         /\ Keys(Entry(i), server) # {}
         /\ \A key \in Keys(Entry(i), server) : users[key] = Entry(i).id
         /\ \A j \in 1 .. i - 1 : Entry(j).id # Entry(i).id

\* Who types the phone number or username an account was configured with
\* reaches that account or none, never another one, although a username is
\* stored in a form that was normalised once more than the typed one.
OwnAccountOnly ==
  status = "serving" =>
    \A i \in 1 .. Len(config) :
      LET entry == Entry(i)
      IN  /\ entry.phone # None => Find(entry.phone) = entry.id
          /\ entry.username # None => Find(entry.username) \in {entry.id, None}

\* And exactly those usernames reach their account whose login form a further
\* normalisation leaves alone; an address does if it is in composed form, which
\* a login has and an entry need not have (users.py:89-115 against
\* identifier.py:41-63).
ReachedIfStable ==
  status = "serving" =>
    \A i \in 1 .. Len(config) :
      LET entry == Entry(i)
      IN  /\ entry.username # None =>
               (Find(entry.username) = entry.id <=> Stable(LoginName(entry.username)))
          /\ (entry.email # None /\ Nfkc[entry.email] = entry.email) =>
               Find(entry.email) = entry.id

\* An account printed by generate-user is reached by its username and its
\* phone number in the spelling that was printed (cli.py:113-125).
ReachedAsPrinted ==
  status = "serving" =>
    \A i \in 1 .. Len(config) :
      config[i].by = "cli" =>
        \A text \in {Entry(i).phone, Entry(i).username} \ {None} :
          Find(text) = Entry(i).id

\* The server refuses to start for a reason only: two entries with an id or an
\* identifier in common, one written by hand, or one generated for another
\* region than the server's (cli.py:111, users.py:57-74).
RefusedForCause ==
  status = "refused" =>
    \/ \E i \in 1 .. Len(config) : config[i].by = "hand" \/ config[i].region # server
    \/ \E i, j \in 1 .. Len(config) :
         /\ i # j
         /\ \/ Entry(i).id = Entry(j).id
            \/ Keys(Entry(i), server) \cap Keys(Entry(j), server) # {}
=============================================================================
