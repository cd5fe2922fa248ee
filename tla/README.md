# Verification of the uploader bot and its authentication API

TLA+ models of the program in this repository, the TLC configurations that
check them and the TLAPS proofs about them. Paths and line numbers refer to the
repository; `auth_api/` stands for `xxx-main/auth_api/`.

## The system

One process runs an ASGI server (`docker-entrypoint.sh`), which starts the
Telegram bot of `main.py` in its lifespan (`auth_api/app.py`). Server, endpoint
and bot handlers are coroutines of one event loop; password hashes and logins
run in worker threads. There is no database: every state below lives in the
process, or in its working directory, and most of it is lost with it.

| Component | State | Operations | Hard behaviour |
|---|---|---|---|
| Rate limiter, `auth_api/rate_limit.py` | dict of counters, one per address and per identifier | `consume`, `clear_identifier` | fixed windows, lazy pruning, overflow, rounding of Retry-After, loss at restart |
| Token endpoint, `auth_api/routes/auth.py` | requests in flight, places and queue of the hash limiter | `issue_token` | counter read before and cleared after a hash in a thread; same cost and answer for accounts that do not exist, and what a stored hash that cannot be read does to it; a place leaked or a queue jumped |
| Hashing and tokens, `auth_api/security.py` | none | `hash_password`, `verify_password`, token creation | the dummy hash |
| User directory, `auth_api/users.py`, `identifier.py` | immutable index by (kind, value) | constructor, `find_by_identifier`, `resolve_identifier` | two paths to a normal form that should agree |
| Settings, `auth_api/config.py` | environment | validation | ranges other parts rely on |
| Cookie session, `cookie_session.py` and `/cookie` in `main.py` | jar, `_authenticated`, a `threading.Lock` | `authenticate`, `get_cookies`, `is_authenticated`, the command | lock taken by the loop and by threads; logins that fail half way; expiry; stale answers |
| Batch download, `/txt` in `main.py` from line 359, `helper.py` | loop index, count, files in the working directory | one link: resolve, fetch, send, remove | any of a dozen failures per link; several chats in one directory; files left by a former process; a lookup over several containers |
| Dialogue of `/txt`, `main.py:266-362` | listeners of pyromod, one per chat; lists and `thumb.jpg` in the working directory | six questions | a message meant for something else, a second dialogue, an answer that is no number; files that all chats share by name; a worker busy for as long as its dialogue |
| Lifespan, `auth_api/app.py` | bot started or not | start, stop | a start that fails half way |
| Progress bar, `p_bar.py` | a throttle shared by all uploads | `progress_bar`, `hrb`, `hrt` | one timer for everybody, divisions |
| `/start`, `/STOP`, `/shell` | none | `/STOP` replaces the process | at any moment, from anybody |
| User generator, `auth_api/cli.py` | none | prints a configuration | agreement with the user directory |
| Health, schemas, errors, logging, details, vendored tools | none | | |

They interact as follows. The endpoint asks the rate limiter before and tells
it after each hash; the accounts it looks up were indexed by the user directory
at the start, from entries that the user generator may have printed. The cookie
session may log in to the project's own endpoint over HTTP, through the very
loop its handler runs on. A dialogue of `/txt` ends in a batch, whose uploads
share the timer of the progress bar. Dialogues, batches and everything else
share the loop; dialogues share listeners, workers and files, batches the
directory. `/STOP` ends all of it.

As packaged, `Dockerfile` copies `xxx-main/` only, while `main.py` and
`cookie_session.py` are at the root of the repository and `README.md` speaks of
`xxx-main/main.py`. The models take the modules as importable.

## Modules

| Module | Models | State and actions |
|---|---|---|
| `RateLimiter` | `AuthenticationRateLimiter` | `counters` is the dict, `older` its insertion order, `now` the clock in ticks. `Consume` is one call from the clock reading to the release of the lock, `ClearIdentifier` the other; `Tick`, and `ForgetAll` for a restart |
| `FixedWindow` | what the limiter promises, abstractly | windows per key that vanish when they close |
| `RateLimiterLedger` | the limiter, with a history of what it granted | `granted` (per key, the attempts allowed less than a window ago) and the last decision; implements `FixedWindow` |
| `RetryAfter` | the limiter, with one refused client that waits as told | `waiting` |
| `TokenEndpoint` | `issue_token`, composed with `RateLimiter` | `requests` (a slot per request in flight), `queue` and `borrowers` of the `CapacityLimiter`. `Admit`, `Refuse` to the first await; `StartHash`, `FinishHash` in the thread; `Reject`, `Grant` to the answer |
| `UserDirectory` | the repository of users, `resolve_identifier`, `generate-user` | `config` (the entries, by whom they were written and for which region), `status` of the server, `next` (the entry the constructor is at), `users` (the index). `WriteByHand`, `GenerateUser`; `Start`, then `AddAccount` or `Refuse` for each entry, `Serve`, `Stop` |
| `CookieSession` | `CookieSessionManager` and `/cookie` | `handlers` (a slot per command), `lock`, `jar`, `stale` (expired cookies), `authenticated`, `configured`; one action per stretch of the handler between two awaits, and per stretch of a thread between two looks at the lock |
| `SessionRegister` | what the cookie session promises, abstractly | one register that holds the cookies of the last login; a login empties it and fills it as a whole, and a read returns it as a whole. `CookieSession` implements it |
| `TxtDialogue` | the questions of `/txt`, over the dispatcher of pyrogram and the listeners of pyromod | `queue` (messages no worker has taken), `dialogue`, `listener` (one per chat), `lists` (downloaded lists by name), `taken`, `thumb` and `fetches`. `Send`, `Dispatch`; `Ask` and one action per answer; `End` for what ends a handler early |
| `BatchDownload` | the loop of `/txt` | `batch` (index, count, the container found, what was sent and what was reported), `files` with the url each came from, `stills` (the `.jpg` beside a video); one action per stretch between awaits |
| `Progress` | `progress_bar`, `Timer`, `hrt` | `slot` (the timer), `upload` (what is sent and shown). `Begin`, `Report`, `Again` (a video that failed is sent as a document), `End`, `Tick`, `Restart` |
| `...Proofs` | theorems about the module of that name | |
| `MC...` | instances for TLC | |

Definitions called `X_Variant` stand before the definition `X` of the code and
are used by nothing: each is `X` with a plausible mistake, kept to show that a
property notices it. `PROJECT.json` lists which property notices which.

### What is abstracted

* HMAC digests are injective; a key is a scope and a value.
* A password hash is the name of the account it belongs to; verifying is
  comparing. The dummy password is the only one that matches the dummy hash.
  `users.py:33` looks at the first letters of a configured hash only; one that
  argon2 cannot read beyond them matches nothing, and is found out before
  anything is hashed (`security.py:47-49`).
* What Unicode, `email-validator` and `phonenumbers` make of a text is a table
  given by constants, under an assumption stated in `UserDirectory`.
* A cookie is its name and the number of the login that set it.
* A message is `/txt`, `/STOP` or other words; an answer is what it makes the
  dialogue do: a document or none, a number or none, a url or another text. Of
  the questions whose answer is only kept, `Kept` stand for the code's three.
  The batch is one stage of a dialogue, and the picture the number of the
  command that fetched it.
* A link is its kind, its title (what is left of the line's after sixty
  letters), its url and the container yt-dlp makes of it. A file is its number,
  title and container, with the url of its content; a content half written, or mixed by two writers, is not
  modelled, nor an upload that Telegram took and then reported as failed.
* Of the bar, the number of full cells and the time left; not the percentage
  and the speed, which are only printed.
* `now = clock()` and the asyncio lock of `consume`: nothing is awaited while
  the lock is held, so the lock is always free and a call is one step.
* Exceptions other than those of `requests` inside `authenticate` are left out.

## Runs

| Run | Question | Instance |
|---|---|---|
| `rate_limiter` | is the dict bounded, in order, are open windows never moved, refunded or forgotten without cause, and is Retry-After neither too short nor a second too long? | 3 addresses, 2 identifiers, room for 3 counters, windows of 2 seconds, 2 ticks to the second, 8 ticks |
| `limiter_ledger` | how much is granted across a border of windows; does the dict implement `FixedWindow`? | 2 addresses, 2 identifiers, windows of 3 ticks, 5 ticks |
| `token_endpoint` | do answers, places and lockouts stay right with requests in flight? | 3 requests, 1 place; an account enabled, one disabled, and none; the password of either account and the dummy's |
| `token_endpoint_live` | is every admitted request answered, and does every answer cost the same work? | 2 requests from 2 addresses, also for an account with a hash that cannot be read; time standing still |
| `user_directory` | who is indexed, who is refused, and whom does a login reach? | any 2 entries of 2 accounts, 14 spellings or no identifier at all, 2 regions |
| `cookie_session` | do jar, flag and answers agree, are they one register to the handlers, and is every command answered? | 4 commands, 2 at a time |
| `cookie_reuse`, `cookie_own_endpoint` | two statements of `README.md` the code does not keep | 2 commands |
| `txt_dialogue` | who hears which answer, whose list is read, whose picture is sent, when is the bot deaf? | 3 dialogues of 2 chats, 3 workers, 1 name |
| `batch_download` | whatever fails and whoever shares the directory: is each link sent or reported, are numbers in order, whose contents are sent, what is left, does each step bring the end nearer? | batches of 3 and of 2 links, with titles shared within one and between them, two containers, a bad line; started at 0, at 1 and at 3; at most 1 name left behind at the start of a batch |
| `batch_failed` | a message of the bot that is not true | one batch of a video under a minute and a document |
| `progress` | is a lone upload shown in time, and is what is shown true? | 2 uploads, files of 3601 and of 172801 bytes with 0, 1, 30 or all of them sent, 8 half-second ticks |

### Bounds

* `MaxTime` and `MaxCount` stop the clock and the counters. Decisions depend on
  time through differences up to one window only, and on counts through the
  comparison with a limit: a clock that passes the end of a window, with windows
  opened at different times before it, and counts that pass the limit meet every
  case. In the endpoint runs a window is one tick: whether it has ended is all
  the endpoint can see of it.
* `MaxEntries` of the limiter is smaller than the number of keys, so that
  overflows happen, and at least 2: one call inserts two keys. The code's value
  is 100 000.
* `MaxCommands` bounds the `/cookie` commands of a behaviour; four are a login,
  a second one racing it, a reader of what they leave and one more, and two
  handlers at a time are enough for each race, since the lock lets one thread
  in. `SelfHosted` is FALSE there: whether a login may end does then not depend
  on the loop, and every behaviour of the other value is one of these.
* `UserDirectory`: the spellings are one for each way in which the forms of a
  text may differ (folded, composed, composed by folding only, a leading space
  that is no space yet, a phone number in one region, an address, none), and
  two entries are enough for a conflict.
* `TxtDialogue`: three dialogues are two of one chat and one of another, or
  three of one; `Kept` is 1 for 3, `MaxQueue` 1: a queued message waits for a
  worker as one not sent yet waits for its sender. Three workers are taken up by
  three dialogues; pyrogram has more.
* Batches hold three links and two: a failure is felt by the next link, through
  its number and the file left, and between batches through shared names. Two
  links share a title and differ in url and container, so that the lookup may
  find the one's file for the other; the documents of the two batches share
  another title. `Starts` is 0 (Python's index -1), 1, and 3, which is the last
  link of one batch and beyond the end of the other. Python's other negative
  indices end in an exception or repeat the same case.
* `MaxLeft` is 1: a batch begins beside at most one file or still that nobody
  has removed. Without the bound a directory fills up over failures and restarts
  with every name there is; one is enough to be taken for a link's own, to hide
  the link's own in a container looked for later, and to be removed or not. While
  batches are under way nothing is bounded, and the theorems hold for every bound.
* `Progress`: `TimeBetween` is three ticks and a second two, for the code's
  five seconds; sizes and parts put the time left on either side of a day, an
  hour and a minute.
* Symmetry is used over values that no definition tells apart, in runs whose
  properties are invariants, action properties or the refinement of
  `FixedWindow`, which has no fairness; never with a liveness property.

### Fairness

* Endpoint: weak fairness of every step of an admitted request. The event loop
  runs every ready task, threads end (Argon2 is bounded), `CapacityLimiter`
  serves its queue in order. Nothing is assumed of arrivals, evictions, restarts.
* Cookie session: weak fairness of the loop's steps and of threads, and a login
  ends: `requests` has a timeout. It is a timeout per read, so an endpoint
  that trickles would defeat it; that endpoint is not part of this code.
* Dialogues: weak fairness of the dispatcher and of each dialogue that can go
  on: calls of Telegram's and batches end. Nobody has to answer a question.
* Batches: none. That a batch ends is stated without it, as a variant that each
  of its steps lessens (`NearerWithEachStep`); whether a step ends is up to
  shell commands and requests that have no timeout, which the code does not
  guarantee.

Deadlock is checked in every run; a restart, at least, is always possible, so
the runs that say something about progress are those with leads-to properties,
and `batch_download` with its variant.

## What the runs show

The limiter keeps what it promises, with two things worth knowing. A key may be
allowed 2L-1 attempts within one window length, never more: the first opens a
window, L-1 follow late in it, L more when the next one opens. And a refused client that waits
for Retry-After may be refused again, by its *other* counter: the refused
attempt was charged to both keys, and may have taken the other's last room
(`RetryAfterIsHonest` says what does hold).

The endpoint answers unknown, disabled and mistaken logins with the same status
and the same work, one hash each, but for an account configured with a hash
that cannot be read, which costs none (`WorkMatchesAnswer`). It hands tokens only to who proved the account's password, and
gives every place back. The limiter counts admissions, not guesses under way:
requests admitted before a success clears the counter are still hashed after
it. An account with an email, a phone and a username has a budget for each.

The directory normalises a configured username once more than a login does, and
normalising is not idempotent. Nobody reaches another's account by it, but an
account is out of reach by a username whose login form a further normalisation
changes, such as one that ends in a sharp s and a combining accent: folding
makes two letters of the first, and only then does the accent compose with the
second. `ReachedIfStable` says exactly which names work. `generate-user` prints
names that do; but it judges phone numbers by a region of its own (`--phone-region`), and
a server of another region may refuse to start with what it printed
(`RefusedForCause` names every cause).

To the handlers, the cookie session is a register that a login writes whole and
a read returns whole (`ImplementsRegister`), whatever races, expires or fails.

A dialogue's question is heard by the last of its chat's dialogues that asked:
a second `/txt` silences the first one for good, and whatever comes next in the
chat, a `/STOP` included, is taken for the answer. Each `/txt` silences one
dialogue at most, so that one of a chat's dialogues is always heard
(`OneNeverUnheard`). Lists of several chats sent under one name overwrite each
other, and a dialogue may work off another chat's list; none is worked off twice
(`ListsTakenOnce`). `thumb.jpg` is everybody's: the picture sent is one's own or
a later one, never an older one. When as many dialogues wait as there are
workers, nobody is left to take the answers: the bot is deaf until the process
is replaced, and by then only from outside, for `/STOP` is a message too.
`MessagesTaken` shows that this is the only way.

A batch reports or sends every link up to the one that ends it, and each of its
steps brings it nearer to its end, whatever fails. A later link that is sent has
a larger number, unless the earlier one was sent and then reported as failed:
that number goes to the next. Files are told apart by number, title and
container only. In an empty directory a chat is sent a link's own file, or one
of the same title and kind, of another batch or of a link of its own that it
was told has failed; where an earlier process has left files, any of the same
title, number and kind, in whichever container is looked for first
(`SentOwnFile`). What is left of a former process stays unless it is found.

The closing message of a batch (`main.py:447`) says "BATCH
SUCCESSFULLY DOWNLOADED" all the same: after failures, and after an exception
such as the one of a line without `://` (`main.py:367`).

One timer serves all uploads, and a turn is taken before it is known whether
anything will be shown: an upload may be kept from being shown by others for as
long as they last. One that is alone waits at most the timer's interval and a
second (`LoneUploadShown`). The time left is never promised longer than it is,
but is cut to its largest unit: an hour and 59 minutes are "1h".

Findings, each reproduced by a run that TLC finds violated:

* `main.py:157`: two plain `/cookie` commands close together both log in; the
  second drops the session of the first (`cookie_reuse`).
* `cookie_session.py:170`: with the documented own endpoint, a second `/cookie`
  stops the loop that has to answer the login until the login times out
  (`cookie_own_endpoint`). It recovers: `EveryCommandAnswered` holds.
* `helper.py:227`: a video under a minute is sent and then reported as failed,
  and its number is given to the next link (`batch_failed`): ffmpeg makes no
  still of it, and the removal of the still raises an error.

## Proofs

The theorems hold for every value of the constants that the named assumption
allows; the bounds of the runs play no part in them. Each rests on an inductive
invariant, checked by TLC before it was proved.

| Module | Theorem | States | From |
|---|---|---|---|
| `RateLimiterProofs` | `TypeCorrect`, `BoundedSize`, `OrderedByAge` | `[]TypeOK`, `[]SizeBound`, `[]AgeOrder` | `LimiterAssumption` |
| | `WindowsDoNotMove`, `LossesAreExplained` | `WindowNeverMoves`, `ForgottenForCause` | |
| `LimiterPromiseProofs` | `LimiterImplementsWindows`, `GrantsAreBounded`, `RetryAfterKept` | `ImplementsFixedWindow`, `[]SlidingBound`, `[]RetryAfterIsHonest` | `LimiterAssumption` |
| `TokenEndpointProofs` | `EndpointTypeCorrect`, `PlacesAgree` | `[]EndpointTypeOK`, `[]PlacesConsistent` | and `EndpointAssumption` |
| | `OnlyForProof`, `SameWork` | `[]TokensOnlyForProof`, `[]WorkMatchesAnswer` | |
| | `LockoutLifted`, `EndpointUsesLimiter` | `LockoutLiftedByProof`, `LimiterSpec` | |
| `UserDirectoryProofs` | `TypesAndIndex`, `TypesCorrect`, `NobodyElsesAccount`, `StableNamesReach`, `PrintedReach`, `RefusalHasCause` | `TypeOK` and `IndexFaithful`, `TypeOK` alone, `OwnAccountOnly`, `ReachedIfStable`, `ReachedAsPrinted`, `RefusedForCause` | `LibraryAssumption` |
| `CookieSessionProofs` | `FlagIsTrue`, `AnswersOfOneLogin`, `AnswersAreNew` | `[]SessionConsistent`, `[]CookiesOfOneLogin`, `[]NeverOlderThanCommand` | `SessionAssumption` |
| | `TypesCorrect`, `SessionsImplementRegister` | `[]TypeOK`, `ImplementsRegister` | |
| `TxtDialogueProofs` | `TypesCorrect`, `OneIsHeard`, `ListsReadOnce`, `PictureIsNotOlder` | `[]TypeOK`, `[]OneNeverUnheard`, `[]ListsTakenOnce`, `[]PictureNotOlder` | `DialogueAssumption` |
| `BatchDownloadProofs` | `TypesCorrect`, `NoneSkipped`, `NumbersInOrder`, `NothingLeft` | `[]TypeOK`, `[]NothingSkipped`, `[]NumbersFollowOrder`, `[]CleanWhenDone` | `BatchAssumption` |
| | `OwnFileIsSent`, `BatchesWindUp` | `[]SentOwnFile`, `NearerWithEachStep` | |
| `ProgressProofs` | `TypesCorrect`, `LoneUploadIsShown`, `PicturesAreHonest` | `[]TypeOK`, `[]LoneUploadShown`, `[]PictureHonest` | `ProgressAssumption` |

`LimiterAssumption` and `EndpointAssumption` are what `config.py` validates at
startup; `SessionAssumption`, `DialogueAssumption` and `BatchAssumption` are the
types of the constants, that a batch has a link, and that a document is a
`.pdf` and a video one of the containers looked for; `ProgressAssumption` also
has the timer's interval no shorter than a second, as in the code.
`LibraryAssumption` is what is taken of Unicode, `email-validator` and
`phonenumbers`; it was tried on every Unicode character and on pairs of every
kind, and is not proved. Of addresses it says only that their normal forms are
addresses: a second normalisation may change a local part that folding has left
uncomposed.

### The arguments

* **Rate limiter.** The inductive invariant is the conjunction of the three
  state properties; none is inductive alone. That the counters are bounded needs
  to know how many an overflow drops, which needs a finite dict and a total
  order; that insertion order is expiry order needs that no window closes later
  than one window from now (`WindowBound`), because a new counter closes exactly
  then; and both need the types.
* **Fixed windows.** An entry of the dict is seen through the refinement while
  its window is open. `Consume` prunes first, so that all entries of the dict it
  leaves are seen; what the sort drops is a choice that `FixedWindow` leaves
  open, so that ties in insertion order do not show; a tick closes at once there
  what it leaves in the dict here.
* **Grants across a border.** `SlidingBound` speaks of one window length, the
  dict of fixed windows; the invariant `Shares` relates them. While a key's
  counter is open, the attempts of the history are split by the opening of its
  window: those since are no more than the counter counts (and no more than the
  limit), those before are at most the limit less one, as the attempt that
  opened the window before them is too old by then. Without an open counter
  only the last are left. The bound of 2L-1 is the sum: one window hands at most
  L-1 on to the next, since no more than that follow the tick at which it opened.
  `ToldApart` says that attempts of one tick are
  numbered, so that a new one adds one to the cardinality.
* **Retry-After.** `Told` says that no window the refused client waits for closes
  later than it was told, and that until its last second one of them is open,
  charged up to its limit, and closes within that second. Windows neither move
  nor lose charges while they are open, which keeps it; when they have closed,
  the next call opens a new one, with the count 1.
* **Token endpoint.** `EndpointInv` says what is known of a request at each stage:
  a verified password is that of the account the identifier resolves to; there
  is a status exactly when it is answered, and a verdict on the password exactly
  when a thread has been through `verify_password`, which every answer but a
  refusal for its rate has waited for (`StageTells`). The queue holds those that wait,
  once each, and the borrowers are those that hash or have hashed. Each step is a
  step of the limiter or leaves it alone (`EndpointUsesLimiter`), so that the
  theorems about the limiter hold of it in use.
* **User directory.** The index holds exactly the keys of the entries passed;
  each of them was valid, hence has a key, and new when it was passed. A username is among them in
  its stored form only, and the lemma `LoginMeetsStored` compares that form with
  the one a login makes.
* **Cookie session.** Whoever holds the lock is the latest login, and while it
  is held nobody claims that there is a session; the jar's cookies are of the
  latest login; what a handler was given is of one login, not older than its
  command. Through the refinement the jar is seen when nobody holds the lock.
  That logins are numbered within the bound (`TypeOK`) needs an argument of its
  own, by cardinalities: a command that may still log in has not logged in
  before, which `TypeOK` says too, so the logins and the handlers that may still
  log in are no more than the commands (`OneLoginEach`).
* **Dialogue.** One part for each thing the dialogues share. For
  `OneNeverUnheard`: a chat's dialogues under way are no more than it has begun,
  and a chat without a listener has lost one that was heard, which is now past
  waiting. For the lists: a list is under one name or has been read, once, and a
  dialogue still without a list appears in neither place.
* **Batches.** `BatchInv` has a part per slot (what came before the current link
  was sent or reported; numbers up to the count, later ones for later links),
  one that every file comes from a link with the title and kind of its name
  (`FilesOK`), one that the files a batch could still take for its own, if it
  began in an empty directory, are another's or of a link it has reported
  (`OriginsOK`), and one that carries both over to what was sent; `CleanInv` rests on it and says which names are no longer in
  the directory. `StepsLeft` is a variant: six steps at most for each link that
  is left, and the last ones of the loop; every step of the batch lessens it, so
  that a batch of any length ends if only its steps do.
* **Progress.** The last turn of the timer is bounded on both sides: not long
  ago, since a lone upload that reports takes the next, and at most a second
  after something was shown, since only a young upload loses a turn. What is
  shown was drawn at an age of a second at least and of no more than the whole
  file (`AllDrawn`). From there it is arithmetic: `Rounded` (no second is
  rounded to nothing, so the speed is not divided by it), `Cells` (eleven cells
  stand for the whole only) and `FirstPiece` (the first of the pieces of `hrt`
  is the largest unit of which there is one, rounded down).

Every invariant and action property that a passing run checks is also a theorem.
Only model-checked are the liveness properties (`EventuallyAnswered`,
`EveryCommandAnswered`, `MessagesTaken`), as the prover treats
neither fairness nor `ENABLED`, and the assumptions on constants, which TLC evaluates for the
instances. The three findings are counterexamples, and nothing is proved of them.

## Not modelled

* The start of the bot in the lifespan: what a start that fails half way leaves
  is decided by pyrogram, outside this repository.
* `hrb`, the percentage and the speed: they format a number and nothing depends
  on them. `Easy_F.py` holds copies that nothing imports.
* In `helper.py`, everything that no handler reaches (`pull_run`, `aio`,
  `parse_vid_info`, `vid_info`, `run`, `old_download`, `time_name`,
  `human_readable_size`, `send_doc`).
* `/start`, which only replies, and `/shell`, which runs a command and keeps no
  state; `/STOP` is the restart of each module.
* `generate-secrets`, the reading of a password, the claims of the tokens and
  Argon2: input, random numbers and libraries.
* The health route, schemas, errors, logging, constants, vendored tools.

## Plan

1. `Process`: the loop and its blocking calls, with endpoint, cookie session,
   dialogues and batches abstracted to what they do to the loop; the delay each
   may cause the others.
2. `TxtDialogue` composed with `BatchDownload`, so that the picture and the list
   are followed to the upload.
