--------------------------- MODULE BatchDownload ---------------------------
(***************************************************************************)
(* The loop of the /txt command in main.py, with the download and send     *)
(* helpers of helper.py: a batch of links is fetched one after the other   *)
(* into the working directory, which all batches share, and sent to the    *)
(* chat it was asked for in.                                               *)
(*                                                                         *)
(* Batches are coroutines of one event loop. Shell commands, sleeps and    *)
(* blocking requests stop all of them; they interleave at the awaits only, *)
(* which stand between the actions below.                                  *)
(***************************************************************************)
EXTENDS Integers, Sequences, Functions, FiniteSets

CONSTANTS
  Batches,    \* slots for batches under way
  LinksOf,    \* the lines of the file sent for each batch
  Starts,     \* the numbers admins start from
  MaxLeft     \* bound: a batch begins beside at most so many names left behind

\* "signed" stands for a video whose address is first asked of another service,
\* "short" for one of less than a minute, "bad" for a line without "://".
Kinds == {"video", "signed", "short", "pdf", "drive", "bad"}
IsDocument(link) == link.kind \in {"pdf", "drive"}

\* helper.py:175-187: where the file of a video is looked for, in this order.
Containers == <<"webm", "mkv", "mp4", "mp4.webm">>

ASSUME BatchAssumption ==
  /\ DOMAIN LinksOf = Batches
  /\ Starts \subseteq Nat /\ MaxLeft \in Nat
  /\ \A b \in Batches :
       /\ LinksOf[b] \in Seq(Range(LinksOf[b])) \ {<<>>}
       /\ \A i \in 1 .. Len(LinksOf[b]) :
            LET link == LinksOf[b][i]
            IN  /\ link.kind \in Kinds
                /\ link.ext \in IF IsDocument(link) THEN {"pdf"} ELSE Range(Containers)

VARIABLES
  batch,    \* what each slot is doing
  files,    \* the working directory: file name -> the url it came from
  stills    \* the videos a still picture has been made of

vars == <<batch, files, stills>>

-----------------------------------------------------------------------------
(* Batches.                                                                *)

\* i is the index of the loop, from 0, or -1 for Python's last; ext ends the name
\* of the file at hand; sent holds what the chat received, told the indices it
\* was told have failed; clean says that the batch began in an empty directory.
Idle == [stage |-> "idle", first |-> 0, i |-> 0, count |-> 0, ext |-> "none",
         sent |-> {}, told |-> {}, aborted |-> FALSE, clean |-> FALSE]

Size(b) == Len(LinksOf[b])
LinkAt(b, i) == LinksOf[b][IF i < 0 THEN Size(b) + i + 1 ELSE i + 1]
Link(b) == LinkAt(b, batch[b].i)

\* main.py:388-389: the number and the title name the file; the title is what is
\* left of the line's after sixty letters, and several lines may share it.
FileAs(b, ext) == <<batch[b].count, Link(b).title, ext>>
Name(b) == FileAs(b, batch[b].ext)

At(b, stage) == batch[b].stage = stage
Move(b, stage) == batch' = [batch EXCEPT ![b].stage = stage]

\* On to the next link, with the number the next file will have.
Advance(b, count) ==
  batch' = [batch EXCEPT ![b].stage = "next", ![b].i = @ + 1, ![b].count = count,
                         ![b].ext = "none"]

-----------------------------------------------------------------------------
(* The steps of a batch.                                                   *)

\* main.py:359-365: the admin has said from which link to start; with a single
\* link the number is not looked at.
Start_OffByOne(b, first) ==
  /\ At(b, "idle")
  /\ batch' = [batch EXCEPT ![b] =
       [Idle EXCEPT !.stage = "next", !.first = first, !.i = first, !.count = first,
                    !.clean = DOMAIN files = {}]]
  /\ UNCHANGED <<files, stills>>
Start(b, first) ==
  /\ At(b, "idle")
  /\ LET count == IF Size(b) = 1 THEN 1 ELSE first
     IN  batch' = [batch EXCEPT ![b] =
           [Idle EXCEPT !.stage = "next", !.first = count - 1, !.i = count - 1,
                        !.count = count, !.clean = DOMAIN files = {}]]
  /\ UNCHANGED <<files, stills>>

\* main.py:365-399: the url is made out.
Resolve(b) ==
  /\ At(b, "next")
  /\ batch[b].i < Size(b)
  /\ Link(b).kind # "bad"
  /\ Move(b, "download")
  /\ UNCHANGED <<files, stills>>

\* An exception that only the outer try catches ends the loop: a line without
\* "://", an address the other service does not give (main.py:367-382, 445).
Abort(b) ==
  /\ At(b, "next")
  /\ batch[b].i < Size(b)
  /\ Link(b).kind \in {"bad", "signed"}
  /\ batch' = [batch EXCEPT ![b].stage = "closing", ![b].aborted = TRUE]
  /\ UNCHANGED <<files, stills>>

EndOfLinks(b) ==
  /\ At(b, "next")
  /\ batch[b].i >= Size(b)
  /\ Move(b, "closing")
  /\ UNCHANGED <<files, stills>>

\* The file is there, or it is not. yt-dlp leaves a file of the name it makes as
\* it is; helper.download writes over it (helper.py:68-76, 173-175).
Fetched(b) ==
  LET made == FileAs(b, Link(b).ext)
      kept == IF Link(b).kind = "drive" THEN DOMAIN files \ {made} ELSE DOMAIN files
  IN  {files, [n \in DOMAIN files \cup {made} |->
                 IF n \in kept THEN files[n] ELSE Link(b).url]}

\* The first container that is there, whatever yt-dlp has made.
Found(b, there) ==
  LET places == {k \in DOMAIN Containers : FileAs(b, Containers[k]) \in there}
  IN  IF places = {} THEN "none"
      ELSE Containers[CHOOSE k \in places : \A j \in places : k <= j]

\* main.py:405-407, 417-421, 430-434.
Download(b) ==
  /\ At(b, "download")
  /\ files' \in Fetched(b)
  /\ batch' = [batch EXCEPT
       ![b].stage = IF IsDocument(Link(b)) THEN "upload" ELSE "still",
       ![b].ext = IF IsDocument(Link(b)) THEN "pdf" ELSE Found(b, DOMAIN files')]
  /\ UNCHANGED stills

\* main.py:435-436, helper.py:204-217: a still is made of a video that lasts a
\* minute, and has not got one.
Still(b) ==
  /\ At(b, "still")
  /\ stills' \in {stills} \cup
       {stills \cup {n} : n \in IF Link(b).kind = "short" THEN {}
                               ELSE {Name(b)} \cap DOMAIN files}
  /\ Move(b, "upload")
  /\ UNCHANGED files

\* main.py:408, 422; helper.py:217-224.
Upload(b) ==
  /\ At(b, "upload")
  /\ Name(b) \in DOMAIN files
  /\ batch' = [batch EXCEPT
       ![b].stage = "cleanup",
       ![b].sent = @ \cup {[i |-> batch[b].i, number |-> batch[b].count,
                            ext |-> batch[b].ext, url |-> files[Name(b)]]}]
  /\ UNCHANGED <<files, stills>>

\* What goes wrong up to here is caught by the inner try: no file, no answer of
\* Telegram, a flood wait whose handler fails in turn (main.py:412-414, 439).
Fail(b) ==
  /\ batch[b].stage \in {"download", "still", "upload"}
  /\ Move(b, "failed")
  /\ UNCHANGED <<files, stills>>

\* main.py:409-411, 423-424: counted, then removed, if it is still there.
CleanDocument_Uncounted(b) ==
  At(b, "cleanup") /\ IsDocument(Link(b)) /\ Advance(b, batch[b].count)
    /\ files' = Restrict(files, DOMAIN files \ {Name(b)}) /\ UNCHANGED stills
CleanDocument(b) ==
  /\ At(b, "cleanup") /\ IsDocument(Link(b))
  /\ files' = Restrict(files, DOMAIN files \ {Name(b)})
  /\ IF Name(b) \in DOMAIN files
     THEN Advance(b, batch[b].count + 1)
     ELSE batch' = [batch EXCEPT ![b].stage = "failed", ![b].count = @ + 1]
  /\ UNCHANGED stills

\* helper.py:225-228, main.py:436: the video is removed, then its still, and
\* counted if both were there and the status message can be deleted.
CleanVideo_KeepStill(b) ==
  At(b, "cleanup") /\ ~IsDocument(Link(b)) /\ Advance(b, batch[b].count + 1)
    /\ files' = Restrict(files, DOMAIN files \ {Name(b)}) /\ UNCHANGED stills
CleanVideo(b) ==
  /\ At(b, "cleanup") /\ ~IsDocument(Link(b))
  /\ files' = Restrict(files, DOMAIN files \ {Name(b)})
  /\ stills' = IF Name(b) \in DOMAIN files THEN stills \ {Name(b)} ELSE stills
  /\ \/ /\ Name(b) \in DOMAIN files /\ Name(b) \in stills
        /\ Advance(b, batch[b].count + 1)
     \/ Move(b, "failed")

\* main.py:439-443: the failure is reported and the loop goes on; unless the
\* report itself fails, which ends the loop.
Complain_Silently(b) ==
  At(b, "failed") /\ Advance(b, batch[b].count) /\ UNCHANGED <<files, stills>>
Complain_Retry(b) ==
  At(b, "failed") /\ Move(b, "next") /\ UNCHANGED <<files, stills>>
Complain(b) ==
  /\ At(b, "failed")
  /\ \/ batch' = [batch EXCEPT ![b].stage = "next", ![b].i = @ + 1, ![b].ext = "none",
                               ![b].told = @ \cup {batch[b].i}]
     \/ batch' = [batch EXCEPT ![b].stage = "closing", ![b].aborted = TRUE]
  /\ UNCHANGED <<files, stills>>

\* main.py:446-447: "BATCH SUCCESSFULLY DOWNLOADED", unless Telegram refuses
\* the last words of the batch.
Close(b) ==
  /\ At(b, "closing")
  /\ \/ Move(b, "over")
     \/ batch' = [batch EXCEPT ![b] = Idle]
  /\ UNCHANGED <<files, stills>>

Leave(b) ==
  /\ At(b, "over")
  /\ batch' = [batch EXCEPT ![b] = Idle]
  /\ UNCHANGED <<files, stills>>

\* The process is replaced; the working directory stays as it is.
Restart ==
  /\ batch' = [b \in Batches |-> Idle]
  /\ UNCHANGED <<files, stills>>

Init ==
  /\ batch = [b \in Batches |-> Idle]
  /\ files = [n \in {} |-> 0]
  /\ stills = {}

Proceed(b) ==
  \/ Resolve(b) \/ Abort(b) \/ EndOfLinks(b)
  \/ Download(b) \/ Still(b) \/ Upload(b) \/ Fail(b)
  \/ CleanDocument(b) \/ CleanVideo(b)
  \/ Complain(b) \/ Close(b)

Next ==
  \/ \E b \in Batches :
       \/ /\ Cardinality(DOMAIN files \cup stills) <= MaxLeft
          /\ \E first \in Starts : first <= Size(b) + 1 /\ Start(b, first)
       \/ Proceed(b)
       \/ Leave(b)
  \/ Restart

Spec == Init /\ [][Next]_vars

-----------------------------------------------------------------------------
(* Properties.                                                             *)

\* Types: at every stage of the loop (main.py:365-443); and the number, which
\* only successes move, never runs ahead of the link it is given to.
Ahead(b) == IF batch[b].stage \in {"failed", "closing", "over"} THEN 2 ELSE 1
TypeOK ==
  \A b \in Batches :
    /\ batch[b].stage \in {"idle", "next", "download", "still", "upload",
                          "cleanup", "failed", "closing", "over"}
    /\ batch[b].i \in -1 .. Size(b)
    /\ batch[b].count \in 0 .. batch[b].i + Ahead(b)
    /\ batch[b].told \subseteq batch[b].first .. Size(b) - 1

\* What the chat was sent for link i.
SentFor(b, i) == {s \in batch[b].sent : s.i = i}
Done(b) == batch[b].first .. batch[b].i - 1

\* No link is passed over in silence: whatever fails where, and whatever other
\* batches do to the files, every link before the current one was sent or
\* reported as failed (main.py:365-443).
NothingSkipped ==
  \A b \in Batches :
    \A i \in Done(b) : SentFor(b, i) # {} \/ i \in batch[b].told

\* The numbers in the captions follow the order of the links, and no two that
\* were not reported as failed share one, although a failed link gives its
\* number to the next (the count += 1 of main.py:409, 423 and 436).
NumbersFollowOrder ==
  \A b \in Batches :
    \A s, t \in batch[b].sent :
      (s.i < t.i /\ s.i \notin batch[b].told) => s.number < t.number

\* A chat that is sent another file than a link's own is sent that of a namesake,
\* of the same title and kind; and in a directory that was empty when its batch
\* began, the namesake is another batch's, or a link of its own that it was told
\* has failed (the names of main.py:388-389, that neither yt-dlp nor the lookup
\* of helper.py:175-187 tells apart).
Namesake(link, other) ==
  link.title = other.title /\ (IsDocument(link) <=> IsDocument(other))
Explains(b, s, c, j) ==
  /\ Namesake(LinkAt(c, j), LinkAt(b, s.i)) /\ LinkAt(c, j).url = s.url
  /\ c # b \/ ~batch[b].clean \/ j = s.i \/ (j < s.i /\ j \in batch[b].told)
SentOwnFile ==
  \A b \in Batches : \A s \in batch[b].sent :
    \E c \in Batches : \E j \in -1 .. Size(c) - 1 : Explains(b, s, c, j)

\* "DOWNLOADING FAILED" (main.py:441) is said of no link that was sent.
FailedMeansNotSent ==
  \A b \in Batches : \A i \in batch[b].told : SentFor(b, i) = {}

\* A batch that reports no failure leaves none of the files it has sent, nor their
\* stills, even where an earlier process left some of those names (the removals
\* of main.py:410, 424 and helper.py:225-227), except under titles that other
\* batches use as well.
OwnTitle(b, title) ==
  \A c \in Batches \ {b} : \A i \in 1 .. Size(c) : LinksOf[c][i].title # title
CleanWhenDone ==
  \A b \in Batches :
    (At(b, "over") /\ batch[b].told = {} /\ ~batch[b].aborted) =>
      \A s \in batch[b].sent :
        LET title == LinkAt(b, s.i).title
        IN  OwnTitle(b, title) =>
              <<s.number, title, s.ext>> \notin DOMAIN files \cup stills

\* No batch goes on for ever, whatever fails in whichever order: each step of one
\* that has begun brings it nearer to its end (main.py:365-447). There are at most
\* six steps for each link left, the end of the links, the last words and leaving.
Rank == [next |-> 6, download |-> 5, still |-> 4, upload |-> 3, cleanup |-> 2, failed |-> 1]

LeftOf(size, stage, i) ==
  IF stage \in DOMAIN Rank THEN 6 * (size - i) + Rank[stage] - 3
  ELSE IF stage = "closing" THEN 2
  ELSE IF stage = "over" THEN 1
  ELSE 0

StepsLeft(b) == LeftOf(Size(b), batch[b].stage, batch[b].i)

NearerWithEachStep ==
  [][\A b \in Batches :
       ~At(b, "idle") /\ batch'[b] # batch[b] => StepsLeft(b)' < StepsLeft(b)]_vars
=============================================================================
