------------------------ MODULE BatchDownloadProofs ------------------------
(***************************************************************************)
(* Theorems about BatchDownload, for any number of batches, of any length, *)
(* that start anywhere.                                                    *)
(*                                                                         *)
(* What a batch knows of itself does not depend on the others: the first   *)
(* inductive invariant, BatchInv, has a part per batch, about its own      *)
(* slot, and parts about the links that the files of the shared directory  *)
(* and the files sent come from. The second, CleanInv, rests on it and is  *)
(* about what no longer is there.                                          *)
(***************************************************************************)
EXTENDS BatchDownload, TLAPS

-----------------------------------------------------------------------------
(* Slots.                                                                  *)

BatchStages == {"idle", "next", "download", "still", "upload",
                "cleanup", "failed", "closing", "over"}

\* The links and the urls there are.
Links == UNION {Range(LinksOf[b]) : b \in Batches}
Urls == {link.url : link \in Links}

Exts == Range(Containers) \cup {"none", "pdf"}
Sendings == [i : Int, number : Nat, ext : Exts, url : Urls]

BatchSlot ==
  [stage : BatchStages, first : Int, i : Int, count : Nat, ext : Exts,
   sent : SUBSET Sendings, told : SUBSET Int, aborted : BOOLEAN, clean : BOOLEAN]

LEMMA ContainersAre == Range(Containers) = {"webm", "mkv", "mp4", "mp4.webm"}
<1>1. /\ DOMAIN Containers = 1 .. 4
      /\ Containers[1] = "webm" /\ Containers[2] = "mkv"
      /\ Containers[3] = "mp4" /\ Containers[4] = "mp4.webm"
  BY DEF Containers
<1>2. 1 .. 4 = {1, 2, 3, 4}
  OBVIOUS
<1> QED
  BY <1>1, <1>2 DEF Range

\* Whatever is there, what is found is a video, if anything.
LEMMA FoundType ==
  ASSUME NEW b, NEW there
  PROVE  Found(b, there) \in Exts /\ Found(b, there) # "pdf"
<1> DEFINE places == {k \in DOMAIN Containers : FileAs(b, Containers[k]) \in there}
           least == CHOOSE k \in places : \A j \in places : k <= j
<1>1. Found(b, there) = IF places = {} THEN "none" ELSE Containers[least]
  BY DEF Found
<1>2. places \subseteq DOMAIN Containers /\ DOMAIN Containers = 1 .. 4
  BY DEF Containers
<1> HIDE DEF places
<1>3. CASE places # {}
  <2>1. \E k \in places : \A j \in places : k <= j
    BY <1>2, <1>3
  <2>2. least \in DOMAIN Containers
    BY <1>2, <2>1
  <2>3. Containers[least] \in Range(Containers)
    BY <2>2 DEF Range
  <2> QED
    BY <1>1, <1>3, <2>3, ContainersAre DEF Exts
<1>4. CASE places = {}
  BY <1>1, <1>4 DEF Exts
<1> QED
  BY <1>3, <1>4

LEMMA SizeType ==
  ASSUME NEW b \in Batches
  PROVE  Size(b) \in Nat /\ Size(b) > 0
BY BatchAssumption DEF Size

LEMMA LinkType ==
  ASSUME NEW b \in Batches, NEW i \in Int, -1 <= i, i < Size(b)
  PROVE  LinkAt(b, i) \in Links /\ LinkAt(b, i).url \in Urls
<1> DEFINE n == IF i < 0 THEN Size(b) + i + 1 ELSE i + 1
<1>1. n \in 1 .. Size(b)
  BY SizeType
<1>2. LinksOf[b] \in Seq(Range(LinksOf[b]))
  BY BatchAssumption
<1>3. LinksOf[b][n] \in Range(LinksOf[b])
  BY <1>1, <1>2 DEF Size
<1>4. LinkAt(b, i) = LinksOf[b][n]
  BY DEF LinkAt
<1> QED
  BY <1>3, <1>4 DEF Links, Urls

\* A slot after a step: the fields it changes, and no other.
LEMMA Moved ==
  ASSUME NEW q \in BatchSlot, NEW stage \in BatchStages
  PROVE  LET new == [q EXCEPT !.stage = stage]
         IN  /\ new \in BatchSlot /\ new.ext = q.ext /\ new.stage = stage /\ new.first = q.first
             /\ new.i = q.i /\ new.count = q.count /\ new.sent = q.sent
             /\ new.told = q.told /\ new.aborted = q.aborted /\ new.clean = q.clean
BY DEF BatchSlot

LEMMA Sent ==
  ASSUME NEW q \in BatchSlot, NEW s \in Sendings
  PROVE  LET new == [q EXCEPT !.stage = "cleanup", !.sent = @ \cup {s}]
         IN  /\ new \in BatchSlot /\ new.ext = q.ext /\ new.stage = "cleanup" /\ new.first = q.first
             /\ new.i = q.i /\ new.count = q.count /\ new.sent = q.sent \cup {s}
             /\ new.told = q.told /\ new.aborted = q.aborted /\ new.clean = q.clean
BY DEF BatchSlot, BatchStages

LEMMA Miscounted ==
  ASSUME NEW q \in BatchSlot, NEW count \in Nat
  PROVE  LET new == [q EXCEPT !.stage = "failed", !.count = count]
         IN  /\ new \in BatchSlot /\ new.ext = q.ext /\ new.stage = "failed" /\ new.first = q.first
             /\ new.i = q.i /\ new.count = count /\ new.sent = q.sent
             /\ new.told = q.told /\ new.aborted = q.aborted /\ new.clean = q.clean
BY DEF BatchSlot, BatchStages

LEMMA AbortedOne ==
  ASSUME NEW q \in BatchSlot
  PROVE  LET new == [q EXCEPT !.stage = "closing", !.aborted = TRUE]
         IN  /\ new \in BatchSlot /\ new.ext = q.ext /\ new.stage = "closing" /\ new.first = q.first
             /\ new.i = q.i /\ new.count = q.count /\ new.sent = q.sent
             /\ new.told = q.told /\ new.aborted = TRUE /\ new.clean = q.clean
BY DEF BatchSlot, BatchStages

-----------------------------------------------------------------------------
(* The inductive invariant.                                                *)

Beginning == {"next", "download", "still", "upload"}
Working == {"download", "still", "upload", "cleanup", "failed"}
Carrying == {"still", "upload", "cleanup"}

\* What a batch can say of its links: those before the current one were sent or
\* reported; what was sent came earlier, or is the current link's; only what was
\* reported shares its number with what follows; numbers follow the order.
SlotOK(b, q) ==
  /\ q.stage # "idle" => -1 <= q.first /\ q.first <= q.i /\ q.i <= Size(b)
  /\ q.stage = "idle" => q.first = 0 /\ q.i = 0 /\ q.count = 0
  /\ q.stage \in Working => q.i < Size(b)
  /\ q.stage \in {"idle"} \cup Beginning \cup {"cleanup"} => q.count <= q.i + 1
  /\ q.count <= q.i + 2
  /\ q.stage \in Carrying => (q.ext = "pdf" <=> IsDocument(LinkAt(b, q.i)))
  /\ \A j \in q.told : q.first <= j /\ j <= Size(b) - 1 /\ j < q.i
  /\ \A s \in q.sent :
       /\ q.first <= s.i /\ s.i <= q.i /\ s.i < Size(b)
       /\ q.stage \in Beginning => s.i < q.i
       /\ s.number <= q.count
       /\ s.i < q.i /\ s.i \notin q.told => s.number < q.count
  /\ \A j \in q.first .. q.i - 1 : j \in q.told \/ \E s \in q.sent : s.i = j
  /\ q.stage = "cleanup" => \E s \in q.sent : s.i = q.i
  /\ \A s, t \in q.sent : s.i < t.i /\ s.i \notin q.told => s.number < t.number

SlotsOK ==
  /\ batch \in [Batches -> BatchSlot]
  /\ \A b \in Batches : SlotOK(b, batch[b])

\* The link a file of this name and this content can come from.
Indices(c) == -1 .. Size(c) - 1
Origin(n, url, c, j) ==
  /\ n[2] = LinkAt(c, j).title /\ (n[3] = "pdf" <=> IsDocument(LinkAt(c, j)))
  /\ url = LinkAt(c, j).url

\* Every file comes from a link.
FilesOK ==
  \A n \in DOMAIN files :
    n[1] \in Nat /\ \E c \in Batches : \E j \in Indices(c) : Origin(n, files[n], c, j)

\* In a directory that was empty when a batch began, the files under numbers it
\* has not done with are other batches', those of links it has reported, and that
\* of its current link.
OriginOK(b, q, fs) ==
  q.clean =>
    \A n \in DOMAIN fs : n[1] >= q.count =>
      \E c \in Batches : \E j \in Indices(c) :
        /\ Origin(n, fs[n], c, j)
        /\ c # b \/ j \in q.told \/ (j = q.i /\ n[1] = q.count)
OriginsOK == \A b \in Batches : OriginOK(b, batch[b], files)

\* What was sent is explained.
OwnOK ==
  \A b \in Batches : \A s \in batch[b].sent :
    \E c \in Batches : \E j \in Indices(c) : Explains(b, s, c, j)

BatchInv == SlotsOK /\ FilesOK /\ OriginsOK /\ OwnOK
-----------------------------------------------------------------------------
(* What a step does to a slot keeps SlotOK.                                *)

LEMMA MovedOK ==
  ASSUME NEW b \in Batches, NEW q \in BatchSlot, SlotOK(b, q), q.stage # "idle",
         NEW new \in BatchSlot, new.first = q.first, new.i = q.i, new.count = q.count,
         new.sent = q.sent, new.told = q.told,
         new.stage \notin {"idle", "cleanup", "next"},
         new.stage \in Carrying => (new.ext = "pdf" <=> IsDocument(LinkAt(b, q.i))),
         new.stage \in Working => q.i < Size(b),
         new.stage \in Beginning => q.stage \in Beginning
  PROVE  SlotOK(b, new)
BY DEF SlotOK, Beginning, Working, Carrying

\* A link is done: sent, counted, and its file gone.
LEMMA AdvancedOK ==
  ASSUME NEW b \in Batches, NEW q \in BatchSlot, SlotOK(b, q), q.stage = "cleanup",
         NEW new \in BatchSlot, new.stage = "next", new.first = q.first, new.i = q.i + 1,
         new.count = q.count + 1, new.sent = q.sent, new.told = q.told
  PROVE  SlotOK(b, new)
<1>1. /\ q.i \in Int /\ q.first \in Int /\ q.count \in Nat /\ Size(b) \in Nat
      /\ \A s \in q.sent : s.i \in Int /\ s.number \in Nat
      /\ \A j \in q.told : j \in Int
  BY SizeType DEF BatchSlot, Sendings
<1>2. \A j \in new.first .. new.i - 1 : j \in new.told \/ \E s \in new.sent : s.i = j
  <2> TAKE j \in new.first .. new.i - 1
  <2>1. CASE j = q.i
    BY <2>1 DEF SlotOK
  <2>2. CASE j # q.i
    <3>1. j \in q.first .. q.i - 1
      BY <1>1, <2>2
    <3> QED
      BY <3>1 DEF SlotOK
  <2> QED
    BY <2>1, <2>2
<1>3. \A s \in new.sent :
        /\ new.first <= s.i /\ s.i <= new.i /\ s.i < Size(b) /\ s.i < new.i
        /\ s.number <= new.count /\ s.number < new.count
  BY <1>1 DEF SlotOK
<1>4. /\ -1 <= new.first /\ new.first <= new.i /\ new.i <= Size(b)
      /\ new.count <= new.i + 1 /\ new.count <= new.i + 2
  BY <1>1 DEF SlotOK, Working
<1>5. \A j \in new.told : new.first <= j /\ j <= Size(b) - 1 /\ j < new.i
  BY <1>1 DEF SlotOK
<1> QED
  BY <1>2, <1>3, <1>4, <1>5 DEF SlotOK, Working, Carrying

\* A link is sent, under the number that is next.
LEMMA SentOK ==
  ASSUME NEW b \in Batches, NEW q \in BatchSlot, SlotOK(b, q), q.stage = "upload",
         NEW s \in Sendings, s.i = q.i, s.number = q.count,
         NEW new \in BatchSlot, new.stage = "cleanup", new.first = q.first, new.i = q.i,
         new.count = q.count, new.ext = q.ext, new.sent = q.sent \cup {s}, new.told = q.told
  PROVE  SlotOK(b, new)
<1>1. /\ q.i \in Int /\ q.first \in Int /\ q.count \in Nat /\ Size(b) \in Nat
      /\ \A t \in new.sent : t.i \in Int /\ t.number \in Nat
  BY SizeType DEF BatchSlot, Sendings
<1>2. \A t \in q.sent : t.i < q.i /\ (t.i \notin q.told => t.number < q.count)
  BY DEF SlotOK, Beginning
<1>3. \A t, u \in new.sent : t.i < u.i /\ t.i \notin new.told => t.number < u.number
  <2> TAKE t, u \in new.sent
  <2> HAVE t.i < u.i /\ t.i \notin new.told
  <2>1. t # s
    <3>1. u.i <= q.i
      BY <1>1, <1>2
    <3> QED
      BY <1>1, <3>1
  <2>2. CASE u = s
    BY <1>2, <2>1, <2>2
  <2>3. CASE u # s
    BY <2>1, <2>3 DEF SlotOK
  <2> QED
    BY <2>2, <2>3
<1>4. /\ -1 <= q.first /\ q.first <= q.i /\ q.i < Size(b) /\ q.count <= q.i + 1
  BY DEF SlotOK, Beginning, Working, Carrying
<1>5. \A t \in new.sent :
        /\ q.first <= t.i /\ t.i <= q.i /\ t.i < Size(b) /\ t.number <= q.count
        /\ t.i < q.i /\ t.i \notin q.told => t.number < q.count
  <2> TAKE t \in new.sent
  <2>1. CASE t = s
    BY <1>1, <1>4, <2>1
  <2>2. CASE t # s
    BY <2>2 DEF SlotOK
  <2> QED
    BY <2>1, <2>2
<1>6. \A j \in new.first .. new.i - 1 : j \in new.told \/ \E t \in new.sent : t.i = j
  BY DEF SlotOK
<1>7. \A j \in new.told : new.first <= j /\ j <= Size(b) - 1 /\ j < q.i
  BY DEF SlotOK
<1> QED
  BY <1>1, <1>3, <1>4, <1>5, <1>6, <1>7 DEF SlotOK, Beginning, Working, Carrying

\* A document is counted before it is found to be gone.
LEMMA MiscountedOK ==
  ASSUME NEW b \in Batches, NEW q \in BatchSlot, SlotOK(b, q), q.stage = "cleanup",
         NEW new \in BatchSlot, new.stage = "failed", new.first = q.first, new.i = q.i,
         new.count = q.count + 1, new.sent = q.sent, new.told = q.told
  PROVE  SlotOK(b, new)
<1>1. /\ q.i \in Int /\ q.count \in Nat
      /\ \A s \in q.sent : s.i \in Int /\ s.number \in Nat
  BY DEF BatchSlot, Sendings
<1> QED
  BY <1>1 DEF SlotOK, Beginning, Working, Carrying

\* A failure is reported: what was sent before it may share its number.
LEMMA ToldOK ==
  ASSUME NEW b \in Batches, NEW q \in BatchSlot, SlotOK(b, q), q.stage = "failed",
         NEW new \in BatchSlot, new.stage = "next", new.first = q.first, new.i = q.i + 1,
         new.count = q.count, new.sent = q.sent, new.told = q.told \cup {q.i}
  PROVE  SlotOK(b, new)
<1>1. /\ q.i \in Int /\ q.first \in Int /\ q.count \in Nat /\ Size(b) \in Nat
      /\ \A s \in q.sent : s.i \in Int /\ s.number \in Nat
      /\ \A j \in q.told : j \in Int
  BY SizeType DEF BatchSlot, Sendings
<1>2. -1 <= q.first /\ q.first <= q.i /\ q.i < Size(b) /\ q.count <= q.i + 2
  BY DEF SlotOK, Working
<1>3. \A j \in new.first .. new.i - 1 : j \in new.told \/ \E s \in new.sent : s.i = j
  <2> TAKE j \in new.first .. new.i - 1
  <2>1. CASE j = q.i
    BY <2>1
  <2>2. CASE j # q.i
    <3>1. j \in q.first .. q.i - 1
      BY <1>1, <2>2
    <3> QED
      BY <3>1 DEF SlotOK
  <2> QED
    BY <2>1, <2>2
<1>4. \A s \in new.sent :
        /\ new.first <= s.i /\ s.i < new.i /\ s.i < Size(b) /\ s.number <= new.count
        /\ s.i \notin new.told => s.number < new.count
  <2> TAKE s \in new.sent
  <2>1. /\ q.first <= s.i /\ s.i <= q.i /\ s.i < Size(b) /\ s.number <= q.count
        /\ s.i < q.i /\ s.i \notin q.told => s.number < q.count
    BY DEF SlotOK
  <2> QED
    BY <1>1, <2>1
<1>5. \A j \in new.told : new.first <= j /\ j <= Size(b) - 1 /\ j < new.i
  <2> TAKE j \in new.told
  <2>1. CASE j = q.i
    BY <1>1, <1>2, <2>1
  <2>2. CASE j # q.i
    <3>1. j < q.i /\ q.first <= j /\ j <= Size(b) - 1 /\ j \in Int
      BY <1>1, <2>2 DEF SlotOK
    <3> QED
      BY <1>1, <3>1
  <2> QED
    BY <2>1, <2>2
<1>6. \A s, t \in new.sent : s.i < t.i /\ s.i \notin new.told => s.number < t.number
  BY DEF SlotOK
<1>7. /\ -1 <= new.first /\ new.first <= new.i /\ new.i <= Size(b)
      /\ new.count <= new.i + 1 /\ new.count <= new.i + 2
  BY <1>1, <1>2
<1>8. \A s \in new.sent : s.i <= new.i
  BY <1>1, <1>4
<1> QED
  BY <1>3, <1>4, <1>5, <1>6, <1>7, <1>8 DEF SlotOK, Beginning, Working, Carrying

LEMMA IdleSlot ==
  ASSUME NEW b \in Batches
  PROVE  Idle \in BatchSlot /\ SlotOK(b, Idle)
<1>1. Idle \in BatchSlot
  BY DEF Idle, BatchSlot, BatchStages, Exts
<1>2. /\ Idle.stage = "idle" /\ Idle.first = 0 /\ Idle.i = 0 /\ Idle.count = 0
      /\ Idle.sent = {} /\ Idle.told = {}
  BY DEF Idle
<1> QED
  BY <1>2, <1>1 DEF SlotOK, Beginning, Working, Carrying
-----------------------------------------------------------------------------
(* The steps of the specification.                                         *)

LEMMA BatchInvInit == Init => BatchInv
<1> SUFFICES ASSUME Init PROVE BatchInv
  OBVIOUS
<1>1. batch = [b \in Batches |-> Idle] /\ DOMAIN files = {}
  BY DEF Init
<1>2. SlotsOK
  BY <1>1, IdleSlot DEF SlotsOK
<1>3. FilesOK /\ OriginsOK
  BY <1>1 DEF FilesOK, OriginsOK, OriginOK
<1>4. OwnOK
  BY <1>1 DEF OwnOK, Idle
<1> QED
  BY <1>2, <1>3, <1>4 DEF BatchInv

\* A step of one batch, seen from all of them.
LEMMA OneSlotKeeps ==
  ASSUME SlotsOK, NEW b \in Batches, NEW new \in BatchSlot, SlotOK(b, new),
         batch' = [batch EXCEPT ![b] = new]
  PROVE  /\ SlotsOK'
         /\ batch'[b] = new
         /\ \A c \in Batches \ {b} : batch'[c] = batch[c]
BY DEF SlotsOK

\* What has been sent stays explained: links do not change, and what was reported
\* stays so.
LEMMA NothingSentKeeps ==
  ASSUME OwnOK,
         \A b \in Batches :
           \/ batch'[b].sent = {}
           \/ /\ batch'[b].sent = batch[b].sent /\ batch'[b].clean = batch[b].clean
              /\ batch[b].told \subseteq batch'[b].told
  PROVE  OwnOK'
<1> SUFFICES ASSUME NEW b \in Batches, NEW s \in batch'[b].sent
             PROVE  \E c \in Batches : \E j \in Indices(c) : Explains(b, s, c, j)'
  BY DEF OwnOK, Indices, Size
<1>1. /\ s \in batch[b].sent /\ batch'[b].clean = batch[b].clean
      /\ batch[b].told \subseteq batch'[b].told
  OBVIOUS
<1> PICK c \in Batches : \E j \in Indices(c) : Explains(b, s, c, j)
  BY <1>1 DEF OwnOK
<1>2. PICK j \in Indices(c) : Explains(b, s, c, j)
  OBVIOUS
<1>3. Explains(b, s, c, j)'
  BY <1>1, <1>2 DEF Explains, LinkAt, Size
<1> QED
  BY <1>2, <1>3

\* The files that are left are as they were.
Shrunk == DOMAIN files' \subseteq DOMAIN files /\ \A n \in DOMAIN files' : files'[n] = files[n]

LEMMA ShrunkKeeps ==
  ASSUME FilesOK, Shrunk
  PROVE  FilesOK'
BY DEF FilesOK, Shrunk, Indices, Size, Origin, LinkAt

\* What a batch that sends and fetches nothing changes of what it knows of files:
\* it turns from a link once it has counted or reported it.
Kept(q, new) ==
  /\ new.sent = q.sent /\ new.clean = q.clean
  /\ q.told \subseteq new.told /\ q.count <= new.count
  /\ q.i \in new.told \/ q.count < new.count \/ (new.i = q.i /\ new.count = q.count)

LEMMA OriginKeeps ==
  ASSUME NEW b \in Batches, NEW q \in BatchSlot, NEW new \in BatchSlot, NEW fs, NEW gs,
         OriginOK(b, q, fs), new.clean = q.clean,
         q.told \subseteq new.told, q.count <= new.count,
         q.i \in new.told \/ q.count < new.count \/ (new.i = q.i /\ new.count = q.count),
         DOMAIN gs \subseteq DOMAIN fs, \A n \in DOMAIN gs : gs[n] = fs[n] /\ n[1] \in Nat
  PROVE  OriginOK(b, new, gs)
<1> SUFFICES ASSUME new.clean, NEW n \in DOMAIN gs, n[1] >= new.count
             PROVE  \E c \in Batches : \E j \in Indices(c) :
                      /\ Origin(n, gs[n], c, j)
                      /\ c # b \/ j \in new.told \/ (j = new.i /\ n[1] = new.count)
  BY DEF OriginOK
<1>1. q.count \in Nat /\ new.count \in Nat /\ n[1] \in Nat /\ n[1] >= q.count
  BY DEF BatchSlot
<1> PICK c \in Batches : \E j \in Indices(c) :
      /\ Origin(n, gs[n], c, j)
      /\ c # b \/ j \in q.told \/ (j = q.i /\ n[1] = q.count)
  BY <1>1 DEF OriginOK
<1>2. PICK j \in Indices(c) :
        /\ Origin(n, gs[n], c, j)
        /\ c # b \/ j \in q.told \/ (j = q.i /\ n[1] = q.count)
  OBVIOUS
<1>3. CASE q.count < new.count
  <2>1. n[1] # q.count
    BY <1>1, <1>3
  <2> QED
    BY <1>2, <2>1
<1>4. CASE q.i \in new.told \/ (new.i = q.i /\ new.count = q.count)
  BY <1>2, <1>4
<1> QED
  BY <1>3, <1>4

LEMMA StepKeeps ==
  ASSUME BatchInv, NEW b \in Batches, NEW new \in BatchSlot, SlotOK(b, new),
         Kept(batch[b], new), batch' = [batch EXCEPT ![b] = new], Shrunk
  PROVE  BatchInv'
<1>1. /\ SlotsOK' /\ batch'[b] = new
      /\ \A c \in Batches \ {b} : batch'[c] = batch[c]
  BY OneSlotKeeps DEF BatchInv
<1>2. FilesOK' /\ \A n \in DOMAIN files' : n[1] \in Nat
  BY ShrunkKeeps DEF BatchInv, FilesOK, Shrunk
<1>3. OwnOK'
  BY <1>1, NothingSentKeeps DEF BatchInv, Kept
<1>4. ASSUME NEW c \in Batches
      PROVE  OriginOK(c, batch'[c], files')
  <2>1. /\ batch[c] \in BatchSlot /\ batch[c].count \in Nat /\ batch'[c] \in BatchSlot
        /\ OriginOK(c, batch[c], files)
    BY <1>1 DEF BatchInv, SlotsOK, BatchSlot, OriginsOK
  <2>2. /\ batch'[c].clean = batch[c].clean /\ batch[c].told \subseteq batch'[c].told
        /\ batch[c].count <= batch'[c].count
        /\ \/ batch[c].i \in batch'[c].told \/ batch[c].count < batch'[c].count
           \/ batch'[c].i = batch[c].i /\ batch'[c].count = batch[c].count
    BY <1>1, <2>1 DEF Kept
  <2> QED
    BY <1>2, <2>1, <2>2, OriginKeeps DEF Shrunk
<1>5. OriginsOK'
  BY <1>4 DEF OriginsOK, OriginOK, Indices, Size, Origin, LinkAt
<1> QED
  BY <1>1, <1>2, <1>3, <1>5 DEF BatchInv

\* The current link of a batch at work.
LEMMA CurrentLink ==
  ASSUME SlotsOK, NEW b \in Batches, batch[b].stage \in Working
  PROVE  Link(b) \in Links /\ batch[b].i \in Indices(b)
<1>1. batch[b] \in BatchSlot /\ SlotOK(b, batch[b])
  BY DEF SlotsOK
<1>2. batch[b].i \in Int /\ batch[b].first \in Int /\ batch[b].stage # "idle"
  BY <1>1 DEF BatchSlot, Working
<1>3. -1 <= batch[b].i /\ batch[b].i < Size(b)
  BY <1>1, <1>2, SizeType DEF SlotOK
<1> QED
  BY <1>2, <1>3, LinkType, SizeType DEF Link, Indices

\* Steps that only move a batch to another stage.
LEMMA StageKeeps ==
  ASSUME BatchInv, NEW b \in Batches, NEW stage \in BatchStages, Move(b, stage),
         batch[b].stage # "idle", stage \notin {"idle", "cleanup", "next"},
         stage \in Carrying => batch[b].stage \in Carrying,
         stage \in Working => batch[b].i < Size(b),
         stage \in Beginning => batch[b].stage \in Beginning, Shrunk
  PROVE  BatchInv'
<1> DEFINE new == [batch[b] EXCEPT !.stage = stage]
<1>1. batch[b] \in BatchSlot /\ SlotOK(b, batch[b]) /\ batch[b].count \in Nat
  BY DEF BatchInv, SlotsOK, BatchSlot
<1>2. /\ new \in BatchSlot /\ new.stage = stage /\ new.first = batch[b].first
      /\ new.i = batch[b].i /\ new.count = batch[b].count /\ new.sent = batch[b].sent
      /\ new.told = batch[b].told /\ new.ext = batch[b].ext /\ new.clean = batch[b].clean
  BY <1>1, Moved
<1>3. batch' = [batch EXCEPT ![b] = new]
  BY Zenon DEF Move, BatchInv, SlotsOK
<1> HIDE DEF new
<1>4. new.stage \in Carrying => (new.ext = "pdf" <=> IsDocument(LinkAt(b, batch[b].i)))
  BY <1>1, <1>2 DEF SlotOK
<1>5. SlotOK(b, new)
  BY <1>1, <1>2, <1>4, MovedOK
<1>6. Kept(batch[b], new)
  BY <1>1, <1>2 DEF Kept
<1> QED
  BY <1>2, <1>3, <1>5, <1>6, StepKeeps

\* Steps that end the loop early.
LEMMA AbortKeeps ==
  ASSUME BatchInv, NEW b \in Batches, batch[b].stage \in {"next", "failed"},
         batch' = [batch EXCEPT ![b].stage = "closing", ![b].aborted = TRUE], Shrunk
  PROVE  BatchInv'
<1> DEFINE new == [batch[b] EXCEPT !.stage = "closing", !.aborted = TRUE]
<1>1. batch[b] \in BatchSlot /\ SlotOK(b, batch[b]) /\ batch[b].count \in Nat
  BY DEF BatchInv, SlotsOK, BatchSlot
<1>2. /\ new \in BatchSlot /\ new.stage = "closing" /\ new.first = batch[b].first
      /\ new.i = batch[b].i /\ new.count = batch[b].count /\ new.sent = batch[b].sent
      /\ new.told = batch[b].told /\ new.clean = batch[b].clean
  BY <1>1, AbortedOne
<1>3. batch' = [batch EXCEPT ![b] = new]
  BY Zenon DEF BatchInv, SlotsOK
<1> HIDE DEF new
<1>4. SlotOK(b, new)
  BY <1>1, <1>2, MovedOK DEF Working, Beginning, Carrying
<1>5. Kept(batch[b], new)
  BY <1>1, <1>2 DEF Kept
<1> QED
  BY <1>2, <1>3, <1>4, <1>5, StepKeeps

\* The loop turns to the next link with one more sent.
LEMMA AdvanceKeeps ==
  ASSUME BatchInv, NEW b \in Batches, batch[b].stage = "cleanup",
         Advance(b, batch[b].count + 1), Shrunk
  PROVE  BatchInv'
<1>1. batch[b] \in BatchSlot /\ SlotOK(b, batch[b]) /\ batch[b].count \in Nat
  BY DEF BatchInv, SlotsOK, BatchSlot
<1>2. PICK i \in Int, count \in Nat : i = batch[b].i + 1 /\ count = batch[b].count + 1
  BY <1>1 DEF BatchSlot
<1> DEFINE new == [batch[b] EXCEPT !.stage = "next", !.i = i, !.count = count,
                                   !.ext = "none"]
<1>3. /\ new \in BatchSlot /\ new.stage = "next" /\ new.first = batch[b].first
      /\ new.i = i /\ new.count = count /\ new.sent = batch[b].sent
      /\ new.told = batch[b].told /\ new.clean = batch[b].clean
  BY <1>1 DEF BatchSlot, BatchStages, Exts
<1>4. batch' = [batch EXCEPT ![b] = new]
  BY <1>2, Zenon DEF Advance, BatchInv, SlotsOK
<1> HIDE DEF new
<1>5. SlotOK(b, new)
  BY <1>1, <1>2, <1>3, AdvancedOK
<1>6. Kept(batch[b], new)
  BY <1>1, <1>2, <1>3 DEF Kept
<1> QED
  BY <1>3, <1>4, <1>5, <1>6, StepKeeps

\* A batch begins: what it finds is another's, or it finds nothing.
LEMMA StartKeeps ==
  ASSUME BatchInv, NEW b \in Batches, NEW first \in Starts, first <= Size(b) + 1,
         Start(b, first)
  PROVE  BatchInv'
<1> PICK count \in Nat : count = IF Size(b) = 1 THEN 1 ELSE first
  BY BatchAssumption
<1> PICK i \in Int : i = count - 1
  OBVIOUS
<1> DEFINE clean == DOMAIN files = {}
           new == [Idle EXCEPT !.stage = "next", !.first = i, !.i = i, !.count = count,
                               !.clean = clean]
<1>1. batch' = [batch EXCEPT ![b] = new] /\ files' = files
  BY DEF Start
<1>2. /\ new.stage = "next" /\ new.first = i /\ new.i = i /\ new.count = count
      /\ new.sent = {} /\ new.told = {} /\ new.clean = clean /\ clean \in BOOLEAN
  BY DEF Idle
<1>3. -1 <= i /\ i <= Size(b) /\ Size(b) \in Nat /\ count <= i + 1
  BY SizeType, BatchAssumption
<1>4. new \in BatchSlot
  BY <1>2 DEF Idle, BatchSlot, BatchStages, Exts
<1>5. SlotOK(b, new)
  <2> HIDE DEF new
  <2>1. new.sent = {} /\ new.told = {} /\ new.first .. new.i - 1 = {}
    BY <1>2
  <2> QED
    BY <1>2, <1>3, <2>1 DEF SlotOK, Beginning, Working, Carrying
<1> HIDE DEF new
<1>6. /\ SlotsOK' /\ batch'[b] = new
      /\ \A c \in Batches \ {b} : batch'[c] = batch[c]
  BY <1>1, <1>4, <1>5, OneSlotKeeps DEF BatchInv
<1>7. FilesOK' /\ OwnOK'
  BY <1>1, <1>2, <1>6, NothingSentKeeps, ShrunkKeeps DEF BatchInv, Shrunk
<1>8. OriginOK(b, new, files)
  BY <1>2 DEF OriginOK
<1>9. \A c \in Batches : OriginOK(c, batch'[c], files')
  BY <1>1, <1>6, <1>8 DEF BatchInv, OriginsOK
<1>10. OriginsOK'
  BY <1>9 DEF OriginsOK, OriginOK, Indices, Size, Origin, LinkAt
<1> QED
  BY <1>6, <1>7, <1>10 DEF BatchInv

\* What a download leaves: the files it found, and perhaps that of the current link.
LEMMA FetchedFiles ==
  ASSUME NEW b, files' \in Fetched(b)
  PROVE  \A n \in DOMAIN files' :
           \/ n \in DOMAIN files /\ files'[n] = files[n]
           \/ n = FileAs(b, Link(b).ext) /\ files'[n] = Link(b).url
<1> DEFINE made == FileAs(b, Link(b).ext)
<1>1. PICK kept \in {DOMAIN files, DOMAIN files \ {made}} :
        \/ files' = files
        \/ files' = [n \in DOMAIN files \cup {made} |->
                      IF n \in kept THEN files[n] ELSE Link(b).url]
  BY DEF Fetched
<1> QED
  BY <1>1

\* The file of a link is named for its title and its kind.
LEMMA LinkExt ==
  ASSUME NEW link \in Links
  PROVE  link.ext \in Exts /\ (link.ext = "pdf" <=> IsDocument(link))
<1>1. PICK b \in Batches : link \in Range(LinksOf[b])
  BY DEF Links
<1>2. PICK k \in DOMAIN LinksOf[b] : link = LinksOf[b][k]
  BY <1>1 DEF Range
<1>3. k \in 1 .. Len(LinksOf[b])
  BY <1>2, BatchAssumption
<1>4. link.ext \in IF IsDocument(link) THEN {"pdf"} ELSE Range(Containers)
  BY <1>2, <1>3, BatchAssumption
<1> QED
  BY <1>4, ContainersAre DEF Exts

LEMMA DownloadKeeps ==
  ASSUME BatchInv, NEW b \in Batches, Download(b)
  PROVE  BatchInv'
<1> DEFINE stage == IF IsDocument(Link(b)) THEN "upload" ELSE "still"
           ext == IF IsDocument(Link(b)) THEN "pdf" ELSE Found(b, DOMAIN files')
           new == [batch[b] EXCEPT !.stage = stage, !.ext = ext]
<1>1. /\ batch[b].stage = "download" /\ files' \in Fetched(b)
      /\ batch' = [batch EXCEPT ![b].stage = stage, ![b].ext = ext]
  BY DEF Download, At
<1>2. /\ SlotsOK /\ FilesOK /\ OriginsOK /\ OwnOK /\ batch[b] \in BatchSlot
      /\ SlotOK(b, batch[b]) /\ batch[b].count \in Nat
      /\ batch \in [Batches -> BatchSlot]
  BY DEF BatchInv, SlotsOK, BatchSlot
<1>3. batch' = [batch EXCEPT ![b] = new]
  BY <1>1, <1>2, Zenon
<1>4. stage \in {"still", "upload"} /\ ext \in Exts /\ (ext = "pdf" <=> IsDocument(Link(b)))
  BY FoundType DEF Exts
<1> HIDE DEF stage, ext
<1>5. /\ new \in BatchSlot /\ new.stage = stage /\ new.first = batch[b].first
      /\ new.i = batch[b].i /\ new.count = batch[b].count /\ new.sent = batch[b].sent
      /\ new.told = batch[b].told /\ new.ext = ext /\ new.clean = batch[b].clean
  BY <1>2, <1>4 DEF BatchSlot, BatchStages
<1> HIDE DEF new
<1>6. SlotOK(b, new)
  <2>1. batch[b].i < Size(b)
    BY <1>1, <1>2 DEF SlotOK, Working
  <2> QED
    BY <1>1, <1>2, <1>4, <1>5, <2>1, MovedOK DEF Working, Beginning, Link
<1>7. /\ SlotsOK' /\ batch'[b] = new
      /\ \A c \in Batches \ {b} : batch'[c] = batch[c]
  BY <1>2, <1>3, <1>5, <1>6, OneSlotKeeps
<1>8. OwnOK'
  BY <1>2, <1>5, <1>7, NothingSentKeeps
<1> DEFINE made == FileAs(b, Link(b).ext)
<1>9. /\ batch[b].i \in Indices(b) /\ Origin(made, Link(b).url, b, batch[b].i)
      /\ made[1] = batch[b].count
  <2>1. batch[b].i \in Indices(b) /\ Link(b) \in Links
    BY <1>1, <1>2, CurrentLink DEF Working
  <2> QED
    BY <2>1, LinkExt DEF Origin, FileAs, Link
<1>10. \A n \in DOMAIN files' :
         \/ n \in DOMAIN files /\ files'[n] = files[n]
         \/ n = made /\ files'[n] = Link(b).url
  BY <1>1, FetchedFiles
<1> HIDE DEF made
<1>11. ASSUME NEW n \in DOMAIN files'
       PROVE  n[1] \in Nat /\ \E c \in Batches : \E j \in Indices(c) : Origin(n, files'[n], c, j)
  BY <1>2, <1>9, <1>10 DEF FilesOK
<1>12. FilesOK'
  BY <1>11 DEF FilesOK, Indices, Size, Origin, LinkAt
<1>13. ASSUME NEW c \in Batches, batch'[c].clean, NEW n \in DOMAIN files',
              n[1] >= batch'[c].count
       PROVE  \E d \in Batches : \E j \in Indices(d) :
                /\ Origin(n, files'[n], d, j)
                /\ \/ d # c \/ j \in batch'[c].told
                   \/ j = batch'[c].i /\ n[1] = batch'[c].count
  <2>1. /\ batch'[c].clean = batch[c].clean /\ batch'[c].told = batch[c].told
        /\ batch'[c].count = batch[c].count /\ batch'[c].i = batch[c].i
    BY <1>5, <1>7
  <2>2. CASE n \in DOMAIN files /\ files'[n] = files[n]
    BY <1>2, <1>13, <2>1, <2>2 DEF OriginsOK, OriginOK
  <2>3. CASE n = made /\ files'[n] = Link(b).url
    BY <1>9, <2>1, <2>3
  <2> QED
    BY <1>10, <2>2, <2>3
<1>14. OriginsOK'
  BY <1>13 DEF OriginsOK, OriginOK, Indices, Size, Origin, LinkAt
<1> QED
  BY <1>7, <1>8, <1>12, <1>14 DEF BatchInv

\* What is sent for a link is the file of its name, and comes from where that does.
LEMMA UploadKeeps ==
  ASSUME BatchInv, NEW b \in Batches, Upload(b)
  PROVE  BatchInv'
<1> DEFINE s == [i |-> batch[b].i, number |-> batch[b].count, ext |-> batch[b].ext,
                 url |-> files[Name(b)]]
           new == [batch[b] EXCEPT !.stage = "cleanup", !.sent = @ \cup {s}]
<1>1. /\ batch[b].stage = "upload" /\ Name(b) \in DOMAIN files /\ files' = files
      /\ batch' = [batch EXCEPT ![b].stage = "cleanup", ![b].sent = @ \cup {s}]
  BY DEF Upload, At
<1>2. /\ SlotsOK /\ FilesOK /\ OriginsOK /\ OwnOK /\ batch[b] \in BatchSlot
      /\ SlotOK(b, batch[b]) /\ batch \in [Batches -> BatchSlot]
      /\ batch[b].count \in Nat /\ batch[b].i \in Int /\ batch[b].ext \in Exts
  BY DEF BatchInv, SlotsOK, BatchSlot
<1>3. batch' = [batch EXCEPT ![b] = new]
  BY <1>1, <1>2, Zenon
<1>4. /\ Name(b)[1] = batch[b].count /\ Name(b)[2] = Link(b).title
      /\ Name(b)[3] = batch[b].ext
  BY DEF Name, FileAs
<1> PICK c \in Batches : \E j \in Indices(c) :
      /\ Origin(Name(b), files[Name(b)], c, j)
      /\ batch[b].clean => c # b \/ j \in batch[b].told \/ j = batch[b].i
  <2>1. CASE batch[b].clean
    <3>1. Name(b)[1] >= batch[b].count
      BY <1>2, <1>4
    <3> QED
      BY <1>1, <1>2, <2>1, <3>1 DEF OriginsOK, OriginOK
  <2>2. CASE ~batch[b].clean
    BY <1>1, <1>2, <2>2 DEF FilesOK
  <2> QED
    BY <2>1, <2>2
<1>5. PICK j \in Indices(c) :
        /\ Origin(Name(b), files[Name(b)], c, j)
        /\ batch[b].clean => c # b \/ j \in batch[b].told \/ j = batch[b].i
  OBVIOUS
<1>6. /\ s \in Sendings /\ s.i = batch[b].i /\ s.number = batch[b].count
      /\ s.ext = batch[b].ext /\ s.url = LinkAt(c, j).url
  <2>1. j \in Int /\ -1 <= j /\ j < Size(c)
    BY SizeType DEF Indices
  <2>2. files[Name(b)] = LinkAt(c, j).url /\ LinkAt(c, j).url \in Urls
    BY <1>5, <2>1, LinkType DEF Origin
  <2> QED
    BY <1>2, <2>2 DEF Sendings
<1> HIDE DEF s
<1>7. /\ new \in BatchSlot /\ new.stage = "cleanup" /\ new.first = batch[b].first
      /\ new.i = batch[b].i /\ new.count = batch[b].count /\ new.ext = batch[b].ext
      /\ new.sent = batch[b].sent \cup {s} /\ new.told = batch[b].told
      /\ new.clean = batch[b].clean
  BY <1>2, <1>6, Sent
<1> HIDE DEF new
<1>8. SlotOK(b, new)
  BY <1>1, <1>2, <1>6, <1>7, SentOK
<1>9. /\ SlotsOK' /\ batch'[b] = new
      /\ \A d \in Batches \ {b} : batch'[d] = batch[d]
  BY <1>2, <1>3, <1>7, <1>8, OneSlotKeeps
<1>10. Explains(b, s, c, j)
  <2>1. IsDocument(LinkAt(c, j)) <=> IsDocument(Link(b))
    BY <1>1, <1>2, <1>4, <1>5 DEF Origin, SlotOK, Carrying, Link
  <2>2. Namesake(LinkAt(c, j), LinkAt(b, s.i))
    BY <1>4, <1>5, <1>6, <2>1 DEF Origin, Namesake, Link
  <2>3. \A k \in batch[b].told : k < batch[b].i
    BY <1>2 DEF SlotOK
  <2> QED
    BY <1>5, <1>6, <2>2, <2>3 DEF Explains
<1>11. OwnOK'
  <2> SUFFICES ASSUME NEW d \in Batches, NEW u \in batch'[d].sent
               PROVE  \E e \in Batches : \E k \in Indices(e) : Explains(d, u, e, k)'
    BY DEF OwnOK, Indices, Size
  <2>1. batch'[d].clean = batch[d].clean /\ batch'[d].told = batch[d].told
    BY <1>7, <1>9
  <2>2. \A e, k : Explains(d, u, e, k) => Explains(d, u, e, k)'
    BY <2>1 DEF Explains, LinkAt, Size
  <2>3. CASE u \in batch[d].sent
    BY <1>2, <2>2, <2>3 DEF OwnOK
  <2>4. CASE u \notin batch[d].sent
    <3>1. d = b /\ u = s
      BY <1>7, <1>9, <2>4
    <3> QED
      BY <1>5, <1>10, <2>2, <3>1
  <2> QED
    BY <2>3, <2>4
<1>12. FilesOK'
  BY <1>1, <1>2, ShrunkKeeps DEF Shrunk
<1>13. \A d \in Batches : OriginOK(d, batch'[d], files')
  BY <1>1, <1>2, <1>7, <1>9 DEF OriginsOK, OriginOK
<1>14. OriginsOK'
  BY <1>13 DEF OriginsOK, OriginOK, Indices, Size, Origin, LinkAt
<1> QED
  BY <1>9, <1>11, <1>12, <1>14 DEF BatchInv

LEMMA CleanDocumentKeeps ==
  ASSUME BatchInv, NEW b \in Batches, CleanDocument(b)
  PROVE  BatchInv'
<1>1. batch[b].stage = "cleanup" /\ Shrunk
  BY DEF CleanDocument, At, Restrict, Shrunk
<1>2. CASE Advance(b, batch[b].count + 1)
  BY <1>1, <1>2, AdvanceKeeps
<1>3. CASE batch' = [batch EXCEPT ![b].stage = "failed", ![b].count = @ + 1]
  <2>1. batch[b] \in BatchSlot /\ SlotOK(b, batch[b]) /\ batch[b].count \in Nat
    BY DEF BatchInv, SlotsOK, BatchSlot
  <2> PICK count \in Nat : count = batch[b].count + 1
    BY <2>1
  <2> DEFINE new == [batch[b] EXCEPT !.stage = "failed", !.count = count]
  <2>2. /\ new \in BatchSlot /\ new.stage = "failed" /\ new.first = batch[b].first
        /\ new.i = batch[b].i /\ new.count = count /\ new.sent = batch[b].sent
        /\ new.told = batch[b].told /\ new.clean = batch[b].clean
    BY <2>1, Miscounted
  <2>3. batch' = [batch EXCEPT ![b] = new]
    BY <1>3, Zenon DEF BatchInv, SlotsOK
  <2> HIDE DEF new
  <2>4. SlotOK(b, new)
    BY <1>1, <2>1, <2>2, MiscountedOK
  <2>5. Kept(batch[b], new)
    BY <2>1, <2>2 DEF Kept
  <2> QED
    BY <1>1, <2>2, <2>3, <2>4, <2>5, StepKeeps
<1> QED
  BY <1>2, <1>3 DEF CleanDocument

LEMMA CleanVideoKeeps ==
  ASSUME BatchInv, NEW b \in Batches, CleanVideo(b)
  PROVE  BatchInv'
<1>1. batch[b].stage = "cleanup" /\ Shrunk
  BY DEF CleanVideo, At, Restrict, Shrunk
<1>2. CASE Advance(b, batch[b].count + 1)
  BY <1>1, <1>2, AdvanceKeeps
<1>3. CASE Move(b, "failed")
  <2>1. batch[b].i < Size(b)
    BY <1>1 DEF BatchInv, SlotsOK, SlotOK, Working
  <2> QED
    BY <1>1, <1>3, <2>1, StageKeeps DEF BatchStages, Beginning, Carrying
<1> QED
  BY <1>2, <1>3 DEF CleanVideo

LEMMA ComplainKeeps ==
  ASSUME BatchInv, NEW b \in Batches, Complain(b)
  PROVE  BatchInv'
<1>1. batch[b].stage = "failed" /\ Shrunk
  BY DEF Complain, At, Shrunk
<1>2. batch[b] \in BatchSlot /\ SlotOK(b, batch[b]) /\ batch[b].count \in Nat
  BY DEF BatchInv, SlotsOK, BatchSlot
<1>3. CASE batch' = [batch EXCEPT ![b].stage = "next", ![b].i = @ + 1, ![b].ext = "none",
                                  ![b].told = @ \cup {batch[b].i}]
  <2>0. batch[b].i + 1 \in Int /\ batch[b].told \cup {batch[b].i} \in SUBSET Int
    BY <1>2 DEF BatchSlot
  <2> PICK i \in Int, told \in SUBSET Int :
        i = batch[b].i + 1 /\ told = batch[b].told \cup {batch[b].i}
    BY <2>0, Zenon
  <2> DEFINE new == [batch[b] EXCEPT !.stage = "next", !.i = i, !.ext = "none",
                                     !.told = told]
  <2>1. /\ new \in BatchSlot /\ new.stage = "next" /\ new.first = batch[b].first
        /\ new.i = i /\ new.count = batch[b].count /\ new.sent = batch[b].sent
        /\ new.told = told /\ new.clean = batch[b].clean
    BY <1>2 DEF BatchSlot, BatchStages, Exts
  <2>2. batch' = [batch EXCEPT ![b] = new]
    BY <1>3, Zenon DEF BatchInv, SlotsOK
  <2> HIDE DEF new
  <2>3. SlotOK(b, new)
    BY <1>1, <1>2, <2>1, ToldOK
  <2>4. Kept(batch[b], new)
    BY <1>2, <2>1 DEF Kept
  <2> QED
    BY <1>1, <2>1, <2>2, <2>3, <2>4, StepKeeps
<1>4. CASE batch' = [batch EXCEPT ![b].stage = "closing", ![b].aborted = TRUE]
  BY <1>1, <1>4, AbortKeeps
<1> QED
  BY <1>3, <1>4 DEF Complain

\* A slot is freed.
LEMMA FreeKeeps ==
  ASSUME BatchInv, NEW b \in Batches, batch' = [batch EXCEPT ![b] = Idle], files' = files
  PROVE  BatchInv'
<1>1. /\ SlotsOK' /\ batch'[b] = Idle
      /\ \A c \in Batches \ {b} : batch'[c] = batch[c]
  BY IdleSlot, OneSlotKeeps DEF BatchInv
<1>2. Idle.sent = {} /\ Idle.clean = FALSE
  BY DEF Idle
<1>3. FilesOK' /\ OwnOK'
  BY <1>1, <1>2, NothingSentKeeps, ShrunkKeeps DEF BatchInv, Shrunk
<1>4. \A c \in Batches : OriginOK(c, batch'[c], files')
  BY <1>1, <1>2 DEF BatchInv, OriginsOK, OriginOK
<1>5. OriginsOK'
  BY <1>4 DEF OriginsOK, OriginOK, Indices, Size, Origin, LinkAt
<1> QED
  BY <1>1, <1>3, <1>5 DEF BatchInv

\* The steps that leave the files alone and only move the batch on.
LEMMA QuietKeeps ==
  ASSUME BatchInv, NEW b \in Batches,
         Resolve(b) \/ Abort(b) \/ EndOfLinks(b) \/ Still(b) \/ Fail(b) \/ Close(b) \/ Leave(b)
  PROVE  BatchInv'
<1>1. batch[b] \in BatchSlot /\ SlotOK(b, batch[b])
  BY DEF BatchInv, SlotsOK
<1>2. files' = files /\ Shrunk
  BY DEF Resolve, Abort, EndOfLinks, Still, Fail, Close, Leave, Shrunk
<1> USE DEF BatchStages, Working, Beginning, Carrying
<1>3. CASE Resolve(b)
  <2>1. batch[b].stage = "next" /\ batch[b].i < Size(b) /\ Move(b, "download")
    BY <1>3 DEF Resolve, At
  <2> QED
    BY <1>2, <2>1, StageKeeps
<1>4. CASE Abort(b)
  <2>1. /\ batch[b].stage = "next"
        /\ batch' = [batch EXCEPT ![b].stage = "closing", ![b].aborted = TRUE]
    BY <1>4 DEF Abort, At
  <2> QED
    BY <1>2, <2>1, AbortKeeps
<1>5. CASE EndOfLinks(b)
  <2>1. batch[b].stage = "next" /\ Move(b, "closing")
    BY <1>5 DEF EndOfLinks, At
  <2> QED
    BY <1>2, <2>1, StageKeeps
<1>6. CASE Still(b)
  <2>1. batch[b].stage = "still" /\ Move(b, "upload")
    BY <1>6 DEF Still, At
  <2>2. batch[b].i < Size(b)
    BY <1>1, <2>1 DEF SlotOK
  <2> QED
    BY <1>2, <2>1, <2>2, StageKeeps
<1>7. CASE Fail(b)
  <2>1. batch[b].stage \in {"download", "still", "upload"} /\ Move(b, "failed")
    BY <1>7 DEF Fail
  <2>2. batch[b].i < Size(b)
    BY <1>1, <2>1 DEF SlotOK
  <2> QED
    BY <1>2, <2>1, <2>2, StageKeeps
<1>8. CASE Close(b) /\ Move(b, "over")
  BY <1>2, <1>8, StageKeeps DEF Close, At
<1>9. CASE batch' = [batch EXCEPT ![b] = Idle]
  BY <1>2, <1>9, FreeKeeps
<1> QED
  BY <1>3, <1>4, <1>5, <1>6, <1>7, <1>8, <1>9 DEF Close, Leave

LEMMA RestartKeeps ==
  ASSUME BatchInv, Restart
  PROVE  BatchInv'
<1>1. batch' = [b \in Batches |-> Idle] /\ files' = files
  BY DEF Restart
<1>2. SlotsOK'
  BY <1>1, IdleSlot DEF SlotsOK
<1>3. Idle.sent = {} /\ Idle.clean = FALSE
  BY DEF Idle
<1>4. FilesOK' /\ OwnOK'
  BY <1>1, <1>3, NothingSentKeeps, ShrunkKeeps DEF BatchInv, Shrunk
<1>5. OriginsOK'
  BY <1>1, <1>3 DEF OriginsOK, OriginOK
<1> QED
  BY <1>2, <1>4, <1>5 DEF BatchInv

LEMMA BatchInvStep == BatchInv /\ [Next]_vars => BatchInv'
<1> SUFFICES ASSUME BatchInv, [Next]_vars PROVE BatchInv'
  OBVIOUS
<1>1. ASSUME NEW b \in Batches, NEW first \in Starts, first <= Size(b) + 1, Start(b, first)
      PROVE  BatchInv'
  BY <1>1, StartKeeps
<1>2. ASSUME NEW b \in Batches, Proceed(b) \/ Leave(b) PROVE BatchInv'
  BY <1>2, QuietKeeps, DownloadKeeps, UploadKeeps, CleanDocumentKeeps, CleanVideoKeeps,
     ComplainKeeps DEF Proceed
<1>3. CASE Restart
  BY <1>3, RestartKeeps
<1>4. CASE UNCHANGED vars
  <2>1. batch' = batch /\ files' = files
    BY <1>4 DEF vars
  <2> QED
    BY <2>1 DEF BatchInv, SlotsOK, FilesOK, OriginsOK, OriginOK, OwnOK, Explains
<1> QED
  BY <1>1, <1>2, <1>3, <1>4 DEF Next

\* The inductive invariant is one.
THEOREM BatchInvariance == Spec => []BatchInv
BY BatchInvInit, BatchInvStep, PTL DEF Spec

-----------------------------------------------------------------------------
(* What a batch leaves behind.                                             *)

SentName(b, s) == <<s.number, LinkAt(b, s.i).title, s.ext>>

\* A name that the current link of a batch at work may have.
Current(b, n) ==
  batch[b].stage \in Working /\ \E ext : n = FileAs(b, ext)

\* What is sent and done with, and under a title of the batch's own, has left
\* neither file nor still.
GoneOK(b) ==
  \A s \in batch[b].sent :
    (s.i < batch[b].i /\ s.i \notin batch[b].told /\ OwnTitle(b, LinkAt(b, s.i).title))
      => SentName(b, s) \notin DOMAIN files \cup stills

\* What the stages tell: of the kind of a still's link, of the end of the loop,
\* and of the number under which the current link was sent.
StageOK(b, q) ==
  /\ q.stage = "still" => ~IsDocument(LinkAt(b, q.i))
  /\ q.stage \in {"closing", "over"} /\ ~q.aborted => q.i >= Size(b)
  /\ q.stage = "cleanup" => 
       \A s \in q.sent : s.i = q.i => s.number = q.count /\ s.ext = q.ext

CleanInv ==
  /\ \A n \in stills : n[3] # "pdf"
  /\ \A b \in Batches : StageOK(b, batch[b]) /\ GoneOK(b)

LEMMA CleanInvInit == Init => CleanInv
BY DEF Init, CleanInv, StageOK, GoneOK, Idle

\* A name that a batch at work gives a file is none of what is done with.
LEMMA OthersName ==
  ASSUME SlotsOK, NEW b \in Batches, NEW c \in Batches, NEW n, Current(c, n),
         NEW s \in batch[b].sent, s.i < batch[b].i, s.i \notin batch[b].told,
         OwnTitle(b, LinkAt(b, s.i).title)
  PROVE  SentName(b, s) # n
<1>0. PICK ext : n = FileAs(c, ext) /\ batch[c].stage \in Working
  BY DEF Current
<1>1. /\ batch[b] \in BatchSlot /\ SlotOK(b, batch[b])
      /\ batch[c] \in BatchSlot /\ SlotOK(c, batch[c])
  BY DEF SlotsOK
<1>2. CASE b = c
  <2>1. s.number < batch[b].count /\ s.number \in Nat /\ batch[b].count \in Nat
    BY <1>1 DEF SlotOK, BatchSlot, Sendings
  <2>2. s.number # batch[c].count
    BY <1>2, <2>1
  <2> QED
    BY <1>0, <2>2 DEF SentName, FileAs
<1>3. CASE b # c
  <2> PICK i \in Int : i = batch[c].i
    BY <1>1 DEF BatchSlot
  <2> DEFINE k == IF i < 0 THEN Size(c) + i + 1 ELSE i + 1
  <2>1. /\ i \in Int /\ batch[c].first \in Int /\ -1 <= batch[c].first
        /\ batch[c].first <= i /\ i < Size(c) /\ Size(c) \in Nat /\ Size(c) > 0
    BY <1>0, <1>1, SizeType DEF BatchSlot, SlotOK, Working
  <2>2. k \in 1 .. Size(c)
    BY <2>1
  <2>3. Link(c) = LinksOf[c][k]
    BY DEF Link, LinkAt
  <2>4. Link(c).title # LinkAt(b, s.i).title
    BY <1>3, <2>2, <2>3 DEF OwnTitle
  <2> QED
    BY <1>0, <2>4 DEF SentName, FileAs
<1> QED
  BY <1>2, <1>3

\* A step of b, if it adds no file but that of its link, and if what it is done
\* with from now on is gone.
LEMMA CleanKeeps ==
  ASSUME SlotsOK, CleanInv, NEW b \in Batches, NEW new, StageOK(b, new),
         batch'[b] = new, \A c \in Batches \ {b} : batch'[c] = batch[c],
         \A n \in DOMAIN files' \cup stills' :
           n \in DOMAIN files \cup stills \/ Current(b, n),
         \A n \in stills' : n[3] # "pdf",
         \A s \in new.sent :
           s.i < new.i /\ s.i \notin new.told =>
             \/ s \in batch[b].sent /\ s.i < batch[b].i /\ s.i \notin batch[b].told
             \/ SentName(b, s) \notin DOMAIN files' \cup stills'
  PROVE  CleanInv'
<1>1. \A c \in Batches : StageOK(c, batch'[c])
  BY DEF CleanInv
<1>2. ASSUME NEW c \in Batches, NEW s \in batch[c].sent, s.i < batch[c].i,
             s.i \notin batch[c].told, OwnTitle(c, LinkAt(c, s.i).title)
      PROVE  SentName(c, s) \notin DOMAIN files' \cup stills'
  <2>1. SentName(c, s) \notin DOMAIN files \cup stills
    BY <1>2 DEF CleanInv, GoneOK
  <2>2. \A n : Current(b, n) => SentName(c, s) # n
    BY <1>2, OthersName
  <2> QED
    BY <2>1, <2>2
<1>3. \A c \in Batches :
        \A s \in batch'[c].sent :
          (s.i < batch'[c].i /\ s.i \notin batch'[c].told /\ OwnTitle(c, LinkAt(c, s.i).title))
            => SentName(c, s) \notin DOMAIN files' \cup stills'
  BY <1>2
<1> QED
  BY <1>1, <1>3 DEF CleanInv, GoneOK

\* Steps that move a batch to another stage and add no file but its own.
LEMMA MoveClean ==
  ASSUME SlotsOK, CleanInv, NEW b \in Batches, NEW stage \in BatchStages, Move(b, stage),
         stage = "still" => ~IsDocument(Link(b)),
         stage \in {"closing", "over"} /\ ~batch[b].aborted => batch[b].i >= Size(b),
         stage # "cleanup",
         \A n \in DOMAIN files' \cup stills' :
           n \in DOMAIN files \cup stills \/ Current(b, n),
         \A n \in stills' : n[3] # "pdf"
  PROVE  CleanInv'
<1> DEFINE new == [batch[b] EXCEPT !.stage = stage]
<1>1. batch[b] \in BatchSlot /\ batch \in [Batches -> BatchSlot]
  BY DEF SlotsOK
<1>2. /\ new.stage = stage /\ new.i = batch[b].i /\ new.sent = batch[b].sent
      /\ new.told = batch[b].told /\ new.aborted = batch[b].aborted
  BY <1>1, Moved
<1>3. batch' = [batch EXCEPT ![b] = new]
  BY <1>1, Zenon DEF Move
<1> HIDE DEF new
<1>4. batch'[b] = new /\ \A c \in Batches \ {b} : batch'[c] = batch[c]
  BY <1>1, <1>3
<1>5. StageOK(b, new)
  BY <1>2 DEF StageOK, Link
<1> QED
  BY <1>2, <1>4, <1>5, CleanKeeps

LEMMA AbortClean ==
  ASSUME SlotsOK, CleanInv, NEW b \in Batches, files' = files, stills' = stills,
         batch' = [batch EXCEPT ![b].stage = "closing", ![b].aborted = TRUE]
  PROVE  CleanInv'
<1> DEFINE new == [batch[b] EXCEPT !.stage = "closing", !.aborted = TRUE]
<1>1. batch[b] \in BatchSlot /\ batch \in [Batches -> BatchSlot]
  BY DEF SlotsOK
<1>2. /\ new.stage = "closing" /\ new.i = batch[b].i /\ new.sent = batch[b].sent
      /\ new.told = batch[b].told /\ new.aborted = TRUE
  BY <1>1, AbortedOne
<1>3. batch' = [batch EXCEPT ![b] = new]
  BY <1>1, Zenon
<1> HIDE DEF new
<1>4. batch'[b] = new /\ \A c \in Batches \ {b} : batch'[c] = batch[c]
  BY <1>1, <1>3
<1>5. StageOK(b, new)
  BY <1>2 DEF StageOK
<1>6. \A n \in stills' : n[3] # "pdf"
  BY DEF CleanInv
<1> QED
  BY <1>2, <1>4, <1>5, <1>6, CleanKeeps

\* The link is done with, and its file is gone.
LEMMA AdvanceClean ==
  ASSUME SlotsOK, CleanInv, NEW b \in Batches, batch[b].stage = "cleanup",
         Advance(b, batch[b].count + 1),
         DOMAIN files' \cup stills' \subseteq DOMAIN files \cup stills, stills' \subseteq stills,
         Name(b) \notin DOMAIN files' \cup stills'
  PROVE  CleanInv'
<1>1. /\ batch[b] \in BatchSlot /\ SlotOK(b, batch[b]) /\ StageOK(b, batch[b])
      /\ batch \in [Batches -> BatchSlot]
  BY DEF SlotsOK, CleanInv
<1>2. PICK i \in Int, count \in Nat : i = batch[b].i + 1 /\ count = batch[b].count + 1
  BY <1>1 DEF BatchSlot
<1> DEFINE new == [batch[b] EXCEPT !.stage = "next", !.i = i, !.count = count,
                                   !.ext = "none"]
<1>3. /\ new.stage = "next" /\ new.i = i /\ new.sent = batch[b].sent
      /\ new.told = batch[b].told
  BY <1>1 DEF BatchSlot
<1>4. batch' = [batch EXCEPT ![b] = new]
  BY <1>1, <1>2, Zenon DEF Advance
<1> HIDE DEF new
<1>5. batch'[b] = new /\ \A c \in Batches \ {b} : batch'[c] = batch[c]
  BY <1>1, <1>4
<1>6. StageOK(b, new)
  BY <1>3 DEF StageOK
<1>7. ASSUME NEW s \in new.sent, s.i < new.i, s.i \notin new.told
      PROVE  \/ s \in batch[b].sent /\ s.i < batch[b].i /\ s.i \notin batch[b].told
             \/ SentName(b, s) \notin DOMAIN files' \cup stills'
  <2>1. CASE s.i = batch[b].i
    <3>1. s.number = batch[b].count /\ s.ext = batch[b].ext
      BY <1>1, <1>3, <1>7, <2>1 DEF StageOK
    <3>2. SentName(b, s) = Name(b)
      BY <2>1, <3>1 DEF SentName, Name, FileAs, Link
    <3> QED
      BY <3>2
  <2>2. CASE s.i # batch[b].i
    <3>1. s.i \in Int /\ batch[b].i \in Int
      BY <1>1, <1>3, <1>7 DEF BatchSlot, Sendings
    <3> QED
      BY <1>2, <1>3, <1>7, <2>2, <3>1
  <2> QED
    BY <2>1, <2>2
<1>8. \A n \in stills' : n[3] # "pdf"
  BY DEF CleanInv
<1> QED
  BY <1>5, <1>6, <1>7, <1>8, CleanKeeps

LEMMA StartClean ==
  ASSUME SlotsOK, CleanInv, NEW b \in Batches, NEW first \in Starts, Start(b, first)
  PROVE  CleanInv'
<1> PICK count : count = IF Size(b) = 1 THEN 1 ELSE first
  OBVIOUS
<1> PICK i : i = count - 1
  OBVIOUS
<1> DEFINE new == [Idle EXCEPT !.stage = "next", !.first = i, !.i = i, !.count = count,
                               !.clean = DOMAIN files = {}]
<1>1. /\ batch' = [batch EXCEPT ![b] = new] /\ files' = files /\ stills' = stills
      /\ batch \in [Batches -> BatchSlot]
  BY DEF Start, SlotsOK
<1>2. new.stage = "next" /\ new.sent = {}
  BY DEF Idle
<1> HIDE DEF new
<1>3. batch'[b] = new /\ \A c \in Batches \ {b} : batch'[c] = batch[c]
  BY <1>1
<1>4. StageOK(b, new) /\ \A n \in stills' : n[3] # "pdf"
  BY <1>1, <1>2 DEF StageOK, CleanInv
<1> QED
  BY <1>1, <1>2, <1>3, <1>4, CleanKeeps

LEMMA DownloadClean ==
  ASSUME SlotsOK, CleanInv, NEW b \in Batches, Download(b)
  PROVE  CleanInv'
<1> DEFINE stage == IF IsDocument(Link(b)) THEN "upload" ELSE "still"
           ext == IF IsDocument(Link(b)) THEN "pdf" ELSE Found(b, DOMAIN files')
           new == [batch[b] EXCEPT !.stage = stage, !.ext = ext]
<1>1. /\ batch[b].stage \in Working /\ files' \in Fetched(b) /\ stills' = stills
      /\ batch' = [batch EXCEPT ![b].stage = stage, ![b].ext = ext]
  BY DEF Download, At, Working
<1>2. batch[b] \in BatchSlot /\ batch \in [Batches -> BatchSlot]
  BY DEF SlotsOK
<1>3. batch' = [batch EXCEPT ![b] = new]
  BY <1>1, <1>2, Zenon
<1>4. stage \in {"still", "upload"} /\ (stage = "still" => ~IsDocument(Link(b)))
  OBVIOUS
<1> HIDE DEF stage, ext
<1>5. /\ new.stage = stage /\ new.i = batch[b].i /\ new.sent = batch[b].sent
      /\ new.told = batch[b].told
  BY <1>2 DEF BatchSlot
<1> HIDE DEF new
<1>6. batch'[b] = new /\ \A c \in Batches \ {b} : batch'[c] = batch[c]
  BY <1>2, <1>3
<1>7. StageOK(b, new)
  BY <1>4, <1>5 DEF StageOK, Link
<1>8. \A n \in DOMAIN files' \cup stills' : n \in DOMAIN files \cup stills \/ Current(b, n)
  BY <1>1, FetchedFiles DEF Current
<1>9. \A n \in stills' : n[3] # "pdf"
  BY <1>1 DEF CleanInv
<1> QED
  BY <1>5, <1>6, <1>7, <1>8, <1>9, CleanKeeps

LEMMA StillClean ==
  ASSUME SlotsOK, CleanInv, NEW b \in Batches, Still(b)
  PROVE  CleanInv'
<1>1. /\ batch[b].stage = "still" /\ Move(b, "upload") /\ files' = files
      /\ stills' \subseteq stills \cup {Name(b)}
  BY DEF Still, At
<1>2. Name(b)[3] # "pdf"
  <2>1. ~IsDocument(LinkAt(b, batch[b].i))
    BY <1>1 DEF CleanInv, StageOK
  <2>2. batch[b].ext # "pdf"
    BY <1>1, <2>1 DEF SlotsOK, SlotOK, Carrying
  <2> QED
    BY <2>2 DEF Name, FileAs
<1>3. \A n \in stills' : n[3] # "pdf"
  BY <1>1, <1>2 DEF CleanInv
<1>4. \A n \in DOMAIN files' \cup stills' : n \in DOMAIN files \cup stills \/ Current(b, n)
  BY <1>1 DEF Current, Name, Working
<1> QED
  BY <1>1, <1>3, <1>4, MoveClean DEF BatchStages

LEMMA UploadClean ==
  ASSUME BatchInv, CleanInv, NEW b \in Batches, Upload(b)
  PROVE  CleanInv'
<1> DEFINE s == [i |-> batch[b].i, number |-> batch[b].count, ext |-> batch[b].ext,
                 url |-> files[Name(b)]]
           new == [batch[b] EXCEPT !.stage = "cleanup", !.sent = @ \cup {s}]
<1>1. /\ batch[b].stage = "upload" /\ Name(b) \in DOMAIN files
      /\ files' = files /\ stills' = stills
      /\ batch' = [batch EXCEPT ![b].stage = "cleanup", ![b].sent = @ \cup {s}]
  BY DEF Upload, At
<1>2. /\ SlotsOK /\ FilesOK /\ batch[b] \in BatchSlot /\ SlotOK(b, batch[b])
      /\ batch \in [Batches -> BatchSlot]
  BY DEF BatchInv, SlotsOK
<1>3. batch' = [batch EXCEPT ![b] = new]
  BY <1>1, <1>2, Zenon
<1>4. s.i = batch[b].i /\ s.number = batch[b].count /\ s.ext = batch[b].ext
  OBVIOUS
<1> HIDE DEF s
<1>5. /\ new.stage = "cleanup" /\ new.i = batch[b].i /\ new.count = batch[b].count
      /\ new.ext = batch[b].ext /\ new.sent = batch[b].sent \cup {s} /\ new.told = batch[b].told
  BY <1>2 DEF BatchSlot
<1> HIDE DEF new
<1>6. batch'[b] = new /\ \A c \in Batches \ {b} : batch'[c] = batch[c]
  BY <1>2, <1>3
<1>7. \A t \in batch[b].sent : t.i # batch[b].i
  <2>1. /\ batch[b].i \in Int /\ \A t \in batch[b].sent : t.i \in Int /\ t.i < batch[b].i
    BY <1>1, <1>2 DEF SlotOK, Beginning, BatchSlot, Sendings
  <2> QED
    BY <2>1
<1>8. StageOK(b, new)
  BY <1>4, <1>5, <1>7 DEF StageOK
<1>9. ~(s.i < new.i)
  BY <1>2, <1>4, <1>5 DEF BatchSlot
<1>10. \A n \in stills' : n[3] # "pdf"
  BY <1>1 DEF CleanInv
<1> QED
  BY <1>1, <1>2, <1>5, <1>6, <1>8, <1>9, <1>10, CleanKeeps

\* The end of a document: its file is removed, and it never had a still.
LEMMA CleanDocumentClean ==
  ASSUME SlotsOK, CleanInv, NEW b \in Batches, CleanDocument(b)
  PROVE  CleanInv'
<1>1. /\ batch[b].stage = "cleanup" /\ DOMAIN files' = DOMAIN files \ {Name(b)}
      /\ stills' = stills /\ batch[b].ext = "pdf"
  BY DEF CleanDocument, At, Restrict, SlotsOK, SlotOK, Carrying, Link
<1>2. Name(b) \notin stills /\ \A n \in stills' : n[3] # "pdf"
  BY <1>1 DEF CleanInv, Name, FileAs
<1>3. CASE Advance(b, batch[b].count + 1)
  BY <1>1, <1>2, <1>3, AdvanceClean
<1>4. CASE batch' = [batch EXCEPT ![b].stage = "failed", ![b].count = @ + 1]
  <2> PICK count : count = batch[b].count + 1
    OBVIOUS
  <2> DEFINE new == [batch[b] EXCEPT !.stage = "failed", !.count = count]
  <2>1. batch[b] \in BatchSlot /\ batch \in [Batches -> BatchSlot]
    BY DEF SlotsOK
  <2>2. /\ new.stage = "failed" /\ new.i = batch[b].i /\ new.sent = batch[b].sent
        /\ new.told = batch[b].told
    BY <2>1 DEF BatchSlot
  <2>3. batch' = [batch EXCEPT ![b] = new]
    BY <1>4, <2>1, Zenon
  <2> HIDE DEF new
  <2>4. batch'[b] = new /\ \A c \in Batches \ {b} : batch'[c] = batch[c]
    BY <2>1, <2>3
  <2>5. StageOK(b, new)
    BY <2>2 DEF StageOK
  <2> QED
    BY <1>1, <1>2, <2>2, <2>4, <2>5, CleanKeeps
<1> QED
  BY <1>3, <1>4 DEF CleanDocument

\* The end of a video: it only counts if file and still were there to remove.
LEMMA CleanVideoClean ==
  ASSUME SlotsOK, CleanInv, NEW b \in Batches, CleanVideo(b)
  PROVE  CleanInv'
<1>1. /\ batch[b].stage = "cleanup" /\ DOMAIN files' = DOMAIN files \ {Name(b)}
      /\ stills' = IF Name(b) \in DOMAIN files THEN stills \ {Name(b)} ELSE stills
  BY DEF CleanVideo, At, Restrict
<1>2. \A n \in stills' : n[3] # "pdf"
  BY <1>1 DEF CleanInv
<1>3. CASE Name(b) \in DOMAIN files /\ Advance(b, batch[b].count + 1)
  BY <1>1, <1>3, AdvanceClean
<1>4. CASE Move(b, "failed")
  BY <1>1, <1>2, <1>4, MoveClean DEF BatchStages
<1> QED
  BY <1>3, <1>4 DEF CleanVideo

LEMMA ComplainClean ==
  ASSUME BatchInv, CleanInv, NEW b \in Batches, Complain(b)
  PROVE  CleanInv'
<1>1. /\ batch[b].stage = "failed" /\ files' = files /\ stills' = stills
      /\ \A n \in stills' : n[3] # "pdf"
  BY DEF Complain, At, CleanInv
<1>2. SlotsOK /\ batch[b] \in BatchSlot /\ batch \in [Batches -> BatchSlot]
  BY DEF BatchInv, SlotsOK
<1>3. CASE batch' = [batch EXCEPT ![b].stage = "next", ![b].i = @ + 1, ![b].ext = "none",
                                  ![b].told = @ \cup {batch[b].i}]
  <2>1. batch[b].i + 1 \in Int /\ batch[b].told \cup {batch[b].i} \in SUBSET Int
    BY <1>2 DEF BatchSlot
  <2> PICK i \in Int, told \in SUBSET Int :
        i = batch[b].i + 1 /\ told = batch[b].told \cup {batch[b].i}
    BY <2>1, Zenon
  <2> DEFINE new == [batch[b] EXCEPT !.stage = "next", !.i = i, !.ext = "none",
                                     !.told = told]
  <2>2. /\ new.stage = "next" /\ new.i = i /\ new.sent = batch[b].sent
        /\ new.told = told
    BY <1>2 DEF BatchSlot
  <2>3. batch' = [batch EXCEPT ![b] = new]
    BY <1>2, <1>3, Zenon
  <2> HIDE DEF new
  <2>4. batch'[b] = new /\ \A c \in Batches \ {b} : batch'[c] = batch[c]
    BY <1>2, <2>3
  <2>5. StageOK(b, new)
    BY <2>2 DEF StageOK
  <2>6. ASSUME NEW s \in new.sent, s.i < new.i, s.i \notin new.told
        PROVE  s \in batch[b].sent /\ s.i < batch[b].i /\ s.i \notin batch[b].told
    <3>1. s.i \in Int /\ batch[b].i \in Int /\ s.i # batch[b].i
      BY <1>2, <2>2, <2>6 DEF BatchSlot, Sendings
    <3> QED
      BY <2>2, <2>6, <3>1
  <2> QED
    BY <1>1, <1>2, <2>4, <2>5, <2>6, CleanKeeps
<1>4. CASE batch' = [batch EXCEPT ![b].stage = "closing", ![b].aborted = TRUE]
  BY <1>1, <1>2, <1>4, AbortClean
<1> QED
  BY <1>3, <1>4 DEF Complain

\* A slot is freed.
LEMMA FreeClean ==
  ASSUME SlotsOK, CleanInv, NEW b \in Batches, files' = files, stills' = stills,
         batch' = [batch EXCEPT ![b] = Idle]
  PROVE  CleanInv'
<1>1. batch'[b] = Idle /\ \A c \in Batches \ {b} : batch'[c] = batch[c]
  BY DEF SlotsOK
<1>2. Idle.stage = "idle" /\ Idle.sent = {}
  BY DEF Idle
<1>3. StageOK(b, Idle) /\ \A n \in stills' : n[3] # "pdf"
  BY <1>2 DEF StageOK, CleanInv
<1> QED
  BY <1>1, <1>2, <1>3, CleanKeeps

LEMMA QuietClean ==
  ASSUME SlotsOK, CleanInv, NEW b \in Batches,
         Resolve(b) \/ Abort(b) \/ EndOfLinks(b) \/ Fail(b) \/ Close(b) \/ Leave(b)
  PROVE  CleanInv'
<1>1. files' = files /\ stills' = stills /\ \A n \in stills' : n[3] # "pdf"
  BY DEF Resolve, Abort, EndOfLinks, Fail, Close, Leave, CleanInv
<1>2. CASE Resolve(b)
  BY <1>1, <1>2, MoveClean DEF Resolve, BatchStages
<1>3. CASE Abort(b)
  BY <1>1, <1>3, AbortClean DEF Abort
<1>4. CASE EndOfLinks(b)
  BY <1>1, <1>4, MoveClean DEF EndOfLinks, BatchStages
<1>5. CASE Fail(b)
  BY <1>1, <1>5, MoveClean DEF Fail, BatchStages
<1>6. CASE Close(b) /\ Move(b, "over")
  <2>1. ~batch[b].aborted => batch[b].i >= Size(b)
    BY <1>6 DEF Close, At, CleanInv, StageOK
  <2> QED
    BY <1>1, <1>6, <2>1, MoveClean DEF BatchStages
<1>7. CASE batch' = [batch EXCEPT ![b] = Idle]
  BY <1>1, <1>7, FreeClean
<1> QED
  BY <1>2, <1>3, <1>4, <1>5, <1>6, <1>7 DEF Close, Leave

LEMMA CleanInvStep == BatchInv /\ CleanInv /\ [Next]_vars => CleanInv'
<1> SUFFICES ASSUME BatchInv, CleanInv, [Next]_vars PROVE CleanInv'
  OBVIOUS
<1>1. SlotsOK
  BY DEF BatchInv
<1>2. ASSUME NEW b \in Batches, NEW first \in Starts, Start(b, first) PROVE CleanInv'
  BY <1>1, <1>2, StartClean
<1>3. ASSUME NEW b \in Batches, Proceed(b) \/ Leave(b) PROVE CleanInv'
  BY <1>1, <1>3, QuietClean, DownloadClean, StillClean, UploadClean, CleanDocumentClean,
     CleanVideoClean, ComplainClean DEF Proceed
<1>4. CASE Restart
  BY <1>4 DEF Restart, CleanInv, StageOK, GoneOK, Idle
<1>5. CASE UNCHANGED vars
  BY <1>5 DEF vars, CleanInv, StageOK, GoneOK
<1> QED
  BY <1>2, <1>3, <1>4, <1>5 DEF Next

-----------------------------------------------------------------------------
(* How far a batch is from its end.                                        *)

\* Where a stage leads to on the same link.
Later(stage) ==
  {t \in BatchStages :
     \/ stage = "next" /\ t \in {"download", "closing"}
     \/ stage = "download" /\ t \in {"still", "upload", "failed"}
     \/ stage = "still" /\ t \in {"upload", "failed"}
     \/ stage = "upload" /\ t \in {"cleanup", "failed"}
     \/ stage = "cleanup" /\ t = "failed"
     \/ stage = "failed" /\ t = "closing"
     \/ stage = "closing" /\ t \in {"over", "idle"}
     \/ stage = "over" /\ t = "idle"}

LEMMA LeftIs ==
  ASSUME NEW size \in Int, NEW i \in Int
  PROVE  /\ LeftOf(size, "next", i) = 6 * (size - i) + 3
         /\ LeftOf(size, "download", i) = 6 * (size - i) + 2
         /\ LeftOf(size, "still", i) = 6 * (size - i) + 1
         /\ LeftOf(size, "upload", i) = 6 * (size - i)
         /\ LeftOf(size, "cleanup", i) = 6 * (size - i) - 1
         /\ LeftOf(size, "failed", i) = 6 * (size - i) - 2
         /\ LeftOf(size, "closing", i) = 2 /\ LeftOf(size, "over", i) = 1
         /\ LeftOf(size, "idle", i) = 0
<1>1. /\ DOMAIN Rank = {"next", "download", "still", "upload", "cleanup", "failed"}
      /\ Rank["next"] = 6 /\ Rank["download"] = 5 /\ Rank["still"] = 4
      /\ Rank["upload"] = 3 /\ Rank["cleanup"] = 2 /\ Rank["failed"] = 1
  BY DEF Rank
<1> QED
  BY <1>1 DEF LeftOf

LEMMA LeftType ==
  ASSUME NEW size \in Nat, NEW i \in Int, i <= size, NEW stage \in BatchStages,
         stage \in Working => i < size
  PROVE  LeftOf(size, stage, i) \in Nat /\ (stage # "idle" => LeftOf(size, stage, i) > 0)
<1> DEFINE k == 6 * (size - i)
           left(t) == LeftOf(size, t, i)
<1>1. k \in Nat /\ (stage \in Working => k >= 6)
  OBVIOUS
<1>2. /\ left("next") = k + 3 /\ left("download") = k + 2 /\ left("still") = k + 1
      /\ left("upload") = k /\ left("cleanup") = k - 1 /\ left("failed") = k - 2
      /\ left("closing") = 2 /\ left("over") = 1 /\ left("idle") = 0
  BY LeftIs
<1> HIDE DEF k
<1>3. CASE stage \in {"next", "closing", "over", "idle"}
  BY <1>1, <1>2, <1>3
<1>4. CASE stage \in Working
  BY <1>1, <1>2, <1>4 DEF Working
<1> QED
  BY <1>3, <1>4 DEF BatchStages, Working

LEMMA LaterIsNearer ==
  ASSUME NEW size \in Nat, NEW i \in Int, i <= size, NEW stage \in BatchStages,
         stage \in Working => i < size, NEW t \in Later(stage), NEW j \in Int,
         t # "idle" => j = i
  PROVE  LeftOf(size, t, j) < LeftOf(size, stage, i)
<1> DEFINE k == 6 * (size - i)
           left(s) == LeftOf(size, s, i)
<1>1. k \in Nat /\ (stage \in Working => k >= 6)
  OBVIOUS
<1>2. /\ left("next") = k + 3 /\ left("download") = k + 2 /\ left("still") = k + 1
      /\ left("upload") = k /\ left("cleanup") = k - 1 /\ left("failed") = k - 2
      /\ left("closing") = 2 /\ left("over") = 1 /\ left("idle") = 0
  BY LeftIs
<1>3. LeftOf(size, t, j) = left(t)
  <2>1. LeftOf(size, "idle", j) = 0
    BY LeftIs
  <2> QED
    BY <1>2, <2>1
<1> HIDE DEF k, left
<1>4. left(t) < left(stage)
  <2>1. CASE stage \in {"next", "closing", "over"}
    BY <1>1, <1>2, <2>1 DEF Later
  <2>2. CASE stage \in Working
    <3>1. k >= 6
      BY <1>1, <2>2
    <3> QED
      BY <1>1, <1>2, <2>2, <3>1 DEF Later, Working
  <2>3. stage # "idle"
    BY DEF Later
  <2> QED
    BY <2>1, <2>2, <2>3 DEF BatchStages, Working
<1> QED
  BY <1>3, <1>4 DEF left

LEMMA NextIsNearer ==
  ASSUME NEW size \in Nat, NEW i \in Int, NEW stage \in {"cleanup", "failed"}
  PROVE  LeftOf(size, "next", i + 1) < LeftOf(size, stage, i)
<1>1. 6 * (size - (i + 1)) + 3 < 6 * (size - i) - 2
  OBVIOUS
<1>2. i + 1 \in Int /\ 6 * (size - i) \in Int
  OBVIOUS
<1>3. LeftOf(size, "next", i + 1) = 6 * (size - (i + 1)) + 3
  BY <1>2, LeftIs
<1>4. LeftOf(size, stage, i) \in {6 * (size - i) - 1, 6 * (size - i) - 2}
  <2>1. CASE stage = "cleanup"
    BY <2>1, LeftIs
  <2>2. CASE stage = "failed"
    BY <2>2, LeftIs
  <2> QED
    BY <2>1, <2>2
<1> QED
  BY <1>1, <1>2, <1>3, <1>4

\* Any step of a batch moves it to a later stage of its link, or to the next
\* link, and moves no other batch.
LEMMA StepOfOne ==
  ASSUME BatchInv, NEW b \in Batches, Proceed(b) \/ Leave(b)
  PROVE  /\ \A c \in Batches \ {b} : batch'[c] = batch[c]
         /\ \/ /\ batch'[b].stage \in Later(batch[b].stage)
               /\ batch'[b].i \in Int
               /\ batch'[b].stage # "idle" => batch'[b].i = batch[b].i
            \/ /\ batch[b].stage \in {"cleanup", "failed"}
               /\ batch'[b].stage = "next" /\ batch'[b].i = batch[b].i + 1
<1> DEFINE Goes(stage) == /\ \A c \in Batches \ {b} : batch'[c] = batch[c]
                          /\ batch'[b].stage = stage /\ batch'[b].i = batch[b].i
<1>1. batch \in [Batches -> BatchSlot] /\ batch[b] \in BatchSlot /\ batch[b].i \in Int
  BY DEF BatchInv, SlotsOK, BatchSlot
<1>2. ASSUME NEW stage, Move(b, stage)
      PROVE  Goes(stage)
  BY <1>1, <1>2 DEF Move, BatchSlot
<1>3. ASSUME NEW count, Advance(b, count)
      PROVE  /\ \A c \in Batches \ {b} : batch'[c] = batch[c]
             /\ batch'[b].stage = "next" /\ batch'[b].i = batch[b].i + 1
  BY <1>1, <1>3 DEF Advance, BatchSlot
<1>4. ASSUME batch' = [batch EXCEPT ![b].stage = "closing", ![b].aborted = TRUE]
      PROVE  Goes("closing")
  BY <1>1, <1>4 DEF BatchSlot
<1>5. ASSUME batch' = [batch EXCEPT ![b] = Idle]
      PROVE  /\ \A c \in Batches \ {b} : batch'[c] = batch[c]
             /\ batch'[b].stage = "idle" /\ batch'[b].i = 0
  BY <1>1, <1>5 DEF Idle
<1> HIDE DEF Goes
<1> USE DEF Later, BatchStages, At
<1>6. CASE Resolve(b)
  BY <1>1, <1>2, <1>6 DEF Resolve, Goes
<1>7. CASE Abort(b)
  BY <1>1, <1>4, <1>7 DEF Abort, Goes
<1>8. CASE EndOfLinks(b)
  BY <1>1, <1>2, <1>8 DEF EndOfLinks, Goes
<1>9. CASE Download(b)
  <2>1. Goes("still") \/ Goes("upload")
    BY <1>1, <1>9 DEF Download, BatchSlot, Goes
  <2> QED
    BY <1>1, <1>9, <2>1 DEF Download, Goes
<1>10. CASE Still(b)
  BY <1>1, <1>2, <1>10 DEF Still, Goes
<1>11. CASE Upload(b)
  <2>1. Goes("cleanup")
    BY <1>1, <1>11 DEF Upload, BatchSlot, Goes
  <2> QED
    BY <1>1, <1>11, <2>1 DEF Upload, Goes
<1>12. CASE Fail(b)
  BY <1>1, <1>2, <1>12 DEF Fail, Goes
<1>13. CASE CleanDocument(b)
  <2>1. CASE Advance(b, batch[b].count + 1)
    BY <1>3, <1>13, <2>1 DEF CleanDocument
  <2>2. CASE batch' = [batch EXCEPT ![b].stage = "failed", ![b].count = @ + 1]
    <3>1. Goes("failed")
      BY <1>1, <2>2 DEF BatchSlot, Goes
    <3> QED
      BY <1>1, <1>13, <3>1 DEF CleanDocument, Goes
  <2> QED
    BY <1>13, <2>1, <2>2 DEF CleanDocument
<1>14. CASE CleanVideo(b)
  <2>1. CASE Advance(b, batch[b].count + 1)
    BY <1>3, <1>14, <2>1 DEF CleanVideo
  <2>2. CASE Move(b, "failed")
    BY <1>1, <1>2, <1>14, <2>2 DEF CleanVideo, Goes
  <2> QED
    BY <1>14, <2>1, <2>2 DEF CleanVideo
<1>15. CASE Complain(b)
  <2>1. CASE batch' = [batch EXCEPT ![b].stage = "next", ![b].i = @ + 1, ![b].ext = "none",
                                    ![b].told = @ \cup {batch[b].i}]
    <3>1. /\ \A c \in Batches \ {b} : batch'[c] = batch[c]
          /\ batch'[b].stage = "next" /\ batch'[b].i = batch[b].i + 1
      BY <1>1, <2>1 DEF BatchSlot
    <3> QED
      BY <1>15, <3>1 DEF Complain
  <2>2. CASE batch' = [batch EXCEPT ![b].stage = "closing", ![b].aborted = TRUE]
    BY <1>1, <1>4, <1>15, <2>2 DEF Complain, Goes
  <2> QED
    BY <1>15, <2>1, <2>2 DEF Complain
<1>16. CASE Close(b)
  <2>1. CASE Move(b, "over")
    BY <1>1, <1>2, <1>16, <2>1 DEF Close, Goes
  <2>2. CASE batch' = [batch EXCEPT ![b] = Idle]
    BY <1>5, <1>16, <2>2 DEF Close
  <2> QED
    BY <1>16, <2>1, <2>2 DEF Close
<1>17. CASE Leave(b)
  BY <1>5, <1>17 DEF Leave
<1> QED
  BY <1>6, <1>7, <1>8, <1>9, <1>10, <1>11, <1>12, <1>13, <1>14, <1>15, <1>16, <1>17
     DEF Proceed

-----------------------------------------------------------------------------
(* Theorems.                                                               *)

\* At every stage of any batch the index is that of a link, or the end, and the
\* number has not run ahead of it (main.py:365-443).
THEOREM TypesCorrect == Spec => []TypeOK
<1>1. BatchInv => TypeOK
  <2> SUFFICES ASSUME BatchInv, NEW b \in Batches
               PROVE  /\ batch[b].stage \in BatchStages
                      /\ batch[b].i \in -1 .. Size(b)
                      /\ batch[b].count \in 0 .. batch[b].i + Ahead(b)
                      /\ batch[b].told \subseteq batch[b].first .. Size(b) - 1
    BY DEF TypeOK, BatchStages
  <2>1. SlotOK(b, batch[b]) /\ batch[b] \in BatchSlot /\ Size(b) \in Nat
    BY SizeType DEF BatchInv, SlotsOK
  <2>2. /\ batch[b].stage \in BatchStages /\ batch[b].i \in Int /\ batch[b].first \in Int
        /\ batch[b].count \in Nat /\ \A j \in batch[b].told : j \in Int
    BY <2>1 DEF BatchSlot
  <2>3. batch[b].i \in -1 .. Size(b)
    BY <2>1, <2>2 DEF SlotOK
  <2>4. batch[b].count \in 0 .. batch[b].i + Ahead(b)
    BY <2>1, <2>2 DEF SlotOK, Ahead, BatchStages, Beginning
  <2>5. batch[b].told \subseteq batch[b].first .. Size(b) - 1
    BY <2>1, <2>2 DEF SlotOK
  <2> QED
    BY <2>2, <2>3, <2>4, <2>5
<1> QED
  BY <1>1, BatchInvariance, PTL

\* Every link before the current one was sent or reported as failed, whatever
\* fails and whatever other batches do to the files (main.py:365-443).
THEOREM NoneSkipped == Spec => []NothingSkipped
<1>1. BatchInv => NothingSkipped
  BY DEF BatchInv, SlotsOK, SlotOK, NothingSkipped, Done, SentFor
<1> QED
  BY <1>1, BatchInvariance, PTL

\* Of two links sent the later has the larger number, unless the earlier one was
\* reported as failed (main.py:409, 423, 436).
THEOREM NumbersInOrder == Spec => []NumbersFollowOrder
<1>1. BatchInv => NumbersFollowOrder
  BY DEF BatchInv, SlotsOK, SlotOK, NumbersFollowOrder
<1> QED
  BY <1>1, BatchInvariance, PTL

\* A chat that is sent another file than a link's own is sent a namesake's: another
\* batch's, that of a link it was told has failed, or, in a directory that was not
\* empty, an earlier one's (main.py:388-389, helper.py:68-76, 173-191).
THEOREM OwnFileIsSent == Spec => []SentOwnFile
<1>1. BatchInv => SentOwnFile
  BY DEF BatchInv, OwnOK, SentOwnFile, Indices
<1> QED
  BY <1>1, BatchInvariance, PTL

\* A batch that came to its end without a report of failure has left none of the
\* files it has sent, nor their stills, under a title of its own, whatever an
\* earlier process left (main.py:410, 424; helper.py:225-227).
THEOREM NothingLeft == Spec => []CleanWhenDone
<1>1. BatchInv /\ CleanInv => CleanWhenDone
  <2> SUFFICES ASSUME BatchInv, CleanInv, NEW b \in Batches, batch[b].stage = "over",
                      batch[b].told = {}, ~batch[b].aborted, NEW s \in batch[b].sent,
                      OwnTitle(b, LinkAt(b, s.i).title)
               PROVE  SentName(b, s) \notin DOMAIN files \cup stills
    BY DEF CleanWhenDone, At, SentName
  <2>1. batch[b].i >= Size(b)
    BY DEF CleanInv, StageOK
  <2>2. s.i < Size(b) /\ s.i \in Int /\ batch[b].i \in Int /\ Size(b) \in Nat
    BY SizeType DEF BatchInv, SlotsOK, SlotOK, BatchSlot, Sendings
  <2>3. s.i < batch[b].i
    BY <2>1, <2>2
  <2> QED
    BY <2>3 DEF CleanInv, GoneOK
<1> QED
  BY <1>1, CleanInvInit, CleanInvStep, BatchInvariance, PTL DEF Spec

\* No batch goes on for ever, however its links fail: whatever happens to a
\* batch that has begun brings it nearer to its end (main.py:365-447).
THEOREM BatchesWindUp ==
  Spec => [](\A b \in Batches : StepsLeft(b) \in Nat) /\ NearerWithEachStep
<1>1. ASSUME BatchInv, NEW b \in Batches
      PROVE  /\ Size(b) \in Nat /\ batch[b].stage \in BatchStages
             /\ batch[b].i \in Int /\ batch[b].i <= Size(b)
             /\ batch[b].stage \in Working => batch[b].i < Size(b)
             /\ StepsLeft(b) \in Nat
  <2>1. SlotOK(b, batch[b]) /\ batch[b] \in BatchSlot /\ Size(b) \in Nat /\ Size(b) > 0
    BY <1>1, SizeType DEF BatchInv, SlotsOK
  <2>2. batch[b].stage \in BatchStages /\ batch[b].i \in Int
    BY <2>1 DEF BatchSlot
  <2>3. batch[b].i <= Size(b) /\ (batch[b].stage \in Working => batch[b].i < Size(b))
    BY <2>1, <2>2 DEF SlotOK
  <2> QED
    BY <2>1, <2>2, <2>3, LeftType DEF StepsLeft
<1>2. ASSUME BatchInv, [Next]_vars, NEW b \in Batches, ~At(b, "idle"), batch'[b] # batch[b]
      PROVE  StepsLeft(b)' < StepsLeft(b)
  <2>1. /\ Size(b) \in Nat /\ batch[b].stage \in BatchStages /\ batch[b].stage # "idle"
        /\ batch[b].i \in Int /\ batch[b].i <= Size(b)
        /\ batch[b].stage \in Working => batch[b].i < Size(b)
    BY <1>1, <1>2 DEF At
  <2>2. StepsLeft(b)' = LeftOf(Size(b), batch'[b].stage, batch'[b].i)
    BY DEF StepsLeft, Size
  <2>3. CASE Proceed(b) \/ Leave(b)
    <3>1. CASE /\ batch'[b].stage \in Later(batch[b].stage) /\ batch'[b].i \in Int
               /\ batch'[b].stage # "idle" => batch'[b].i = batch[b].i
      BY <2>1, <2>2, <3>1, LaterIsNearer DEF StepsLeft
    <3>2. CASE /\ batch[b].stage \in {"cleanup", "failed"}
               /\ batch'[b].stage = "next" /\ batch'[b].i = batch[b].i + 1
      BY <2>1, <2>2, <3>2, NextIsNearer DEF StepsLeft
    <3> QED
      BY <1>2, <2>3, <3>1, <3>2, StepOfOne
  <2>4. CASE Restart
    <3>1. batch'[b].stage = "idle" /\ batch'[b].i = 0
      BY <2>4 DEF Restart, Idle
    <3>2. LeftOf(Size(b), batch'[b].stage, batch'[b].i) = 0
      BY <2>1, <3>1, LeftIs
    <3> QED
      BY <2>1, <2>2, <3>2, LeftType DEF StepsLeft
  <2>5. ASSUME NEW c \in Batches \ {b}, Proceed(c) \/ Leave(c)
        PROVE  FALSE
    BY <1>2, <2>5, StepOfOne
  <2>6. ASSUME NEW c \in Batches, NEW first \in Starts, Start(c, first)
        PROVE  FALSE
    <3>1. c # b
      BY <1>2, <2>6 DEF Start
    <3> QED
      BY <1>2, <2>6, <3>1 DEF Start, BatchInv, SlotsOK
  <2> QED
    BY <1>2, <2>3, <2>4, <2>5, <2>6 DEF Next, vars
<1>3. BatchInv => \A b \in Batches : StepsLeft(b) \in Nat
  BY <1>1
<1>4. BatchInv /\ [Next]_vars =>
        [\A b \in Batches :
           ~At(b, "idle") /\ batch'[b] # batch[b] => StepsLeft(b)' < StepsLeft(b)]_vars
  BY <1>2
<1> QED
  BY <1>3, <1>4, BatchInvariance, PTL DEF Spec, NearerWithEachStep
=============================================================================
