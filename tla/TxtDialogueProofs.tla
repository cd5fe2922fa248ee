------------------------- MODULE TxtDialogueProofs -------------------------
(***************************************************************************)
(* Theorems about TxtDialogue, for any number of chats, workers, names,    *)
(* answers and dialogues.                                                  *)
(*                                                                         *)
(* The inductive invariant has one part for each thing the dialogues       *)
(* share: the listeners of their chats, the lists in the directory, the    *)
(* picture, the workers.                                                   *)
(***************************************************************************)
EXTENDS TxtDialogue, FiniteSetTheorems, TLAPS

-----------------------------------------------------------------------------
(* The inductive invariant.                                                *)

DialogueStages == {"none", "asking", "waiting", "answered", "opening", "refusing",
                   "counting", "sending", "over"}

Message == [chat : Chats, says : {"/txt", "/STOP", "words"}]

DialogueSlot ==
  [stage : DialogueStages, chat : Chats \cup {"none"}, q : Nat,
   file : FileNames \cup {"none"}, number : BOOLEAN, picture : Nat]

\* What a dialogue knows of itself.
Shape(s) ==
  /\ s.stage \notin {"none", "over"} => s.chat \in Chats
  /\ s.q \in 1 .. 3 + Kept
  /\ s.stage = "opening" => s.q = 1

SlotsOK ==
  /\ queue \in Seq(Message)
  /\ dialogue \in [Dialogues -> DialogueSlot]
  /\ listener \in [Chats -> Dialogues \cup {0}]
  /\ recent \in [Chats -> Nat]
  /\ begun \in Nat
  /\ \A d \in Dialogues :
       Shape(dialogue[d]) /\ (dialogue[d].stage = "none" <=> d > begun)

\* A dialogue that has not been given its list yet.
Listless(d) ==
  dialogue[d].q = 1 /\ dialogue[d].stage \in {"asking", "waiting", "answered"}

\* A list is either there, under one name, or has been read, once.
ListsOK ==
  /\ \A n \in DOMAIN lists : lists[n] \in 1 .. begun
  /\ \A n, m \in DOMAIN lists : lists[n] = lists[m] => n = m
  /\ taken \in Seq(Nat)
  /\ \A i \in 1 .. Len(taken) : taken[i] \in 1 .. begun
  /\ \A i, j \in 1 .. Len(taken) : taken[i] = taken[j] => i = j
  /\ \A i \in 1 .. Len(taken), n \in DOMAIN lists : taken[i] # lists[n]
  /\ \A d \in Dialogues : Listless(d) =>
       /\ \A n \in DOMAIN lists : lists[n] # d
       /\ \A i \in 1 .. Len(taken) : taken[i] # d

\* thumb.jpg is of the last fetch.
PictureOK ==
  /\ fetches \in Nat /\ thumb = fetches
  /\ \A d \in Dialogues : dialogue[d].picture <= fetches

Alive(c) ==
  {d \in Dialogues : dialogue[d].stage \notin {"none", "over"} /\ dialogue[d].chat = c}

\* A chat's dialogues were begun in it, and a chat without listener has lost
\* one that was heard.
ListenersOK ==
  \A c \in Chats :
    /\ Cardinality(Alive(c)) <= recent[c]
    /\ listener[c] \in Waiting(c) \cup {0}
    /\ listener[c] = 0 => Waiting(c) = {} \/ Cardinality(Waiting(c)) < recent[c]

WorkersOK == Cardinality(Busy) <= Workers

DialogueInv == SlotsOK /\ ListsOK /\ PictureOK /\ ListenersOK /\ WorkersOK

-----------------------------------------------------------------------------
(* Sets of dialogues.                                                      *)

LEMMA FewDialogues ==
  ASSUME NEW S \in SUBSET Dialogues
  PROVE  /\ IsFiniteSet(S) /\ Cardinality(S) \in Nat
         /\ \A T \in SUBSET S : Cardinality(T) <= Cardinality(S)
         /\ \A d \in S : Cardinality(S \ {d}) = Cardinality(S) - 1
         /\ \A d \in Dialogues \ S : Cardinality(S \cup {d}) = Cardinality(S) + 1
<1>1. IsFiniteSet(Dialogues)
  BY FS_Interval, DialogueAssumption DEF Dialogues
<1>2. IsFiniteSet(S)
  BY <1>1, FS_Subset
<1> QED
  BY <1>2, FS_Subset, FS_CardinalityType, FS_RemoveElement, FS_AddElement

LEMMA UnusedSlot ==
  /\ Unused \in DialogueSlot /\ Unused.stage = "none" /\ Unused.q = 1 /\ Unused.picture = 0
  /\ Over \in DialogueSlot /\ Over.stage = "over" /\ Over.q = 1 /\ Over.picture = 0
  /\ Shape(Unused) /\ Shape(Over)
<1>1. Unused \in DialogueSlot /\ Unused.stage = "none" /\ Unused.q = 1 /\ Unused.picture = 0
  BY DEF Unused, DialogueSlot, DialogueStages
<1>2. Over \in DialogueSlot /\ Over.stage = "over" /\ Over.q = 1 /\ Over.picture = 0
  BY DEF Over, Unused, DialogueSlot, DialogueStages
<1>3. 1 \in 1 .. 3 + Kept
  BY DialogueAssumption
<1> QED
  BY <1>1, <1>2, <1>3 DEF Shape

LEMMA DialogueInvInit == Init => DialogueInv
<1> SUFFICES ASSUME Init PROVE DialogueInv
  OBVIOUS
<1>1. /\ queue = <<>> /\ dialogue = [d \in Dialogues |-> Unused]
      /\ listener = [c \in Chats |-> 0] /\ DOMAIN lists = {} /\ taken = <<>>
      /\ fetches = 0 /\ thumb = 0 /\ begun = 0 /\ recent = [c \in Chats |-> 0]
  BY DEF Init
<1>2. SlotsOK
  <2>1. \A d \in Dialogues : d > begun
    BY <1>1, DialogueAssumption DEF Dialogues
  <2> QED
    BY <1>1, <2>1, UnusedSlot DEF SlotsOK
<1>3. ListsOK
  BY <1>1, UnusedSlot DEF ListsOK, Listless
<1>4. PictureOK
  BY <1>1, UnusedSlot DEF PictureOK
<1>5. /\ \A c \in Chats : Alive(c) = {} /\ Waiting(c) = {}
      /\ Busy = {}
  BY <1>1, UnusedSlot DEF Alive, Waiting, Busy, At
<1>6. Cardinality({}) = 0
  BY FS_EmptySet
<1>7. WorkersOK
  BY <1>5, <1>6, DialogueAssumption DEF WorkersOK
<1>8. ListenersOK
  <2>1. \A c \in Chats : Cardinality(Alive(c)) = 0 /\ recent[c] = 0 /\ listener[c] = 0
    BY <1>1, <1>5, <1>6
  <2> QED
    BY <1>5, <2>1 DEF ListenersOK
<1> QED
  BY <1>2, <1>3, <1>4, <1>7, <1>8 DEF DialogueInv
-----------------------------------------------------------------------------
(* A step of one dialogue.                                                 *)

\* One that neither listens nor is heard: it stays in its chat, or is over.
LEMMA OneMoves ==
  ASSUME DialogueInv, NEW d \in Dialogues,
         dialogue[d].stage \notin {"none", "waiting", "over"},
         NEW new \in DialogueSlot, Shape(new), new.stage \notin {"none", "waiting"},
         new.stage # "over" => new.chat = dialogue[d].chat,
         dialogue' = [dialogue EXCEPT ![d] = new],
         UNCHANGED <<queue, listener, begun, recent>>
  PROVE  /\ SlotsOK' /\ ListenersOK' /\ WorkersOK'
         /\ dialogue'[d] = new /\ \A e \in Dialogues \ {d} : dialogue'[e] = dialogue[e]
<1>1. SlotsOK
  BY DEF DialogueInv
<1>2. dialogue'[d] = new /\ \A e \in Dialogues \ {d} : dialogue'[e] = dialogue[e]
  BY <1>1 DEF SlotsOK
<1>3. SlotsOK'
  BY <1>1, <1>2 DEF SlotsOK
<1>4. ASSUME NEW c \in Chats PROVE Alive(c)' \subseteq Alive(c) /\ Waiting(c)' = Waiting(c)
  BY <1>2 DEF Alive, Waiting, At
<1>5. Busy' \subseteq Busy
  BY <1>2 DEF Busy
<1>6. ListenersOK'
  <2> SUFFICES ASSUME NEW c \in Chats
               PROVE  /\ Cardinality(Alive(c)') <= recent[c]
                      /\ listener[c] \in Waiting(c)' \cup {0}
                      /\ listener[c] = 0 => Waiting(c)' = {} \/ Cardinality(Waiting(c)') < recent[c]
    BY DEF ListenersOK
  <2>1. Alive(c) \subseteq Dialogues
    BY DEF Alive
  <2>2. /\ Cardinality(Alive(c)') <= Cardinality(Alive(c))
        /\ Cardinality(Alive(c)) \in Nat /\ Cardinality(Alive(c)') \in Nat /\ recent[c] \in Nat
    BY <1>1, <1>4, <2>1, FewDialogues DEF SlotsOK
  <2> QED
    BY <1>4, <2>2 DEF DialogueInv, ListenersOK
<1>7. WorkersOK'
  <2>1. Busy \subseteq Dialogues
    BY DEF Busy
  <2>2. /\ Cardinality(Busy') <= Cardinality(Busy)
        /\ Cardinality(Busy) \in Nat /\ Cardinality(Busy') \in Nat /\ Workers \in Nat
    BY <1>5, <2>1, FewDialogues, DialogueAssumption
  <2> QED
    BY <2>2 DEF DialogueInv, WorkersOK
<1> QED
  BY <1>2, <1>3, <1>6, <1>7

\* The directory loses lists, if anything, and no dialogue is listless anew.
LEMMA ListsStay ==
  ASSUME ListsOK, DOMAIN lists' \subseteq DOMAIN lists,
         \A n \in DOMAIN lists' : lists'[n] = lists[n],
         taken' = taken, begun' = begun,
         \A d \in Dialogues : Listless(d)' => Listless(d)
  PROVE  ListsOK'
BY DEF ListsOK

LEMMA PictureStays ==
  ASSUME PictureOK, fetches' = fetches, thumb' = thumb,
         \A d \in Dialogues : dialogue'[d].picture \in {dialogue[d].picture, 0}
  PROVE  PictureOK'
BY DEF PictureOK

LEMMA RemoveStays ==
  ASSUME NEW d \in Dialogues, Remove(d)
  PROVE  DOMAIN lists' \subseteq DOMAIN lists /\ \A n \in DOMAIN lists' : lists'[n] = lists[n]
BY DEF Remove, Restrict

\* One that is over.
LEMMA FinishKeeps ==
  ASSUME DialogueInv, NEW d \in Dialogues,
         dialogue[d].stage \notin {"none", "waiting", "over"}, Finish(d),
         UNCHANGED <<queue, listener, begun, recent, taken, fetches, thumb>>,
         UNCHANGED lists \/ Remove(d)
  PROVE  DialogueInv'
<1>1. dialogue' = [dialogue EXCEPT ![d] = Over]
  BY DEF Finish
<1>2. /\ SlotsOK' /\ ListenersOK' /\ WorkersOK'
      /\ dialogue'[d] = Over /\ \A e \in Dialogues \ {d} : dialogue'[e] = dialogue[e]
  BY <1>1, UnusedSlot, OneMoves
<1>3. \A e \in Dialogues : Listless(e)' => Listless(e)
  BY <1>2, UnusedSlot DEF Listless
<1>4. ListsOK'
  BY <1>3, RemoveStays, ListsStay DEF DialogueInv
<1>5. PictureOK'
  BY <1>2, UnusedSlot, PictureStays DEF DialogueInv
<1> QED
  BY <1>2, <1>4, <1>5 DEF DialogueInv

\* One that is in another stage, and not a question further.
LEMMA StageKeeps ==
  ASSUME DialogueInv, NEW d \in Dialogues,
         dialogue[d].stage \notin {"none", "waiting", "over"},
         NEW stage \in {"refusing", "counting", "sending"}, Move(d, stage),
         UNCHANGED <<queue, listener, disk, begun, recent>>
  PROVE  DialogueInv'
<1> DEFINE new == [dialogue[d] EXCEPT !.stage = stage]
<1>1. /\ dialogue \in [Dialogues -> DialogueSlot] /\ dialogue[d] \in DialogueSlot
      /\ Shape(dialogue[d])
  BY DEF DialogueInv, SlotsOK
<1>2. /\ new \in DialogueSlot /\ new.stage = stage /\ new.chat = dialogue[d].chat
      /\ new.q = dialogue[d].q /\ new.picture = dialogue[d].picture
  BY <1>1 DEF DialogueSlot, DialogueStages
<1>3. dialogue' = [dialogue EXCEPT ![d] = new]
  BY <1>1, Zenon DEF Move
<1> HIDE DEF new
<1>4. Shape(new)
  BY <1>1, <1>2 DEF Shape
<1>5. /\ SlotsOK' /\ ListenersOK' /\ WorkersOK'
      /\ dialogue'[d] = new /\ \A e \in Dialogues \ {d} : dialogue'[e] = dialogue[e]
  BY <1>2, <1>3, <1>4, OneMoves
<1>6. \A e \in Dialogues : Listless(e)' => Listless(e)
  BY <1>2, <1>5 DEF Listless
<1>7. ListsOK'
  BY <1>6, ListsStay DEF DialogueInv, disk
<1>8. PictureOK'
  BY <1>2, <1>5, PictureStays DEF DialogueInv, disk
<1> QED
  BY <1>5, <1>7, <1>8 DEF DialogueInv

\* One that is asked the next question.
LEMMA FollowingSlot ==
  ASSUME SlotsOK, NEW d \in Dialogues, dialogue[d].stage \notin {"none", "over"},
         Asked(d) # "thumb"
  PROVE  /\ Following(d) \in DialogueSlot /\ Following(d).stage = "asking"
         /\ Following(d).q = dialogue[d].q + 1 /\ Following(d).chat = dialogue[d].chat
         /\ Following(d).picture = dialogue[d].picture
         /\ Shape(Following(d)) /\ Following(d).q # 1
<1>1. dialogue[d] \in DialogueSlot /\ Shape(dialogue[d])
  BY DEF SlotsOK
<1>2. dialogue[d].q \in 1 .. 3 + Kept /\ dialogue[d].q < 3 + Kept /\ dialogue[d].chat \in Chats
  BY <1>1, DialogueAssumption DEF Shape, Asked, Asks
<1>3. PICK q \in Nat : q = dialogue[d].q + 1
  BY <1>2
<1> DEFINE new == [dialogue[d] EXCEPT !.stage = "asking", !.q = q]
<1>4. Following(d) = new
  BY <1>3, Zenon DEF Following
<1>5. /\ new \in DialogueSlot /\ new.stage = "asking" /\ new.q = q
      /\ new.chat = dialogue[d].chat /\ new.picture = dialogue[d].picture
  BY <1>1 DEF DialogueSlot, DialogueStages
<1> HIDE DEF new
<1>6. q \in 1 .. 3 + Kept /\ q # 1
  BY <1>2, <1>3, DialogueAssumption
<1> QED
  BY <1>2, <1>3, <1>4, <1>5, <1>6 DEF Shape
LEMMA TakeAnswerKeeps ==
  ASSUME DialogueInv, NEW d \in Dialogues, TakeAnswer(d)
  PROVE  DialogueInv'
<1>1. PICK number \in BOOLEAN :
        dialogue' = [dialogue EXCEPT ![d] =
          [Following(d) EXCEPT !.number = IF Asked(d) = "number" THEN number ELSE @]]
  BY DEF TakeAnswer
<1>2. /\ SlotsOK /\ dialogue[d].stage = "answered" /\ Asked(d) # "thumb"
      /\ UNCHANGED <<queue, listener, lists, taken, fetches, thumb, begun, recent>>
  BY DEF DialogueInv, TakeAnswer, At, disk
<1>3. /\ Following(d) \in DialogueSlot /\ Following(d).stage = "asking"
      /\ Following(d).chat = dialogue[d].chat /\ Following(d).q # 1
      /\ Following(d).picture = dialogue[d].picture /\ Shape(Following(d))
  BY <1>2, FollowingSlot
<1>4. PICK value \in BOOLEAN :
        value = IF Asked(d) = "number" THEN number ELSE Following(d).number
  BY <1>3, Zenon DEF DialogueSlot
<1> DEFINE old == Following(d)
           new == [old EXCEPT !.number = value]
<1>5. dialogue' = [dialogue EXCEPT ![d] = new]
  BY <1>1, <1>4, Zenon
<1> HIDE DEF old
<1>6. /\ new \in DialogueSlot /\ new.stage = "asking" /\ new.q = old.q
      /\ new.chat = old.chat /\ new.picture = old.picture
  BY <1>3 DEF DialogueSlot, old
<1> HIDE DEF new
<1>7. Shape(new)
  BY <1>3, <1>6 DEF Shape, old
<1>8. /\ SlotsOK' /\ ListenersOK' /\ WorkersOK'
      /\ dialogue'[d] = new /\ \A e \in Dialogues \ {d} : dialogue'[e] = dialogue[e]
  BY <1>2, <1>3, <1>5, <1>6, <1>7, OneMoves DEF old
<1>9. \A e \in Dialogues : Listless(e)' => Listless(e)
  BY <1>3, <1>6, <1>8 DEF Listless, old
<1>10. ListsOK'
  BY <1>2, <1>9, ListsStay DEF DialogueInv
<1>11. PictureOK'
  BY <1>2, <1>3, <1>6, <1>8, PictureStays DEF DialogueInv, old
<1> QED
  BY <1>8, <1>10, <1>11 DEF DialogueInv

\* A list is in the directory, and its dialogue has none to be given any more.
LEMMA TakeListKeeps ==
  ASSUME DialogueInv, NEW d \in Dialogues, NEW name \in FileNames, TakeList(d, name)
  PROVE  DialogueInv'
<1> DEFINE new == [dialogue[d] EXCEPT !.stage = "opening", !.file = name]
<1>1. /\ dialogue[d].stage = "answered" /\ Asked(d) = "list"
      /\ dialogue' = [dialogue EXCEPT ![d].stage = "opening", ![d].file = name]
      /\ lists' = [n \in DOMAIN lists \cup {name} |-> IF n = name THEN d ELSE lists[n]]
      /\ UNCHANGED <<queue, listener, taken, fetches, thumb, begun, recent>>
  BY DEF TakeList, At
<1>2. /\ dialogue \in [Dialogues -> DialogueSlot] /\ dialogue[d] \in DialogueSlot
      /\ Shape(dialogue[d]) /\ begun \in Nat /\ dialogue[d].stage # "none"
      /\ ListsOK /\ ~(d > begun)
  BY <1>1 DEF DialogueInv, SlotsOK
<1>3. dialogue' = [dialogue EXCEPT ![d] = new]
  BY <1>1, <1>2, Zenon
<1>4. /\ new \in DialogueSlot /\ new.stage = "opening" /\ new.chat = dialogue[d].chat
      /\ new.q = dialogue[d].q /\ new.picture = dialogue[d].picture
  BY <1>2 DEF DialogueSlot, DialogueStages
<1> HIDE DEF new
<1>5. dialogue[d].q = 1
  <2>1. dialogue[d].q \in Nat /\ Kept \in Nat
    BY <1>2, DialogueAssumption DEF DialogueSlot
  <2> QED
    BY <1>1, <2>1 DEF Asked, Asks
<1>6. Shape(new)
  BY <1>1, <1>2, <1>4, <1>5 DEF Shape
<1>7. /\ SlotsOK' /\ ListenersOK' /\ WorkersOK'
      /\ dialogue'[d] = new /\ \A e \in Dialogues \ {d} : dialogue'[e] = dialogue[e]
  BY <1>1, <1>3, <1>4, <1>6, OneMoves
<1>8. Listless(d) /\ d \in 1 .. begun
  BY <1>1, <1>2, <1>5 DEF Listless, Dialogues
<1>9. \A e \in Dialogues : Listless(e)' => Listless(e) /\ e # d
  BY <1>4, <1>7 DEF Listless
<1>10. ListsOK'
  <2>1. /\ \A n \in DOMAIN lists : lists[n] # d
        /\ \A i \in 1 .. Len(taken) : taken[i] # d
    BY <1>2, <1>8 DEF ListsOK
  <2>2. /\ name \in DOMAIN lists' /\ lists'[name] = d
        /\ \A n \in DOMAIN lists' \ {name} : n \in DOMAIN lists /\ lists'[n] = lists[n]
    BY <1>1
  <2>3. \A n \in DOMAIN lists' : lists'[n] \in 1 .. begun
    BY <1>2, <1>8, <2>2 DEF ListsOK
  <2>4. \A n, m \in DOMAIN lists' : lists'[n] = lists'[m] => n = m
    BY <1>2, <2>1, <2>2 DEF ListsOK
  <2>5. \A i \in 1 .. Len(taken), n \in DOMAIN lists' : taken[i] # lists'[n]
    BY <1>2, <2>1, <2>2 DEF ListsOK
  <2>6. \A e \in Dialogues : Listless(e)' =>
          /\ \A n \in DOMAIN lists' : lists'[n] # e
          /\ \A i \in 1 .. Len(taken) : taken[i] # e
    BY <1>2, <1>9, <2>2 DEF ListsOK
  <2> QED
    BY <1>1, <1>2, <2>3, <2>4, <2>5, <2>6 DEF ListsOK
<1>11. PictureOK'
  BY <1>1, <1>4, <1>7, PictureStays DEF DialogueInv
<1> QED
  BY <1>7, <1>10, <1>11 DEF DialogueInv

\* A list is read, whoever it was sent to, and is there no more.
LEMMA ParseListKeeps ==
  ASSUME DialogueInv, NEW d \in Dialogues, ParseList(d)
  PROVE  DialogueInv'
<1> DEFINE name == dialogue[d].file
           old == Following(d)
           new == [old EXCEPT !.file = "none"]
<1>1. /\ SlotsOK /\ ListsOK /\ dialogue[d].stage = "opening" /\ name \in DOMAIN lists
      /\ taken' = Append(taken, lists[name])
      /\ dialogue' = [dialogue EXCEPT ![d] = new]
      /\ lists' = [n \in DOMAIN lists \ {name} |-> lists[n]]
      /\ UNCHANGED <<queue, listener, fetches, thumb, begun, recent>>
  BY DEF DialogueInv, ParseList, At, Remove, Restrict
<1>2. /\ dialogue[d] \in DialogueSlot /\ dialogue[d].q = 1 /\ begun \in Nat
  BY <1>1 DEF SlotsOK, Shape
<1>3. Asked(d) # "thumb"
  BY <1>2 DEF Asked, Asks
<1>4. /\ old \in DialogueSlot /\ old.stage = "asking" /\ old.q # 1
      /\ old.chat = dialogue[d].chat /\ old.picture = dialogue[d].picture /\ Shape(old)
  BY <1>1, <1>3, FollowingSlot
<1> HIDE DEF old
<1>5. /\ new \in DialogueSlot /\ new.stage = "asking" /\ new.q = old.q
      /\ new.chat = old.chat /\ new.picture = old.picture
  BY <1>4 DEF DialogueSlot
<1> HIDE DEF new, name
<1>6. Shape(new)
  BY <1>4, <1>5 DEF Shape
<1>7. /\ SlotsOK' /\ ListenersOK' /\ WorkersOK'
      /\ dialogue'[d] = new /\ \A e \in Dialogues \ {d} : dialogue'[e] = dialogue[e]
  BY <1>1, <1>4, <1>5, <1>6, OneMoves
<1>8. \A e \in Dialogues : Listless(e)' => Listless(e) /\ e # d
  BY <1>4, <1>5, <1>7 DEF Listless
<1>9. ListsOK'
  <2>1. /\ taken \in Seq(Nat) /\ lists[name] \in 1 .. begun /\ lists[name] \in Nat
        /\ \A i \in 1 .. Len(taken) : taken[i] # lists[name]
    BY <1>1, <1>2 DEF ListsOK
  <2>2. /\ taken' \in Seq(Nat) /\ Len(taken') = Len(taken) + 1 /\ Len(taken) \in Nat
        /\ \A i \in 1 .. Len(taken) : taken'[i] = taken[i]
        /\ taken'[Len(taken) + 1] = lists[name]
    BY <1>1, <2>1
  <2>3. \A i \in 1 .. Len(taken') : i \in 1 .. Len(taken) \/ i = Len(taken) + 1
    BY <2>2
  <2>4. DOMAIN lists' = DOMAIN lists \ {name} /\ \A n \in DOMAIN lists' : lists'[n] = lists[n]
    BY <1>1
  <2>5. /\ \A n \in DOMAIN lists' : lists'[n] \in 1 .. begun
        /\ \A n, m \in DOMAIN lists' : lists'[n] = lists'[m] => n = m
        /\ \A n \in DOMAIN lists' : lists'[n] # lists[name]
    BY <1>1, <2>4 DEF ListsOK
  <2>6. \A i \in 1 .. Len(taken') : taken'[i] \in 1 .. begun
    BY <1>1, <2>1, <2>2, <2>3 DEF ListsOK
  <2>7. \A i, j \in 1 .. Len(taken') : taken'[i] = taken'[j] => i = j
    BY <1>1, <2>1, <2>2, <2>3 DEF ListsOK
  <2>8. \A i \in 1 .. Len(taken'), n \in DOMAIN lists' : taken'[i] # lists'[n]
    BY <1>1, <2>2, <2>3, <2>4, <2>5 DEF ListsOK
  <2>9. \A e \in Dialogues : Listless(e)' =>
          /\ \A n \in DOMAIN lists' : lists'[n] # e
          /\ \A i \in 1 .. Len(taken') : taken'[i] # e
    <3> SUFFICES ASSUME NEW e \in Dialogues, Listless(e)'
                 PROVE  /\ \A n \in DOMAIN lists' : lists'[n] # e
                        /\ \A i \in 1 .. Len(taken') : taken'[i] # e
      OBVIOUS
    <3>1. /\ \A n \in DOMAIN lists : lists[n] # e
          /\ \A i \in 1 .. Len(taken) : taken[i] # e
      BY <1>1, <1>8 DEF ListsOK
    <3> QED
      BY <1>1, <2>2, <2>3, <2>4, <3>1
  <2> QED
    BY <1>1, <2>2, <2>5, <2>6, <2>7, <2>8, <2>9 DEF ListsOK
<1>10. PictureOK'
  BY <1>1, <1>4, <1>5, <1>7, PictureStays DEF DialogueInv
<1> QED
  BY <1>7, <1>9, <1>10 DEF DialogueInv

\* A picture is fetched over whatever thumb.jpg was.
LEMMA TakeThumbKeeps ==
  ASSUME DialogueInv, NEW d \in Dialogues, TakeThumb(d)
  PROVE  DialogueInv'
<1>1. /\ dialogue[d].stage = "answered"
      /\ UNCHANGED <<queue, listener, lists, taken, begun, recent>>
  BY DEF TakeThumb, At
<1>2. CASE Move(d, "counting") /\ UNCHANGED <<fetches, thumb>>
  BY <1>1, <1>2, StageKeeps DEF disk
<1>3. CASE /\ fetches' = fetches + 1 /\ Fetch
           /\ dialogue' = [dialogue EXCEPT ![d].stage = "counting", ![d].picture = fetches']
  <2> PICK picture : picture = fetches'
    OBVIOUS
  <2> DEFINE new == [dialogue[d] EXCEPT !.stage = "counting", !.picture = picture]
  <2>1. /\ dialogue \in [Dialogues -> DialogueSlot] /\ dialogue[d] \in DialogueSlot
        /\ Shape(dialogue[d]) /\ PictureOK /\ picture = fetches + 1 /\ picture \in Nat
    BY <1>3 DEF DialogueInv, SlotsOK, PictureOK
  <2>2. dialogue' = [dialogue EXCEPT ![d] = new]
    BY <1>3, <2>1, Zenon
  <2>3. /\ new \in DialogueSlot /\ new.stage = "counting" /\ new.chat = dialogue[d].chat
        /\ new.q = dialogue[d].q /\ new.picture = picture
    BY <2>1 DEF DialogueSlot, DialogueStages
  <2> HIDE DEF new
  <2>4. Shape(new)
    BY <1>1, <2>1, <2>3 DEF Shape
  <2>5. /\ SlotsOK' /\ ListenersOK' /\ WorkersOK'
        /\ dialogue'[d] = new /\ \A e \in Dialogues \ {d} : dialogue'[e] = dialogue[e]
    BY <1>1, <2>2, <2>3, <2>4, OneMoves
  <2>6. \A e \in Dialogues : Listless(e)' => Listless(e)
    BY <2>3, <2>5 DEF Listless
  <2>7. ListsOK'
    BY <1>1, <2>6, ListsStay DEF DialogueInv
  <2>8. PictureOK'
    <3>1. \A e \in Dialogues : dialogue[e].picture \in Nat /\ dialogue[e].picture <= fetches
      BY <2>1 DEF PictureOK, DialogueSlot
    <3>2. \A e \in Dialogues : dialogue'[e].picture <= fetches'
      BY <1>3, <2>1, <2>3, <2>5, <3>1 DEF PictureOK
    <3> QED
      BY <1>3, <2>1, <3>2 DEF PictureOK, Fetch
  <2> QED
    BY <2>5, <2>7, <2>8 DEF DialogueInv
<1> QED
  BY <1>1, <1>2, <1>3 DEF TakeThumb
-----------------------------------------------------------------------------
(* Listeners.                                                              *)

\* A question is sent, and its chat's listener is now this dialogue.
LEMMA AskKeeps ==
  ASSUME DialogueInv, NEW d \in Dialogues, Ask(d)
  PROVE  DialogueInv'
<1> DEFINE new == [dialogue[d] EXCEPT !.stage = "waiting"]
           chat == dialogue[d].chat
<1>1. /\ dialogue[d].stage = "asking" /\ dialogue' = [dialogue EXCEPT ![d].stage = "waiting"]
      /\ listener' = [listener EXCEPT ![chat] = d]
      /\ UNCHANGED <<queue, lists, taken, fetches, thumb, begun, recent>>
  BY DEF Ask, At, Move, Listen, disk
<1>2. /\ SlotsOK /\ dialogue \in [Dialogues -> DialogueSlot] /\ dialogue[d] \in DialogueSlot
      /\ Shape(dialogue[d]) /\ chat \in Chats /\ listener \in [Chats -> Dialogues \cup {0}]
      /\ recent \in [Chats -> Nat] /\ ListenersOK
  BY <1>1 DEF DialogueInv, SlotsOK, Shape
<1>3. dialogue' = [dialogue EXCEPT ![d] = new]
  BY <1>1, <1>2, Zenon
<1>4. /\ new \in DialogueSlot /\ new.stage = "waiting" /\ new.chat = chat
      /\ new.q = dialogue[d].q /\ new.picture = dialogue[d].picture
  BY <1>2 DEF DialogueSlot, DialogueStages
<1> HIDE DEF new, chat
<1>5. dialogue'[d] = new /\ \A e \in Dialogues \ {d} : dialogue'[e] = dialogue[e]
  BY <1>2, <1>3
<1>6. SlotsOK'
  <2>1. Shape(new)
    BY <1>1, <1>2, <1>4 DEF Shape
  <2>2. listener' \in [Chats -> Dialogues \cup {0}]
    BY <1>1, <1>2
  <2>3. dialogue' \in [Dialogues -> DialogueSlot]
    BY <1>2, <1>3, <1>4
  <2>4. \A e \in Dialogues :
          Shape(dialogue'[e]) /\ (dialogue'[e].stage = "none" <=> e > begun')
    BY <1>1, <1>2, <1>4, <1>5, <2>1 DEF SlotsOK
  <2> QED
    BY <1>1, <1>2, <2>2, <2>3, <2>4 DEF SlotsOK
<1>7. ListsOK'
  <2>1. \A e \in Dialogues : Listless(e)' => Listless(e)
    BY <1>1, <1>4, <1>5 DEF Listless
  <2> QED
    BY <1>1, <2>1, ListsStay DEF DialogueInv
<1>8. PictureOK'
  BY <1>1, <1>4, <1>5, PictureStays DEF DialogueInv
<1>9. WorkersOK'
  <2>1. Busy' = Busy
    BY <1>1, <1>4, <1>5 DEF Busy
  <2> QED
    BY <2>1 DEF DialogueInv, WorkersOK
<1>10. ASSUME NEW c \in Chats
       PROVE  Alive(c)' = Alive(c) /\ (c # chat => Waiting(c)' = Waiting(c))
  BY <1>1, <1>2, <1>4, <1>5 DEF Alive, Waiting, At, chat
<1>11. ListenersOK'
  <2> SUFFICES ASSUME NEW c \in Chats
               PROVE  /\ Cardinality(Alive(c)') <= recent'[c]
                      /\ listener'[c] \in Waiting(c)' \cup {0}
                      /\ listener'[c] = 0 => Waiting(c)' = {} \/ Cardinality(Waiting(c)') < recent'[c]
    BY DEF ListenersOK
  <2>1. Cardinality(Alive(c)') <= recent'[c]
    BY <1>1, <1>2, <1>10 DEF ListenersOK
  <2>2. CASE c = chat
    <3>1. d # 0
      BY DEF Dialogues
    <3>2. listener'[c] = d
      BY <1>1, <1>2, <2>2
    <3>3. dialogue'[d].stage = "waiting" /\ dialogue'[d].chat = c
      BY <1>4, <1>5, <2>2
    <3>4. d \in Waiting(c)'
      BY <3>3 DEF Waiting, At
    <3> QED
      BY <2>1, <3>1, <3>2, <3>4
  <2>3. CASE c # chat
    BY <1>1, <1>2, <1>10, <2>1, <2>3 DEF ListenersOK
  <2> QED
    BY <2>2, <2>3
<1> QED
  BY <1>6, <1>7, <1>8, <1>9, <1>11 DEF DialogueInv

\* A listener has heard: if others of its chat still wait, one less than were
\* begun does.
LEMMA HearKeeps ==
  ASSUME DialogueInv, NEW c \in Chats, listener[c] # 0, Hear(c),
         queue' \in Seq(Message), UNCHANGED disk
  PROVE  DialogueInv'
<1> DEFINE d == listener[c]
           new == [dialogue[d] EXCEPT !.stage = "answered"]
<1>1. /\ dialogue' = [dialogue EXCEPT ![d].stage = "answered"]
      /\ listener' = [listener EXCEPT ![c] = 0]
      /\ UNCHANGED <<lists, taken, fetches, thumb, begun, recent>>
  BY DEF Hear, Move, disk
<1>2. /\ SlotsOK /\ dialogue \in [Dialogues -> DialogueSlot]
      /\ listener \in [Chats -> Dialogues \cup {0}] /\ recent \in [Chats -> Nat] /\ ListenersOK
  BY DEF DialogueInv, SlotsOK
<1>3. /\ d \in Dialogues /\ d \in Waiting(c)
      /\ dialogue[d].stage = "waiting" /\ dialogue[d].chat = c
  BY <1>2 DEF ListenersOK, Waiting, At
<1>4. dialogue[d] \in DialogueSlot /\ Shape(dialogue[d])
  BY <1>2, <1>3 DEF SlotsOK
<1>5. dialogue' = [dialogue EXCEPT ![d] = new]
  BY <1>1, <1>2, Zenon
<1>6. /\ new \in DialogueSlot /\ new.stage = "answered" /\ new.chat = c
      /\ new.q = dialogue[d].q /\ new.picture = dialogue[d].picture
  BY <1>3, <1>4 DEF DialogueSlot, DialogueStages
<1> HIDE DEF new, d
<1>7. dialogue'[d] = new /\ \A e \in Dialogues \ {d} : dialogue'[e] = dialogue[e]
  BY <1>2, <1>3, <1>5
<1>8. SlotsOK'
  <2>1. Shape(new)
    BY <1>3, <1>4, <1>6 DEF Shape
  <2>2. listener' \in [Chats -> Dialogues \cup {0}]
    BY <1>1, <1>2
  <2>3. dialogue' \in [Dialogues -> DialogueSlot]
    BY <1>2, <1>5, <1>6
  <2>4. \A e \in Dialogues :
          Shape(dialogue'[e]) /\ (dialogue'[e].stage = "none" <=> e > begun')
    BY <1>1, <1>2, <1>3, <1>6, <1>7, <2>1 DEF SlotsOK
  <2> QED
    BY <1>1, <1>2, <2>2, <2>3, <2>4 DEF SlotsOK
<1>9. ListsOK'
  <2>1. \A e \in Dialogues : Listless(e)' => Listless(e)
    BY <1>3, <1>6, <1>7 DEF Listless
  <2> QED
    BY <1>1, <2>1, ListsStay DEF DialogueInv
<1>10. PictureOK'
  BY <1>1, <1>6, <1>7, PictureStays DEF DialogueInv
<1>11. WorkersOK'
  <2>1. Busy' = Busy
    BY <1>3, <1>6, <1>7 DEF Busy
  <2> QED
    BY <2>1 DEF DialogueInv, WorkersOK
<1>12. ASSUME NEW b \in Chats
       PROVE  /\ Alive(b)' = Alive(b)
              /\ b # c => Waiting(b)' = Waiting(b)
              /\ b = c => Waiting(b)' = Waiting(b) \ {d}
  BY <1>3, <1>6, <1>7 DEF Alive, Waiting, At
<1>13. ListenersOK'
  <2> SUFFICES ASSUME NEW b \in Chats
               PROVE  /\ Cardinality(Alive(b)') <= recent'[b]
                      /\ listener'[b] \in Waiting(b)' \cup {0}
                      /\ listener'[b] = 0 => Waiting(b)' = {} \/ Cardinality(Waiting(b)') < recent'[b]
    BY DEF ListenersOK
  <2>1. Cardinality(Alive(b)') <= recent'[b]
    BY <1>1, <1>2, <1>12 DEF ListenersOK
  <2>2. CASE b = c
    <3>1. /\ Waiting(b) \subseteq Alive(b) /\ Alive(b) \subseteq Dialogues
          /\ Waiting(b) \subseteq Dialogues
      BY DEF Waiting, Alive, At
    <3>2. /\ Cardinality(Waiting(b) \ {d}) = Cardinality(Waiting(b)) - 1
          /\ Cardinality(Waiting(b)) <= Cardinality(Alive(b))
          /\ Cardinality(Waiting(b)) \in Nat /\ Cardinality(Alive(b)) \in Nat
      BY <1>3, <2>2, <3>1, FewDialogues
    <3>3. recent[b] \in Nat
      BY <1>2
    <3>4. Cardinality(Alive(b)) <= recent[b]
      BY <1>2 DEF ListenersOK
    <3>5. Cardinality(Waiting(b) \ {d}) < recent[b]
      BY <3>2, <3>3, <3>4
    <3>6. Waiting(b)' = Waiting(b) \ {d}
      BY <1>12, <2>2
    <3>7. Cardinality(Waiting(b)') < recent'[b]
      BY <1>1, <3>5, <3>6
    <3>8. listener'[b] = 0
      BY <1>1, <1>2, <2>2
    <3> QED
      BY <2>1, <3>7, <3>8
  <2>3. CASE b # c
    BY <1>1, <1>2, <1>12, <2>1, <2>3 DEF ListenersOK
  <2> QED
    BY <2>2, <2>3
<1> QED
  BY <1>8, <1>9, <1>10, <1>11, <1>13 DEF DialogueInv

\* A dialogue begins, if a worker is free.
LEMMA BeginKeeps ==
  ASSUME DialogueInv, NEW c \in Chats, Begin(c), Cardinality(Busy) < Workers,
         queue' \in Seq(Message), UNCHANGED disk
  PROVE  DialogueInv'
<1> DEFINE d == begun + 1
           new == [Unused EXCEPT !.stage = "asking", !.chat = c]
<1>1. /\ begun' = d /\ dialogue' = [dialogue EXCEPT ![d] = new]
      /\ recent' = [recent EXCEPT ![c] = @ + 1]
      /\ UNCHANGED <<listener, lists, taken, fetches, thumb>>
  BY DEF Begin, disk
<1>2. /\ SlotsOK /\ dialogue \in [Dialogues -> DialogueSlot] /\ begun \in Nat
      /\ recent \in [Chats -> Nat] /\ ListenersOK /\ ListsOK /\ PictureOK
  BY DEF DialogueInv, SlotsOK
<1>3. /\ new \in DialogueSlot /\ new.stage = "asking" /\ new.chat = c
      /\ new.q = 1 /\ new.picture = 0
  BY DEF Unused, DialogueSlot, DialogueStages
<1>4. d \in Nat /\ begun < d /\ \A e \in Dialogues : e # d => (e > begun <=> e > d)
  BY <1>2 DEF Dialogues
<1> HIDE DEF new, d
<1>5. /\ d \in Dialogues => dialogue'[d] = new /\ dialogue[d].stage = "none"
      /\ \A e \in Dialogues \ {d} : dialogue'[e] = dialogue[e]
  BY <1>1, <1>2, <1>4 DEF SlotsOK, Dialogues
<1>6. SlotsOK'
  <2>1. Shape(new)
    BY <1>3, DialogueAssumption DEF Shape
  <2>2. recent' \in [Chats -> Nat] /\ begun' \in Nat
    BY <1>1, <1>2, <1>4
  <2>3. dialogue' \in [Dialogues -> DialogueSlot]
    BY <1>1, <1>2, <1>3
  <2>4. \A e \in Dialogues :
          Shape(dialogue'[e]) /\ (dialogue'[e].stage = "none" <=> e > begun')
    <3> TAKE e \in Dialogues
    <3>1. CASE e = d
      BY <1>1, <1>3, <1>4, <1>5, <2>1, <3>1
    <3>2. CASE e # d
      BY <1>1, <1>2, <1>4, <1>5, <3>2 DEF SlotsOK
    <3> QED
      BY <3>1, <3>2
  <2> QED
    BY <1>1, <1>2, <2>2, <2>3, <2>4 DEF SlotsOK
<1>7. ListsOK'
  <2>1. /\ \A n \in DOMAIN lists : lists[n] \in 1 .. begun' /\ lists[n] # d
        /\ \A i \in 1 .. Len(taken) : taken[i] \in 1 .. begun' /\ taken[i] # d
    BY <1>1, <1>2, <1>4 DEF ListsOK
  <2>2. \A e \in Dialogues : Listless(e)' =>
          /\ \A n \in DOMAIN lists : lists[n] # e
          /\ \A i \in 1 .. Len(taken) : taken[i] # e
    <3> SUFFICES ASSUME NEW e \in Dialogues, Listless(e)', e # d
                 PROVE  /\ \A n \in DOMAIN lists : lists[n] # e
                        /\ \A i \in 1 .. Len(taken) : taken[i] # e
      BY <2>1
    <3>1. Listless(e)
      BY <1>5 DEF Listless
    <3> QED
      BY <1>2, <3>1 DEF ListsOK
  <2> QED
    BY <1>1, <1>2, <2>1, <2>2 DEF ListsOK
<1>8. PictureOK'
  BY <1>1, <1>2, <1>3, <1>5 DEF PictureOK
<1>9. WorkersOK'
  <2>1. Busy \subseteq Dialogues /\ (Busy' = Busy \/ (d \in Dialogues \ Busy /\ Busy' = Busy \cup {d}))
    BY <1>3, <1>5 DEF Busy
  <2>2. Cardinality(Busy') <= Cardinality(Busy) + 1 /\ Cardinality(Busy) \in Nat
    BY <2>1, FewDialogues
  <2>3. Cardinality(Busy') \in Nat
    <3>1. Busy' \subseteq Dialogues
      BY DEF Busy
    <3> QED
      BY <3>1, FewDialogues
  <2> QED
    BY <2>2, <2>3, DialogueAssumption DEF WorkersOK
<1>10. ASSUME NEW b \in Chats
       PROVE  /\ Waiting(b)' = Waiting(b)
              /\ b # c => Alive(b)' = Alive(b)
              /\ \/ Alive(b)' = Alive(b)
                 \/ d \in Dialogues \ Alive(b) /\ Alive(b)' = Alive(b) \cup {d}
  BY <1>3, <1>5 DEF Alive, Waiting, At
<1>11. ListenersOK'
  <2> SUFFICES ASSUME NEW b \in Chats
               PROVE  /\ Cardinality(Alive(b)') <= recent'[b]
                      /\ listener[b] \in Waiting(b)' \cup {0}
                      /\ listener[b] = 0 => Waiting(b)' = {} \/ Cardinality(Waiting(b)') < recent'[b]
    BY <1>1 DEF ListenersOK
  <2>1. /\ Alive(b) \subseteq Dialogues /\ Waiting(b) \subseteq Dialogues
    BY DEF Alive, Waiting
  <2>2. /\ Cardinality(Alive(b)) \in Nat /\ Cardinality(Waiting(b)) \in Nat
        /\ Cardinality(Alive(b)) <= recent[b] /\ recent[b] \in Nat
    BY <1>2, <2>1, FewDialogues DEF ListenersOK
  <2>3. CASE b = c
    <3>1. recent'[b] = recent[b] + 1
      BY <1>1, <1>2, <2>3
    <3>2. Cardinality(Alive(b)') <= Cardinality(Alive(b)) + 1 /\ Cardinality(Alive(b)') \in Nat
      BY <1>10, <2>1, <2>2, FewDialogues
    <3> QED
      BY <1>2, <1>10, <2>2, <3>1, <3>2 DEF ListenersOK
  <2>4. CASE b # c
    <3>1. recent'[b] = recent[b]
      BY <1>1, <1>2, <2>4
    <3> QED
      BY <1>2, <1>10, <2>2, <2>4, <3>1 DEF ListenersOK
  <2> QED
    BY <2>3, <2>4
<1> QED
  BY <1>6, <1>7, <1>8, <1>9, <1>11 DEF DialogueInv
-----------------------------------------------------------------------------
(* Messages, and the process.                                              *)

LEMMA SendKeeps ==
  ASSUME DialogueInv, NEW c \in Chats, NEW says \in {"/txt", "/STOP", "words"}, Send(c, says)
  PROVE  DialogueInv'
<1>1. /\ queue' = Append(queue, [chat |-> c, says |-> says])
      /\ UNCHANGED <<dialogue, listener, lists, taken, fetches, thumb, begun, recent>>
  BY DEF Send, disk
<1>2. SlotsOK'
  <2>1. [chat |-> c, says |-> says] \in Message /\ queue \in Seq(Message)
    BY DEF Message, DialogueInv, SlotsOK
  <2>2. queue' \in Seq(Message)
    BY <1>1, <2>1
  <2> QED
    BY <1>1, <2>2 DEF DialogueInv, SlotsOK
<1>3. ListsOK' /\ PictureOK'
  BY <1>1 DEF DialogueInv, ListsOK, PictureOK, Listless
<1>4. ListenersOK' /\ WorkersOK'
  <2>1. Busy' = Busy /\ \A b \in Chats : Alive(b)' = Alive(b) /\ Waiting(b)' = Waiting(b)
    BY <1>1 DEF Busy, Alive, Waiting, At
  <2> QED
    BY <1>1, <2>1 DEF DialogueInv, ListenersOK, WorkersOK
<1> QED
  BY <1>2, <1>3, <1>4 DEF DialogueInv

\* A message that nobody hears.
LEMMA DropKeeps ==
  ASSUME DialogueInv, queue' \in Seq(Message),
         UNCHANGED <<dialogue, listener, disk, begun, recent>>
  PROVE  DialogueInv'
<1>1. UNCHANGED <<dialogue, listener, lists, taken, fetches, thumb, begun, recent>>
  BY DEF disk
<1>2. SlotsOK'
  BY <1>1 DEF DialogueInv, SlotsOK
<1>3. ListsOK' /\ PictureOK'
  BY <1>1 DEF DialogueInv, ListsOK, PictureOK, Listless
<1>4. ListenersOK' /\ WorkersOK'
  <2>1. Busy' = Busy /\ \A b \in Chats : Alive(b)' = Alive(b) /\ Waiting(b)' = Waiting(b)
    BY <1>1 DEF Busy, Alive, Waiting, At
  <2> QED
    BY <1>1, <2>1 DEF DialogueInv, ListenersOK, WorkersOK
<1> QED
  BY <1>2, <1>3, <1>4 DEF DialogueInv

\* Nothing of a process but its files is left in the next.
LEMMA RestartKeeps ==
  ASSUME DialogueInv, Restart
  PROVE  DialogueInv'
<1>1. /\ queue' = <<>>
      /\ dialogue' = [d \in Dialogues |-> IF d <= begun THEN Over ELSE Unused]
      /\ listener' = [c \in Chats |-> 0] /\ recent' = [c \in Chats |-> 0]
      /\ UNCHANGED <<lists, taken, fetches, thumb, begun>>
  BY DEF Restart, Replaced, disk
<1>2. /\ begun \in Nat
      /\ \A d \in Dialogues : dialogue'[d] \in {Over, Unused}
                           /\ (dialogue'[d] = Unused <=> d > begun)
  <2>1. begun \in Nat /\ Over # Unused
    BY UnusedSlot DEF DialogueInv, SlotsOK
  <2>2. \A d \in Dialogues : d \in Int
    BY DEF Dialogues
  <2> QED
    BY <1>1, <2>1, <2>2
<1>3. SlotsOK'
  <2>1. dialogue' \in [Dialogues -> DialogueSlot]
    BY <1>1, UnusedSlot
  <2>2. queue' \in Seq(Message) /\ begun' \in Nat
    BY <1>1, <1>2
  <2>3. listener' \in [Chats -> Dialogues \cup {0}] /\ recent' \in [Chats -> Nat]
    BY <1>1
  <2>4. \A d \in Dialogues :
          Shape(dialogue'[d]) /\ (dialogue'[d].stage = "none" <=> d > begun')
    BY <1>1, <1>2, UnusedSlot
  <2> QED
    BY <2>1, <2>2, <2>3, <2>4 DEF SlotsOK
<1>4. ListsOK'
  <2>1. \A d \in Dialogues : ~Listless(d)'
    BY <1>2, UnusedSlot DEF Listless
  <2> QED
    BY <1>1, <2>1, ListsStay DEF DialogueInv
<1>5. PictureOK'
  <2>1. \A d \in Dialogues : dialogue'[d].picture \in {dialogue[d].picture, 0}
    BY <1>2, UnusedSlot
  <2> QED
    BY <1>1, <2>1, PictureStays DEF DialogueInv
<1>6. Busy' = {} /\ \A c \in Chats : Alive(c)' = {} /\ Waiting(c)' = {}
  BY <1>2, UnusedSlot DEF Busy, Alive, Waiting, At
<1>7. WorkersOK'
  BY <1>6, FS_EmptySet, DialogueAssumption DEF WorkersOK
<1>8. ListenersOK'
  <2>1. \A c \in Chats : Cardinality(Alive(c)') = 0 /\ recent'[c] = 0 /\ listener'[c] = 0
    BY <1>1, <1>6, FS_EmptySet
  <2> QED
    BY <1>6, <2>1 DEF ListenersOK
<1> QED
  BY <1>3, <1>4, <1>5, <1>7, <1>8 DEF DialogueInv

LEMMA DispatchKeeps ==
  ASSUME DialogueInv, Dispatch
  PROVE  DialogueInv'
<1> DEFINE c == Head(queue).chat
           says == Head(queue).says
<1>1. queue \in Seq(Message) /\ queue # <<>>
  BY DEF Dispatch, DialogueInv, SlotsOK
<1>2. Head(queue) \in Message /\ Tail(queue) \in Seq(Message)
  BY <1>1
<1>3. c \in Chats
  BY <1>2 DEF Message
<1>4. Cardinality(Busy) < Workers /\ UNCHANGED disk
  BY DEF Dispatch
<1>5. \/ Replaced
      \/ queue' = Tail(queue) /\ listener[c] # 0 /\ Hear(c)
      \/ queue' = Tail(queue) /\ Begin(c)
      \/ queue' = Tail(queue) /\ UNCHANGED <<dialogue, listener, begun, recent>>
  BY DEF Dispatch
<1> HIDE DEF c, says
<1>6. CASE Replaced
  BY <1>4, <1>6, RestartKeeps DEF Restart
<1>7. CASE queue' = Tail(queue) /\ listener[c] # 0 /\ Hear(c)
  BY <1>2, <1>3, <1>4, <1>7, HearKeeps
<1>8. CASE queue' = Tail(queue) /\ Begin(c)
  BY <1>2, <1>3, <1>4, <1>8, BeginKeeps
<1>9. CASE queue' = Tail(queue) /\ UNCHANGED <<dialogue, listener, begun, recent>>
  BY <1>2, <1>4, <1>9, DropKeeps
<1> QED
  BY <1>5, <1>6, <1>7, <1>8, <1>9

-----------------------------------------------------------------------------
(* Every step.                                                             *)

LEMMA ProceedKeeps ==
  ASSUME DialogueInv, NEW d \in Dialogues, Proceed(d)
  PROVE  DialogueInv'
<1>1. CASE Ask(d)
  BY <1>1, AskKeeps
<1>2. CASE \E name \in FileNames : TakeList(d, name)
  BY <1>2, TakeListKeeps
<1>3. CASE ParseList(d)
  BY <1>3, ParseListKeeps
<1>4. CASE RefuseList(d)
  <2>1. /\ dialogue[d].stage = "opening" /\ Move(d, "refusing")
        /\ UNCHANGED <<queue, listener, disk, begun, recent>>
    BY <1>4 DEF RefuseList, At
  <2> QED
    BY <2>1, StageKeeps
<1>5. CASE RemoveRefused(d)
  <2>1. /\ dialogue[d].stage = "refusing" /\ Finish(d) /\ Remove(d)
        /\ UNCHANGED <<queue, listener, begun, recent, taken, fetches, thumb>>
    BY <1>5 DEF RemoveRefused, At
  <2> QED
    BY <2>1, FinishKeeps
<1>6. CASE TakeAnswer(d)
  BY <1>6, TakeAnswerKeeps
<1>7. CASE TakeThumb(d)
  BY <1>7, TakeThumbKeeps
<1>8. CASE StartBatch(d)
  <2>1. /\ dialogue[d].stage = "counting" /\ (Move(d, "sending") \/ Finish(d))
        /\ UNCHANGED <<queue, listener, disk, begun, recent>>
        /\ UNCHANGED <<queue, listener, begun, recent, taken, fetches, thumb, lists>>
    BY <1>8 DEF StartBatch, At, disk
  <2> QED
    BY <2>1, StageKeeps, FinishKeeps
<1>9. CASE End(d)
  <2>1. /\ dialogue[d].stage \notin {"none", "waiting", "over"} /\ Finish(d)
        /\ UNCHANGED <<queue, listener, begun, recent, taken, fetches, thumb, lists>>
    BY <1>9 DEF End, disk
  <2> QED
    BY <2>1, FinishKeeps
<1> QED
  BY <1>1, <1>2, <1>3, <1>4, <1>5, <1>6, <1>7, <1>8, <1>9 DEF Proceed

LEMMA DialogueInvStep == DialogueInv /\ [Next]_vars => DialogueInv'
<1> SUFFICES ASSUME DialogueInv, [Next]_vars PROVE DialogueInv'
  OBVIOUS
<1>1. CASE \E c \in Chats, says \in {"/txt", "/STOP", "words"} : Send(c, says)
  BY <1>1, SendKeeps
<1>2. CASE Dispatch
  BY <1>2, DispatchKeeps
<1>3. CASE \E d \in Dialogues : Proceed(d)
  BY <1>3, ProceedKeeps
<1>4. CASE Restart
  BY <1>4, RestartKeeps
<1>5. CASE UNCHANGED vars
  <2>1. UNCHANGED queue /\ UNCHANGED <<dialogue, listener, disk, begun, recent>>
    BY <1>5 DEF vars, disk
  <2>2. queue' \in Seq(Message)
    BY <2>1 DEF DialogueInv, SlotsOK
  <2> QED
    BY <2>1, <2>2, DropKeeps
<1> QED
  BY <1>1, <1>2, <1>3, <1>4, <1>5 DEF Next

\* The listeners, the lists, the picture and the workers, in every state.
THEOREM DialogueInvariance == Spec => []DialogueInv
<1>1. Init => DialogueInv
  BY DialogueInvInit
<1>2. DialogueInv /\ [Next]_vars => DialogueInv'
  BY DialogueInvStep
<1> QED
  BY <1>1, <1>2, PTL DEF Spec

-----------------------------------------------------------------------------
(* What it is for.                                                         *)

\* No dialogue is asked beyond the last question, a chat's listener is one of
\* its dialogues that waits, and no more dialogues run than there are workers
\* (main.py:277-347).
THEOREM TypesCorrect == Spec => []TypeOK
<1>1. DialogueInv => TypeOK
  BY DEF DialogueInv, SlotsOK, DialogueSlot, DialogueStages, Shape, ListenersOK, WorkersOK, TypeOK
<1> QED
  BY <1>1, DialogueInvariance, PTL

\* However many /txt a chat sends, one of its dialogues either need not be
\* answered or will be (main.py:277).
THEOREM OneIsHeard == Spec => []OneNeverUnheard
<1>1. DialogueInv => OneNeverUnheard
  <2> SUFFICES ASSUME DialogueInv, NEW c \in Chats, Unheard(c) # {}
               PROVE  Cardinality(Unheard(c)) < recent[c]
    BY DEF OneNeverUnheard
  <2>1. /\ recent[c] \in Nat /\ Cardinality(Alive(c)) <= recent[c]
        /\ listener[c] \in Waiting(c) \cup {0}
        /\ listener[c] = 0 => Waiting(c) = {} \/ Cardinality(Waiting(c)) < recent[c]
    BY DEF DialogueInv, SlotsOK, ListenersOK
  <2>2. Waiting(c) \subseteq Alive(c) /\ Alive(c) \subseteq Dialogues /\ Waiting(c) \subseteq Dialogues
    BY DEF Waiting, Alive, At
  <2>3. CASE listener[c] = 0
    <3>1. 0 \notin Waiting(c)
      BY <2>2 DEF Dialogues
    <3>2. Unheard(c) = Waiting(c)
      BY <2>3, <3>1 DEF Unheard
    <3> QED
      BY <2>1, <2>3, <3>2
  <2>4. CASE listener[c] \in Waiting(c)
    <3>1. /\ Cardinality(Waiting(c) \ {listener[c]}) = Cardinality(Waiting(c)) - 1
          /\ Cardinality(Waiting(c)) <= Cardinality(Alive(c))
          /\ Cardinality(Waiting(c)) \in Nat /\ Cardinality(Alive(c)) \in Nat
      BY <2>2, <2>4, FewDialogues
    <3>2. Cardinality(Waiting(c) \ {listener[c]}) < recent[c]
      BY <2>1, <3>1
    <3> QED
      BY <3>2 DEF Unheard
  <2> QED
    BY <2>1, <2>3, <2>4
<1> QED
  BY <1>1, DialogueInvariance, PTL

\* No list is worked off twice (main.py:286-293).
THEOREM ListsReadOnce == Spec => []ListsTakenOnce
<1>1. DialogueInv => ListsTakenOnce
  BY DEF DialogueInv, ListsOK, ListsTakenOnce, IsInjective
<1> QED
  BY <1>1, DialogueInvariance, PTL

\* A batch's picture is never one that was there before its own (main.py:354).
THEOREM PictureIsNotOlder == Spec => []PictureNotOlder
<1>1. DialogueInv => PictureNotOlder
  BY DEF DialogueInv, SlotsOK, DialogueSlot, PictureOK, PictureNotOlder
<1> QED
  BY <1>1, DialogueInvariance, PTL
=============================================================================
