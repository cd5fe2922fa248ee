---------------------------- MODULE TxtDialogue ----------------------------
(***************************************************************************)
(* The questions of the /txt command in main.py, before its batch starts:  *)
(* a list of links, where to start, a name, a resolution, a highlighter,   *)
(* a picture. Dialogues of several chats, and of one chat, run at once.    *)
(*                                                                         *)
(* Two libraries carry it. The dispatcher of pyrogram hands each message   *)
(* to a worker, which is busy until the handler returns: for a /txt, until *)
(* the last file of its batch is sent. The listen() of pyromod keeps one   *)
(* listener per chat; the next message of the chat goes to it, whatever it *)
(* says, and a later listen() of the same chat takes its place.            *)
(***************************************************************************)
EXTENDS Integers, Sequences, FiniteSets, Functions

CONSTANTS
  Chats,
  Workers,       \* how many workers the dispatcher has
  Kept,          \* answers only kept: name, resolution and highlighter
  FileNames,     \* names under which lists are sent
  MaxQueue,      \* bound: messages waiting for a worker
  MaxTxt         \* bound: dialogues begun in a behaviour

ASSUME DialogueAssumption ==
  /\ Workers \in Nat /\ Kept \in Nat /\ MaxQueue \in Nat /\ MaxTxt \in Nat

\* The dialogues, in the order they begin.
Dialogues == 1 .. MaxTxt

VARIABLES
  queue,       \* messages not yet taken by a worker
  dialogue,    \* what each dialogue is doing
  listener,    \* pyromod: chat -> the dialogue that listens, or 0
  lists,       \* downloads/: file name -> the dialogue it was sent to
  taken,       \* the lists read so far, in order
  fetches,     \* wget commands so far
  thumb,       \* thumb.jpg: the fetch it is of; 0 when there is none
  begun,       \* dialogues begun so far
  recent       \* dialogues begun in each chat since the process started

vars == <<queue, dialogue, listener, lists, taken, fetches, thumb, begun, recent>>
disk == <<lists, taken, fetches, thumb>>

-----------------------------------------------------------------------------
(* The questions, in their order.                                          *)

Asks(q) ==
  IF q = 1 THEN "list" ELSE IF q = 2 THEN "number"
  ELSE IF q < 3 + Kept THEN "kept" ELSE "thumb"

\* number tells whether the answer to the second question is one; picture is
\* the fetch of this dialogue, 0 when it asked for none.
Unused == [stage |-> "none", chat |-> "none", q |-> 1, file |-> "none",
           number |-> FALSE, picture |-> 0]
Over == [Unused EXCEPT !.stage = "over"]

At(d, stage) == dialogue[d].stage = stage
Move(d, stage) == dialogue' = [dialogue EXCEPT ![d].stage = stage]
Finish(d) == dialogue' = [dialogue EXCEPT ![d] = Over]
Asked(d) == Asks(dialogue[d].q)

\* On to the next question: the message that asks it is on its way.
Following(d) == [dialogue[d] EXCEPT !.stage = "asking", !.q = @ + 1]

\* Every dialogue under way keeps a worker busy.
Busy == {d \in Dialogues : dialogue[d].stage \notin {"none", "over"}}

-----------------------------------------------------------------------------
(* Messages.                                                               *)

IsTxt(message) == message.says = "/txt"

Send(chat, says) ==
  /\ Len(queue) < MaxQueue
  /\ says = "/txt" => begun + Len(SelectSeq(queue, IsTxt)) < MaxTxt
  /\ queue' = Append(queue, [chat |-> chat, says |-> says])
  /\ UNCHANGED <<dialogue, listener, disk, begun, recent>>

\* The chat's listener takes the message, even a /txt or a /STOP.
Hear(c) ==
  /\ Move(listener[c], "answered")
  /\ listener' = [listener EXCEPT ![c] = 0]
  /\ UNCHANGED <<begun, recent>>

\* main.py:268-276.
Begin(c) ==
  /\ begun' = begun + 1
  /\ dialogue' = [dialogue EXCEPT
       ![begun'] = [Unused EXCEPT !.stage = "asking", !.chat = c]]
  /\ recent' = [recent EXCEPT ![c] = @ + 1]
  /\ UNCHANGED listener

\* The process is replaced (main.py:261-264); its directory stays.
Replaced ==
  /\ queue' = <<>>
  /\ dialogue' = [d \in Dialogues |-> IF d <= begun THEN Over ELSE Unused]
  /\ listener' = [c \in Chats |-> 0]
  /\ recent' = [c \in Chats |-> 0]
  /\ UNCHANGED begun

\* A free worker takes the oldest message. Without a listener, a /txt begins a
\* dialogue, a /STOP replaces the process and anything else is dropped.
Dispatch ==
  /\ Cardinality(Busy) < Workers
  /\ queue # <<>>
  /\ LET c == Head(queue).chat
         says == Head(queue).says
     IN  IF listener[c] = 0 /\ says = "/STOP" THEN Replaced
         ELSE /\ queue' = Tail(queue)
              /\ \/ listener[c] # 0 /\ Hear(c)
                 \/ listener[c] = 0 /\ says = "/txt" /\ Begin(c)
                 \/ /\ listener[c] = 0 /\ says = "words"
                    /\ UNCHANGED <<dialogue, listener, begun, recent>>
  /\ UNCHANGED disk

Restart == Replaced /\ UNCHANGED disk

-----------------------------------------------------------------------------
(* A dialogue.                                                             *)

\* main.py:277, 302, 307, 313, 337, 347.
Listen_FixedChat(d) == [listener EXCEPT ![CHOOSE c \in Chats : TRUE] = d]
Listen(d) == [listener EXCEPT ![dialogue[d].chat] = d]

Ask(d) ==
  /\ At(d, "asking")
  /\ Move(d, "waiting")
  /\ listener' = Listen(d)
  /\ UNCHANGED <<queue, disk, begun, recent>>

\* main.py:278-279: a document is downloaded under the name it was sent with.
\* Anything else has nothing to download, and the handler ends (End).
TakeList(d, name) ==
  /\ At(d, "answered") /\ Asked(d) = "list"
  /\ dialogue' = [dialogue EXCEPT ![d].stage = "opening", ![d].file = name]
  /\ lists' = [n \in DOMAIN lists \cup {name} |->
                 IF n = name THEN d ELSE lists[n]]
  /\ UNCHANGED <<queue, listener, taken, fetches, thumb, begun, recent>>

\* os.remove(x)
Remove_Never(d) == UNCHANGED lists
Remove(d) == lists' = Restrict(lists, DOMAIN lists \ {dialogue[d].file})

\* main.py:286-293: whatever list bears the name by now is read and removed.
ParseList(d) ==
  /\ At(d, "opening")
  /\ dialogue[d].file \in DOMAIN lists
  /\ taken' = Append(taken, lists[dialogue[d].file])
  /\ dialogue' = [dialogue EXCEPT ![d] = [Following(d) EXCEPT !.file = "none"]]
  /\ Remove(d)
  /\ UNCHANGED <<queue, listener, fetches, thumb, begun, recent>>

\* main.py:295-296: it cannot be read, or is there no more.
RefuseList(d) ==
  /\ At(d, "opening")
  /\ Move(d, "refusing")
  /\ UNCHANGED <<queue, listener, disk, begun, recent>>

\* main.py:297-298: "Invalid file input." has been sent.
RemoveRefused(d) ==
  /\ At(d, "refusing")
  /\ Remove(d)
  /\ Finish(d)
  /\ UNCHANGED <<queue, listener, taken, fetches, thumb, begun, recent>>

\* main.py:303-345: the answers that are only kept.
TakeAnswer_Last(d) ==
  /\ At(d, "answered") /\ Asked(d) # "list"
  /\ dialogue' = [dialogue EXCEPT ![d] = Following(d)]
  /\ UNCHANGED <<queue, listener, disk, begun, recent>>
TakeAnswer(d) ==
  /\ At(d, "answered") /\ Asked(d) \notin {"list", "thumb"}
  /\ \E number \in BOOLEAN :
       dialogue' = [dialogue EXCEPT ![d] =
         [Following(d) EXCEPT
            !.number = IF Asked(d) = "number" THEN number ELSE @]]
  /\ UNCHANGED <<queue, listener, disk, begun, recent>>

\* main.py:354: wget -O empties the file before it asks for the address.
Fetch_KeepOld == thumb' \in {thumb, fetches'}
Fetch == thumb' = fetches'

\* main.py:348-357: for a url the picture is fetched; any other text is used
\* as it stands, "no" included.
TakeThumb(d) ==
  /\ At(d, "answered") /\ Asked(d) = "thumb"
  /\ \/ /\ fetches' = fetches + 1 /\ Fetch
        /\ dialogue' = [dialogue EXCEPT ![d].stage = "counting", ![d].picture = fetches']
     \/ Move(d, "counting") /\ UNCHANGED <<fetches, thumb>>
  /\ UNCHANGED <<queue, listener, lists, taken, begun, recent>>

\* main.py:359-364: the number counts unless there is a single link; one that
\* is none ends the handler without a word.
StartBatch(d) ==
  /\ At(d, "counting")
  /\ \/ Move(d, "sending")
     \/ ~dialogue[d].number /\ Finish(d)
  /\ UNCHANGED <<queue, listener, disk, begun, recent>>

\* The batch is over, or a call of Telegram's (a reply, a download, the removal
\* of an answer) failed, or the answer had no file or no text.
End_BatchStays(d) ==
  /\ dialogue[d].stage \in {"asking", "answered", "opening", "refusing"}
  /\ Finish(d)
  /\ UNCHANGED <<queue, listener, disk, begun, recent>>
End(d) ==
  /\ dialogue[d].stage \in
       {"asking", "answered", "opening", "refusing", "sending"}
  /\ Finish(d)
  /\ UNCHANGED <<queue, listener, disk, begun, recent>>

Init ==
  /\ queue = <<>>
  /\ dialogue = [d \in Dialogues |-> Unused]
  /\ listener = [c \in Chats |-> 0]
  /\ lists = [n \in {} |-> 0]
  /\ taken = <<>>
  /\ fetches = 0 /\ thumb = 0
  /\ begun = 0 /\ recent = [c \in Chats |-> 0]

Proceed(d) ==
  \/ Ask(d) \/ \E name \in FileNames : TakeList(d, name)
  \/ ParseList(d) \/ RefuseList(d) \/ RemoveRefused(d)
  \/ TakeAnswer(d) \/ TakeThumb(d) \/ StartBatch(d)
  \/ End(d)

Next ==
  \/ \E c \in Chats, says \in {"/txt", "/STOP", "words"} : Send(c, says)
  \/ Dispatch
  \/ \E d \in Dialogues : Proceed(d)
  \/ Restart

\* Workers and dialogues that can go on do: calls of Telegram's and batches end.
Fairness == WF_vars(Dispatch) /\ \A d \in Dialogues : WF_vars(Proceed(d))

Spec == Init /\ [][Next]_vars /\ Fairness

-----------------------------------------------------------------------------
(* Properties.                                                             *)

Waiting(c) == {d \in Dialogues : At(d, "waiting") /\ dialogue[d].chat = c}

\* Types: no dialogue is asked beyond the last question, and a chat's listener is a
\* dialogue of that chat that waits (main.py:277-347).
TypeOK ==
  /\ \A d \in Dialogues :
       /\ dialogue[d].stage \in {"none", "asking", "waiting", "answered", "opening",
                                "refusing", "counting", "sending", "over"}
       /\ dialogue[d].q \in 1 .. 3 + Kept
  /\ \A c \in Chats : listener[c] \in Waiting(c) \cup {0}
  /\ Cardinality(Busy) <= Workers

\* Of the dialogues a chat has begun, one is never left unheard: a dialogue
\* that waits for an answer which will go to another has been overtaken by a
\* second /txt of its own chat, and each /txt costs one at most (main.py:277).
Unheard(c) == Waiting(c) \ {listener[c]}
OneNeverUnheard ==
  \A c \in Chats : Unheard(c) # {} => Cardinality(Unheard(c)) < recent[c]

\* A list is worked off once at most, by whichever dialogue: lists of several
\* chats sent under one name overwrite each other between the download and
\* the reading, and a reader may get another's, but no two the same one (the
\* os.remove of main.py:293).
ListsTakenOnce == IsInjective(taken)

\* The picture sent with a batch's videos is the one its own dialogue fetched
\* or one fetched later, by any dialogue, since all share thumb.jpg; never one
\* that an earlier dialogue, or process, left there (main.py:354).
PictureNotOlder ==
  \A d \in Dialogues : At(d, "sending") => thumb >= dialogue[d].picture

\* Messages do not stop being taken while some wait, unless every worker is
\* busy with a dialogue that waits for an answer, which no worker is left to
\* take (main.py:268-347).
Deaf == Cardinality({d \in Dialogues : At(d, "waiting")}) = Workers
MessagesTaken ==
  \/ []<>(queue = <<>> \/ Deaf)
  \/ []<><<Len(queue') < Len(queue)>>_queue
=============================================================================
