-------------------------- MODULE MCBatchDownload --------------------------
(***************************************************************************)
(* Instances of BatchDownload for TLC.                                     *)
(***************************************************************************)
EXTENDS BatchDownload

CONSTANTS b1, b2

Line(title, kind, url, ext) == [title |-> title, kind |-> kind, url |-> url, ext |-> ext]

\* Two files sent in two chats at once, whose titles the cut at sixty letters has
\* made one; one of them ends in the blank line that text editors leave.
TwoFiles ==
  [b \in {b1, b2} |->
     IF b = b1 THEN <<Line("t1", "signed", "u1", "webm"), Line("t1", "video", "u2", "mp4"),
                      Line("t2", "pdf", "u3", "pdf")>>
               ELSE <<Line("t2", "drive", "u4", "pdf"), Line("", "bad", "u5", "mp4")>>]

\* A video of less than a minute and a document.
OneFile ==
  [b \in {b1} |-> <<Line("t1", "short", "u1", "mp4"), Line("t2", "drive", "u2", "pdf")>>]
=============================================================================
