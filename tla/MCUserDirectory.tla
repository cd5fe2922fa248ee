-------------------------- MODULE MCUserDirectory --------------------------
(***************************************************************************)
(* The instance of UserDirectory for TLC. "sharp'" stands for a name that  *)
(* ends in a sharp s and a combining acute accent: folding makes "ss'" of  *)
(* it, and only then does the second s compose with the accent. "spacing"  *)
(* begins with a character whose compatibility form is a space and a mark, *)
(* "wide@x" is an address of compatibility characters.                     *)
(***************************************************************************)
EXTENDS UserDirectory

Accounts == {"u1", "u2"}

Names == {"Person", "person", "sharp'", "ss'", "s-acute", "spacing", " bare", "bare"}
Numbers == {"98765 43210", "+919876543210"}
Addresses == {"Me@x", "me@x", "wide@x", "me@"}

AllTexts == Names \cup Numbers \cup Addresses

Composed ==
  [t \in AllTexts |->
     CASE t = "ss'" -> "s-acute" [] t = "wide@x" -> "me@x"
       [] t = "spacing" -> " bare" [] t = " bare" -> "bare" [] OTHER -> t]
Folded ==
  [t \in AllTexts |->
     CASE t = "Person" -> "person" [] t = "sharp'" -> "ss'"
       [] t = "Me@x" -> "me@x" [] OTHER -> t]
Mail ==
  [t \in {"Me@x", "me@x", "wide@x"} |-> IF t = "wide@x" THEN t ELSE "me@x"]

\* At home the short number is a phone number; abroad it is none.
Numbering ==
  [region \in {"home", "abroad"} |->
     [t \in IF region = "home" THEN Numbers ELSE {"+919876543210"} |->
        "+919876543210"]]

Account(id, email, phone, username) ==
  [id |-> id, email |-> email, phone |-> phone, username |-> username]

\* Every name and number in either place, alone and with an address, and an
\* entry with no identifier.
Candidates ==
  {Account(id, None, None, name) : id \in Accounts, name \in Names \cup Numbers \cup {"me@x"}}
    \cup {Account(id, None, number, None) : id \in Accounts, number \in Numbers \cup {"person"}}
    \cup {Account(id, email, None, None) : id \in Accounts, email \in Addresses}
    \cup {Account("u1", None, None, None)}
    \cup {Account("u2", "Me@x", "98765 43210", name) : name \in Names}
=============================================================================
