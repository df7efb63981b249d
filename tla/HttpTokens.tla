----------------------------- MODULE HttpTokens -----------------------------
(***************************************************************************)
(* The characters request.c and response.c read, as far as they tell them   *)
(* apart: the four that have a meaning of their own, and words, each of     *)
(* which stands for the run of ordinary characters it is spelled with,      *)
(* lower-cased as the parsers do.  A parser that is fed a word does what it *)
(* does when it is fed its characters one by one.                           *)
(***************************************************************************)
EXTENDS Naturals, Sequences

CONSTANTS
  Name,      \* names of header fields
  First,     \* the first letter of a name
  Text,      \* words of no special meaning
  Number,    \* words of digits
  ValueOf,   \* what a word of digits is worth
  MaxWords   \* bound on the words of a value that a parser stores

\* The names a parser knows are spelled as they are.
ASSUME FirstAssumption ==
  /\ DOMAIN First = Name
  /\ \A n \in Name :
       /\ n = "host" => First[n] = "h"
       /\ n = "transfer-encoding" => First[n] = "t"
       /\ n \in {"content-length", "content-type", "content-encoding"} =>
            First[n] = "c"

ASSUME NumberAssumption == ValueOf \in [Number -> Nat]

ASSUME MaxWordsAssumption == MaxWords \in Nat \ {0}

CR == "\\r"
LF == "\\n"
SP == " "
COLON == ":"

Special == {CR, LF, SP, COLON}

\* A word is none of the four.
ASSUME WordsAssumption == (Name \union Text \union Number) \intersect Special = {}

White == {CR, LF, SP}

\* Names that begin with one of some letters, case set aside.
Beginning(letters) == {n \in Name : First[n] \in letters}

\* A value no parser stores: anything up to the end of the line.
InLine == Text \union Number \union Name \union {SP, COLON}

\* The tokens of b after those of White it starts with.
Trim(b) ==
  LET dark == {i \in 1..Len(b) : b[i] \notin White} IN
  IF dark = {}
  THEN << >>
  ELSE SubSeq(b, CHOOSE i \in dark : \A j \in dark : i <= j, Len(b))

\* atoi: leading white space, then digits; 0 when there are none.
Atoi(b) ==
  IF Trim(b) # << >> /\ Head(Trim(b)) \in Number
  THEN ValueOf[Head(Trim(b))]
  ELSE 0
=============================================================================
