------------------------------- MODULE Relay -------------------------------
(***************************************************************************)
(* What an exchange promises its client, however the bytes get there: it is *)
(* given the answer from its beginning, in order and without holes, and the *)
(* exchange is not over before the answer is, unless there is an excuse.    *)
(***************************************************************************)
EXTENDS Naturals, Sequences

VARIABLES
  answer,      \* what the client is to be given
  delivered,   \* what it has been given
  over,        \* the exchange has ended well
  excused      \* it may end before the answer

RelayInit == delivered = << >> /\ over = FALSE

\* copy_w of the client, with something to send.
Deliver ==
  /\ ~over
  /\ \E n \in Len(delivered) + 1 .. Len(answer) :
       delivered' = SubSeq(answer, 1, n)
  /\ UNCHANGED <<answer, over>>

\* copy_w of the client, with everything sent and every flag set.
Finish ==
  /\ ~over
  /\ delivered = answer \/ excused
  /\ over' = TRUE
  /\ UNCHANGED <<answer, delivered>>

RelaySpec ==
  RelayInit /\ [][Deliver \/ Finish]_<<answer, delivered, over>>
=============================================================================
