------------------------------ MODULE LatestWord ------------------------------
(***************************************************************************)
(* What a mailbox between the two clock domains of the VCXO controller     *)
(* promises.  One side offers words; the other side receives whole words,  *)
(* each of them the newest word on offer when it was put in the mailbox.   *)
(* Words may be skipped (a newer one supersedes them); no word is invented,*)
(* torn, or replaced while it is on its way.                               *)
(***************************************************************************)
CONSTANTS
  Word,     \* the words that can be offered
  Zero      \* the word both sides hold after a reset

VARIABLES
  offered,    \* the newest word of the sending side
  carried,    \* the word in the mailbox
  travelling, \* TRUE while the receiver has not taken the word in the mailbox
  delivered   \* the word the receiving side uses

vars == <<offered, carried, travelling, delivered>>

Init ==
  /\ offered = Zero
  /\ carried = Zero
  /\ travelling = FALSE
  /\ delivered = Zero

\* A newer word is offered while the mailbox is left alone.
Offer ==
  /\ offered' \in Word
  /\ UNCHANGED <<carried, travelling, delivered>>

\* The newest word, possibly offered in this very step, enters the mailbox.
Launch ==
  /\ ~travelling
  /\ offered' \in Word
  /\ carried' = offered'
  /\ travelling' = TRUE
  /\ UNCHANGED delivered

\* The receiver takes the word in the mailbox.
Land ==
  /\ travelling
  /\ delivered' = carried
  /\ travelling' = FALSE
  /\ UNCHANGED <<offered, carried>>

\* Both sides are reset together.
Reset ==
  /\ offered' = Zero
  /\ carried' = Zero
  /\ travelling' = FALSE
  /\ delivered' = Zero

Next == Offer \/ Launch \/ Land \/ Reset

Spec == Init /\ [][Next]_vars
===============================================================================
