------------------------------ MODULE CardService ------------------------------
(***************************************************************************)
(* What the mailbox of the card promises to those who ask for the card's   *)
(* information, whatever polls, retries and crashes lie underneath: a      *)
(* request is never written over one that is being answered, and nobody    *)
(* takes an answer that is not there or may still change.                  *)
(***************************************************************************)
CONSTANT Clients

VARIABLES
  letter,      \* what lies in the mailbox: a "request" or the "card"
  submitted,   \* the firmware has been told to answer it
  informed     \* the clients that have the card's information

vars == <<letter, submitted, informed>>

Init == letter = "request" /\ submitted = FALSE /\ informed = {}

Write  == submitted = FALSE /\ letter' = "request" /\ UNCHANGED <<submitted, informed>>

\* Also once more, after the answer.
Submit == submitted' = TRUE /\ UNCHANGED <<letter, informed>>

Answer == submitted = TRUE /\ submitted' = FALSE /\ letter' = "card" /\ UNCHANGED informed

Refuse == submitted = TRUE /\ submitted' = FALSE /\ UNCHANGED <<letter, informed>>

Take(c) ==
  /\ submitted = FALSE /\ letter = "card"
  /\ informed' = informed \cup {c}
  /\ UNCHANGED <<letter, submitted>>

\* A client asks again, or is gone.
Forget(c) == informed' = informed \ {c} /\ UNCHANGED <<letter, submitted>>

Next ==
  \/ Write \/ Submit \/ Answer \/ Refuse
  \/ \E c \in Clients : Take(c) \/ Forget(c)

Spec == Init /\ [][Next]_vars
=============================================================================
