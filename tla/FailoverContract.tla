-------------------------- MODULE FailoverContract --------------------------
(***************************************************************************)
(* What failover promises whoever pays for and waits for a request: each   *)
(* credential is contacted once at most, so many in all at most, nobody    *)
(* after the answer has been written, and the answer is written once.      *)
(***************************************************************************)
EXTENDS Naturals

CONSTANTS Creds, MaxContacts

VARIABLES
  contacted,    \* the credentials that were contacted
  count,        \* how many contacts there were
  answered      \* the answer was written

vars == <<contacted, count, answered>>

Init == contacted = {} /\ count = 0 /\ answered = FALSE

Contact(c) ==
  /\ c \notin contacted
  /\ count < MaxContacts
  /\ contacted' = contacted \cup {c}
  /\ count' = count + 1

\* The last contact may bring the answer along.
Next ==
  /\ ~answered
  /\ \/ \E c \in Creds : Contact(c)
     \/ UNCHANGED <<contacted, count>>
  /\ answered' \in BOOLEAN

Spec == Init /\ [][Next]_vars
=============================================================================
