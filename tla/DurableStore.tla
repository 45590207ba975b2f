----------------------------- MODULE DurableStore -----------------------------
(***************************************************************************)
(* What the storage layer promises: a map from pages to contents that is   *)
(* changed only by whole transactions.  At most one transaction is in      *)
(* flight; a commit applies all of it at once, a rollback none of it, and  *)
(* a crash one or the other.  A content is the number of the transaction   *)
(* that wrote it.                                                          *)
(***************************************************************************)
EXTENDS Naturals

CONSTANTS Page, MaxTxn

VARIABLES
  image,    \* the committed content of each page
  attempt,  \* the pages of the transaction in flight, {} when there is none
  number    \* its number

vars == <<image, attempt, number>>

TypeOK ==
  /\ image \in [Page -> 0 .. MaxTxn]
  /\ attempt \in SUBSET Page
  /\ number \in 0 .. MaxTxn

Applied == [p \in Page |-> IF p \in attempt THEN number ELSE image[p]]

Init ==
  /\ image = [p \in Page |-> 0]
  /\ attempt = {}
  /\ number = 0

\* A new transaction, or the pages with which an open one is attempted.
Start ==
  /\ UNCHANGED image
  /\ \/ attempt = {} /\ number < MaxTxn /\ number' = number + 1
     \/ UNCHANGED number
  /\ attempt' \in SUBSET Page
  /\ attempt \subseteq attempt'

Commit ==
  /\ attempt # {}
  /\ image' = Applied
  /\ attempt' = {}
  /\ UNCHANGED number

Rollback ==
  /\ attempt' = {}
  /\ UNCHANGED <<image, number>>

Crash ==
  /\ image' \in {image, Applied}
  /\ attempt' = {}
  /\ UNCHANGED number

Next == Start \/ Commit \/ Rollback \/ Crash

Spec == Init /\ [][Next]_vars

=============================================================================
