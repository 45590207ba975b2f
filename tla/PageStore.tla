------------------------------ MODULE PageStore ------------------------------
(***************************************************************************)
(* What the pager promises to the B+Tree: a map from pages to contents     *)
(* with one transaction at a time and nested savepoints.  view is what a   *)
(* read returns, stored is what a crash leaves, and saved holds what view  *)
(* was when the transaction and each of its savepoints began.  A write     *)
(* that reports an I/O error may or may not be found by the next open;     *)
(* doubt holds the contents that it could leave.                           *)
(***************************************************************************)
EXTENDS Naturals, Sequences

CONSTANT Page

VARIABLES view, stored, saved, doubt

vars == <<view, stored, saved, doubt>>

\* v and w differ at most in one page.
OnePageApart(v, w) ==
  \E p \in Page : \A q \in Page \ {p} :
    /\ q \in DOMAIN v <=> q \in DOMAIN w
    /\ q \in DOMAIN v => v[q] = w[q]

\* Some content, the same in memory and in storage.
Init ==
  /\ DOMAIN view \subseteq Page
  /\ stored = view /\ saved = <<>> /\ doubt = {}

\* Inside a transaction only view changes, one page at a time.
Work ==
  /\ saved # <<>>
  /\ OnePageApart(view, view')
  /\ UNCHANGED <<stored, saved, doubt>>

\* Outside one, a page that is written is stored at once.
AutoWork ==
  /\ saved = <<>> /\ doubt = {}
  /\ OnePageApart(view, view')
  /\ stored' = view'
  /\ UNCHANGED <<saved, doubt>>

\* The write reports an error.
AutoWorkFails ==
  /\ saved = <<>> /\ doubt = {}
  /\ OnePageApart(view, view')
  /\ \E w \in doubt' : doubt' = {w} /\ OnePageApart(stored, w)
  /\ UNCHANGED <<stored, saved>>

\* Nothing is promised about what is read after that, until the next open.
Unreliable ==
  /\ saved = <<>> /\ doubt # {}
  /\ UNCHANGED <<stored, saved, doubt>>

Begin ==
  /\ saved = <<>>
  /\ saved' = <<view>>
  /\ UNCHANGED <<view, stored, doubt>>

\* SAVEPOINT begins a transaction when there is none.
Savepoint ==
  /\ saved' = IF saved = <<>> THEN <<view, view>> ELSE Append(saved, view)
  /\ UNCHANGED <<view, stored, doubt>>

Commit ==
  /\ saved # <<>> /\ doubt = {}
  /\ stored' = view
  /\ saved' = <<>>
  /\ UNCHANGED <<view, doubt>>

\* A commit that fails leaves the transaction open.
CommitFails ==
  /\ saved # <<>>
  /\ doubt' = {} \/ (doubt = {} /\ doubt' = {view})
  /\ UNCHANGED <<view, stored, saved>>

\* A rollback settles what a failed commit left, or leaves it to the next open.
Rollback ==
  /\ saved # <<>>
  /\ view' = saved[1]
  /\ saved' = <<>>
  /\ doubt' \in {{}, doubt}
  /\ UNCHANGED stored

\* The savepoint stays open when the rollback succeeds.
RollbackTo ==
  \E k \in 2 .. Len(saved) :
    /\ view' = saved[k]
    /\ \/ saved' = SubSeq(saved, 1, k) /\ doubt' = {}
       \/ saved' = SubSeq(saved, 1, k - 1) /\ UNCHANGED doubt
    /\ UNCHANGED stored

Release ==
  \E k \in 2 .. Len(saved) :
    /\ saved' = SubSeq(saved, 1, k - 1)
    /\ UNCHANGED <<view, stored, doubt>>

Crash ==
  /\ view' \in {stored} \cup doubt
  /\ stored' = view'
  /\ saved' = <<>>
  /\ doubt' = {}

Next ==
  \/ Work \/ AutoWork \/ AutoWorkFails \/ Unreliable
  \/ Begin \/ Savepoint \/ Commit \/ CommitFails \/ Rollback \/ RollbackTo \/ Release
  \/ Crash

Spec == Init /\ [][Next]_vars

=============================================================================
