------------------------------ MODULE LockFile ------------------------------
(***************************************************************************)
(* Processes that open a database file, and backups that replace it,       *)
(* behind the lock file beside it (src/pager/mod.rs).                      *)
(*                                                                         *)
(* A step is a call of the file system.  The base file holds a snapshot,   *)
(* named by a number; the log holds commits made on top of one.  The number *)
(* of a process that has ended is not given to another one.                *)
(***************************************************************************)
EXTENDS Naturals, FiniteSets

CONSTANTS
  Process,
  Gone,        \* the maker of a file, when that process has ended
  MaxSnapshot, \* bound: snapshots that are taken, or databases created
  MaxCommits   \* bound: commits in the log

LockAssumption == Gone \notin Process
ASSUME LockAssumption

VARIABLES
  pc,     \* where each process is
  lock,   \* the file at the path of the lock: what is in it, and who made it
  base,   \* the base file: a snapshot, None or Torn
  under,  \* what a power loss may leave of it
  log,    \* the log: how many commits, and the snapshot they belong to
  staged, \* the copy that a backup makes
  last,   \* the number of the last snapshot
  raced,  \* history: two processes were about to remove a stale lock at the same time
  robbed  \* history: those whose lock file was removed by another one

fileVars == <<base, under, log, staged, last>>
vars     == <<pc, lock, fileVars, raced, robbed>>

NoLock == [file |-> "none", by |-> Gone]
None   == 0
Torn   == MaxSnapshot + 1
NoLog  == [commits |-> 0, of |-> None]
NoCopy == [snapshot |-> None, whole |-> FALSE, over |-> FALSE]

Opening   == {"created", "opening"}
BackingUp == {"lockedForBackup", "copying", "copied", "installed"}

\* The processes that use the database, or replace it.
Holders == {p \in Process : pc[p] \in {"opening", "using"} \cup (BackingUp \ {"lockedForBackup"})}

At(p, step) == pc[p] = step
Goes(p, step) == pc' = [pc EXCEPT ![p] = step]

-----------------------------------------------------------------------------
(* The lock file.                                                          *)

\* The file that p makes has no number at first.
Made(p) == [file |-> "empty", by |-> p]

\* The number is written to the file that p has made.  When that was removed in the
\* meantime, the file at the path is another one, and stays as it is.
WritesNumber(p) == lock' = IF lock = Made(p) THEN [lock EXCEPT !.file = "numbered"] ELSE lock

\* Process p removes the file at the path, whoever made it.
Removes(p) == lock' = NoLock /\ robbed' = (robbed \cup ({lock.by} \ {Gone})) \ {p}

\* open_with_cipher: create_new
CreateLock(p) ==
  /\ At(p, "idle") /\ lock = NoLock
  /\ lock' = Made(p) /\ Goes(p, "created")
  /\ UNCHANGED <<fileVars, raced, robbed>>

\* The number is written when the file is there already.
WritePid(p) ==
  /\ At(p, "created")
  /\ WritesNumber(p) /\ Goes(p, "opening")
  /\ UNCHANGED <<fileVars, raced, robbed>>

\* Fault: a lock file without a number is taken for a stale one.
StaleOrEmpty == lock.file = "empty" \/ (lock.file = "numbered" /\ lock.by = Gone)

\* A lock is stale when the process whose number it holds is gone.
Stale == lock.file = "numbered" /\ lock.by = Gone

\* The lock exists: its process is looked up.  When it lives the caller gets Busy.
FindStale(p) ==
  /\ At(p, "idle") /\ Stale
  /\ raced' = (raced \/ \E q \in Process : At(q, "stale"))
  /\ Goes(p, "stale")
  /\ UNCHANGED <<lock, fileVars, robbed>>

\* The file at the path is removed, which need not be the one that was looked at.
RemoveStale(p) ==
  /\ At(p, "stale")
  /\ Removes(p) /\ Goes(p, "removed")
  /\ UNCHANGED <<fileVars, raced>>

CreateAgain(p) ==
  /\ At(p, "removed")
  /\ \/ lock = NoLock /\ lock' = Made(p) /\ Goes(p, "created")
     \/ lock # NoLock /\ UNCHANGED lock /\ Goes(p, "idle")
  /\ UNCHANGED <<fileVars, raced, robbed>>

\* The guard of a failed call, and the end of a pager, remove the lock.
Unlock(p) == Removes(p) /\ Goes(p, "idle") /\ UNCHANGED raced

-----------------------------------------------------------------------------
(* Using the database.                                                     *)

\* A missing base file is created, unless there are commits for it in the log; a
\* log is recovered into the base file.
Open(p) ==
  /\ At(p, "opening") /\ base # Torn
  /\ \/ /\ base # None
        /\ UNCHANGED <<base, under, last>>
        /\ log' = NoLog
     \/ /\ base = None /\ log.commits = 0 /\ last < MaxSnapshot
        /\ base' = last + 1 /\ under' = {base'}
        /\ last' = last + 1
        /\ UNCHANGED log
  /\ Goes(p, "using")
  /\ UNCHANGED <<lock, staged, raced, robbed>>

OpenFails(p) ==
  /\ At(p, "opening")
  /\ Unlock(p)
  /\ UNCHANGED fileVars

\* The log file is younger than a backup that was installed before: on a journalling
\* file system its synchronization makes that renaming durable as well.
Commit(p) ==
  /\ At(p, "using") /\ log.commits < MaxCommits
  /\ log' = [commits |-> log.commits + 1, of |-> base] /\ under' = {base}
  /\ UNCHANGED <<pc, lock, base, staged, last, raced, robbed>>

\* The pager is dropped, with or without a checkpoint before.
Close(p) ==
  /\ At(p, "using")
  /\ log' \in {log, NoLog}
  /\ Unlock(p)
  /\ UNCHANGED <<base, under, staged, last>>

-----------------------------------------------------------------------------
(* backup_to_options: the database is replaced by a snapshot of another.   *)

BackupLock(p) ==
  /\ At(p, "idle") /\ lock = NoLock /\ last < MaxSnapshot
  /\ \E over \in BOOLEAN :
       staged' = [staged EXCEPT ![p] = [snapshot |-> last + 1, whole |-> FALSE,
                                        over |-> over]]
  /\ last' = last + 1
  /\ lock' = Made(p) /\ Goes(p, "lockedForBackup")
  /\ UNCHANGED <<base, under, log, raced, robbed>>

\* Fault: the log of the old database stays beside the new one.
BackupCheckLogKept(p) ==
  /\ At(p, "lockedForBackup")
  /\ staged[p].over \/ base = None
  /\ WritesNumber(p) /\ Goes(p, "copying")
  /\ UNCHANGED <<fileVars, raced, robbed>>

\* The number is written, and the destination looked at: it must not exist when
\* it is not to be replaced, and its log must be empty.
BackupCheck(p) ==
  /\ At(p, "lockedForBackup")
  /\ staged[p].over \/ base = None
  /\ log.commits = 0
  /\ WritesNumber(p) /\ log' = NoLog /\ Goes(p, "copying")
  /\ UNCHANGED <<base, under, staged, last, raced, robbed>>

\* The pages are written and synchronized.
BackupCopy(p) ==
  /\ At(p, "copying")
  /\ staged' = [staged EXCEPT ![p].whole = TRUE]
  /\ Goes(p, "copied")
  /\ UNCHANGED <<lock, base, under, log, last, raced, robbed>>

\* Fault: the pages are written in place.
InstallInPlace(p) ==
  /\ At(p, "copied") /\ (staged[p].over \/ base = None)
  /\ base' = staged[p].snapshot /\ under' = {Torn, base'}
  /\ Goes(p, "installed")
  /\ UNCHANGED <<lock, log, staged, last, raced, robbed>>

\* persist or persist_noclobber, by renaming: what a power loss leaves is the old
\* file or the new one.
Install(p) ==
  /\ At(p, "copied") /\ (staged[p].over \/ base = None)
  /\ base' = IF staged[p].whole THEN staged[p].snapshot ELSE Torn
  /\ under' = under \cup {base'}
  /\ Goes(p, "installed")
  /\ UNCHANGED <<lock, log, staged, last, raced, robbed>>

\* The directory is synchronized and the lock removed.
BackupDone(p) ==
  /\ At(p, "installed")
  /\ under' = {base}
  /\ staged' = [staged EXCEPT ![p] = NoCopy]
  /\ Unlock(p)
  /\ UNCHANGED <<base, log, last>>

\* An I/O call or a check fails; the copy and the lock are removed.
BackupFails(p) ==
  /\ pc[p] \in BackingUp
  /\ staged' = [staged EXCEPT ![p] = NoCopy]
  /\ Unlock(p)
  /\ UNCHANGED <<base, under, log, last>>

-----------------------------------------------------------------------------
(* The end of a process, and of all.                                       *)

\* Whoever has made the file at the path is gone.
MakersEnd(ended) == lock' = IF lock.by \in ended THEN [lock EXCEPT !.by = Gone] ELSE lock

\* A process ends where it is; another one starts.
Die(p) ==
  /\ ~ At(p, "idle")
  /\ Goes(p, "idle") /\ MakersEnd({p})
  /\ staged' = [staged EXCEPT ![p] = NoCopy]
  /\ robbed' = robbed \ {p}
  /\ UNCHANGED <<base, under, log, last, raced>>

\* No process survives a power loss.
PowerLoss ==
  /\ base' \in under /\ under' = {base'}
  /\ pc' = [p \in Process |-> "idle"] /\ staged' = [p \in Process |-> NoCopy]
  /\ MakersEnd(Process) /\ robbed' = {}
  /\ UNCHANGED <<log, last, raced>>

-----------------------------------------------------------------------------
(* The specification.                                                      *)

Init ==
  /\ pc = [p \in Process |-> "idle"]
  /\ lock = NoLock /\ base = None /\ under = {None} /\ log = NoLog
  /\ staged = [p \in Process |-> NoCopy]
  /\ last = 0 /\ raced = FALSE /\ robbed = {}

Next ==
  \/ \E p \in Process :
       \/ CreateLock(p) \/ WritePid(p) \/ FindStale(p) \/ RemoveStale(p) \/ CreateAgain(p)
       \/ Open(p) \/ OpenFails(p) \/ Commit(p) \/ Close(p)
       \/ BackupLock(p) \/ BackupCheck(p) \/ BackupCopy(p) \/ Install(p) \/ BackupDone(p)
       \/ BackupFails(p) \/ Die(p)
  \/ PowerLoss

Spec == Init /\ [][Next]_vars

-----------------------------------------------------------------------------
(* Properties.                                                             *)

\* The types; and a copy is there exactly as long as the backup that makes it.
TypeOK ==
  /\ \A p \in Process : /\ pc[p] \in {"idle", "stale", "removed", "using"} \cup Opening \cup BackingUp
                        /\ staged[p].snapshot \in 0 .. MaxSnapshot
                        /\ staged[p] # NoCopy <=> pc[p] \in BackingUp
  /\ lock.file \in {"none", "empty", "numbered"} /\ lock.by \in Process \cup {Gone}
  /\ base \in 0 .. Torn /\ base \in under
  /\ log.commits \in 0 .. MaxCommits /\ log.of \in 0 .. MaxSnapshot

\* Never do two processes use or replace the database at the same time, each with its lock.
\* A process loses its lock to another only after two were about to remove a stale one at the
\* same time: the second may remove the lock that the first has made in its place, and whoever
\* has lost its own will remove that of another when it ends.
OneHolder ==
  /\ \A p, q \in Holders : p # q => {p, q} \cap robbed # {}
  /\ robbed # {} => raced

\* Whoever uses or replaces the database is alone.
HolderIsAlone == Cardinality(Holders) <= 1

\* The base file is a whole snapshot whenever it is read, also after a power loss in
\* the middle of a backup; and the commits in the log belong to it, unless two processes were
\* about to remove a stale lock at the same time: a backup does not slip a new one under them.
LogBelongs ==
  /\ TypeOK
  /\ Torn \notin under
  /\ ~ raced /\ log.commits > 0 => \A b \in under : log.of = b

=============================================================================
