------------------------------ MODULE IotImport ------------------------------
(***************************************************************************)
(* A device whose capsules are imported into a database (src/iot.rs).      *)
(*                                                                         *)
(* The transport loses, repeats and reorders capsules.  An import is one   *)
(* transaction of a session, which commits as a whole or not at all (see   *)
(* Session): it checks the head of the slot, writes the memory document    *)
(* or deletes it, and writes the head.                                     *)
(***************************************************************************)
EXTENDS MicroStore

CONSTANTS Blank \* values that the importer refuses: not text, or empty

VARIABLES
  head,   \* the capsule that was imported last, as __iot_heads describes it
  memory, \* the document of the slot, or Deleted
  import    \* the import in progress: the capsule and what it has written, or NoImport

vars == <<deviceVars, head, memory, import>>

NoImport == [stage |-> "none"]

-----------------------------------------------------------------------------
(* import_capsule.                                                         *)

\* The capsule is decoded before the transaction is begun.
Receive(c) ==
  /\ import = NoImport /\ c.value \notin Blank
  /\ import' = [stage |-> "check", capsule |-> c, head |-> head, memory |-> memory]
  /\ UNCHANGED <<deviceVars, head, memory>>

\* An older sequence number is stale, the same one a repetition or a conflict.
Checks(c) == c.sequence > import.head.sequence

Check ==
  /\ import.stage = "check"
  /\ import' = IF Checks(import.capsule) THEN [import EXCEPT !.stage = "memory"] ELSE NoImport
  /\ UNCHANGED <<deviceVars, head, memory>>

\* upsert_memory or delete_memories
WriteMemory ==
  /\ import.stage = "memory"
  /\ import' = [import EXCEPT !.stage = "head", !.memory = import.capsule.value]
  /\ UNCHANGED <<deviceVars, head, memory>>

WriteHead ==
  /\ import.stage = "head"
  /\ import' = [import EXCEPT !.stage = "commit", !.head = import.capsule]
  /\ UNCHANGED <<deviceVars, head, memory>>

\* Fault: the document is committed without the head.
CommitMemoryFirst ==
  /\ import.stage \in {"head", "commit"}
  /\ head' = import.head /\ memory' = import.memory
  /\ import' = IF import.stage = "commit" THEN NoImport ELSE import
  /\ UNCHANGED deviceVars

CommitImport ==
  /\ import.stage = "commit"
  /\ head' = import.head /\ memory' = import.memory
  /\ import' = NoImport
  /\ UNCHANGED deviceVars

\* A statement or the commit fails, or the gateway stops.
ImportFails ==
  /\ import # NoImport
  /\ import' = NoImport
  /\ UNCHANGED <<deviceVars, head, memory>>

-----------------------------------------------------------------------------

Init ==
  /\ DeviceInit
  /\ head = NoRecord /\ memory = Deleted /\ import = NoImport

Next ==
  \/ DeviceNext /\ UNCHANGED <<head, memory, import>>
  \/ \E c \in air : Receive(c)
  \/ Check \/ WriteMemory \/ WriteHead \/ CommitImport \/ ImportFails

Spec == Init /\ [][Next]_vars

-----------------------------------------------------------------------------
(* Properties.                                                             *)

\* Banks, calls and imports are well formed.
TypeOK ==
  /\ bank \in [Bank -> Contents] /\ kept \in [Bank -> SUBSET Contents]
  /\ call # Idle => call.bank \in Bank /\ call.record \in Record
  /\ \A b \in Bank : bank[b] \in kept[b]
  /\ acked \in 0 .. MaxWrites /\ tries \in 0 .. MaxTries /\ {cut, doubtful} \subseteq BOOLEAN
  /\ air \subseteq Record /\ head \in Record \cup {NoRecord}
  /\ memory \in Payload

\* The document and the head are those of one capsule that the device exported,
\* whatever stopped in between.
DocumentMatchesHead ==
  /\ TypeOK
  /\ head # NoRecord => head \in air
  /\ memory = head.value

=============================================================================
