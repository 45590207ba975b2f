------------------------------- MODULE MCWal -------------------------------
(* Model-checking instances of Wal.  A behaviour of Chosen has crashes of   *)
(* one kind: processes end, or the power fails.  (A power loss after a      *)
(* recovery from a process crash is left out, as the README explains.)      *)
EXTENDS Wal

VARIABLE kind \* the kind of crash of this behaviour

ChosenInit == Init /\ kind \in CrashKinds

ChosenNext ==
  /\ UNCHANGED kind
  /\ \/ Working
     \/ kind = "process" /\ ProcessCrash
     \/ kind = "power" /\ PowerLoss

Chosen == ChosenInit /\ [][ChosenNext]_<<vars, kind>>
=============================================================================
