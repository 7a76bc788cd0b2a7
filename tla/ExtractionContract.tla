-------------------------- MODULE ExtractionContract --------------------------
(***************************************************************************)
(* What background extraction promises about the prose events it accepted: *)
(* they wait in line, and they leave it from the front only, in groups,    *)
(* each group extracted or failed as a whole; an event leaves once.  When  *)
(* the engine ends, whoever still waits is abandoned.                      *)
(***************************************************************************)
EXTENDS Naturals, Sequences

CONSTANT Events

VARIABLES line,    \* accepted events, oldest first
          fate     \* what became of each event

ecvars == <<line, fate>>

Fates == {"new", "waiting", "extracted", "failed", "abandoned"}

ContractInit == /\ line = <<>>
                /\ fate = [e \in Events |-> "new"]

Accept(e) == /\ fate[e] = "new"
             /\ line' = Append(line, e)
             /\ fate' = [fate EXCEPT ![e] = "waiting"]

(* The first k events in line leave it with the same outcome.              *)
Leave(k, outcome) ==
  LET group == {line[i] : i \in 1..k}
  IN  /\ line' = SubSeq(line, k + 1, Len(line))
      /\ fate' = [e \in Events |-> IF e \in group THEN outcome ELSE fate[e]]

ContractNext ==
  \/ \E e \in Events : Accept(e)
  \/ \E k \in 1..Len(line), outcome \in {"extracted", "failed"} : Leave(k, outcome)
  \/ Leave(Len(line), "abandoned")

ContractSpec == ContractInit /\ [][ContractNext]_ecvars
===============================================================================
