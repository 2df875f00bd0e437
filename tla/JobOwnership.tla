---------------------------- MODULE JobOwnership ----------------------------
(***************************************************************************)
(* What the handover promises, without the protocol: a job has one holder  *)
(* or, while it moves, none; only the holder writes it; and whoever holds  *)
(* it next finds every write the last holder made.                         *)
(***************************************************************************)
EXTENDS Naturals

CONSTANT Jobs

VARIABLES
  holder,  \* the copy that may write the job
  text     \* the writes its content holds

Holders == {"home", "bot"}

TypeOK ==
  /\ holder \in [Jobs -> Holders \cup {"moving", "gone"}]
  /\ text \in [Jobs -> Nat]

Init ==
  /\ holder \in [Jobs -> Holders]
  /\ text = [j \in Jobs |-> 0]

Keep(j) == holder'[j] = holder[j] /\ text'[j] = text[j]

Write(j) ==
  /\ holder[j] \in Holders
  /\ holder'[j] = holder[j]
  /\ text'[j] = text[j] + 1

\* The holder gives the job up; queueing it is the holder's last write.
Release(j) ==
  /\ holder[j] \in Holders
  /\ holder'[j] = "moving"
  /\ text'[j] \in {text[j], text[j] + 1}

\* A job never passes from one copy to the other without being released first,
\* and the taker finds it as it was released.
Take(j) ==
  /\ holder[j] = "moving"
  /\ holder'[j] \in Holders
  /\ text'[j] = text[j]

Delete(j) ==
  /\ holder[j] \in Holders
  /\ holder'[j] = "gone"
  /\ text'[j] = 0

Next == \A j \in Jobs : Keep(j) \/ Write(j) \/ Release(j) \/ Take(j) \/ Delete(j)

Spec == Init /\ [][Next]_<<holder, text>>

=============================================================================
