---------------------------- MODULE OnceSession ----------------------------
(***************************************************************************)
(* What a session promises for each commit handed to it, however often its  *)
(* connection is lost: the commit is recorded at most once; a caller told   *)
(* that it was accepted finds it recorded; a caller told that it conflicts  *)
(* can count on it never being recorded, so that it may retry; and only the *)
(* end of the session leaves a caller without that knowledge.               *)
(***************************************************************************)
EXTENDS Naturals, Sequences, SequencesExt

CONSTANT Commits

VARIABLES applied,  \* the recorded commits, in the order they were recorded
          told      \* told[l]: what the caller of commit l was told

Init == applied = <<>> /\ told = [l \in Commits |-> "none"]

Record(l) ==
  /\ l \notin ToSet(applied) /\ told[l] # "conflict"
  /\ applied' = Append(applied, l)
  /\ UNCHANGED told

Answer(l, v) ==
  /\ told[l] = "none"
  /\ v = "accepted" => l \in ToSet(applied)
  /\ v = "conflict" => l \notin ToSet(applied)
  /\ told' = [told EXCEPT ![l] = v]
  /\ UNCHANGED applied

End ==
  /\ told' \in [Commits -> {"none", "accepted", "conflict", "error", "revoked"}]
  /\ \A l \in Commits : told'[l] # told[l] => told[l] = "none" /\ told'[l] = "revoked"
  /\ UNCHANGED applied

Next == \/ \E l \in Commits : Record(l) \/ \E v \in {"accepted", "conflict", "error"} : Answer(l, v)
        \/ End

Spec == Init /\ [][Next]_<<applied, told>>
=============================================================================
