------------------------------ MODULE AtomicSave ------------------------------
(***************************************************************************)
(* What a save promises about the file it writes, whatever fails and       *)
(* whatever other programs do meanwhile: they see the old file, and then   *)
(* the whole new one, or, if it fails, the old one for ever.               *)
(***************************************************************************)
CONSTANT Pictures       \* what a file may hold, all of it

VARIABLES target,       \* what other programs see
          phase,        \* "none", "saving", "saved" or "failed"
          others        \* how often other programs have changed something

Begin == phase = "none" /\ phase' = "saving" /\ UNCHANGED others
Write == /\ phase = "saving" /\ phase' = "saved"
         /\ target' \in Pictures /\ UNCHANGED others
NothingToSave == phase = "saving" /\ phase' = "saved" /\ UNCHANGED <<target, others>>
Fail == phase = "saving" /\ phase' = "failed" /\ UNCHANGED <<target, others>>
Other == others' # others /\ UNCHANGED phase

Next == Begin \/ Write \/ NothingToSave \/ Fail \/ Other
Stutter == UNCHANGED <<target, phase, others>>
=============================================================================
