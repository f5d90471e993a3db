-------------------------- MODULE RecoveryWindows --------------------------
(***************************************************************************)
(* What the per-service execution gate promises, without saying how: a     *)
(* service is either free or inside a recovery window, a window opens only *)
(* on a free service, and it shrinks only because time passes.              *)
(* remaining[s] is what is left of the window of s, 0 when s is free.       *)
(***************************************************************************)
EXTENDS Naturals

CONSTANTS Services, Windows

VARIABLE remaining

Init == remaining = [s \in Services |-> 0]

Open(s, w) == /\ remaining[s] = 0
              /\ remaining' = [remaining EXCEPT ![s] = w]

Elapse == remaining' = [s \in Services |->
                          IF remaining[s] = 0 THEN 0 ELSE remaining[s] - 1]

Next == Elapse \/ \E s \in Services, w \in Windows : Open(s, w)

Spec == Init /\ [][Next]_remaining

=============================================================================
