---------------------------- MODULE TokenBuckets ----------------------------
(***************************************************************************)
(* What rate limiting promises each client, whoever else there is and      *)
(* whatever is kept in memory: one bucket that starts with Burst tokens,   *)
(* gains Rate of them per tick up to Burst, and loses one per request let  *)
(* through.  No client gets more than Burst + Rate * t through in t ticks. *)
(***************************************************************************)
EXTENDS Naturals

CONSTANTS Clients, Burst, Rate

VARIABLE tokens

Init == tokens = [c \in Clients |-> Burst]

Admit(c) == tokens[c] > 0 /\ tokens' = [tokens EXCEPT ![c] = @ - 1]

Refill == tokens' = [c \in Clients |-> IF tokens[c] + Rate > Burst THEN Burst
                                       ELSE tokens[c] + Rate]

Next == Refill \/ \E c \in Clients : Admit(c)

Spec == Init /\ [][Next]_tokens

=============================================================================
