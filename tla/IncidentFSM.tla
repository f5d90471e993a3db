---------------------------- MODULE IncidentFSM ----------------------------
(***************************************************************************)
(* The incident state machine of internal/operator/state/machine.go: the   *)
(* states, the table of allowed transitions, and Transition, which either  *)
(* moves an incident or refuses and leaves it as it was.  An incident is    *)
(* any record with a field "state"; the time stamps, the reason and the    *)
(* transition history the code appends are left out.                        *)
(***************************************************************************)

States == {"Healthy", "Warning", "Investigating", "DecisionMade",
           "RecoveryPlanned", "ExecutingRollback", "RollbackComplete",
           "Verifying", "VerificationFailed", "Retrying", "Waiting",
           "Recovered", "Failed"}

\* A plausible mistake, for the checks of the properties: a back-off that may
\* only follow a failed verification.
TargetsWithoutRetry ==
  [Healthy            |-> {"Warning"},
   Warning            |-> {"Investigating", "Recovered"},
   Investigating      |-> {"DecisionMade", "Recovered", "Failed"},
   DecisionMade       |-> {"RecoveryPlanned", "Waiting", "Failed"},
   RecoveryPlanned    |-> {"ExecutingRollback", "Waiting", "Failed"},
   ExecutingRollback  |-> {"RollbackComplete", "VerificationFailed", "Failed"},
   RollbackComplete   |-> {"Verifying", "VerificationFailed", "Failed"},
   Verifying          |-> {"Recovered", "VerificationFailed", "Failed"},
   VerificationFailed |-> {"Retrying", "Failed"},
   Retrying           |-> {"ExecutingRollback", "Failed"},
   Waiting            |-> {"ExecutingRollback", "Recovered", "Failed",
                           "Investigating"},
   Recovered          |-> {"Healthy", "Warning"},
   Failed             |-> {"Investigating", "Warning", "Healthy"}]

Targets ==
  [Healthy            |-> {"Warning"},
   Warning            |-> {"Investigating", "Recovered"},
   Investigating      |-> {"DecisionMade", "Recovered", "Failed"},
   DecisionMade       |-> {"RecoveryPlanned", "Waiting", "Failed"},
   RecoveryPlanned    |-> {"ExecutingRollback", "Waiting", "Failed"},
   ExecutingRollback  |-> {"RollbackComplete", "VerificationFailed", "Failed",
                           "Retrying"},
   RollbackComplete   |-> {"Verifying", "VerificationFailed", "Failed"},
   Verifying          |-> {"Recovered", "VerificationFailed", "Failed"},
   VerificationFailed |-> {"Retrying", "Failed"},
   Retrying           |-> {"ExecutingRollback", "Failed"},
   Waiting            |-> {"ExecutingRollback", "Recovered", "Failed",
                           "Investigating"},
   Recovered          |-> {"Healthy", "Warning"},
   Failed             |-> {"Investigating", "Warning", "Healthy"}]

IsTransitionAllowed(from, to) == from = to \/ to \in Targets[from]

\* The incident after Transition, the refusal (an error that most callers
\* discard) included.
Transition(incident, to) ==
  IF IsTransitionAllowed(incident.state, to)
  THEN [incident EXCEPT !.state = to]
  ELSE incident

=============================================================================
