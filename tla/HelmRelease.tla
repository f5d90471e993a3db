---------------------------- MODULE HelmRelease ----------------------------
(***************************************************************************)
(* One Helm release as the operator sees it: the sequence of its revisions *)
(* (revision n is the n-th), each with the user-supplied values it carries *)
(* and a status.  CurrentRevision and LastHealthyRevision are the Helm     *)
(* client's of internal/operator/helm/manager.go; Begun, Finished, Aborted *)
(* and Upgraded are what the Helm SDK does to the release secrets.         *)
(***************************************************************************)
EXTENDS Naturals, Sequences, FiniteSetsExt

CONSTANTS Configs,    \* the user-supplied values revisions may carry
          NoValues    \* the one that stands for rel.Config = nil

Statuses == {"deployed", "superseded", "pending", "failed"}
Revisions == [config : Configs, status : Statuses]

\* The last revision is the current one, failed or pending ones included.
CurrentRevision(history) == Len(history)

\* The values of the current revision; nil when the history that was read
\* does not hold it yet.
CurrentConfig(history, current) ==
  IF current \in DOMAIN history THEN history[current].config ELSE NoValues

\* Mistake to be noticed: only the revision itself is skipped, not its values.
CandidatesOfAnyConfig(history, current) ==
  {n \in DOMAIN history : /\ n # current
                          /\ history[n].status \in {"deployed", "superseded"}}

\* Mistake to be noticed: revisions that never got into service count as well.
CandidatesOfAnyStatus(history, current) ==
  LET config == CurrentConfig(history, current)
  IN  {n \in DOMAIN history : /\ n # current
                              /\ config = NoValues \/ history[n].config # config}

Candidates(history, current) ==
  LET config == CurrentConfig(history, current)
  IN  {n \in DOMAIN history :
         /\ n # current
         /\ config = NoValues \/ history[n].config # config
         /\ history[n].status \in {"deployed", "superseded"}}

\* The newest candidate; 0 is the error "no healthy historical revision".
LastHealthyRevision(history, current) ==
  IF Candidates(history, current) = {} THEN 0
  ELSE Max(Candidates(history, current))

-----------------------------------------------------------------------------
Superseding(history) ==
  [n \in DOMAIN history |->
     IF history[n].status = "deployed"
     THEN [history[n] EXCEPT !.status = "superseded"] ELSE history[n]]

InProgress(history) == history[Len(history)].status = "pending"

\* A rollback first records a new revision with the values of its target ...
Begun(history, target) ==
  Append(history, [config |-> history[target].config, status |-> "pending"])

\* ... and then applies it ...
Finished(history) ==
  [Superseding(history) EXCEPT ![Len(history)].status = "deployed"]

\* ... or fails: the new revision is left behind as the current one, and the
\* one before it counts as superseded whatever it was.
Aborted(history) ==
  [history EXCEPT ![Len(history)].status = "failed",
                  ![Len(history) - 1].status = "superseded"]

Upgraded(history, config) ==
  Append(Superseding(history), [config |-> config, status |-> "deployed"])
=============================================================================
