------------------------- MODULE HelmReleaseProofs -------------------------
(***************************************************************************)
(* What the operators of HelmRelease return, for every history of a        *)
(* release: the choice of a rollback's target, and what Helm does to the   *)
(* recorded revisions.  Configurations of recorded revisions never change; *)
(* only their statuses do.                                                 *)
(***************************************************************************)
EXTENDS HelmRelease, SequenceTheorems, WellFoundedInduction, TLAPS

-----------------------------------------------------------------------------
(* The maximum of a bounded set of numbers *)

Less == {p \in Nat \X Nat : p[1] < p[2]}

LEMMA LessIsWellFounded == IsWellFoundedOn(Less, Nat)
<1>1. OpToRel(<, Nat) = Less
  BY DEF OpToRel, Less
<1> QED
  BY <1>1, NatLessThanWellFounded

\* The numbers above the members of S have a least one: its counterpart is the
\* maximum of S.
LEMMA MaxOfNaturals ==
  ASSUME NEW n \in Nat, NEW S \in SUBSET (0..n), S # {}
  PROVE  Max(S) \in S /\ \A y \in S : Max(S) >= y
<1> DEFINE T == {n - x : x \in S}
<1>1. T \subseteq Nat /\ T # {}
  <2>1. \A x \in S : n - x \in Nat
    OBVIOUS
  <2> QED
    BY <2>1
<1>2. PICK t \in T : \A u \in T : <<u, t>> \notin Less
  BY <1>1, LessIsWellFounded, WFMin
<1>3. PICK x \in S : t = n - x
  BY <1>2
<1>4. \A y \in S : x >= y
  <2> SUFFICES ASSUME NEW y \in S, ~(x >= y) PROVE FALSE
    OBVIOUS
  <2>1. n - y \in T /\ n - y \in Nat /\ t \in Nat /\ n - y < t
    BY <1>1, <1>3
  <2> QED
    BY <1>2, <2>1 DEF Less
<1> QED
  BY <1>4 DEF Max

\* GetLastHealthyRevision finds a revision of the history, other than the
\* current one, that was in service; 0 when there is none
\* (helm/manager.go:131-199).
LEMMA TargetIsCandidate ==
  ASSUME NEW history \in Seq(Revisions), NEW current
  PROVE  LET t == LastHealthyRevision(history, current)
         IN  /\ t \in 0..Len(history)
             /\ t # 0 => t \in Candidates(history, current)
<1> DEFINE S == Candidates(history, current)
<1>1. Len(history) \in Nat /\ DOMAIN history = 1..Len(history)
  BY LenProperties
<1>2. S \subseteq 1..Len(history)
  BY <1>1 DEF Candidates
<1>3. CASE S = {}
  BY <1>1, <1>3 DEF LastHealthyRevision
<1>4. CASE S # {}
  <2>1. S \in SUBSET (0..Len(history))
    BY <1>1, <1>2
  <2>2. Max(S) \in S
    BY <1>1, <1>4, <2>1, MaxOfNaturals
  <2> QED
    BY <1>2, <1>4, <2>2 DEF LastHealthyRevision
<1> QED
  BY <1>3, <1>4

\* It is the newest of them.
LEMMA TargetIsNewest ==
  ASSUME NEW history \in Seq(Revisions), NEW current,
         NEW n \in Candidates(history, current)
  PROVE  LastHealthyRevision(history, current) >= n
<1> DEFINE S == Candidates(history, current)
<1>1. Len(history) \in Nat /\ DOMAIN history = 1..Len(history)
  BY LenProperties
<1>2. S \in SUBSET (0..Len(history)) /\ S # {}
  BY <1>1 DEF Candidates
<1>3. \A m \in S : Max(S) >= m
  BY <1>1, <1>2, MaxOfNaturals
<1> QED
  BY <1>2, <1>3 DEF LastHealthyRevision

-----------------------------------------------------------------------------
(* What Helm does to the history *)

\* The length, the types and the configurations of a history are what another
\* one has in its first revisions.
SameConfigs(history, other) ==
  \A n \in 1..Len(history) : other[n].config = history[n].config

LEMMA BegunHolds ==
  ASSUME NEW history \in Seq(Revisions), NEW target \in 1..Len(history)
  PROVE  LET after == Begun(history, target)
         IN  /\ after \in Seq(Revisions)
             /\ Len(after) = Len(history) + 1
             /\ \A n \in 1..Len(history) : after[n] = history[n]
             /\ after[Len(after)] = [config |-> history[target].config,
                                     status |-> "pending"]
<1> DEFINE new == [config |-> history[target].config, status |-> "pending"]
<1>1. history[target] \in Revisions
  BY ElementOfSeq
<1>2. new \in Revisions
  BY <1>1 DEF Revisions, Statuses
<1> QED
  BY <1>2 DEF Begun

LEMMA SupersedingHolds ==
  ASSUME NEW history \in Seq(Revisions)
  PROVE  LET after == Superseding(history)
         IN  /\ after \in Seq(Revisions)
             /\ Len(after) = Len(history)
             /\ SameConfigs(history, after)
             /\ \A n \in 1..Len(history) :
                  after[n].status \in {history[n].status} \cup
                    (IF history[n].status = "deployed" THEN {"superseded"} ELSE {})
<1>1. /\ Len(history) \in Nat
      /\ DOMAIN history = 1..Len(history)
      /\ \A n \in 1..Len(history) : history[n] \in Revisions
  BY LenProperties, ElementOfSeq
<1> DEFINE after == Superseding(history)
<1>2. \A n \in 1..Len(history) :
        after[n] = IF history[n].status = "deployed"
                   THEN [history[n] EXCEPT !.status = "superseded"]
                   ELSE history[n]
  BY <1>1 DEF Superseding
<1>3. \A n \in 1..Len(history) :
        /\ after[n] \in Revisions
        /\ after[n].config = history[n].config
        /\ after[n].status \in {history[n].status} \cup
             (IF history[n].status = "deployed" THEN {"superseded"} ELSE {})
  BY <1>1, <1>2 DEF Revisions, Statuses
<1>4. after \in [1..Len(history) -> Revisions]
  BY <1>1, <1>3 DEF Superseding
<1>5. after \in Seq(Revisions) /\ Len(after) = Len(history)
  BY <1>1, <1>4
<1> QED
  BY <1>3, <1>5 DEF SameConfigs

\* A rollback that is finished: only its own revision gets into service.
LEMMA FinishedHolds ==
  ASSUME NEW history \in Seq(Revisions), Len(history) > 0
  PROVE  LET after == Finished(history)
         IN  /\ after \in Seq(Revisions)
             /\ Len(after) = Len(history)
             /\ SameConfigs(history, after)
             /\ \A n \in 1..Len(history) :
                  n # Len(history) =>
                    after[n].status \in {history[n].status} \cup
                      (IF history[n].status = "deployed" THEN {"superseded"} ELSE {})
<1> DEFINE before == Superseding(history)
           last == Len(history)
           rev == [before[last] EXCEPT !.status = "deployed"]
<1>1. /\ before \in Seq(Revisions)
      /\ Len(before) = last /\ last \in 1..last
      /\ SameConfigs(history, before)
      /\ \A n \in 1..last :
           before[n].status \in {history[n].status} \cup
             (IF history[n].status = "deployed" THEN {"superseded"} ELSE {})
  BY SupersedingHolds, LenProperties
<1>2. before[last] \in Revisions
  BY <1>1, ElementOfSeq
<1>3. rev \in Revisions /\ rev.config = before[last].config
  BY <1>2 DEF Revisions, Statuses
<1>4. Finished(history) = [before EXCEPT ![last] = rev]
  BY DEF Finished
<1>5. /\ Finished(history) \in Seq(Revisions)
      /\ Len(Finished(history)) = last
      /\ \A n \in 1..last :
           Finished(history)[n] = IF n = last THEN rev ELSE before[n]
  BY <1>1, <1>3, <1>4, ExceptSeq
<1> QED
  BY <1>1, <1>3, <1>5 DEF SameConfigs

\* Its revision is the one in service, and no other is.
LEMMA FinishedServes ==
  ASSUME NEW history \in Seq(Revisions), Len(history) > 0
  PROVE  LET after == Finished(history)
         IN  /\ after[Len(history)].status = "deployed"
             /\ \A n \in 1..Len(history) :
                  n # Len(history) /\ history[n].status = "deployed"
                    => after[n].status = "superseded"
<1> DEFINE before == Superseding(history)
           last == Len(history)
           rev == [before[last] EXCEPT !.status = "deployed"]
<1>1. /\ before \in Seq(Revisions)
      /\ Len(before) = last /\ last \in 1..last
      /\ DOMAIN history = 1..last
  BY SupersedingHolds, LenProperties
<1>2. \A n \in 1..last :
        history[n] \in Revisions /\ before[n] \in Revisions
  BY <1>1, ElementOfSeq
<1>3. \A n \in 1..last :
        history[n].status = "deployed" => before[n].status = "superseded"
  BY <1>1, <1>2 DEF Superseding, Revisions
<1>4. rev \in Revisions /\ rev.status = "deployed"
  BY <1>1, <1>2 DEF Revisions, Statuses
<1>5. Finished(history) = [before EXCEPT ![last] = rev]
  BY DEF Finished
<1> HIDE DEF before, rev
<1>6. \A n \in 1..last :
        Finished(history)[n] = IF n = last THEN rev ELSE before[n]
  BY <1>1, <1>4, <1>5, ExceptSeq
<1> QED
  BY <1>1, <1>3, <1>4, <1>6

\* A rollback that failed leaves the revision before its own as superseded,
\* whatever it was.
LEMMA AbortedHolds ==
  ASSUME NEW history \in Seq(Revisions), Len(history) > 1
  PROVE  LET after == Aborted(history)
         IN  /\ after \in Seq(Revisions)
             /\ Len(after) = Len(history)
             /\ SameConfigs(history, after)
             /\ after[Len(history)].status = "failed"
             /\ \A n \in 1..Len(history) :
                  n < Len(history) - 1 => after[n].status = history[n].status
<1> DEFINE last == Len(history)
           failed == [history[last] EXCEPT !.status = "failed"]
           middle == [history EXCEPT ![last] = failed]
           previous == [middle[last - 1] EXCEPT !.status = "superseded"]
<1>1. last \in Nat /\ last \in 1..last /\ last - 1 \in 1..last
  BY LenProperties
<1>2. history[last] \in Revisions
  BY <1>1, ElementOfSeq
<1>3. failed \in Revisions /\ failed.config = history[last].config
      /\ failed.status = "failed"
  BY <1>2 DEF Revisions, Statuses
<1>4. /\ middle \in Seq(Revisions)
      /\ Len(middle) = last
      /\ \A n \in 1..last : middle[n] = IF n = last THEN failed ELSE history[n]
  BY <1>1, <1>3, ExceptSeq
<1>5. middle[last - 1] \in Revisions
  BY <1>1, <1>4, ElementOfSeq
<1>6. previous \in Revisions /\ previous.config = middle[last - 1].config
  BY <1>5 DEF Revisions, Statuses
<1>7. Aborted(history) = [middle EXCEPT ![last - 1] = previous]
  BY DEF Aborted
<1> HIDE DEF last, failed, middle, previous
<1>8. /\ Aborted(history) \in Seq(Revisions)
      /\ Len(Aborted(history)) = last
      /\ \A n \in 1..last :
           Aborted(history)[n] = IF n = last - 1 THEN previous ELSE middle[n]
  BY <1>1, <1>4, <1>6, <1>7, ExceptSeq
<1>9. SameConfigs(history, Aborted(history))
  BY <1>1, <1>3, <1>4, <1>6, <1>8 DEF SameConfigs, last
<1>10. Aborted(history)[last] = failed
  BY <1>1, <1>4, <1>8
<1>11. \A n \in 1..last : n < last - 1 => Aborted(history)[n] = history[n]
  BY <1>1, <1>4, <1>8
<1> QED
  BY <1>3, <1>8, <1>9, <1>10, <1>11 DEF last

\* An upgrade appends a revision that is in service.
LEMMA UpgradedHolds ==
  ASSUME NEW history \in Seq(Revisions), NEW config \in Configs
  PROVE  LET after == Upgraded(history, config)
         IN  /\ after \in Seq(Revisions)
             /\ Len(after) = Len(history) + 1
             /\ SameConfigs(history, after)
             /\ after[Len(after)] = [config |-> config, status |-> "deployed"]
             /\ \A n \in 1..Len(history) :
                  after[n].status \in {history[n].status} \cup
                    (IF history[n].status = "deployed" THEN {"superseded"} ELSE {})
<1> DEFINE before == Superseding(history)
           new == [config |-> config, status |-> "deployed"]
<1>1. /\ before \in Seq(Revisions)
      /\ Len(before) = Len(history)
      /\ SameConfigs(history, before)
      /\ \A n \in 1..Len(history) :
           before[n].status \in {history[n].status} \cup
             (IF history[n].status = "deployed" THEN {"superseded"} ELSE {})
  BY SupersedingHolds
<1>2. new \in Revisions
  BY DEF Revisions, Statuses
<1>3. /\ Append(before, new) \in Seq(Revisions)
      /\ Len(Append(before, new)) = Len(history) + 1
      /\ \A n \in 1..Len(history) : Append(before, new)[n] = before[n]
      /\ Append(before, new)[Len(history) + 1] = new
  BY <1>1, <1>2
<1> QED
  BY <1>1, <1>3 DEF Upgraded, SameConfigs
=============================================================================
