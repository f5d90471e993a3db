------------------------ MODULE ExecutionGateProofs ------------------------
(***************************************************************************)
(* For any services, alerts, windows and number of concurrent recoveries:  *)
(* the windows of the executions granted to one service are disjoint, a    *)
(* suppression always has a granted execution behind it, and the mutex-    *)
(* protected map implements the abstract recovery windows.                  *)
(***************************************************************************)
EXTENDS ExecutionGate, TLAPS

\* A claim that was granted lies in the past, and the slot of its service
\* stays taken at least until its window ends.
GrantedIsRecorded ==
  \A r \in Recoveries : pc[r] = "granted" =>
    /\ claimedAt[r] <= now
    /\ WindowEnd(r) <= cooldownUntil[ExecKey(request[r].service)]

\* Nothing but a granted claim ever writes a slot.
SlotHasGrant ==
  \A s \in Services : cooldownUntil[ExecKey(s)] > 0 => Granted(s) # {}

IInv == /\ TypeOK
        /\ GrantedIsRecorded
        /\ WindowsDisjoint
        /\ SlotHasGrant
        /\ SuppressedOnlyByGrant

-----------------------------------------------------------------------------
\* The two kinds of key never meet: the advisory window of an alert is not
\* the slot of any service, and every service has a slot of its own.
LEMMA KeysApart ==
  ASSUME NEW s \in Services, NEW t \in Services, NEW a \in AlertNames
  PROVE  /\ ExecKey(s) \in Keys
         /\ AlertKey(t, a) \in Keys
         /\ ExecKey(s) # AlertKey(t, a)
         /\ ExecKey(s) = ExecKey(t) => s = t
  BY ExecAssumption DEF ExecKey, AlertKey, Keys

\* What a recovery asks for is well typed, and no window is empty.
LEMMA RequestTypes ==
  ASSUME TypeOK, NEW r \in Recoveries
  PROVE  /\ request[r].service \in Services
         /\ request[r].alertName \in AlertNames
         /\ request[r].window \in Windows
         /\ request[r].window \in Nat
         /\ request[r].window > 0
<1>1. request[r] \in Requests
  BY DEF TypeOK
<1>2. /\ request[r].service \in Services
      /\ request[r].alertName \in AlertNames
      /\ request[r].window \in Windows
  BY <1>1 DEF Requests
<1>3. request[r].window \in Nat \ {0}
  BY <1>2, WindowsAssumption
<1> QED
  BY <1>2, <1>3

\* An empty map and idle recoveries are well typed.
LEMMA TypeInit == Init => TypeOK
  BY DEF Init, TypeOK, NoWindows

\* No call of the manager, and no tick, breaks the types.
LEMMA TypeNext == TypeOK /\ [Next]_vars => TypeOK'
<1> SUFFICES ASSUME TypeOK, [Next]_vars PROVE TypeOK'
  OBVIOUS
<1> USE DEF TypeOK
<1>1. CASE Tick
  BY <1>1 DEF Tick
<1>2. ASSUME NEW r \in Recoveries, CheckCooldown(r) PROVE TypeOK'
  BY <1>2 DEF CheckCooldown
<1>3. ASSUME NEW r \in Recoveries, RecordRecovery(r) PROVE TypeOK'
  <2>1. now + request[r].window \in Nat
    BY RequestTypes
  <2> QED
    BY <1>3, <2>1 DEF RecordRecovery, Recorded
<1>4. ASSUME NEW r \in Recoveries, TryStartGranted(r) PROVE TypeOK'
  <2>1. now + request[r].window \in Nat
    BY RequestTypes
  <2> QED
    BY <1>4, <2>1 DEF TryStartGranted, SlotClaimed
<1>5. ASSUME NEW r \in Recoveries, TryStartSuppressed(r) PROVE TypeOK'
  BY <1>5 DEF TryStartSuppressed
<1>6. CASE UNCHANGED vars
  BY <1>6 DEF vars
<1> QED
  BY <1>1, <1>2, <1>3, <1>4, <1>5, <1>6 DEF Next, Step

-----------------------------------------------------------------------------
\* Without grants and windows the strengthened invariant holds.
LEMMA IInvInit == Init => IInv
<1> SUFFICES ASSUME Init PROVE IInv
  OBVIOUS
<1>1. TypeOK
  BY TypeInit
<1>2. GrantedIsRecorded /\ WindowsDisjoint /\ SuppressedOnlyByGrant
  BY DEF Init, GrantedIsRecorded, WindowsDisjoint, SuppressedOnlyByGrant, Granted
<1>3. SlotHasGrant
  BY KeysApart DEF Init, SlotHasGrant, NoWindows, ExecKey, Keys
<1> QED
  BY <1>1, <1>2, <1>3 DEF IInv

\* Each critical section preserves it; TryStartGranted is the case with work
\* in it, since it moves the slot that all earlier grants are measured by.
LEMMA IInvNext == IInv /\ [Next]_vars => IInv'
<1> SUFFICES ASSUME IInv, [Next]_vars PROVE IInv'
  OBVIOUS
<1> USE DEF IInv
<1>0. TypeOK'
  BY TypeNext
<1>1. CASE Tick
  BY <1>0, <1>1 DEF Tick, TypeOK, GrantedIsRecorded, WindowsDisjoint,
     SlotHasGrant, SuppressedOnlyByGrant, Granted, WindowEnd
<1>2. ASSUME NEW r \in Recoveries, CheckCooldown(r) PROVE IInv'
  BY <1>0, <1>2 DEF CheckCooldown, TypeOK, GrantedIsRecorded, WindowsDisjoint,
     SlotHasGrant, SuppressedOnlyByGrant, Granted, WindowEnd
<1>3. ASSUME NEW r \in Recoveries, RecordRecovery(r) PROVE IInv'
  <2>1. \A s \in Services : cooldownUntil'[ExecKey(s)] = cooldownUntil[ExecKey(s)]
    BY <1>3, KeysApart, RequestTypes DEF RecordRecovery, Recorded, TypeOK
  <2>2. \A q \in Recoveries : request[q].service \in Services
    BY RequestTypes
  <2> QED
    BY <1>0, <1>3, <2>1, <2>2 DEF RecordRecovery, TypeOK, GrantedIsRecorded,
       WindowsDisjoint, SlotHasGrant, SuppressedOnlyByGrant, Granted, WindowEnd
<1>4. ASSUME NEW r \in Recoveries, TryStartGranted(r) PROVE IInv'
  <2> DEFINE s == request[r].service
             w == request[r].window
  <2>1. /\ s \in Services /\ w \in Nat /\ w > 0
        /\ \A q \in Recoveries : /\ request[q].service \in Services
                                 /\ request[q].window \in Nat
    BY RequestTypes
  <2>2. /\ cooldownUntil[ExecKey(s)] <= now
        /\ cooldownUntil' = [cooldownUntil EXCEPT ![ExecKey(s)] = now + w]
        /\ pc' = [pc EXCEPT ![r] = "granted"]
        /\ claimedAt' = [claimedAt EXCEPT ![r] = now]
        /\ now' = now /\ request' = request
        /\ pc[r] = "try"
    BY <1>4 DEF TryStartGranted, SlotIsFree, SlotClaimed
  <2>3. /\ cooldownUntil'[ExecKey(s)] = now + w
        /\ \A t \in Services : t # s =>
             cooldownUntil'[ExecKey(t)] = cooldownUntil[ExecKey(t)]
    BY <2>1, <2>2, KeysApart DEF TypeOK, ExecKey, Keys
  <2>4. \A q \in Recoveries : q # r =>
          /\ pc'[q] = pc[q] /\ claimedAt'[q] = claimedAt[q]
          /\ WindowEnd(q)' = WindowEnd(q)
    BY <2>2 DEF TypeOK, WindowEnd
  <2>5. pc'[r] = "granted" /\ claimedAt'[r] = now /\ WindowEnd(r)' = now + w
    BY <2>2 DEF TypeOK, WindowEnd
  <2>6. \A q \in Recoveries : pc[q] = "granted" /\ request[q].service = s
          => WindowEnd(q) <= now
    BY <2>1, <2>2 DEF GrantedIsRecorded, TypeOK, WindowEnd, ExecKey, Keys
  <2>7. GrantedIsRecorded'
    <3> SUFFICES ASSUME NEW q \in Recoveries, pc'[q] = "granted"
                 PROVE  /\ claimedAt'[q] <= now'
                        /\ WindowEnd(q)' <= cooldownUntil'[ExecKey(request'[q].service)]
      BY DEF GrantedIsRecorded
    <3>1. CASE q = r
      BY <3>1, <2>1, <2>2, <2>3, <2>5 DEF TypeOK
    <3>2. CASE q # r /\ request[q].service = s
      <4>1. WindowEnd(q) \in Nat
        BY <2>1 DEF TypeOK, WindowEnd
      <4> QED
        BY <3>2, <4>1, <2>1, <2>2, <2>3, <2>4, <2>6 DEF GrantedIsRecorded, TypeOK
    <3>3. CASE q # r /\ request[q].service # s
      BY <3>3, <2>1, <2>2, <2>3, <2>4 DEF GrantedIsRecorded
    <3> QED
      BY <3>1, <3>2, <3>3
  <2>8. WindowsDisjoint'
    <3> SUFFICES ASSUME NEW t \in Services, NEW p \in Granted(t)', NEW q \in Granted(t)',
                        p # q
                 PROVE  \/ WindowEnd(p)' <= claimedAt'[q]
                        \/ WindowEnd(q)' <= claimedAt'[p]
      BY DEF WindowsDisjoint
    <3>1. CASE p # r /\ q # r
      BY <3>1, <2>2, <2>4 DEF WindowsDisjoint, Granted
    <3>2. CASE p = r
      BY <3>2, <2>2, <2>4, <2>5, <2>6 DEF Granted
    <3>3. CASE q = r
      BY <3>3, <2>2, <2>4, <2>5, <2>6 DEF Granted
    <3> QED
      BY <3>1, <3>2, <3>3
  <2>9. \A t \in Services : Granted(t) \subseteq Granted(t)'
    BY <2>2, <2>4, <2>5 DEF Granted
  <2>10. r \in Granted(s)'
    BY <2>2, <2>5 DEF Granted
  <2>11. SlotHasGrant'
    <3> SUFFICES ASSUME NEW t \in Services, cooldownUntil'[ExecKey(t)] > 0
                 PROVE  Granted(t)' # {}
      BY DEF SlotHasGrant, ExecKey
    <3>1. CASE t = s
      BY <3>1, <2>2, <2>10
    <3>2. CASE t # s
      <4>1. cooldownUntil[ExecKey(t)] > 0
        BY <3>2, <2>3
      <4>2. Granted(t) # {}
        BY <4>1 DEF SlotHasGrant
      <4> QED
        BY <4>2, <2>9
    <3> QED
      BY <3>1, <3>2
  <2>12. SuppressedOnlyByGrant'
    BY <2>1, <2>2, <2>4, <2>5, <2>9 DEF SuppressedOnlyByGrant
  <2> QED
    BY <1>0, <2>7, <2>8, <2>11, <2>12
<1>5. ASSUME NEW r \in Recoveries, TryStartSuppressed(r) PROVE IInv'
  <2>1. Granted(request[r].service) # {}
    <3>1. /\ request[r].service \in Services
          /\ ~(cooldownUntil[ExecKey(request[r].service)] <= now)
      BY <1>5, RequestTypes DEF TryStartSuppressed, SlotIsFree
    <3>2. cooldownUntil[ExecKey(request[r].service)] \in Nat
      BY <3>1, KeysApart DEF TypeOK, ExecKey, Keys
    <3> QED
      BY <3>1, <3>2 DEF SlotHasGrant, TypeOK
  <2>2. \A t \in Services : Granted(t)' = Granted(t)
    BY <1>5 DEF TryStartSuppressed, Granted, TypeOK
  <2>3. GrantedIsRecorded' /\ WindowsDisjoint' /\ SlotHasGrant'
    BY <1>5, <2>2 DEF TryStartSuppressed, TypeOK, GrantedIsRecorded,
       WindowsDisjoint, SlotHasGrant, WindowEnd
  <2>4. SuppressedOnlyByGrant'
    BY <1>5, <2>1, <2>2, RequestTypes DEF TryStartSuppressed, TypeOK,
       SuppressedOnlyByGrant
  <2> QED
    BY <1>0, <2>3, <2>4
<1>6. CASE UNCHANGED vars
  BY <1>0, <1>6 DEF vars, GrantedIsRecorded, WindowsDisjoint, SlotHasGrant,
     SuppressedOnlyByGrant, Granted, WindowEnd
<1> QED
  BY <1>1, <1>2, <1>3, <1>4, <1>5, <1>6 DEF Next, Step

\* The map, the clock and the requests keep their types.
THEOREM TypeCorrect == Spec => []TypeOK
<1> QED
  BY TypeInit, TypeNext, PTL DEF Spec

\* Executions granted to one service never overlap in time, for every number
\* of incidents racing for the gate (cooldown.go:54-73).
THEOREM GateExcludes == Spec => []WindowsDisjoint
<1>1. IInv => WindowsDisjoint
  BY DEF IInv
<1> QED
  BY <1>1, IInvInit, IInvNext, PTL DEF Spec

\* A suppressed recovery (manager.go:326-333) always yields to an execution
\* that was really granted; an advisory window never blocks the gate.
THEOREM SuppressionIsJustified == Spec => []SuppressedOnlyByGrant
<1>1. IInv => SuppressedOnlyByGrant
  BY DEF IInv
<1> QED
  BY <1>1, IInvInit, IInvNext, PTL DEF Spec

-----------------------------------------------------------------------------
\* An empty map stands for services that are all free.
LEMMA RefinementInit == Init => Abstract!Init
  BY KeysApart DEF Init, Abstract!Init, Remaining, SlotIsFree, NoWindows, ExecKey, Keys

\* A claim opens a window of a free service, a tick elapses them all, and the
\* advisory calls are invisible.
LEMMA RefinementNext ==
  TypeOK /\ [Next]_vars => [Abstract!Next]_Remaining
<1> SUFFICES ASSUME TypeOK, [Next]_vars
             PROVE  Abstract!Next \/ UNCHANGED Remaining
  OBVIOUS
<1>0. \A s \in Services : cooldownUntil[ExecKey(s)] \in Nat
  BY DEF TypeOK, ExecKey, Keys
<1>1. CASE Tick
  <2>1. Abstract!Elapse
    BY <1>0, <1>1 DEF Tick, Abstract!Elapse, Remaining, SlotIsFree, TypeOK
  <2> QED
    BY <2>1 DEF Abstract!Next
<1>2. ASSUME NEW r \in Recoveries, CheckCooldown(r) PROVE UNCHANGED Remaining
  BY <1>2 DEF CheckCooldown, Remaining, SlotIsFree
<1>3. ASSUME NEW r \in Recoveries, RecordRecovery(r) PROVE UNCHANGED Remaining
  <2>1. \A s \in Services : cooldownUntil'[ExecKey(s)] = cooldownUntil[ExecKey(s)]
    BY <1>3, KeysApart, RequestTypes DEF RecordRecovery, Recorded, TypeOK
  <2> QED
    BY <1>3, <2>1 DEF RecordRecovery, Remaining, SlotIsFree
<1>4. ASSUME NEW r \in Recoveries, TryStartGranted(r) PROVE Abstract!Next
  <2> DEFINE s == request[r].service
             w == request[r].window
  <2>1. s \in Services /\ w \in Windows /\ w \in Nat /\ w > 0
    BY RequestTypes
  <2>2. Remaining[s] = 0
    BY <1>4, <2>1 DEF TryStartGranted, Remaining
  <2>3. /\ cooldownUntil'[ExecKey(s)] = now + w
        /\ \A t \in Services : t # s =>
             cooldownUntil'[ExecKey(t)] = cooldownUntil[ExecKey(t)]
        /\ now' = now
    BY <1>4, <2>1, KeysApart DEF TryStartGranted, SlotClaimed, TypeOK, ExecKey, Keys
  <2>4. ASSUME NEW t \in Services
        PROVE  Remaining'[t] = IF t = s THEN w ELSE Remaining[t]
    <3>1. CASE t = s
      <4>1. Remaining'[t] = IF cooldownUntil'[ExecKey(t)] <= now' THEN 0
                            ELSE cooldownUntil'[ExecKey(t)] - now'
        BY DEF Remaining, SlotIsFree
      <4>2. cooldownUntil'[ExecKey(t)] = now + w /\ now' = now
        BY <3>1, <2>3
      <4>3. now \in Nat /\ w \in Nat /\ w > 0
        BY <2>1 DEF TypeOK
      <4> HIDE DEF s, w
      <4>4. Remaining'[t] = w
        BY <4>1, <4>2, <4>3
      <4> QED
        BY <3>1, <4>4
    <3>2. CASE t # s
      BY <3>2, <2>3 DEF Remaining, SlotIsFree
    <3> QED
      BY <3>1, <3>2
  <2>5. Remaining' = [Remaining EXCEPT ![s] = w]
    BY <2>1, <2>4 DEF Remaining
  <2> QED
    BY <2>1, <2>2, <2>5 DEF Abstract!Next, Abstract!Open
<1>5. ASSUME NEW r \in Recoveries, TryStartSuppressed(r) PROVE UNCHANGED Remaining
  BY <1>5 DEF TryStartSuppressed, Remaining, SlotIsFree
<1>6. CASE UNCHANGED vars
  BY <1>6 DEF vars, Remaining, SlotIsFree
<1> QED
  BY <1>1, <1>2, <1>3, <1>4, <1>5, <1>6 DEF Next, Step

\* The map of time stamps behind the mutex implements the abstract windows.
THEOREM GateImplementsWindows == Spec => ImplementsWindows
<1> QED
  BY TypeInit, TypeNext, RefinementInit, RefinementNext, PTL
     DEF Spec, ImplementsWindows, Abstract!Spec
=============================================================================
