------------------------------ MODULE Cooldown ------------------------------
(***************************************************************************)
(* The CooldownManager of internal/operator/utils/cooldown.go as operators *)
(* on its one map, cooldownUntil.  The map holds two kinds of key: the     *)
(* advisory "service/alertName" and the execution slot "exec/service".     *)
(* A window that was never recorded is one that ended at time 0.  Every    *)
(* operator is one critical section of the manager's mutex.                *)
(***************************************************************************)
EXTENDS Naturals

CONSTANTS Services, AlertNames

\* A service called "exec" would share its keys with the execution slots.
ASSUME ExecAssumption == "exec" \notin Services

AlertKey(service, alertName) == <<service, alertName>>
ExecKey(service) == <<"exec", service>>
Keys == (Services \X AlertNames) \cup ({"exec"} \X Services)

NoWindows == [k \in Keys |-> 0]

IsCoolingDown(cooldownUntil, now, service, alertName) ==
  cooldownUntil[AlertKey(service, alertName)] > now

\* A plausible mistake, for the checks of the properties: the window ends
\* before it begins.
RecordedBackwards(cooldownUntil, now, service, alertName, duration) ==
  [cooldownUntil EXCEPT ![AlertKey(service, alertName)] = now - duration]

\* Another: the advisory window is recorded under the key of the slot.
RecordedOnSlot(cooldownUntil, now, service, alertName, duration) ==
  [cooldownUntil EXCEPT ![ExecKey(service)] = now + duration]

Recorded(cooldownUntil, now, service, alertName, duration) ==
  [cooldownUntil EXCEPT ![AlertKey(service, alertName)] = now + duration]

\* A plausible mistake, for the checks of the properties: the slot is keyed
\* like the advisory windows, per alert.
SlotIsFreePerAlert(cooldownUntil, now, service) ==
  \A a \in AlertNames : cooldownUntil[AlertKey(service, a)] <= now

SlotIsFree(cooldownUntil, now, service) ==
  cooldownUntil[ExecKey(service)] <= now

\* A plausible mistake, for the checks of the properties: the claim does not
\* record itself.
SlotClaimedNotRecorded(cooldownUntil, now, service, window) == cooldownUntil

SlotClaimed(cooldownUntil, now, service, window) ==
  [cooldownUntil EXCEPT ![ExecKey(service)] = now + window]

=============================================================================
