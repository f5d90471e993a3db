----------------------------- MODULE ReadCaches -----------------------------
(***************************************************************************)
(* The read-through caches of the inventory, payment and order services:   *)
(* a GET that finds no entry in Redis reads the repository and fills the   *)
(* entry in, for five minutes; a change of the record deletes the entry    *)
(* afterwards, except that nothing deletes an order's.  The model follows  *)
(* one record, of any of the three kinds, and the requests for it.         *)
(* Init, Next and the like carry the module's name: RequestPathProofs      *)
(* extends this module and Gateway.                                        *)
(***************************************************************************)
EXTENDS Naturals

CONSTANTS
  Handlers,  \* of concurrent requests for the record
  Units,     \* units of the item in stock
  TTL,       \* the life of an entry, five minutes
  Delay,     \* how long a request may take, on the same clock
  MaxLost    \* bound on Redis commands that fail, for model checking

ASSUME CacheAssumption == {Units, TTL, Delay, MaxLost} \subseteq Nat /\ TTL > 0

VARIABLES
  kind,     \* what the record is
  stored,   \* its value in the repository
  entry,    \* its entry in Redis: {} or one value
  life,     \* ticks the entry has left
  handler,  \* what each is at, and the copy it holds
  lost,     \* Redis commands that failed (bounded)
  past,     \* ticks since each value was the record's (history)
  blamed    \* the entry is a copy filled in after its record changed, or
            \* the command to delete it was lost (history)

cacheVars == <<kind, stored, entry, life, handler, lost, past, blamed>>
redis == <<entry, life, lost, blamed>>
record == <<kind, stored, past>>

Torn == "torn"
Values(k) == CASE k = "item" -> 0..Units
               [] k = "payment" -> {"SUCCEEDED", "FAILED", "REFUNDED"}
               [] k = "order" -> {"PENDING", "CONFIRMED", "FAILED", Torn}
Kinds == {"item", "payment", "order"}

Steps == {"idle", "load", "fill", "answered", "update", "assign", "delete"}
LongAgo == TTL + Delay + 1

\* copy is {} or one value, as entry is.
CacheTypeOK ==
  /\ kind \in Kinds /\ stored \in Values(kind)
  /\ kind = "order" => stored # Torn
  /\ entry \subseteq Values(kind)
  /\ life \in 0..TTL /\ (life = 0) = (entry = {})
  /\ \A r \in Handlers : /\ handler[r].at \in Steps
                         /\ handler[r].copy \subseteq Values(kind)
                         /\ handler[r].age \in 0..Delay
  /\ lost \in 0..MaxLost
  /\ past \in [Values(kind) -> 0..LongAgo] /\ past[stored] = 0
  /\ blamed \in BOOLEAN

\* Process writes a new payment to the repository and then to the cache; the
\* id of the payment is not known before.
CacheInit ==
  /\ kind \in Kinds
  /\ stored \in CASE kind = "item" -> 0..Units
                  [] kind = "payment" -> {"SUCCEEDED", "FAILED"}
                  [] kind = "order" -> {"PENDING"}
  /\ \/ entry = {} /\ life = 0
     \/ kind = "payment" /\ entry = {stored} /\ life = TTL
  /\ handler = [r \in Handlers |-> [at |-> "idle", copy |-> {}, age |-> 0]]
  /\ lost = 0 /\ blamed = FALSE
  /\ past = [v \in Values(kind) |-> IF v = stored THEN 0 ELSE LongAgo]

At(r, step) == handler[r].at = step
Go(r, step) == handler' = [handler EXCEPT ![r].at = step]
GoWith(r, step, value) ==
  handler' = [handler EXCEPT ![r].at = step, ![r].copy = {value}]

Lose == lost < MaxLost /\ lost' = lost + 1

-----------------------------------------------------------------------------
(* GetItem, GetPayment, GetOrder *)

\* A plausible mistake, for the checks of the properties: an entry that is
\* used lives on.
HitAndExtend(r) ==
  /\ At(r, "idle")
  /\ \E v \in entry : GoWith(r, "answered", v)
  /\ life' = TTL
  /\ UNCHANGED <<record, entry, lost, blamed>>

Hit(r) ==
  /\ At(r, "idle")
  /\ \E v \in entry : GoWith(r, "answered", v)
  /\ UNCHANGED <<record, redis>>

\* An error of Redis counts as a miss.
Miss(r) ==
  /\ At(r, "idle")
  /\ \/ entry = {} /\ UNCHANGED lost
     \/ entry # {} /\ Lose
  /\ Go(r, "load")
  /\ UNCHANGED <<record, entry, life, blamed>>

\* The saga of an order assigns to the record the repository holds, without
\* its lock: a read may find the old status, the new one, or half of each.
Visible ==
  {stored} \cup UNION {handler[w].copy \cup {Torn} :
                         w \in {q \in Handlers : At(q, "assign")}}

Load(r) ==
  /\ At(r, "load")
  /\ \E v \in Visible : GoWith(r, "fill", v)
  /\ UNCHANGED <<record, redis>>

\* Set overwrites the entry, which another request may have filled in since.
Fill(r) ==
  /\ At(r, "fill")
  /\ \/ /\ entry' = handler[r].copy /\ life' = TTL
        /\ blamed' = (handler[r].copy # {stored})
        /\ UNCHANGED lost
     \/ Lose /\ UNCHANGED <<entry, life, blamed>>
  /\ Go(r, "answered")
  /\ UNCHANGED record

Close(r) ==
  /\ At(r, "answered")
  /\ handler' = [handler EXCEPT ![r] = [at |-> "idle", copy |-> {}, age |-> 0]]
  /\ UNCHANGED <<record, redis>>

-----------------------------------------------------------------------------
(* Reserve, Release, Refund, and the end of an order's saga *)

Since(values) ==
  past' = [v \in Values(kind) |-> IF v \in values THEN 0 ELSE past[v]]
BecomesStored(v) == stored' = v /\ Since({v}) /\ UNCHANGED kind

Reserve(r) ==
  /\ kind = "item" /\ At(r, "idle")
  /\ stored < Units
  /\ BecomesStored(stored + 1)
  /\ Go(r, "delete")
  /\ UNCHANGED redis

\* Plausible mistakes, for the checks of the properties: the units are not
\* capped, the entry is left in the cache.
ReleaseUncapped(r) ==
  /\ kind = "item" /\ At(r, "idle")
  /\ BecomesStored(stored - 1)
  /\ Go(r, "delete")
  /\ UNCHANGED redis

ReleaseOnly(r) ==
  /\ kind = "item" /\ At(r, "idle")
  /\ BecomesStored(IF stored = 0 THEN 0 ELSE stored - 1)
  /\ Go(r, "answered")
  /\ UNCHANGED redis

\* No more is released than is reserved.
Release(r) ==
  /\ kind = "item" /\ At(r, "idle")
  /\ BecomesStored(IF stored = 0 THEN 0 ELSE stored - 1)
  /\ Go(r, "delete")
  /\ UNCHANGED redis

\* Refund checks a copy of the payment; whoever checked before the status
\* changed goes on to change it as well.
CheckRefund(r) ==
  /\ kind = "payment" /\ At(r, "idle")
  /\ IF stored = "SUCCEEDED" THEN Go(r, "update") ELSE UNCHANGED handler
  /\ UNCHANGED <<record, redis>>

UpdateStatus(r) ==
  /\ At(r, "update")
  /\ BecomesStored("REFUNDED")
  /\ Go(r, "delete")
  /\ UNCHANGED redis

Assign(r) ==
  /\ kind = "order" /\ At(r, "idle")
  /\ stored = "PENDING" /\ \A w \in Handlers : ~At(w, "assign")
  /\ \E status \in {"CONFIRMED", "FAILED"} :
       GoWith(r, "assign", status) /\ Since({status, Torn})
  /\ UNCHANGED <<kind, stored, redis>>

UpdateOrder(r) ==
  /\ At(r, "assign")
  /\ \E status \in handler[r].copy : BecomesStored(status)
  /\ Go(r, "answered")
  /\ UNCHANGED redis

Delete(r) ==
  /\ At(r, "delete")
  /\ \/ entry' = {} /\ life' = 0 /\ blamed' = FALSE /\ UNCHANGED lost
     \/ Lose /\ blamed' = (entry # {}) /\ UNCHANGED <<entry, life>>
  /\ Go(r, "answered")
  /\ UNCHANGED record

-----------------------------------------------------------------------------
\* Time passes while every request can still meet the time it may take.
CacheTick ==
  /\ \A r \in Handlers : At(r, "idle") \/ handler[r].age < Delay
  /\ handler' = [r \in Handlers |->
                   IF At(r, "idle") THEN handler[r]
                   ELSE [handler[r] EXCEPT !.age = @ + 1]]
  /\ life' = IF life = 0 THEN 0 ELSE life - 1
  /\ entry' = IF life' = 0 THEN {} ELSE entry
  /\ blamed' = (blamed /\ life' # 0)
  /\ past' = [v \in Values(kind) |->
                CASE v \in Visible -> 0
                  [] v \notin Visible /\ past[v] = LongAgo -> LongAgo
                  [] OTHER -> past[v] + 1]
  /\ UNCHANGED <<kind, stored, lost>>

Handle(r) ==
  \/ Hit(r) \/ Miss(r) \/ Load(r) \/ Fill(r) \/ Close(r)
  \/ Reserve(r) \/ Release(r) \/ CheckRefund(r) \/ UpdateStatus(r)
  \/ Assign(r) \/ UpdateOrder(r) \/ Delete(r)

CacheNext == (\E r \in Handlers : Handle(r)) \/ CacheTick

CacheSpec == CacheInit /\ [][CacheNext]_cacheVars

-----------------------------------------------------------------------------
\* An answer is at most as old as the life of an entry and the longest
\* request together, slow readers, torn reads and lost commands included:
\* what the cache holds was in the repository TTL - life + Delay ticks ago
\* (redis.go:95, service.go:89 of the inventory, :242 of the payments).
BoundedStaleness == \A v \in entry : past[v] + life <= TTL + Delay

\* Reserve, Release and Refund invalidate the cache
\* (docs/cloud-native-platform.md:71): when none is about to, an entry that
\* differs from the record is one that a reader filled in afterwards, or that
\* Redis was never told to delete.
ChangesInvalidate ==
  kind # "order" /\ (\A r \in Handlers : ~At(r, "delete")) =>
    entry \in {{}, {stored}} \/ blamed
=============================================================================
