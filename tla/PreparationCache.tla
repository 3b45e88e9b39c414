---------------------------- MODULE PreparationCache ----------------------------
(* Utf8BoundedPreparationCache and the callers that share it: the replacement   *)
(* plan caches of the Core, PythonRe and PCRE2 expressions and Utf8RegexCache.  *)
(* Every section under lock(this) is one step; the factory runs outside it.     *)
(* control.Check() may throw wherever the code calls it, because the caller's   *)
(* token or deadline may fire at any moment: each section has a step in which   *)
(* it does.  The gate sections of Utf8FundedStorage are atomic here, as module  *)
(* FundedStorage justifies.                                                     *)
EXTENDS Integers, FiniteSets, Functions

CONSTANTS
  Threads,         \* threads that call the cache
  Keys, NoKey,
  BadKeys,         \* keys whose factory rejects the text: a genuine template error
  HugeKeys,        \* keys whose own charge exceeds the payload maximum
  Slots, NoSlot,   \* heap identities of CacheEntry and Utf8FundedStorage objects
  KeyCharge,       \* charge of a key that is not huge
  ValueCharges,    \* charges a prepared value may have
  MaxPayload,      \* _maximumPayloadBytes
  MaxEntries,      \* entries that _maximumMetadataBytes has room for
  Capacities,      \* values given to Capacity
  MaxGeneration,   \* bound on Clear and capacity shrinks
  Funded,          \* EnableFunding was called before publication
  Client           \* whose catch clauses meet a foreign failure: "core" or "pcre2"

ASSUME CacheAssumption ==
  /\ NoKey \notin Keys /\ BadKeys \subseteq Keys /\ HugeKeys \subseteq Keys
  /\ NoSlot \notin Slots /\ IsFiniteSet(Slots) /\ IsFiniteSet(Threads)
  /\ KeyCharge \in Nat \ {0} /\ ValueCharges \subseteq Nat \ {0}
  /\ MaxPayload \in Nat /\ MaxEntries \in Nat /\ MaxGeneration \in Nat
  /\ KeyCharge <= MaxPayload
  /\ Capacities \subseteq Nat /\ Funded \in BOOLEAN
  /\ Client \in {"core", "pcre2"}

VARIABLES
  listed,          \* entries linked from _first; Cardinality(listed) is _count
  older,           \* the order of the links: <<a, b>> when a comes before b
  capacity, generation, payload,   \* _capacity, _generation, _payloadBytes
  entry,           \* the reachable CacheEntry objects with their Memory
  call,            \* the stack of each thread's call
  account          \* bytes the host's allowance counts for this cache

vars == <<listed, older, capacity, generation, payload, entry, call, account>>

Failures == {"interrupt", "denied", "invalid"}

NewCall ==
  [pc |-> "idle", key |-> NoKey, gen |-> 0, lane |-> "none", ent |-> NoSlot,
   use |-> NoSlot, value |-> 0, reserved |-> 0, why |-> "none", foreign |-> FALSE]

Init ==
  /\ listed = {} /\ older = {}
  /\ capacity \in Capacities /\ generation = 0 /\ payload = 0
  /\ entry = [s \in {} |-> 0]
  /\ call = [t \in Threads |-> NewCall]
  /\ account = 0

--------------------------------------------------------------------------------
(* Heap and list helpers.                                                       *)

Update(t, r) == call' = [call EXCEPT ![t] = r]

(* What a thread's stack or the list refers to; anything else is garbage.       *)
Reachable ==
  (listed \cup {call[t].ent : t \in Threads} \cup {call[t].use : t \in Threads})
    \ {NoSlot}

Heap(f) == entry' = [s \in Reachable' |-> f[s]]

FreeSlots == Slots \ Reachable

Users(s) == {t \in Threads : call[t].use = s}

Charges(S) == SumFunctionOnSet([s \in DOMAIN entry |-> entry[s].charge], S)

\* mutant: closing refunds the bytes under a use in flight
Closed_IgnoresUsers(e, unused) == [e EXCEPT !.charge = 0, !.closed = TRUE, !.bytes = 0]

(* Memory.Close: bytes go back at once when no use is in flight.                *)
Closed(e, unused) ==
  [e EXCEPT !.charge = 0, !.closed = TRUE, !.bytes = IF unused THEN 0 ELSE @]

(* Remove, for every entry of R: unlinked, its charge returned, Memory closed.  *)
Detached(R) ==
  [s \in DOMAIN entry |-> IF s \in R THEN Closed(entry[s], Users(s) = {}) ELSE entry[s]]

(* The bytes that go back to the host when the heap turns into f.               *)
Refunds(f) == SumFunction([s \in DOMAIN entry |-> entry[s].bytes - f[s].bytes])

\* mutant: the links around a removed entry are not repaired
Unlink_KeepsLinks(R) == listed' = listed \ R /\ UNCHANGED older

Unlink(R) ==
  /\ listed' = listed \ R
  /\ older' = {p \in older : p[1] \notin R /\ p[2] \notin R}

(* Unlink the entries of R and append s.                                        *)
Relink(R, s) ==
  /\ listed' = (listed \ R) \cup {s}
  /\ older' = {p \in older : p[1] \notin R /\ p[2] \notin R} \cup ((listed \ R) \X {s})

\* mutant: the comparer is trusted for the hash code only, and every key collides
Find_HashOnly(k) == listed

Find(k) == {s \in listed : entry[s].key = k}

CanAdd == Cardinality(listed) < capacity /\ Cardinality(listed) < MaxEntries

\* mutant: room is claimed in a full list
HasRoomForCharge_Full(bytes, retained, charge) ==
  bytes <= MaxPayload - charge /\ retained <= capacity /\ retained < MaxEntries

HasRoomForCharge(bytes, retained, charge) ==
  bytes <= MaxPayload - charge /\ retained < capacity /\ retained < MaxEntries

Prefixes(S) ==
  {V \in SUBSET S : \A v \in V, s \in S : <<s, v>> \in older => s \in V}

\* mutant: the scan for victims does not skip pending entries
Evictable_Any(replacing) == listed \ {replacing}

Evictable(replacing) == {s \in listed \ {replacing} : entry[s].status = "ready"}

(* The victims PublishCharge plans: the ready entries from the front of the     *)
(* list, as few as make room; no set at all when even all of them do not.       *)
Victims(replacing, charge) ==
  LET kept(V) == listed \ (V \cup {replacing})
      room(V) == HasRoomForCharge(payload - Charges(listed \ kept(V)),
                                  Cardinality(kept(V)), charge)
      P == Prefixes(Evictable(replacing))
  IN  {V \in P : room(V) /\ \A W \in P : room(W) => V \subseteq W}

\* mutant: publication does not compare the captured generation
Current_Ignored(t) == TRUE

(* The generation captured at lookup still stands.                              *)
Current(t) == call[t].gen = generation

--------------------------------------------------------------------------------
(* A call to GetOrAdd, from entry to the lookup section.                        *)

(* Capacity is read without the lock; a zero capacity or a key that can never   *)
(* be retained takes the private lane.                                          *)
GetOrAdd(t, k) ==
  /\ call[t].pc = "idle"
  /\ Update(t, IF capacity = 0 \/ k \in HugeKeys
               THEN [NewCall EXCEPT !.pc = "prepare", !.key = k, !.lane = "private"]
               ELSE [NewCall EXCEPT !.pc = "lookup", !.key = k])
  /\ UNCHANGED <<listed, older, capacity, generation, payload, entry, account>>

(* The Use a funded caller holds on the Memory of s.                            *)
UseOf(s) == IF Funded THEN s ELSE NoSlot

(* The call returns with a value; u is its Use, or NoSlot.                      *)
Returned(u) == [NewCall EXCEPT !.pc = "return", !.use = u]

(* The call throws; its scopes and its Use are still to be unwound.             *)
Thrown(t, why) ==
  [NewCall EXCEPT !.pc = "unwind", !.key = call[t].key, !.use = call[t].use,
                  !.reserved = call[t].reserved, !.why = why]

(* Read(entry): the Use is taken under the lock, before any wait.  A ready      *)
(* value is returned, and the call's own scopes give back what they reserved.   *)
Read(t, k, s) ==
  /\ IF entry[s].status = "pending"
     THEN /\ Update(t, [NewCall EXCEPT !.pc = "wait", !.key = k, !.ent = s, !.use = UseOf(s),
                                       !.reserved = call[t].reserved])
          /\ UNCHANGED account
     ELSE /\ Update(t, Returned(UseOf(s)))
          /\ account' = account - call[t].reserved
  /\ UNCHANGED <<listed, older, capacity, generation, payload>>
  /\ Heap(entry)

(* TryGet finds an entry for a borrowed key; a miss changes nothing and is      *)
(* followed by GetOrAdd.                                                        *)
TryGet(t, k) ==
  /\ call[t].pc = "idle"
  /\ \E s \in Find(k) : Read(t, k, s)

(* The caller's token fires at the last check of Read: the Use of a ready entry *)
(* was taken, and the call throws with it.  (A pending entry is waited for, and *)
(* the check of the wait is in Interrupted.)                                    *)
ReadInterrupted(t, k) ==
  /\ \/ call[t].pc = "idle"
     \/ call[t].pc = "lookup" /\ call[t].key = k
     \/ call[t].pc = "publish" /\ call[t].lane = "late" /\ call[t].key = k /\ Current(t)
  /\ \E s \in Find(k) :
       /\ entry[s].status = "ready"
       /\ Update(t, [Thrown(t, "interrupt") EXCEPT !.key = k, !.use = UseOf(s)])
  /\ UNCHANGED <<listed, older, capacity, generation, payload, account>>
  /\ Heap(entry)

LookupHit(t) ==
  /\ call[t].pc = "lookup"
  /\ \E s \in Find(call[t].key) : Read(t, call[t].key, s)

NewEntry(t, status, charge, bytes) ==
  [key |-> call[t].key, status |-> status, charge |-> charge, bytes |-> bytes,
   closed |-> FALSE]

(* Miss with room for a pending entry: Acquire reserves the key and takes the   *)
(* preparer's Use, PublishCharge appends it without evicting anything.          *)
LookupPending(t) ==
  /\ call[t].pc = "lookup" /\ Find(call[t].key) = {}
  /\ CanAdd /\ HasRoomForCharge(payload, Cardinality(listed), KeyCharge)
  /\ \E s \in FreeSlots :
       /\ Relink({}, s)
       /\ Update(t, [call[t] EXCEPT !.pc = "prepare", !.lane = "pending", !.ent = s,
                                    !.gen = generation, !.use = UseOf(s),
                                    !.reserved = IF Funded THEN KeyCharge ELSE 0])
       /\ entry' = [x \in Reachable' |->
                      IF x = s THEN NewEntry(t, "pending", KeyCharge, 0) ELSE entry[x]]
  /\ payload' = payload + KeyCharge
  /\ account' = account + (IF Funded THEN KeyCharge ELSE 0)
  /\ UNCHANGED <<capacity, generation>>

(* A failure after Acquire gave the call a storage of its own: the catch block  *)
(* closes it under the call's Use, holding the bytes if they were transferred   *)
(* and none if they are still in the call's scope.  Nobody can reach the entry, *)
(* only its Memory: the status only tells how it ended.                         *)
ThrowOwning(t, bytes, reserved) ==
  /\ UNCHANGED <<listed, older, capacity, generation, payload>>
  /\ \E s \in FreeSlots, why \in {"interrupt", "denied"} :
       /\ Update(t, [Thrown(t, why) EXCEPT !.use = s, !.reserved = reserved])
       /\ entry' = [x \in Reachable' |->
            IF x = s THEN Closed(NewEntry(t, why, 0, bytes), FALSE) ELSE entry[x]]
  /\ account' = account + KeyCharge

(* The check after Acquire, or one of PublishCharge's, throws in the lookup     *)
(* section of a funded call.                                                    *)
AcquireInterrupted(t) ==
  /\ Funded /\ call[t].pc = "lookup" /\ Find(call[t].key) = {} /\ CanAdd
  /\ ThrowOwning(t, 0, KeyCharge)

(* Miss in a full cache: no pending entry.  When only the payload was full the  *)
(* acquired entry is discarded, but its reservation stays in the scope.         *)
LookupLate(t) ==
  /\ call[t].pc = "lookup" /\ Find(call[t].key) = {}
  /\ ~(CanAdd /\ HasRoomForCharge(payload, Cardinality(listed), KeyCharge))
  /\ LET reserved == IF Funded /\ CanAdd THEN KeyCharge ELSE 0
     IN  /\ Update(t, [call[t] EXCEPT !.pc = "prepare", !.lane = "late",
                                      !.gen = generation, !.reserved = reserved])
         /\ account' = account + reserved
  /\ UNCHANGED <<listed, older, capacity, generation, payload, entry>>

--------------------------------------------------------------------------------
(* The factory, outside the lock.                                               *)

Factory(t) ==
  /\ call[t].pc = "prepare" /\ call[t].key \notin BadKeys
  /\ \E v \in ValueCharges :
       LET paid == IF Funded THEN v ELSE 0
       IN  /\ Update(t, [call[t] EXCEPT !.pc = "publish", !.value = v,
                                        !.reserved = @ + paid])
           /\ account' = account + paid
  /\ UNCHANGED <<listed, older, capacity, generation, payload, entry>>

(* The factory throws: a template error, the caller's own token or deadline, or *)
(* a refusal of the caller's own allowance.                                     *)
FactoryThrows(t) ==
  /\ call[t].pc = "prepare"
  /\ \E why \in IF call[t].key \in BadKeys THEN Failures ELSE Failures \ {"invalid"} :
       Update(t, IF call[t].lane = "pending"
                 THEN [call[t] EXCEPT !.pc = "fail", !.why = why]
                 ELSE Thrown(t, why))
  /\ UNCHANGED <<listed, older, capacity, generation, payload, entry, account>>

(* control.Check() or an admission refusal in a section that has changed        *)
(* nothing yet, in the lanes without a pending entry, and while waiting.  (A    *)
(* storage that Complete or Acquire made for the call and that has no bytes yet *)
(* ends here too: its Use refunds nothing.)                                     *)
Interrupted(t) ==
  /\ \/ call[t].pc \in {"lookup", "wait"}
     \/ call[t].pc = "publish" /\ call[t].lane # "pending"
  /\ \E why \in IF call[t].pc = "wait" THEN {"interrupt"} ELSE {"interrupt", "denied"} :
       Update(t, Thrown(t, why))
  /\ UNCHANGED <<listed, older, capacity, generation, payload, account>>
  /\ Heap(entry)

--------------------------------------------------------------------------------
(* Publication.                                                                 *)

(* Complete(owner, value, funding, null): the caller keeps an unlisted charge,  *)
(* held by a storage that is closed at once and refunded by the caller's Use.   *)
KeepPrivate(t) ==
  IF Funded
  THEN \E s \in FreeSlots :
         /\ Update(t, Returned(s))
         /\ entry' = [x \in Reachable' |->
              IF x = s THEN Closed(NewEntry(t, "ready", 0, call[t].reserved), FALSE)
                       ELSE entry[x]]
         /\ UNCHANGED account
  ELSE /\ Update(t, Returned(NoSlot))
       /\ UNCHANGED <<entry, account>>

PublishPrivate(t) ==
  /\ call[t].pc = "publish" /\ call[t].lane = "private"
  /\ UNCHANGED <<listed, older, capacity, generation, payload>>
  /\ KeepPrivate(t)

Fits(t) == KeyCharge + call[t].value <= MaxPayload

(* The late lane declines to retain: stale generation, no capacity, nothing     *)
(* that may be evicted, or a value over the payload maximum.                    *)
LateDeclines(t) ==
  \/ ~Current(t)
  \/ /\ Find(call[t].key) = {}
     /\ \/ capacity = 0 \/ MaxEntries = 0
        \/ ~CanAdd /\ \A s \in listed : entry[s].status = "pending"
        \/ ~Fits(t)

LateUncached(t) ==
  /\ call[t].pc = "publish" /\ call[t].lane = "late"
  /\ LateDeclines(t)
  /\ UNCHANGED <<listed, older, capacity, generation, payload>>
  /\ KeepPrivate(t)

(* Somebody else listed the key meanwhile: its entry is read, or waited for.    *)
LateHit(t) ==
  /\ call[t].pc = "publish" /\ call[t].lane = "late"
  /\ Current(t)
  /\ \E s \in Find(call[t].key) : Read(t, call[t].key, s)

(* The completed entry replaces the victims V at the end of the list.           *)
PublishCompleted(t, s, charge, V) ==
  /\ Relink(V, s)
  /\ payload' = payload - Charges(V) + charge
  /\ Update(t, Returned(UseOf(s)))
  /\ LET paid == IF Funded THEN call[t].reserved + KeyCharge ELSE 0
     IN  entry' = [x \in Reachable' |->
            IF x = s THEN NewEntry(t, "ready", charge, paid) ELSE Detached(V)[x]]
  /\ account' = account - Refunds(Detached(V)) + (IF Funded THEN KeyCharge ELSE 0)

\* mutant: the late lane does not look again for the key it prepared
LatePublish_NoRecheck(t) ==
  /\ call[t].pc = "publish" /\ call[t].lane = "late"
  /\ ~LateDeclines(t)
  /\ \E s \in FreeSlots, V \in Victims(NoSlot, KeyCharge + call[t].value) :
       PublishCompleted(t, s, KeyCharge + call[t].value, V)
  /\ UNCHANGED <<capacity, generation>>

(* The late lane publishes a completed entry, evicting ready ones for it.       *)
LatePublish(t) ==
  /\ call[t].pc = "publish" /\ call[t].lane = "late"
  /\ ~LateDeclines(t) /\ Find(call[t].key) = {}
  /\ \E s \in FreeSlots, V \in Victims(NoSlot, KeyCharge + call[t].value) :
       PublishCompleted(t, s, KeyCharge + call[t].value, V)
  /\ UNCHANGED <<capacity, generation>>

\* mutant: the entry of an interrupted publication is not closed
LateInterrupted_NotClosed(t) ==
  /\ Funded /\ call[t].pc = "publish" /\ call[t].lane = "late"
  /\ ~LateDeclines(t) /\ Find(call[t].key) = {}
  /\ UNCHANGED <<listed, older, capacity, generation, payload>>
  /\ \E s \in FreeSlots, why \in {"interrupt", "denied"} :
       /\ Update(t, [Thrown(t, why) EXCEPT !.use = s, !.reserved = 0])
       /\ entry' = [x \in Reachable' |->
            IF x = s THEN NewEntry(t, why, 0, call[t].reserved + KeyCharge) ELSE entry[x]]
  /\ account' = account + KeyCharge

\* mutant: the scope is not marked before the transfer, and rolls back what the
\* storage already holds
LateInterrupted_Unmarked(t) ==
  /\ Funded /\ call[t].pc = "publish" /\ call[t].lane = "late"
  /\ ~LateDeclines(t) /\ Find(call[t].key) = {}
  /\ LET paid == call[t].reserved + KeyCharge
     IN  \E transferred \in BOOLEAN : ThrowOwning(t, IF transferred THEN paid ELSE 0, paid)

(* A check or a refusal throws between the Acquire of the completed entry and   *)
(* its publication, before or after Complete marked the preparation scope and   *)
(* transferred the charge: the entry is closed unlisted, its bytes go back with *)
(* the call's Use, or with its scope.                                           *)
LateInterrupted(t) ==
  /\ Funded /\ call[t].pc = "publish" /\ call[t].lane = "late"
  /\ ~LateDeclines(t) /\ Find(call[t].key) = {}
  /\ LET paid == call[t].reserved + KeyCharge
     IN  \/ ThrowOwning(t, 0, paid)
         \/ ThrowOwning(t, paid, 0)

(* No plan makes room: the completed entry is closed unlisted.                  *)
LateNoRoom(t) ==
  /\ call[t].pc = "publish" /\ call[t].lane = "late"
  /\ ~LateDeclines(t) /\ Find(call[t].key) = {}
  /\ Victims(NoSlot, KeyCharge + call[t].value) = {}
  /\ UNCHANGED <<listed, older, capacity, generation, payload>>
  /\ IF Funded
     THEN \E s \in FreeSlots :
            /\ Update(t, Returned(s))
            /\ entry' = [x \in Reachable' |->
                 IF x = s THEN Closed(NewEntry(t, "ready", 0, call[t].reserved + KeyCharge), FALSE)
                          ELSE entry[x]]
            /\ account' = account + KeyCharge
     ELSE /\ Update(t, Returned(NoSlot))
          /\ UNCHANGED <<entry, account>>

(* The pending entry becomes ready; its charge was transferred to its Memory.   *)
Ready(t, e, charge) ==
  [e EXCEPT !.status = "ready", !.charge = charge, !.bytes = call[t].reserved]

ReturnOwn(t) == Update(t, Returned(call[t].use))

(* The pending entry is still listed, its generation stands and there is room.  *)
PendingPublish(t) ==
  /\ call[t].pc = "publish" /\ call[t].lane = "pending"
  /\ call[t].ent \in listed /\ Fits(t) /\ Current(t)
  /\ LET s == call[t].ent
         charge == KeyCharge + call[t].value
     IN  \E V \in Victims(s, charge) :
           /\ Unlink(V)
           /\ payload' = payload - Charges(V \cup {s}) + charge
           /\ ReturnOwn(t)
           /\ entry' = [x \in Reachable' |->
                IF x = s THEN Ready(t, entry[s], charge) ELSE Detached(V)[x]]
           /\ account' = account - Refunds(Detached(V))
  /\ UNCHANGED <<capacity, generation>>

(* The pending entry was detached by Clear or a shrink, or may not be retained: *)
(* it is removed, but still satisfies the callers already waiting for it.       *)
PendingUnlisted(t) ==
  /\ call[t].pc = "publish" /\ call[t].lane = "pending"
  /\ LET s == call[t].ent
         charge == KeyCharge + call[t].value
     IN  /\ \/ s \notin listed \/ ~Fits(t) \/ ~Current(t)
            \/ Victims(s, charge) = {}
         /\ Unlink({s})
         /\ payload' = payload - Charges(listed \cap {s})
         /\ ReturnOwn(t)
         /\ entry' = [x \in Reachable' |->
              IF x = s THEN Closed(Ready(t, entry[s], 0), FALSE) ELSE entry[x]]
  /\ UNCHANGED <<capacity, generation, account>>

(* An interruption under the publication lock, before or after the charge was   *)
(* transferred to the entry's Memory: the lock is left, the catch block follows.*)
PublishInterrupted(t) ==
  /\ call[t].pc = "publish" /\ call[t].lane = "pending"
  /\ UNCHANGED <<listed, older, capacity, generation, payload, account>>
  /\ \E transferred \in BOOLEAN, why \in {"interrupt", "denied"} :
       /\ Update(t, [call[t] EXCEPT !.pc = "fail", !.why = why, !.value = 0,
                                    !.reserved = IF transferred THEN 0 ELSE @])
       /\ Heap([entry EXCEPT ![call[t].ent].bytes = IF transferred THEN call[t].reserved ELSE @])

\* mutant: a failed preparation leaves its pending entry in the list
FailPending_NotRemoved(t) ==
  /\ call[t].pc = "fail"
  /\ Update(t, Thrown(t, call[t].why))
  /\ UNCHANGED <<listed, older, payload, capacity, generation, account>>
  /\ Heap([entry EXCEPT ![call[t].ent].closed = TRUE])

(* The catch block of a pending preparation, under the lock again: the failure  *)
(* is stored for the waiters, the entry removed and its Memory closed.          *)
FailPending(t) ==
  /\ call[t].pc = "fail"
  /\ LET s == call[t].ent
     IN  /\ Unlink({s})
         /\ payload' = payload - Charges(listed \cap {s})
         /\ Update(t, Thrown(t, call[t].why))
         /\ entry' = [x \in Reachable' |->
              IF x = s THEN Closed([entry[s] EXCEPT !.status = call[t].why], FALSE)
                       ELSE entry[x]]
  /\ UNCHANGED <<capacity, generation, account>>

--------------------------------------------------------------------------------
(* The ends of a call.                                                          *)

(* Monitor.Wait returned (PulseAll, or its 20 ms poll) and the entry is settled:*)
(* its value is returned or its preparer's failure rethrown.                    *)
Woken(t) ==
  /\ call[t].pc = "wait" /\ entry[call[t].ent].status # "pending"
  /\ LET status == entry[call[t].ent].status
     IN  IF status = "ready"
         THEN /\ Update(t, Returned(call[t].use))
              /\ account' = account - call[t].reserved
         ELSE /\ Update(t, [Thrown(t, status) EXCEPT !.foreign = TRUE])
              /\ UNCHANGED account
  /\ UNCHANGED <<listed, older, capacity, generation, payload>>
  /\ Heap(entry)

(* Use.Dispose: the last use of a closed Memory refunds its bytes.              *)
Left(t) ==
  LET s == call[t].use
  IN  [x \in DOMAIN entry |->
         IF x = s /\ entry[x].closed /\ Users(s) = {t} THEN [entry[x] EXCEPT !.bytes = 0]
                                                       ELSE entry[x]]

\* mutant: a failing call disposes its Use only
Unwind_KeepsScope(t) ==
  /\ call[t].pc = "unwind"
  /\ Update(t, [call[t] EXCEPT !.pc = "caught", !.use = NoSlot, !.reserved = 0])
  /\ account' = account - Refunds(Left(t))
  /\ UNCHANGED <<listed, older, capacity, generation, payload>>
  /\ Heap(Left(t))

(* The scopes of a failing call roll back what they reserved, and its Use is    *)
(* disposed.                                                                    *)
Unwind(t) ==
  /\ call[t].pc = "unwind"
  /\ Update(t, [call[t] EXCEPT !.pc = "caught", !.use = NoSlot, !.reserved = 0])
  /\ account' = account - Refunds(Left(t)) - call[t].reserved
  /\ UNCHANGED <<listed, older, capacity, generation, payload>>
  /\ Heap(Left(t))

(* What the clauses name: a cancellation or an expired deadline, and with PCRE2 *)
(* a limit of the other call too.  A denial stands for such a limit there, and  *)
(* for the refusal of a working allowance, which neither client names, in Core. *)
CoreCatches == {"interrupt"}

Pcre2Catches == {"interrupt", "denied"}

CaughtFailures == IF Client = "core" THEN CoreCatches ELSE Pcre2Catches

(* The client's catch clauses.  A foreign failure of a kind they name is        *)
(* answered by one preparation under the caller's own controls, which is never  *)
(* published; anything else, and a failure of that preparation, propagates.     *)
Recovers(t) == call[t].foreign /\ call[t].why \in CaughtFailures

Recover(t) ==
  /\ call[t].pc = "caught" /\ Recovers(t)
  /\ Update(t, [NewCall EXCEPT !.pc = "prepare", !.key = call[t].key, !.lane = "private"])
  /\ UNCHANGED <<listed, older, capacity, generation, payload, entry, account>>

Propagate(t) ==
  /\ call[t].pc = "caught" /\ ~Recovers(t)
  /\ Update(t, [call[t] EXCEPT !.pc = "failed", !.key = NoKey])
  /\ UNCHANGED <<listed, older, capacity, generation, payload, entry, account>>

(* The operation that asked for the value ends and disposes its Use.            *)
Finish(t) ==
  /\ call[t].pc \in {"return", "failed"}
  /\ Update(t, NewCall)
  /\ account' = account - Refunds(Left(t))
  /\ UNCHANGED <<listed, older, capacity, generation, payload>>
  /\ Heap(Left(t))

--------------------------------------------------------------------------------
(* Invalidation.                                                                *)

RemoveAll(R) ==
  /\ Unlink(R)
  /\ UNCHANGED call
  /\ payload' = payload - Charges(R)
  /\ Heap(Detached(R))
  /\ account' = account - Refunds(Detached(R))

Clear ==
  /\ generation < MaxGeneration
  /\ generation' = generation + 1
  /\ RemoveAll(listed)
  /\ UNCHANGED capacity

(* Capacity's setter removes from the front, pending entries included.          *)
SetCapacity(value) ==
  /\ value # capacity /\ (value < capacity => generation < MaxGeneration)
  /\ generation' = IF value < capacity THEN generation + 1 ELSE generation
  /\ capacity' = value
  /\ \E R \in Prefixes(listed) :
       /\ Cardinality(listed \ R) <= value
       /\ \A W \in Prefixes(listed) : Cardinality(listed \ W) <= value => R \subseteq W
       /\ RemoveAll(R)

Step(t) ==
  \/ LookupHit(t) \/ LookupPending(t) \/ LookupLate(t)
  \/ Factory(t) \/ FactoryThrows(t)
  \/ PublishPrivate(t) \/ LateUncached(t) \/ LateHit(t) \/ LatePublish(t) \/ LateNoRoom(t)
  \/ PendingPublish(t) \/ PendingUnlisted(t) \/ PublishInterrupted(t) \/ FailPending(t)
  \/ Woken(t) \/ Unwind(t) \/ Recover(t) \/ Propagate(t) \/ Finish(t)

Next ==
  \/ \E t \in Threads :
       \/ Step(t) \/ Interrupted(t) \/ AcquireInterrupted(t) \/ LateInterrupted(t)
       \/ \E k \in Keys : GetOrAdd(t, k) \/ TryGet(t, k) \/ ReadInterrupted(t, k)
  \/ Clear
  \/ \E value \in Capacities : SetCapacity(value)

Spec == Init /\ [][Next]_vars

(* Factories and the operations that use a value return, the lock is granted,   *)
(* and Monitor.Wait polls every 20 ms: a call that can take a step takes one.   *)
Fairness == \A t \in Threads : WF_vars(Step(t))

FairSpec == Spec /\ Fairness

--------------------------------------------------------------------------------
Pcs == {"idle", "lookup", "prepare", "publish", "fail", "wait", "unwind", "caught",
        "failed", "return"}

CallType ==
  [pc : Pcs, key : Keys \cup {NoKey}, gen : 0..MaxGeneration,
   lane : {"none", "private", "late", "pending"},
   ent : Slots \cup {NoSlot}, use : Slots \cup {NoSlot},
   value : Nat, reserved : Nat, why : Failures \cup {"none"}, foreign : BOOLEAN]

EntryType ==
  [key : Keys, status : {"pending", "ready"} \cup Failures, charge : Nat, bytes : Nat,
   closed : BOOLEAN]

TypeOK ==
  /\ listed \subseteq Slots /\ older \subseteq listed \X listed
  /\ capacity \in Capacities /\ generation \in 0..MaxGeneration
  /\ entry \in [Reachable -> EntryType]
  /\ call \in [Threads -> CallType]

(* The cache never holds more than its capacity, its metadata bound or its      *)
(* payload maximum, and _payloadBytes, which is adjusted at every append,       *)
(* replacement and removal, is exactly the sum of the listed charges.           *)
Bounded ==
  /\ Cardinality(listed) <= capacity /\ Cardinality(listed) <= MaxEntries
  /\ payload = Charges(listed) /\ payload <= MaxPayload

(* A key has at most one listed entry, although lookup and publication of the   *)
(* same key happen in different lock sections of different callers.             *)
OneEntryPerKey ==
  \A a, b \in listed : entry[a].key = entry[b].key => a = b

(* Single flight: a pending entry, listed or detached, has exactly one live     *)
(* preparer that will settle it, so nobody waits for an entry without an owner, *)
(* and a failed entry is listed no longer: it is seen only by those who waited. *)
Preparers(s) ==
  {t \in Threads : call[t].ent = s /\ call[t].pc \in {"prepare", "publish", "fail"}}

SingleFlight ==
  /\ \A s \in DOMAIN entry : entry[s].status = "pending" =>
        \E t \in Threads : Preparers(s) = {t}
  /\ \A s \in listed : entry[s].status \in {"pending", "ready"}

(* The bytes behind a value that a running operation uses have not been         *)
(* refunded, whatever was evicted, cleared or shrunk since; an entry outside    *)
(* the list is closed, so its last user refunds it.                             *)
ActiveUseFunded ==
  Funded =>
    /\ \A t \in Threads : call[t].pc = "return" => entry[call[t].use].bytes > 0
    /\ \A s \in DOMAIN entry : entry[s].closed <=> s \notin listed

(* The host's account is what calls in progress have reserved plus what         *)
(* reachable storages retain: nothing leaks, nothing is refunded twice.  With   *)
(* an empty cache and idle callers the account is zero.                         *)
Conserved ==
  account = SumFunction([t \in Threads |-> call[t].reserved])
          + SumFunction([s \in DOMAIN entry |-> entry[s].bytes])

(* A caller fails for its own interruption, its own refusal or a genuine        *)
(* template error, and does not inherit another caller's failure.  The comment  *)
(* in GetParsedReplacement: "prepare once, rather than inheriting its failure". *)
NoInheritedFailure ==
  \A t \in Threads : call[t].pc = "failed" /\ call[t].foreign => call[t].why = "invalid"

(* A template error reaches only callers of the faulty template, although it is *)
(* stored in an entry that others found, that was unlisted before it settled,   *)
(* and that they read after the lock was given up.                              *)
ErrorsOfOwnKey ==
  \A t \in Threads :
    call[t].pc \in {"fail", "unwind", "caught"} /\ call[t].why = "invalid" =>
      call[t].key \in BadKeys

(* A value enters the list, or becomes ready in it, only under the generation   *)
(* its preparer captured at lookup: no publication after Clear or a shrink.     *)
ReadyListed == {s \in listed : entry[s].status = "ready"}

NoStalePublication ==
  [][\A s \in ReadyListed' \ ReadyListed : \E t \in Threads :
       /\ call[t].pc = "publish" /\ call'[t].pc = "return"
       /\ call[t].gen = generation /\ call[t].key = entry'[s].key]_vars

(* A caller works on its key from the miss to the end of its preparation, when  *)
(* the result may enter the list.                                               *)
Works(k) == k.lane \in {"pending", "late"} /\ k.pc \in {"prepare", "publish", "fail"}

WorkOf(k) == IF Works(k) THEN <<k.key, k.gen>> ELSE <<NoKey, 0>>

Plans == {entry[s].key : s \in ReadyListed}

Work == [t \in Threads |-> WorkOf(call[t])]

Claims == {t \in Threads : Works(call[t]) /\ call[t].ent \in listed}

(* The cache implements the abstract map: the ready entries are its plans, the  *)
(* listed pending entries the claims of their preparers, the generation its     *)
(* epoch.  Each section under the lock is one step of the map or none: a value  *)
(* enters it only in the epoch of its lookup and only if nobody else holds the  *)
(* key, and work that fails or comes too late evicts nothing.                   *)
M == INSTANCE PlanMap WITH
       ready <- Plans, work <- Work, claims <- Claims,
       epoch <- generation, room <- capacity

ImplementsPlanMap == M!Map

(* Every call returns or fails, whatever its preparer, the other waiters and    *)
(* the invalidations do.                                                        *)
CallsFinish ==
  \A t \in Threads : call[t].pc # "idle" ~> call[t].pc = "idle"
================================================================================
