------------------------- MODULE PreparationCacheProofs -------------------------
(* Proofs about PreparationCache for every set of threads, keys and heap        *)
(* identities, every charge, bound and capacity, with and without funding.  A   *)
(* step changes the stack of one call, unlinks some entries and writes at most  *)
(* one entry of its own; the frame lemma StructureStep carries the invariant    *)
(* over all the others, and the sums of charges and bytes follow by the lemmas  *)
(* of SumTheorems.                                                              *)
EXTENDS PreparationCache, SumTheorems

Preparing(k) == k.pc \in {"prepare", "publish", "fail"} /\ k.lane = "pending"

(* What the record k of a call is, by the step it is about to take.             *)
CallInv(k) ==
  /\ k \in CallType
  /\ k.ent # NoSlot <=> k.pc = "wait" \/ Preparing(k)
  /\ k.ent # NoSlot => k.use = UseOf(k.ent)
  /\ ~Funded => k.use = NoSlot /\ k.reserved = 0
  /\ k.pc \in {"idle", "lookup", "caught", "failed"} => k.use = NoSlot /\ k.reserved = 0
  /\ k.pc \in {"prepare", "publish"} /\ ~Preparing(k) => k.use = NoSlot
  /\ k.pc \in {"lookup", "prepare", "publish"} => k.why = "none" /\ ~k.foreign
  /\ k.pc = "fail" => Preparing(k) /\ k.why \in Failures /\ ~k.foreign
  /\ k.pc = "publish" => k.value \in ValueCharges /\ (Funded => k.reserved > 0)
  /\ k.pc = "return" => k.reserved = 0 /\ ~k.foreign /\ (Funded => k.use # NoSlot)
  /\ k.pc \notin {"idle", "failed", "return"} => k.key \in Keys
  /\ k.foreign => k.pc \in {"unwind", "caught", "failed"} /\ k.why \in Failures

(* A preparer owns a pending entry of its key, and has not paid for it yet.     *)
OwnerInv(t) ==
  Preparing(call[t]) =>
    /\ entry[call[t].ent].status = "pending" /\ entry[call[t].ent].key = call[t].key
    /\ call[t].pc # "fail" => entry[call[t].ent].bytes = 0

SoleOwners ==
  \A t, u \in Threads :
    Preparing(call[t]) /\ Preparing(call[u]) /\ call[t].ent = call[u].ent => t = u

(* What holds of a reachable entry.                                             *)
EntryInv(s) ==
  /\ entry[s].status = "pending" => \E t \in Threads : Preparing(call[t]) /\ call[t].ent = s
  /\ s \in listed => entry[s].status \in {"pending", "ready"}
  /\ entry[s].closed <=> s \notin listed
  /\ Funded /\ entry[s].status = "ready" => entry[s].bytes > 0
  /\ ~Funded => entry[s].bytes = 0

Uses(t) == Funded /\ call[t].pc = "return"

(* The part of the invariant without sums.                                      *)
Structure ==
  /\ TypeOK
  /\ \A t \in Threads : CallInv(call[t])
  /\ \A t \in Threads : OwnerInv(t)
  /\ SoleOwners
  /\ \A s \in DOMAIN entry : EntryInv(s)
  /\ \A t \in Threads : Uses(t) => entry[call[t].use].status = "ready"
  /\ OneEntryPerKey

IInv == Structure /\ Bounded /\ Conserved

(* What is proved of every step; the sums rest on the structure, not on another.*)
Preserved == Structure' /\ (Bounded => Bounded') /\ (Conserved => Conserved')

(* What a step leaves of an entry that is not its own.                          *)
Kept(s) ==
  /\ s \in DOMAIN entry /\ (s \in listed' => s \in listed)
  /\ entry'[s].key = entry[s].key /\ entry'[s].status = entry[s].status
  /\ entry'[s].bytes \in {0, entry[s].bytes}
  /\ entry'[s].closed <=> s \notin listed'
  /\ Funded /\ entry[s].status = "ready" => entry'[s].bytes > 0

--------------------------------------------------------------------------------
(* Which entries are reachable.                                                 *)

(* What is reachable is listed, or on the stack of a call.                      *)
LEMMA ReachableIs ==
  ASSUME NEW s
  PROVE  s \in Reachable <=>
           s # NoSlot /\ (s \in listed \/ \E u \in Threads : s \in {call[u].ent, call[u].use})
  BY DEF Reachable

(* The same after a step of call t.                                             *)
LEMMA ReachableAfter ==
  ASSUME NEW s, NEW t \in Threads, NEW k, call \in [Threads -> CallType],
         call' = [call EXCEPT ![t] = k]
  PROVE  s \in Reachable' <=>
           s # NoSlot /\ (\/ s \in listed' \/ s \in {k.ent, k.use}
                          \/ \E u \in Threads \ {t} : s \in {call[u].ent, call[u].use})
  BY DEF Reachable

(* With funding everything reachable is listed or in use: a call that refers to *)
(* an entry holds a Use of it.                                                  *)
LEMMA ReachableFunded ==
  ASSUME Structure, Funded, NEW s
  PROVE  s \in Reachable <=>
           s # NoSlot /\ (s \in listed \/ \E u \in Threads : s = call[u].use)
  BY ReachableIs DEF Structure, CallInv, UseOf

(* Reachable entries are finitely many heap identities.                         *)
LEMMA ReachableFinite ==
  ASSUME TypeOK
  PROVE  /\ Reachable \subseteq Slots /\ NoSlot \notin Reachable
         /\ IsFiniteSet(Reachable) /\ IsFiniteSet(listed)
         /\ DOMAIN entry = Reachable /\ listed \subseteq Reachable
  <1>1. Reachable \subseteq Slots /\ NoSlot \notin Reachable
    BY DEF Reachable, TypeOK, CallType
  <1>2. listed \subseteq Reachable
    BY CacheAssumption DEF Reachable, TypeOK
  <1>3. IsFiniteSet(Reachable) /\ IsFiniteSet(listed)
    BY <1>1, <1>2, CacheAssumption, FS_Subset
  <1> QED BY <1>1, <1>2, <1>3 DEF TypeOK

(* A step of the calls of T, one or none, that writes the entries of own, new   *)
(* ones and pending ones, and keeps the others.                                 *)
Framed(T, own) ==
  /\ T \in SUBSET Threads /\ (\A t, u \in T : t = u)
  /\ \A u \in Threads \ T : /\ call'[u] = call[u]
                            /\ Preparing(call[u]) => call[u].ent \notin own
  /\ \A t \in T :
       /\ CallInv(call'[t]) /\ OwnerInv(t)'
       /\ Preparing(call[t]) => \/ call[t].ent \in own
                                \/ Preparing(call'[t]) /\ call'[t].ent = call[t].ent
       /\ Preparing(call'[t]) => \/ call'[t].ent \notin DOMAIN entry
                                 \/ Preparing(call[t]) /\ call'[t].ent = call[t].ent
       /\ Uses(t)' => entry'[call'[t].use].status = "ready"
  /\ \A s \in DOMAIN entry' \ own : Kept(s)
  /\ \A s \in DOMAIN entry' \cap own : EntryInv(s)'
  /\ \A s \in DOMAIN entry \cap own : entry[s].status = "pending"

(* The frame: such a step preserves the structure.                              *)
LEMMA StructureStep ==
  ASSUME Structure, TypeOK', OneEntryPerKey', NEW T, NEW own, Framed(T, own)
  PROVE  Structure'
  <1> USE DEF Framed
  <1>1. \A t \in Threads : CallInv(call'[t])
    BY DEF Structure
  <1>2. /\ DOMAIN entry' = Reachable' /\ DOMAIN entry = Reachable
        /\ listed' \subseteq Reachable' /\ listed \subseteq Reachable
    <2>1. CacheAssumption
      BY CacheAssumption
    <2> QED BY <2>1 DEF Structure, TypeOK, Reachable, CacheAssumption
  <1>3. \A u \in Threads : Preparing(call[u]) => call[u].ent \in DOMAIN entry
    BY <1>2, ReachableIs DEF Structure, CallInv
  <1>4. \A u \in Threads : call'[u].ent # NoSlot => call'[u].ent \in DOMAIN entry'
    BY <1>2 DEF Reachable
  <1>5. \A u \in Threads : call'[u].use # NoSlot => call'[u].use \in DOMAIN entry'
    BY <1>2 DEF Reachable
  <1>6. \A t \in Threads : OwnerInv(t)'
    <2> TAKE t \in Threads
    <2>1. CASE t \in T
      BY <2>1
    <2>2. CASE t \notin T
      <3>1. call'[t] = call[t] /\ CallInv(call[t]) /\ OwnerInv(t)
        BY <2>2 DEF Structure
      <3> SUFFICES ASSUME Preparing(call[t]) PROVE OwnerInv(t)'
        BY <3>1 DEF OwnerInv
      <3>2. call[t].ent \in DOMAIN entry' \ own
        BY <2>2, <3>1, <1>4 DEF CallInv
      <3>3. Kept(call[t].ent)
        BY <3>2
      <3> QED BY <3>1, <3>3 DEF OwnerInv, Kept
    <2> QED BY <2>1, <2>2
  <1>7. SoleOwners'
    <2> SUFFICES ASSUME NEW t \in Threads, NEW u \in Threads,
                        Preparing(call'[t]), Preparing(call'[u]), call'[t].ent = call'[u].ent
                 PROVE  t = u
      BY DEF SoleOwners
    <2>1. ASSUME NEW a \in T, NEW b \in Threads \ T,
                 Preparing(call'[a]), Preparing(call'[b]), call'[a].ent = call'[b].ent
          PROVE  FALSE
      <3>1. call'[b] = call[b] /\ call[b].ent \in DOMAIN entry
        BY <2>1, <1>3
      <3>2. Preparing(call[a]) /\ call'[a].ent = call[a].ent
        BY <2>1, <3>1
      <3> QED BY <2>1, <3>1, <3>2 DEF Structure, SoleOwners
    <2>2. CASE t \in T /\ u \in T
      BY <2>2
    <2>3. CASE t \notin T /\ u \notin T
      BY <2>3 DEF Structure, SoleOwners
    <2> QED BY <2>1, <2>2, <2>3
  <1>8. \A s \in DOMAIN entry' : EntryInv(s)'
    <2> TAKE s \in DOMAIN entry'
    <2>1. CASE s \in own
      BY <2>1
    <2>2. CASE s \notin own
      <3>1. Kept(s) /\ EntryInv(s)
        BY <2>2 DEF Structure, Kept
      <3>2. ASSUME entry[s].status = "pending"
            PROVE  \E t \in Threads : Preparing(call'[t]) /\ call'[t].ent = s
        <4>1. PICK t \in Threads : Preparing(call[t]) /\ call[t].ent = s
          BY <3>1, <3>2 DEF EntryInv
        <4> QED BY <2>2, <4>1
      <3> QED BY <3>1, <3>2 DEF EntryInv, Kept
    <2> QED BY <2>1, <2>2
  <1>9. \A t \in Threads : Uses(t)' => entry'[call'[t].use].status = "ready"
    <2> TAKE t \in Threads
    <2>1. CASE t \in T
      BY <2>1
    <2>2. CASE t \notin T
      <3> SUFFICES ASSUME Uses(t)' PROVE entry'[call'[t].use].status = "ready"
        OBVIOUS
      <3>1. call'[t] = call[t] /\ CallInv(call[t]) /\ Uses(t)
        BY <2>2 DEF Structure, Uses
      <3>2. entry[call[t].use].status = "ready" /\ call[t].use \in DOMAIN entry'
        BY <3>1, <1>5 DEF Structure, Uses, CallInv
      <3>3. call[t].use \notin own
        <4>1. call[t].use \in DOMAIN entry
          BY <3>1, <1>2, ReachableIs DEF Uses, CallInv
        <4> QED BY <3>2, <4>1
      <3>4. Kept(call[t].use)
        BY <3>2, <3>3
      <3> QED BY <3>1, <3>2, <3>4 DEF Kept
    <2> QED BY <2>1, <2>2
  <1> QED BY <1>1, <1>6, <1>7, <1>8, <1>9 DEF Structure

--------------------------------------------------------------------------------
(* The sums of the invariant.                                                   *)

Reserved == SumFunction([t \in Threads |-> call[t].reserved])

Bytes(f) == SumFunction([s \in DOMAIN f |-> f[s].bytes])

(* Conserved in these terms.                                                    *)
LEMMA ConservedIs ==
  Conserved <=> account = Reserved + Bytes(entry)
  BY DEF Conserved, Reserved, Bytes

(* The sums are natural numbers.                                                *)
LEMMA SumsType ==
  ASSUME TypeOK
  PROVE  Reserved \in Nat /\ Bytes(entry) \in Nat
  <1> DEFINE f == [t \in Threads |-> call[t].reserved]
             g == [s \in DOMAIN entry |-> entry[s].bytes]
  <1>1. IsFiniteSet(Threads) /\ IsFiniteSet(DOMAIN entry)
    BY CacheAssumption, ReachableFinite DEF CacheAssumption
  <1>2. (\A t \in Threads : f[t] \in Nat) /\ (\A s \in DOMAIN entry : g[s] \in Nat)
    BY DEF TypeOK, CallType, EntryType
  <1>3. DOMAIN f = Threads /\ DOMAIN g = DOMAIN entry
    OBVIOUS
  <1> HIDE DEF f, g
  <1>4. SumFunctionOnSet(f, Threads) \in Nat /\ SumFunctionOnSet(g, DOMAIN entry) \in Nat
    BY <1>1, <1>2, SumNat
  <1> QED BY <1>3, <1>4 DEF Reserved, Bytes, SumFunction, f, g

(* A step of one call changes what is reserved by what that call reserves.      *)
LEMMA ReservedStep ==
  ASSUME TypeOK, NEW t \in Threads, NEW k, k.reserved \in Int, call' = [call EXCEPT ![t] = k]
  PROVE  Reserved' = Reserved - call[t].reserved + k.reserved
  <1> DEFINE f == [u \in Threads |-> call[u].reserved]
             g == [u \in Threads |-> call'[u].reserved]
  <1>1. IsFiniteSet(Threads)
    BY CacheAssumption DEF CacheAssumption
  <1>2. \A u \in Threads : f[u] \in Int /\ g[u] \in Int
    BY DEF TypeOK, CallType
  <1>3. \A u \in Threads \ {t} : f[u] = g[u]
    BY DEF TypeOK
  <1>4. f[t] = call[t].reserved /\ g[t] = k.reserved
    BY DEF TypeOK
  <1>5. DOMAIN f = Threads /\ DOMAIN g = Threads
    OBVIOUS
  <1> HIDE DEF f, g
  <1>6. SumFunctionOnSet(g, Threads) = SumFunctionOnSet(f, Threads) - f[t] + g[t]
    BY <1>1, <1>2, <1>3, SumChange
  <1> QED BY <1>4, <1>5, <1>6 DEF Reserved, SumFunction, f, g

(* Entries without bytes may become garbage.                                    *)
LEMMA BytesDropped ==
  ASSUME NEW f, NEW g, IsFiniteSet(DOMAIN f), DOMAIN g \subseteq DOMAIN f,
         \A s \in DOMAIN f : f[s].bytes \in Int,
         \A s \in DOMAIN g : g[s].bytes = f[s].bytes,
         \A s \in DOMAIN f \ DOMAIN g : f[s].bytes = 0
  PROVE  Bytes(g) = Bytes(f)
  <1> DEFINE F == [s \in DOMAIN f |-> f[s].bytes]
             G == [s \in DOMAIN g |-> g[s].bytes]
  <1>1. /\ \A s \in DOMAIN g : F[s] \in Int /\ G[s] = F[s]
        /\ \A s \in DOMAIN f \ DOMAIN g : F[s] = 0
        /\ DOMAIN F = DOMAIN f /\ DOMAIN G = DOMAIN g
    OBVIOUS
  <1> HIDE DEF F, G
  <1>2. SumFunctionOnSet(G, DOMAIN g) = SumFunctionOnSet(F, DOMAIN f)
    BY <1>1, SumSupport
  <1> QED BY <1>1, <1>2 DEF Bytes, SumFunction, F, G

(* An entry more, or an entry rewritten, where f is the heap before it.         *)
LEMMA BytesWritten ==
  ASSUME NEW f, NEW g, NEW s, IsFiniteSet(DOMAIN f), s \in DOMAIN g,
         DOMAIN g = DOMAIN f \cup {s},
         \A x \in DOMAIN f : f[x].bytes \in Int, g[s].bytes \in Int,
         \A x \in DOMAIN f \ {s} : g[x].bytes = f[x].bytes
  PROVE  Bytes(g) = Bytes(f) + g[s].bytes - (IF s \in DOMAIN f THEN f[s].bytes ELSE 0)
  <1> DEFINE F == [x \in DOMAIN f |-> f[x].bytes]
             G == [x \in DOMAIN g |-> g[x].bytes]
  <1>1. /\ \A x \in DOMAIN f : F[x] \in Int
        /\ \A x \in DOMAIN f \ {s} : G[x] = F[x]
        /\ G[s] \in Int /\ G[s] = g[s].bytes
        /\ s \in DOMAIN f => F[s] = f[s].bytes
        /\ DOMAIN F = DOMAIN f /\ DOMAIN G = DOMAIN g
    OBVIOUS
  <1>2. Bytes(f) = SumFunctionOnSet(F, DOMAIN f) /\ Bytes(g) = SumFunctionOnSet(G, DOMAIN g)
    BY <1>1 DEF Bytes, SumFunction
  <1> HIDE DEF F, G
  <1>3. SumFunctionOnSet(F, DOMAIN f) \in Int
    BY <1>1, SumType
  <1>4. CASE s \in DOMAIN f
    <2>1. DOMAIN g = DOMAIN f /\ \A x \in DOMAIN f : G[x] \in Int
      BY <1>1, <1>4
    <2>2. \A x \in DOMAIN f \ {s} : F[x] = G[x]
      BY <1>1
    <2>3. SumFunctionOnSet(G, DOMAIN f) = SumFunctionOnSet(F, DOMAIN f) - F[s] + G[s]
      BY <1>1, <1>4, <2>1, <2>2, SumChange
    <2> QED BY <1>1, <1>2, <1>3, <1>4, <2>1, <2>3
  <1>5. CASE s \notin DOMAIN f
    <2>1. SumFunctionOnSet(G, DOMAIN f \cup {s}) = SumFunctionOnSet(F, DOMAIN f) + G[s]
      BY <1>1, <1>5, SumAdd
    <2> QED BY <1>1, <1>2, <1>3, <1>5, <2>1
  <1> QED BY <1>4, <1>5

(* What Refunds counts is the difference of the sums.                           *)
LEMMA RefundsAre ==
  ASSUME TypeOK, NEW f, DOMAIN f = DOMAIN entry, \A s \in DOMAIN f : f[s].bytes \in Int
  PROVE  Bytes(f) = Bytes(entry) - Refunds(f) /\ Refunds(f) \in Int
  <1> DEFINE F == [s \in DOMAIN entry |-> entry[s].bytes]
             G == [s \in DOMAIN f |-> f[s].bytes]
             H == [s \in DOMAIN entry |-> entry[s].bytes - f[s].bytes]
  <1>1. IsFiniteSet(DOMAIN entry)
    BY ReachableFinite
  <1>2. /\ \A s \in DOMAIN entry : F[s] \in Int /\ G[s] \in Int /\ H[s] = F[s] - G[s]
        /\ DOMAIN F = DOMAIN entry /\ DOMAIN G = DOMAIN entry /\ DOMAIN H = DOMAIN entry
    BY DEF TypeOK, EntryType
  <1>3. /\ Bytes(entry) = SumFunctionOnSet(F, DOMAIN entry)
        /\ Bytes(f) = SumFunctionOnSet(G, DOMAIN entry)
        /\ Refunds(f) = SumFunctionOnSet(H, DOMAIN entry)
    BY <1>2 DEF Bytes, Refunds, SumFunction
  <1> HIDE DEF F, G, H
  <1>4. SumFunctionOnSet(H, DOMAIN entry)
          = SumFunctionOnSet(F, DOMAIN entry) - SumFunctionOnSet(G, DOMAIN entry)
    BY <1>1, <1>2, SumMinus
  <1>5. SumFunctionOnSet(F, DOMAIN entry) \in Int /\ SumFunctionOnSet(G, DOMAIN entry) \in Int
    BY <1>1, <1>2, SumType
  <1> QED BY <1>3, <1>4, <1>5

(* Conservation, from what a step of call t does to the heap and the account.   *)
LEMMA ConservedStep ==
  ASSUME TypeOK, Conserved, NEW t \in Threads, NEW k, k.reserved \in Int,
         call' = [call EXCEPT ![t] = k], Bytes(entry') \in Int,
         account' = account + (k.reserved - call[t].reserved) + (Bytes(entry') - Bytes(entry))
  PROVE  Conserved'
  <1>1. Reserved' = Reserved - call[t].reserved + k.reserved
    BY ReservedStep
  <1>2. account = Reserved + Bytes(entry)
    BY ConservedIs
  <1>3. Reserved \in Nat /\ Bytes(entry) \in Nat /\ call[t].reserved \in Nat
    BY SumsType DEF TypeOK, CallType
  <1>4. account' = Reserved' + Bytes(entry')
    BY <1>1, <1>2, <1>3
  <1>5. Conserved' <=> account' = Reserved' + Bytes(entry')
    BY DEF Conserved, Reserved, Bytes
  <1> QED BY <1>4, <1>5

--------------------------------------------------------------------------------
(* Steps that leave the list and the entries alone.                             *)

(* Nothing funded becomes garbage when a call keeps its Use.                    *)
LEMMA StillReachable ==
  ASSUME Structure, Funded, NEW t \in Threads, NEW k, call' = [call EXCEPT ![t] = k],
         k.use = call[t].use \/ call[t].use = NoSlot, listed' = listed
  PROVE  Reachable \subseteq Reachable'
  <1> SUFFICES ASSUME NEW s \in Reachable PROVE s \in Reachable'
    OBVIOUS
  <1>1. s # NoSlot /\ (s \in listed \/ \E u \in Threads : s = call[u].use)
    BY ReachableFunded
  <1>2. call \in [Threads -> CallType]
    BY DEF Structure, TypeOK
  <1> QED BY <1>1, <1>2, ReachableAfter

(* A step of call t to k that keeps the list, the entries and what t prepares.  *)
Calm(t, k) ==
  /\ CallInv(k) /\ call' = [call EXCEPT ![t] = k]
  /\ UNCHANGED <<listed, older, capacity, generation, payload>>
  /\ Heap(entry)
  /\ Preparing(k) <=> Preparing(call[t])
  /\ Preparing(k) => /\ k.ent = call[t].ent /\ k.key = call[t].key
                     /\ k.pc # "fail" => call[t].pc # "fail"
  /\ {k.ent, k.use} \subseteq Reachable \cup {NoSlot}
  /\ Funded /\ k.pc = "return" => entry[k.use].status = "ready"

(* Such a step preserves the structure and the bounds, and no entry is new.     *)
LEMMA CalmStep ==
  ASSUME Structure, NEW t \in Threads, NEW k, Calm(t, k)
  PROVE  /\ Structure' /\ (Bounded => Bounded')
         /\ Reachable' \subseteq Reachable /\ DOMAIN entry' = Reachable'
         /\ \A s \in Reachable' : entry'[s] = entry[s]
  <1>a. /\ CallInv(k) /\ call' = [call EXCEPT ![t] = k]
        /\ listed' = listed /\ older' = older /\ capacity' = capacity
        /\ generation' = generation /\ payload' = payload
        /\ entry' = [s \in Reachable' |-> entry[s]]
        /\ Preparing(k) <=> Preparing(call[t])
        /\ Preparing(k) => /\ k.ent = call[t].ent /\ k.key = call[t].key
                           /\ k.pc # "fail" => call[t].pc # "fail"
        /\ {k.ent, k.use} \subseteq Reachable \cup {NoSlot}
        /\ Funded /\ k.pc = "return" => entry[k.use].status = "ready"
    BY DEF Calm, Heap
  <1>0. /\ TypeOK /\ call \in [Threads -> CallType] /\ call' \in [Threads -> CallType]
        /\ k \in CallType /\ call'[t] = k /\ call[t] \in CallType
        /\ \A u \in Threads \ {t} : call'[u] = call[u]
    BY <1>a DEF Structure, TypeOK, CallInv
  <1>1. Reachable' \subseteq Reachable
    <2> SUFFICES ASSUME NEW s \in Reachable' PROVE s \in Reachable
      OBVIOUS
    <2>1. s # NoSlot /\ (\/ s \in listed \/ s \in {k.ent, k.use}
                          \/ \E u \in Threads \ {t} : s \in {call[u].ent, call[u].use})
      BY <1>a, <1>0, ReachableAfter
    <2>2. CASE s \in {k.ent, k.use}
      BY <1>a, <2>1, <2>2
    <2>3. CASE s \notin {k.ent, k.use}
      BY <2>1, <2>3, ReachableIs
    <2> QED BY <2>2, <2>3
  <1>2. DOMAIN entry = Reachable /\ DOMAIN entry' = Reachable' /\ listed \subseteq Reachable'
    <2>1. NoSlot \notin listed
      BY <1>a, <1>0, CacheAssumption DEF CacheAssumption, TypeOK
    <2> QED BY <1>a, <1>0, <2>1 DEF TypeOK, Reachable
  <1>3. \A s \in Reachable' : entry'[s] = entry[s]
    BY <1>a
  <1>4. TypeOK'
    BY <1>a, <1>0, <1>1, <1>2 DEF TypeOK
  <1>5. OneEntryPerKey'
    BY <1>a, <1>2, <1>3 DEF Structure, OneEntryPerKey
  <1>6. \A s \in DOMAIN entry' : Kept(s)
    BY <1>a, <1>1, <1>2, <1>3 DEF Structure, Kept, EntryInv
  <1>7. OwnerInv(t)'
    <2> SUFFICES ASSUME Preparing(k) PROVE OwnerInv(t)'
      BY <1>a, <1>0 DEF OwnerInv
    <2>1. k.ent = call[t].ent /\ k.ent \in Reachable'
      BY <1>a, <1>0, ReachableAfter DEF CallInv
    <2> QED BY <1>a, <1>0, <1>3, <2>1 DEF OwnerInv, Structure
  <1>8. Uses(t)' => entry'[call'[t].use].status = "ready"
    BY <1>a, <1>0, <1>3, ReachableAfter DEF Uses, CallInv
  <1>9. Structure'
    <2> DEFINE T == {t} own == {}
    <2>1. /\ T \in SUBSET Threads /\ (\A a, b \in T : a = b)
          /\ (\A u \in Threads \ T : call'[u] = call[u])
          /\ (\A a \in T : CallInv(call'[a]) /\ OwnerInv(a)')
          /\ (\A s \in DOMAIN entry' \ own : Kept(s))
          /\ (\A a \in T : Preparing(call[a]) => Preparing(call'[a]) /\ call'[a].ent = call[a].ent)
          /\ (\A a \in T : Preparing(call'[a]) => Preparing(call[a]) /\ call'[a].ent = call[a].ent)
          /\ (\A a \in T : Uses(a)' => entry'[call'[a].use].status = "ready")
      BY <1>a, <1>0, <1>6, <1>7, <1>8
    <2>2. /\ (\A s \in DOMAIN entry' \cap own : EntryInv(s)')
          /\ (\A s \in DOMAIN entry \cap own : entry[s].status = "pending")
          /\ (\A u \in Threads \ T : Preparing(call[u]) => call[u].ent \notin own)
      OBVIOUS
    <2> HIDE DEF T, own
    <2>3. Framed(T, own)
      BY <2>1, <2>2, Zenon DEF Framed
    <2> QED BY <1>4, <1>5, <2>3, StructureStep
  <1>10. ASSUME Bounded PROVE Bounded'
    <2> DEFINE f == [s \in DOMAIN entry |-> entry[s].charge]
               g == [s \in DOMAIN entry' |-> entry'[s].charge]
    <2>1. \A s \in listed : f[s] = g[s]
      BY <1>a, <1>1, <1>2, <1>3
    <2>2. IsFiniteSet(listed)
      BY <1>a, <1>0, ReachableFinite
    <2> HIDE DEF f, g
    <2>3. SumFunctionOnSet(f, listed) = SumFunctionOnSet(g, listed)
      BY <2>1, <2>2, SumSame
    <2>4. Charges(listed)' = Charges(listed)
      BY <1>a, <2>3 DEF Charges, f, g
    <2> QED BY <1>a, <1>10, <2>4 DEF Bounded
  <1> QED BY <1>1, <1>2, <1>3, <1>9, <1>10

(* Such a step in which the call keeps its Use, and the account moves with its  *)
(* scope.                                                                       *)
Quiet(t, k) ==
  /\ Calm(t, k)
  /\ Funded => k.use = call[t].use \/ call[t].use = NoSlot
  /\ account \in Int => account' = account + (k.reserved - call[t].reserved)

(* It preserves the invariant.                                                  *)
LEMMA QuietStep ==
  ASSUME Structure, NEW t \in Threads, NEW k, Quiet(t, k)
  PROVE  Preserved
  <1>a. /\ CallInv(k) /\ call' = [call EXCEPT ![t] = k] /\ listed' = listed
        /\ Funded => k.use = call[t].use \/ call[t].use = NoSlot
        /\ account \in Int => account' = account + (k.reserved - call[t].reserved)
    BY DEF Quiet, Calm
  <1>0. /\ TypeOK /\ k \in CallType /\ call[t] \in CallType /\ DOMAIN entry = Reachable
    BY <1>a DEF Structure, TypeOK, CallInv
  <1>1. /\ Structure' /\ (Bounded => Bounded')
        /\ Reachable' \subseteq Reachable /\ DOMAIN entry' = Reachable'
        /\ \A s \in Reachable' : entry'[s] = entry[s]
    BY CalmStep DEF Quiet
  <1>2. ASSUME Conserved PROVE Conserved'
    <2>1. \A s \in DOMAIN entry \ DOMAIN entry' : entry[s].bytes = 0
      BY <1>a, <1>0, <1>1, StillReachable DEF Structure, EntryInv
    <2>2. \A s \in DOMAIN entry : entry[s].bytes \in Int
      BY <1>a, <1>0 DEF TypeOK, EntryType
    <2>3. IsFiniteSet(DOMAIN entry)
      BY <1>a, <1>0, ReachableFinite
    <2>4. Bytes(entry') = Bytes(entry)
      BY <1>a, <1>0, <1>1, <2>1, <2>2, <2>3, BytesDropped
    <2>5. Bytes(entry') = Bytes(entry) /\ Bytes(entry) \in Nat
      BY <1>a, <1>0, <2>4, SumsType
    <2>6. k.reserved \in Int /\ call[t].reserved \in Int /\ account \in Int
      BY <1>a, <1>0, <1>2, SumsType, ConservedIs DEF CallType
    <2>7. account' = account + (k.reserved - call[t].reserved) + (Bytes(entry') - Bytes(entry))
      BY <1>a, <2>5, <2>6
    <2>8. TypeOK /\ Bytes(entry') \in Int
      BY <1>a, <1>0, <2>5
    <2> QED BY <1>a, <1>2, <2>6, <2>7, <2>8, ConservedStep
  <1> QED BY <1>1, <1>2 DEF Preserved

(* The same for a step that does not touch the heap at all.                     *)
Still(t, k) ==
  /\ CallInv(k) /\ call' = [call EXCEPT ![t] = k]
  /\ UNCHANGED <<listed, older, capacity, generation, payload, entry>>
  /\ Preparing(k) <=> Preparing(call[t])
  /\ Preparing(k) => k.key = call[t].key /\ (k.pc # "fail" => call[t].pc # "fail")
  /\ k.ent = call[t].ent /\ k.use = call[t].use
  /\ Funded /\ k.pc = "return" => entry[k.use].status = "ready"
  /\ account \in Int => account' = account + (k.reserved - call[t].reserved)

LEMMA StillStep ==
  ASSUME Structure, NEW t \in Threads, NEW k, Still(t, k)
  PROVE  Preserved
  <1>1. call \in [Threads -> CallType] /\ entry \in [Reachable -> EntryType]
    BY DEF Structure, TypeOK
  <1>2. Reachable' = Reachable
    <2>1. ASSUME NEW s PROVE s \in Reachable' <=> s \in Reachable
      <3>1. (\E u \in Threads : s \in {call[u].ent, call[u].use}) <=>
              s \in {k.ent, k.use} \/ \E u \in Threads \ {t} : s \in {call[u].ent, call[u].use}
        BY DEF Still
      <3>2. call' = [call EXCEPT ![t] = k] /\ listed' = listed
        BY DEF Still
      <3> QED BY <1>1, <3>1, <3>2, ReachableAfter, ReachableIs
    <2> QED BY <2>1
  <1>3. entry' = [s \in Reachable' |-> entry[s]]
    BY <1>1, <1>2 DEF Still
  <1>4. {k.ent, k.use} \subseteq Reachable \cup {NoSlot}
    BY ReachableIs DEF Still
  <1>5. Quiet(t, k)
    BY <1>3, <1>4 DEF Still, Quiet, Calm, Heap
  <1> QED BY <1>5, QuietStep

--------------------------------------------------------------------------------
(* The types of the records that steps build.                                   *)

(* A call that has not begun.                                                   *)
LEMMA NewCallInv == CallInv(NewCall) /\ NewCall \in CallType
  BY CacheAssumption DEF CacheAssumption, NewCall, CallInv, CallType, Pcs, Failures, Preparing

(* A call that returns a value it may use.                                      *)
LEMMA ReturnedInv ==
  ASSUME NEW u \in Slots \cup {NoSlot}, Funded <=> u # NoSlot
  PROVE  /\ CallInv(Returned(u)) /\ ~Preparing(Returned(u))
         /\ Returned(u).ent = NoSlot /\ Returned(u).use = u /\ Returned(u).reserved = 0
         /\ Returned(u).pc = "return"
  <1> DEFINE k == Returned(u)
  <1>1. k \in CallType
    BY NewCallInv DEF Returned, CallType, Pcs
  <1>2. /\ k.pc = "return" /\ k.ent = NoSlot /\ k.use = u /\ k.reserved = 0
        /\ k.foreign = FALSE
    BY DEF Returned, NewCall
  <1> HIDE DEF k
  <1>3. CallInv(k) /\ ~Preparing(k)
    BY <1>1, <1>2 DEF CallInv, Preparing
  <1> QED BY <1>2, <1>3 DEF k

(* A call that throws.                                                          *)
LEMMA ThrownInv ==
  ASSUME NEW t \in Threads, CallInv(call[t]), call[t].key \in Keys, NEW why \in Failures
  PROVE  /\ CallInv(Thrown(t, why)) /\ ~Preparing(Thrown(t, why))
         /\ Thrown(t, why).ent = NoSlot /\ Thrown(t, why).use = call[t].use
         /\ Thrown(t, why).reserved = call[t].reserved /\ Thrown(t, why).pc = "unwind"
         /\ Thrown(t, why).foreign = FALSE /\ Thrown(t, why).why = why
         /\ Thrown(t, why).key = call[t].key
  <1> DEFINE k == Thrown(t, why)
  <1>1. call[t] \in CallType /\ (~Funded => call[t].use = NoSlot /\ call[t].reserved = 0)
    BY DEF CallInv
  <1>2. k \in CallType
    BY <1>1, NewCallInv DEF Thrown, CallType, Pcs
  <1>3. /\ k.pc = "unwind" /\ k.ent = NoSlot /\ k.use = call[t].use
        /\ k.reserved = call[t].reserved /\ k.foreign = FALSE /\ k.key = call[t].key
        /\ k.why = why
    BY DEF Thrown, NewCall
  <1> HIDE DEF k
  <1>4. CallInv(k) /\ ~Preparing(k)
    BY <1>1, <1>2, <1>3 DEF CallInv, Preparing
  <1> QED BY <1>3, <1>4 DEF k

(* The stack of a waiter, which holds a Use of what it waits for.               *)
Waiting(t, q, s) ==
  [NewCall EXCEPT !.pc = "wait", !.key = q, !.ent = s, !.use = UseOf(s),
                  !.reserved = call[t].reserved]

(* A call that waits.                                                           *)
LEMMA WaitingInv ==
  ASSUME NEW t \in Threads, CallInv(call[t]), NEW q \in Keys, NEW s \in Slots
  PROVE  /\ CallInv(Waiting(t, q, s)) /\ ~Preparing(Waiting(t, q, s))
         /\ Waiting(t, q, s).ent = s /\ Waiting(t, q, s).use = UseOf(s)
         /\ Waiting(t, q, s).reserved = call[t].reserved /\ Waiting(t, q, s).pc = "wait"
  <1> DEFINE k == Waiting(t, q, s)
  <1>1. call[t] \in CallType /\ (~Funded => call[t].use = NoSlot /\ call[t].reserved = 0)
    BY DEF CallInv
  <1>2. UseOf(s) \in Slots \cup {NoSlot} /\ s # NoSlot /\ (~Funded => UseOf(s) = NoSlot)
    BY CacheAssumption DEF CacheAssumption, UseOf
  <1>3. k \in CallType
    BY <1>1, <1>2, NewCallInv DEF Waiting, CallType, Pcs
  <1>4. /\ k.pc = "wait" /\ k.ent = s /\ k.use = UseOf(s)
        /\ k.reserved = call[t].reserved /\ k.foreign = FALSE /\ k.key = q
    BY DEF Waiting, NewCall
  <1> HIDE DEF k
  <1>5. CallInv(k) /\ ~Preparing(k)
    BY <1>1, <1>2, <1>3, <1>4 DEF CallInv, Preparing
  <1> QED BY <1>4, <1>5 DEF k

--------------------------------------------------------------------------------
(* The steps.                                                                   *)

(* A call begins.                                                             *)
LEMMA GetOrAddStep ==
  ASSUME Structure, NEW t \in Threads, NEW q \in Keys, GetOrAdd(t, q)
  PROVE  Preserved
  <1> DEFINE k == IF capacity = 0 \/ q \in HugeKeys
                  THEN [NewCall EXCEPT !.pc = "prepare", !.key = q, !.lane = "private"]
                  ELSE [NewCall EXCEPT !.pc = "lookup", !.key = q]
  <1>1. CallInv(call[t]) /\ call[t].pc = "idle"
    BY DEF Structure, GetOrAdd
  <1>2. k \in CallType
    BY NewCallInv DEF CallType, Pcs
  <1>3. /\ k.pc \in {"prepare", "lookup"} /\ k.ent = NoSlot /\ k.use = NoSlot /\ k.key = q
        /\ k.reserved = 0 /\ k.why = "none" /\ k.foreign = FALSE /\ k.lane # "pending"
    BY DEF NewCall
  <1> HIDE DEF k
  <1>6. CallInv(k) /\ ~Preparing(k) /\ k.pc # "return"
    BY <1>2, <1>3 DEF CallInv, Preparing
  <1>4. /\ ~Preparing(call[t]) /\ call[t].ent = NoSlot /\ call[t].use = NoSlot
        /\ call[t].reserved = 0
    BY <1>1 DEF CallInv, Preparing
  <1>5. /\ call' = [call EXCEPT ![t] = k] /\ account' = account
        /\ UNCHANGED <<listed, older, capacity, generation, payload, entry>>
    BY DEF GetOrAdd, Update, k
  <1>7. Still(t, k)
    BY <1>3, <1>4, <1>5, <1>6 DEF Still
  <1> QED BY <1>7, StillStep

(* A miss in a full cache.                                                    *)
LEMMA LookupLateStep ==
  ASSUME Structure, NEW t \in Threads, LookupLate(t)
  PROVE  Preserved
  <1> DEFINE n == IF Funded /\ CanAdd THEN KeyCharge ELSE 0
             k == [call[t] EXCEPT !.pc = "prepare", !.lane = "late", !.gen = generation,
                                  !.reserved = n]
  <1>1. CallInv(call[t]) /\ call[t].pc = "lookup" /\ call[t] \in CallType
    BY DEF Structure, LookupLate, CallInv
  <1>2. n \in Nat /\ (~Funded => n = 0) /\ generation \in 0..MaxGeneration
    BY CacheAssumption DEF CacheAssumption, Structure, TypeOK
  <1>3. /\ call' = [call EXCEPT ![t] = k] /\ account' = account + n
        /\ UNCHANGED <<listed, older, capacity, generation, payload, entry>>
    BY DEF LookupLate, Update
  <1> HIDE DEF n
  <1>4. k \in CallType
    BY <1>1, <1>2 DEF CallType, Pcs
  <1>5. /\ k.pc = "prepare" /\ k.lane = "late" /\ k.reserved = n
        /\ k.ent = call[t].ent /\ k.use = call[t].use /\ k.key = call[t].key
        /\ k.why = call[t].why /\ k.foreign = call[t].foreign
    BY <1>1 DEF CallType
  <1> HIDE DEF k
  <1>6. CallInv(k) /\ ~Preparing(k) /\ ~Preparing(call[t]) /\ call[t].reserved = 0
    BY <1>1, <1>2, <1>4, <1>5 DEF CallInv, Preparing
  <1>7. Still(t, k)
    BY <1>2, <1>3, <1>5, <1>6 DEF Still
  <1> QED BY <1>7, StillStep

(* The factory returns.                                                       *)
LEMMA FactoryStep ==
  ASSUME Structure, NEW t \in Threads, Factory(t)
  PROVE  Preserved
  <1>1. CallInv(call[t]) /\ call[t].pc = "prepare" /\ call[t] \in CallType
    BY DEF Structure, Factory, CallInv
  <1> DEFINE paid(v) == IF Funded THEN v ELSE 0
             next(v) == [call[t] EXCEPT !.pc = "publish", !.value = v, !.reserved = @ + paid(v)]
  <1>2. PICK v \in ValueCharges : call' = [call EXCEPT ![t] = next(v)] /\ account' = account + paid(v)
    BY DEF Factory, Update
  <1> DEFINE n == paid(v)
             k == next(v)
  <1>3. v \in Nat \ {0} /\ n \in Nat /\ (IF Funded THEN n = v ELSE n = 0)
    BY CacheAssumption DEF CacheAssumption
  <1>4. /\ call' = [call EXCEPT ![t] = k] /\ account' = account + n
        /\ UNCHANGED <<listed, older, capacity, generation, payload, entry>>
    BY <1>2 DEF Factory
  <1>5. k \in CallType
    <2> DEFINE m == call[t].reserved + n
    <2>1. k = [call[t] EXCEPT !.pc = "publish", !.value = v, !.reserved = m]
      OBVIOUS
    <2>2. v \in Nat /\ m \in Nat
      <3> HIDE DEF n
      <3> QED BY <1>1, <1>3 DEF CallType
    <2> HIDE DEF m, k
    <2> QED BY <1>1, <2>1, <2>2 DEF CallType, Pcs
  <1>6. /\ k.pc = "publish" /\ k.value = v /\ k.reserved = call[t].reserved + n
        /\ k.ent = call[t].ent /\ k.use = call[t].use /\ k.key = call[t].key
        /\ k.why = call[t].why /\ k.foreign = call[t].foreign /\ k.lane = call[t].lane
    BY <1>1 DEF CallType
  <1> HIDE DEF k
  <1>7. call[t].reserved \in Nat
    BY <1>1 DEF CallType
  <1>8. k.reserved - call[t].reserved = n /\ (Funded => k.reserved > 0)
    BY <1>3, <1>6, <1>7
  <1>9. Preparing(k) <=> Preparing(call[t])
    BY <1>1, <1>6 DEF Preparing
  <1>10. CallInv(k)
    BY <1>1, <1>3, <1>5, <1>6, <1>8, <1>9 DEF CallInv
  <1>11. Still(t, k)
    BY <1>1, <1>4, <1>6, <1>8, <1>9, <1>10 DEF Still
  <1> QED BY <1>11, StillStep

(* The factory throws.                                                        *)
LEMMA FactoryThrowsStep ==
  ASSUME Structure, NEW t \in Threads, FactoryThrows(t)
  PROVE  Preserved
  <1>1. CallInv(call[t]) /\ call[t].pc = "prepare" /\ call[t] \in CallType /\ call[t].key \in Keys
    BY DEF Structure, FactoryThrows, CallInv
  <1> DEFINE failed(why) == [call[t] EXCEPT !.pc = "fail", !.why = why]
  <1>2. PICK why \in Failures :
          call' = [call EXCEPT ![t] = IF call[t].lane = "pending" THEN failed(why)
                                                                  ELSE Thrown(t, why)]
    BY DEF FactoryThrows, Update
  <1>3. account' = account /\ UNCHANGED <<listed, older, capacity, generation, payload, entry>>
    BY DEF FactoryThrows
  <1>4. CASE call[t].lane = "pending"
    <2> DEFINE k == [call[t] EXCEPT !.pc = "fail", !.why = why]
    <2>1. k \in CallType
      BY <1>1 DEF CallType, Pcs
    <2>2. /\ k.pc = "fail" /\ k.why = why /\ k.reserved = call[t].reserved
          /\ k.ent = call[t].ent /\ k.use = call[t].use /\ k.key = call[t].key
          /\ k.foreign = call[t].foreign /\ k.lane = call[t].lane
      BY <1>1 DEF CallType
    <2>3. call' = [call EXCEPT ![t] = k]
      BY <1>2, <1>4
    <2> HIDE DEF k
    <2>4. Preparing(k) /\ Preparing(call[t]) /\ CallInv(k)
      BY <1>1, <1>4, <2>1, <2>2 DEF CallInv, Preparing
    <2>5. Still(t, k)
      BY <1>1, <1>3, <2>1, <2>2, <2>3, <2>4 DEF Still, CallType
    <2> QED BY <2>5, StillStep
  <1>5. CASE call[t].lane # "pending"
    <2> DEFINE k == Thrown(t, why)
    <2>1. call' = [call EXCEPT ![t] = k]
      BY <1>2, <1>5
    <2>2. /\ CallInv(k) /\ ~Preparing(k) /\ k.ent = NoSlot /\ k.use = call[t].use
          /\ k.reserved = call[t].reserved /\ k.pc = "unwind"
      BY <1>1, ThrownInv
    <2> HIDE DEF k
    <2>3. ~Preparing(call[t]) /\ call[t].ent = NoSlot
      BY <1>1, <1>5 DEF CallInv, Preparing
    <2>4. Still(t, k)
      BY <1>1, <1>3, <2>1, <2>2, <2>3 DEF Still, CallType
    <2> QED BY <2>4, StillStep
  <1> QED BY <1>4, <1>5

(* The client recovers from a foreign failure.                                *)
LEMMA RecoverStep ==
  ASSUME Structure, NEW t \in Threads, Recover(t)
  PROVE  Preserved
  <1> DEFINE k == [NewCall EXCEPT !.pc = "prepare", !.key = call[t].key, !.lane = "private"]
  <1>1. CallInv(call[t]) /\ call[t].pc = "caught" /\ call[t] \in CallType /\ call[t].key \in Keys
    BY DEF Structure, Recover, CallInv
  <1>2. k \in CallType
    BY <1>1, NewCallInv DEF CallType, Pcs
  <1>3. /\ k.pc = "prepare" /\ k.ent = NoSlot /\ k.use = NoSlot /\ k.key = call[t].key
        /\ k.reserved = 0 /\ k.why = "none" /\ k.foreign = FALSE /\ k.lane = "private"
    BY DEF NewCall
  <1>4. /\ call' = [call EXCEPT ![t] = k] /\ account' = account
        /\ UNCHANGED <<listed, older, capacity, generation, payload, entry>>
    BY DEF Recover, Update
  <1> HIDE DEF k
  <1>5. CallInv(k) /\ ~Preparing(k)
    BY <1>1, <1>2, <1>3 DEF CallInv, Preparing
  <1>6. /\ ~Preparing(call[t]) /\ call[t].ent = NoSlot /\ call[t].use = NoSlot
        /\ call[t].reserved = 0
    BY <1>1 DEF CallInv, Preparing
  <1>7. Still(t, k)
    BY <1>3, <1>4, <1>5, <1>6 DEF Still
  <1> QED BY <1>7, StillStep

(* The failure propagates.                                                    *)
LEMMA PropagateStep ==
  ASSUME Structure, NEW t \in Threads, Propagate(t)
  PROVE  Preserved
  <1> DEFINE k == [call[t] EXCEPT !.pc = "failed", !.key = NoKey]
  <1>1. CallInv(call[t]) /\ call[t].pc = "caught" /\ call[t] \in CallType
    BY DEF Structure, Propagate, CallInv
  <1>2. k \in CallType
    BY <1>1 DEF CallType, Pcs
  <1>3. /\ k.pc = "failed" /\ k.ent = call[t].ent /\ k.use = call[t].use
        /\ k.reserved = call[t].reserved /\ k.why = call[t].why /\ k.foreign = call[t].foreign
    BY <1>1 DEF CallType
  <1>4. /\ call' = [call EXCEPT ![t] = k] /\ account' = account
        /\ UNCHANGED <<listed, older, capacity, generation, payload, entry>>
    BY DEF Propagate, Update
  <1> HIDE DEF k
  <1>6. CallInv(k) /\ ~Preparing(k) /\ ~Preparing(call[t]) /\ k.reserved = 0 /\ call[t].reserved = 0
    BY <1>1, <1>2, <1>3 DEF CallInv, Preparing
  <1>7. Still(t, k)
    BY <1>3, <1>4, <1>6 DEF Still
  <1> QED BY <1>7, StillStep

(* A listed entry is read: its value is returned, or waited for.                *)
LEMMA ReadStep ==
  ASSUME Structure, NEW t \in Threads, NEW q \in Keys, NEW s \in Find(q), Read(t, q, s),
         ~Preparing(call[t]), call[t].use = NoSlot
  PROVE  Preserved
  <1>1. CallInv(call[t]) /\ call[t].reserved \in Nat
    BY DEF Structure, CallInv, CallType
  <1>2. s \in listed /\ s \in Slots /\ s \in Reachable /\ s \in DOMAIN entry
    BY ReachableFinite DEF Find, Structure
  <1>3. /\ UNCHANGED <<listed, older, capacity, generation, payload>> /\ Heap(entry)
    BY DEF Read
  <1>4. CASE entry[s].status = "pending"
    <2> DEFINE k == Waiting(t, q, s)
    <2>1. call' = [call EXCEPT ![t] = k] /\ account' = account
      BY <1>4 DEF Read, Update, Waiting
    <2>2. /\ CallInv(k) /\ ~Preparing(k) /\ k.ent = s /\ k.use = UseOf(s)
          /\ k.reserved = call[t].reserved /\ k.pc = "wait"
      BY <1>1, <1>2, WaitingInv
    <2> HIDE DEF k
    <2>3. {k.ent, k.use} \subseteq Reachable \cup {NoSlot}
      BY <1>2, <2>2 DEF UseOf
    <2>4. Quiet(t, k)
      BY <1>1, <1>3, <2>1, <2>2, <2>3 DEF Quiet, Calm
    <2> QED BY <2>4, QuietStep
  <1>5. CASE entry[s].status # "pending"
    <2> DEFINE k == Returned(UseOf(s))
    <2>1. call' = [call EXCEPT ![t] = k] /\ account' = account - call[t].reserved
      BY <1>5 DEF Read, Update
    <2>2. UseOf(s) \in Slots \cup {NoSlot} /\ (Funded <=> UseOf(s) # NoSlot)
      BY <1>2, CacheAssumption DEF UseOf, CacheAssumption
    <2>3. /\ CallInv(k) /\ ~Preparing(k) /\ k.ent = NoSlot /\ k.use = UseOf(s)
          /\ k.reserved = 0 /\ k.pc = "return"
      BY <2>2, ReturnedInv
    <2>4. entry[s].status = "ready"
      BY <1>2, <1>5 DEF Structure, EntryInv
    <2> HIDE DEF k
    <2>5. {k.ent, k.use} \subseteq Reachable \cup {NoSlot} /\ (Funded => k.use = s)
      BY <1>2, <2>3 DEF UseOf
    <2>6. Quiet(t, k)
      BY <1>1, <1>3, <2>1, <2>3, <2>4, <2>5 DEF Quiet, Calm
    <2> QED BY <2>6, QuietStep
  <1> QED BY <1>4, <1>5

(* A hit of a borrowed key.                                                   *)
LEMMA TryGetStep ==
  ASSUME Structure, NEW t \in Threads, NEW q \in Keys, TryGet(t, q)
  PROVE  Preserved
  <1>1. ~Preparing(call[t]) /\ call[t].use = NoSlot
    BY DEF Structure, CallInv, TryGet, Preparing
  <1> QED BY <1>1, ReadStep DEF TryGet

(* A hit at lookup.                                                           *)
LEMMA LookupHitStep ==
  ASSUME Structure, NEW t \in Threads, LookupHit(t)
  PROVE  Preserved
  <1>1. ~Preparing(call[t]) /\ call[t].use = NoSlot /\ call[t].key \in Keys
    BY DEF Structure, CallInv, LookupHit, Preparing
  <1> QED BY <1>1, ReadStep DEF LookupHit

(* A hit when the late lane looks again.                                      *)
LEMMA LateHitStep ==
  ASSUME Structure, NEW t \in Threads, LateHit(t)
  PROVE  Preserved
  <1>1. ~Preparing(call[t]) /\ call[t].use = NoSlot /\ call[t].key \in Keys
    BY DEF Structure, CallInv, LateHit, Preparing
  <1> QED BY <1>1, ReadStep DEF LateHit

(* A hit whose caller is interrupted.                                           *)
LEMMA ReadInterruptedStep ==
  ASSUME Structure, NEW t \in Threads, NEW q \in Keys, ReadInterrupted(t, q)
  PROVE  Preserved
  <1>1. /\ CallInv(call[t]) /\ call[t] \in CallType /\ call[t].use = NoSlot
        /\ ~Preparing(call[t]) /\ call[t].reserved \in Nat
    BY DEF Structure, CallInv, ReadInterrupted, Preparing, CallType
  <1>2. PICK s \in listed :
          call' = [call EXCEPT ![t] = [Thrown(t, "interrupt") EXCEPT !.key = q, !.use = UseOf(s)]]
    BY DEF ReadInterrupted, Update, Find
  <1>3. /\ UNCHANGED <<listed, older, capacity, generation, payload>> /\ Heap(entry)
        /\ account' = account
    BY DEF ReadInterrupted
  <1>4. /\ s \in Slots /\ s \in Reachable /\ UseOf(s) \in {s, NoSlot}
        /\ UseOf(s) \in Slots \cup {NoSlot} /\ (~Funded => UseOf(s) = NoSlot)
    BY ReachableFinite DEF Structure, UseOf
  <1> DEFINE r == Thrown(t, "interrupt")
             u == UseOf(s)
             k == [r EXCEPT !.key = q, !.use = u]
  <1>a. r \in CallType
    BY <1>1, NewCallInv DEF Thrown, CallType, Pcs, Failures
  <1>b. /\ r.pc = "unwind" /\ r.ent = NoSlot /\ r.reserved = call[t].reserved
        /\ r.foreign = FALSE
    BY DEF Thrown, NewCall
  <1>c. u \in Slots \cup {NoSlot}
    BY <1>4
  <1>5. k \in CallType
    <2> HIDE DEF r, u
    <2> QED BY <1>a, <1>c DEF CallType
  <1>6. /\ k.pc = "unwind" /\ k.ent = NoSlot /\ k.use = UseOf(s) /\ k.key = q
        /\ k.reserved = call[t].reserved /\ k.foreign = FALSE
    <2> HIDE DEF r
    <2> QED BY <1>a, <1>b DEF CallType
  <1>7. call' = [call EXCEPT ![t] = k]
    BY <1>2
  <1> HIDE DEF k
  <1>8. CallInv(k) /\ ~Preparing(k)
    BY <1>1, <1>4, <1>5, <1>6 DEF CallInv, Preparing
  <1>9. {k.ent, k.use} \subseteq Reachable \cup {NoSlot}
    BY <1>4, <1>6
  <1>10. Quiet(t, k)
    BY <1>1, <1>3, <1>6, <1>7, <1>8, <1>9 DEF Quiet, Calm
  <1> QED BY <1>10, QuietStep

(* A call is interrupted.                                                     *)
LEMMA InterruptedStep ==
  ASSUME Structure, NEW t \in Threads, Interrupted(t)
  PROVE  Preserved
  <1>1. /\ CallInv(call[t]) /\ call[t].key \in Keys /\ ~Preparing(call[t])
        /\ call[t].reserved \in Nat
    BY DEF Structure, CallInv, Interrupted, Preparing, CallType
  <1>2. PICK why \in Failures : call' = [call EXCEPT ![t] = Thrown(t, why)]
    BY DEF Interrupted, Update, Failures
  <1>3. /\ UNCHANGED <<listed, older, capacity, generation, payload>> /\ Heap(entry)
        /\ account' = account
    BY DEF Interrupted
  <1> DEFINE k == Thrown(t, why)
  <1>4. /\ CallInv(k) /\ ~Preparing(k) /\ k.ent = NoSlot /\ k.use = call[t].use
        /\ k.reserved = call[t].reserved /\ k.pc = "unwind"
    BY <1>1, ThrownInv
  <1>5. call' = [call EXCEPT ![t] = k]
    BY <1>2
  <1> HIDE DEF k
  <1>6. {k.ent, k.use} \subseteq Reachable \cup {NoSlot}
    BY <1>4, ReachableIs
  <1>7. Quiet(t, k)
    BY <1>1, <1>3, <1>4, <1>5, <1>6 DEF Quiet, Calm
  <1> QED BY <1>7, QuietStep

(* A waiter wakes up.                                                         *)
LEMMA WokenStep ==
  ASSUME Structure, NEW t \in Threads, Woken(t)
  PROVE  Preserved
  <1> DEFINE s == call[t].ent
             status == entry[s].status
  <1>1. /\ CallInv(call[t]) /\ call[t].key \in Keys /\ ~Preparing(call[t])
        /\ call[t].reserved \in Nat /\ call[t].pc = "wait" /\ call[t] \in CallType
    BY DEF Structure, CallInv, Woken, Preparing, CallType
  <1>2. s # NoSlot /\ call[t].use = UseOf(s) /\ s \in Slots
    BY <1>1 DEF CallInv, CallType
  <1>3. s \in DOMAIN entry /\ {s, UseOf(s)} \subseteq Reachable \cup {NoSlot}
    BY <1>2, ReachableIs, ReachableFinite DEF UseOf, Structure
  <1>4. status \in {"ready"} \cup Failures
    BY <1>3 DEF Woken, Structure, TypeOK, EntryType
  <1>5. UNCHANGED <<listed, older, capacity, generation, payload>> /\ Heap(entry)
    BY DEF Woken
  <1>6. CASE status = "ready"
    <2> DEFINE k == Returned(UseOf(s))
    <2>1. call' = [call EXCEPT ![t] = k] /\ account' = account - call[t].reserved
      BY <1>2, <1>6 DEF Woken, Update
    <2>2. UseOf(s) \in Slots \cup {NoSlot} /\ (Funded <=> UseOf(s) # NoSlot)
      BY <1>2, CacheAssumption DEF UseOf, CacheAssumption
    <2>3. /\ CallInv(k) /\ ~Preparing(k) /\ k.ent = NoSlot /\ k.use = UseOf(s)
          /\ k.reserved = 0 /\ k.pc = "return"
      BY <2>2, ReturnedInv
    <2> HIDE DEF k
    <2>4. Funded => k.use = s
      BY <2>3 DEF UseOf
    <2>5. {k.ent, k.use} \subseteq Reachable \cup {NoSlot}
      BY <1>3, <2>3
    <2>6. Quiet(t, k)
      BY <1>1, <1>2, <1>5, <1>6, <2>1, <2>3, <2>4, <2>5 DEF Quiet, Calm
    <2> QED BY <2>6, QuietStep
  <1>7. CASE status # "ready"
    <2>0. status \in Failures
      BY <1>4, <1>7
    <2> DEFINE r == Thrown(t, status)
               k == [r EXCEPT !.foreign = TRUE]
    <2>1. call' = [call EXCEPT ![t] = k] /\ account' = account
      BY <1>7 DEF Woken, Update
    <2>2. /\ CallInv(r) /\ ~Preparing(r) /\ r.ent = NoSlot /\ r.use = call[t].use
          /\ r.reserved = call[t].reserved /\ r.pc = "unwind" /\ r.why = status
          /\ r.key = call[t].key
      BY <1>1, <2>0, ThrownInv
    <2> HIDE DEF r, s
    <2>3. k \in CallType
      BY <2>2 DEF CallInv, CallType
    <2>4. /\ k.ent = r.ent /\ k.use = r.use /\ k.reserved = r.reserved /\ k.pc = r.pc
          /\ k.why = r.why /\ k.key = r.key /\ k.lane = r.lane
      BY <2>2 DEF CallInv, CallType
    <2> HIDE DEF k
    <2>5. CallInv(k) /\ ~Preparing(k)
      BY <1>1, <2>0, <2>2, <2>3, <2>4 DEF CallInv, Preparing
    <2>6. {k.ent, k.use} \subseteq Reachable \cup {NoSlot}
      BY <2>2, <2>4, ReachableIs
    <2>7. Quiet(t, k)
      BY <1>1, <1>5, <2>1, <2>2, <2>4, <2>5, <2>6 DEF Quiet, Calm
    <2> QED BY <2>7, QuietStep
  <1> QED BY <1>6, <1>7

--------------------------------------------------------------------------------
(* Steps that write an entry of their own.                                      *)

(* Call t moves to k and writes n to the slot s: a free one, or the one it      *)
(* prepares.  The ready entries of V are removed, s is listed or not.           *)
OwnSlot(t, s) ==
  \/ s \in FreeSlots /\ ~Preparing(call[t]) /\ call[t].use = NoSlot
  \/ Preparing(call[t]) /\ s = call[t].ent

OldBytes(s) == IF s \in DOMAIN entry THEN entry[s].bytes ELSE 0

WroteCall(t, k, s, n) ==
  /\ CallInv(k) /\ call' = [call EXCEPT ![t] = k]
  /\ OwnSlot(t, s) /\ k.ent \in {s, NoSlot} /\ k.use = UseOf(s)
  /\ Preparing(k) => n.status = "pending" /\ n.key = k.key /\ (k.pc # "fail" => n.bytes = 0)
  /\ Funded /\ k.pc = "return" => n.status = "ready"

WroteList(V, s, n) ==
  /\ V \subseteq listed \ {s} /\ \A v \in V : entry[v].status = "ready"
  /\ listed' = (listed \ V) \ {s} \/ listed' = (listed \ V) \cup {s}
  /\ older' \subseteq listed' \X listed'
  /\ capacity' = capacity /\ generation' = generation
  /\ s \in listed' /\ s \notin listed => Find(n.key) = {}

WroteEntry(k, V, s, n) ==
  /\ entry' = [x \in Reachable' |-> IF x = s THEN n ELSE Detached(V)[x]]
  /\ n \in EntryType /\ (n.closed <=> s \notin listed')
  /\ s \in DOMAIN entry => n.key = entry[s].key
  /\ n.status = "pending" => Preparing(k)
  /\ s \in listed' => n.status \in {"pending", "ready"}
  /\ Funded /\ n.status = "ready" => n.bytes > 0
  /\ ~Funded => n.bytes = 0

Wrote(t, k, V, s, n) ==
  WroteCall(t, k, s, n) /\ WroteList(V, s, n) /\ WroteEntry(k, V, s, n)

(* What Detached does to an entry.                                              *)
LEMMA DetachedAt ==
  ASSUME TypeOK, NEW V, NEW x \in DOMAIN entry
  PROVE  /\ DOMAIN Detached(V) = DOMAIN entry /\ Detached(V)[x] \in EntryType
         /\ Detached(V)[x].key = entry[x].key /\ Detached(V)[x].status = entry[x].status
         /\ x \notin V => Detached(V)[x] = entry[x]
         /\ x \in V => /\ Detached(V)[x].closed = TRUE
                       /\ Detached(V)[x].bytes = IF Users(x) = {} THEN 0 ELSE entry[x].bytes
  <1> DEFINE unused == Users(x) = {}
  <1>1. entry[x] \in EntryType
    BY DEF TypeOK
  <1>2. Detached(V)[x] = IF x \in V THEN Closed(entry[x], unused) ELSE entry[x]
    BY DEF Detached
  <1> HIDE DEF unused
  <1>3. /\ Closed(entry[x], unused) \in EntryType
        /\ Closed(entry[x], unused).key = entry[x].key
        /\ Closed(entry[x], unused).status = entry[x].status
        /\ Closed(entry[x], unused).closed = TRUE
        /\ Closed(entry[x], unused).bytes = IF unused THEN 0 ELSE entry[x].bytes
    BY <1>1 DEF Closed, EntryType
  <1>4. DOMAIN Detached(V) = DOMAIN entry
    BY DEF Detached
  <1> QED BY <1>1, <1>2, <1>3, <1>4 DEF unused

(* After such a step: what is reachable, and what the step left behind.         *)
LEMMA WroteReachable ==
  ASSUME Structure, NEW t \in Threads, NEW k, NEW V, NEW s, NEW n, Wrote(t, k, V, s, n)
  PROVE  /\ Reachable' \subseteq Reachable \cup {s} /\ (Funded => s \in Reachable')
         /\ s \in Slots
         /\ \A x \in Reachable \ {s} :
              \/ x \in Reachable' /\ (x \in V => ~Funded \/ Users(x) # {})
              \/ ~Funded
              \/ x \in V /\ Users(x) = {} /\ x \notin Reachable'
  <1>1. /\ TypeOK /\ call \in [Threads -> CallType] /\ call' = [call EXCEPT ![t] = k]
        /\ OwnSlot(t, s) /\ k.ent \in {s, NoSlot} /\ k.use = UseOf(s)
        /\ \A u \in Threads : CallInv(call[u])
    BY DEF Structure, TypeOK, Wrote, WroteCall
  <1>2. listed' = (listed \ V) \ {s} \/ listed' = (listed \ V) \cup {s}
    BY DEF Wrote, WroteList
  <1>3. s \in Slots /\ s # NoSlot
    BY <1>1, CacheAssumption DEF CacheAssumption, OwnSlot, FreeSlots, CallInv, CallType
  <1>4. \A x : x \in Reachable' <=>
          x # NoSlot /\ (\/ x \in listed' \/ x \in {k.ent, k.use}
                         \/ \E u \in Threads \ {t} : x \in {call[u].ent, call[u].use})
    BY <1>1, ReachableAfter
  <1>5. \A x : x \in Reachable <=>
          x # NoSlot /\ (x \in listed \/ \E u \in Threads : x \in {call[u].ent, call[u].use})
    BY ReachableIs
  <1>6. Reachable' \subseteq Reachable \cup {s}
    <2> SUFFICES ASSUME NEW x \in Reachable', x # s PROVE x \in Reachable
      OBVIOUS
    <2>1. x \in listed' => x \in listed
      BY <1>2
    <2>2. x \notin {k.ent, k.use}
      BY <1>1, <1>4 DEF UseOf
    <2> QED BY <1>4, <1>5, <2>1, <2>2
  <1>7. Funded => s \in Reachable'
    BY <1>1, <1>3, <1>4 DEF UseOf
  <1>8. ASSUME NEW x \in Reachable \ {s}
        PROVE  \/ x \in Reachable' /\ (x \in V => ~Funded \/ Users(x) # {})
               \/ ~Funded
               \/ x \in V /\ Users(x) = {} /\ x \notin Reachable'
    <2> SUFFICES ASSUME Funded
                 PROVE  \/ x \in Reachable' /\ (x \in V => Users(x) # {})
                        \/ x \in V /\ Users(x) = {} /\ x \notin Reachable'
      OBVIOUS
    <2>1. x # NoSlot /\ (x \in listed \/ \E u \in Threads : x = call[u].use)
      BY ReachableFunded
    <2>2. CASE Users(x) = {}
      <3>1. x \in listed
        BY <2>1, <2>2 DEF Users
      <3>2. CASE x \notin V
        <4>1. x \in listed'
          BY <1>2, <3>1, <3>2
        <4> QED BY <1>4, <2>1, <3>2, <4>1
      <3>3. CASE x \in V
        <4>1. x \notin listed' /\ x \notin {k.ent, k.use}
          BY <1>1, <1>2, <2>1, <3>3 DEF UseOf
        <4>2. ASSUME NEW u \in Threads PROVE x \notin {call[u].ent, call[u].use}
          BY <1>1, <2>1, <2>2 DEF Users, CallInv, UseOf
        <4> QED BY <1>4, <2>2, <3>3, <4>1, <4>2
      <3> QED BY <3>2, <3>3
    <2>3. CASE Users(x) # {}
      <3>1. PICK u \in Threads : call[u].use = x
        BY <2>3 DEF Users
      <3>2. u # t
        BY <1>1, <2>1, <3>1 DEF OwnSlot, CallInv, UseOf
      <3>3. x \in Reachable'
        BY <1>4, <2>1, <3>1, <3>2
      <3> QED BY <2>3, <3>3
    <2> QED BY <2>2, <2>3
  <1> QED BY <1>3, <1>6, <1>7, <1>8

(* Such a step preserves the structure.                                         *)
LEMMA WroteStructure ==
  ASSUME Structure, NEW t \in Threads, NEW k, NEW V, NEW s, NEW n, Wrote(t, k, V, s, n)
  PROVE  Structure'
  <1>1. /\ TypeOK /\ call \in [Threads -> CallType] /\ call' = [call EXCEPT ![t] = k]
        /\ OwnSlot(t, s) /\ k.ent \in {s, NoSlot} /\ k.use = UseOf(s)
        /\ \A u \in Threads : CallInv(call[u])
    BY DEF Structure, TypeOK, Wrote, WroteCall
  <1>2. /\ V \subseteq listed \ {s} /\ \A v \in V : entry[v].status = "ready"
        /\ listed' = (listed \ V) \ {s} \/ listed' = (listed \ V) \cup {s}
        /\ older' \subseteq listed' \X listed'
        /\ capacity' = capacity /\ generation' = generation
        /\ s \in listed' /\ s \notin listed => Find(n.key) = {}
    BY DEF Wrote, WroteList
  <1>3. /\ entry' = [x \in Reachable' |-> IF x = s THEN n ELSE Detached(V)[x]]
        /\ n \in EntryType /\ (n.closed <=> s \notin listed')
        /\ s \in DOMAIN entry => n.key = entry[s].key
        /\ n.status = "pending" => Preparing(k)
        /\ s \in listed' => n.status \in {"pending", "ready"}
        /\ Funded /\ n.status = "ready" => n.bytes > 0
        /\ ~Funded => n.bytes = 0
    BY DEF Wrote, WroteEntry
  <1>4. /\ Reachable' \subseteq Reachable \cup {s} /\ (Funded => s \in Reachable') /\ s \in Slots
        /\ \A x \in Reachable \ {s} :
             \/ x \in Reachable' /\ (x \in V => ~Funded \/ Users(x) # {})
             \/ ~Funded
             \/ x \in V /\ Users(x) = {} /\ x \notin Reachable'
    BY WroteReachable
  <1>5. DOMAIN entry = Reachable /\ listed \subseteq Reachable /\ Reachable \subseteq Slots
    BY <1>1, ReachableFinite
  <1>6. \A x \in Reachable' \ {s} :
          /\ entry'[x] = Detached(V)[x] /\ x \in DOMAIN entry /\ x \in Reachable
    BY <1>3, <1>4, <1>5
  <1>7. /\ call'[t] = k /\ (\A u \in Threads \ {t} : call'[u] = call[u])
        /\ call' \in [Threads -> CallType] /\ CallInv(k)
    BY <1>1 DEF Wrote, WroteCall, CallInv
  <1>8. DOMAIN entry' = Reachable' /\ listed' \subseteq Reachable'
    <2>1. NoSlot \notin listed' /\ s # NoSlot
      BY <1>1, <1>2, <1>4, CacheAssumption DEF CacheAssumption, TypeOK
    <2>2. listed' \subseteq Reachable'
      BY <2>1 DEF Reachable
    <2> QED BY <1>3, <2>2
  <1>9. s \in Reachable' => entry'[s] = n
    BY <1>3
  <1>10. TypeOK'
    <2>1. \A x \in Reachable' : entry'[x] \in EntryType
      BY <1>1, <1>3, <1>6, <1>9, DetachedAt
    <2>2. entry' \in [Reachable' -> EntryType]
      BY <1>3, <2>1
    <2>3. listed' \subseteq Slots
      BY <1>1, <1>2, <1>4 DEF TypeOK
    <2> QED BY <1>1, <1>2, <1>7, <2>2, <2>3 DEF TypeOK
  <1>11. OneEntryPerKey'
    <2>1. ASSUME NEW x \in listed', x # s
          PROVE  x \in listed /\ entry'[x].key = entry[x].key
      <3>1. x \in Reachable' \ {s} /\ x \in listed
        BY <1>2, <1>8, <2>1
      <3>2. entry'[x] = Detached(V)[x] /\ x \in DOMAIN entry
        BY <1>6, <3>1
      <3>3. Detached(V)[x].key = entry[x].key
        BY <1>1, <3>2, DetachedAt
      <3> QED BY <3>1, <3>2, <3>3
    <2>2. ASSUME NEW x \in listed', x # s, s \in listed'
          PROVE  entry'[x].key # n.key
      <3>1. x \in listed /\ entry'[x].key = entry[x].key
        BY <2>1, <2>2
      <3>2. CASE s \in listed
        BY <1>3, <1>5, <2>2, <3>1, <3>2 DEF Structure, OneEntryPerKey
      <3>3. CASE s \notin listed
        BY <1>2, <2>2, <3>1, <3>3 DEF Find
      <3> QED BY <3>2, <3>3
    <2> SUFFICES ASSUME NEW a \in listed', NEW b \in listed', entry'[a].key = entry'[b].key
                 PROVE  a = b
      BY DEF OneEntryPerKey
    <2>3. CASE a # s /\ b # s
      BY <2>1, <2>3 DEF Structure, OneEntryPerKey
    <2>4. CASE a = s \/ b = s
      BY <1>8, <1>9, <2>2, <2>4
    <2> QED BY <2>3, <2>4
  <1>12. ASSUME NEW x \in DOMAIN entry' \ {s}
         PROVE  Kept(x)
    <2>1. /\ x \in Reachable' /\ x \in DOMAIN entry /\ x \in Reachable /\ x # s
          /\ entry'[x] = Detached(V)[x] /\ EntryInv(x)
      BY <1>6, <1>8 DEF Structure
    <2>2. x \in listed' <=> x \in listed /\ x \notin V
      BY <1>2, <2>1
    <2>3. CASE x \notin V
      <3>1. entry'[x] = entry[x]
        BY <1>1, <2>1, <2>3, DetachedAt
      <3> QED BY <2>1, <2>2, <2>3, <3>1 DEF Kept, EntryInv
    <2>4. CASE x \in V
      <3>1. ~Funded \/ Users(x) # {}
        BY <1>4, <2>1, <2>4
      <3>2. /\ entry'[x].key = entry[x].key /\ entry'[x].status = entry[x].status
            /\ entry'[x].closed = TRUE
            /\ entry'[x].bytes = IF Users(x) = {} THEN 0 ELSE entry[x].bytes
        <4>1. TypeOK /\ x \in DOMAIN entry
          BY <1>1, <2>1
        <4>2. /\ Detached(V)[x].key = entry[x].key /\ Detached(V)[x].status = entry[x].status
              /\ Detached(V)[x].closed = TRUE
              /\ Detached(V)[x].bytes = IF Users(x) = {} THEN 0 ELSE entry[x].bytes
          BY <2>4, <4>1, DetachedAt
        <4> QED BY <2>1, <4>2
      <3> QED BY <2>1, <2>2, <2>4, <3>1, <3>2 DEF Kept, EntryInv
    <2> QED BY <2>3, <2>4
  <1>13. OwnerInv(t)'
    <2> SUFFICES ASSUME Preparing(k) PROVE OwnerInv(t)'
      BY <1>7 DEF OwnerInv
    <2>1. k.ent = s
      BY <1>1, <1>7 DEF CallInv
    <2>2. s \in Reachable'
      BY <1>1, <1>7, <2>1, ReachableAfter DEF CallInv
    <2>3. n.status = "pending" /\ n.key = k.key /\ (k.pc # "fail" => n.bytes = 0)
      BY DEF Wrote, WroteCall
    <2> QED BY <1>7, <1>9, <2>1, <2>2, <2>3 DEF OwnerInv
  <1>14. s \in DOMAIN entry' => EntryInv(s)'
    <2> SUFFICES ASSUME s \in DOMAIN entry' PROVE EntryInv(s)'
      OBVIOUS
    <2>1. entry'[s] = n
      BY <1>8, <1>9
    <2>2. n.status = "pending" => Preparing(call'[t]) /\ call'[t].ent = s
      BY <1>1, <1>3, <1>7 DEF CallInv
    <2> QED BY <1>3, <2>1, <2>2 DEF EntryInv
  <1>15. Uses(t)' => entry'[k.use].status = "ready"
    <2> SUFFICES ASSUME Uses(t)' PROVE entry'[k.use].status = "ready"
      OBVIOUS
    <2>1. Funded /\ k.pc = "return" /\ k.use = s
      BY <1>1, <1>7 DEF Uses, UseOf
    <2>2. n.status = "ready"
      BY <2>1 DEF Wrote, WroteCall
    <2> QED BY <1>4, <1>9, <2>1, <2>2
  <1>16. Framed({t}, {s})
    <2> DEFINE T == {t} own == {s}
    <2>1. T \in SUBSET Threads /\ (\A a, b \in T : a = b)
      OBVIOUS
    <2>2. \A u \in Threads \ T : call'[u] = call[u] /\ (Preparing(call[u]) => call[u].ent \notin own)
      <3> SUFFICES ASSUME NEW u \in Threads, u # t
                   PROVE  call'[u] = call[u] /\ (Preparing(call[u]) => call[u].ent # s)
        OBVIOUS
      <3>1. Preparing(call[u]) => call[u].ent \in Reachable
        BY <1>1, ReachableIs DEF CallInv
      <3> QED BY <1>1, <1>7, <3>1 DEF OwnSlot, FreeSlots, Structure, SoleOwners
    <2>3. /\ CallInv(call'[t]) /\ OwnerInv(t)'
          /\ Preparing(call[t]) => call[t].ent \in own
          /\ Uses(t)' => entry'[call'[t].use].status = "ready"
      <3>1. Preparing(call[t]) => call[t].ent = s
        BY <1>1, ReachableIs DEF OwnSlot
      <3> QED BY <1>7, <1>13, <1>15, <3>1
    <2>4. Preparing(call'[t]) => \/ call'[t].ent \notin DOMAIN entry
                                 \/ Preparing(call[t]) /\ call'[t].ent = call[t].ent
      <3> SUFFICES ASSUME Preparing(k)
                   PROVE  k.ent \notin DOMAIN entry \/ (Preparing(call[t]) /\ k.ent = call[t].ent)
        BY <1>7
      <3>1. k.ent = s
        BY <1>1, <1>7 DEF CallInv
      <3> QED BY <1>1, <1>5, <3>1 DEF OwnSlot, FreeSlots
    <2>5. \A x \in DOMAIN entry' \ own : Kept(x)
      BY <1>12
    <2>6. \A x \in DOMAIN entry' \cap own : EntryInv(x)'
      BY <1>14
    <2>7. \A x \in DOMAIN entry \cap own : entry[x].status = "pending"
      BY <1>1, <1>5 DEF OwnSlot, FreeSlots, Structure, OwnerInv
    <2>8. \A a \in T : a = t
      OBVIOUS
    <2> HIDE DEF T, own
    <2>9. Framed(T, own)
      BY <2>1, <2>2, <2>3, <2>4, <2>5, <2>6, <2>7, <2>8, Zenon DEF Framed
    <2> QED BY <2>9 DEF T, own
  <1> QED BY <1>10, <1>11, <1>16, StructureStep

(* Such a step preserves conservation when the account moves with the scope of  *)
(* the call, the refunds of the victims and the bytes written.                  *)
LEMMA WroteConserved ==
  ASSUME Structure, NEW t \in Threads, NEW k, NEW V, NEW s, NEW n, Wrote(t, k, V, s, n),
         account \in Int =>
           account' = account + (k.reserved - call[t].reserved)
                              + (n.bytes - OldBytes(s)) - Refunds(Detached(V))
  PROVE  Conserved => Conserved'
  <1> SUFFICES ASSUME Conserved PROVE Conserved'
    OBVIOUS
  <1> DEFINE d == Detached(V)
             h == [x \in DOMAIN entry \cup {s} |-> IF x = s THEN n ELSE d[x]]
  <1>1. /\ TypeOK /\ call' = [call EXCEPT ![t] = k] /\ k.reserved \in Int
        /\ call[t].reserved \in Int /\ account \in Int
        /\ Reserved \in Nat /\ Bytes(entry) \in Nat
    <2>1. TypeOK /\ call' = [call EXCEPT ![t] = k] /\ CallInv(k)
      BY DEF Structure, Wrote, WroteCall
    <2>2. Reserved \in Nat /\ Bytes(entry) \in Nat /\ account = Reserved + Bytes(entry)
      BY <2>1, SumsType, ConservedIs
    <2>3. account \in Int
      BY <2>2
    <2>4. k.reserved \in Int /\ call[t].reserved \in Int
      BY <2>1 DEF TypeOK, CallInv, CallType
    <2> QED BY <2>1, <2>2, <2>3, <2>4
  <1>2. /\ s \notin V /\ n.bytes \in Nat /\ (~Funded => n.bytes = 0)
        /\ entry' = [x \in Reachable' |-> IF x = s THEN n ELSE d[x]]
    BY DEF Wrote, WroteList, WroteEntry, EntryType
  <1>3. /\ DOMAIN entry = Reachable /\ IsFiniteSet(DOMAIN entry)
    BY <1>1, ReachableFinite
  <1>4. /\ DOMAIN d = DOMAIN entry
        /\ \A x \in DOMAIN entry :
             /\ d[x].bytes \in Int /\ (x \notin V => d[x] = entry[x])
             /\ entry[x].bytes \in Int
             /\ x \in V => d[x].bytes = IF Users(x) = {} THEN 0 ELSE entry[x].bytes
    <2>1. DOMAIN d = DOMAIN entry
      BY DEF Detached
    <2>2. ASSUME NEW x \in DOMAIN entry
          PROVE  /\ d[x].bytes \in Int /\ (x \notin V => d[x] = entry[x])
                 /\ entry[x].bytes \in Int
                 /\ x \in V => d[x].bytes = IF Users(x) = {} THEN 0 ELSE entry[x].bytes
      <3>1. d[x] \in EntryType /\ entry[x] \in EntryType
        BY <1>1, DetachedAt DEF TypeOK
      <3>2. d[x].bytes \in Int /\ entry[x].bytes \in Int
        <4> HIDE DEF d
        <4> QED BY <3>1 DEF EntryType
      <3> QED BY <1>1, <3>2, DetachedAt
    <2> QED BY <2>1, <2>2
  <1> HIDE DEF d
  <1>5. Bytes(d) = Bytes(entry) - Refunds(d) /\ Refunds(d) \in Int
    BY <1>1, <1>4, RefundsAre
  <1>6. /\ DOMAIN h = DOMAIN d \cup {s} /\ h[s] = n /\ s \in DOMAIN h
        /\ \A x \in DOMAIN d \ {s} : h[x] = d[x]
        /\ \A x \in DOMAIN h : h[x].bytes \in Int
        /\ IsFiniteSet(DOMAIN d) /\ IsFiniteSet(DOMAIN h)
    BY <1>2, <1>3, <1>4, FS_AddElement
  <1>7. Bytes(h) = Bytes(d) + n.bytes - OldBytes(s)
    <2> HIDE DEF h
    <2>1. Bytes(h) = Bytes(d) + h[s].bytes - (IF s \in DOMAIN d THEN d[s].bytes ELSE 0)
      <3>1. /\ \A x \in DOMAIN d : d[x].bytes \in Int
            /\ \A x \in DOMAIN d \ {s} : h[x].bytes = d[x].bytes
            /\ h[s].bytes \in Int
        BY <1>4, <1>6
      <3> QED BY <1>6, <3>1, BytesWritten
    <2>2. OldBytes(s) = IF s \in DOMAIN d THEN d[s].bytes ELSE 0
      BY <1>2, <1>4 DEF OldBytes
    <2> QED BY <1>6, <2>1, <2>2
  <1>8. /\ Reachable' \subseteq DOMAIN h
        /\ \A x \in Reachable' : entry'[x].bytes = h[x].bytes
    <2>1. Reachable' \subseteq DOMAIN h
      BY <1>3, WroteReachable
    <2> QED BY <1>2, <2>1
  <1>9. \A x \in DOMAIN h \ Reachable' : h[x].bytes = 0
    <2> SUFFICES ASSUME NEW x \in DOMAIN h, x \notin Reachable' PROVE h[x].bytes = 0
      OBVIOUS
    <2>1. CASE x = s
      BY <1>2, <1>6, <2>1, WroteReachable
    <2>2. CASE x # s
      <3>1. x \in DOMAIN entry /\ x \in Reachable \ {s} /\ h[x] = d[x]
        BY <1>3, <1>4, <1>6, <2>2
      <3>2. ~Funded \/ (x \in V /\ Users(x) = {})
        BY <3>1, WroteReachable
      <3>3. ~Funded => entry[x].bytes = 0
        BY <3>1 DEF Structure, EntryInv
      <3> QED BY <1>4, <3>1, <3>2, <3>3
    <2> QED BY <2>1, <2>2
  <1>10. Bytes(entry') = Bytes(h)
    <2>1. DOMAIN entry' = Reachable'
      BY <1>2
    <2> HIDE DEF h
    <2> QED BY <1>6, <1>8, <1>9, <2>1, BytesDropped
  <1>11. OldBytes(s) \in Int
    BY <1>4 DEF OldBytes
  <1>12. /\ Bytes(entry') \in Int
         /\ account' = account + (k.reserved - call[t].reserved) + (Bytes(entry') - Bytes(entry))
    BY <1>1, <1>2, <1>5, <1>7, <1>10, <1>11 DEF d
  <1> QED BY <1>1, <1>12, ConservedStep

(* Charges of listed entries are natural numbers.                               *)
LEMMA ChargesType ==
  ASSUME TypeOK, NEW S \in SUBSET listed
  PROVE  Charges(S) \in Nat
  <1> DEFINE f == [x \in DOMAIN entry |-> entry[x].charge]
  <1>1. \A x \in S : f[x] \in Nat
    BY ReachableFinite DEF TypeOK, EntryType
  <1>2. IsFiniteSet(S)
    BY ReachableFinite, FS_Subset
  <1> HIDE DEF f
  <1>3. SumFunctionOnSet(f, S) \in Nat
    BY <1>1, <1>2, SumNat
  <1> QED BY <1>3 DEF Charges, f

(* The charges of what stays listed, when R is taken from the list.             *)
LEMMA ChargesRest ==
  ASSUME TypeOK, NEW R
  PROVE  Charges(listed \ R) = Charges(listed) - Charges(listed \cap R)
  <1> DEFINE f == [x \in DOMAIN entry |-> entry[x].charge]
             P == listed \cap R
  <1>1. \A x \in listed : f[x] \in Int
    BY ReachableFinite DEF TypeOK, EntryType
  <1>2. IsFiniteSet(listed) /\ P \in SUBSET listed /\ listed \ P = listed \ R
    BY ReachableFinite
  <1>3. Charges(P) \in Nat /\ Charges(listed \ R) \in Nat
    <2>1. P \in SUBSET listed /\ listed \ R \in SUBSET listed
      OBVIOUS
    <2> QED BY <2>1, ChargesType
  <1>4. /\ Charges(listed) = SumFunctionOnSet(f, listed) /\ Charges(P) = SumFunctionOnSet(f, P)
        /\ Charges(listed \ R) = SumFunctionOnSet(f, listed \ P)
    BY <1>2 DEF Charges
  <1> HIDE DEF f, P
  <1>5. SumFunctionOnSet(f, listed)
          = SumFunctionOnSet(f, P) + SumFunctionOnSet(f, listed \ P)
    BY <1>1, <1>2, SumSplit
  <1>6. Charges(listed) = Charges(P) + Charges(listed \ R)
    BY <1>4, <1>5
  <1> QED BY <1>3, <1>6 DEF P

(* The listed charges after a step that writes an entry of its own.             *)
LEMMA WroteCharges ==
  ASSUME Structure, NEW t \in Threads, NEW k, NEW V, NEW s, NEW n, Wrote(t, k, V, s, n)
  PROVE  Charges(listed)' = Charges(listed) - Charges(listed \cap (V \cup {s}))
                                            + (IF s \in listed' THEN n.charge ELSE 0)
  <1> DEFINE f == [x \in DOMAIN entry |-> entry[x].charge]
             g == [x \in DOMAIN entry' |-> entry'[x].charge]
             R == V \cup {s}
             K == listed \ R
  <1>1. TypeOK /\ TypeOK' /\ CacheAssumption
    BY WroteStructure, CacheAssumption DEF Structure
  <1>2. /\ entry' = [x \in Reachable' |-> IF x = s THEN n ELSE Detached(V)[x]]
        /\ n.charge \in Nat
        /\ listed' = IF s \in listed' THEN K \cup {s} ELSE K
    BY DEF Wrote, WroteList, WroteEntry, EntryType
  <1>3. listed' \subseteq DOMAIN entry' /\ DOMAIN entry' = Reachable'
    BY <1>1 DEF TypeOK, Reachable, CacheAssumption
  <1>4. listed \subseteq DOMAIN entry /\ IsFiniteSet(listed) /\ IsFiniteSet(K)
    BY <1>1, ReachableFinite, FS_Subset
  <1>5. \A x \in K : f[x] \in Int /\ g[x] = f[x]
    <2> SUFFICES ASSUME NEW x \in K PROVE f[x] \in Int /\ g[x] = f[x]
      OBVIOUS
    <2>1. x \in DOMAIN entry /\ x \in DOMAIN entry' /\ x # s /\ x \notin V
      BY <1>2, <1>3, <1>4
    <2>2. entry'[x] = entry[x] /\ entry[x] \in EntryType
      BY <1>1, <1>2, <1>3, <2>1, DetachedAt DEF TypeOK
    <2>3. entry[x].charge \in Int
      BY <2>2 DEF EntryType
    <2> QED BY <2>1, <2>2, <2>3
  <1>6. s \in listed' => g[s] = n.charge
    BY <1>2, <1>3
  <1>7. /\ Charges(K) = SumFunctionOnSet(f, K)
        /\ Charges(listed)' = SumFunctionOnSet(g, listed')
    BY DEF Charges
  <1>8. Charges(K) = Charges(listed) - Charges(listed \cap R)
    BY <1>1, ChargesRest
  <1>9. s \notin K
    OBVIOUS
  <1>10. Charges(K) \in Nat
    <2>1. K \in SUBSET listed
      OBVIOUS
    <2> QED BY <1>1, <2>1, ChargesType
  <1>11. CASE s \in listed'
    <2>1. g[s] \in Int
      BY <1>2, <1>6, <1>11
    <2> HIDE DEF f, g, K
    <2>2. SumFunctionOnSet(g, K \cup {s}) = SumFunctionOnSet(f, K) + g[s]
      BY <1>4, <1>5, <1>9, <2>1, SumAdd
    <2>3. listed' = K \cup {s}
      BY <1>2, <1>11
    <2>4. Charges(listed)' = Charges(K) + n.charge
      BY <1>6, <1>7, <1>11, <2>2, <2>3
    <2> HIDE DEF R
    <2>5. Charges(listed)' = Charges(listed) - Charges(listed \cap R) + n.charge
      BY <1>8, <2>4
    <2> QED BY <1>11, <2>5 DEF R
  <1>12. CASE s \notin listed'
    <2> HIDE DEF f, g, K
    <2>1. SumFunctionOnSet(f, K) = SumFunctionOnSet(g, K)
      BY <1>4, <1>5, SumSame
    <2>2. listed' = K
      BY <1>2, <1>12
    <2>3. Charges(listed)' = Charges(K)
      BY <1>7, <2>1, <2>2
    <2> HIDE DEF R
    <2>4. Charges(listed)' = Charges(listed) - Charges(listed \cap R) + 0
      BY <1>8, <1>10, <2>3
    <2> QED BY <1>12, <2>4 DEF R
  <1> QED BY <1>11, <1>12

WroteAccount(t, k, V, s, n) ==
  account \in Int =>
    account' = account + (k.reserved - call[t].reserved)
                       + (n.bytes - OldBytes(s)) - Refunds(Detached(V))

WroteBounds(V, s, n) ==
  Bounded =>
    /\ payload' = payload - Charges(listed \cap (V \cup {s}))
                          + (IF s \in listed' THEN n.charge ELSE 0)
    /\ payload' <= MaxPayload
    /\ Cardinality(listed') <= capacity /\ Cardinality(listed') <= MaxEntries

(* Such a step preserves the invariant.                                         *)
LEMMA WroteStep ==
  ASSUME Structure, NEW t \in Threads, NEW k, NEW V, NEW s, NEW n, Wrote(t, k, V, s, n),
         WroteAccount(t, k, V, s, n), WroteBounds(V, s, n)
  PROVE  Preserved
  <1>1. Structure'
    BY WroteStructure
  <1>2. Conserved => Conserved'
    BY WroteConserved DEF WroteAccount
  <1>3. Bounded => Bounded'
    <2> SUFFICES ASSUME Bounded PROVE Bounded'
      OBVIOUS
    <2>1. capacity' = capacity /\ payload = Charges(listed)
      BY DEF Wrote, WroteList, Bounded
    <2>2. Charges(listed)' = payload'
      BY <2>1, WroteCharges DEF WroteBounds
    <2> QED BY <2>1, <2>2 DEF WroteBounds, Bounded
  <1> QED BY <1>1, <1>2, <1>3 DEF Preserved

(* The refunds of a removal.                                                    *)
LEMMA DetachedRefunds ==
  ASSUME TypeOK, NEW V
  PROVE  /\ Refunds(Detached(V)) \in Int
         /\ Bytes(Detached(V)) = Bytes(entry) - Refunds(Detached(V))
  <1> DEFINE d == Detached(V)
  <1>1. DOMAIN d = DOMAIN entry /\ \A x \in DOMAIN d : d[x].bytes \in Int
    <2>1. DOMAIN d = DOMAIN entry
      BY DEF Detached
    <2>2. \A x \in DOMAIN entry : d[x] \in EntryType
      BY DetachedAt
    <2> HIDE DEF d
    <2> QED BY <2>1, <2>2 DEF EntryType
  <1> HIDE DEF d
  <1>2. Bytes(d) = Bytes(entry) - Refunds(d) /\ Refunds(d) \in Int
    BY <1>1, RefundsAre
  <1> QED BY <1>2 DEF d

(* Removing nothing changes nothing.                                            *)
LEMMA DetachedNone ==
  ASSUME TypeOK
  PROVE  Detached({}) = entry /\ Refunds(Detached({})) = 0
  <1>1. Detached({}) = entry
    BY DEF Detached, TypeOK
  <1>2. \A s \in DOMAIN entry : entry[s].bytes \in Int
    BY DEF TypeOK, EntryType
  <1>3. Bytes(entry) = Bytes(entry) - Refunds(entry) /\ Refunds(entry) \in Int
    BY <1>2, RefundsAre
  <1>4. Bytes(entry) \in Nat
    BY SumsType
  <1> QED BY <1>1, <1>3, <1>4

(* The victims are ready listed entries, and without them there is room.        *)
LEMMA VictimsAre ==
  ASSUME NEW replacing, NEW charge, NEW V \in Victims(replacing, charge)
  PROVE  /\ V \subseteq listed \ {replacing} /\ \A v \in V : entry[v].status = "ready"
         /\ payload - Charges(listed \cap (V \cup {replacing})) <= MaxPayload - charge
         /\ Cardinality(listed \ (V \cup {replacing})) < capacity
         /\ Cardinality(listed \ (V \cup {replacing})) < MaxEntries
  <1> DEFINE kept == listed \ (V \cup {replacing})
  <1>1. /\ V \subseteq Evictable(replacing)
        /\ HasRoomForCharge(payload - Charges(listed \ kept), Cardinality(kept), charge)
    BY DEF Victims, Prefixes
  <1>2. listed \ kept = listed \cap (V \cup {replacing})
    OBVIOUS
  <1>3. HasRoomForCharge(payload - Charges(listed \cap (V \cup {replacing})),
                         Cardinality(kept), charge)
    BY <1>1, <1>2
  <1> QED BY <1>1, <1>3 DEF Evictable, HasRoomForCharge

(* The record of a new entry.                                                   *)
LEMMA NewEntryType ==
  ASSUME NEW t \in Threads, call[t].key \in Keys, NEW status \in {"pending", "ready"} \cup Failures,
         NEW charge \in Nat, NEW bytes \in Nat
  PROVE  /\ NewEntry(t, status, charge, bytes) \in EntryType
         /\ NewEntry(t, status, charge, bytes).key = call[t].key
         /\ NewEntry(t, status, charge, bytes).status = status
         /\ NewEntry(t, status, charge, bytes).charge = charge
         /\ NewEntry(t, status, charge, bytes).bytes = bytes
         /\ NewEntry(t, status, charge, bytes).closed = FALSE
  BY DEF NewEntry, EntryType

(* The record of an entry whose Memory is closed under a use.                   *)
LEMMA ClosedType ==
  ASSUME NEW e \in EntryType
  PROVE  /\ Closed(e, FALSE) \in EntryType /\ Closed(e, FALSE).key = e.key
         /\ Closed(e, FALSE).status = e.status /\ Closed(e, FALSE).bytes = e.bytes
         /\ Closed(e, FALSE).closed = TRUE
  BY DEF Closed, EntryType

(* The list without the entry s.                                                *)
LEMMA UnlistedBounds ==
  ASSUME TypeOK, Bounded, NEW s, listed' = listed \ {s}, capacity' = capacity,
         payload' = payload - Charges(listed \cap {s})
  PROVE  /\ payload' <= MaxPayload
         /\ Cardinality(listed') <= capacity /\ Cardinality(listed') <= MaxEntries
  <1>1. IsFiniteSet(listed) /\ listed' \in SUBSET listed /\ listed \cap {s} \in SUBSET listed
    BY ReachableFinite
  <1>2. Cardinality(listed') <= Cardinality(listed)
    BY <1>1, FS_Subset
  <1>3. Charges(listed \cap {s}) \in Nat /\ Charges(listed) \in Nat
    <2>1. listed \in SUBSET listed
      OBVIOUS
    <2> QED BY <1>1, <2>1, ChargesType
  <1>4. /\ Cardinality(listed) <= capacity /\ Cardinality(listed) <= MaxEntries
        /\ payload = Charges(listed) /\ payload <= MaxPayload
    BY DEF Bounded
  <1>5. /\ Cardinality(listed) \in Nat /\ Cardinality(listed') \in Nat
        /\ capacity \in Nat /\ MaxEntries \in Nat /\ MaxPayload \in Nat
    BY <1>1, FS_CardinalityType, FS_Subset, CacheAssumption DEF CacheAssumption, TypeOK
  <1> QED BY <1>2, <1>3, <1>4, <1>5

(* A funded call leaves with a storage of its own, closed under its Use and     *)
(* never listed.                                                                *)
LEMMA OwnStorage ==
  ASSUME Structure, Funded, NEW t \in Threads, NEW k, NEW s \in FreeSlots, NEW n \in EntryType,
         call[t].use = NoSlot, ~Preparing(call[t]),
         CallInv(k), ~Preparing(k), k.ent = NoSlot, k.use = s,
         n.closed = TRUE, n.status # "pending", n.status = "ready" => n.bytes > 0,
         k.pc = "return" => n.status = "ready",
         UNCHANGED <<listed, older, capacity, generation, payload>>,
         call' = [call EXCEPT ![t] = k],
         entry' = [x \in Reachable' |-> IF x = s THEN n ELSE entry[x]],
         account \in Int => account' = account + (k.reserved - call[t].reserved) + n.bytes
  PROVE  Preserved
  <1>1. TypeOK /\ call[t].reserved \in Nat /\ k.reserved \in Nat /\ n.bytes \in Nat
    BY DEF Structure, CallInv, CallType, EntryType
  <1>2. /\ s \in Slots /\ s # NoSlot /\ s \notin Reachable /\ s \notin DOMAIN entry
        /\ s \notin listed /\ UseOf(s) = s
    BY <1>1, ReachableFinite, CacheAssumption DEF FreeSlots, CacheAssumption, UseOf
  <1>6. entry' = [x \in Reachable' |-> IF x = s THEN n ELSE Detached({})[x]]
    BY <1>1, DetachedNone
  <1>7. WroteCall(t, k, s, n)
    BY <1>1, <1>2 DEF WroteCall, OwnSlot
  <1>8. WroteList({}, s, n)
    <2>1. listed' = (listed \ {}) \ {s} /\ listed' = listed /\ older' = older
      BY <1>2
    <2>2. older \subseteq listed \X listed
      BY <1>1 DEF TypeOK
    <2>3. /\ {} \subseteq listed \ {s} /\ (\A v \in {} : entry[v].status = "ready")
          /\ s \notin listed' /\ older' \subseteq listed' \X listed'
          /\ capacity' = capacity /\ generation' = generation
      BY <1>2, <2>1, <2>2
    <2> QED BY <2>1, <2>3, Zenon DEF WroteList
  <1>9. WroteEntry(k, {}, s, n)
    <2>1. s \notin listed' /\ (n.closed <=> s \notin listed')
      BY <1>2
    <2> QED BY <1>2, <1>6, <2>1, Zenon DEF WroteEntry
  <1>10. WroteAccount(t, k, {}, s, n)
    BY <1>1, <1>2, DetachedNone DEF WroteAccount, OldBytes
  <1>11. WroteBounds({}, s, n)
    <2> SUFFICES ASSUME Bounded PROVE WroteBounds({}, s, n)
      BY DEF WroteBounds
    <2>1. listed' = listed /\ payload' = payload /\ listed \cap ({} \cup {s}) = {}
      BY <1>2
    <2>2. Charges({}) = 0
      BY SumEmpty DEF Charges
    <2>3. payload \in Nat
      <3>1. listed \in SUBSET listed
        OBVIOUS
      <3> QED BY <1>1, <3>1, ChargesType DEF Bounded
    <2>4. payload' = payload - Charges(listed \cap ({} \cup {s}))
                             + (IF s \in listed' THEN n.charge ELSE 0)
      <3> DEFINE c == Charges(listed \cap ({} \cup {s}))
      <3>1. c = 0 /\ s \notin listed'
        BY <1>2, <2>1, <2>2
      <3> HIDE DEF c
      <3>2. payload' = payload - c + (IF s \in listed' THEN n.charge ELSE 0)
        BY <2>1, <2>3, <3>1
      <3> QED BY <3>2 DEF c
    <2>5. capacity' = capacity
      OBVIOUS
    <2> QED BY <2>1, <2>4 DEF WroteBounds, Bounded
  <1>12. Wrote(t, k, {}, s, n)
    BY <1>7, <1>8, <1>9 DEF Wrote
  <1> QED BY <1>10, <1>11, <1>12, WroteStep

(* A funded call keeps a value of its own, in a storage that is closed at once. *)
LEMMA PrivateStorage ==
  ASSUME Structure, Funded, NEW t \in Threads, NEW s \in FreeSlots, NEW bytes \in Nat, bytes > 0,
         call[t].pc = "publish", call[t].lane # "pending",
         UNCHANGED <<listed, older, capacity, generation, payload>>,
         Update(t, Returned(s)),
         entry' = [x \in Reachable' |->
                     IF x = s THEN Closed(NewEntry(t, "ready", 0, bytes), FALSE) ELSE entry[x]],
         account \in Int => account' = account + bytes - call[t].reserved
  PROVE  Preserved
  <1> DEFINE k == Returned(s)
             n == Closed(NewEntry(t, "ready", 0, bytes), FALSE)
  <1>1. /\ CallInv(call[t]) /\ call[t].key \in Keys /\ call[t].reserved \in Nat
        /\ ~Preparing(call[t]) /\ call[t].use = NoSlot
    BY DEF Structure, CallInv, CallType, Preparing
  <1>2. s \in Slots /\ s # NoSlot
    BY CacheAssumption DEF FreeSlots, CacheAssumption
  <1>3. /\ CallInv(k) /\ ~Preparing(k) /\ k.ent = NoSlot /\ k.use = s /\ k.reserved = 0
        /\ k.pc = "return"
    BY <1>2, ReturnedInv
  <1>4. n \in EntryType /\ n.status = "ready" /\ n.bytes = bytes /\ n.closed = TRUE
    <2> DEFINE e == NewEntry(t, "ready", 0, bytes)
    <2>1. 0 \in Nat /\ bytes \in Nat
      OBVIOUS
    <2>2. e \in EntryType /\ e.status = "ready" /\ e.bytes = bytes
      BY <1>1, <2>1 DEF NewEntry, EntryType, Failures
    <2> HIDE DEF e
    <2>3. /\ Closed(e, FALSE) \in EntryType /\ Closed(e, FALSE).status = e.status
          /\ Closed(e, FALSE).bytes = e.bytes /\ Closed(e, FALSE).closed = TRUE
      BY <2>2, ClosedType
    <2> QED BY <2>2, <2>3 DEF e
  <1>5. /\ call' = [call EXCEPT ![t] = k]
        /\ entry' = [x \in Reachable' |-> IF x = s THEN n ELSE entry[x]]
    BY DEF Update
  <1> HIDE DEF k, n
  <1>6. account \in Int => account' = account + (k.reserved - call[t].reserved) + n.bytes
    BY <1>1, <1>3, <1>4
  <1>7. n.status # "pending" /\ n.bytes > 0
    BY <1>4
  <1> QED BY <1>1, <1>3, <1>4, <1>5, <1>6, <1>7, OwnStorage

(* A funded call throws with a storage of its own: what was transferred to it   *)
(* and what is still in the scope add up to what the call has reserved.         *)
LEMMA ThrowOwningStep ==
  ASSUME Structure, Funded, NEW t \in Threads, NEW bytes \in Nat, NEW reserved \in Nat,
         call[t].key \in Keys, call[t].use = NoSlot, ~Preparing(call[t]),
         bytes + reserved = call[t].reserved + KeyCharge, ThrowOwning(t, bytes, reserved)
  PROVE  Preserved
  <1>1. PICK s \in FreeSlots, why \in {"interrupt", "denied"} :
          /\ call' = [call EXCEPT ![t] = [Thrown(t, why) EXCEPT !.use = s, !.reserved = reserved]]
          /\ entry' = [x \in Reachable' |->
               IF x = s THEN Closed(NewEntry(t, why, 0, bytes), FALSE) ELSE entry[x]]
    BY DEF ThrowOwning, Update
  <1> DEFINE r == Thrown(t, why)
             k == [r EXCEPT !.use = s, !.reserved = reserved]
             n == Closed(NewEntry(t, why, 0, bytes), FALSE)
  <1>2. /\ CallInv(call[t]) /\ call[t].reserved \in Nat /\ why \in Failures /\ s \in Slots
        /\ KeyCharge \in Nat
    BY CacheAssumption DEF Structure, CallInv, CallType, Failures, FreeSlots, CacheAssumption
  <1>3. CallInv(r) /\ r.ent = NoSlot /\ r.pc = "unwind" /\ r.foreign = FALSE /\ r.key = call[t].key
    BY <1>2, ThrownInv
  <1>4. n \in EntryType /\ n.status = why /\ n.bytes = bytes /\ n.closed = TRUE
    <2> DEFINE e == NewEntry(t, why, 0, bytes)
    <2>1. 0 \in Nat /\ bytes \in Nat
      OBVIOUS
    <2>2. e \in EntryType /\ e.status = why /\ e.bytes = bytes
      BY <1>2, <2>1 DEF NewEntry, EntryType, Failures
    <2> HIDE DEF e
    <2>3. /\ Closed(e, FALSE) \in EntryType /\ Closed(e, FALSE).status = e.status
          /\ Closed(e, FALSE).bytes = e.bytes /\ Closed(e, FALSE).closed = TRUE
      BY <2>2, ClosedType
    <2> QED BY <2>2, <2>3 DEF e
  <1>5. /\ call' = [call EXCEPT ![t] = k]
        /\ entry' = [x \in Reachable' |-> IF x = s THEN n ELSE entry[x]]
    BY <1>1
  <1> HIDE DEF r, n
  <1>6. k \in CallType
    BY <1>2, <1>3 DEF CallInv, CallType
  <1>7. /\ k.pc = "unwind" /\ k.ent = NoSlot /\ k.use = s /\ k.reserved = reserved
        /\ k.foreign = FALSE /\ k.key = call[t].key
    BY <1>3 DEF CallInv, CallType
  <1> HIDE DEF k
  <1>8. CallInv(k) /\ ~Preparing(k)
    BY <1>6, <1>7 DEF CallInv, Preparing
  <1>9. account \in Int => account' = account + (k.reserved - call[t].reserved) + n.bytes
    BY <1>2, <1>4, <1>7 DEF ThrowOwning
  <1>10. n.status \notin {"pending", "ready"} /\ k.pc # "return"
    BY <1>4, <1>7
  <1>11. UNCHANGED <<listed, older, capacity, generation, payload>>
    BY DEF ThrowOwning
  <1> QED BY <1>4, <1>5, <1>7, <1>8, <1>9, <1>10, <1>11, OwnStorage

(* A lookup fails after it acquired an entry.                                   *)
LEMMA AcquireInterruptedStep ==
  ASSUME Structure, NEW t \in Threads, AcquireInterrupted(t)
  PROVE  Preserved
  <1>1. /\ Funded /\ call[t].key \in Keys /\ call[t].use = NoSlot /\ ~Preparing(call[t])
        /\ call[t].reserved = 0 /\ ThrowOwning(t, 0, KeyCharge)
    BY DEF Structure, CallInv, AcquireInterrupted, Preparing
  <1>2. KeyCharge \in Nat /\ 0 + KeyCharge = call[t].reserved + KeyCharge
    BY <1>1, CacheAssumption DEF CacheAssumption
  <1> QED BY <1>1, <1>2, ThrowOwningStep

(* The late lane fails before or after the charge moved to its entry.           *)
LEMMA LateInterruptedStep ==
  ASSUME Structure, NEW t \in Threads, LateInterrupted(t)
  PROVE  Preserved
  <1> DEFINE paid == call[t].reserved + KeyCharge
  <1>1. /\ Funded /\ call[t].key \in Keys /\ call[t].use = NoSlot /\ ~Preparing(call[t])
        /\ call[t].reserved \in Nat
        /\ ThrowOwning(t, 0, paid) \/ ThrowOwning(t, paid, 0)
    BY DEF Structure, CallInv, CallType, LateInterrupted, Preparing
  <1>2. paid \in Nat /\ 0 + paid = paid /\ paid + 0 = paid
    BY <1>1, CacheAssumption DEF CacheAssumption
  <1> QED BY <1>1, <1>2, ThrowOwningStep

(* A call keeps a value of its own, with or without funding.                    *)
LEMMA KeepPrivateStep ==
  ASSUME Structure, NEW t \in Threads, call[t].pc = "publish", call[t].lane # "pending",
         UNCHANGED <<listed, older, capacity, generation, payload>>, KeepPrivate(t)
  PROVE  Preserved
  <1>1. CallInv(call[t]) /\ call[t].reserved \in Nat
    BY DEF Structure, CallInv, CallType
  <1>2. CASE Funded
    <2>1. PICK s \in FreeSlots :
            /\ Update(t, Returned(s))
            /\ entry' = [x \in Reachable' |->
                 IF x = s THEN Closed(NewEntry(t, "ready", 0, call[t].reserved), FALSE)
                          ELSE entry[x]]
            /\ account' = account
      BY <1>2 DEF KeepPrivate
    <2> DEFINE bytes == call[t].reserved
    <2>2. bytes \in Nat /\ bytes > 0
      BY <1>1, <1>2 DEF CallInv
    <2>3. account \in Int => account' = account + bytes - call[t].reserved
      BY <1>1, <2>1
    <2> QED BY <1>2, <2>1, <2>2, <2>3, PrivateStorage
  <1>3. CASE ~Funded
    <2> DEFINE k == Returned(NoSlot)
    <2>1. call' = [call EXCEPT ![t] = k] /\ UNCHANGED <<entry, account>>
      BY <1>3 DEF KeepPrivate, Update
    <2>2. /\ CallInv(k) /\ ~Preparing(k) /\ k.ent = NoSlot /\ k.use = NoSlot
          /\ k.reserved = 0 /\ k.pc = "return"
      BY <1>3, ReturnedInv
    <2> HIDE DEF k
    <2>3. ~Preparing(call[t]) /\ call[t].ent = NoSlot /\ call[t].use = NoSlot /\ call[t].reserved = 0
      BY <1>1, <1>3 DEF CallInv, Preparing
    <2>4. Still(t, k)
      BY <1>3, <2>1, <2>2, <2>3 DEF Still
    <2> QED BY <2>4, StillStep
  <1> QED BY <1>2, <1>3

(* The private lane ends.                                                       *)
LEMMA PublishPrivateStep ==
  ASSUME Structure, NEW t \in Threads, PublishPrivate(t)
  PROVE  Preserved
  BY KeepPrivateStep DEF PublishPrivate

(* The late lane declines to retain.                                            *)
LEMMA LateUncachedStep ==
  ASSUME Structure, NEW t \in Threads, LateUncached(t)
  PROVE  Preserved
  BY KeepPrivateStep DEF LateUncached

(* No plan makes room for a completed entry.                                    *)
LEMMA LateNoRoomStep ==
  ASSUME Structure, NEW t \in Threads, LateNoRoom(t)
  PROVE  Preserved
  <1>1. /\ CallInv(call[t]) /\ call[t].reserved \in Nat
        /\ call[t].pc = "publish" /\ call[t].lane # "pending"
    BY DEF Structure, CallInv, CallType, LateNoRoom
  <1>2. UNCHANGED <<listed, older, capacity, generation, payload>>
    BY DEF LateNoRoom
  <1>3. CASE Funded
    <2> DEFINE bytes == call[t].reserved + KeyCharge
    <2>1. PICK s \in FreeSlots :
            /\ Update(t, Returned(s))
            /\ entry' = [x \in Reachable' |->
                 IF x = s THEN Closed(NewEntry(t, "ready", 0, bytes), FALSE) ELSE entry[x]]
            /\ account' = account + KeyCharge
      BY <1>3 DEF LateNoRoom
    <2>2. bytes \in Nat /\ bytes > 0 /\ KeyCharge \in Nat
      BY <1>1, CacheAssumption DEF CacheAssumption
    <2>3. account \in Int => account' = account + bytes - call[t].reserved
      BY <1>1, <2>1, <2>2
    <2> HIDE DEF bytes
    <2> QED BY <1>1, <1>2, <1>3, <2>1, <2>2, <2>3, PrivateStorage
  <1>4. CASE ~Funded
    <2>1. KeepPrivate(t)
      BY <1>4 DEF LateNoRoom, KeepPrivate
    <2> QED BY <1>1, <1>2, <2>1, KeepPrivateStep
  <1> QED BY <1>3, <1>4

(* A pending entry is published.                                                *)
LEMMA LookupPendingStep ==
  ASSUME Structure, NEW t \in Threads, LookupPending(t)
  PROVE  Preserved
  <1> DEFINE r == IF Funded THEN KeyCharge ELSE 0
  <1>1. /\ TypeOK /\ CallInv(call[t]) /\ call[t].key \in Keys /\ call[t].reserved = 0
        /\ ~Preparing(call[t]) /\ call[t].use = NoSlot /\ call[t].pc = "lookup"
        /\ call[t] \in CallType
    BY DEF Structure, CallInv, LookupPending, Preparing
  <1>2. PICK s \in FreeSlots :
          /\ Relink({}, s)
          /\ Update(t, [call[t] EXCEPT !.pc = "prepare", !.lane = "pending", !.ent = s,
                                       !.gen = generation, !.use = UseOf(s), !.reserved = r])
          /\ entry' = [x \in Reachable' |->
                         IF x = s THEN NewEntry(t, "pending", KeyCharge, 0) ELSE entry[x]]
    BY DEF LookupPending
  <1>3. /\ payload' = payload + KeyCharge /\ account' = account + r
        /\ UNCHANGED <<capacity, generation>> /\ Find(call[t].key) = {} /\ CanAdd
        /\ HasRoomForCharge(payload, Cardinality(listed), KeyCharge)
    BY DEF LookupPending
  <1> DEFINE k == [call[t] EXCEPT !.pc = "prepare", !.lane = "pending", !.ent = s,
                                  !.gen = generation, !.use = UseOf(s), !.reserved = r]
             n == NewEntry(t, "pending", KeyCharge, 0)
  <1>4. /\ s \in Slots /\ s # NoSlot /\ s \notin Reachable /\ s \notin DOMAIN entry
        /\ s \notin listed
    BY <1>1, ReachableFinite, CacheAssumption DEF FreeSlots, CacheAssumption
  <1>5. r \in Nat /\ (~Funded => r = 0) /\ KeyCharge \in Nat
    BY CacheAssumption DEF CacheAssumption
  <1>6. n \in EntryType /\ n.key = call[t].key /\ n.status = "pending" /\ n.bytes = 0
        /\ n.charge = KeyCharge /\ n.closed = FALSE
    BY <1>1, <1>5 DEF NewEntry, EntryType
  <1>7. entry' = [x \in Reachable' |-> IF x = s THEN n ELSE Detached({})[x]]
    BY <1>1, <1>2, DetachedNone
  <1>8. call' = [call EXCEPT ![t] = k]
    BY <1>2 DEF Update
  <1> HIDE DEF r, n
  <1>9. UseOf(s) \in Slots \cup {NoSlot} /\ generation \in 0..MaxGeneration
        /\ (~Funded => UseOf(s) = NoSlot)
    BY <1>1, <1>4 DEF UseOf, TypeOK
  <1>10. k \in CallType
    BY <1>1, <1>4, <1>5, <1>9 DEF CallType, Pcs
  <1>11. /\ k.pc = "prepare" /\ k.lane = "pending" /\ k.reserved = r /\ k.ent = s
         /\ k.use = UseOf(s) /\ k.key = call[t].key /\ k.why = call[t].why
         /\ k.foreign = call[t].foreign
    BY <1>1 DEF CallType
  <1> HIDE DEF k
  <1>12. CallInv(k) /\ Preparing(k)
    BY <1>1, <1>4, <1>5, <1>9, <1>10, <1>11 DEF CallInv, Preparing
  <1>13. WroteCall(t, k, s, n)
    BY <1>1, <1>4, <1>6, <1>8, <1>11, <1>12 DEF WroteCall, OwnSlot
  <1>14. /\ listed' = listed \cup {s} /\ s \in listed'
         /\ older' \subseteq listed' \X listed'
    <2>1. /\ listed' = (listed \ {}) \cup {s}
          /\ older' = {p \in older : p[1] \notin {} /\ p[2] \notin {}} \cup ((listed \ {}) \X {s})
      BY <1>2 DEF Relink
    <2>2. older \subseteq listed \X listed
      BY <1>1 DEF TypeOK
    <2> QED BY <2>1, <2>2
  <1>15. WroteList({}, s, n)
    <2>1. listed' = (listed \ {}) \cup {s} /\ {} \subseteq listed \ {s}
          /\ (\A v \in {} : entry[v].status = "ready")
      BY <1>14
    <2> QED BY <1>3, <1>6, <1>14, <2>1 DEF WroteList
  <1>16. WroteEntry(k, {}, s, n)
    <2>1. n.closed <=> s \notin listed'
      BY <1>6, <1>14
    <2>2. n.status = "pending" => Preparing(k)
      BY <1>12
    <2>3. Funded /\ n.status = "ready" => n.bytes > 0
      BY <1>6
    <2>4. s \in listed' => n.status \in {"pending", "ready"}
      BY <1>6
    <2>5. s \in DOMAIN entry => n.key = entry[s].key
      BY <1>4
    <2> QED BY <1>6, <1>7, <2>1, <2>2, <2>3, <2>4, <2>5, Zenon DEF WroteEntry
  <1>17. WroteAccount(t, k, {}, s, n)
    <2>1. OldBytes(s) = 0 /\ Refunds(Detached({})) = 0
      BY <1>1, <1>4, DetachedNone DEF OldBytes
    <2> QED BY <1>1, <1>3, <1>5, <1>6, <1>11, <2>1 DEF WroteAccount
  <1>18. WroteBounds({}, s, n)
    <2> SUFFICES ASSUME Bounded PROVE WroteBounds({}, s, n)
      BY DEF WroteBounds
    <2>1. payload \in Nat
      <3>1. listed \in SUBSET listed
        OBVIOUS
      <3> QED BY <1>1, <3>1, ChargesType DEF Bounded
    <2> DEFINE c == Charges(listed \cap ({} \cup {s}))
    <2>2. c = 0
      <3>1. listed \cap ({} \cup {s}) = {}
        BY <1>4
      <3> QED BY <3>1, SumEmpty DEF Charges
    <2> HIDE DEF c
    <2>3. payload' = payload - c + (IF s \in listed' THEN n.charge ELSE 0)
      BY <1>3, <1>5, <1>6, <1>14, <2>1, <2>2
    <2>4. payload' <= MaxPayload
      BY <1>3, <1>5, <2>1, CacheAssumption DEF HasRoomForCharge, CacheAssumption
    <2>5. IsFiniteSet(listed) /\ Cardinality(listed) \in Nat
      BY <1>1, ReachableFinite, FS_CardinalityType
    <2>6. Cardinality(listed') = Cardinality(listed) + 1
      BY <1>4, <1>14, <2>5, FS_AddElement
    <2>7. capacity \in Nat /\ MaxEntries \in Nat
      BY <1>1, CacheAssumption DEF CacheAssumption, TypeOK
    <2>8. Cardinality(listed') <= capacity /\ Cardinality(listed') <= MaxEntries
      BY <1>3, <2>5, <2>6, <2>7 DEF CanAdd
    <2> QED BY <2>3, <2>4, <2>8 DEF WroteBounds, c
  <1>19. Wrote(t, k, {}, s, n)
    BY <1>13, <1>15, <1>16 DEF Wrote
  <1> QED BY <1>17, <1>18, <1>19, WroteStep

(* The late lane publishes a completed entry.                                   *)
LEMMA LatePublishStep ==
  ASSUME Structure, NEW t \in Threads, LatePublish(t)
  PROVE  Preserved
  <1> DEFINE charge == KeyCharge + call[t].value
             paid == IF Funded THEN call[t].reserved + KeyCharge ELSE 0
             extra == IF Funded THEN KeyCharge ELSE 0
  <1>1. /\ TypeOK /\ CallInv(call[t]) /\ call[t].key \in Keys /\ call[t].reserved \in Nat
        /\ ~Preparing(call[t]) /\ call[t].use = NoSlot /\ call[t].pc = "publish"
        /\ call[t].value \in Nat
    BY DEF Structure, CallInv, CallType, LatePublish, Preparing
  <1>2. PICK s \in FreeSlots, V \in Victims(NoSlot, charge) : PublishCompleted(t, s, charge, V)
    BY DEF LatePublish
  <1> DEFINE k == Returned(UseOf(s))
             n == NewEntry(t, "ready", charge, paid)
  <1>3. /\ Relink(V, s) /\ payload' = payload - Charges(V) + charge
        /\ call' = [call EXCEPT ![t] = k]
        /\ entry' = [x \in Reachable' |-> IF x = s THEN n ELSE Detached(V)[x]]
        /\ account' = account - Refunds(Detached(V)) + extra
    BY <1>2 DEF PublishCompleted, Update
  <1>4. UNCHANGED <<capacity, generation>> /\ Find(call[t].key) = {}
    BY DEF LatePublish
  <1>5. /\ s \in Slots /\ s # NoSlot /\ s \notin Reachable /\ s \notin DOMAIN entry
        /\ s \notin listed /\ NoSlot \notin listed
    BY <1>1, ReachableFinite, CacheAssumption DEF FreeSlots, CacheAssumption
  <1>6. /\ KeyCharge \in Nat \ {0} /\ charge \in Nat /\ paid \in Nat /\ extra \in Nat
        /\ (Funded => paid > 0) /\ (~Funded => paid = 0)
    BY <1>1, CacheAssumption DEF CacheAssumption
  <1>7. n \in EntryType /\ n.key = call[t].key /\ n.status = "ready" /\ n.bytes = paid
        /\ n.charge = charge /\ n.closed = FALSE
    <2> HIDE DEF charge, paid
    <2> QED BY <1>1, <1>6 DEF NewEntry, EntryType
  <1>8. UseOf(s) \in Slots \cup {NoSlot} /\ (Funded <=> UseOf(s) # NoSlot)
    BY <1>5 DEF UseOf
  <1>9. /\ CallInv(k) /\ ~Preparing(k) /\ k.ent = NoSlot /\ k.use = UseOf(s)
        /\ k.reserved = 0 /\ k.pc = "return"
    BY <1>8, ReturnedInv
  <1>10. paid - call[t].reserved - extra = 0
    BY <1>1, <1>6 DEF CallInv
  <1> HIDE DEF charge, paid, extra, k, n
  <1>11. /\ V \subseteq listed /\ (\A v \in V : entry[v].status = "ready")
         /\ payload - Charges(V) <= MaxPayload - charge
         /\ Cardinality(listed \ V) < capacity /\ Cardinality(listed \ V) < MaxEntries
    <2>1. /\ V \subseteq listed \ {NoSlot} /\ (\A v \in V : entry[v].status = "ready")
          /\ payload - Charges(listed \cap (V \cup {NoSlot})) <= MaxPayload - charge
          /\ Cardinality(listed \ (V \cup {NoSlot})) < capacity
          /\ Cardinality(listed \ (V \cup {NoSlot})) < MaxEntries
      BY VictimsAre
    <2>2. listed \cap (V \cup {NoSlot}) = V /\ listed \ (V \cup {NoSlot}) = listed \ V
      BY <1>5, <2>1
    <2> QED BY <2>1, <2>2
  <1>12. WroteCall(t, k, s, n)
    BY <1>1, <1>3, <1>7, <1>9 DEF WroteCall, OwnSlot
  <1>13. /\ listed' = (listed \ V) \cup {s} /\ s \in listed'
         /\ older' \subseteq listed' \X listed'
    <2>1. /\ listed' = (listed \ V) \cup {s}
          /\ older' = {p \in older : p[1] \notin V /\ p[2] \notin V} \cup ((listed \ V) \X {s})
      BY <1>3 DEF Relink
    <2>2. older \subseteq listed \X listed
      BY <1>1 DEF TypeOK
    <2> QED BY <2>1, <2>2
  <1>14. WroteList(V, s, n)
    <2>1. V \subseteq listed \ {s}
      BY <1>5, <1>11
    <2> QED BY <1>4, <1>7, <1>11, <1>13, <2>1 DEF WroteList
  <1>15. WroteEntry(k, V, s, n)
    <2>1. /\ n.closed <=> s \notin listed'
          /\ n.status = "pending" => Preparing(k)
          /\ Funded /\ n.status = "ready" => n.bytes > 0
          /\ ~Funded => n.bytes = 0
          /\ s \in listed' => n.status \in {"pending", "ready"}
          /\ s \in DOMAIN entry => n.key = entry[s].key
      BY <1>5, <1>6, <1>7, <1>13
    <2> QED BY <1>3, <1>7, <2>1, Zenon DEF WroteEntry
  <1>16. WroteAccount(t, k, V, s, n)
    <2> DEFINE f == Refunds(Detached(V))
    <2>1. OldBytes(s) = 0
      BY <1>5 DEF OldBytes
    <2>2. f \in Int
      BY <1>1, DetachedRefunds
    <2>3. account' = account - f + extra
      BY <1>3
    <2> HIDE DEF f
    <2>4. account \in Int => account' = account + (k.reserved - call[t].reserved)
                                                + (n.bytes - OldBytes(s)) - f
      <3>1. k.reserved = 0 /\ n.bytes = paid /\ paid \in Int /\ extra \in Int
            /\ call[t].reserved \in Int
        BY <1>1, <1>6, <1>7, <1>9
      <3>2. paid = call[t].reserved + extra
        BY <1>10, <3>1
      <3> QED BY <2>1, <2>2, <2>3, <3>1, <3>2
    <2> QED BY <2>4 DEF WroteAccount, f
  <1>17. WroteBounds(V, s, n)
    <2> SUFFICES ASSUME Bounded PROVE WroteBounds(V, s, n)
      BY DEF WroteBounds
    <2>1. payload \in Nat /\ Charges(V) \in Nat /\ MaxPayload \in Nat
      <3>1. listed \in SUBSET listed
        OBVIOUS
      <3> QED BY <1>1, <1>11, <3>1, ChargesType, CacheAssumption DEF Bounded, CacheAssumption
    <2>2. listed \cap (V \cup {s}) = V
      BY <1>5, <1>11
    <2>3. payload' = payload - Charges(listed \cap (V \cup {s}))
                             + (IF s \in listed' THEN n.charge ELSE 0)
      BY <1>3, <1>7, <1>13, <2>2
    <2>4. payload' <= MaxPayload
      BY <1>3, <1>6, <1>11, <2>1
    <2>5. IsFiniteSet(listed \ V) /\ Cardinality(listed \ V) \in Nat
      BY <1>1, ReachableFinite, FS_CardinalityType, FS_Subset
    <2>6. Cardinality(listed') = Cardinality(listed \ V) + 1
      BY <1>5, <1>13, <2>5, FS_AddElement
    <2>7. capacity \in Nat /\ MaxEntries \in Nat
      BY <1>1, CacheAssumption DEF CacheAssumption, TypeOK
    <2>8. Cardinality(listed') <= capacity /\ Cardinality(listed') <= MaxEntries
      BY <1>11, <2>5, <2>6, <2>7
    <2> QED BY <2>3, <2>4, <2>8 DEF WroteBounds
  <1>18. Wrote(t, k, V, s, n)
    BY <1>12, <1>14, <1>15 DEF Wrote
  <1> QED BY <1>16, <1>17, <1>18, WroteStep

(* What a preparer knows of its pending entry.                                  *)
LEMMA OwnEntry ==
  ASSUME Structure, NEW t \in Threads, Preparing(call[t])
  PROVE  /\ TypeOK /\ CallInv(call[t]) /\ call[t] \in CallType /\ call[t].key \in Keys
         /\ call[t].ent \in Slots /\ call[t].ent # NoSlot /\ call[t].ent \in DOMAIN entry
         /\ entry[call[t].ent] \in EntryType /\ entry[call[t].ent].status = "pending"
         /\ entry[call[t].ent].key = call[t].key
         /\ call[t].pc # "fail" => entry[call[t].ent].bytes = 0
         /\ ~Funded => entry[call[t].ent].bytes = 0
         /\ entry[call[t].ent].closed <=> call[t].ent \notin listed
         /\ call[t].use = UseOf(call[t].ent) /\ call[t].reserved \in Nat
         /\ OwnSlot(t, call[t].ent)
  <1>1. /\ TypeOK /\ CallInv(call[t]) /\ call[t] \in CallType /\ call[t].reserved \in Nat
        /\ call[t].key \in Keys /\ call[t].ent # NoSlot /\ call[t].ent \in Slots
        /\ call[t].use = UseOf(call[t].ent)
    BY DEF Structure, CallInv, CallType, Preparing
  <1>2. call[t].ent \in DOMAIN entry
    BY <1>1, ReachableIs, ReachableFinite
  <1>3. OwnerInv(t) /\ EntryInv(call[t].ent) /\ entry[call[t].ent] \in EntryType
    BY <1>1, <1>2 DEF Structure, TypeOK
  <1> QED BY <1>1, <1>2, <1>3 DEF OwnerInv, EntryInv, OwnSlot

(* A pending entry becomes ready, evicting ready ones for its value.            *)
LEMMA PendingPublishStep ==
  ASSUME Structure, NEW t \in Threads, PendingPublish(t)
  PROVE  Preserved
  <1> DEFINE s == call[t].ent
             charge == KeyCharge + call[t].value
             k == Returned(call[t].use)
             n == Ready(t, entry[s], charge)
  <1>1. Preparing(call[t]) /\ call[t].pc = "publish"
    BY DEF PendingPublish, Preparing
  <1>2. PICK V \in Victims(s, charge) :
          /\ Unlink(V) /\ payload' = payload - Charges(V \cup {s}) + charge
          /\ call' = [call EXCEPT ![t] = k]
          /\ entry' = [x \in Reachable' |-> IF x = s THEN n ELSE Detached(V)[x]]
          /\ account' = account - Refunds(Detached(V))
    BY DEF PendingPublish, ReturnOwn, Update
  <1>3. UNCHANGED <<capacity, generation>> /\ s \in listed
    BY DEF PendingPublish
  <1>4. /\ TypeOK /\ CallInv(call[t]) /\ s \in Slots /\ s # NoSlot /\ s \in DOMAIN entry
        /\ entry[s] \in EntryType /\ entry[s].bytes = 0 /\ entry[s].closed = FALSE
        /\ call[t].use = UseOf(s) /\ OwnSlot(t, s) /\ call[t].reserved \in Nat
    BY <1>1, <1>3, OwnEntry DEF EntryType
  <1>5. call[t].value \in Nat /\ charge \in Nat
    <2>1. call[t].value \in Nat
      BY <1>4 DEF CallInv, CallType
    <2> QED BY <2>1, CacheAssumption DEF CacheAssumption
  <1> HIDE DEF s, charge
  <1>6. /\ n \in EntryType /\ n.key = entry[s].key /\ n.status = "ready"
        /\ n.charge = charge /\ n.bytes = call[t].reserved /\ n.closed = FALSE
    BY <1>4, <1>5 DEF Ready, EntryType
  <1>7. UseOf(s) \in Slots \cup {NoSlot} /\ (Funded <=> UseOf(s) # NoSlot)
    BY <1>4 DEF UseOf
  <1>8. /\ CallInv(k) /\ ~Preparing(k) /\ k.ent = NoSlot /\ k.use = UseOf(s)
        /\ k.reserved = 0 /\ k.pc = "return"
    BY <1>4, <1>7, ReturnedInv
  <1>9. (Funded => call[t].reserved > 0) /\ (~Funded => call[t].reserved = 0)
    BY <1>1, <1>4 DEF CallInv
  <1>10. /\ V \subseteq listed \ {s} /\ (\A v \in V : entry[v].status = "ready")
         /\ payload - Charges(listed \cap (V \cup {s})) <= MaxPayload - charge
         /\ Cardinality(listed \ (V \cup {s})) < capacity
         /\ Cardinality(listed \ (V \cup {s})) < MaxEntries
    BY VictimsAre
  <1> HIDE DEF k, n
  <1>11. WroteCall(t, k, s, n)
    BY <1>2, <1>4, <1>6, <1>8 DEF WroteCall
  <1>12. /\ listed' = (listed \ V) \cup {s} /\ s \in listed'
         /\ older' \subseteq listed' \X listed'
    <2>1. /\ listed' = listed \ V
          /\ older' = {p \in older : p[1] \notin V /\ p[2] \notin V}
      BY <1>2 DEF Unlink
    <2>2. older \subseteq listed \X listed
      BY <1>4 DEF TypeOK
    <2> QED BY <1>3, <1>10, <2>1, <2>2
  <1>13. WroteList(V, s, n)
    BY <1>3, <1>10, <1>12 DEF WroteList
  <1>14. WroteEntry(k, V, s, n)
    <2>1. /\ n.closed <=> s \notin listed'
          /\ n.status = "pending" => Preparing(k)
          /\ Funded /\ n.status = "ready" => n.bytes > 0
          /\ ~Funded => n.bytes = 0
          /\ s \in listed' => n.status \in {"pending", "ready"}
          /\ s \in DOMAIN entry => n.key = entry[s].key
      BY <1>6, <1>9, <1>12
    <2> QED BY <1>2, <1>6, <2>1, Zenon DEF WroteEntry
  <1>15. WroteAccount(t, k, V, s, n)
    <2> DEFINE f == Refunds(Detached(V))
    <2>1. OldBytes(s) = 0
      BY <1>4 DEF OldBytes
    <2>2. f \in Int
      BY <1>4, DetachedRefunds
    <2>3. account' = account - f
      BY <1>2
    <2> HIDE DEF f
    <2>4. account \in Int => account' = account + (k.reserved - call[t].reserved)
                                                + (n.bytes - OldBytes(s)) - f
      BY <1>4, <1>6, <1>8, <2>1, <2>2, <2>3
    <2> QED BY <2>4 DEF WroteAccount, f
  <1>16. WroteBounds(V, s, n)
    <2> SUFFICES ASSUME Bounded PROVE WroteBounds(V, s, n)
      BY DEF WroteBounds
    <2> DEFINE R == V \cup {s}
    <2>1. listed \cap R = R
      BY <1>3, <1>10
    <2>2. payload \in Nat /\ Charges(R) \in Nat /\ MaxPayload \in Nat
      <3>1. listed \in SUBSET listed /\ R \in SUBSET listed
        BY <1>3, <1>10
      <3> QED BY <1>4, <3>1, ChargesType, CacheAssumption DEF Bounded, CacheAssumption
    <2>3. payload' = payload - Charges(listed \cap R) + (IF s \in listed' THEN n.charge ELSE 0)
      BY <1>2, <1>6, <1>12, <2>1
    <2>4. payload' <= MaxPayload
      <3>1. payload - Charges(R) <= MaxPayload - charge /\ payload' = payload - Charges(R) + charge
        BY <1>2, <1>10, <2>1
      <3> HIDE DEF R
      <3> QED BY <1>5, <2>2, <3>1
    <2>5. IsFiniteSet(listed \ R) /\ Cardinality(listed \ R) \in Nat
      BY <1>4, ReachableFinite, FS_CardinalityType, FS_Subset
    <2>6. Cardinality(listed') = Cardinality(listed \ R) + 1
      <3>1. listed' = (listed \ R) \cup {s} /\ s \notin listed \ R
        BY <1>12
      <3> HIDE DEF R
      <3> QED BY <2>5, <3>1, FS_AddElement
    <2>7. capacity \in Nat /\ MaxEntries \in Nat
      BY <1>4, CacheAssumption DEF CacheAssumption, TypeOK
    <2>8. Cardinality(listed') <= capacity /\ Cardinality(listed') <= MaxEntries
      BY <1>10, <2>5, <2>6, <2>7
    <2> QED BY <2>3, <2>4, <2>8 DEF WroteBounds
  <1>17. Wrote(t, k, V, s, n)
    BY <1>11, <1>13, <1>14 DEF Wrote
  <1> QED BY <1>15, <1>16, <1>17, WroteStep

(* A preparer removes its own entry, which keeps its bytes for those who use it.*)
LEMMA OwnRemoved ==
  ASSUME Structure, NEW t \in Threads, Preparing(call[t]), NEW k, NEW e \in EntryType,
         Unlink({call[t].ent}), UNCHANGED <<capacity, generation, account>>,
         payload' = payload - Charges(listed \cap {call[t].ent}),
         CallInv(k), ~Preparing(k), call' = [call EXCEPT ![t] = k], k.ent = NoSlot,
         k.use = call[t].use,
         entry' = [x \in Reachable' |-> IF x = call[t].ent THEN Closed(e, FALSE) ELSE entry[x]],
         e.key = entry[call[t].ent].key, e.status # "pending",
         k.reserved + e.bytes = call[t].reserved + entry[call[t].ent].bytes,
         Funded /\ k.pc = "return" => e.status = "ready",
         Funded /\ e.status = "ready" => e.bytes > 0, ~Funded => e.bytes = 0
  PROVE  Preserved
  <1> DEFINE s == call[t].ent
             n == Closed(e, FALSE)
  <1>1. /\ TypeOK /\ CallInv(call[t]) /\ s \in Slots /\ s # NoSlot /\ s \in DOMAIN entry
        /\ entry[s] \in EntryType /\ call[t].use = UseOf(s) /\ OwnSlot(t, s)
        /\ call[t].reserved \in Nat
    BY OwnEntry
  <1>2. /\ n \in EntryType /\ n.key = entry[s].key /\ n.status = e.status
        /\ n.bytes = e.bytes /\ n.closed = TRUE
    BY ClosedType
  <1>3. entry' = [x \in Reachable' |-> IF x = s THEN n ELSE Detached({})[x]]
    BY <1>1, DetachedNone
  <1>4. /\ k.use = UseOf(s)
        /\ payload' = payload - Charges(listed \cap {s})
        /\ k.reserved + e.bytes = call[t].reserved + entry[s].bytes
    BY <1>1
  <1>5. /\ listed' = listed \ {s} /\ s \notin listed'
        /\ older' \subseteq listed' \X listed'
    <2>1. /\ listed' = listed \ {s}
          /\ older' = {p \in older : p[1] \notin {s} /\ p[2] \notin {s}}
      BY DEF Unlink
    <2>2. older \subseteq listed \X listed
      BY <1>1 DEF TypeOK
    <2> QED BY <2>1, <2>2
  <1> HIDE DEF s, n
  <1>6. WroteCall(t, k, s, n)
    BY <1>1, <1>2, <1>4 DEF WroteCall
  <1>7. WroteList({}, s, n)
    <2>1. /\ listed' = (listed \ {}) \ {s} /\ {} \subseteq listed \ {s}
          /\ (\A v \in {} : entry[v].status = "ready")
      BY <1>5
    <2> QED BY <1>5, <2>1 DEF WroteList
  <1>8. WroteEntry(k, {}, s, n)
    <2>1. /\ n.closed <=> s \notin listed'
          /\ n.status = "pending" => Preparing(k)
          /\ Funded /\ n.status = "ready" => n.bytes > 0
          /\ ~Funded => n.bytes = 0
          /\ s \in listed' => n.status \in {"pending", "ready"}
          /\ s \in DOMAIN entry => n.key = entry[s].key
      BY <1>2, <1>5
    <2> QED BY <1>2, <1>3, <2>1, Zenon DEF WroteEntry
  <1>9. WroteAccount(t, k, {}, s, n)
    <2>1. /\ OldBytes(s) = entry[s].bytes /\ entry[s].bytes \in Nat /\ e.bytes \in Nat
          /\ k.reserved \in Nat
      BY <1>1 DEF OldBytes, EntryType, CallInv, CallType
    <2>2. Refunds(Detached({})) = 0
      BY <1>1, DetachedNone
    <2>3. n.bytes = e.bytes /\ account' = account
      BY <1>2
    <2> QED BY <1>1, <1>4, <2>1, <2>2, <2>3 DEF WroteAccount
  <1>10. WroteBounds({}, s, n)
    <2> SUFFICES ASSUME Bounded PROVE WroteBounds({}, s, n)
      BY DEF WroteBounds
    <2>1. /\ payload' <= MaxPayload
          /\ Cardinality(listed') <= capacity /\ Cardinality(listed') <= MaxEntries
      BY <1>1, <1>4, <1>5, UnlistedBounds
    <2> DEFINE c == Charges(listed \cap {s})
    <2>2. listed \cap ({} \cup {s}) = listed \cap {s}
      OBVIOUS
    <2>3. c \in Nat /\ payload \in Nat
      <3>1. listed \in SUBSET listed /\ listed \cap {s} \in SUBSET listed
        OBVIOUS
      <3> QED BY <1>1, <3>1, ChargesType DEF Bounded
    <2>4. payload' = payload - c + (IF s \in listed' THEN n.charge ELSE 0)
      <3>1. payload' = payload - c
        BY <1>4
      <3> HIDE DEF c
      <3> QED BY <1>5, <2>3, <3>1
    <2> QED BY <2>1, <2>2, <2>4 DEF WroteBounds
  <1>11. Wrote(t, k, {}, s, n)
    BY <1>6, <1>7, <1>8 DEF Wrote
  <1> QED BY <1>9, <1>10, <1>11, WroteStep

(* A pending entry is removed when it may not be published.                     *)
LEMMA PendingUnlistedStep ==
  ASSUME Structure, NEW t \in Threads, PendingUnlisted(t)
  PROVE  Preserved
  <1> DEFINE s == call[t].ent
             k == Returned(call[t].use)
             e == Ready(t, entry[s], 0)
  <1>1. Preparing(call[t]) /\ call[t].pc = "publish"
    BY DEF PendingUnlisted, Preparing
  <1>2. /\ Unlink({s}) /\ UNCHANGED <<capacity, generation, account>>
        /\ payload' = payload - Charges(listed \cap {s})
        /\ call' = [call EXCEPT ![t] = k]
        /\ entry' = [x \in Reachable' |-> IF x = s THEN Closed(e, FALSE) ELSE entry[x]]
    BY DEF PendingUnlisted, ReturnOwn, Update
  <1>3. /\ CallInv(call[t]) /\ s \in Slots /\ s # NoSlot /\ entry[s] \in EntryType
        /\ entry[s].bytes = 0 /\ call[t].use = UseOf(s) /\ call[t].reserved \in Nat
    BY <1>1, OwnEntry
  <1>4. /\ e \in EntryType /\ e.key = entry[s].key /\ e.status = "ready"
        /\ e.bytes = call[t].reserved
    <2> HIDE DEF s
    <2> QED BY <1>3 DEF Ready, EntryType
  <1>5. UseOf(s) \in Slots \cup {NoSlot} /\ (Funded <=> UseOf(s) # NoSlot)
    BY <1>3 DEF UseOf
  <1>6. /\ CallInv(k) /\ ~Preparing(k) /\ k.ent = NoSlot /\ k.use = call[t].use
        /\ k.reserved = 0 /\ k.pc = "return"
    BY <1>3, <1>5, ReturnedInv
  <1>7. (Funded => call[t].reserved > 0) /\ (~Funded => call[t].reserved = 0)
    BY <1>1, <1>3 DEF CallInv
  <1> HIDE DEF k, e
  <1>8. /\ k.reserved + e.bytes = call[t].reserved + entry[s].bytes
        /\ e.status # "pending" /\ (Funded => e.bytes > 0) /\ (~Funded => e.bytes = 0)
    BY <1>3, <1>4, <1>6, <1>7
  <1> QED BY <1>1, <1>2, <1>4, <1>6, <1>8, OwnRemoved

(* The catch block of a pending preparation.                                    *)
LEMMA FailPendingStep ==
  ASSUME Structure, NEW t \in Threads, FailPending(t)
  PROVE  Preserved
  <1> DEFINE s == call[t].ent
             k == Thrown(t, call[t].why)
             e == [entry[s] EXCEPT !.status = call[t].why]
  <1>1. Preparing(call[t]) /\ call[t].why \in Failures
    BY DEF FailPending, Structure, CallInv
  <1>2. /\ Unlink({s}) /\ UNCHANGED <<capacity, generation, account>>
        /\ payload' = payload - Charges(listed \cap {s})
        /\ call' = [call EXCEPT ![t] = k]
        /\ entry' = [x \in Reachable' |-> IF x = s THEN Closed(e, FALSE) ELSE entry[x]]
    BY DEF FailPending, Update
  <1>3. /\ CallInv(call[t]) /\ entry[s] \in EntryType /\ call[t].key \in Keys
        /\ (~Funded => entry[s].bytes = 0)
    BY <1>1, OwnEntry
  <1>4. /\ e \in EntryType /\ e.key = entry[s].key /\ e.status = call[t].why
        /\ e.bytes = entry[s].bytes
    <2> HIDE DEF s
    <2> QED BY <1>1, <1>3 DEF EntryType
  <1>5. /\ CallInv(k) /\ ~Preparing(k) /\ k.ent = NoSlot /\ k.use = call[t].use
        /\ k.reserved = call[t].reserved /\ k.pc = "unwind"
    BY <1>1, <1>3, ThrownInv
  <1> HIDE DEF k, e
  <1>6. /\ k.reserved + e.bytes = call[t].reserved + entry[s].bytes
        /\ e.status # "pending" /\ e.status # "ready" /\ (~Funded => e.bytes = 0)
    BY <1>1, <1>3, <1>4, <1>5 DEF Failures
  <1> QED BY <1>1, <1>2, <1>4, <1>5, <1>6, OwnRemoved

(* The lock is left while the pending entry is being published.                 *)
LEMMA PublishInterruptedStep ==
  ASSUME Structure, NEW t \in Threads, PublishInterrupted(t)
  PROVE  Preserved
  <1> DEFINE s == call[t].ent
             left(moved) == IF moved THEN 0 ELSE call[t].reserved
             paid(moved) == IF moved THEN call[t].reserved ELSE entry[s].bytes
             next(moved, why) == [call[t] EXCEPT !.pc = "fail", !.why = why, !.value = 0,
                                                 !.reserved = left(moved)]
  <1>1. Preparing(call[t]) /\ call[t].pc = "publish"
    BY DEF PublishInterrupted, Preparing
  <1>2. /\ TypeOK /\ CallInv(call[t]) /\ call[t] \in CallType /\ s \in Slots /\ s # NoSlot
        /\ s \in DOMAIN entry /\ entry[s] \in EntryType /\ entry[s].status = "pending"
        /\ entry[s].key = call[t].key /\ entry[s].bytes = 0
        /\ (entry[s].closed <=> s \notin listed) /\ call[t].use = UseOf(s)
        /\ call[t].reserved \in Nat /\ OwnSlot(t, s)
    BY <1>1, OwnEntry
  <1>3. PICK moved \in BOOLEAN, why \in {"interrupt", "denied"} :
          /\ call' = [call EXCEPT ![t] = next(moved, why)]
          /\ Heap([entry EXCEPT ![s].bytes = paid(moved)])
    BY DEF PublishInterrupted, Update
  <1>4. UNCHANGED <<listed, older, capacity, generation, payload, account>>
    BY DEF PublishInterrupted
  <1> DEFINE l == left(moved)
             b == paid(moved)
             k == next(moved, why)
             n == [entry[s] EXCEPT !.bytes = b]
  <1>5. /\ l \in Nat /\ b \in Nat /\ l + b = call[t].reserved
        /\ ~Funded => l = 0 /\ b = 0
    BY <1>2 DEF CallInv
  <1>6. call' = [call EXCEPT ![t] = k]
    BY <1>3
  <1>7. entry' = [x \in Reachable' |-> [entry EXCEPT ![s].bytes = b][x]]
    BY <1>3 DEF Heap
  <1>8. k = [call[t] EXCEPT !.pc = "fail", !.why = why, !.value = 0, !.reserved = l]
    OBVIOUS
  <1> HIDE DEF l, b, k
  <1>9. k \in CallType
    BY <1>2, <1>3, <1>5, <1>8 DEF CallType, Pcs, Failures
  <1>10. /\ k.pc = "fail" /\ k.why = why /\ k.reserved = l /\ k.foreign = call[t].foreign
         /\ k.ent = s /\ k.use = UseOf(s) /\ k.key = call[t].key /\ k.lane = call[t].lane
    BY <1>2, <1>8 DEF CallType
  <1>11. n \in EntryType /\ n.key = entry[s].key /\ n.status = "pending" /\ n.bytes = b
         /\ n.closed = entry[s].closed /\ n.charge = entry[s].charge
    <2> HIDE DEF s
    <2> QED BY <1>2, <1>5 DEF EntryType
  <1>12. Reachable' \subseteq DOMAIN entry
    <2> SUFFICES ASSUME NEW x \in Reachable' PROVE x \in Reachable
      BY <1>2, ReachableFinite
    <2>1. call \in [Threads -> CallType] /\ listed' = listed
      BY <1>2, <1>4 DEF TypeOK
    <2>2. x # NoSlot /\ (\/ x \in listed \/ x \in {k.ent, k.use}
                          \/ \E u \in Threads \ {t} : x \in {call[u].ent, call[u].use})
      BY <1>6, <2>1, ReachableAfter
    <2>3. {k.ent, k.use} = {call[t].ent, call[t].use}
      BY <1>2, <1>10
    <2> QED BY <2>2, <2>3, ReachableIs
  <1>13. entry' = [x \in Reachable' |-> IF x = s THEN n ELSE Detached({})[x]]
    BY <1>2, <1>7, <1>12, DetachedNone
  <1> HIDE DEF n, s
  <1>14. Preparing(k) /\ CallInv(k)
    BY <1>1, <1>2, <1>3, <1>5, <1>9, <1>10 DEF CallInv, Preparing, Failures
  <1>15. WroteCall(t, k, s, n)
    BY <1>2, <1>6, <1>10, <1>11, <1>14 DEF WroteCall
  <1>16. WroteList({}, s, n)
    <2>1. /\ listed' = (listed \ {}) \ {s} \/ listed' = (listed \ {}) \cup {s}
          /\ {} \subseteq listed \ {s} /\ (\A v \in {} : entry[v].status = "ready")
      BY <1>4
    <2> QED BY <1>2, <1>4, <2>1 DEF WroteList, TypeOK
  <1>17. WroteEntry(k, {}, s, n)
    <2>1. /\ n.closed <=> s \notin listed'
          /\ n.status = "pending" => Preparing(k)
          /\ Funded /\ n.status = "ready" => n.bytes > 0
          /\ ~Funded => n.bytes = 0
          /\ s \in listed' => n.status \in {"pending", "ready"}
          /\ s \in DOMAIN entry => n.key = entry[s].key
      BY <1>2, <1>4, <1>5, <1>11, <1>14
    <2> QED BY <1>11, <1>13, <2>1, Zenon DEF WroteEntry
  <1>18. WroteAccount(t, k, {}, s, n)
    <2>1. OldBytes(s) = 0 /\ Refunds(Detached({})) = 0
      BY <1>2, DetachedNone DEF OldBytes
    <2> QED BY <1>2, <1>4, <1>5, <1>10, <1>11, <2>1 DEF WroteAccount
  <1>19. WroteBounds({}, s, n)
    <2> SUFFICES ASSUME Bounded PROVE WroteBounds({}, s, n)
      BY DEF WroteBounds
    <2> DEFINE c == Charges(listed \cap {s})
               f == [x \in DOMAIN entry |-> entry[x].charge]
    <2>1. listed \cap ({} \cup {s}) = listed \cap {s}
      OBVIOUS
    <2>2. payload \in Nat /\ entry[s].charge \in Nat
      <3>1. listed \in SUBSET listed
        OBVIOUS
      <3> QED BY <1>2, <3>1, ChargesType DEF Bounded, EntryType
    <2>3. c = IF s \in listed THEN entry[s].charge ELSE 0
      <3>1. c = SumFunctionOnSet(f, listed \cap {s})
        BY DEF Charges
      <3>2. f[s] = entry[s].charge
        BY <1>2
      <3> HIDE DEF f, c
      <3>3. SumFunctionOnSet(f, {}) = 0
        BY SumEmpty
      <3>4. CASE s \in listed
        <4>1. listed \cap {s} = {s} /\ {s} \ {s} = {} /\ IsFiniteSet({s}) /\ s \in {s}
          BY <3>4, FS_Singleton
        <4>2. \A x \in {s} : f[x] \in Int
          BY <2>2, <3>2
        <4>3. SumFunctionOnSet(f, {s}) = f[s] + SumFunctionOnSet(f, {s} \ {s})
          BY <4>1, <4>2, SumRemove
        <4>4. c = f[s] + 0
          BY <3>1, <3>3, <4>1, <4>3
        <4> QED BY <2>2, <3>2, <3>4, <4>4
      <3>5. CASE s \notin listed
        <4>1. listed \cap {s} = {}
          BY <3>5
        <4> QED BY <3>1, <3>3, <3>5, <4>1
      <3> QED BY <3>4, <3>5
    <2>4. payload' = payload - c + (IF s \in listed' THEN n.charge ELSE 0)
      <3> HIDE DEF c
      <3> QED BY <1>4, <1>11, <2>2, <2>3
    <2> QED BY <1>4, <2>1, <2>4 DEF WroteBounds, Bounded
  <1>20. Wrote(t, k, {}, s, n)
    BY <1>15, <1>16, <1>17 DEF Wrote
  <1> QED BY <1>18, <1>19, <1>20, WroteStep

--------------------------------------------------------------------------------
(* The ends of a call.                                                          *)

(* Call t moves to k, disposing its Use and its scopes.                         *)
Leaves(t, k) ==
  /\ CallInv(k) /\ k.ent = NoSlot /\ k.use = NoSlot /\ k.reserved = 0 /\ k.pc # "return"
  /\ call[t].ent = NoSlot /\ call' = [call EXCEPT ![t] = k]
  /\ UNCHANGED <<listed, older, capacity, generation, payload>>
  /\ Heap(Left(t))
  /\ account \in Int => account' = account - Refunds(Left(t)) - call[t].reserved

(* What Use.Dispose does to an entry.                                           *)
LEMMA LeftAt ==
  ASSUME TypeOK, NEW t \in Threads, NEW x \in DOMAIN entry
  PROVE  /\ DOMAIN Left(t) = DOMAIN entry /\ Left(t)[x] \in EntryType
         /\ IF x = call[t].use /\ entry[x].closed /\ Users(x) = {t}
            THEN Left(t)[x].bytes = 0
            ELSE Left(t)[x] = entry[x]
  <1> DEFINE last == x = call[t].use /\ entry[x].closed /\ Users(x) = {t}
             r == [entry[x] EXCEPT !.bytes = 0]
  <1>1. entry[x] \in EntryType
    BY DEF TypeOK
  <1>2. Left(t)[x] = (IF last THEN r ELSE entry[x]) /\ DOMAIN Left(t) = DOMAIN entry
    BY DEF Left
  <1>3. r \in EntryType /\ r.bytes = 0
    BY <1>1 DEF EntryType
  <1> HIDE DEF r
  <1> QED BY <1>1, <1>2, <1>3

(* Such a step preserves the invariant: it refunds exactly what becomes garbage.*)
LEMMA LeavesStep ==
  ASSUME Structure, NEW t \in Threads, NEW k, Leaves(t, k)
  PROVE  Preserved
  <1>1. /\ CallInv(k) /\ k.ent = NoSlot /\ k.use = NoSlot /\ k.reserved = 0
        /\ k.pc # "return" /\ call[t].ent = NoSlot /\ call' = [call EXCEPT ![t] = k]
        /\ UNCHANGED <<listed, older, capacity, generation, payload>>
        /\ entry' = [x \in Reachable' |-> Left(t)[x]]
        /\ account \in Int => account' = account - Refunds(Left(t)) - call[t].reserved
    BY DEF Leaves, Heap
  <1>2. /\ TypeOK /\ DOMAIN entry = Reachable /\ call \in [Threads -> CallType]
        /\ CallInv(call[t]) /\ call[t] \in CallType /\ k \in CallType
        /\ ~Preparing(k) /\ ~Preparing(call[t])
    BY <1>1 DEF Structure, TypeOK, CallInv
  <1>3. \A x : x \in Reachable' <=>
          x # NoSlot /\ (x \in listed \/ \E u \in Threads \ {t} : x \in {call[u].ent, call[u].use})
    BY <1>1, <1>2, ReachableAfter
  <1>4. Reachable' \subseteq Reachable
    BY <1>3, ReachableIs
  <1>5. \A x \in Reachable' : Left(t)[x] = entry[x]
    <2> SUFFICES ASSUME NEW x \in Reachable', x = call[t].use, entry[x].closed, Users(x) = {t}
                 PROVE  FALSE
      BY <1>2, <1>4, LeftAt
    <2>1. Funded /\ x \notin listed
      BY <1>2, <1>3, <1>4 DEF CallInv, Structure, EntryInv
    <2>2. PICK u \in Threads \ {t} : x \in {call[u].ent, call[u].use}
      BY <1>3, <2>1
    <2>3. call[u].use = x
      BY <1>3, <2>1, <2>2 DEF Structure, CallInv, UseOf
    <2> QED BY <2>2, <2>3 DEF Users
  <1>6. Heap(entry)
    BY <1>1, <1>5 DEF Heap
  <1>7. Calm(t, k)
    BY <1>1, <1>2, <1>6 DEF Calm
  <1>8. /\ Structure' /\ (Bounded => Bounded') /\ DOMAIN entry' = Reachable'
        /\ \A x \in Reachable' : entry'[x] = entry[x]
    BY <1>7, CalmStep
  <1>9. ASSUME Conserved PROVE Conserved'
    <2> DEFINE f == Left(t)
    <2>1. /\ DOMAIN f = DOMAIN entry /\ IsFiniteSet(DOMAIN f)
          /\ \A x \in DOMAIN f : f[x].bytes \in Int
      <3>1. DOMAIN f = DOMAIN entry
        BY DEF Left
      <3>2. \A x \in DOMAIN entry : f[x] \in EntryType
        BY <1>2, LeftAt
      <3> HIDE DEF f
      <3> QED BY <1>2, <3>1, <3>2, ReachableFinite DEF EntryType
    <2>2. \A x \in DOMAIN f \ DOMAIN entry' : f[x].bytes = 0
      <3> SUFFICES ASSUME NEW x \in Reachable, x \notin Reachable' PROVE f[x].bytes = 0
        BY <1>2, <1>8, <2>1
      <3>1. CASE ~Funded
        <4>1. entry[x].bytes = 0
          BY <1>2, <3>1 DEF Structure, EntryInv
        <4> QED BY <1>2, <4>1, LeftAt
      <3>2. CASE Funded
        <4>1. x # NoSlot /\ x \notin listed /\ \A u \in Threads \ {t} : x # call[u].use
          BY <1>3, ReachableIs
        <4>2. x = call[t].use /\ Users(x) = {t}
          BY <3>2, <4>1, ReachableFunded DEF Users
        <4>3. entry[x].closed
          BY <1>2, <4>1 DEF Structure, EntryInv
        <4> QED BY <1>2, <4>2, <4>3, LeftAt
      <3> QED BY <3>1, <3>2
    <2>3. \A x \in DOMAIN entry' : entry'[x].bytes = f[x].bytes
      BY <1>1, <1>8
    <2> HIDE DEF f
    <2>4. Bytes(entry') = Bytes(f)
      BY <1>2, <1>4, <1>8, <2>1, <2>2, <2>3, BytesDropped
    <2>5. Bytes(f) = Bytes(entry) - Refunds(f) /\ Refunds(f) \in Int
      BY <1>2, <2>1, RefundsAre
    <2>6. /\ Reserved \in Nat /\ Bytes(entry) \in Nat /\ account = Reserved + Bytes(entry)
          /\ call[t].reserved \in Nat
      BY <1>2, <1>9, SumsType, ConservedIs DEF CallType
    <2>7. /\ account' = account + (k.reserved - call[t].reserved)
                                + (Bytes(entry') - Bytes(entry))
          /\ Bytes(entry') \in Int /\ k.reserved \in Int
      BY <1>1, <2>4, <2>5, <2>6 DEF f
    <2> QED BY <1>1, <1>2, <1>9, <2>7, ConservedStep
  <1> QED BY <1>8, <1>9 DEF Preserved

(* The scopes of a failing call roll back.                                      *)
LEMMA UnwindStep ==
  ASSUME Structure, NEW t \in Threads, Unwind(t)
  PROVE  Preserved
  <1> DEFINE k == [call[t] EXCEPT !.pc = "caught", !.use = NoSlot, !.reserved = 0]
  <1>1. CallInv(call[t]) /\ call[t].pc = "unwind" /\ call[t] \in CallType
    BY DEF Structure, Unwind, CallInv
  <1>2. call[t].ent = NoSlot
    BY <1>1 DEF CallInv, Preparing
  <1>3. k \in CallType
    BY <1>1 DEF CallType, Pcs
  <1>4. /\ k.pc = "caught" /\ k.use = NoSlot /\ k.reserved = 0 /\ k.ent = call[t].ent
        /\ k.key = call[t].key /\ k.foreign = call[t].foreign /\ k.why = call[t].why
    BY <1>1 DEF CallType
  <1>5. /\ call' = [call EXCEPT ![t] = k]
        /\ UNCHANGED <<listed, older, capacity, generation, payload>> /\ Heap(Left(t))
        /\ account' = account - Refunds(Left(t)) - call[t].reserved
    BY DEF Unwind, Update
  <1> HIDE DEF k
  <1>6. CallInv(k)
    BY <1>1, <1>2, <1>3, <1>4 DEF CallInv, Preparing
  <1>7. Leaves(t, k)
    BY <1>2, <1>4, <1>5, <1>6 DEF Leaves
  <1> QED BY <1>7, LeavesStep

(* The operation that asked for the value ends.                                 *)
LEMMA FinishStep ==
  ASSUME Structure, NEW t \in Threads, Finish(t)
  PROVE  Preserved
  <1>1. CallInv(call[t]) /\ call[t].pc \in {"return", "failed"}
    BY DEF Structure, Finish
  <1>2. call[t].ent = NoSlot /\ call[t].reserved = 0
    BY <1>1 DEF CallInv, Preparing
  <1>3. CallInv(NewCall) /\ NewCall.pc = "idle" /\ NewCall.ent = NoSlot
        /\ NewCall.use = NoSlot /\ NewCall.reserved = 0
    BY NewCallInv DEF NewCall
  <1> DEFINE r == Refunds(Left(t))
  <1>4. r \in Int
    <2> DEFINE f == Left(t)
    <2>1. DOMAIN f = DOMAIN entry
      BY DEF Left
    <2>2. TypeOK /\ \A x \in DOMAIN entry : f[x] \in EntryType
      BY LeftAt DEF Structure
    <2> HIDE DEF f
    <2>3. \A x \in DOMAIN f : f[x].bytes \in Int
      BY <2>1, <2>2 DEF EntryType
    <2>4. Refunds(f) \in Int
      BY <2>1, <2>2, <2>3, RefundsAre
    <2> QED BY <2>4 DEF f
  <1>5. account' = account - r
    BY DEF Finish
  <1>6. account \in Int => account' = account - Refunds(Left(t)) - call[t].reserved
    <2> HIDE DEF r
    <2>1. account \in Int => account' = account - r - call[t].reserved
      BY <1>2, <1>4, <1>5
    <2> QED BY <2>1 DEF r
  <1>7. Leaves(t, NewCall)
    BY <1>2, <1>3, <1>6 DEF Leaves, Finish, Update
  <1> QED BY <1>7, LeavesStep

--------------------------------------------------------------------------------
(* Invalidation.                                                                *)

Removes(R) ==
  /\ R \in SUBSET listed /\ RemoveAll(R)
  /\ capacity' \in Capacities /\ generation' \in 0..MaxGeneration
  /\ Bounded => Cardinality(listed \ R) <= capacity'

(* After an invalidation: what is reachable, and what it left behind.           *)
LEMMA RemovesReachable ==
  ASSUME Structure, NEW R, Removes(R)
  PROVE  /\ Reachable' \subseteq Reachable /\ DOMAIN entry' = Reachable'
         /\ listed' \subseteq Reachable'
         /\ \A x \in Reachable' : entry'[x] = Detached(R)[x]
         /\ \A x \in Reachable' \cap R : Funded => Users(x) # {}
         /\ \A x \in Reachable \ Reachable' : Funded => x \in R /\ Users(x) = {}
  <1>1. /\ TypeOK /\ R \subseteq listed /\ listed' = listed \ R /\ call' = call
        /\ entry' = [x \in Reachable' |-> Detached(R)[x]]
    BY DEF Structure, Removes, RemoveAll, Unlink, Heap
  <1>2. \A x : x \in Reachable' <=>
          x # NoSlot /\ (x \in listed' \/ \E u \in Threads : x \in {call[u].ent, call[u].use})
    BY <1>1 DEF Reachable
  <1>3. Reachable' \subseteq Reachable
    BY <1>1, <1>2, ReachableIs
  <1>4. listed' \subseteq Reachable'
    BY <1>1, <1>2, CacheAssumption DEF TypeOK, CacheAssumption
  <1>5. ASSUME NEW x \in Reachable' \cap R, Funded PROVE Users(x) # {}
    <2>1. PICK u \in Threads : x \in {call[u].ent, call[u].use}
      BY <1>1, <1>2
    <2>2. call[u].use = x
      BY <1>2, <1>5, <2>1 DEF Structure, CallInv, UseOf
    <2> QED BY <2>2 DEF Users
  <1>6. ASSUME NEW x \in Reachable \ Reachable', Funded PROVE x \in R /\ Users(x) = {}
    <2>1. x # NoSlot /\ (x \in listed \/ \E u \in Threads : x = call[u].use)
      BY <1>6, ReachableFunded
    <2>2. x \notin listed' /\ \A u \in Threads : call[u].use # x
      BY <1>2, <2>1
    <2> QED BY <1>1, <2>1, <2>2 DEF Users
  <1> QED BY <1>1, <1>3, <1>4, <1>5, <1>6

(* It preserves the structure.                                                  *)
LEMMA RemovesStructure ==
  ASSUME Structure, NEW R, Removes(R)
  PROVE  Structure'
  <1>1. /\ TypeOK /\ R \subseteq listed /\ listed' = listed \ R /\ call' = call
        /\ older' = {p \in older : p[1] \notin R /\ p[2] \notin R}
        /\ capacity' \in Capacities /\ generation' \in 0..MaxGeneration
    BY DEF Structure, Removes, RemoveAll, Unlink
  <1>2. /\ Reachable' \subseteq Reachable /\ DOMAIN entry' = Reachable'
        /\ listed' \subseteq Reachable' /\ DOMAIN entry = Reachable
        /\ \A x \in Reachable' : entry'[x] = Detached(R)[x]
        /\ \A x \in Reachable' \cap R : Funded => Users(x) # {}
    BY <1>1, RemovesReachable, ReachableFinite
  <1>3. ASSUME NEW x \in Reachable'
        PROVE  /\ entry'[x] \in EntryType /\ entry'[x].key = entry[x].key
               /\ entry'[x].status = entry[x].status
               /\ x \notin R => entry'[x] = entry[x]
               /\ x \in R => /\ entry'[x].closed = TRUE
                             /\ entry'[x].bytes = IF Users(x) = {} THEN 0 ELSE entry[x].bytes
    <2> DEFINE d == Detached(R)[x]
    <2>1. x \in DOMAIN entry /\ entry'[x] = d
      BY <1>2, <1>3
    <2>2. /\ d \in EntryType /\ d.key = entry[x].key /\ d.status = entry[x].status
          /\ x \notin R => d = entry[x]
          /\ x \in R => /\ d.closed = TRUE
                        /\ d.bytes = IF Users(x) = {} THEN 0 ELSE entry[x].bytes
      BY <1>1, <2>1, DetachedAt
    <2> HIDE DEF d
    <2> QED BY <2>1, <2>2
  <1>4. TypeOK'
    <2>1. entry' \in [Reachable' -> EntryType]
      <3>1. entry' = [x \in Reachable' |-> entry'[x]]
        BY DEF Removes, RemoveAll, Heap
      <3> QED BY <1>3, <3>1
    <2> QED BY <1>1, <2>1 DEF TypeOK
  <1>5. OneEntryPerKey'
    <2>1. \A x \in listed' : x \in listed /\ entry'[x].key = entry[x].key
      BY <1>1, <1>2, <1>3
    <2> QED BY <2>1 DEF Structure, OneEntryPerKey
  <1>6. ASSUME NEW x \in DOMAIN entry' PROVE Kept(x)
    <2>1. x \in Reachable' /\ x \in DOMAIN entry /\ EntryInv(x)
      BY <1>2, <1>6 DEF Structure
    <2>2. CASE x \in R
      BY <1>1, <1>2, <1>3, <2>1, <2>2 DEF Kept, EntryInv
    <2>3. CASE x \notin R
      BY <1>1, <1>3, <2>1, <2>3 DEF Kept, EntryInv
    <2> QED BY <2>2, <2>3
  <1>7. Framed({}, {})
    BY <1>1, <1>6, Zenon DEF Framed
  <1> QED BY <1>4, <1>5, <1>7, StructureStep

(* It preserves the bounds: every charge of a removed entry is returned.        *)
LEMMA RemovesBounded ==
  ASSUME Structure, NEW R, Removes(R), Bounded
  PROVE  Bounded'
  <1> DEFINE f == [x \in DOMAIN entry |-> entry[x].charge]
             g == [x \in DOMAIN entry' |-> entry'[x].charge]
  <1>1. /\ TypeOK /\ R \subseteq listed /\ listed' = listed \ R
        /\ payload' = payload - Charges(R) /\ Cardinality(listed') <= capacity'
    BY DEF Structure, Removes, RemoveAll, Unlink
  <1>2. /\ Cardinality(listed) <= MaxEntries
        /\ payload = Charges(listed) /\ payload <= MaxPayload
    BY DEF Bounded
  <1>3. IsFiniteSet(listed) /\ IsFiniteSet(listed') /\ listed \subseteq DOMAIN entry
    BY <1>1, ReachableFinite, FS_Subset
  <1>4. \A x \in listed' : f[x] = g[x]
    <2> SUFFICES ASSUME NEW x \in listed' PROVE f[x] = g[x]
      OBVIOUS
    <2>1. x \in DOMAIN entry' /\ x \in DOMAIN entry /\ x \notin R
          /\ entry'[x] = Detached(R)[x]
      BY <1>1, <1>3, RemovesReachable
    <2>2. entry'[x] = entry[x]
      BY <1>1, <2>1, DetachedAt
    <2> QED BY <2>1, <2>2
  <1>5. Charges(listed') = SumFunctionOnSet(f, listed')
        /\ Charges(listed)' = SumFunctionOnSet(g, listed')
    BY DEF Charges
  <1>6. Charges(listed)' = Charges(listed')
    <2> HIDE DEF f, g
    <2>1. SumFunctionOnSet(f, listed') = SumFunctionOnSet(g, listed')
      BY <1>3, <1>4, SumSame
    <2> QED BY <1>5, <2>1
  <1>7. Charges(listed \ R) = Charges(listed) - Charges(listed \cap R) /\ listed \cap R = R
    BY <1>1, ChargesRest
  <1>8. Charges(listed) \in Nat /\ Charges(R) \in Nat
    <2>1. listed \in SUBSET listed /\ R \in SUBSET listed
      BY <1>1
    <2> QED BY <1>1, <2>1, ChargesType
  <1>9. payload' = Charges(listed)' /\ payload' <= MaxPayload
    <2>1. Charges(listed') = Charges(listed) - Charges(R)
      BY <1>1, <1>7
    <2>2. MaxPayload \in Nat
      BY CacheAssumption DEF CacheAssumption
    <2> QED BY <1>1, <1>2, <1>6, <1>8, <2>1, <2>2
  <1>10. Cardinality(listed') <= MaxEntries
    <2>1. Cardinality(listed') <= Cardinality(listed)
      BY <1>1, <1>3, FS_Subset
    <2>2. Cardinality(listed') \in Nat /\ Cardinality(listed) \in Nat /\ MaxEntries \in Nat
      BY <1>3, FS_CardinalityType, CacheAssumption DEF CacheAssumption
    <2> QED BY <1>2, <2>1, <2>2
  <1> QED BY <1>1, <1>9, <1>10 DEF Bounded

(* It preserves conservation: what nobody uses is refunded, and then garbage.   *)
LEMMA RemovesConserved ==
  ASSUME Structure, NEW R, Removes(R), Conserved
  PROVE  Conserved'
  <1> DEFINE d == Detached(R)
  <1>1. /\ TypeOK /\ call' = call /\ account' = account - Refunds(d)
    BY DEF Structure, Removes, RemoveAll
  <1>2. /\ Reachable' \subseteq Reachable /\ DOMAIN entry' = Reachable'
        /\ DOMAIN entry = Reachable /\ IsFiniteSet(DOMAIN entry)
        /\ \A x \in Reachable' : entry'[x] = d[x]
        /\ \A x \in Reachable \ Reachable' : Funded => x \in R /\ Users(x) = {}
    BY <1>1, RemovesReachable, ReachableFinite
  <1>3. DOMAIN d = DOMAIN entry /\ \A x \in DOMAIN d : d[x].bytes \in Int
    <2>1. DOMAIN d = DOMAIN entry
      BY DEF Detached
    <2>2. \A x \in DOMAIN entry : d[x] \in EntryType
      BY <1>1, DetachedAt
    <2> HIDE DEF d
    <2> QED BY <2>1, <2>2 DEF EntryType
  <1>4. \A x \in DOMAIN d \ DOMAIN entry' : d[x].bytes = 0
    <2> SUFFICES ASSUME NEW x \in DOMAIN entry, x \notin Reachable' PROVE d[x].bytes = 0
      BY <1>2, <1>3
    <2>1. /\ x \notin R => d[x] = entry[x]
          /\ x \in R => d[x].bytes = IF Users(x) = {} THEN 0 ELSE entry[x].bytes
      BY <1>1, DetachedAt
    <2>2. ~Funded => entry[x].bytes = 0
      BY DEF Structure, EntryInv
    <2>3. Funded => x \in R /\ Users(x) = {}
      BY <1>2
    <2> QED BY <2>1, <2>2, <2>3
  <1> HIDE DEF d
  <1>5. Bytes(entry') = Bytes(d)
    <2>1. DOMAIN entry' \subseteq DOMAIN d /\ IsFiniteSet(DOMAIN d)
          /\ \A x \in DOMAIN entry' : entry'[x].bytes = d[x].bytes
      BY <1>2, <1>3
    <2> QED BY <1>3, <1>4, <2>1, BytesDropped
  <1>6. Bytes(d) = Bytes(entry) - Refunds(d) /\ Refunds(d) \in Int
    BY <1>1, <1>3, RefundsAre
  <1>7. Reserved' = Reserved
    BY <1>1 DEF Reserved
  <1>8. Reserved \in Nat /\ Bytes(entry) \in Nat /\ account = Reserved + Bytes(entry)
    BY <1>1, SumsType, ConservedIs
  <1>9. account' = Reserved' + Bytes(entry')
    BY <1>1, <1>5, <1>6, <1>7, <1>8
  <1>10. Conserved' <=> account' = Reserved' + Bytes(entry')
    BY DEF Conserved, Reserved, Bytes
  <1> QED BY <1>9, <1>10

(* Clear removes the whole list.                                                *)
LEMMA ClearStep ==
  ASSUME Structure, Clear
  PROVE  Preserved
  <1>1. /\ listed \in SUBSET listed /\ RemoveAll(listed)
        /\ generation' = generation + 1 /\ generation < MaxGeneration
        /\ capacity' = capacity /\ capacity \in Capacities /\ generation \in 0..MaxGeneration
    BY DEF Clear, Structure, TypeOK
  <1>2. generation' \in 0..MaxGeneration /\ MaxGeneration \in Nat /\ capacity \in Nat
    BY <1>1, CacheAssumption DEF CacheAssumption
  <1>3. Cardinality(listed \ listed) = 0
    <2>1. listed \ listed = {}
      OBVIOUS
    <2> QED BY <2>1, FS_EmptySet
  <1>4. Removes(listed)
    BY <1>1, <1>2, <1>3 DEF Removes
  <1> QED BY <1>4, RemovesStructure, RemovesBounded, RemovesConserved DEF Preserved

(* The capacity is set.                                                         *)
LEMMA SetCapacityStep ==
  ASSUME Structure, NEW value \in Capacities, SetCapacity(value)
  PROVE  Preserved
  <1>1. generation \in 0..MaxGeneration /\ MaxGeneration \in Nat
        /\ capacity \in Nat /\ value \in Nat
    BY CacheAssumption DEF CacheAssumption, Structure, TypeOK
  <1>2. generation' \in 0..MaxGeneration /\ capacity' = value
    BY <1>1 DEF SetCapacity
  <1>3. PICK R \in Prefixes(listed) : Cardinality(listed \ R) <= value /\ RemoveAll(R)
    BY DEF SetCapacity
  <1>4. R \in SUBSET listed
    BY DEF Prefixes
  <1>5. Removes(R)
    BY <1>2, <1>3, <1>4 DEF Removes
  <1> QED BY <1>5, RemovesStructure, RemovesBounded, RemovesConserved DEF Preserved

--------------------------------------------------------------------------------
(* The invariant.                                                               *)

(* It holds at first.                                                           *)
LEMMA InitIInv ==
  Init => IInv
  <1> SUFFICES ASSUME Init PROVE IInv
    OBVIOUS
  <1>1. /\ listed = {} /\ older = {} /\ capacity \in Capacities /\ generation = 0
        /\ payload = 0 /\ account = 0 /\ entry = [s \in {} |-> 0]
        /\ call = [t \in Threads |-> NewCall]
    BY DEF Init
  <1>2. \A t \in Threads : call[t] = NewCall
    BY <1>1
  <1>3. CallInv(NewCall) /\ NewCall \in CallType
    BY NewCallInv
  <1>4. /\ NewCall.ent = NoSlot /\ NewCall.use = NoSlot /\ NewCall.pc = "idle"
        /\ NewCall.reserved = 0 /\ NewCall.lane = "none"
    BY DEF NewCall
  <1>5. Reachable = {}
    BY <1>1, <1>2, <1>4 DEF Reachable
  <1>6. DOMAIN entry = {}
    BY <1>1
  <1>7. TypeOK
    <2>1. entry \in [Reachable -> EntryType]
      BY <1>1, <1>5
    <2>2. call \in [Threads -> CallType]
      BY <1>1, <1>3
    <2>3. 0 \in 0..MaxGeneration
      BY CacheAssumption DEF CacheAssumption
    <2> QED BY <1>1, <2>1, <2>2, <2>3 DEF TypeOK
  <1>8. Structure
    <2>1. \A t \in Threads : CallInv(call[t]) /\ ~Preparing(call[t]) /\ ~Uses(t)
      BY <1>2, <1>3, <1>4 DEF Preparing, Uses
    <2> QED BY <1>1, <1>6, <1>7, <2>1 DEF Structure, OwnerInv, SoleOwners, OneEntryPerKey
  <1>9. Bounded
    <2> DEFINE f == [s \in DOMAIN entry |-> entry[s].charge]
    <2>1. Charges({}) = SumFunctionOnSet(f, {})
      BY DEF Charges
    <2> HIDE DEF f
    <2>2. Charges(listed) = 0
      BY <1>1, <2>1, SumEmpty
    <2>3. Cardinality(listed) = 0
      BY <1>1, FS_EmptySet
    <2>4. capacity \in Nat /\ MaxEntries \in Nat /\ MaxPayload \in Nat
      BY <1>1, CacheAssumption DEF CacheAssumption
    <2> QED BY <1>1, <2>2, <2>3, <2>4 DEF Bounded
  <1>10. Conserved
    <2> DEFINE f == [t \in Threads |-> call[t].reserved]
               g == [s \in DOMAIN entry |-> entry[s].bytes]
    <2>1. DOMAIN f = Threads /\ DOMAIN g = {} /\ \A t \in Threads : f[t] = 0
      BY <1>2, <1>4, <1>6
    <2>2. Reserved = SumFunctionOnSet(f, Threads) /\ Bytes(entry) = SumFunctionOnSet(g, {})
      BY <2>1 DEF Reserved, Bytes, SumFunction
    <2> HIDE DEF f, g
    <2>3. IsFiniteSet(Threads)
      BY CacheAssumption DEF CacheAssumption
    <2>4. SumFunctionOnSet(f, {}) = SumFunctionOnSet(f, Threads)
      <3> DEFINE P == {}
      <3>1. /\ P \subseteq Threads
            /\ \A t \in P : f[t] \in Int /\ f[t] = f[t]
            /\ \A t \in Threads \ P : f[t] = 0
        BY <2>1
      <3> HIDE DEF P
      <3>2. SumFunctionOnSet(f, P) = SumFunctionOnSet(f, Threads)
        BY <2>3, <3>1, SumSupport
      <3> QED BY <3>2 DEF P
    <2> QED BY <1>1, <2>2, <2>4, SumEmpty, ConservedIs
  <1> QED BY <1>8, <1>9, <1>10 DEF IInv

(* Every step preserves it.                                                     *)
LEMMA NextPreserves ==
  ASSUME Structure, Next
  PROVE  Preserved
  <1>1. ASSUME NEW t \in Threads, Step(t) PROVE Preserved
    BY <1>1, LookupHitStep, LookupPendingStep, LookupLateStep, FactoryStep, FactoryThrowsStep,
       PublishPrivateStep, LateUncachedStep, LateHitStep, LatePublishStep, LateNoRoomStep,
       PendingPublishStep, PendingUnlistedStep, PublishInterruptedStep, FailPendingStep,
       WokenStep, UnwindStep, RecoverStep, PropagateStep, FinishStep, Zenon DEF Step
  <1>2. ASSUME NEW t \in Threads, Interrupted(t) \/ AcquireInterrupted(t) \/ LateInterrupted(t)
        PROVE  Preserved
    BY <1>2, InterruptedStep, AcquireInterruptedStep, LateInterruptedStep
  <1>3. ASSUME NEW t \in Threads, NEW q \in Keys,
               GetOrAdd(t, q) \/ TryGet(t, q) \/ ReadInterrupted(t, q)
        PROVE  Preserved
    BY <1>3, GetOrAddStep, TryGetStep, ReadInterruptedStep
  <1>4. ASSUME NEW value \in Capacities, SetCapacity(value) PROVE Preserved
    BY <1>4, SetCapacityStep
  <1>5. CASE Clear
    BY <1>5, ClearStep
  <1> QED BY <1>1, <1>2, <1>3, <1>4, <1>5, Zenon DEF Next

(* A step of the specification or none preserves the invariant.                 *)
LEMMA StepIInv ==
  IInv /\ [Next]_vars => IInv'
  <1>1. ASSUME IInv, Next PROVE IInv'
    BY <1>1, NextPreserves DEF IInv, Preserved
  <1>2. ASSUME IInv, UNCHANGED vars PROVE IInv'
    <2>1. /\ listed' = listed /\ older' = older /\ capacity' = capacity
          /\ generation' = generation /\ payload' = payload /\ entry' = entry
          /\ call' = call /\ account' = account
      BY <1>2 DEF vars
    <2>2. Structure'
      BY <1>2, <2>1
         DEF IInv, Structure, TypeOK, Reachable, OwnerInv, SoleOwners, EntryInv, Uses,
             OneEntryPerKey
    <2>3. Bounded' /\ Conserved'
      BY <1>2, <2>1 DEF IInv, Bounded, Charges, Conserved
    <2> QED BY <2>2, <2>3 DEF IInv
  <1> QED BY <1>1, <1>2

(* In every reachable state of the cache the invariant holds.                   *)
THEOREM CacheInvariant ==
  Spec => []IInv
  BY InitIInv, StepIInv, PTL DEF Spec

(* Type correctness: what is listed is reachable, nothing is dangling.          *)
THEOREM CacheTypeOK ==
  Spec => []TypeOK
  <1>1. IInv => TypeOK
    BY DEF IInv, Structure
  <1> QED BY <1>1, CacheInvariant, PTL

(* The cache never holds more than its capacity, its metadata bound or its      *)
(* payload maximum, and its payload counter is the sum of the listed charges,   *)
(* through every append, eviction, replacement, removal, Clear and resize.      *)
THEOREM CacheBounded ==
  Spec => []Bounded
  <1>1. IInv => Bounded
    BY DEF IInv
  <1> QED BY <1>1, CacheInvariant, PTL

(* No key is listed twice, however lookups and publications interleave.         *)
THEOREM CacheOneEntryPerKey ==
  Spec => []OneEntryPerKey
  <1>1. IInv => OneEntryPerKey
    BY DEF IInv, Structure
  <1> QED BY <1>1, CacheInvariant, PTL

(* Single flight: a pending entry has exactly one live preparer, and no failed  *)
(* entry is listed.                                                             *)
THEOREM CacheSingleFlight ==
  Spec => []SingleFlight
  <1>1. ASSUME IInv PROVE SingleFlight
    <2>1. ASSUME NEW s \in DOMAIN entry, entry[s].status = "pending"
          PROVE  \E t \in Threads : Preparers(s) = {t}
      <3>1. PICK t \in Threads : Preparing(call[t]) /\ call[t].ent = s
        BY <1>1, <2>1 DEF IInv, Structure, EntryInv
      <3>2. s # NoSlot
        BY <1>1, <2>1, ReachableFinite DEF IInv, Structure
      <3>3. ASSUME NEW u \in Threads
            PROVE  u \in Preparers(s) <=> u = t
        <4>1. u \in Preparers(s) <=> Preparing(call[u]) /\ call[u].ent = s
          <5>1. CallInv(call[u])
            BY <1>1 DEF IInv, Structure
          <5> QED BY <3>2, <5>1 DEF Preparers, CallInv, Preparing
        <4> QED BY <1>1, <3>1, <4>1 DEF IInv, Structure, SoleOwners
      <3>4. Preparers(s) = {t}
        BY <3>3 DEF Preparers
      <3> QED BY <3>4
    <2>2. \A s \in listed : entry[s].status \in {"pending", "ready"}
      BY <1>1, ReachableFinite DEF IInv, Structure, EntryInv
    <2> QED BY <2>1, <2>2 DEF SingleFlight
  <1> QED BY <1>1, CacheInvariant, PTL

(* The bytes of a value in use are not refunded before its use ends, and an     *)
(* entry is closed as soon as it leaves the list.                               *)
THEOREM CacheActiveUseFunded ==
  Spec => []ActiveUseFunded
  <1>1. ASSUME IInv PROVE ActiveUseFunded
    <2>1. ASSUME Funded, NEW t \in Threads, call[t].pc = "return"
          PROVE  entry[call[t].use].bytes > 0
      <3>1. call[t].use \in DOMAIN entry
        BY <1>1, <2>1, ReachableIs, ReachableFinite DEF IInv, Structure, CallInv
      <3> QED BY <1>1, <2>1, <3>1 DEF IInv, Structure, EntryInv, Uses
    <2>2. \A s \in DOMAIN entry : entry[s].closed <=> s \notin listed
      BY <1>1 DEF IInv, Structure, EntryInv
    <2> QED BY <2>1, <2>2 DEF ActiveUseFunded
  <1> QED BY <1>1, CacheInvariant, PTL

(* The host's account is what calls have reserved plus what storages retain, in *)
(* every interleaving of lookups, failures, evictions and invalidations.        *)
THEOREM CacheConserved ==
  Spec => []Conserved
  <1>1. IInv => Conserved
    BY DEF IInv
  <1> QED BY <1>1, CacheInvariant, PTL

--------------------------------------------------------------------------------
(* Template errors.                                                             *)

(* Nobody speaks of a template error but of a faulty key, and who waits for an  *)
(* entry waits for the entry of its own key, where only such an error may be.   *)
ErrorInv ==
  /\ ErrorsOfOwnKey
  /\ \A t \in Threads : call[t].pc = "wait" =>
       /\ entry[call[t].ent].key = call[t].key
       /\ entry[call[t].ent].status = "invalid" => entry[call[t].ent].key \in BadKeys

(* A step keeps the keys, and stores a template error under a faulty key only.  *)
KeepsErrors ==
  \A x \in DOMAIN entry \cap Reachable' :
    /\ entry'[x].key = entry[x].key
    /\ entry'[x].status = "invalid" => entry[x].status = "invalid" \/ entry[x].key \in BadKeys

(* What the step makes the record of a call says of the key's error.            *)
Speaks(k) ==
  /\ k.pc = "wait" => entry'[k.ent].key = k.key /\ entry'[k.ent].status # "invalid"
  /\ k.pc \in {"fail", "unwind", "caught"} /\ k.why = "invalid" => k.key \in BadKeys

(* A step in which whoever changes speaks so keeps the invariant.               *)
LEMMA ErrorFrame ==
  ASSUME Structure, ErrorInv, KeepsErrors,
         \A u \in Threads : call'[u] = call[u] \/ Speaks(call'[u])
  PROVE  ErrorInv'
  <1>1. ASSUME NEW u \in Threads, call'[u].pc = "wait"
        PROVE  /\ entry'[call'[u].ent].key = call'[u].key
               /\ entry'[call'[u].ent].status = "invalid" => entry'[call'[u].ent].key \in BadKeys
    <2>1. CASE call'[u] = call[u]
      <3>1. call[u].ent # NoSlot
        BY <1>1, <2>1 DEF Structure, CallInv
      <3>2. call[u].ent \in DOMAIN entry \cap Reachable'
        BY <2>1, <3>1, ReachableFinite DEF Reachable, Structure
      <3> QED BY <1>1, <2>1, <3>2 DEF ErrorInv, KeepsErrors
    <2>2. CASE Speaks(call'[u])
      BY <1>1, <2>2 DEF Speaks
    <2> QED BY <2>1, <2>2
  <1>2. ASSUME NEW u \in Threads, call'[u].pc \in {"fail", "unwind", "caught"},
               call'[u].why = "invalid"
        PROVE  call'[u].key \in BadKeys
    BY <1>2 DEF ErrorInv, ErrorsOfOwnKey, Speaks
  <1> QED BY <1>1, <1>2 DEF ErrorInv, ErrorsOfOwnKey

(* The same for a step of one call.                                             *)
LEMMA ErrorCall ==
  ASSUME Structure, ErrorInv, KeepsErrors, NEW t \in Threads, NEW k,
         call' = [call EXCEPT ![t] = k], Speaks(k)
  PROVE  ErrorInv'
  <1>1. \A u \in Threads : call'[u] = call[u] \/ call'[u] = k
    BY DEF Structure, TypeOK
  <1>2. \A u \in Threads : call'[u] = call[u] \/ Speaks(call'[u])
    BY <1>1
  <1> QED BY <1>2, ErrorFrame

(* A step that writes at most the entry s, and keys and states of no other.     *)
LEMMA OwnKeeps ==
  ASSUME Structure, NEW s, NEW n, NEW f,
         entry' = [x \in Reachable' |-> IF x = s THEN n ELSE f[x]],
         \A x \in DOMAIN entry : f[x].key = entry[x].key /\ f[x].status = entry[x].status,
         s \in DOMAIN entry =>
           n.key = entry[s].key /\ (n.status = "invalid" => n.key \in BadKeys)
  PROVE  KeepsErrors
  BY DEF KeepsErrors

(* A step that writes no entry but for charges and bytes.                       *)
LEMMA CalmKeeps ==
  ASSUME Structure,
         entry' = entry \/ Heap(entry) \/ \E t \in Threads : Heap(Left(t))
  PROVE  KeepsErrors
  <1>1. ASSUME NEW t \in Threads, NEW x \in DOMAIN entry
        PROVE  Left(t)[x].key = entry[x].key /\ Left(t)[x].status = entry[x].status
    BY DEF Left, Structure, TypeOK, EntryType
  <1> QED BY <1>1 DEF KeepsErrors, Heap

(* A record that waits for nothing and carries no failure.                      *)
Silent(k) == k.pc \notin {"wait", "fail", "unwind", "caught"}

(* It has nothing to say.                                                       *)
LEMMA SilentSpeaks ==
  ASSUME NEW k, Silent(k) PROVE Speaks(k)
  BY DEF Silent, Speaks

(* The record of a call that throws for a reason of its own.                    *)
LEMMA ThrownSpeaks ==
  ASSUME NEW t, NEW why, why # "invalid" \/ call[t].key \in BadKeys, NEW u, NEW r
  PROVE  /\ Speaks(Thrown(t, why)) /\ Speaks([Thrown(t, why) EXCEPT !.foreign = TRUE])
         /\ Speaks([Thrown(t, why) EXCEPT !.use = u, !.reserved = r])
         /\ why # "invalid" => \A q : Speaks([Thrown(t, why) EXCEPT !.key = q, !.use = u])
  BY DEF Thrown, NewCall, Speaks

(* The steps that end or start something without a failure, on their own.       *)
LEMMA SilentErrors ==
  ASSUME Structure, ErrorInv, NEW t \in Threads,
         \/ LookupLate(t) \/ Factory(t) \/ Recover(t) \/ Propagate(t) \/ Finish(t)
         \/ \E q \in Keys : GetOrAdd(t, q)
  PROVE  ErrorInv'
  <1>1. call[t] \in CallType
    BY DEF Structure, TypeOK
  <1>2. KeepsErrors
    BY CalmKeeps DEF LookupLate, Factory, Recover, Propagate, Finish, GetOrAdd
  <1>3. \E k : call' = [call EXCEPT ![t] = k] /\ Silent(k)
    <2>1. CASE LookupLate(t)
      <3>1. \A r : Silent([call[t] EXCEPT !.pc = "prepare", !.lane = "late",
                                          !.gen = generation, !.reserved = r])
        BY <1>1 DEF Silent, CallType
      <3> QED BY <2>1, <3>1 DEF LookupLate, Update
    <2>2. CASE Factory(t)
      <3>1. \A v, r : Silent([call[t] EXCEPT !.pc = "publish", !.value = v, !.reserved = r])
        BY <1>1 DEF Silent, CallType
      <3> QED BY <2>2, <3>1 DEF Factory, Update
    <2>3. CASE Recover(t)
      <3>1. Silent([NewCall EXCEPT !.pc = "prepare", !.key = call[t].key, !.lane = "private"])
        BY DEF Silent, NewCall
      <3> QED BY <2>3, <3>1 DEF Recover, Update
    <2>4. CASE Propagate(t)
      <3>1. Silent([call[t] EXCEPT !.pc = "failed", !.key = NoKey])
        BY <1>1 DEF Silent, CallType
      <3> QED BY <2>4, <3>1 DEF Propagate, Update
    <2>5. CASE Finish(t)
      <3>1. Silent(NewCall)
        BY DEF Silent, NewCall
      <3> QED BY <2>5, <3>1 DEF Finish, Update
    <2>6. CASE \E q \in Keys : GetOrAdd(t, q)
      <3>1. PICK q \in Keys : GetOrAdd(t, q)
        BY <2>6
      <3>2. /\ Silent([NewCall EXCEPT !.pc = "prepare", !.key = q, !.lane = "private"])
            /\ Silent([NewCall EXCEPT !.pc = "lookup", !.key = q])
        BY DEF Silent, NewCall
      <3> QED BY <3>1, <3>2 DEF GetOrAdd, Update
    <2> QED BY <2>1, <2>2, <2>3, <2>4, <2>5, <2>6
  <1> QED BY <1>2, <1>3, SilentSpeaks, ErrorCall

(* A call that ends or starts something with an entry of its own.               *)
LEMMA WrittenErrors ==
  ASSUME Structure, ErrorInv, NEW t \in Threads,
         \/ LookupPending(t) \/ PublishPrivate(t) \/ LateUncached(t) \/ LateNoRoom(t)
         \/ LatePublish(t) \/ PendingPublish(t) \/ PendingUnlisted(t)
  PROVE  ErrorInv'
  <1>1. /\ TypeOK /\ call[t] \in CallType /\ DOMAIN entry = Reachable
        /\ \A V : \A x \in DOMAIN entry :
             Detached(V)[x].key = entry[x].key /\ Detached(V)[x].status = entry[x].status
    BY ReachableFinite, DetachedAt DEF Structure, TypeOK
  <1>2. ASSUME NEW s \in FreeSlots, NEW n, NEW f, f = entry \/ \E V : f = Detached(V),
               entry' = [x \in Reachable' |-> IF x = s THEN n ELSE f[x]]
        PROVE  KeepsErrors
    <2>1. s \notin DOMAIN entry
      BY <1>1 DEF FreeSlots
    <2>2. \A x \in DOMAIN entry : f[x].key = entry[x].key /\ f[x].status = entry[x].status
      BY <1>1, <1>2
    <2> QED BY <1>2, <2>1, <2>2 DEF KeepsErrors
  <1>3. \A u : Silent(Returned(u))
    BY DEF Silent, Returned, NewCall
  <1>4. CASE LookupPending(t)
    <2> DEFINE r == IF Funded THEN KeyCharge ELSE 0
    <2>1. PICK s \in FreeSlots :
            /\ call' = [call EXCEPT ![t] = [call[t] EXCEPT !.pc = "prepare", !.lane = "pending",
                          !.ent = s, !.gen = generation, !.use = UseOf(s), !.reserved = r]]
            /\ entry' = [x \in Reachable' |->
                           IF x = s THEN NewEntry(t, "pending", KeyCharge, 0) ELSE entry[x]]
      BY <1>4 DEF LookupPending, Update
    <2>2. Silent([call[t] EXCEPT !.pc = "prepare", !.lane = "pending", !.ent = s,
                    !.gen = generation, !.use = UseOf(s), !.reserved = r])
      BY <1>1 DEF Silent, CallType
    <2>3. KeepsErrors
      BY <1>2, <2>1
    <2> QED BY <2>1, <2>2, <2>3, SilentSpeaks, ErrorCall
  <1>5. CASE PublishPrivate(t) \/ LateUncached(t) \/ LateNoRoom(t)
    <2>1. \E u : call' = [call EXCEPT ![t] = Returned(u)]
      BY <1>5 DEF PublishPrivate, LateUncached, LateNoRoom, KeepPrivate, Update
    <2>2. \/ entry' = entry
          \/ \E s \in FreeSlots : \E n :
               entry' = [x \in Reachable' |-> IF x = s THEN n ELSE entry[x]]
      BY <1>5 DEF PublishPrivate, LateUncached, LateNoRoom, KeepPrivate
    <2>3. KeepsErrors
      BY <1>2, <2>2, CalmKeeps
    <2> QED BY <1>3, <2>1, <2>3, SilentSpeaks, ErrorCall
  <1>6. CASE LatePublish(t)
    <2> DEFINE charge == KeyCharge + call[t].value
               paid == IF Funded THEN call[t].reserved + KeyCharge ELSE 0
               n == NewEntry(t, "ready", charge, paid)
    <2>1. PICK s \in FreeSlots, V \in Victims(NoSlot, charge) :
            PublishCompleted(t, s, charge, V)
      BY <1>6 DEF LatePublish
    <2>2. /\ call' = [call EXCEPT ![t] = Returned(UseOf(s))]
          /\ entry' = [x \in Reachable' |-> IF x = s THEN n ELSE Detached(V)[x]]
      BY <2>1 DEF PublishCompleted, Update
    <2> HIDE DEF n
    <2>3. KeepsErrors
      BY <1>2, <2>2
    <2> QED BY <1>3, <2>2, <2>3, SilentSpeaks, ErrorCall
  <1>7. CASE PendingPublish(t) \/ PendingUnlisted(t)
    <2> DEFINE s == call[t].ent
    <2>1. Preparing(call[t])
      BY <1>7 DEF PendingPublish, PendingUnlisted, Preparing
    <2>2. s \in DOMAIN entry /\ entry[s] \in EntryType
      BY <2>1, OwnEntry
    <2>3. call' = [call EXCEPT ![t] = Returned(call[t].use)]
      BY <1>7 DEF PendingPublish, PendingUnlisted, ReturnOwn, Update
    <2>4. CASE PendingPublish(t)
      <3>1. PICK c, V : entry' = [x \in Reachable' |->
                                   IF x = s THEN Ready(t, entry[s], c) ELSE Detached(V)[x]]
        BY <2>4 DEF PendingPublish
      <3> DEFINE n == Ready(t, entry[s], c)
      <3>2. n.key = entry[s].key /\ n.status = "ready"
        BY <2>2 DEF Ready, EntryType
      <3>3. entry' = [x \in Reachable' |-> IF x = s THEN n ELSE Detached(V)[x]]
        BY <3>1
      <3> HIDE DEF n, s
      <3>4. KeepsErrors
        BY <1>1, <3>2, <3>3, OwnKeeps
      <3> QED BY <1>3, <2>3, <3>4, SilentSpeaks, ErrorCall
    <2>5. CASE PendingUnlisted(t)
      <3> DEFINE n == Closed(Ready(t, entry[s], 0), FALSE)
      <3>1. entry' = [x \in Reachable' |-> IF x = s THEN n ELSE entry[x]]
        BY <2>5 DEF PendingUnlisted
      <3>2. n.key = entry[s].key /\ n.status = "ready"
        BY <2>2 DEF Closed, Ready, EntryType
      <3> HIDE DEF n, s
      <3>3. KeepsErrors
        BY <3>1, <3>2, OwnKeeps
      <3> QED BY <1>3, <2>3, <3>3, SilentSpeaks, ErrorCall
    <2> QED BY <1>7, <2>4, <2>5
  <1> QED BY <1>4, <1>5, <1>6, <1>7

(* Reading an entry of the key.                                                 *)
LEMMA ReadErrors ==
  ASSUME Structure, ErrorInv, NEW t \in Threads, NEW q, NEW s \in Find(q), Read(t, q, s)
  PROVE  ErrorInv'
  <1>1. /\ TypeOK /\ call \in [Threads -> CallType] /\ s \in listed /\ entry[s].key = q
        /\ s # NoSlot
    BY CacheAssumption DEF Structure, TypeOK, Find, CacheAssumption
  <1>2. KeepsErrors
    BY CalmKeeps DEF Read
  <1>3. CASE entry[s].status = "pending"
    <2> DEFINE k == Waiting(t, q, s)
    <2>1. call' = [call EXCEPT ![t] = k] /\ entry' = [x \in Reachable' |-> entry[x]]
      BY <1>3 DEF Read, Waiting, Update, Heap
    <2>2. k.pc = "wait" /\ k.ent = s /\ k.key = q
      BY DEF Waiting, NewCall
    <2> HIDE DEF k
    <2>3. entry'[s] = entry[s]
      BY <1>1, <2>1, <2>2, ReachableAfter
    <2>4. Speaks(k)
      BY <1>1, <1>3, <2>2, <2>3 DEF Speaks
    <2> QED BY <1>2, <2>1, <2>4, ErrorCall
  <1>4. CASE entry[s].status # "pending"
    <2>1. call' = [call EXCEPT ![t] = Returned(UseOf(s))] /\ Silent(Returned(UseOf(s)))
      BY <1>4 DEF Read, Update, Silent, Returned, NewCall
    <2> QED BY <1>2, <2>1, SilentSpeaks, ErrorCall
  <1> QED BY <1>3, <1>4

(* The failures of a call, its waiting and its unwinding.                       *)
LEMMA FailureErrors ==
  ASSUME Structure, ErrorInv, NEW t \in Threads,
         \/ FactoryThrows(t) \/ Interrupted(t) \/ Woken(t) \/ Unwind(t)
         \/ \E q \in Keys : ReadInterrupted(t, q)
  PROVE  ErrorInv'
  <1>1. call[t] \in CallType /\ CallInv(call[t])
    BY DEF Structure, TypeOK
  <1>2. KeepsErrors
    BY CalmKeeps DEF FactoryThrows, Interrupted, Woken, Unwind, ReadInterrupted
  <1>3. CASE FactoryThrows(t)
    <2>1. PICK why : /\ why # "invalid" \/ call[t].key \in BadKeys
                     /\ \/ call' = [call EXCEPT ![t] = [call[t] EXCEPT !.pc = "fail", !.why = why]]
                        \/ call' = [call EXCEPT ![t] = Thrown(t, why)]
      BY <1>3 DEF FactoryThrows, Update
    <2>2. Speaks([call[t] EXCEPT !.pc = "fail", !.why = why])
      BY <1>1, <2>1 DEF Speaks, CallType
    <2>3. Speaks(Thrown(t, why))
      BY <2>1, ThrownSpeaks
    <2> QED BY <1>2, <2>1, <2>2, <2>3, ErrorCall
  <1>4. CASE Interrupted(t)
    <2>1. PICK why \in {"interrupt", "denied"} : call' = [call EXCEPT ![t] = Thrown(t, why)]
      BY <1>4 DEF Interrupted, Update
    <2> QED BY <1>2, <2>1, ThrownSpeaks, ErrorCall
  <1>5. CASE Woken(t)
    <2> DEFINE status == entry[call[t].ent].status
    <2>1. \/ call' = [call EXCEPT ![t] = Returned(call[t].use)]
          \/ call' = [call EXCEPT ![t] = [Thrown(t, status) EXCEPT !.foreign = TRUE]]
      BY <1>5 DEF Woken, Update
    <2>2. status # "invalid" \/ call[t].key \in BadKeys
      BY <1>5 DEF Woken, ErrorInv
    <2>3. Speaks([Thrown(t, status) EXCEPT !.foreign = TRUE])
      BY <2>2, ThrownSpeaks
    <2>4. Silent(Returned(call[t].use))
      BY DEF Silent, Returned, NewCall
    <2> QED BY <1>2, <2>1, <2>3, <2>4, SilentSpeaks, ErrorCall
  <1>6. CASE Unwind(t)
    <2> DEFINE k == [call[t] EXCEPT !.pc = "caught", !.use = NoSlot, !.reserved = 0]
    <2>1. call' = [call EXCEPT ![t] = k] /\ call[t].pc = "unwind"
      BY <1>6 DEF Unwind, Update
    <2>2. k.pc = "caught" /\ k.why = call[t].why /\ k.key = call[t].key
      BY <1>1 DEF CallType
    <2>3. Speaks(k)
      BY <2>1, <2>2 DEF Speaks, ErrorInv, ErrorsOfOwnKey
    <2> QED BY <1>2, <2>1, <2>3, ErrorCall
  <1>7. ASSUME NEW q \in Keys, ReadInterrupted(t, q) PROVE ErrorInv'
    <2>1. PICK s \in Find(q) : call' = [call EXCEPT ![t] =
            [Thrown(t, "interrupt") EXCEPT !.key = q, !.use = UseOf(s)]]
      BY <1>7 DEF ReadInterrupted, Update
    <2>2. Speaks([Thrown(t, "interrupt") EXCEPT !.key = q, !.use = UseOf(s)])
      BY ThrownSpeaks
    <2> QED BY <1>2, <2>1, <2>2, ErrorCall
  <1> QED BY <1>3, <1>4, <1>5, <1>6, <1>7

(* The failures that settle or close an entry of the call's own.                *)
LEMMA OwnFailureErrors ==
  ASSUME Structure, ErrorInv, NEW t \in Threads,
         \/ PublishInterrupted(t) \/ FailPending(t)
         \/ AcquireInterrupted(t) \/ LateInterrupted(t)
  PROVE  ErrorInv'
  <1>1. call[t] \in CallType /\ CallInv(call[t]) /\ DOMAIN entry = Reachable
    BY ReachableFinite DEF Structure, TypeOK
  <1>2. CASE AcquireInterrupted(t) \/ LateInterrupted(t)
    <2>1. PICK bytes, reserved : ThrowOwning(t, bytes, reserved)
      BY <1>2 DEF AcquireInterrupted, LateInterrupted
    <2>2. PICK s \in FreeSlots, why \in {"interrupt", "denied"} :
            /\ call' = [call EXCEPT ![t] =
                          [Thrown(t, why) EXCEPT !.use = s, !.reserved = reserved]]
            /\ entry' = [x \in Reachable' |->
                 IF x = s THEN Closed(NewEntry(t, why, 0, bytes), FALSE) ELSE entry[x]]
      BY <2>1 DEF ThrowOwning, Update
    <2> DEFINE n == Closed(NewEntry(t, why, 0, bytes), FALSE)
    <2>3. entry' = [x \in Reachable' |-> IF x = s THEN n ELSE entry[x]]
      BY <2>2
    <2> HIDE DEF n
    <2>4. KeepsErrors
      BY <1>1, <2>3, OwnKeeps DEF FreeSlots
    <2>5. Speaks([Thrown(t, why) EXCEPT !.use = s, !.reserved = reserved])
      BY ThrownSpeaks
    <2> QED BY <2>2, <2>4, <2>5, ErrorCall
  <1>3. CASE PublishInterrupted(t) \/ FailPending(t)
    <2> DEFINE s == call[t].ent
    <2>1. Preparing(call[t])
      BY <1>1, <1>3 DEF PublishInterrupted, FailPending, Preparing, CallInv
    <2>2. /\ s \in DOMAIN entry /\ entry[s] \in EntryType /\ entry[s].key = call[t].key
          /\ entry[s].status = "pending"
      BY <2>1, OwnEntry
    <2>3. CASE PublishInterrupted(t)
      <3> DEFINE left(moved) == IF moved THEN 0 ELSE call[t].reserved
                 paid(moved) == IF moved THEN call[t].reserved ELSE entry[s].bytes
      <3>0. PICK moved \in BOOLEAN, why \in {"interrupt", "denied"} :
              /\ call' = [call EXCEPT ![t] = [call[t] EXCEPT
                            !.pc = "fail", !.why = why, !.value = 0, !.reserved = left(moved)]]
              /\ Heap([entry EXCEPT ![s].bytes = paid(moved)])
        BY <2>3 DEF PublishInterrupted, Update
      <3> DEFINE r == left(moved) b == paid(moved)
      <3>1. /\ call' = [call EXCEPT ![t] =
                 [call[t] EXCEPT !.pc = "fail", !.why = why, !.value = 0, !.reserved = r]]
            /\ Heap([entry EXCEPT ![s].bytes = b])
        BY <3>0
      <3> HIDE DEF r, b
      <3>2. Speaks([call[t] EXCEPT !.pc = "fail", !.why = why, !.value = 0, !.reserved = r])
        BY <1>1 DEF Speaks, CallType
      <3>3. KeepsErrors
        BY <2>2, <3>1 DEF KeepsErrors, Heap, EntryType
      <3> QED BY <3>1, <3>2, <3>3, ErrorCall
    <2>4. CASE FailPending(t)
      <3> DEFINE n == Closed([entry[s] EXCEPT !.status = call[t].why], FALSE)
      <3>1. call' = [call EXCEPT ![t] = Thrown(t, call[t].why)] /\ call[t].pc = "fail"
        BY <2>4 DEF FailPending, Update
      <3>2. entry' = [x \in Reachable' |-> IF x = s THEN n ELSE entry[x]]
        BY <2>4 DEF FailPending
      <3>3. n.key = call[t].key /\ n.status = call[t].why
        BY <2>2 DEF Closed, EntryType
      <3>4. call[t].why # "invalid" \/ call[t].key \in BadKeys
        BY <3>1 DEF ErrorInv, ErrorsOfOwnKey
      <3> HIDE DEF n, s
      <3>5. KeepsErrors
        BY <2>2, <3>2, <3>3, <3>4, OwnKeeps
      <3> QED BY <3>1, <3>4, <3>5, ThrownSpeaks, ErrorCall
    <2> QED BY <1>3, <2>3, <2>4
  <1> QED BY <1>2, <1>3

(* Clear and the changes of capacity.                                           *)
LEMMA RemoveErrors ==
  ASSUME Structure, ErrorInv, NEW R, RemoveAll(R)
  PROVE  ErrorInv'
  <1>1. call' = call /\ entry' = [x \in Reachable' |-> Detached(R)[x]]
    BY DEF RemoveAll, Heap
  <1>2. KeepsErrors
    BY <1>1, DetachedAt DEF KeepsErrors, Structure
  <1> QED BY <1>1, <1>2, ErrorFrame

(* No step makes anybody speak of a template error that is not its own.         *)
LEMMA NextErrors ==
  ASSUME Structure, ErrorInv, Next
  PROVE  ErrorInv'
  <1>1. ASSUME NEW t \in Threads, NEW q, \E s \in Find(q) : Read(t, q, s) PROVE ErrorInv'
    BY <1>1, ReadErrors
  <1>2. ASSUME NEW t \in Threads, Step(t) PROVE ErrorInv'
    <2>1. CASE LookupHit(t)
      BY <1>1, <2>1 DEF LookupHit
    <2>2. CASE LateHit(t)
      BY <1>1, <2>2 DEF LateHit
    <2> QED BY <1>2, <2>1, <2>2, SilentErrors, WrittenErrors, FailureErrors, OwnFailureErrors,
               Zenon DEF Step
  <1>3. ASSUME NEW t \in Threads, Interrupted(t) \/ AcquireInterrupted(t) \/ LateInterrupted(t)
        PROVE  ErrorInv'
    BY <1>3, FailureErrors, OwnFailureErrors
  <1>4. ASSUME NEW t \in Threads, NEW q \in Keys,
               GetOrAdd(t, q) \/ TryGet(t, q) \/ ReadInterrupted(t, q)
        PROVE  ErrorInv'
    <2>1. CASE TryGet(t, q)
      BY <1>1, <2>1 DEF TryGet
    <2> QED BY <1>4, <2>1, SilentErrors, FailureErrors
  <1>5. CASE Clear \/ \E value \in Capacities : SetCapacity(value)
    <2>1. \E R : RemoveAll(R)
      BY <1>5 DEF Clear, SetCapacity
    <2> QED BY <2>1, RemoveErrors
  <1> QED BY <1>2, <1>3, <1>4, <1>5, Zenon DEF Next

(* A template error reaches nobody but the callers of the faulty template, with *)
(* any number of callers that share the entries in which it is stored.          *)
THEOREM CacheErrorsOfOwnKey ==
  Spec => []ErrorsOfOwnKey
  <1>1. Init => ErrorInv
    BY DEF Init, ErrorInv, ErrorsOfOwnKey, NewCall
  <1>2. IInv /\ ErrorInv /\ [Next]_vars => ErrorInv'
    <2>1. ASSUME IInv, ErrorInv, UNCHANGED vars PROVE ErrorInv'
      BY <2>1 DEF vars, ErrorInv, ErrorsOfOwnKey
    <2> QED BY <2>1, NextErrors DEF IInv
  <1>3. ErrorInv => ErrorsOfOwnKey
    BY DEF ErrorInv
  <1> QED BY <1>1, <1>2, <1>3, CacheInvariant, PTL DEF Spec

--------------------------------------------------------------------------------
(* What a step may do to the list.                                              *)

(* Of what is listed afterwards, all but X was listed with this key and status. *)
Stays(X) ==
  \A x \in listed' \ X :
    x \in listed /\ entry'[x].key = entry[x].key /\ entry'[x].status = entry[x].status

Stepped(t) ==
  call' = [call EXCEPT ![t] = call'[t]] /\ UNCHANGED <<generation, capacity>>

(* Call t leaves the list alone, and keeps its place and its work, or has no    *)
(* place and ends its work, if it has any.                                      *)
Idles(t) ==
  /\ Stepped(t) /\ listed' = listed /\ Stays({})
  /\ \/ /\ Works(call[t]) /\ Works(call'[t])
        /\ WorkOf(call'[t]) = WorkOf(call[t]) /\ call'[t].ent = call[t].ent
     \/ ~Preparing(call[t]) /\ ~Works(call'[t])

(* Call t misses, and lists an entry of its own unless it has none.             *)
Begins(t) ==
  /\ Stepped(t) /\ call[t].pc = "lookup" /\ Find(call[t].key) = {}
  /\ Works(call'[t]) /\ WorkOf(call'[t]) = <<call[t].key, generation>>
  /\ LET X == {call'[t].ent} \ {NoSlot}
     IN  /\ listed' = listed \cup X /\ Stays(X)
         /\ \A x \in X : x \notin listed /\ entry'[x].status = "pending"

(* Call t publishes the entry s, its own pending one or a new one, and whatever *)
(* leaves the list for it was ready.                                            *)
Publishes(t, s) ==
  /\ Stepped(t) /\ Works(call[t])
  /\ call[t].pc = "publish" /\ call'[t].pc = "return" /\ call[t].gen = generation
  /\ s \in ReadyListed' /\ s \notin ReadyListed /\ entry'[s].key = call[t].key
  /\ Stays({s}) /\ listed \ listed' \subseteq ReadyListed
  /\ \/ Preparing(call[t]) /\ call[t].ent = s /\ s \in listed
     \/ s \notin Reachable /\ Find(call[t].key) = {}

(* Call t takes the entry it prepares from the list.                            *)
Abandons(t, s) ==
  /\ Stepped(t) /\ Preparing(call[t]) /\ call[t].ent = s /\ ~Works(call'[t])
  /\ entry[s].status = "pending" /\ listed' = listed \ {s} /\ Stays({})

Invalidates ==
  /\ UNCHANGED call /\ Stays({})
  /\ \/ listed' = {} /\ generation' = generation + 1 /\ capacity' = capacity
     \/ listed' = listed /\ generation' = generation /\ capacity' > capacity
     \/ generation' = generation + 1 /\ capacity' < capacity

Moves ==
  \/ Invalidates
  \/ \E t \in Threads : Idles(t) \/ Begins(t) \/ \E s \in Slots : Publishes(t, s) \/ Abandons(t, s)

(* What stays adds no ready entry to the list.                                  *)
LEMMA ReadyKept ==
  ASSUME NEW X, Stays(X)
  PROVE  ReadyListed' \subseteq ReadyListed \cup X
  BY DEF ReadyListed, Stays

(* What is listed is reachable, and so is what the heap holds.                  *)
ListedLive == listed \subseteq Reachable /\ DOMAIN entry = Reachable

(* This holds of every well-typed state.                                        *)
LEMMA ListedReachable ==
  TypeOK => ListedLive
  BY CacheAssumption DEF CacheAssumption, TypeOK, Reachable, ListedLive

(* The same after a step.                                                       *)
LEMMA ListedReachableNext ==
  TypeOK' => ListedLive'
  BY ListedReachable, PTL

(* The ends of a call, its waits and the steps without an entry of their own.   *)
LEMMA CalmStays ==
  ASSUME Structure, TypeOK', listed' = listed,
         entry' = entry \/ Heap(entry) \/ \E t \in Threads : Heap(Left(t))
  PROVE  Stays({})
  <1>1. /\ TypeOK /\ DOMAIN entry = Reachable /\ listed \subseteq Reachable
        /\ listed' \subseteq Reachable'
    BY ListedReachable, ListedReachableNext DEF Structure, ListedLive
  <1> SUFFICES ASSUME NEW x \in listed
               PROVE  entry'[x].key = entry[x].key /\ entry'[x].status = entry[x].status
    BY DEF Stays
  <1>2. x \in DOMAIN entry /\ entry[x] \in EntryType /\ x \in Reachable'
    BY <1>1 DEF TypeOK
  <1>3. CASE entry' = entry
    BY <1>3
  <1>4. CASE Heap(entry)
    BY <1>2, <1>4 DEF Heap
  <1>5. ASSUME NEW t \in Threads, Heap(Left(t))
        PROVE  entry'[x].key = entry[x].key /\ entry'[x].status = entry[x].status
    <2>1. Left(t)[x].key = entry[x].key /\ Left(t)[x].status = entry[x].status
      BY <1>2 DEF Left, EntryType
    <2> QED BY <1>2, <1>5, <2>1 DEF Heap
  <1> QED BY <1>3, <1>4, <1>5

(* A call leaves with a storage of its own.                                     *)
LEMMA PrivateStays ==
  ASSUME Structure, TypeOK', listed' = listed, NEW n,
         \/ entry' = entry
         \/ \E s \in FreeSlots :
              entry' = [x \in Reachable' |-> IF x = s THEN n ELSE entry[x]]
  PROVE  Stays({})
  <1>1. listed \subseteq Reachable /\ listed' \subseteq Reachable'
    BY ListedReachable, ListedReachableNext DEF Structure, ListedLive
  <1> QED BY <1>1 DEF Stays, FreeSlots

(* A call that is not yet working, or no longer, and has no place in the list.  *)
LEMMA CalmMoves ==
  ASSUME Structure, TypeOK', NEW t \in Threads, NEW k, call' = [call EXCEPT ![t] = k],
         listed' = listed, UNCHANGED <<generation, capacity>>, Stays({}),
         ~Preparing(call[t]), ~Works(k)
  PROVE  Moves
  <1>1. call'[t] = k
    BY DEF Structure, TypeOK
  <1>2. Idles(t)
    BY <1>1 DEF Idles, Stepped
  <1> QED BY <1>2 DEF Moves

(* Reading an entry, found by a lookup or by a late publication.                *)
LEMMA ReadMoves ==
  ASSUME Structure, TypeOK', NEW t \in Threads, NEW q, NEW s, Read(t, q, s),
         call[t].pc = "publish" => call[t].lane = "late",
         call[t].pc \in {"idle", "lookup", "publish"}
  PROVE  Moves
  <1>1. /\ listed' = listed /\ Heap(entry) /\ UNCHANGED <<generation, capacity>>
        /\ \/ call' = [call EXCEPT ![t] = Returned(UseOf(s))]
           \/ call' = [call EXCEPT ![t] = Waiting(t, q, s)]
    BY DEF Read, Update, Waiting
  <1>2. ~Works(Returned(UseOf(s))) /\ ~Works(Waiting(t, q, s))
    BY DEF Works, Returned, Waiting, NewCall
  <1>3. Stays({}) /\ ~Preparing(call[t])
    BY <1>1, CalmStays DEF Preparing
  <1> QED BY <1>1, <1>2, <1>3, CalmMoves

(* The steps of a call without a place in the list.                             *)
LEMMA EndMoves ==
  ASSUME Structure, TypeOK', NEW t \in Threads,
         \/ Recover(t) \/ Propagate(t) \/ Interrupted(t) \/ Woken(t) \/ Unwind(t) \/ Finish(t)
         \/ \E q \in Keys : GetOrAdd(t, q) \/ ReadInterrupted(t, q)
  PROVE  Moves
  <1>1. /\ listed' = listed /\ UNCHANGED <<generation, capacity>>
        /\ entry' = entry \/ Heap(entry) \/ Heap(Left(t))
    BY DEF Recover, Propagate, Interrupted, Woken, Unwind, Finish, GetOrAdd,
           ReadInterrupted
  <1>2. Stays({})
    BY <1>1, CalmStays
  <1>3. call \in [Threads -> CallType] /\ call[t] \in CallType
    BY DEF Structure, TypeOK
  <1>4. ~Preparing(call[t])
    BY DEF Preparing, Recover, Propagate, Interrupted, Woken, Unwind, Finish, GetOrAdd,
           ReadInterrupted
  <1>5. \E k : call' = [call EXCEPT ![t] = k] /\ ~Works(k)
    <2>1. CASE \E q \in Keys : GetOrAdd(t, q)
      <3>1. PICK q \in Keys : GetOrAdd(t, q)
        BY <2>1
      <3>2. /\ ~Works([NewCall EXCEPT !.pc = "prepare", !.key = q, !.lane = "private"])
            /\ ~Works([NewCall EXCEPT !.pc = "lookup", !.key = q])
        BY DEF Works, NewCall
      <3> QED BY <3>1, <3>2 DEF GetOrAdd, Update
    <2>2. CASE Recover(t)
      <3>1. ~Works([NewCall EXCEPT !.pc = "prepare", !.key = call[t].key, !.lane = "private"])
        BY DEF Works, NewCall
      <3> QED BY <2>2, <3>1 DEF Recover, Update
    <2>3. CASE Propagate(t)
      <3>1. ~Works([call[t] EXCEPT !.pc = "failed", !.key = NoKey])
        BY <1>3 DEF Works, CallType
      <3> QED BY <2>3, <3>1 DEF Propagate, Update
    <2>4. ASSUME NEW why
          PROVE  ~Works(Thrown(t, why)) /\ ~Works([Thrown(t, why) EXCEPT !.foreign = TRUE])
      BY DEF Works, Thrown, NewCall
    <2>5. CASE Interrupted(t)
      BY <2>4, <2>5 DEF Interrupted, Update
    <2>6. CASE Woken(t)
      <3>1. ~Works(Returned(call[t].use))
        BY DEF Works, Returned, NewCall
      <3> QED BY <2>4, <2>6, <3>1 DEF Woken, Update
    <2>7. CASE Unwind(t)
      <3>1. ~Works([call[t] EXCEPT !.pc = "caught", !.use = NoSlot, !.reserved = 0])
        BY <1>3 DEF Works, CallType
      <3> QED BY <2>7, <3>1 DEF Unwind, Update
    <2>8. CASE Finish(t)
      <3>1. ~Works(NewCall)
        BY DEF Works, NewCall
      <3> QED BY <2>8, <3>1 DEF Finish, Update
    <2>9. CASE \E q \in Keys : ReadInterrupted(t, q)
      <3>0. PICK q \in Keys : ReadInterrupted(t, q)
        BY <2>9
      <3>1. PICK s \in Find(q) : call' = [call EXCEPT ![t] =
              [Thrown(t, "interrupt") EXCEPT !.key = q, !.use = UseOf(s)]]
        BY <3>0 DEF ReadInterrupted, Update
      <3>2. ~Works([Thrown(t, "interrupt") EXCEPT !.key = q, !.use = UseOf(s)])
        BY DEF Works, Thrown, NewCall
      <3> QED BY <3>1, <3>2
    <2> QED BY <2>1, <2>2, <2>3, <2>5, <2>6, <2>7, <2>8, <2>9
  <1> QED BY <1>1, <1>2, <1>4, <1>5, CalmMoves

(* The factory returns or throws: the work goes on, or ends outside the list.   *)
LEMMA FactoryMoves ==
  ASSUME Structure, TypeOK', NEW t \in Threads, Factory(t) \/ FactoryThrows(t)
  PROVE  Moves
  <1>1. /\ listed' = listed /\ UNCHANGED <<generation, capacity>> /\ entry' = entry
        /\ call[t].pc = "prepare"
    BY DEF Factory, FactoryThrows
  <1>2. Stays({})
    BY <1>1, CalmStays
  <1>3. call \in [Threads -> CallType] /\ call[t] \in CallType
    BY DEF Structure, TypeOK
  <1>4. PICK k : /\ call' = [call EXCEPT ![t] = k]
                 /\ \/ k.pc \in {"publish", "fail"} /\ k.lane = call[t].lane /\ k.key = call[t].key
                       /\ k.gen = call[t].gen /\ k.ent = call[t].ent
                    \/ ~Works(k) /\ call[t].lane # "pending"
    <2>1. CASE Factory(t)
      <3>1. PICK v, paid : call' = [call EXCEPT ![t] =
                             [call[t] EXCEPT !.pc = "publish", !.value = v, !.reserved = @ + paid]]
        BY <2>1 DEF Factory, Update
      <3> DEFINE k == [call[t] EXCEPT !.pc = "publish", !.value = v, !.reserved = @ + paid]
      <3>2. /\ k.pc = "publish" /\ k.lane = call[t].lane /\ k.key = call[t].key
            /\ k.gen = call[t].gen /\ k.ent = call[t].ent
        BY <1>3 DEF CallType
      <3> QED BY <3>1, <3>2
    <2>2. CASE FactoryThrows(t)
      <3>1. PICK why : call' = [call EXCEPT ![t] =
                         IF call[t].lane = "pending"
                         THEN [call[t] EXCEPT !.pc = "fail", !.why = why]
                         ELSE Thrown(t, why)]
        BY <2>2 DEF FactoryThrows, Update
      <3> DEFINE k == [call[t] EXCEPT !.pc = "fail", !.why = why]
      <3>2. /\ k.pc = "fail" /\ k.lane = call[t].lane /\ k.key = call[t].key
            /\ k.gen = call[t].gen /\ k.ent = call[t].ent
        BY <1>3 DEF CallType
      <3>3. ~Works(Thrown(t, why))
        BY DEF Works, Thrown, NewCall
      <3> QED BY <3>1, <3>2, <3>3
    <2> QED BY <2>1, <2>2
  <1>5. call'[t] = k
    BY <1>3, <1>4
  <1>6. CASE Works(k)
    <2>1. Works(call[t]) /\ WorkOf(k) = WorkOf(call[t]) /\ k.ent = call[t].ent
      BY <1>1, <1>4, <1>6 DEF Works, WorkOf
    <2>2. Idles(t)
      BY <1>1, <1>2, <1>4, <1>5, <1>6, <2>1 DEF Idles, Stepped
    <2> QED BY <2>2 DEF Moves
  <1>7. CASE ~Works(k)
    <2>1. ~Preparing(call[t])
      BY <1>4, <1>7 DEF Works, Preparing
    <2> QED BY <1>1, <1>2, <1>4, <1>7, <2>1, CalmMoves
  <1> QED BY <1>6, <1>7

(* A call keeps its value for itself.                                           *)
LEMMA PrivateMoves ==
  ASSUME Structure, TypeOK', NEW t \in Threads,
         PublishPrivate(t) \/ LateUncached(t) \/ LateNoRoom(t)
  PROVE  Moves
  <1>1. PICK n :
          \/ entry' = entry
          \/ \E s \in FreeSlots :
               entry' = [x \in Reachable' |-> IF x = s THEN n ELSE entry[x]]
    BY DEF PublishPrivate, LateUncached, LateNoRoom, KeepPrivate
  <1>2. /\ listed' = listed /\ UNCHANGED <<generation, capacity>> /\ ~Preparing(call[t])
        /\ \E u : call' = [call EXCEPT ![t] = Returned(u)]
    BY DEF PublishPrivate, LateUncached, LateNoRoom, KeepPrivate, Update, Preparing
  <1>3. \A u : ~Works(Returned(u))
    BY DEF Works, Returned, NewCall
  <1>4. Stays({})
    BY <1>1, <1>2, PrivateStays
  <1> QED BY <1>2, <1>3, <1>4, CalmMoves

(* A call fails after an Acquire.                                               *)
LEMMA ThrowMoves ==
  ASSUME Structure, TypeOK', NEW t \in Threads, AcquireInterrupted(t) \/ LateInterrupted(t)
  PROVE  Moves
  <1>1. ~Preparing(call[t]) /\ \E bytes, reserved : ThrowOwning(t, bytes, reserved)
    BY DEF AcquireInterrupted, LateInterrupted, Preparing
  <1>2. PICK bytes, reserved : ThrowOwning(t, bytes, reserved)
    BY <1>1
  <1>3. PICK s \in FreeSlots, why \in {"interrupt", "denied"} :
          /\ call' = [call EXCEPT ![t] = [Thrown(t, why) EXCEPT !.use = s, !.reserved = reserved]]
          /\ entry' = [x \in Reachable' |->
               IF x = s THEN Closed(NewEntry(t, why, 0, bytes), FALSE) ELSE entry[x]]
    BY <1>2 DEF ThrowOwning, Update
  <1> DEFINE n == Closed(NewEntry(t, why, 0, bytes), FALSE)
  <1>4. listed' = listed /\ UNCHANGED <<generation, capacity>>
    BY <1>2 DEF ThrowOwning
  <1>5. ~Works([Thrown(t, why) EXCEPT !.use = s, !.reserved = reserved])
    BY DEF Works, Thrown, NewCall
  <1>6. entry' = [x \in Reachable' |-> IF x = s THEN n ELSE entry[x]]
    BY <1>3
  <1> HIDE DEF n
  <1>7. Stays({})
    BY <1>4, <1>6, PrivateStays
  <1> QED BY <1>1, <1>3, <1>4, <1>5, <1>7, CalmMoves

(* A miss in a full cache begins work without a place.                          *)
LEMMA LookupLateMoves ==
  ASSUME Structure, TypeOK', NEW t \in Threads, LookupLate(t)
  PROVE  Moves
  <1> DEFINE late(r) == [call[t] EXCEPT !.pc = "prepare", !.lane = "late",
                                        !.gen = generation, !.reserved = r]
  <1>1. /\ call[t].pc = "lookup" /\ Find(call[t].key) = {} /\ listed' = listed /\ entry' = entry
        /\ UNCHANGED <<generation, capacity>>
    BY DEF LookupLate
  <1>2. PICK r : call' = [call EXCEPT ![t] = late(r)]
    BY DEF LookupLate, Update
  <1> DEFINE k == late(r)
  <1>3. call \in [Threads -> CallType] /\ call[t] \in CallType /\ CallInv(call[t])
    BY DEF Structure, TypeOK
  <1>4. /\ k.pc = "prepare" /\ k.lane = "late" /\ k.gen = generation /\ k.key = call[t].key
        /\ k.ent = call[t].ent
    BY <1>3 DEF CallType
  <1>5. call' = [call EXCEPT ![t] = k]
    BY <1>2
  <1> HIDE DEF k
  <1>6. call'[t] = k /\ k.ent = NoSlot
    BY <1>1, <1>3, <1>4, <1>5 DEF CallInv, Preparing
  <1>7. Works(k) /\ WorkOf(k) = <<call[t].key, generation>>
    BY <1>4 DEF Works, WorkOf
  <1>8. Stays({})
    BY <1>1, CalmStays
  <1>9. Begins(t)
    BY <1>1, <1>5, <1>6, <1>7, <1>8 DEF Begins, Stepped
  <1> QED BY <1>9 DEF Moves

(* A miss with room begins work with a pending entry.                           *)
LEMMA LookupPendingMoves ==
  ASSUME Structure, TypeOK', NEW t \in Threads, LookupPending(t)
  PROVE  Moves
  <1> DEFINE pending(s) == [call[t] EXCEPT !.pc = "prepare", !.lane = "pending", !.ent = s,
                              !.gen = generation, !.use = UseOf(s),
                              !.reserved = IF Funded THEN KeyCharge ELSE 0]
  <1>1. PICK s \in FreeSlots :
          /\ Relink({}, s) /\ call' = [call EXCEPT ![t] = pending(s)]
          /\ entry' = [x \in Reachable' |->
                         IF x = s THEN NewEntry(t, "pending", KeyCharge, 0) ELSE entry[x]]
    BY DEF LookupPending, Update
  <1>2. /\ call[t].pc = "lookup" /\ Find(call[t].key) = {} /\ listed' = listed \cup {s}
        /\ UNCHANGED <<generation, capacity>>
    BY <1>1 DEF LookupPending, Relink
  <1>3. /\ call \in [Threads -> CallType] /\ call[t] \in CallType
        /\ listed \subseteq Reachable /\ listed' \subseteq Reachable'
    BY ListedReachable, ListedReachableNext DEF Structure, TypeOK, ListedLive
  <1>4. s \notin listed /\ s # NoSlot
    BY <1>1, <1>3, CacheAssumption DEF FreeSlots, CacheAssumption
  <1> DEFINE k == pending(s)
  <1>5. /\ k.pc = "prepare" /\ k.lane = "pending" /\ k.gen = generation /\ k.key = call[t].key
        /\ k.ent = s
    BY <1>3 DEF CallType
  <1>6. call' = [call EXCEPT ![t] = k]
    BY <1>1
  <1> HIDE DEF k
  <1>7. call'[t] = k /\ {k.ent} \ {NoSlot} = {s}
    BY <1>3, <1>4, <1>5, <1>6
  <1>8. Works(k) /\ WorkOf(k) = <<call[t].key, generation>>
    BY <1>5 DEF Works, WorkOf
  <1>9. entry'[s].status = "pending" /\ \A x \in listed' \ {s} : entry'[x] = entry[x]
    BY <1>1, <1>2, <1>3 DEF NewEntry
  <1>10. Stays({s})
    BY <1>2, <1>9 DEF Stays
  <1>11. Begins(t)
    BY <1>2, <1>4, <1>6, <1>7, <1>8, <1>9, <1>10 DEF Begins, Stepped
  <1> QED BY <1>11 DEF Moves

(* The late lane publishes.                                                     *)
LEMMA LatePublishMoves ==
  ASSUME Structure, TypeOK', NEW t \in Threads, LatePublish(t)
  PROVE  Moves
  <1> DEFINE charge == KeyCharge + call[t].value
             paid == IF Funded THEN call[t].reserved + KeyCharge ELSE 0
  <1>1. PICK s \in FreeSlots, V \in Victims(NoSlot, charge) : PublishCompleted(t, s, charge, V)
    BY DEF LatePublish
  <1>2. /\ listed' = (listed \ V) \cup {s} /\ call' = [call EXCEPT ![t] = Returned(UseOf(s))]
        /\ entry' = [x \in Reachable' |->
                       IF x = s THEN NewEntry(t, "ready", charge, paid) ELSE Detached(V)[x]]
    BY <1>1 DEF PublishCompleted, Relink, Update
  <1>3. /\ call[t].pc = "publish" /\ call[t].gen = generation /\ Works(call[t])
        /\ Find(call[t].key) = {} /\ UNCHANGED <<generation, capacity>>
    BY DEF LatePublish, LateDeclines, Current, Works
  <1>4. /\ TypeOK /\ call \in [Threads -> CallType] /\ DOMAIN entry = Reachable
        /\ listed \subseteq Reachable /\ s \notin Reachable /\ s \in Slots
        /\ listed' \subseteq Reachable'
    BY <1>1, ListedReachable, ListedReachableNext DEF Structure, TypeOK, FreeSlots, ListedLive
  <1>5. call'[t] = Returned(UseOf(s)) /\ call'[t].pc = "return"
    BY <1>2, <1>4 DEF Returned, NewCall
  <1>6. entry'[s].status = "ready" /\ entry'[s].key = call[t].key
    BY <1>2, <1>4 DEF NewEntry
  <1>7. Stays({s})
    <2> SUFFICES ASSUME NEW x \in listed', x # s
                 PROVE  /\ x \in listed /\ entry'[x].key = entry[x].key
                        /\ entry'[x].status = entry[x].status
      BY DEF Stays
    <2>1. x \in listed /\ x \in DOMAIN entry /\ entry'[x] = Detached(V)[x]
      BY <1>2, <1>4
    <2> QED BY <1>4, <2>1, DetachedAt
  <1>8. listed \ listed' \subseteq ReadyListed
    <2> HIDE DEF charge
    <2>1. V \subseteq listed \ {NoSlot} /\ \A v \in V : entry[v].status = "ready"
      BY VictimsAre
    <2> QED BY <1>2, <2>1 DEF ReadyListed
  <1>9. Stepped(t)
    BY <1>2, <1>3, <1>5 DEF Stepped
  <1>10. s \in ReadyListed' /\ s \notin ReadyListed
    BY <1>2, <1>4, <1>6 DEF ReadyListed
  <1>11. Publishes(t, s)
    BY <1>3, <1>4, <1>5, <1>6, <1>7, <1>8, <1>9, <1>10 DEF Publishes
  <1> QED BY <1>4, <1>11 DEF Moves

(* The preparer of a pending entry publishes.                                   *)
LEMMA PendingPublishMoves ==
  ASSUME Structure, TypeOK', NEW t \in Threads, PendingPublish(t)
  PROVE  Moves
  <1> DEFINE s == call[t].ent
             charge == KeyCharge + call[t].value
             n == Ready(t, entry[s], charge)
  <1>1. /\ Preparing(call[t]) /\ call[t].pc = "publish" /\ s \in listed /\ Works(call[t])
        /\ call[t].gen = generation /\ UNCHANGED <<generation, capacity>>
    BY DEF PendingPublish, Preparing, Current, Works
  <1>2. PICK V \in Victims(s, charge) :
          /\ Unlink(V) /\ call' = [call EXCEPT ![t] = Returned(call[t].use)]
          /\ entry' = [x \in Reachable' |-> IF x = s THEN n ELSE Detached(V)[x]]
    BY DEF PendingPublish, ReturnOwn, Update
  <1>3. /\ TypeOK /\ s \in Slots /\ entry[s].key = call[t].key /\ entry[s].status = "pending"
        /\ entry[s] \in EntryType
    BY <1>1, OwnEntry
  <1>4. /\ call \in [Threads -> CallType] /\ DOMAIN entry = Reachable
        /\ listed \subseteq Reachable /\ listed' = listed \ V /\ listed' \subseteq Reachable'
    BY <1>2, <1>3, ListedReachable, ListedReachableNext DEF TypeOK, Unlink, ListedLive
  <1>5. n.status = "ready" /\ n.key = call[t].key
    <2> HIDE DEF s, charge
    <2> QED BY <1>3 DEF Ready, EntryType
  <1> HIDE DEF n, charge
  <1>6. call'[t] = Returned(call[t].use) /\ call'[t].pc = "return"
    BY <1>2, <1>4 DEF Returned, NewCall
  <1>7. V \subseteq listed \ {s} /\ \A v \in V : entry[v].status = "ready"
    BY VictimsAre
  <1>8. s \in listed' /\ entry'[s] = n
    BY <1>1, <1>2, <1>4, <1>7
  <1>9. Stays({s})
    <2> HIDE DEF s
    <2> SUFFICES ASSUME NEW x \in listed', x # s
                 PROVE  /\ x \in listed /\ entry'[x].key = entry[x].key
                        /\ entry'[x].status = entry[x].status
      BY DEF Stays
    <2>1. x \in listed /\ x \in DOMAIN entry /\ entry'[x] = Detached(V)[x]
      BY <1>2, <1>4
    <2> QED BY <1>3, <2>1, DetachedAt
  <1>10. listed \ listed' \subseteq ReadyListed
    BY <1>4, <1>7 DEF ReadyListed
  <1>11. Stepped(t)
    BY <1>1, <1>2, <1>6 DEF Stepped
  <1>12. s \in ReadyListed' /\ s \notin ReadyListed
    BY <1>3, <1>5, <1>8 DEF ReadyListed
  <1>13. Publishes(t, s)
    BY <1>1, <1>5, <1>6, <1>8, <1>9, <1>10, <1>11, <1>12 DEF Publishes
  <1> QED BY <1>3, <1>13 DEF Moves

(* A preparer gives its entry up.                                               *)
LEMMA AbandonMoves ==
  ASSUME Structure, TypeOK', NEW t \in Threads, PendingUnlisted(t) \/ FailPending(t)
  PROVE  Moves
  <1> DEFINE s == call[t].ent
             k == IF PendingUnlisted(t) THEN Returned(call[t].use) ELSE Thrown(t, call[t].why)
  <1>1. Preparing(call[t])
    BY DEF PendingUnlisted, FailPending, Preparing, Structure, CallInv
  <1>2. /\ listed' = listed \ {s} /\ call' = [call EXCEPT ![t] = k]
        /\ \A x \in Reachable' \ {s} : entry'[x] = entry[x]
        /\ UNCHANGED <<generation, capacity>>
    BY DEF PendingUnlisted, FailPending, Unlink, ReturnOwn, Update
  <1>3. /\ TypeOK /\ s \in Slots /\ entry[s].status = "pending" /\ call \in [Threads -> CallType]
    BY <1>1, OwnEntry DEF TypeOK
  <1>4. ~Works(k)
    BY DEF Returned, Thrown, NewCall, Works
  <1> HIDE DEF k
  <1>5. call'[t] = k
    BY <1>2, <1>3
  <1>6. Stays({})
    BY <1>2, ListedReachableNext DEF Stays, ListedLive
  <1>7. Abandons(t, s)
    BY <1>1, <1>2, <1>3, <1>4, <1>5, <1>6 DEF Abandons, Stepped
  <1> QED BY <1>3, <1>7 DEF Moves

(* A preparer leaves the publication lock, its entry where it was.              *)
LEMMA InterruptedMoves ==
  ASSUME Structure, TypeOK', NEW t \in Threads, PublishInterrupted(t)
  PROVE  Moves
  <1> DEFINE s == call[t].ent
             f(b) == [entry EXCEPT ![s].bytes = b]
             failed(why, r) ==
               [call[t] EXCEPT !.pc = "fail", !.why = why, !.value = 0, !.reserved = r]
  <1>1. /\ Preparing(call[t]) /\ call[t].lane = "pending" /\ Works(call[t]) /\ listed' = listed
        /\ UNCHANGED <<generation, capacity>>
    BY DEF PublishInterrupted, Preparing, Works
  <1>2. /\ s \in DOMAIN entry /\ entry[s] \in EntryType /\ TypeOK /\ call[t] \in CallType
        /\ call \in [Threads -> CallType]
    BY <1>1, OwnEntry DEF TypeOK
  <1>3. PICK moved \in BOOLEAN, why \in {"interrupt", "denied"} :
          /\ call' = [call EXCEPT ![t] = [call[t] EXCEPT !.pc = "fail", !.why = why, !.value = 0,
                                              !.reserved = IF moved THEN 0 ELSE @]]
          /\ Heap([entry EXCEPT ![s].bytes = IF moved THEN call[t].reserved ELSE @])
    BY DEF PublishInterrupted, Update
  <1> DEFINE b == IF moved THEN call[t].reserved ELSE entry[s].bytes
             r == IF moved THEN 0 ELSE call[t].reserved
             k == failed(why, r)
  <1>4. entry' = [x \in Reachable' |-> f(b)[x]] /\ call' = [call EXCEPT ![t] = k]
    BY <1>3 DEF Heap
  <1> HIDE DEF b, r
  <1>5. \A x \in DOMAIN entry : f(b)[x].status = entry[x].status /\ f(b)[x].key = entry[x].key
    BY <1>2 DEF EntryType
  <1>6. /\ k.pc = "fail" /\ k.lane = call[t].lane /\ k.key = call[t].key
        /\ k.gen = call[t].gen /\ k.ent = call[t].ent
    BY <1>2 DEF CallType
  <1> HIDE DEF k
  <1>7. Works(k) /\ WorkOf(k) = WorkOf(call[t]) /\ call'[t] = k
    BY <1>1, <1>2, <1>4, <1>6 DEF Works, WorkOf
  <1>8. Stays({})
    BY <1>1, <1>2, <1>4, <1>5, ListedReachable, ListedReachableNext DEF Stays, ListedLive
  <1>9. Idles(t)
    BY <1>1, <1>4, <1>6, <1>7, <1>8 DEF Idles, Stepped
  <1> QED BY <1>9 DEF Moves

(* An invalidation removes entries, and only under a new generation: a larger   *)
(* capacity removes none.                                                       *)
LEMMA InvalidationMoves ==
  ASSUME IInv, TypeOK', Clear \/ \E value \in Capacities : SetCapacity(value)
  PROVE  Moves
  <1>1. TypeOK /\ Structure /\ generation \in 0..MaxGeneration /\ capacity \in Nat
    BY CacheAssumption DEF IInv, Structure, TypeOK, CacheAssumption
  <1>2. PICK R \in SUBSET listed :
          /\ RemoveAll(R)
          /\ \/ R = listed /\ generation' = generation + 1 /\ capacity' = capacity
             \/ R = {} /\ generation' = generation /\ capacity' > capacity
             \/ generation' = generation + 1 /\ capacity' < capacity
    <2>1. CASE Clear
      BY <2>1 DEF Clear
    <2>2. ASSUME NEW value \in Capacities, SetCapacity(value)
          PROVE  \E R \in SUBSET listed :
                   /\ RemoveAll(R)
                   /\ \/ R = {} /\ generation' = generation /\ capacity' > capacity
                      \/ generation' = generation + 1 /\ capacity' < capacity
      <3>1. PICK R \in Prefixes(listed) :
              /\ \A W \in Prefixes(listed) : Cardinality(listed \ W) <= value => R \subseteq W
              /\ RemoveAll(R)
        BY <2>2 DEF SetCapacity
      <3>2. R \in SUBSET listed /\ {} \in Prefixes(listed) /\ listed \ {} = listed
        BY DEF Prefixes
      <3>3. /\ value \in Nat /\ value # capacity /\ capacity' = value
            /\ generation' = IF value < capacity THEN generation + 1 ELSE generation
        BY <2>2, CacheAssumption DEF CacheAssumption, SetCapacity
      <3>4. ASSUME ~(value < capacity) PROVE R = {} /\ value > capacity
        <4>1. Cardinality(listed) <= capacity /\ Cardinality(listed) \in Nat
          BY <1>1, ReachableFinite, FS_CardinalityType DEF IInv, Bounded
        <4>2. Cardinality(listed \ {}) <= value
          BY <1>1, <3>2, <3>3, <3>4, <4>1
        <4> QED BY <1>1, <3>1, <3>2, <3>3, <3>4, <4>2
      <3> QED BY <3>1, <3>2, <3>3, <3>4
    <2> QED BY <2>1, <2>2
  <1>3. /\ listed' = listed \ R /\ call' = call /\ entry' = [x \in Reachable' |-> Detached(R)[x]]
    BY <1>2 DEF RemoveAll, Unlink, Heap
  <1>4. Stays({})
    <2> SUFFICES ASSUME NEW x \in listed'
                 PROVE  /\ x \in listed /\ entry'[x].key = entry[x].key
                        /\ entry'[x].status = entry[x].status
      BY DEF Stays
    <2>1. x \in listed /\ x \in DOMAIN entry /\ entry'[x] = Detached(R)[x]
      BY <1>1, <1>3, ListedReachable, ListedReachableNext DEF ListedLive
    <2> QED BY <1>1, <2>1, DetachedAt
  <1> QED BY <1>2, <1>3, <1>4 DEF Moves, Invalidates

(* Every step moves the list in one of these ways.                              *)
LEMMA NextMoves ==
  ASSUME IInv, Next
  PROVE  Moves
  <1>1. Structure /\ TypeOK'
    <2>1. IInv'
      BY StepIInv
    <2> QED BY <2>1 DEF IInv, Structure
  <1>2. ASSUME NEW t \in Threads, NEW q \in Keys, TryGet(t, q) PROVE Moves
    BY <1>1, <1>2, ReadMoves DEF TryGet
  <1>3. ASSUME NEW t \in Threads, LookupHit(t) \/ LateHit(t) PROVE Moves
    <2>1. /\ call[t].pc \in {"lookup", "publish"}
          /\ call[t].pc = "publish" => call[t].lane = "late"
          /\ \E s \in listed : Read(t, call[t].key, s)
      BY <1>3 DEF LookupHit, LateHit, Find
    <2> QED BY <1>1, <2>1, ReadMoves
  <1>4. ASSUME NEW t \in Threads, Step(t) PROVE Moves
    BY <1>1, <1>3, <1>4, LookupPendingMoves, LookupLateMoves, FactoryMoves, PrivateMoves,
       LatePublishMoves, PendingPublishMoves, AbandonMoves, InterruptedMoves, EndMoves, Zenon
       DEF Step
  <1>5. ASSUME NEW t \in Threads,
               Interrupted(t) \/ \E q \in Keys : GetOrAdd(t, q) \/ ReadInterrupted(t, q)
        PROVE  Moves
    BY <1>1, <1>5, EndMoves
  <1>6. ASSUME NEW t \in Threads, AcquireInterrupted(t) \/ LateInterrupted(t) PROVE Moves
    BY <1>1, <1>6, ThrowMoves
  <1> QED BY <1>1, <1>2, <1>4, <1>5, <1>6, InvalidationMoves, Zenon DEF Next

(* No stale publication: a value enters the list, or becomes ready in it, only  *)
(* by a call whose captured generation is the current one.                      *)
THEOREM CacheNoStalePublication ==
  Spec => NoStalePublication
  <1> DEFINE A == \A s \in ReadyListed' \ ReadyListed : \E t \in Threads :
                    /\ call[t].pc = "publish" /\ call'[t].pc = "return"
                    /\ call[t].gen = generation /\ call[t].key = entry'[s].key
  <1>1. ASSUME IInv, Next PROVE A
    <2>1. CASE Stays({})
      BY <2>1, ReadyKept
    <2>2. ASSUME NEW t \in Threads, Begins(t) PROVE A
      <3> DEFINE X == {call'[t].ent} \ {NoSlot}
      <3>1. ReadyListed' \subseteq ReadyListed \cup X
        BY <2>2, ReadyKept DEF Begins
      <3> QED BY <2>2, <3>1 DEF Begins, ReadyListed
    <2>3. ASSUME NEW t \in Threads, NEW s \in Slots, Publishes(t, s) PROVE A
      <3>1. ReadyListed' \subseteq ReadyListed \cup {s}
        BY <2>3, ReadyKept DEF Publishes
      <3> QED BY <2>3, <3>1 DEF Publishes
    <2> QED BY <1>1, <2>1, <2>2, <2>3, NextMoves DEF Moves, Invalidates, Idles, Abandons
  <1>2. IInv /\ [Next]_vars => [A]_vars
    BY <1>1
  <1> HIDE DEF A
  <1>3. Spec => [][A]_vars
    BY <1>2, CacheInvariant, PTL DEF Spec
  <1> QED BY <1>3 DEF NoStalePublication, A

(* Without Clear or a shrink a ready entry leaves the list only for a value     *)
(* that is published in the same step, and a pending entry only by a step of    *)
(* its own preparer: failures and interruptions evict nothing.                  *)
EvictionDiscipline ==
  [][generation' = generation =>
       \A s \in listed \ listed' :
         IF entry[s].status = "ready"
         THEN ReadyListed' \ ReadyListed # {}
         ELSE \E t \in Preparers(s) : call'[t] # call[t]]_vars

(* No failure, interruption or late preparation evicts an entry: what the map   *)
(* says of keys (CacheImplementsPlanMap below) holds of the entries themselves. *)
THEOREM CacheEvictionDiscipline ==
  Spec => EvictionDiscipline
  <1> DEFINE A == generation' = generation =>
                    \A s \in listed \ listed' :
                      IF entry[s].status = "ready"
                      THEN ReadyListed' \ ReadyListed # {}
                      ELSE \E t \in Preparers(s) : call'[t] # call[t]
  <1>1. ASSUME IInv, Next PROVE A
    <2>1. CASE Invalidates
      <3>1. generation \in Int
        BY <1>1 DEF IInv, Structure, TypeOK
      <3>2. generation' = generation => listed' = listed
        BY <2>1, <3>1 DEF Invalidates
      <3> QED BY <3>2
    <2>2. ASSUME NEW t \in Threads, Idles(t) \/ Begins(t) PROVE A
      BY <2>2 DEF Idles, Begins
    <2>3. ASSUME NEW t \in Threads, NEW s \in Slots, Publishes(t, s) PROVE A
      BY <2>3 DEF Publishes, ReadyListed
    <2>4. ASSUME NEW t \in Threads, NEW s \in Slots, Abandons(t, s) PROVE A
      <3>1. t \in Preparers(s) /\ call'[t] # call[t]
        BY <2>4 DEF Abandons, Preparers, Preparing, Works
      <3> QED BY <2>4, <3>1 DEF Abandons
    <2> QED BY <1>1, <2>1, <2>2, <2>3, <2>4, NextMoves DEF Moves
  <1>2. IInv /\ [Next]_vars => [A]_vars
    BY <1>1
  <1> HIDE DEF A
  <1>3. Spec => [][A]_vars
    BY <1>2, CacheInvariant, PTL DEF Spec
  <1> QED BY <1>3 DEF EvictionDiscipline, A

--------------------------------------------------------------------------------
(* The cache implements the abstract map.                                       *)

(* The claims are the listed entries of the preparers.                          *)
LEMMA ClaimsAre ==
  (\A t \in Threads : CallInv(call[t])) /\ TypeOK
    => Claims = {t \in Threads : Preparing(call[t]) /\ call[t].ent \in listed}
  <1> SUFFICES ASSUME \A t \in Threads : CallInv(call[t]), TypeOK, NEW t \in Threads,
                      call[t].ent \in listed
               PROVE  Works(call[t]) <=> Preparing(call[t])
    BY DEF Claims
  <1>1. call[t].ent # NoSlot
    BY CacheAssumption DEF TypeOK, CacheAssumption
  <1> QED BY <1>1 DEF CallInv, Works, Preparing

(* The keys with a place in the map are those of the listed entries, each of    *)
(* which is ready or has its preparer.                                          *)
ListedKeys == {entry[s].key : s \in listed}

HeldListed == M!Held = ListedKeys

LEMMA HeldIs ==
  Structure => HeldListed
  <1> SUFFICES ASSUME Structure PROVE M!Held = ListedKeys
    BY DEF HeldListed
  <1>1. /\ TypeOK /\ listed \subseteq DOMAIN entry
        /\ Claims = {t \in Threads : Preparing(call[t]) /\ call[t].ent \in listed}
    BY ClaimsAre, ListedReachable DEF Structure, ListedLive
  <1>2. ASSUME NEW t \in Claims
        PROVE  /\ call[t].ent \in listed /\ Work[t][1] = call[t].key
               /\ entry[call[t].ent].key = call[t].key
    <2>1. t \in Threads /\ Preparing(call[t]) /\ call[t].ent \in listed
      BY <1>1
    <2>2. Works(call[t])
      BY DEF Claims
    <2>3. Work[t] = <<call[t].key, call[t].gen>>
      BY <2>1, <2>2 DEF Work, WorkOf
    <2> QED BY <2>1, <2>3, OwnEntry
  <1>3. ASSUME NEW s \in listed, s \notin ReadyListed
        PROVE  \E t \in Claims : Work[t][1] = entry[s].key
    <2>1. EntryInv(s) /\ entry[s].status = "pending"
      BY <1>1, <1>3 DEF Structure, EntryInv, ReadyListed
    <2>2. PICK t \in Threads : Preparing(call[t]) /\ call[t].ent = s
      BY <2>1 DEF EntryInv
    <2>3. t \in Claims
      BY <1>1, <2>2
    <2> QED BY <1>2, <2>2, <2>3
  <1>4. M!Held = Plans \cup {Work[t][1] : t \in Claims}
    BY DEF M!Held
  <1>5. ASSUME NEW q PROVE q \in ListedKeys <=> q \in Plans \cup {Work[t][1] : t \in Claims}
    <2>1. ASSUME NEW s \in listed, q = entry[s].key
          PROVE  q \in Plans \cup {Work[t][1] : t \in Claims}
      BY <1>3, <2>1 DEF Plans
    <2>2. ASSUME q \in Plans PROVE q \in ListedKeys
      BY <2>2 DEF Plans, ReadyListed, ListedKeys
    <2>3. ASSUME NEW t \in Claims, q = Work[t][1] PROVE q \in ListedKeys
      BY <1>2, <2>3 DEF ListedKeys
    <2> QED BY <2>1, <2>2, <2>3 DEF ListedKeys
  <1> QED BY <1>4, <1>5

(* The map counts as this module does.                                          *)
LEMMA SameCardinality ==
  ASSUME NEW S
  PROVE  M!Cardinality(S) = Cardinality(S)
  BY DEF M!Cardinality, Cardinality

(* A key for each entry at most: the map holds no more than the list.           *)
LEMMA HeldFits ==
  IInv => M!Fits
  <1> SUFFICES ASSUME IInv PROVE Cardinality(M!Held) <= capacity
    BY SameCardinality DEF M!Fits
  <1> DEFINE f == [s \in listed |-> entry[s].key]
  <1>1. M!Held = ListedKeys
    BY HeldIs DEF IInv, HeldListed
  <1>2. f \in Surjection(listed, ListedKeys)
    BY DEF Surjection, ListedKeys
  <1> HIDE DEF f
  <1>3. IsFiniteSet(listed) /\ capacity \in Nat
    BY ReachableFinite, CacheAssumption DEF IInv, Structure, TypeOK, CacheAssumption
  <1>4. Cardinality(ListedKeys) <= Cardinality(listed) /\ IsFiniteSet(ListedKeys)
    BY <1>2, <1>3, FS_Surjection
  <1>5. Cardinality(listed) \in Nat /\ Cardinality(ListedKeys) \in Nat
    BY <1>3, <1>4, FS_CardinalityType
  <1> QED BY <1>1, <1>3, <1>4, <1>5 DEF IInv, Bounded

(* The same facts after a step.                                                 *)
ClaimsPrepare == Claims = {t \in Threads : Preparing(call[t]) /\ call[t].ent \in listed}

LEMMA AfterStep ==
  IInv' => ClaimsPrepare' /\ M!Fits'
  <1>1. IInv => ClaimsPrepare
    BY ClaimsAre DEF IInv, Structure, ClaimsPrepare
  <1>2. IInv => M!Fits
    BY HeldFits
  <1> QED BY <1>1, <1>2, PTL

(* The initial cache is the empty map.                                          *)
LEMMA InitMap ==
  ASSUME Init
  PROVE  M!Init
  <1>1. \A t \in Threads : ~Works(call[t])
    BY DEF Init, NewCall, Works
  <1>2. Plans = {} /\ Claims = {} /\ Work = [t \in Threads |-> <<NoKey, 0>>]
    BY <1>1 DEF Init, Plans, ReadyListed, Claims, Work, WorkOf
  <1>3. capacity \in Nat /\ generation = 0
    BY CacheAssumption DEF Init, CacheAssumption
  <1> QED BY <1>2, <1>3 DEF M!Init, M!NoWork

(* The work of the caller that takes a step, and of the others.                 *)
LEMMA WorkStep ==
  ASSUME TypeOK, NEW t \in Threads, Stepped(t)
  PROVE  /\ Work' = [Work EXCEPT ![t] = WorkOf(call'[t])]
         /\ Work[t] = WorkOf(call[t])
         /\ \A u \in Threads \ {t} : call'[u] = call[u]
  BY DEF TypeOK, Stepped, Work, WorkOf

(* What the abstract steps are made of, when the list keeps its plans.          *)
LEMMA PlansKept ==
  ASSUME Stays({}), ReadyListed \subseteq listed'
  PROVE  Plans' = Plans
  <1>1. ReadyListed' = ReadyListed
    BY DEF ReadyListed, Stays
  <1>2. \A s \in ReadyListed : entry'[s].key = entry[s].key
    BY DEF ReadyListed, Stays
  <1> QED BY <1>1, <1>2 DEF Plans

(* What an entry is to a preparer other than t: pending, and not that of t.     *)
LEMMA OthersPlaces ==
  ASSUME Structure, NEW t \in Threads, NEW u \in Threads \ {t}, Preparing(call[u])
  PROVE  /\ call[u].ent \in Reachable /\ call[u].ent \notin ReadyListed
         /\ Preparing(call[t]) => call[u].ent # call[t].ent
  <1>1. call[u].ent \in DOMAIN entry /\ entry[call[u].ent].status = "pending"
    BY OwnEntry
  <1> QED BY <1>1, ReachableFinite DEF Structure, SoleOwners, ReadyListed

(* A caller that works on a key has work.                                       *)
LEMMA HasWork ==
  ASSUME Structure, NEW t \in Threads, Works(call[t])
  PROVE  /\ Work[t] = <<call[t].key, call[t].gen>> /\ Work[t] # <<NoKey, 0>>
         /\ Work[t][1] = call[t].key /\ Work[t][2] = call[t].gen
  <1>1. Work[t] = <<call[t].key, call[t].gen>>
    BY DEF Work, WorkOf
  <1>2. call[t].key \in Keys
    BY DEF Structure, CallInv, Works
  <1> QED BY <1>1, <1>2, CacheAssumption DEF CacheAssumption

(* Work that goes on, or ends without a place.                                  *)
LEMMA IdlesMap ==
  ASSUME IInv, IInv', NEW t \in Threads, Idles(t)
  PROVE  M!GiveUp(t) \/ UNCHANGED M!mapVars
  <1>1. /\ Structure /\ TypeOK /\ Stepped(t) /\ listed' = listed /\ Plans' = Plans
        /\ Claims = {u \in Threads : Preparing(call[u]) /\ call[u].ent \in listed}
        /\ UNCHANGED <<generation, capacity>>
    BY ClaimsAre, PlansKept DEF IInv, Structure, Idles, Stepped, ReadyListed
  <1>2. /\ Work' = [Work EXCEPT ![t] = WorkOf(call'[t])] /\ Work[t] = WorkOf(call[t])
        /\ \A u \in Threads \ {t} : call'[u] = call[u]
    BY <1>1, WorkStep
  <1>3. CASE /\ Works(call[t]) /\ Works(call'[t])
             /\ WorkOf(call'[t]) = WorkOf(call[t]) /\ call'[t].ent = call[t].ent
    <2>1. Claims' = Claims
      BY <1>1, <1>2, <1>3 DEF Claims
    <2>2. Work' = Work
      BY <1>2, <1>3 DEF Work
    <2> QED BY <1>1, <2>1, <2>2 DEF M!mapVars
  <1>4. CASE ~Preparing(call[t]) /\ ~Works(call'[t])
    <2>1. Claims' = Claims /\ t \notin Claims
      BY <1>1, <1>2, <1>4 DEF Claims
    <2>2. WorkOf(call'[t]) = <<NoKey, 0>>
      BY <1>4 DEF WorkOf
    <2>3. CASE Works(call[t])
      <3>1. Work[t] # <<NoKey, 0>>
        BY <1>1, <2>3, HasWork
      <3> QED BY <1>1, <1>2, <2>1, <2>2, <3>1 DEF M!GiveUp, M!Done, M!NoWork
    <2>4. CASE ~Works(call[t])
      <3>1. Work' = Work
        BY <1>2, <2>2, <2>4 DEF Work, WorkOf
      <3> QED BY <1>1, <2>1, <3>1 DEF M!mapVars
    <2> QED BY <2>3, <2>4
  <1> QED BY <1>3, <1>4 DEF Idles

(* A miss.                                                                      *)
LEMMA BeginsMap ==
  ASSUME IInv, IInv', NEW t \in Threads, Begins(t)
  PROVE  \E k \in Keys : M!Begin(t, k)
  <1> DEFINE k == call[t].key
             e == call'[t].ent
  <1>1. /\ Structure /\ TypeOK /\ Stepped(t) /\ UNCHANGED <<generation, capacity>>
        /\ Works(call'[t]) /\ ~Works(call[t]) /\ k \in Keys /\ M!Held = ListedKeys
        /\ Claims = {u \in Threads : Preparing(call[u]) /\ call[u].ent \in listed}
        /\ M!Fits' /\ NoSlot \notin listed
    BY ClaimsAre, HeldIs, AfterStep, CacheAssumption
       DEF IInv, Structure, TypeOK, CallInv, Begins, Stepped, Works, HeldListed, CacheAssumption
  <1>2. /\ Work' = [Work EXCEPT ![t] = <<k, generation>>] /\ Work[t] = <<NoKey, 0>>
        /\ \A u \in Threads \ {t} : call'[u] = call[u]
    BY <1>1, WorkStep DEF Begins, WorkOf
  <1>3. k \notin M!Held
    BY <1>1 DEF ListedKeys, Begins, Find
  <1>4. Plans' = Plans
    <2>1. ReadyListed' = ReadyListed /\ \A s \in ReadyListed : entry'[s].key = entry[s].key
      BY DEF Begins, Stays, ReadyListed
    <2> QED BY <2>1 DEF Plans
  <1>5. ASSUME NEW u \in Threads \ {t} PROVE u \in Claims' <=> u \in Claims
    <2>1. CASE Works(call[u]) /\ call[u].ent \in listed' /\ call[u].ent \notin listed
      <3>1. call[u].ent = e /\ e # NoSlot
        BY <2>1 DEF Begins
      <3>2. Preparing(call[u])
        BY <1>1, <2>1, <3>1 DEF Structure, CallInv, Works, Preparing
      <3>3. Preparing(call'[t]) /\ call'[u] = call[u]
        <4>1. CallInv(call'[t])
          BY DEF IInv, Structure
        <4> QED BY <1>1, <1>2, <3>1, <4>1 DEF CallInv, Works, Preparing
      <3>4. SoleOwners'
        BY DEF IInv, Structure
      <3> QED BY <3>1, <3>2, <3>3, <3>4 DEF SoleOwners
    <2> QED BY <1>2, <2>1 DEF Claims, Begins
  <1>6. Claims' \in {Claims, Claims \cup {t}}
    <2>1. Claims \subseteq Threads /\ Claims' \subseteq Threads
      BY DEF Claims
    <2>2. CASE t \in Claims'
      BY <1>5, <2>1, <2>2
    <2>3. CASE t \notin Claims'
      <3>1. t \notin Claims
        BY <1>1 DEF Claims
      <3> QED BY <1>5, <2>1, <2>3, <3>1
    <2> QED BY <2>2, <2>3
  <1>7. M!Begin(t, k)
    BY <1>1, <1>2, <1>3, <1>4, <1>6 DEF M!Begin, M!NoWork
  <1> QED BY <1>1, <1>7

(* What a caller takes from the map as its work ends: its own claim.            *)
LEMMA ClaimsLeft ==
  ASSUME Structure, NEW t \in Threads, Stepped(t), ~Works(call'[t]),
         \A u \in Threads \ {t} :
           Preparing(call[u]) => (call[u].ent \in listed' <=> call[u].ent \in listed),
         ClaimsPrepare'
  PROVE  Claims' = Claims \ {t}
  <1>1. /\ Claims = {u \in Threads : Preparing(call[u]) /\ call[u].ent \in listed}
        /\ Claims' = {u \in Threads : Preparing(call'[u]) /\ call'[u].ent \in listed'}
        /\ \A u \in Threads \ {t} : call'[u] = call[u]
    BY ClaimsAre, WorkStep DEF Structure, ClaimsPrepare
  <1>2. ~Preparing(call'[t])
    BY DEF Works, Preparing
  <1> QED BY <1>1, <1>2

(* A publication.                                                               *)
LEMMA PublishesMap ==
  ASSUME IInv, IInv', NEW t \in Threads, NEW s \in Slots, Publishes(t, s)
  PROVE  M!Publish(t)
  <1> DEFINE k == call[t].key
  <1>1. /\ Structure /\ TypeOK /\ Stepped(t) /\ UNCHANGED <<generation, capacity>>
        /\ Works(call[t]) /\ call[t].gen = generation /\ M!Held = ListedKeys
        /\ Claims = {u \in Threads : Preparing(call[u]) /\ call[u].ent \in listed}
        /\ M!Fits' /\ ClaimsPrepare'
    BY ClaimsAre, HeldIs, AfterStep
       DEF IInv, Structure, Publishes, Stepped, HeldListed
  <1>2. ~Works(call'[t]) /\ WorkOf(call'[t]) = <<NoKey, 0>>
    BY DEF Publishes, Works, WorkOf
  <1>3. /\ Work' = [Work EXCEPT ![t] = <<NoKey, 0>>] /\ Work[t] # <<NoKey, 0>>
        /\ Work[t][1] = k /\ Work[t][2] = generation
    BY <1>1, <1>2, WorkStep, HasWork
  <1>4. t \in Claims \/ k \notin M!Held
    BY <1>1 DEF Publishes, ListedKeys, Find
  <1>5. Claims' = Claims \ {t}
    <2>1. ASSUME NEW u \in Threads \ {t}, Preparing(call[u])
          PROVE  call[u].ent \in listed' <=> call[u].ent \in listed
      <3>1. /\ call[u].ent \in Reachable /\ call[u].ent \notin ReadyListed
            /\ Preparing(call[t]) => call[u].ent # call[t].ent
        BY <1>1, <2>1, OthersPlaces
      <3> QED BY <3>1 DEF Publishes, Stays
    <2> QED BY <1>1, <1>2, <2>1, ClaimsLeft
  <1>6. k \in Plans' /\ Plans' \subseteq Plans \cup {k}
    <2>1. /\ ReadyListed' \subseteq ReadyListed \cup {s} /\ s \in ReadyListed'
          /\ entry'[s].key = k
      BY ReadyKept DEF Publishes
    <2>2. \A x \in ReadyListed' \ {s} : x \in ReadyListed /\ entry'[x].key = entry[x].key
      BY <2>1 DEF Publishes, Stays, ReadyListed
    <2> QED BY <2>1, <2>2 DEF Plans
  <1> QED BY <1>1, <1>3, <1>4, <1>5, <1>6 DEF M!Publish, M!Done, M!NoWork

(* A preparation that is given up.                                              *)
LEMMA AbandonsMap ==
  ASSUME IInv, IInv', NEW t \in Threads, NEW s \in Slots, Abandons(t, s)
  PROVE  M!GiveUp(t)
  <1>1. /\ Structure /\ TypeOK /\ Stepped(t) /\ UNCHANGED <<generation, capacity>>
        /\ Works(call[t]) /\ ~Works(call'[t]) /\ WorkOf(call'[t]) = <<NoKey, 0>>
        /\ ClaimsPrepare'
    BY AfterStep DEF IInv, Structure, Abandons, Stepped, Works, Preparing, WorkOf
  <1>2. Work' = [Work EXCEPT ![t] = <<NoKey, 0>>] /\ Work[t] # <<NoKey, 0>>
    BY <1>1, WorkStep, HasWork
  <1>3. Claims' = Claims \ {t}
    <2>1. ASSUME NEW u \in Threads \ {t}, Preparing(call[u])
          PROVE  call[u].ent \in listed' <=> call[u].ent \in listed
      <3>1. call[u].ent # s
        BY <1>1, <2>1, OthersPlaces DEF Abandons
      <3> QED BY <3>1 DEF Abandons
    <2> QED BY <1>1, <2>1, ClaimsLeft
  <1>4. Plans' = Plans
    BY PlansKept DEF Abandons, ReadyListed
  <1> QED BY <1>1, <1>2, <1>3, <1>4 DEF M!GiveUp, M!Done, M!NoWork

(* Clear and the changes of capacity.                                           *)
LEMMA InvalidatesMap ==
  ASSUME IInv, IInv', Invalidates
  PROVE  M!Clear \/ M!Grow \/ M!Shrink
  <1>1. /\ call' = call /\ Work' = Work /\ M!Fits' /\ listed' \subseteq listed
    BY AfterStep DEF Invalidates, Work, Stays
  <1>2. Claims' = {t \in Claims : call[t].ent \in listed'}
    BY <1>1 DEF Claims
  <1>3. Plans' \subseteq Plans
    BY DEF Invalidates, Stays, Plans, ReadyListed
  <1>4. CASE listed' = {} /\ generation' = generation + 1 /\ capacity' = capacity
    <2>1. Plans' = {} /\ Claims' = {}
      BY <1>2, <1>4 DEF Plans, ReadyListed
    <2> QED BY <1>1, <1>4, <2>1 DEF M!Clear
  <1>5. CASE listed' = listed /\ generation' = generation /\ capacity' > capacity
    <2>1. Claims' = Claims
      BY <1>1, <1>5 DEF Claims
    <2>2. Plans' = Plans
      BY <1>5, PlansKept DEF Invalidates, ReadyListed
    <2> QED BY <1>1, <1>5, <2>1, <2>2 DEF M!Grow
  <1>6. CASE generation' = generation + 1 /\ capacity' < capacity
    <2>1. Claims' \subseteq Claims
      BY <1>2
    <2> QED BY <1>1, <1>3, <1>6, <2>1 DEF M!Shrink
  <1> QED BY <1>4, <1>5, <1>6 DEF Invalidates

(* Every step of the cache is a step of the map, or none.                       *)
LEMMA NextMap ==
  ASSUME IInv, Next
  PROVE  M!Next \/ UNCHANGED M!mapVars
  <1>1. Moves /\ IInv'
    BY NextMoves, StepIInv
  <1>2. CASE Invalidates
    BY <1>1, <1>2, InvalidatesMap DEF M!Next
  <1>3. ASSUME NEW t \in Threads, Idles(t) PROVE M!Next \/ UNCHANGED M!mapVars
    BY <1>1, <1>3, IdlesMap DEF M!Next
  <1>4. ASSUME NEW t \in Threads, Begins(t) PROVE M!Next
    BY <1>1, <1>4, BeginsMap DEF M!Next
  <1>5. ASSUME NEW t \in Threads, NEW s \in Slots, Publishes(t, s) PROVE M!Next
    BY <1>1, <1>5, PublishesMap DEF M!Next
  <1>6. ASSUME NEW t \in Threads, NEW s \in Slots, Abandons(t, s) PROVE M!Next
    BY <1>1, <1>6, AbandonsMap DEF M!Next
  <1> QED BY <1>1, <1>2, <1>3, <1>4, <1>5, <1>6 DEF Moves

(* The cache is the bounded map PlanMap: for any number of callers and keys,    *)
(* whatever lookups, waits, failures, evictions and invalidations interleave.   *)
THEOREM CacheImplementsPlanMap ==
  Spec => ImplementsPlanMap
  <1>1. Init => M!Init
    BY InitMap
  <1>2. IInv /\ [Next]_vars => [M!Next]_M!mapVars
    <2>1. ASSUME UNCHANGED vars PROVE UNCHANGED M!mapVars
      BY <2>1 DEF vars, M!mapVars, Plans, Work, WorkOf, Claims, ReadyListed
    <2> QED BY <2>1, NextMap
  <1> QED BY <1>1, <1>2, CacheInvariant, PTL DEF Spec, ImplementsPlanMap, M!Map

--------------------------------------------------------------------------------
(* Once every call has returned and the list is empty, the host counts nothing  *)
(* for the cache: no entry is reachable, and every storage has been refunded.   *)
EmptyOwesNothing ==
  listed = {} /\ (\A t \in Threads : call[t].pc = "idle") => account = 0

(* Whatever was evicted, cleared, refused or interrupted, nothing is left on    *)
(* the allowance of the host.                                                   *)
THEOREM CacheEverythingReturns ==
  Spec => []EmptyOwesNothing
  <1>1. IInv => EmptyOwesNothing
    <2> SUFFICES ASSUME IInv, listed = {}, \A t \in Threads : call[t].pc = "idle"
                 PROVE  account = 0
      BY DEF EmptyOwesNothing
    <2>1. \A t \in Threads : CallInv(call[t])
      BY DEF IInv, Structure
    <2>2. \A t \in Threads :
            call[t].ent = NoSlot /\ call[t].use = NoSlot /\ call[t].reserved = 0
      BY <2>1 DEF CallInv, Preparing
    <2>3. DOMAIN entry = {}
      <3>1. Reachable = {}
        BY <2>2 DEF Reachable
      <3> QED BY <3>1, ReachableFinite DEF IInv, Structure
    <2> DEFINE calls == [t \in Threads |-> call[t].reserved]
               bytes == [s \in DOMAIN entry |-> entry[s].bytes]
    <2>4. /\ DOMAIN calls = Threads /\ DOMAIN bytes = {}
          /\ \A t \in Threads : calls[t] = 0
      BY <2>2, <2>3
    <2>5. account = SumFunction(calls) + SumFunction(bytes)
      BY DEF IInv, Conserved
    <2> HIDE DEF calls, bytes
    <2>6. SumFunction(calls) = 0
      BY <2>4, SumZero, CacheAssumption DEF SumFunction
    <2>7. SumFunction(bytes) = 0
      BY <2>4, SumEmpty DEF SumFunction
    <2> QED BY <2>5, <2>6, <2>7
  <1> QED BY <1>1, CacheInvariant, PTL
================================================================================
