-------------------------------- MODULE PlanMap --------------------------------
(* What the preparation cache promises, without entries, charges, links or      *)
(* waits: a bounded map from keys to prepared plans.  A caller that misses      *)
(* works on the key, and may claim a place for it.  A finished plan enters the  *)
(* map in one step, only in the epoch its work began in, and other plans leave  *)
(* for it only then: work in progress evicts nothing, and work that fails takes *)
(* back no more than its own claim.                                             *)
EXTENDS Naturals, FiniteSets

CONSTANTS Threads,   \* the callers
          Keys,
          NoKey      \* the key of a caller that works on nothing

VARIABLES ready,     \* keys whose plan is in the map
          work,      \* <<key, epoch>> each caller works on
          claims,    \* callers whose key has a place in the map
          epoch,     \* counts the invalidations
          room       \* how many keys the map has places for

mapVars == <<ready, work, claims, epoch, room>>

NoWork == <<NoKey, 0>>

(* The keys that have a place in the map.                                       *)
Held == ready \cup {work[t][1] : t \in claims}

Fits == Cardinality(Held) <= room

Init ==
  /\ ready = {} /\ claims = {}
  /\ work = [t \in Threads |-> NoWork]
  /\ epoch = 0 /\ room \in Nat

(* A caller misses, and gets a place for its key or not.                        *)
Begin(t, k) ==
  /\ work[t] = NoWork /\ k \notin Held
  /\ work' = [work EXCEPT ![t] = <<k, epoch>>]
  /\ claims' \in {claims, claims \cup {t}}
  /\ UNCHANGED <<ready, epoch, room>>
  /\ claims' # claims => Fits'

Done(t) ==
  /\ work[t] # NoWork
  /\ work' = [work EXCEPT ![t] = NoWork]
  /\ claims' = claims \ {t}
  /\ UNCHANGED <<epoch, room>>

(* The plan enters the map, under a claim or because nobody holds its key.      *)
Publish(t) ==
  /\ work[t][2] = epoch
  /\ t \in claims \/ work[t][1] \notin Held
  /\ Done(t)
  /\ work[t][1] \in ready' /\ ready' \subseteq ready \cup {work[t][1]}
  /\ Fits'

(* The work failed, came too late, or its plan is not kept.                     *)
GiveUp(t) == Done(t) /\ UNCHANGED ready

Clear ==
  /\ ready' = {} /\ claims' = {} /\ epoch' = epoch + 1
  /\ UNCHANGED <<work, room>>

Grow == room' > room /\ UNCHANGED <<ready, work, claims, epoch>>

(* Claims are withdrawn as plans are; what survives may not be published.       *)
Shrink ==
  /\ room' < room /\ epoch' = epoch + 1
  /\ ready' \subseteq ready /\ claims' \subseteq claims
  /\ UNCHANGED work
  /\ Fits'

Next ==
  \/ Clear \/ Grow \/ Shrink
  \/ \E t \in Threads : Publish(t) \/ GiveUp(t) \/ \E k \in Keys : Begin(t, k)

Map == Init /\ [][Next]_mapVars
================================================================================
