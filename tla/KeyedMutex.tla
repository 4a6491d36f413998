----------------------------- MODULE KeyedMutex -----------------------------
(***************************************************************************)
(* packages/core/src/effect/keyed-mutex.ts: one lock per key, made when    *)
(* its first user comes and dropped with its last one.  A lock is an entry *)
(* of the Map: a semaphore of one permit and a count of holders and        *)
(* waiters.  Two callers exclude each other only when they found the same  *)
(* entry, which rests on that count.                                       *)
(*                                                                         *)
(* Effect's semaphore is external: a permit that was released goes to any  *)
(* caller that then asks or waits, in no order; a caller that waits may be *)
(* interrupted, a holder's effect may end in any way.                      *)
(***************************************************************************)
EXTENDS Integers, FiniteSets

CONSTANTS
  Keys,      \* the keys of the Map
  Callers,   \* fibers that call withLock, one call at a time
  Entries,   \* entries the Map may hold; one that nobody refers to is made anew
  None       \* no entry, no key

ASSUME MutexAssumption ==
  None \notin Entries /\ None \notin Keys /\ IsFiniteSet(Callers)

VARIABLES
  locks,   \* the Map: key -> entry, or None
  users,   \* entry -> its count of holders and waiters
  taken,   \* entries whose permit is out
  at,      \* where a caller is in withLock
  key,     \* the key it called withLock with, or None
  entry    \* the entry it found or made, or None
mutexVars == <<locks, users, taken, at, key, entry>>

Users(e) == {c \in Callers : entry[c] = e}

MutexTypeOK ==
  /\ locks \in [Keys -> Entries \cup {None}]
  /\ users \in [Entries -> Nat]
  /\ taken \subseteq Entries
  /\ at \in [Callers -> {"out", "waiting", "holding", "leaving"}]
  /\ key \in [Callers -> Keys \cup {None}]
  /\ entry \in [Callers -> Entries \cup {None}]

MutexInit ==
  /\ locks = [k \in Keys |-> None]
  /\ users = [e \in Entries |-> 0]
  /\ taken = {}
  /\ at = [c \in Callers |-> "out"]
  /\ key = [c \in Callers |-> None]
  /\ entry = [c \in Callers |-> None]

-----------------------------------------------------------------------------
\* An entry that neither the Map nor a caller refers to.
Unused(e) == Users(e) = {} /\ \A k \in Keys : locks[k] # e

Queues(c, k, e) ==
  /\ at' = [at EXCEPT ![c] = "waiting"]
  /\ key' = [key EXCEPT ![c] = k]
  /\ entry' = [entry EXCEPT ![c] = e]

\* Mutant: only a caller that makes the entry is counted.
FindUncounted(c, k) ==
  /\ at[c] = "out" /\ locks[k] # None
  /\ Queues(c, k, locks[k])
  /\ UNCHANGED <<locks, users, taken>>
\* withLock finds the entry of its key.
Find(c, k) ==
  /\ at[c] = "out" /\ locks[k] # None
  /\ users' = [users EXCEPT ![locks[k]] = @ + 1]
  /\ Queues(c, k, locks[k])
  /\ UNCHANGED <<locks, taken>>

\* withLock makes one: a new semaphore, a count of one.
Make(c, k, e) ==
  /\ at[c] = "out" /\ locks[k] = None /\ Unused(e)
  /\ locks' = [locks EXCEPT ![k] = e]
  /\ users' = [users EXCEPT ![e] = 1]
  /\ taken' = taken \ {e}
  /\ Queues(c, k, e)

\* The semaphore has its permit for c.
Take(c) ==
  /\ at[c] = "waiting" /\ entry[c] \notin taken
  /\ taken' = taken \cup {entry[c]}
  /\ at' = [at EXCEPT ![c] = "holding"]
  /\ UNCHANGED <<locks, users, key, entry>>

\* An interrupt reaches c while it waits.
GiveUp(c) ==
  /\ at[c] = "waiting"
  /\ at' = [at EXCEPT ![c] = "leaving"]
  /\ UNCHANGED <<locks, users, taken, key, entry>>

\* The effect under the lock has ended, with whatever result.
Release(c) ==
  /\ at[c] = "holding"
  /\ taken' = taken \ {entry[c]}
  /\ at' = [at EXCEPT ![c] = "leaving"]
  /\ UNCHANGED <<locks, users, key, entry>>

Left(c) ==
  /\ at' = [at EXCEPT ![c] = "out"]
  /\ key' = [key EXCEPT ![c] = None]
  /\ entry' = [entry EXCEPT ![c] = None]

\* ensuring: one user less, and with the last one the entry goes.
Drop(c) ==
  /\ at[c] = "leaving"
  /\ users' = [users EXCEPT ![entry[c]] = @ - 1]
  /\ locks' = IF users'[entry[c]] = 0 THEN [locks EXCEPT ![key[c]] = None] ELSE locks
  /\ Left(c)
  /\ UNCHANGED taken

WithLock(c, k) == Find(c, k) \/ \E e \in Entries : Make(c, k, e)

MutexNext ==
  \E c \in Callers :
    \/ \E k \in Keys : WithLock(c, k)
    \/ Take(c) \/ GiveUp(c) \/ Release(c) \/ Drop(c)

MutexSpec == MutexInit /\ [][MutexNext]_mutexVars

-----------------------------------------------------------------------------
(***************************************************************************)
(* Properties.                                                             *)
(***************************************************************************)
\* No two callers hold the lock of one key, though one may have come when the
\* entry the other uses was about to be dropped.
Exclusive ==
  \A c, d \in Callers :
    at[c] = "holding" /\ at[d] = "holding" /\ key[c] = key[d] => c = d

\* "Entries are removed when no holder or waiter remains": the Map holds no
\* entry without a user.
NoEntryLeft == \A k \in Keys : locks[k] # None => Users(locks[k]) # {}

\* withLock is a lock per key.
Lock == INSTANCE KeyedLock WITH
  asks <- [c \in Callers |-> IF at[c] \in {"waiting", "holding"} THEN key[c] ELSE None],
  holds <- {c \in Callers : at[c] = "holding"}

Implements == Lock!Spec
=============================================================================
