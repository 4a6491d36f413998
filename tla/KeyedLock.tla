----------------------------- MODULE KeyedLock ------------------------------
(***************************************************************************)
(* What KeyedMutex promises (packages/core/src/effect/keyed-mutex.ts, the  *)
(* comment of makeUnsafe): "same key -> queue, different key -> run        *)
(* independently".  A caller asks for a key, is given it when nobody holds *)
(* it, and leaves, as its holder or without ever having been given it.     *)
(***************************************************************************)
CONSTANTS Keys, Callers, None

VARIABLES
  asks,    \* the key a caller wants or holds, or None
  holds    \* the callers that were given the key they ask for
vars == <<asks, holds>>

Init == asks = [c \in Callers |-> None] /\ holds = {}

Ask(c, k) ==
  /\ asks[c] = None
  /\ asks' = [asks EXCEPT ![c] = k] /\ UNCHANGED holds

Give(c) ==
  /\ asks[c] # None /\ \A d \in holds : asks[d] # asks[c]
  /\ holds' = holds \cup {c} /\ UNCHANGED asks

Leave(c) ==
  /\ asks[c] # None
  /\ asks' = [asks EXCEPT ![c] = None] /\ holds' = holds \ {c}

Next == \E c \in Callers : (\E k \in Keys : Ask(c, k)) \/ Give(c) \/ Leave(c)

Spec == Init /\ [][Next]_vars
=============================================================================
