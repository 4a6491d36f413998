---------------------------- MODULE AppendOnlyLog ----------------------------
(***************************************************************************)
(* What EventV2 promises its callers: each aggregate is one log that only  *)
(* grows at its end (or is cleared as a whole), no entry is in two places, *)
(* and a reader that attaches at a position is handed everything behind    *)
(* it.  Sequence numbers, replay owners, wake signals and listeners are    *)
(* not part of the promise.                                                *)
(***************************************************************************)
EXTENDS Integers, Sequences

CONSTANTS
  Logs, Entries, Readers,
  Positions    \* where a reader may attach: how many entries it has already

VARIABLES
  log,     \* per log: the sequence of its entries
  reader   \* per reader: the log and how much of it was handed over

vars == <<log, reader>>

Init == /\ log = [a \in Logs |-> <<>>]
        /\ reader = [r \in Readers |-> <<>>]

Extend(a, e) ==
  /\ \A b \in Logs : \A n \in 1..Len(log[b]) : log[b][n] # e
  /\ log' = [log EXCEPT ![a] = Append(@, e)]
  /\ UNCHANGED reader

Clear(a) == log[a] # <<>> /\ log' = [log EXCEPT ![a] = <<>>] /\ UNCHANGED reader

\* A position may lie beyond the present end.
Attach(r, a, upto) ==
  /\ reader[r] = <<>>
  /\ reader' = [reader EXCEPT ![r] = <<a, upto>>]
  /\ UNCHANGED log

Deliver(r) ==
  /\ reader[r] # <<>>
  /\ LET a == reader[r][1] IN
       /\ reader[r][2] < Len(log[a])
       /\ reader' = [reader EXCEPT ![r] = <<a, Len(log[a])>>]
  /\ UNCHANGED log

Detach(r) ==
  reader[r] # <<>> /\ reader' = [reader EXCEPT ![r] = <<>>] /\ UNCHANGED log

Next ==
  \/ \E a \in Logs : Clear(a) \/ \E e \in Entries : Extend(a, e)
  \/ \E r \in Readers :
       \/ Deliver(r) \/ Detach(r)
       \/ \E a \in Logs, upto \in Positions : Attach(r, a, upto)

Spec == Init /\ [][Next]_vars
FairSpec == Spec /\ \A r \in Readers : WF_vars(Deliver(r))
=============================================================================
