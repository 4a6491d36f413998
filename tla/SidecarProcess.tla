--------------------------- MODULE SidecarProcess ---------------------------
(***************************************************************************)
(* The Python process that runs MaxCompute queries:                        *)
(* src/sidecars/pyodps/src/dwa_pyodps/__main__.py and query.py.            *)
(*                                                                         *)
(* The main loop reads one request line at a time.  It answers health and  *)
(* cancel itself and gives each query a thread, if one of Limit slots is   *)
(* free.  A thread polls its cancel event between records; a watcher sets  *)
(* the same event when the time is up.  The mode is the real one, in which *)
(* a thread clears its event first.  A request's parameters, its rows and  *)
(* their truncation are data and left out.                                 *)
(***************************************************************************)
EXTENDS Naturals, FiniteSets, Sequences

CONSTANTS
  Queries, Healths,   \* the requests that callers make, each once
  Signalled,          \* the queries that come with an abort signal
  Limit               \* MAX_CONCURRENT, at both ends

ASSUME SidecarAssumption ==
  /\ Limit \in Nat \ {0}
  /\ Signalled \subseteq Queries /\ Queries \cap Healths = {}
  /\ IsFiniteSet(Queries) /\ IsFiniteSet(Healths)

VARIABLES
  stdin,    \* request lines on their way to the main loop
  stdout,   \* answer lines on their way to the supervisor
  thread,   \* per query: its thread
  event     \* per query: its cancel event, and who set it

process == <<stdin, stdout, thread, event>>

Requests == Queries \cup Healths
Msg == [verb : {"query"}, of : Queries] \cup [verb : {"health"}, of : Healths]
         \cup [verb : {"cancel"}, of : Signalled]

\* What a line of stdout does to its caller: whether a query ends with rows, an
\* error or a refusal is data.  CANCELLED stands for both an abort and a time
\* that was up; here the two are told apart.
Reply == [to : Msg, say : {"ended", "cancelled", "late", "tooLong"}]
Junk == [say |-> "junk"]

ProcessTypeOK ==
  /\ stdin \in Seq(Msg)
  /\ stdout \in Seq(Reply \cup {Junk})
  /\ thread \in [Queries -> {"none", "started", "running", "answered"}]
  /\ event \in [Queries -> {"clear", "cancelled", "late"}]

ProcessInit ==
  /\ stdin = <<>> /\ stdout = <<>>
  /\ thread = [q \in Queries |-> "none"]
  /\ event = [q \in Queries |-> "clear"]

-----------------------------------------------------------------------------
Ask(r) == [verb |-> IF r \in Queries THEN "query" ELSE "health", of |-> r]
Cancel(q) == [verb |-> "cancel", of |-> q]

Write(m, say) == stdout' = Append(stdout, [to |-> m, say |-> say])

\* The queries that hold a slot and are found by a cancel.
InFlight == {q \in Queries : thread[q] # "none"}

Reads(m) == stdin # <<>> /\ Head(stdin) = m /\ stdin' = Tail(stdin)

\* _dispatch_query: a slot is taken without waiting, or the query is refused.
ReadQuery(q) ==
  /\ Reads(Ask(q))
  /\ IF Cardinality(InFlight) >= Limit
       THEN Write(Ask(q), "ended") /\ UNCHANGED thread
       ELSE thread' = [thread EXCEPT ![q] = "started"] /\ UNCHANGED stdout
  /\ UNCHANGED event

\* Mutant: a cancel reaches every query in flight.
CancelledByAny(q) == InFlight
CancelledBy(q) == InFlight \cap {q}

\* A cancel is answered whether it finds its query or not.
ReadCancel(q) ==
  /\ Reads(Cancel(q))
  /\ event' = [p \in Queries |-> IF p \in CancelledBy(q) /\ event[p] = "clear"
                                   THEN "cancelled" ELSE event[p]]
  /\ Write(Cancel(q), "ended")
  /\ UNCHANGED thread

ReadHealth(h) ==
  /\ Reads(Ask(h)) /\ Write(Ask(h), "ended") /\ UNCHANGED <<thread, event>>

-----------------------------------------------------------------------------
\* execute_query clears the event before it connects: a cancel that came
\* first was acknowledged and is lost.
Begin(q) ==
  /\ thread[q] = "started"
  /\ thread' = [thread EXCEPT ![q] = "running"]
  /\ event' = [event EXCEPT ![q] = "clear"]
  /\ UNCHANGED <<stdin, stdout>>

TimeIsUp(q) ==
  /\ thread[q] = "running" /\ event[q] = "clear"
  /\ event' = [event EXCEPT ![q] = "late"]
  /\ UNCHANGED <<stdin, stdout, thread>>

\* The event stops a query only between two records; it may end before it
\* looks again.
Answer(q, say) ==
  /\ thread[q] = "running"
  /\ say \in {"ended", "tooLong"} \/ say = event[q]
  /\ thread' = [thread EXCEPT ![q] = "answered"]
  /\ Write(Ask(q), say)
  /\ UNCHANGED <<stdin, event>>

\* The slot is released, and the query forgotten, after its answer is out.
Release(q) ==
  /\ thread[q] = "answered"
  /\ thread' = [thread EXCEPT ![q] = "none"]
  /\ event' = [event EXCEPT ![q] = "clear"]
  /\ UNCHANGED <<stdin, stdout>>

\* A library prints to standard output (bound: one such line at a time).
Garble ==
  /\ \A n \in 1..Len(stdout) : stdout[n] # Junk
  /\ stdout' = Append(stdout, Junk)
  /\ UNCHANGED <<stdin, thread, event>>

\* The process ends, with all its threads.
Vanish ==
  /\ stdin' = <<>>
  /\ thread' = [q \in Queries |-> "none"]
  /\ event' = [q \in Queries |-> "clear"]
  /\ UNCHANGED stdout

Read ==
  \/ \E q \in Queries : ReadQuery(q)
  \/ \E q \in Signalled : ReadCancel(q)
  \/ \E h \in Healths : ReadHealth(h)

Work(q) ==
  \/ Begin(q) \/ Release(q)
  \/ \E say \in {"ended", "cancelled", "late", "tooLong"} : Answer(q, say)
=============================================================================
