--------------------------- MODULE RunCoordinator ---------------------------
(***************************************************************************)
(* The per-session execution coordinator of packages/core:                 *)
(* src/packages/core/src/session/run-coordinator.ts.                       *)
(*                                                                         *)
(* Every key (a Session) has at most one active Entry in the Map `active`. *)
(* An Entry owns a fiber that runs the drain, a Deferred `done` on which   *)
(* callers of run wait, and two flags, pendingWake and stopping.  The      *)
(* JavaScript runtime is single threaded: a synchronous block (settle, the *)
(* body of run, wake and interrupt) is one action; every await is a point  *)
(* where the other fibers run.                                             *)
(*                                                                         *)
(* The drain itself is the environment here: it looks for recorded work,   *)
(* consumes it, decides that nothing is left and exits, or fails at any    *)
(* point.  `work` is the durable inbox of the key: callers record work     *)
(* first and then wake the coordinator (session.ts, prompt).               *)
(***************************************************************************)
EXTENDS FiniteSets

CONSTANTS
  Keys,      \* Session identifiers
  Clients,   \* fibers that call run, wake and interrupt
  Entries,   \* identities of Entry objects; a settled one is reused
  None       \* no entry (the Map has no value, or a client holds none)

ASSUME CoordinatorAssumption ==
  /\ Keys # {} /\ Clients # {}
  /\ None \notin Entries /\ None \notin Keys

VARIABLES
  active,       \* the Map: key -> its Entry
  keyOf,        \* the key an Entry was made for (closed over by start)
  pendingWake,  \* Entry.pendingWake
  stopping,     \* Entry.stopping
  fiber,        \* what the Entry's owner fiber is doing; "none" once settled
  pc,           \* what a client is doing
  ref,          \* the Entry whose settlement a waiting client awaits
  target,       \* the key of a waiting client's call
  work,         \* recorded work no drain has consumed
  signalled,    \* history: work recorded and woken for, and still owed a look
  calm          \* history: interrupted, and not run or woken since

entryVars  == <<active, keyOf, pendingWake, stopping, fiber>>
clientVars == <<pc, ref, target>>
otherVars  == <<clientVars, work, signalled, calm>>
vars == <<entryVars, clientVars, work, signalled, calm>>

\* The owner fiber: yielding is a successor before its first yieldNow
\* returns, draining is inside options.drain, exiting is past the drain's
\* last look for work, cleanup is an interrupted drain running finalizers.
Live == {"yielding", "draining", "exiting", "cleanup"}

\* A client in run awaits done: joined to a running Entry, or deferred on a
\* stopping one; a client in interrupt awaits the fiber.  Completion makes it
\* resolved (its call returns) or rerun (it enters run again).
Waiting == {"joined", "deferred", "interrupting"}

TypeOK ==
  /\ active \in [Keys -> Entries \cup {None}]
  /\ keyOf \in [Entries -> Keys]
  /\ pendingWake \in [Entries -> BOOLEAN]
  /\ stopping \in [Entries -> BOOLEAN]
  /\ fiber \in [Entries -> {"none"} \cup Live]
  /\ pc \in [Clients -> {"idle", "resolved", "rerun"} \cup Waiting]
  /\ ref \in [Clients -> Entries \cup {None}]
  /\ target \in [Clients -> Keys]
  /\ work \in [Keys -> BOOLEAN]
  /\ signalled \in [Keys -> BOOLEAN]
  /\ calm \in [Keys -> BOOLEAN]

Init ==
  /\ active = [k \in Keys |-> None]
  /\ keyOf \in {[e \in Entries |-> k] : k \in Keys}
  /\ pendingWake = [e \in Entries |-> FALSE]
  /\ stopping = [e \in Entries |-> FALSE]
  /\ fiber = [e \in Entries |-> "none"]
  /\ pc = [c \in Clients |-> "idle"]
  /\ ref = [c \in Clients |-> None]
  /\ target \in {[c \in Clients |-> k] : k \in Keys}
  /\ work = [k \in Keys |-> FALSE]
  /\ signalled = [k \in Keys |-> FALSE]
  /\ calm = [k \in Keys |-> FALSE]

-----------------------------------------------------------------------------
\* makeEntry followed by active.set: an unused Entry becomes k's active one.
MakeActive(k, e) ==
  /\ active' = [active EXCEPT ![k] = e]
  /\ keyOf' = [keyOf EXCEPT ![e] = k]

\* start(key, makeEntry(), force) while idle: the ready Deferred is completed
\* before start returns, so the drain is entered at once.
StartIdle(k) ==
  \E e \in Entries :
    /\ fiber[e] = "none"
    /\ MakeActive(k, e)
    /\ fiber' = [fiber EXCEPT ![e] = "draining"]
    /\ UNCHANGED <<pendingWake, stopping>>

(***************************************************************************)
(* settle, the onExit handler of the owner fiber.                          *)
(***************************************************************************)
\* Mutant of DrainAgain: the follow-up does not clear pendingWake.
DrainAgainStillDue(e) ==
  /\ fiber' = [fiber EXCEPT ![e] = "yielding"]
  /\ UNCHANGED <<active, keyOf, stopping, pendingWake, clientVars>>

\* A clean exit with a follow-up due: the same Entry drains again.
FollowUp(e, exit) == exit = "success" /\ ~stopping[e] /\ pendingWake[e]

DrainAgain(e) ==
  /\ pendingWake' = [pendingWake EXCEPT ![e] = FALSE]
  /\ fiber' = [fiber EXCEPT ![e] = "yielding"]
  /\ UNCHANGED <<active, keyOf, stopping, clientVars>>

\* Deferred.doneUnsafe(entry.done, exit) and the end of the fiber resume all
\* that wait for them.  Mutant: the callers of interrupt are forgotten.
WaitersInRun(e) == {c \in Clients : ref[c] = e /\ pc[c] # "interrupting"}
Waiters(e) == {c \in Clients : ref[c] = e}

\* A deferred run goes on only after a success: andThen does not continue a
\* failed Deferred.await.
Complete(e, exit) ==
  /\ pc' = [c \in Clients |->
              IF c \notin Waiters(e) THEN pc[c]
              ELSE IF pc[c] = "deferred" /\ exit = "success" THEN "rerun"
              ELSE "resolved"]
  /\ ref' = [c \in Clients |-> IF c \in Waiters(e) THEN None ELSE ref[c]]
  /\ UNCHANGED target

\* Nothing reaches a settled Entry, so its flags are cleared for reuse.
ClearFlags(e) ==
  /\ pendingWake' = [pendingWake EXCEPT ![e] = FALSE]
  /\ stopping' = [stopping EXCEPT ![e] = FALSE]

\* A wake raced with failure or interruption: a successor Entry takes over
\* and starts by yielding.
HandOver(e, exit) ==
  /\ \E next \in Entries :
       /\ fiber[next] = "none"
       /\ MakeActive(keyOf[e], next)
       /\ fiber' = [fiber EXCEPT ![next] = "yielding", ![e] = "none"]
  /\ ClearFlags(e)
  /\ Complete(e, exit)

Retire(e, exit) ==
  /\ active' = [active EXCEPT ![keyOf[e]] = None]
  /\ fiber' = [fiber EXCEPT ![e] = "none"]
  /\ ClearFlags(e)
  /\ Complete(e, exit)
  /\ UNCHANGED keyOf

\* Mutant: only a clean exit honours a pending wake.
SuccessorAfterSuccess(e, exit) == exit = "success" /\ pendingWake[e]
Successor(e, exit) == pendingWake[e]

Settle(e, exit) ==
  \/ FollowUp(e, exit) /\ DrainAgain(e)
  \/ ~FollowUp(e, exit) /\ Successor(e, exit) /\ HandOver(e, exit)
  \/ ~FollowUp(e, exit) /\ ~Successor(e, exit) /\ Retire(e, exit)

-----------------------------------------------------------------------------
(***************************************************************************)
(* The calls.                                                              *)
(***************************************************************************)

Wait(c, k, e, how) ==
  /\ pc' = [pc EXCEPT ![c] = how]
  /\ ref' = [ref EXCEPT ![c] = e]
  /\ target' = [target EXCEPT ![c] = k]

\* Mutant: a stopping Entry counts as no Entry.
JoinableUnlessStopping(k) == active[k] # None /\ ~stopping[active[k]]
Joinable(k) == active[k] # None

\* The body of run: join the active Entry, wait for a stopping one, or start.
EnterRun(c, k) ==
  /\ \/ /\ Joinable(k)
        /\ Wait(c, k, active[k],
                IF stopping[active[k]] THEN "deferred" ELSE "joined")
        /\ UNCHANGED entryVars
     \/ /\ ~Joinable(k)
        /\ StartIdle(k)
        /\ Wait(c, k, active'[k], "joined")
  /\ calm' = [calm EXCEPT ![k] = FALSE]
  /\ UNCHANGED <<work, signalled>>

Run(c, k) == pc[c] = "idle" /\ EnterRun(c, k)

RunAgain(c) == pc[c] = "rerun" /\ EnterRun(c, target[c])

\* The call returns.
Return(c) ==
  /\ pc[c] = "resolved"
  /\ pc' = [pc EXCEPT ![c] = "idle"]
  /\ UNCHANGED <<entryVars, ref, target, work, signalled, calm>>

\* The waiting caller is itself interrupted (run restores interruptibility).
Abandon(c) ==
  /\ pc[c] \in Waiting
  /\ pc' = [pc EXCEPT ![c] = "idle"]
  /\ ref' = [ref EXCEPT ![c] = None]
  /\ UNCHANGED <<entryVars, target, work, signalled, calm>>

\* The caller of wake commits its work durably beforehand, without a wake if
\* the prompt was admitted with resume false.
Record(k) ==
  /\ ~work[k]
  /\ work' = [work EXCEPT ![k] = TRUE]
  /\ UNCHANGED <<entryVars, clientVars, signalled, calm>>

Wake(k) ==
  /\ \/ /\ active[k] # None
        /\ pendingWake' = [pendingWake EXCEPT ![active[k]] = TRUE]
        /\ UNCHANGED <<active, keyOf, stopping, fiber>>
     \/ /\ active[k] = None
        /\ StartIdle(k)
  /\ signalled' = [signalled EXCEPT ![k] = @ \/ work[k]]
  /\ calm' = [calm EXCEPT ![k] = FALSE]
  /\ UNCHANGED <<clientVars, work>>

\* Mutant: a follow-up that is already registered is kept.
StopKeepingWake(e) ==
  stopping' = [stopping EXCEPT ![e] = TRUE] /\ UNCHANGED pendingWake
Stop(e) ==
  /\ stopping' = [stopping EXCEPT ![e] = TRUE]
  /\ pendingWake' = [pendingWake EXCEPT ![e] = FALSE]

\* interrupt marks the Entry, drops its follow-up and interrupts the fiber.
\* A fiber that only yields ends inside the call, and settles there.
Interrupt(c, k) ==
  /\ pc[c] = "idle" /\ active[k] # None
  /\ LET e == active[k] IN
       \/ /\ fiber[e] # "yielding"
          /\ Stop(e)
          /\ Wait(c, k, e, "interrupting")
          /\ UNCHANGED <<active, fiber>>
       \/ /\ fiber[e] = "yielding"
          /\ Retire(e, "interrupted")
  /\ signalled' = [signalled EXCEPT ![k] = FALSE]
  /\ calm' = [calm EXCEPT ![k] = TRUE]
  /\ UNCHANGED <<keyOf, work>>

-----------------------------------------------------------------------------
(***************************************************************************)
(* The owner fiber.                                                        *)
(***************************************************************************)
Yielded(e) ==
  /\ fiber[e] = "yielding"
  /\ fiber' = [fiber EXCEPT ![e] = "draining"]
  /\ UNCHANGED <<active, keyOf, pendingWake, stopping, otherVars>>

Consume(e) ==
  /\ fiber[e] = "draining" /\ work[keyOf[e]]
  /\ work' = [work EXCEPT ![keyOf[e]] = FALSE]
  /\ signalled' = [signalled EXCEPT ![keyOf[e]] = FALSE]
  /\ UNCHANGED <<entryVars, clientVars, calm>>

\* The drain's last look finds nothing.
FindNothing(e) ==
  /\ fiber[e] = "draining" /\ ~work[keyOf[e]]
  /\ fiber' = [fiber EXCEPT ![e] = "exiting"]
  /\ UNCHANGED <<active, keyOf, pendingWake, stopping, otherVars>>

Finish(e) ==
  /\ fiber[e] = "exiting" /\ Settle(e, "success")
  /\ UNCHANGED <<work, signalled, calm>>

\* A failing drain owes nothing for what it was started for; a wake that came
\* while it ran is still owed.
Fail(e) ==
  /\ fiber[e] = "draining" /\ Settle(e, "failure")
  /\ signalled' = [signalled EXCEPT ![keyOf[e]] = @ /\ pendingWake[e]]
  /\ UNCHANGED <<work, calm>>

\* The interruption reaches the drain at an await; its finalizers run.
Unwind(e) ==
  /\ stopping[e] /\ fiber[e] \in {"draining", "exiting"}
  /\ fiber' = [fiber EXCEPT ![e] = "cleanup"]
  /\ UNCHANGED <<active, keyOf, pendingWake, stopping, otherVars>>

CleanedUp(e) ==
  /\ fiber[e] = "cleanup" /\ Settle(e, "interrupted")
  /\ UNCHANGED <<work, signalled, calm>>

-----------------------------------------------------------------------------
Drain(e) ==
  \/ Yielded(e) \/ Consume(e) \/ FindNothing(e) \/ Finish(e)
  \/ Unwind(e) \/ CleanedUp(e)

Call(c) ==
  \/ \E k \in Keys : Run(c, k) \/ Interrupt(c, k)
  \/ RunAgain(c) \/ Return(c) \/ Abandon(c)

Next ==
  \/ \E c \in Clients : Call(c)
  \/ \E k \in Keys : Record(k) \/ Wake(k)
  \/ \E e \in Entries : Drain(e) \/ Fail(e)

Spec == Init /\ [][Next]_vars

\* The runtime schedules every fiber that can run: a drain makes progress, an
\* interruption reaches it, and a waiter whose Deferred is completed resumes.  Failure, interruption
\* and the calls themselves are never owed.
Fairness ==
  /\ \A e \in Entries : WF_vars(Drain(e)) /\ WF_vars(Unwind(e))
  /\ \A c \in Clients : WF_vars(RunAgain(c) \/ Return(c))

FairSpec == Spec /\ Fairness

-----------------------------------------------------------------------------
(***************************************************************************)
(* Properties.                                                             *)
(***************************************************************************)
\* At most one drain of a key runs at any time, across joins, follow-ups,
\* successors of failed or interrupted executions, and resumes that met a
\* stopping one: "serializes execution for each key".
OneDrainPerKey ==
  \A e, f \in Entries :
    fiber[e] \in Live /\ fiber[f] \in Live /\ keyOf[e] = keyOf[f] => e = f

\* Nobody waits for a settlement that will not come: the Entry a client
\* waits on is the active one of the key it called for, and its fiber lives.
NoOrphanWaiter ==
  \A c \in Clients : pc[c] \in Waiting =>
    ref[c] # None /\ active[target[c]] = ref[c] /\ fiber[ref[c]] \in Live

\* A wake for recorded work is never dropped: until the work is consumed, a
\* drain that has yet to look is alive, or its Entry has a follow-up due.
\* In particular a wake between a drain's last look and its settlement, or
\* during the cleanup of an interrupted drain, is not lost.
NoLostWake ==
  \A k \in Keys : signalled[k] =>
    /\ work[k] /\ active[k] # None
    /\ \/ pendingWake[active[k]]
       \/ /\ ~stopping[active[k]]
          /\ fiber[active[k]] \in {"yielding", "draining"}

\* After an interrupt, and until somebody runs or wakes the key again, the
\* key drains nothing but the execution being stopped, with no follow-up due.
InterruptStaysQuiet ==
  \A k \in Keys : calm[k] /\ active[k] # None =>
    stopping[active[k]] /\ ~pendingWake[active[k]]

\* Recorded work that was woken for is eventually consumed, or given up by an
\* interrupt, as long as drains do not go on failing forever.
WokenWorkIsLookedAt ==
  <>[][~\E e \in Entries : Fail(e)]_vars =>
    \A k \in Keys : signalled[k] ~> ~signalled[k]

\* A caller is answered.  An interrupt returns, whatever comes: the drain it
\* stops always settles.  A run returns once wakes, new work and interrupts
\* stop coming: each clean exit with a follow-up due keeps the same Entry, and
\* its waiters, for one more drain, and a run that slips past a stopping Entry
\* may meet another.
CallsReturn ==
  \A c \in Clients :
    /\ pc[c] = "interrupting" ~> pc[c] = "idle"
    /\ <>[][~\E k \in Keys : \/ Wake(k) \/ Record(k)
                            \/ \E d \in Clients : Interrupt(d, k)]_vars =>
         (pc[c] \in {"joined", "deferred", "rerun"} ~> pc[c] = "idle")

\* What the test "starts a resume registered during interruption cleanup"
\* says: a run that waits for a stopping Entry is not settled by the end of
\* its interruption cleanup, it goes on to an execution of its own.
ResumeDuringStopStarts ==
  [][\A c \in Clients : pc[c] = "deferred" /\ fiber[ref[c]] = "cleanup"
       => pc'[c] # "resolved"]_vars
=============================================================================
