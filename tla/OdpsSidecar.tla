---------------------------- MODULE OdpsSidecar ----------------------------
(***************************************************************************)
(* The supervisor of the query process, and the process itself:            *)
(* src/packages/dataworks-control/src/odps/sidecar.ts.                     *)
(*                                                                         *)
(* The supervisor runs on one event loop: an action is what runs between   *)
(* two waits.  Callers that waited for a start go on in the microtasks of  *)
(* the spawn event, before anything else of the loop.  The process runs on *)
(* its own, dies when it likes, and its exit is an event of the loop.      *)
(*                                                                         *)
(* Time is left out: the back-off (and attempt, which only lengthens it)   *)
(* is a timer that fires some day.                                         *)
(***************************************************************************)
EXTENDS SidecarProcess

CONSTANT MaxCalls   \* bound: how many of the requests are made

ASSUME MaxCallsAssumption == MaxCalls \in Nat

VARIABLES
  handle,     \* the supervisor holds a child
  starting,   \* start's promise is set: it has not settled
  timer,      \* a restart is scheduled
  closed,     \* stop was called
  queue,      \* writeQueue
  writer,     \* writeLine's loop: idle, waiting for drain, or waiting for the
              \* drain of a child that is gone
  child,      \* the child process as the operating system has it
  pending,    \* the requests in the handle's map
  call,       \* per request: where its caller is, and what it got
  aborted,    \* the queries whose signal was aborted
  listening   \* the queries whose signal has the supervisor's listener

sup == <<handle, starting, timer, closed>>
pipe == <<queue, writer>>
callers == <<pending, call, aborted, listening>>
vars == <<process, sup, pipe, child, callers>>

Answers == {"ended", "cancelled", "late"}

TypeOK ==
  /\ ProcessTypeOK
  /\ {handle, starting, timer, closed} \subseteq BOOLEAN
  /\ queue \in Seq(Msg)
  /\ writer \in {"idle", "waiting", "lost"}
  /\ child \in {"none", "spawning", "up", "killed", "dead", "broken"}
  /\ pending \subseteq Msg
  /\ call \in [Requests -> {"idle", "starting", "resumed", "pending"} \cup Answers]
  /\ aborted \subseteq Signalled /\ listening \subseteq Signalled

Init ==
  /\ ProcessInit
  /\ handle = FALSE /\ starting = FALSE /\ timer = FALSE /\ closed = FALSE
  /\ queue = <<>> /\ writer = "idle" /\ child = "none"
  /\ pending = {} /\ call = [r \in Requests |-> "idle"]
  /\ aborted = {} /\ listening = {}

\* Callers that a settled start lets go on come before the loop's next event.
Quiet == \A r \in Requests : call[r] # "resumed"

\* The child reads and answers.
Running == child \in {"up", "killed"}

-----------------------------------------------------------------------------
(***************************************************************************)
(* Settling requests and writing lines.                                    *)
(***************************************************************************)
\* The callers whose requests are in the set get that answer.
Settled(ms, say) ==
  [r \in Requests |-> IF Ask(r) \in ms THEN say ELSE call[r]]

\* rejectAllPending; onExit, the spawn error, stop and bad lines use it.
\* Mutant: the map is cleared, and nobody is told.
ForgetAll == pending' = {} /\ call' = call
RejectAll == pending' = {} /\ call' = Settled(pending, "ended")

\* The loop of writeLine over the lines that are queued: it writes on until
\* the stream is full, and then waits for drain.
Flush(lines) ==
  \E n \in 0..Len(lines), full \in BOOLEAN :
    /\ n = 0 => lines = <<>> /\ ~full
    /\ n < Len(lines) => full
    /\ stdin' = IF Running \/ child = "spawning"
                  THEN stdin \o SubSeq(lines, 1, n) ELSE stdin
    /\ queue' = SubSeq(lines, n + 1, Len(lines))
    /\ writer' = IF full THEN "waiting" ELSE "idle"

\* writeLine, once per line.  On a closed stdin whatever is pending, the
\* request in hand included, is rejected; asked has the requests registered
\* in this step, says what becomes of their callers.
SendLines(lines, asked, says) ==
  IF child = "broken"
    THEN /\ pending' = {}
         /\ call' = [r \in Requests |->
              IF Ask(r) \in pending \cup asked THEN "ended" ELSE says[r]]
         /\ UNCHANGED <<stdin, pipe>>
    ELSE /\ pending' = pending \cup asked
         /\ call' = says
         /\ IF writer = "idle" THEN Flush(queue \o lines)
            ELSE queue' = queue \o lines /\ UNCHANGED <<stdin, writer>>

\* enqueueSend and sendHealth.  A signal that is aborted already sends its
\* cancel before the query.
Full == Cardinality(pending) >= Limit

Register(r) ==
  LET early == r \in aborted
      asked == {Ask(r)} \cup (IF early THEN {Cancel(r)} ELSE {})
      lines == IF early THEN <<Cancel(r), Ask(r)>> ELSE <<Ask(r)>>
      becomes(c) == [call EXCEPT ![r] = c]
      refused == ~handle \/ (r \in Queries /\ Full)
  IN
  /\ \/ /\ refused
        /\ call' = becomes("ended") /\ UNCHANGED <<stdin, pipe, pending, listening>>
     \/ /\ ~refused
        /\ SendLines(lines, asked, becomes("pending"))
        /\ listening' = listening \cup (({r} \cap Signalled) \ aborted)
  /\ UNCHANGED <<stdout, thread, event, sup, child, aborted>>

-----------------------------------------------------------------------------
(***************************************************************************)
(* Starting.                                                               *)
(***************************************************************************)
\* spawnOnce: the handle is set before the child is known to run.
Spawn ==
  /\ handle' = TRUE /\ starting' = TRUE /\ child' = "spawning"
  /\ stdin' = <<>> /\ stdout' = <<>>
  /\ UNCHANGED <<thread, event>>

\* query and health: start if there is no child.
Call(r) ==
  /\ Quiet /\ call[r] = "idle"
  /\ Cardinality({p \in Requests : call[p] # "idle"}) < MaxCalls
  /\ IF handle THEN Register(r)
     ELSE /\ call' = [call EXCEPT ![r] = IF closed THEN "ended" ELSE "starting"]
          /\ IF closed \/ starting THEN UNCHANGED <<process, handle, starting, child>>
             ELSE Spawn
          /\ UNCHANGED <<timer, closed, pipe, pending, aborted, listening>>

\* The spawn event resolves start.
Spawned ==
  /\ Quiet /\ child = "spawning"
  /\ child' = IF handle THEN "up" ELSE "killed"
  /\ starting' = FALSE
  /\ call' = [r \in Requests |-> IF call[r] = "starting" THEN "resumed" ELSE call[r]]
  /\ UNCHANGED <<process, handle, timer, closed, pipe, pending, aborted, listening>>

Resume(r) == call[r] = "resumed" /\ Register(r)

\* The error event: start is rejected only if the handle is gone by then.
\* Otherwise its promise settles never, and starting stays set.
SpawnFailed ==
  /\ Quiet /\ child = "spawning"
  /\ child' = "none" /\ stdin' = <<>>
  /\ IF handle
       THEN /\ handle' = FALSE /\ timer' = TRUE /\ RejectAll
            /\ UNCHANGED starting
       ELSE /\ starting' = FALSE
            /\ call' = [r \in Requests |-> IF call[r] = "starting" THEN "ended" ELSE call[r]]
            /\ UNCHANGED <<handle, timer, pending>>
  /\ writer' = IF writer = "waiting" THEN "lost" ELSE writer
  /\ UNCHANGED <<stdout, thread, event, closed, queue, aborted, listening>>

\* The timer of scheduleRestart: start, which joins a start that is set.
Restart ==
  /\ Quiet /\ timer /\ timer' = FALSE
  /\ IF closed \/ handle \/ starting
       THEN UNCHANGED <<process, handle, starting, child>> ELSE Spawn
  /\ UNCHANGED <<closed, pipe, callers>>

\* Mutant: stop kills the child and leaves the handle to the exit event.
StopByKill ==
  /\ Quiet /\ ~closed /\ closed' = TRUE /\ timer' = FALSE
  /\ RejectAll
  /\ child' = IF child = "up" THEN "killed" ELSE child
  /\ UNCHANGED <<process, handle, starting, pipe, aborted, listening>>
Stop ==
  /\ Quiet /\ ~closed /\ closed' = TRUE /\ timer' = FALSE
  /\ handle' = FALSE /\ RejectAll
  /\ child' = IF child = "up" THEN "killed" ELSE child
  /\ UNCHANGED <<process, starting, pipe, aborted, listening>>

-----------------------------------------------------------------------------
(***************************************************************************)
(* Answers, cancels, and the end of a child.                               *)
(***************************************************************************)
\* A line of stdout.  One that is no JSON, or too long, rejects everything;
\* the latter also kills.  An answer that nobody waits for is ignored.
Receive ==
  /\ Quiet /\ handle /\ stdout # <<>>
  /\ stdout' = Tail(stdout)
  /\ LET line == Head(stdout) IN
       \/ /\ line.say \in {"junk", "tooLong"} /\ RejectAll
          /\ child' = IF line.say = "tooLong" /\ child = "up" THEN "killed" ELSE child
       \/ /\ line.say \in Answers
          /\ pending' = pending \ {line.to}
          /\ call' = Settled(pending \cap {line.to}, line.say)
          /\ UNCHANGED child
  /\ UNCHANGED <<stdin, thread, event, sup, pipe, aborted, listening>>

\* A signal is aborted, before, during or after its query.  The listener
\* sends a cancel, to whatever child there is.
Abort(q) ==
  /\ Quiet /\ q \notin aborted
  /\ call[q] \in {"idle", "starting"} \/ q \in listening
  /\ aborted' = aborted \cup {q}
  /\ listening' = listening \ {q}
  /\ IF q \in listening /\ handle THEN SendLines(<<Cancel(q)>>, {Cancel(q)}, call)
     ELSE UNCHANGED <<stdin, pipe, pending, call>>
  /\ UNCHANGED <<stdout, thread, event, sup, child>>

Drained ==
  /\ Quiet /\ child = "up" /\ writer = "waiting"
  /\ Flush(queue)
  /\ UNCHANGED <<stdout, thread, event, sup, child, callers>>

\* The process ends, by itself or killed.  Its stdin never drains again.
Die ==
  /\ Running /\ child' = "dead"
  /\ Vanish
  /\ writer' = IF writer = "waiting" THEN "lost" ELSE writer
  /\ UNCHANGED <<sup, queue, callers>>

\* A write to a dead child destroys its stdin.
StdinBreaks ==
  /\ Quiet /\ child = "dead" /\ child' = "broken"
  /\ UNCHANGED <<process, sup, pipe, callers>>

\* The exit event.  Mutant: no restart is scheduled.
ExitedForGood ==
  /\ Quiet /\ child \in {"dead", "broken"} /\ child' = "none"
  /\ IF handle THEN handle' = FALSE /\ RejectAll /\ UNCHANGED timer
     ELSE UNCHANGED <<handle, timer, pending, call>>
  /\ stdout' = <<>>
  /\ UNCHANGED <<stdin, thread, event, starting, closed, pipe, aborted, listening>>
Exited ==
  /\ Quiet /\ child \in {"dead", "broken"} /\ child' = "none"
  /\ IF handle THEN handle' = FALSE /\ RejectAll /\ timer' = TRUE
     ELSE UNCHANGED <<handle, timer, pending, call>>
  /\ stdout' = <<>>
  /\ UNCHANGED <<stdin, thread, event, starting, closed, pipe, aborted, listening>>

-----------------------------------------------------------------------------
Outside == UNCHANGED <<sup, pipe, child, callers>>

ProcessReads == Running /\ Read /\ Outside
ProcessWorks(q) == Running /\ Work(q) /\ Outside

Next ==
  \/ \E r \in Requests : Call(r) \/ Resume(r)
  \/ \E q \in Signalled : Abort(q)
  \/ \E q \in Queries : ProcessWorks(q) \/ (Running /\ TimeIsUp(q) /\ Outside)
  \/ Spawned \/ SpawnFailed \/ Restart \/ Stop
  \/ Receive \/ Drained \/ Die \/ StdinBreaks \/ Exited
  \/ ProcessReads \/ (Running /\ Garble /\ Outside)

Spec == Init /\ [][Next]_vars

\* The event loop delivers its events and runs its microtasks, timers fire,
\* a killed process ends, and a process that lives reads its lines, ends its
\* queries (MaxCompute answers) and is read.  Crashes are never owed.
Fairness ==
  /\ WF_vars(Spawned \/ SpawnFailed) /\ WF_vars(Restart) /\ WF_vars(Exited)
  /\ WF_vars(Receive) /\ WF_vars(Drained) /\ WF_vars(ProcessReads)
  /\ WF_vars(child = "killed" /\ Die)
  /\ \A r \in Requests : WF_vars(Resume(r))
  /\ \A q \in Queries : WF_vars(ProcessWorks(q))

FairSpec == Spec /\ Fairness

-----------------------------------------------------------------------------
(***************************************************************************)
(* Properties.                                                             *)
(***************************************************************************)
\* The start that failed and whose promise nobody settles.
StartLost == starting /\ child # "spawning"

In(m, s) == \E n \in 1..Len(s) : s[n] = m

\* A caller that waits for its answer is in the map of the present child, and
\* its request is on its way to the child, in its hands, or answered in a
\* line that is still to be read; or the child is about to be found dead and
\* everybody rejected, or the writer waits for a child that is gone.
NobodyForgotten ==
  \A r \in Requests : call[r] = "pending" =>
    /\ handle /\ Ask(r) \in pending
    /\ \/ child \in {"killed", "dead", "broken"} \/ writer = "lost"
       \/ writer = "waiting" /\ In(Ask(r), queue)
       \/ In(Ask(r), stdin)
       \/ r \in Queries /\ thread[r] \in {"started", "running"}
       \/ \E n \in 1..Len(stdout) : stdout[n] # Junk /\ stdout[n].to = Ask(r)

\* A query ends as cancelled only if its own signal was aborted, whatever else
\* was cancelled beside it.
CancelledForAReason ==
  \A q \in Queries : call[q] = "cancelled" => q \in aborted

\* There is one child at a time: a new one is spawned only when the one
\* before has ended, and none after stop.
OneChild == [][child' = "spawning" /\ child # "spawning" => child = "none" /\ ~closed]_vars

\* After stop there is no child, no timer, and nobody who waits for an answer.
StopIsFinal ==
  closed => ~handle /\ ~timer /\ pending = {} /\ \A r \in Requests : call[r] # "pending"

\* Every call ends, whatever the child does, unless a start was lost or the
\* writer waits for a child that is gone.
CallsEnd ==
  [](~StartLost /\ writer # "lost") =>
    \A r \in Requests : call[r] \in {"starting", "pending"} ~> call[r] \in Answers

\* A child that ends is replaced, unless the supervisor is stopped, or a start
\* was lost.
ChildIsReplaced ==
  (handle /\ child \in {"dead", "broken"}) ~> (child = "spawning" \/ closed \/ StartLost)

\* What the comment at scheduleRestart says, "Spawn errors are handled by
\* scheduleRestart": a restart that is due starts a child.
RestartStarts == timer ~> (handle \/ closed)
=============================================================================
