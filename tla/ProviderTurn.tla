---------------------------- MODULE ProviderTurn ----------------------------
(***************************************************************************)
(* The provider turns of a drain: the provider's stream is published as    *)
(* Session events, local tool calls run in fibers of their own, and the    *)
(* turn is settled when the stream ends (runTurnAttempt of                 *)
(* src/packages/core/src/session/runner/llm.ts and                         *)
(* publish-llm-event.ts beside it).  tool and step are what the projection *)
(* (message-updater.ts) makes of the events: they survive a crash, the     *)
(* rest does not.                                                          *)
(*                                                                         *)
(* What the turn's fiber is about to do is the sequence todo.  It          *)
(* publishes an event in two steps: it marks the event in the publisher's  *)
(* own records, then the event is committed, and in the stream an          *)
(* interrupt may come between.  Which prompts a turn is for, that it is    *)
(* started over when the history was compacted, and when a drain asks for  *)
(* a further turn, is SessionRun's part; here a compaction hides turns.    *)
(***************************************************************************)
EXTENDS Naturals, Sequences

CONSTANTS
  Calls,     \* call IDs, unique within a provider turn only
  None,
  MaxTurns   \* bound: provider turns of the Session

ASSUME TurnAssumption == MaxTurns \in Nat /\ None \notin Calls

Turns == 1..MaxTurns

VARIABLES
  tool,      \* durable: projected status of every call of every turn
  step,      \* durable: the Step events of the latest turn
  compacted, \* durable: the last turn before the latest compaction
  last,      \* whether a turn is the last step of its agent (never changes)
  turn,      \* the latest turn
  since,     \* the latest turn when the drain started
  at,        \* where the drain is
  stopping,  \* the drain is to be interrupted
  book,      \* publisher: its records of the calls
  flags,     \* publisher: what it knows of the step
  todo,      \* what the turn's fiber does next
  marked,    \* the first of todo is in the publisher's records
  exit,      \* how the provider's stream ended
  fiber,     \* the tool fibers of the turn
  joined     \* the first failure in the set of tool fibers

durable == <<tool, step, compacted>>
place == <<last, turn, since, at>>
publisher == <<book, flags, todo, marked>>
fibers == <<fiber, joined>>
vars == <<durable, place, stopping, publisher, exit, fibers>>

Publications == {"start", "input", "call", "result", "failed", "failStep", "endStep"}
Sweeps == {"sweep", "sweepHosted"}
Tasks == Publications \cup Sweeps \cup {"fork", "clear", "await", "close"}

\* yes: the call is the provider's own, the result is no error, or the turn
\* ends the drain.
Task == [op : Tasks, call : Calls \cup {None}, yes : BOOLEAN]
On(op, c, yes) == [op |-> op, call |-> c, yes |-> yes]
Do(op) == <<On(op, None, FALSE)>>

Next1 == Head(todo)
Doing(ops) == todo # <<>> /\ Next1.op \in ops

Open == {"pending", "running"}
Live == {"running", "ok", "bad"}

TypeOK ==
  /\ tool \in [Turns -> [Calls -> {"absent", "completed", "error"} \cup Open]]
  /\ step \subseteq {"started", "failed", "ended"}
  /\ last \in [Turns -> BOOLEAN]
  /\ turn \in 0..MaxTurns /\ since \in 0..turn /\ compacted \in 0..turn
  /\ at \in {"idle", "recover", "ready", "stream", "settle"}
  /\ stopping \in BOOLEAN
  /\ book \in [Calls -> SUBSET {"known", "called", "hosted", "settled"}]
  /\ flags \subseteq {"started", "active", "failed", "providerError", "finished"}
  /\ todo \in Seq(Task) /\ (todo # <<>> => at \in {"stream", "settle"})
  /\ marked \in BOOLEAN /\ (marked => Doing(Publications))
  /\ exit \in {"none", "ok", "llm", "defect", "interrupted"}
  /\ fiber \in [Calls -> {"none", "delivered", "dropped", "broken", "interrupted"} \cup Live]
  /\ joined \in {"none", "error", "declined"}

Init ==
  /\ tool = [t \in Turns |-> [c \in Calls |-> "absent"]]
  /\ step = {} /\ compacted = 0
  /\ last \in [Turns -> BOOLEAN]
  /\ turn = 0 /\ since = 0 /\ at = "idle" /\ stopping = FALSE
  /\ book = [c \in Calls |-> {}] /\ flags = {} /\ todo = <<>> /\ marked = FALSE
  /\ exit = "none" /\ fiber = [c \in Calls |-> "none"] /\ joined = "none"

\* A new publisher and a new set of fibers.
Reset ==
  /\ book' = [c \in Calls |-> {}] /\ flags' = {} /\ todo' = <<>> /\ marked' = FALSE
  /\ exit' = "none" /\ fiber' = [c \in Calls |-> "none"] /\ joined' = "none"

-----------------------------------------------------------------------------
(***************************************************************************)
(* The drain around its turns.                                             *)
(***************************************************************************)
StartDrain ==
  /\ at = "idle"
  /\ at' = "recover" /\ since' = turn
  /\ Reset /\ UNCHANGED <<durable, last, turn, stopping>>

\* What the history is read from: messages before a compaction are not.
Visible == {t \in Turns : t > compacted}

\* Mutant: only what is running counts as interrupted.
OpenCallsRunning == {call \in Visible \X Calls : tool[call[1]][call[2]] = "running"}
\* failInterruptedTools.
OpenCalls == {call \in Visible \X Calls : tool[call[1]][call[2]] \in Open}

Recover ==
  /\ at = "recover" /\ ~stopping
  /\ \/ \E call \in OpenCalls : tool' = [tool EXCEPT ![call[1]][call[2]] = "error"] /\ UNCHANGED at
     \/ OpenCalls = {} /\ at' = "ready" /\ UNCHANGED tool
  /\ UNCHANGED <<step, compacted, last, turn, since, stopping, publisher, exit, fibers>>

\* The request is assembled from the projected history.
BeginTurn ==
  /\ at = "ready" /\ ~stopping /\ turn < MaxTurns
  /\ at' = "stream" /\ turn' = turn + 1 /\ step' = {}
  /\ Reset /\ UNCHANGED <<tool, compacted, last, since, stopping>>

\* A turn that finds its request too long, or is told so before its step
\* starts, compacts the history and is started over.
Compact ==
  /\ at = "ready" /\ ~stopping /\ compacted < turn
  /\ compacted' = turn
  /\ UNCHANGED <<tool, step, place, stopping, publisher, exit, fibers>>

\* No further turn is due, or its preparation fails.
EndDrain ==
  /\ at = "ready" /\ at' = "idle" /\ stopping' = FALSE
  /\ UNCHANGED <<durable, last, turn, since, publisher, exit, fibers>>

\* Outside of a turn an interrupt ends the drain at once.
Stopped ==
  /\ stopping /\ at \in {"recover", "ready"}
  /\ at' = "idle" /\ stopping' = FALSE
  /\ UNCHANGED <<durable, last, turn, since, publisher, exit, fibers>>

Interrupt ==
  /\ at # "idle" /\ ~stopping
  /\ stopping' = TRUE
  /\ UNCHANGED <<durable, place, publisher, exit, fibers>>

Crash ==
  /\ at # "idle"
  /\ at' = "idle" /\ stopping' = FALSE
  /\ Reset /\ UNCHANGED <<durable, last, turn, since>>

-----------------------------------------------------------------------------
(***************************************************************************)
(* What the provider streams.  publish runs the whole handler of an event, *)
(* with the permit of withPublication, before the next one is read; text   *)
(* and reasoning only count as what starts the step.                       *)
(***************************************************************************)
\* startAssistant.
Starting == IF "started" \in flags THEN <<>> ELSE Do("start")

\* failAssistant.
FailStep == IF "failed" \in flags THEN <<>> ELSE Starting \o Do("failStep")

Reads ==
  at = "stream" /\ todo = <<>> /\ ~stopping /\ "providerError" \notin flags

Handles(tasks) ==
  /\ Reads
  /\ todo' = tasks
  /\ UNCHANGED <<durable, place, stopping, book, marked, exit, fibers>>

Text == "started" \notin flags /\ Handles(Starting) /\ UNCHANGED flags

StartInput(c) == Starting \o <<On("input", c, FALSE)>>

Input(c) ==
  /\ book[c] = {} /\ Handles(StartInput(c)) /\ UNCHANGED flags

\* Mutant: a call may come twice.
AnyCall(c) == c \in Calls
\* A second call is a defect.
NotCalled(c) == "called" \notin book[c]

Call(c, hosted) ==
  /\ NotCalled(c)
  /\ Handles((IF book[c] = {} THEN StartInput(c) ELSE <<>>)
             \o <<On("call", c, hosted)>>
             \o (IF hosted THEN <<>> ELSE <<On("fork", c, FALSE)>>))
  /\ UNCHANGED flags

\* tool-result and tool-error, of a call the provider runs itself.
Result(c, ok) ==
  /\ {"called", "hosted"} \subseteq book[c] /\ "settled" \notin book[c]
  /\ Handles(<<On("result", c, ok)>>) /\ UNCHANGED flags

StepFinish ==
  /\ "finished" \notin flags
  /\ Handles(<<>>) /\ flags' = (flags \cup {"finished"}) \ {"active"}

ProviderError ==
  Handles(FailStep) /\ flags' = flags \cup {"providerError"}

-----------------------------------------------------------------------------
(***************************************************************************)
(* How an event is published.                                              *)
(***************************************************************************)
\* Only the stream is interruptible.
Proceeds == at = "settle" \/ ~stopping

\* The publisher's records are ahead of the event.
Mark ==
  /\ Doing(Publications) /\ ~marked /\ Proceeds
  /\ marked' = TRUE
  /\ LET c == Next1.call IN
       /\ book' = CASE Next1.op = "input" -> [book EXCEPT ![c] = @ \cup {"known"}]
                    [] Next1.op = "call" ->
                         [book EXCEPT ![c] = @ \cup {"called"}
                                               \cup (IF Next1.yes THEN {"hosted"} ELSE {})]
                    [] Next1.op \in {"result", "failed"} -> [book EXCEPT ![c] = @ \cup {"settled"}]
                    [] OTHER -> book
       /\ flags' = CASE Next1.op = "start" -> flags \cup {"started", "active"}
                     [] Next1.op = "failStep" -> (flags \cup {"failed"}) \ {"active"}
                     [] OTHER -> flags
  /\ UNCHANGED <<durable, place, stopping, todo, exit, fibers>>

\* The projection of a tool event.  A call runs whatever its status was.
Projected(op, status, ok) ==
  CASE op = "call" -> IF status = "absent" THEN status ELSE "running"
    [] op = "result" /\ ok -> IF status = "running" THEN "completed" ELSE status
    [] op = "failed" \/ (op = "result" /\ ~ok) -> IF status \in Open THEN "error" ELSE status

\* Events of a step that did not start leave no trace.
Commit ==
  /\ marked
  /\ marked' = FALSE /\ todo' = Tail(todo)
  /\ LET c == Next1.call
         shown == "started" \in step IN
       /\ step' = CASE Next1.op = "start" -> step \cup {"started"}
                    [] shown /\ Next1.op = "failStep" -> step \cup {"failed"}
                    [] shown /\ Next1.op = "endStep" -> step \cup {"ended"}
                    [] OTHER -> step
       /\ tool' = CASE shown /\ Next1.op = "input" -> [tool EXCEPT ![turn][c] = "pending"]
                    [] shown /\ Next1.op \in {"call", "result", "failed"} ->
                         [tool EXCEPT ![turn][c] = Projected(Next1.op, @, Next1.yes)]
                    [] OTHER -> tool
  /\ UNCHANGED <<compacted, place, stopping, book, flags, exit, fibers>>

Unsettled(hostedOnly) ==
  {c \in Calls : /\ "known" \in book[c] /\ "settled" \notin book[c]
                 /\ hostedOnly => "hosted" \in book[c]}

\* failUnsettledTools.
Sweep ==
  /\ Doing(Sweeps) /\ Proceeds
  /\ LET unsettled == Unsettled(Next1.op = "sweepHosted") IN
       \/ unsettled = {} /\ todo' = Tail(todo)
       \/ \E c \in unsettled : todo' = <<On("failed", c, FALSE)>> \o todo
  /\ UNCHANGED <<durable, place, stopping, book, flags, marked, exit, fibers>>

\* On the agent's last step there are no tools to run.
Fork ==
  /\ Doing({"fork"}) /\ Proceeds
  /\ IF last[turn] THEN todo' = Do("sweep") \o Tail(todo) /\ UNCHANGED fiber
     ELSE todo' = Tail(todo) /\ fiber' = [fiber EXCEPT ![Next1.call] = "running"]
  /\ UNCHANGED <<durable, place, stopping, book, flags, marked, exit, joined>>

-----------------------------------------------------------------------------
(***************************************************************************)
(* A local tool call, in a fiber of its own.                               *)
(***************************************************************************)
Execute(c, result) ==
  /\ fiber[c] = "running"
  /\ fiber' = [fiber EXCEPT ![c] = result]
  /\ UNCHANGED <<durable, place, stopping, publisher, exit, joined>>

\* A defect, an output that cannot be stored, or a question declined.
Break(c, how) ==
  /\ fiber[c] = "running"
  /\ fiber' = [fiber EXCEPT ![c] = "broken"]
  /\ joined' = IF joined = "none" THEN how ELSE joined
  /\ UNCHANGED <<durable, place, stopping, publisher, exit>>

\* The turn's fiber has the permit of withPublication.
Publishing == Doing(Publications \cup Sweeps)

\* Nothing interrupts a fiber that has its result.  A result for a call that
\* was swept is refused.
Deliver(c) ==
  /\ fiber[c] \in {"ok", "bad"} /\ ~Publishing
  /\ IF "settled" \in book[c]
     THEN fiber' = [fiber EXCEPT ![c] = "dropped"] /\ UNCHANGED <<tool, book>>
     ELSE /\ fiber' = [fiber EXCEPT ![c] = "delivered"]
          /\ book' = [book EXCEPT ![c] = @ \cup {"settled"}]
          /\ tool' = [tool EXCEPT ![turn][c] = Projected("result", @, fiber[c] = "ok")]
  /\ UNCHANGED <<step, compacted, place, stopping, flags, todo, marked, exit, joined>>

-----------------------------------------------------------------------------
(***************************************************************************)
(* The settlement of the turn.                                             *)
(***************************************************************************)
Rejected == "providerError" \in flags

When(condition, tasks) == IF condition THEN tasks ELSE <<>>

\* From the end of the stream to the wait for the tools.
Before(x) ==
  When(x = "llm" /\ ~Rejected, Do("sweepHosted") \o FailStep)
  \o When(x = "interrupted", Do("clear"))
  \o Do("await")

Settles(x) ==
  /\ at = "stream"
  /\ at' = "settle" /\ exit' = x /\ todo' = Before(x) /\ marked' = FALSE
  /\ UNCHANGED <<durable, last, turn, since, stopping, book, flags, fibers>>

\* The provider closes the stream, fails, or breaks the protocol.
StreamEnds ==
  /\ todo = <<>> /\ ~stopping
  /\ \E x \in {"ok", "llm", "defect"} : Settles(x)

\* The event under way may be marked and not committed.
StreamInterrupted == stopping /\ Settles("interrupted")

\* Mutant: the tools are swept while they run.
StopToolsLater == Do("sweep")
StopTools == Do("clear") \o Do("sweep")

\* Mutant: nothing is looked after at the end of the stream.
LastLookNone == <<>>
\* Hosted calls the provider never answered.
LastLook == When(exit = "ok" /\ ~Rejected, Do("sweepHosted"))

\* Mutant: an interrupted step is left as it is.
FailActiveNot == <<>>
FailActive == When("active" \in flags, FailStep)

\* From there to the end of the turn.
After(settled) ==
  IF settled = "declined" THEN StopTools \o <<On("close", None, TRUE)>>
  ELSE When(settled = "interrupted", StopTools \o FailActive)
       \o When(settled = "error", Do("sweep"))
       \o When("finished" \in flags /\ ~Rejected, Starting \o Do("endStep"))
       \o When(Rejected, Do("sweep"))
       \o LastLook
       \o <<On("close", None, exit # "ok" \/ settled = "interrupted")>>

AllEnded == \A c \in Calls : fiber[c] \notin Live

\* Mutant: the wait for the tools is not restored.
AwaitMasked ==
  /\ Doing({"await"})
  /\ \/ joined # "none" /\ todo' = After(joined)
     \/ joined = "none" /\ AllEnded /\ todo' = After("ok")
  /\ UNCHANGED <<durable, place, stopping, book, flags, marked, exit, fibers>>
\* awaitToolFibers: the first failure, or all of them.
Await ==
  /\ Doing({"await"})
  /\ \/ stopping /\ todo' = After("interrupted")
     \/ ~stopping /\ joined # "none" /\ todo' = After(joined)
     \/ ~stopping /\ joined = "none" /\ AllEnded /\ todo' = After("ok")
  /\ UNCHANGED <<durable, place, stopping, book, flags, marked, exit, fibers>>

\* clear, and the end of the scope, interrupt a tool that runs ...
Kill(c) ==
  /\ Doing({"clear", "close"}) /\ fiber[c] = "running"
  /\ fiber' = [fiber EXCEPT ![c] = "interrupted"]
  /\ UNCHANGED <<durable, place, stopping, publisher, exit, joined>>

\* ... and wait for the fibers to end.
Cleared ==
  /\ Doing({"clear"}) /\ AllEnded
  /\ todo' = Tail(todo)
  /\ UNCHANGED <<durable, place, stopping, book, flags, marked, exit, fibers>>

\* Mutant: the turn leaves its tools behind.
EndTurnAtOnce ==
  /\ Doing({"close"})
  /\ at' = IF Next1.yes THEN "idle" ELSE "ready"
  /\ stopping' = (stopping /\ ~Next1.yes)
  /\ todo' = <<>>
  /\ UNCHANGED <<durable, last, turn, since, book, flags, marked, exit, fibers>>
EndTurn ==
  /\ Doing({"close"}) /\ AllEnded
  /\ at' = IF Next1.yes THEN "idle" ELSE "ready"
  /\ stopping' = (stopping /\ ~Next1.yes)
  /\ todo' = <<>>
  /\ UNCHANGED <<durable, last, turn, since, book, flags, marked, exit, fibers>>

-----------------------------------------------------------------------------
Provider ==
  \/ Text \/ StepFinish \/ ProviderError
  \/ \E c \in Calls : Input(c) \/ \E yes \in BOOLEAN : Call(c, yes) \/ Result(c, yes)

Runner ==
  \/ Recover \/ Stopped
  \/ Mark \/ Commit \/ Sweep \/ Fork
  \/ StreamInterrupted \/ Await \/ Cleared \/ EndTurn
  \/ \E c \in Calls : Kill(c) \/ Deliver(c)

Tools ==
  \E c \in Calls :
    \/ \E result \in {"ok", "bad"} : Execute(c, result)
    \/ \E how \in {"error", "declined"} : Break(c, how)

Next ==
  \/ StartDrain \/ Compact \/ BeginTurn \/ EndDrain \/ Interrupt \/ Crash
  \/ Provider \/ StreamEnds \/ Runner \/ Tools

Spec == Init /\ [][Next]_vars

\* The runtime runs the drain's fiber, and the fibers that have a result.
\* Neither the provider nor a tool owes an answer.
FairSpec == Spec /\ WF_vars(Runner)

-----------------------------------------------------------------------------
(***************************************************************************)
(* Properties.                                                             *)
(***************************************************************************)
\* A settled call is never opened again, by whatever comes late: a second
\* call, a result after a sweep, a sweep after a result, the recovery of the
\* next drain.  Only on a last step a call may be made that was swept before.
SettlementIsFinal ==
  [][\A t \in Turns, c \in Calls :
       (\/ tool[t][c] = "completed"
        \/ tool[t][c] = "error" /\ ~(at = "stream" /\ t = turn /\ last[t]))
         => tool'[t][c] = tool[t][c]]_vars

\* A tool that finished its work is not reported as interrupted: it is swept
\* before its result is published only when another tool broke the turn.
FinishedWorkIsKept ==
  \A c \in Calls : fiber[c] = "ok" /\ "settled" \in book[c] => joined = "error"

\* No tool of a turn is at work when the drain goes on or ends.
NoToolOutlivesItsTurn ==
  at \in {"idle", "recover", "ready"} => AllEnded

\* What an earlier drain or an earlier process left open has been failed before
\* a drain makes a request, but for what a compaction hid while its own drain
\* went on: a call begun and never made, or one of a last step, which offers no
\* tools.  Such a call is not failed any more.
LeftoversAreFailed ==
  at \in {"ready", "stream", "settle"} =>
    \A t \in 1..since, c \in Calls :
      tool[t][c] \in Open => t <= compacted /\ (tool[t][c] = "pending" \/ last[t])

\* A request shows no call at work, its tools being offered: what the turns
\* of this drain called, hosted or not, has a result or a failure.
RequestsShowNoRunningCall ==
  at = "ready" => \A t \in Turns, c \in Calls : tool[t][c] = "running" => last[t]

\* A step whose stream failed or was interrupted is not left open, wherever in
\* the publication of an event the interrupt came: it has failed, or it was
\* finished.  The exception is an interrupt of the provider's own error; a
\* stream that ends with a defect is none of the two, and its step stays open.
BrokenStepIsClosed ==
  at = "idle" /\ exit \in {"llm", "interrupted"} /\ ~Rejected
    => step # {"started"}

\* An interrupt ends the drain, whatever the provider and the tools do.
InterruptEndsDrain == stopping ~> at = "idle"
=============================================================================
