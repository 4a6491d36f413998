------------------------- MODULE ProviderTurnProofs -------------------------
(***************************************************************************)
(* Theorems of ProviderTurn, for any number of calls and turns.            *)
(***************************************************************************)
EXTENDS ProviderTurn, SequenceTheorems, TLAPS

USE TurnAssumption

-----------------------------------------------------------------------------
(***************************************************************************)
(* Types.                                                                  *)
(***************************************************************************)
LEMMA Single == ASSUME NEW S, NEW x \in S PROVE <<x>> \in Seq(S)  OBVIOUS

LEMMA Joined ==
  ASSUME NEW S, NEW s \in Seq(S), NEW t \in Seq(S) PROVE s \o t \in Seq(S)
OBVIOUS

\* What the turn is given to do are tasks.
LEMMA Tasked ==
  /\ \A op \in Tasks, c \in Calls \cup {None}, yes \in BOOLEAN : On(op, c, yes) \in Task
  /\ \A op \in Tasks : Do(op) \in Seq(Task)
  /\ Starting \in Seq(Task) /\ FailStep \in Seq(Task)
  /\ \A c \in Calls : StartInput(c) \in Seq(Task)
  /\ \A x : Before(x) \in Seq(Task) /\ After(x) \in Seq(Task)
<1>1. \A op \in Tasks, c \in Calls \cup {None}, yes \in BOOLEAN : On(op, c, yes) \in Task
  BY DEF On, Task
<1>2. \A op \in Tasks : Do(op) \in Seq(Task)
  <2> TAKE op \in Tasks
  <2>1. On(op, None, FALSE) \in Task  BY <1>1
  <2> QED  BY <2>1, Single DEF Do
<1>3. {"start", "input", "failStep", "endStep", "sweep", "sweepHosted", "clear", "await",
       "close"} \subseteq Tasks
  BY DEF Tasks, Publications, Sweeps
<1>4. Starting \in Seq(Task) /\ FailStep \in Seq(Task)
  BY <1>2, <1>3 DEF Starting, FailStep
<1>5. \A c \in Calls : StartInput(c) \in Seq(Task)
  <2> TAKE c \in Calls
  <2>1. On("input", c, FALSE) \in Task  BY <1>1, <1>3
  <2>2. <<On("input", c, FALSE)>> \in Seq(Task)  BY <2>1, Single
  <2> QED  BY <1>4, <2>2, Joined DEF StartInput
<1>6. \A condition \in BOOLEAN, s \in Seq(Task) : When(condition, s) \in Seq(Task)
  BY DEF When
<1>7. ASSUME NEW x PROVE Before(x) \in Seq(Task)
  <2>1. Do("sweepHosted") \o FailStep \in Seq(Task) /\ Do("clear") \in Seq(Task)
          /\ Do("await") \in Seq(Task)
    BY <1>2, <1>3, <1>4
  <2> QED  BY <2>1 DEF Before, When
<1>8. ASSUME NEW x PROVE After(x) \in Seq(Task)
  <2>1. StopTools \in Seq(Task) /\ FailActive \in Seq(Task) /\ LastLook \in Seq(Task)
          /\ Do("sweep") \in Seq(Task) /\ Starting \o Do("endStep") \in Seq(Task)
    BY <1>2, <1>3, <1>4 DEF StopTools, FailActive, LastLook, When
  <2>2. \A yes \in BOOLEAN : <<On("close", None, yes)>> \in Seq(Task)
    <3> TAKE yes \in BOOLEAN
    <3>1. On("close", None, yes) \in Task  BY <1>1, <1>3
    <3> QED  BY <3>1, Single
  <2>3. CASE x = "declined"
    <3>1. <<On("close", None, TRUE)>> \in Seq(Task)  BY <2>2
    <3>2. StopTools \o <<On("close", None, TRUE)>> \in Seq(Task)  BY <2>1, <3>1, Joined
    <3> QED  BY <2>3, <3>2 DEF After
  <2>4. CASE x # "declined"
    <3> DEFINE a == When(x = "interrupted", StopTools \o FailActive)
               b == When(x = "error", Do("sweep"))
               d == When("finished" \in flags /\ ~Rejected, Starting \o Do("endStep"))
               e == When(Rejected, Do("sweep"))
               f == <<On("close", None, exit # "ok" \/ x = "interrupted")>>
    <3>1. a \in Seq(Task) /\ b \in Seq(Task) /\ d \in Seq(Task) /\ e \in Seq(Task)
      BY <2>1 DEF When
    <3>2. f \in Seq(Task)  BY <2>2
    <3>3. After(x) = a \o b \o d \o e \o LastLook \o f  BY <2>4 DEF After
    <3> HIDE DEF a, b, d, e, f
    <3> QED  BY <2>1, <3>1, <3>2, <3>3
  <2> QED  BY <2>3, <2>4
<1> QED  BY <1>1, <1>2, <1>4, <1>5, <1>7, <1>8

Statuses == {"absent", "completed", "error"} \cup Open
Fibers == {"none", "delivered", "dropped", "broken", "interrupted"} \cup Live

LEMMA ResetTyped ==
  ASSUME TypeOK, Reset
  PROVE  /\ book' \in [Calls -> SUBSET {"known", "called", "hosted", "settled"}]
         /\ flags' = {} /\ todo' = <<>> /\ marked' = FALSE
         /\ exit' = "none" /\ fiber' \in [Calls -> Fibers] /\ joined' = "none"
BY DEF Reset, Fibers

\* A projection has a status.
LEMMA ProjectedTyped ==
  \A op \in {"call", "result", "failed"}, status \in Statuses, ok \in BOOLEAN :
    Projected(op, status, ok) \in Statuses
BY DEF Projected, Statuses, Open

LEMMA TypeInit == Init => TypeOK
<1> SUFFICES ASSUME Init PROVE TypeOK  OBVIOUS
<1>1. tool \in [Turns -> [Calls -> Statuses]]  BY DEF Init, Statuses
<1>2. turn \in 0..MaxTurns /\ since \in 0..turn  BY DEF Init
<1>3. fiber \in [Calls -> Fibers]  BY DEF Init, Fibers
<1>4. book \in [Calls -> SUBSET {"known", "called", "hosted", "settled"}]  BY DEF Init
<1>5. todo \in Seq(Task) /\ todo = <<>> /\ ~marked  BY DEF Init
<1> QED  BY <1>1, <1>2, <1>3, <1>4, <1>5 DEF Init, TypeOK, Statuses, Fibers

\* The task that is next.
LEMMA NextTask ==
  ASSUME TypeOK, todo # <<>>
  PROVE  Next1 \in Task /\ Tail(todo) \in Seq(Task)
BY DEF TypeOK, Next1

LEMMA TypeStep == TypeOK /\ [Next]_vars => TypeOK'
<1> SUFFICES ASSUME TypeOK, [Next]_vars PROVE TypeOK'  OBVIOUS
<1> USE DEF Turns
<1>1. CASE UNCHANGED vars
  BY <1>1 DEF vars, durable, place, publisher, fibers, TypeOK, Doing, Next1
<1>2. CASE StartDrain \/ BeginTurn \/ Crash
  <2>1. Reset /\ tool' = tool /\ step' \subseteq {"started", "failed", "ended"} /\ last' = last
    BY <1>2 DEF StartDrain, BeginTurn, Crash, durable, TypeOK
  <2>2. /\ turn' \in 0..MaxTurns /\ since' \in 0..turn' /\ compacted' \in 0..turn'
        /\ stopping' \in BOOLEAN
        /\ at' \in {"idle", "recover", "ready", "stream", "settle"}
    <3>1. CASE StartDrain  BY <3>1 DEF StartDrain, TypeOK, durable
    <3>2. CASE BeginTurn  BY <3>2 DEF BeginTurn, TypeOK
    <3>3. CASE Crash  BY <3>3 DEF Crash, TypeOK, durable
    <3> QED  BY <1>2, <3>1, <3>2, <3>3
  <2>3. /\ book' \in [Calls -> SUBSET {"known", "called", "hosted", "settled"}]
        /\ flags' = {} /\ todo' = <<>> /\ marked' = FALSE
        /\ exit' = "none" /\ fiber' \in [Calls -> Fibers] /\ joined' = "none"
    BY <2>1, ResetTyped
  <2>4. todo' \in Seq(Task)  BY <2>3
  <2> QED  BY <2>1, <2>2, <2>3, <2>4 DEF TypeOK, Doing, Fibers
<1>3. CASE Recover
  <2>1. /\ tool' \in [Turns -> [Calls -> Statuses]]
        /\ at' \in {"recover", "ready"} /\ at = "recover"
    <3>1. tool \in [Turns -> [Calls -> Statuses]] /\ "error" \in Statuses
      BY DEF TypeOK, Statuses
    <3>2. ASSUME NEW call \in OpenCalls,
                 tool' = [tool EXCEPT ![call[1]][call[2]] = "error"]
          PROVE  tool' \in [Turns -> [Calls -> Statuses]]
      <4>1. call[1] \in Turns /\ call[2] \in Calls  BY DEF OpenCalls, Visible
      <4> QED  BY <3>1, <3>2, <4>1
    <3> QED  BY <1>3, <3>1, <3>2 DEF Recover
  <2> QED
    BY <1>3, <2>1 DEF Recover, TypeOK, publisher, fibers, Doing, Next1, Statuses
<1>4. CASE EndDrain \/ Stopped \/ Interrupt
  <2>1. /\ UNCHANGED <<durable, last, turn, since, publisher, exit, fibers>>
        /\ stopping' \in BOOLEAN
        /\ at' = at \/ (at' = "idle" /\ at \in {"recover", "ready"})
    BY <1>4 DEF EndDrain, Stopped, Interrupt, place
  <2> QED
    BY <2>1 DEF TypeOK, durable, publisher, fibers, Doing, Next1
<1>5. ASSUME NEW tasks \in Seq(Task), Handles(tasks), UNCHANGED flags \/ StepFinish \/ ProviderError
      PROVE  TypeOK'
  <2>1. flags' \subseteq {"started", "active", "failed", "providerError", "finished"}
    BY <1>5 DEF StepFinish, ProviderError, TypeOK
  <2>2. ~marked /\ at = "stream"  BY <1>5 DEF Handles, Reads, TypeOK, Doing
  <2> QED
    BY <1>5, <2>1, <2>2 DEF Handles, TypeOK, durable, place, fibers
<1>6. CASE Provider
  <2>1. CASE Text  BY <1>5, <2>1, Tasked DEF Text
  <2>2. CASE StepFinish
    <3>1. Handles(<<>>) /\ <<>> \in Seq(Task)  BY <2>2 DEF StepFinish
    <3> QED  BY <1>5, <2>2, <3>1
  <2>3. CASE ProviderError  BY <1>5, <2>3, Tasked DEF ProviderError
  <2>4. ASSUME NEW c \in Calls, Input(c) PROVE TypeOK'
    BY <1>5, <2>4, Tasked DEF Input
  <2>5. ASSUME NEW c \in Calls, NEW yes \in BOOLEAN, Call(c, yes) PROVE TypeOK'
    <3>1. On("call", c, yes) \in Task /\ On("fork", c, FALSE) \in Task
      BY Tasked DEF Tasks, Publications
    <3>2. StartInput(c) \in Seq(Task)  BY Tasked
    <3> DEFINE a == IF book[c] = {} THEN StartInput(c) ELSE <<>>
               b == <<On("call", c, yes)>>
               d == IF yes THEN <<>> ELSE <<On("fork", c, FALSE)>>
    <3>3. a \in Seq(Task) /\ b \in Seq(Task) /\ d \in Seq(Task)
      <4>1. a \in Seq(Task)  BY <3>2
      <4>2. b \in Seq(Task)  BY <3>1, Single
      <4>3. d \in Seq(Task)
        <5>1. <<On("fork", c, FALSE)>> \in Seq(Task)  BY <3>1, Single
        <5>2. CASE yes
          <6>1. d = <<>>  BY <5>2
          <6>2. <<>> \in Seq(Task)  OBVIOUS
          <6> QED  BY <6>1, <6>2, Zenon
        <5>3. CASE ~yes
          <6>1. d = <<On("fork", c, FALSE)>>  BY <5>3
          <6> QED  BY <5>1, <6>1
        <5> QED  BY <5>2, <5>3
      <4> QED  BY <4>1, <4>2, <4>3
    <3>4. Handles(a \o b \o d) /\ UNCHANGED flags  BY <2>5 DEF Call
    <3> HIDE DEF a, b, d
    <3>5. a \o b \o d \in Seq(Task)  BY <3>3
    <3> QED  BY <1>5, <3>4, <3>5
  <2>6. ASSUME NEW c \in Calls, NEW yes \in BOOLEAN, Result(c, yes) PROVE TypeOK'
    <3>1. On("result", c, yes) \in Task  BY Tasked DEF Tasks, Publications
    <3>2. Handles(<<On("result", c, yes)>>) /\ UNCHANGED flags  BY <2>6 DEF Result
    <3>3. <<On("result", c, yes)>> \in Seq(Task)  BY <3>1, Single
    <3> QED  BY <1>5, <3>2, <3>3
  <2> QED  BY <1>6, <2>1, <2>2, <2>3, <2>4, <2>5, <2>6 DEF Provider
<1>7. ASSUME NEW x \in {"ok", "llm", "defect", "interrupted"}, Settles(x) PROVE TypeOK'
  BY <1>7, Tasked DEF Settles, TypeOK, durable, fibers, Doing
<1>8. CASE Mark
  <2>1. Next1 \in Task  BY <1>8, NextTask DEF Mark, Doing
  <2>2. book' \in [Calls -> SUBSET {"known", "called", "hosted", "settled"}]
    BY <1>8, <2>1 DEF Mark, TypeOK
  <2>3. flags' \subseteq {"started", "active", "failed", "providerError", "finished"}
    BY <1>8 DEF Mark, TypeOK
  <2> QED
    BY <1>8, <2>2, <2>3 DEF Mark, TypeOK, durable, place, fibers, Doing, Next1
<1>9. CASE Commit
  <2>1. Next1 \in Task /\ Tail(todo) \in Seq(Task) /\ todo # <<>>
    BY <1>9, NextTask DEF Commit, TypeOK, Doing
  <2>2. step' \subseteq {"started", "failed", "ended"}  BY <1>9 DEF Commit, TypeOK
  <2>3. tool' \in [Turns -> [Calls -> Statuses]]
    <3>1. CASE tool' = tool  BY <3>1 DEF TypeOK, Statuses
    <3>2. CASE tool' = [tool EXCEPT ![turn][Next1.call] = "pending"]
      BY <3>2 DEF TypeOK, Statuses, Open
    <3>3. CASE /\ Next1.op \in {"call", "result", "failed"}
               /\ tool' = [tool EXCEPT ![turn][Next1.call] =
                             Projected(Next1.op, @, Next1.yes)]
      <4>1. tool \in [Turns -> [Calls -> Statuses]]  BY DEF TypeOK, Statuses
      <4>2. Next1.yes \in BOOLEAN  BY <2>1 DEF Task
      <4>3. \A c \in Calls : turn \in Turns =>
              Projected(Next1.op, tool[turn][c], Next1.yes) \in Statuses
        BY <3>3, <4>1, <4>2, ProjectedTyped
      <4> QED  BY <3>3, <4>1, <4>3
    <3> QED  BY <1>9, <3>1, <3>2, <3>3 DEF Commit
  <2> QED
    BY <1>9, <2>1, <2>2, <2>3 DEF Commit, TypeOK, place, fibers, Doing, Statuses
<1>10. CASE Sweep
  <2>1. todo # <<>> /\ Tail(todo) \in Seq(Task) /\ ~marked
    BY <1>10, NextTask DEF Sweep, Doing, TypeOK, Sweeps, Publications
  <2>2. \A c \in Calls : <<On("failed", c, FALSE)>> \o todo \in Seq(Task)
    <3> TAKE c \in Calls
    <3>1. On("failed", c, FALSE) \in Task  BY Tasked DEF Tasks, Publications
    <3>2. <<On("failed", c, FALSE)>> \in Seq(Task) /\ todo \in Seq(Task)
      BY <3>1, Single DEF TypeOK
    <3> QED  BY <3>2, Joined
  <2>3. todo' \in Seq(Task)  BY <1>10, <2>1, <2>2 DEF Sweep, Unsettled
  <2> QED
    BY <1>10, <2>1, <2>3 DEF Sweep, TypeOK, durable, place, fibers
<1>11. CASE Fork
  <2>1. todo # <<>> /\ Tail(todo) \in Seq(Task) /\ ~marked /\ Do("sweep") \in Seq(Task)
    BY <1>11, NextTask, Tasked DEF Fork, Doing, TypeOK, Publications, Tasks, Sweeps
  <2>2. Do("sweep") \o Tail(todo) \in Seq(Task)  BY <2>1, Joined
  <2>4. todo' \in Seq(Task)  BY <1>11, <2>1, <2>2 DEF Fork
  <2>3. fiber' \in [Calls -> Fibers]  BY <1>11 DEF Fork, TypeOK, Fibers, Live
  <2> QED
    BY <1>11, <2>1, <2>3, <2>4 DEF Fork, TypeOK, durable, place, Fibers
<1>12. CASE Await
  <2>1. todo # <<>> /\ ~marked  BY <1>12 DEF Await, Doing, TypeOK, Publications
  <2>2. todo' \in Seq(Task)  BY <1>12, Tasked DEF Await
  <2> QED  BY <1>12, <2>1, <2>2 DEF Await, TypeOK, durable, place, fibers
<1>13. CASE Cleared
  <2>1. todo # <<>> /\ ~marked /\ Tail(todo) \in Seq(Task)
    BY <1>13, NextTask DEF Cleared, Doing, TypeOK, Publications
  <2> QED  BY <1>13, <2>1 DEF Cleared, TypeOK, durable, place, fibers
<1>14. CASE EndTurn
  <2>1. ~marked  BY <1>14 DEF EndTurn, Doing, TypeOK, Publications
  <2>2. stopping' \in BOOLEAN /\ at' \in {"idle", "ready"}
    BY <1>14 DEF EndTurn, TypeOK
  <2> QED  BY <1>14, <2>1, <2>2 DEF EndTurn, TypeOK, durable, fibers, Doing
<1>15. ASSUME NEW c \in Calls,
              Kill(c) \/ (\E result \in {"ok", "bad"} : Execute(c, result))
                \/ (\E how \in {"error", "declined"} : Break(c, how))
       PROVE  TypeOK'
  <2>1. /\ UNCHANGED <<durable, place, stopping, publisher, exit>>
        /\ fiber' \in [Calls -> Fibers]
        /\ joined' \in {"none", "error", "declined"}
    BY <1>15 DEF Kill, Execute, Break, TypeOK, Fibers, Live
  <2> QED  BY <2>1 DEF TypeOK, durable, place, publisher, Doing, Next1, Fibers
<1>16. ASSUME NEW c \in Calls, Deliver(c) PROVE TypeOK'
  <2>1. /\ fiber' \in [Calls -> Fibers]
        /\ book' \in [Calls -> SUBSET {"known", "called", "hosted", "settled"}]
    <3>1. /\ fiber \in [Calls -> Fibers] /\ {"dropped", "delivered"} \subseteq Fibers
          /\ book \in [Calls -> SUBSET {"known", "called", "hosted", "settled"}]
      BY DEF TypeOK, Fibers
    <3>2. \/ fiber' = [fiber EXCEPT ![c] = "dropped"] /\ book' = book
          \/ /\ fiber' = [fiber EXCEPT ![c] = "delivered"]
             /\ book' = [book EXCEPT ![c] = @ \cup {"settled"}]
      BY <1>16 DEF Deliver
    <3> QED  BY <3>1, <3>2
  <2>2. tool' \in [Turns -> [Calls -> Statuses]]
    <3>1. tool \in [Turns -> [Calls -> Statuses]] /\ (fiber[c] = "ok") \in BOOLEAN
      BY DEF TypeOK, Statuses
    <3>2. turn \in Turns => Projected("result", tool[turn][c], fiber[c] = "ok") \in Statuses
      BY <3>1, ProjectedTyped
    <3> QED  BY <1>16, <3>1, <3>2 DEF Deliver
  <2> QED
    BY <1>16, <2>1, <2>2 DEF Deliver, TypeOK, place, Doing, Next1, Fibers, Statuses
<1>17. CASE Compact
  <2>1. /\ UNCHANGED <<tool, step, place, stopping, publisher, exit, fibers>>
        /\ compacted' = turn
    BY <1>17 DEF Compact
  <2> QED  BY <2>1 DEF TypeOK, place, publisher, fibers, Doing, Next1
<1> QED
  BY <1>1, <1>2, <1>3, <1>4, <1>6, <1>7, <1>8, <1>9, <1>10, <1>11, <1>12, <1>13, <1>14, <1>15,
     <1>16, <1>17
  DEF Next, Runner, Tools, StreamEnds, StreamInterrupted

\* Every variable of the drain, its turn and its tools keeps its type.
THEOREM TypeCorrect == Spec => []TypeOK
BY TypeInit, TypeStep, PTL DEF Spec

-----------------------------------------------------------------------------
(***************************************************************************)
(* The tools of a turn.  A fiber starts at work only while its turn has    *)
(* something to do, and the turn ends when none is.                        *)
(***************************************************************************)
LEMMA EndedStep ==
  ASSUME TypeOK, NoToolOutlivesItsTurn, [Next]_vars PROVE NoToolOutlivesItsTurn'
<1> USE DEF NoToolOutlivesItsTurn, AllEnded
<1>1. CASE UNCHANGED vars  BY <1>1 DEF vars, place, fibers
<1>2. CASE StartDrain \/ BeginTurn \/ Crash
  BY <1>2 DEF StartDrain, BeginTurn, Crash, Reset, Live
<1>3. CASE Recover \/ Compact \/ EndDrain \/ Stopped \/ Interrupt
  BY <1>3 DEF Recover, Compact, EndDrain, Stopped, Interrupt, fibers, place
<1>4. ASSUME NEW tasks, Handles(tasks) PROVE NoToolOutlivesItsTurn'
  BY <1>4 DEF Handles, Reads, place
<1>5. CASE Provider
  BY <1>4, <1>5 DEF Provider, Text, StepFinish, ProviderError, Input, Call, Result
<1>6. ASSUME NEW x, Settles(x) PROVE NoToolOutlivesItsTurn'
  BY <1>6 DEF Settles
<1>7. ASSUME Mark \/ Commit \/ Sweep \/ Fork \/ Await \/ Cleared \/ (\E c \in Calls : Kill(c))
      PROVE  NoToolOutlivesItsTurn'
  <2>1. todo # <<>> /\ at' = at
    BY <1>7 DEF Mark, Commit, Sweep, Fork, Await, Cleared, Kill, Doing, TypeOK, place
  <2> QED  BY <2>1 DEF TypeOK
<1>8. CASE EndTurn
  BY <1>8 DEF EndTurn, fibers
<1>9. ASSUME NEW c \in Calls,
             Deliver(c) \/ (\E result \in {"ok", "bad"} : Execute(c, result))
               \/ (\E how \in {"error", "declined"} : Break(c, how))
      PROVE  NoToolOutlivesItsTurn'
  BY <1>9 DEF Deliver, Execute, Break, Live, place
<1> QED
  BY <1>1, <1>2, <1>3, <1>5, <1>6, <1>7, <1>8, <1>9
  DEF Next, Runner, Tools, StreamEnds, StreamInterrupted

\* When a drain goes on to its next turn or ends, by whatever way its last
\* turn came to its end, no tool fiber of that turn is at work.
THEOREM ToolsEnd == Spec => []NoToolOutlivesItsTurn
<1>1. Init => NoToolOutlivesItsTurn
  BY DEF Init, NoToolOutlivesItsTurn, AllEnded, Live
<1> QED  BY <1>1, EndedStep, TypeCorrect, PTL DEF Spec

-----------------------------------------------------------------------------
(***************************************************************************)
(* What earlier drains left.  A turn writes its own calls only, and they   *)
(* are none of an earlier drain.                                           *)
(***************************************************************************)
TurnIsOfTheDrain == at \in {"stream", "settle"} => since < turn

\* What is open of an earlier drain is hidden from the recovery.
OpenIsHidden ==
  at \in {"ready", "stream", "settle"} =>
    \A t \in 1..since, c \in Calls : tool[t][c] \in Open => t <= compacted

LInv == OpenIsHidden /\ TurnIsOfTheDrain

LEMMA LeftoversStep ==
  ASSUME TypeOK, NoToolOutlivesItsTurn, LInv, [Next]_vars PROVE LInv'
<1> USE DEF LInv, OpenIsHidden, TurnIsOfTheDrain
<1>1. CASE UNCHANGED vars  BY <1>1 DEF vars, durable, place
<1>2. CASE StartDrain \/ Crash
  BY <1>2 DEF StartDrain, Crash
<1>3. CASE BeginTurn
  BY <1>3 DEF BeginTurn, TypeOK
<1>4. CASE Recover
  <2>1. CASE at' = "recover"  BY <2>1
  <2>2. CASE at' # "recover"
    <3>1. /\ OpenCalls = {} /\ at' = "ready"
          /\ UNCHANGED <<tool, since, turn, compacted>>
      BY <1>4, <2>2 DEF Recover
    <3>2. \A t \in Turns, c \in Calls : tool[t][c] \in Open => t <= compacted
      <4> SUFFICES ASSUME NEW t \in Turns, NEW c \in Calls, tool[t][c] \in Open, t > compacted
                   PROVE  FALSE
        BY DEF TypeOK, Turns
      <4>1. <<t, c>> \in OpenCalls  BY DEF OpenCalls, Visible
      <4> QED  BY <3>1, <4>1
    <3>3. 1..since \subseteq Turns  BY DEF TypeOK, Turns
    <3> QED  BY <3>1, <3>2, <3>3
  <2> QED  BY <2>1, <2>2
<1>5. CASE EndDrain \/ Stopped \/ Interrupt
  BY <1>5 DEF EndDrain, Stopped, Interrupt, durable, place
<1>12. CASE Compact
  <2>1. UNCHANGED <<tool, since, turn, at>> /\ compacted' = turn  BY <1>12 DEF Compact, place
  <2>2. \A t \in 1..since : t <= turn  BY DEF TypeOK
  <2> QED  BY <2>1, <2>2
<1>6. ASSUME NEW tasks, Handles(tasks) PROVE LInv'
  BY <1>6 DEF Handles, durable, place
<1>7. CASE Provider
  BY <1>6, <1>7 DEF Provider, Text, StepFinish, ProviderError, Input, Call, Result
<1>8. ASSUME NEW x, Settles(x) PROVE LInv'
  BY <1>8 DEF Settles, durable
<1>9. CASE Mark \/ Sweep \/ Fork \/ Await \/ Cleared \/ Tools \/ \E c \in Calls : Kill(c)
  BY <1>9 DEF Mark, Sweep, Fork, Await, Cleared, Tools, Kill, Execute, Break, durable, place
<1>10. CASE EndTurn
  BY <1>10 DEF EndTurn, Doing, TypeOK, durable
<1>11. ASSUME Commit \/ \E c \in Calls : Deliver(c) PROVE LInv'
  <2>1. at \in {"stream", "settle"}
    BY <1>11 DEF Commit, Deliver, TypeOK, Doing, NoToolOutlivesItsTurn, AllEnded, Live
  <2>2. \A t \in 1..since : tool'[t] = tool[t]
    <3>1. tool' = tool \/ \E c, status : tool' = [tool EXCEPT ![turn][c] = status]
      BY <1>11 DEF Commit, Deliver
    <3>2. \A t \in 1..since : t # turn /\ t \in Turns  BY <2>1 DEF TypeOK, Turns
    <3> QED  BY <3>1, <3>2 DEF TypeOK
  <2>3. UNCHANGED <<since, turn, at, compacted>>
    BY <1>11 DEF Commit, Deliver, place
  <2> QED  BY <2>1, <2>2, <2>3
<1> QED
  BY <1>1, <1>2, <1>3, <1>4, <1>5, <1>7, <1>8, <1>9, <1>10, <1>11, <1>12
  DEF Next, Runner, StreamEnds, StreamInterrupted

LEMMA Leftovers == Spec => []LInv
<1>1. Init => LInv  BY DEF Init, LInv, OpenIsHidden, TurnIsOfTheDrain
<1> QED  BY <1>1, LeftoversStep, ToolsEnd, TypeCorrect, PTL DEF Spec

-----------------------------------------------------------------------------
(***************************************************************************)
(* The plan of a turn: what its fiber is about to do, against its          *)
(* publisher's records, the history and the tools.  Its parts are needed   *)
(* together: a call is made of a status that can still run because it is   *)
(* the first of its ID, which the records say only once it is marked.      *)
(***************************************************************************)
During == at \in {"stream", "settle"}
Here(c) == tool[turn][c]
Callable(c) == Here(c) \in {"absent", "pending"} \/ (Here(c) = "error" /\ last[turn])

\* The history has nothing of a turn to come, and of this one only what the
\* publisher knows.
Written ==
  /\ \A t \in Turns, c \in Calls : t > turn => tool[t][c] = "absent"
  /\ During => turn > 0 /\ \A c \in Calls : Here(c) # "absent" => "known" \in book[c]

\* What was not called may be called, and neither runs nor is hosted.
Uncalled ==
  /\ at = "stream" => \A c \in Calls : "called" \notin book[c] => Callable(c)
  /\ \A c \in Calls : fiber[c] # "none" \/ "hosted" \in book[c] => "called" \in book[c]

\* Only a local call of a turn that offers tools has a fiber.
Local ==
  /\ \A c \in Calls : "hosted" \in book[c] => fiber[c] = "none"
  /\ During /\ last[turn] => \A c \in Calls : fiber[c] = "none"

Planned(s, i) ==
  LET c == s[i].call IN
    /\ s[i].op \notin {"clear", "await", "close"}
    /\ s[i].op \in {"input", "call", "fork", "result", "failed"} => c \in Calls
    /\ s[i].op = "input" =>
         Here(c) = "absent" /\ \A j \in DOMAIN s : j # i => s[j].op # "input"
    /\ s[i].op = "call" =>
         /\ Callable(c) /\ fiber[c] = "none"
         /\ \A j \in 1..(i - 1) : s[j].op \in {"start", "input"}
         /\ s[i].yes => \A k \in DOMAIN s : s[k].op # "fork"
    /\ s[i].op = "fork" =>
         /\ "hosted" \notin book[c] /\ fiber[c] = "none"
         /\ "called" \in book[c] \/ (i > 1 /\ s[i - 1].op = "call" /\ s[i - 1].call = c)
         /\ \A j \in DOMAIN s : j # i => s[j].op # "fork"
    /\ s[i].op = "result" => "hosted" \in book[c]
    /\ s[i].op \in {"failed", "sweep", "sweepHosted"} => last[turn]

\* A sweep in the settlement comes after the tools, or after one that broke.
Settling(s, i) ==
  /\ s[i].op \notin {"input", "call", "fork", "result"}
  /\ s[i].op = "failed" => s[i].call \in Calls
  /\ s[i].op \in {"sweep", "failed"} =>
       \/ joined = "error" \/ AllEnded
       \/ s[i].op = "failed" /\ "hosted" \in book[s[i].call]
       \/ \E j \in 1..(i - 1) : s[j].op = "clear"

Plan ==
  /\ at = "stream" => \A i \in DOMAIN todo : Planned(todo, i)
  /\ at = "settle" => \A i \in DOMAIN todo : Settling(todo, i)

Recorded ==
  marked => /\ Next1.op = "input" => "known" \in book[Next1.call]
            /\ Next1.op = "call" => "called" \in book[Next1.call]

\* A call that is settled in the records and whose fiber may yet succeed.
Kept ==
  /\ \A c \in Calls :
       fiber[c] \in {"running", "ok"} /\ "settled" \in book[c] => joined = "error"
  /\ at = "stream" /\ ~last[turn] =>
       \A c \in Calls : "settled" \in book[c] => "hosted" \in book[c] \/ fiber[c] # "none"

PInv == TypeOK /\ Written /\ Uncalled /\ Local /\ Plan /\ Recorded /\ Kept

LEMMA PInit == Init => PInv
<1> SUFFICES ASSUME Init PROVE PInv  OBVIOUS
<1>1. TypeOK  BY TypeInit
<1>2. Written /\ Uncalled /\ Local  BY DEF Init, Written, Uncalled, Local, During
<1>3. Plan /\ Recorded /\ Kept  BY DEF Init, Plan, Recorded, Kept
<1> QED  BY <1>1, <1>2, <1>3 DEF PInv

LEMMA Rest ==
  ASSUME TypeOK, todo # <<>>
  PROVE  /\ Next1 \in Task /\ Next1 = todo[1] /\ 1 \in DOMAIN todo
         /\ Tail(todo) \in Seq(Task)
         /\ \A i \in DOMAIN Tail(todo) :
              i \in Nat \ {0} /\ i + 1 \in DOMAIN todo /\ Tail(todo)[i] = todo[i + 1]
         /\ at \in {"stream", "settle"}
BY DEF TypeOK, Next1

\* What is left to do when the first task is done.
LEMMA PlannedRest ==
  ASSUME PInv, at = "stream", todo # <<>>,
         Next1.op = "call" => "called" \in book[Next1.call]
  PROVE  \A i \in DOMAIN Tail(todo) : Planned(Tail(todo), i)
<1> DEFINE s == Tail(todo)
<1> SUFFICES ASSUME NEW i \in DOMAIN s PROVE Planned(s, i)  OBVIOUS
<1>1. /\ Next1 = todo[1] /\ 1 \in DOMAIN todo
      /\ i \in Nat \ {0} /\ i + 1 \in DOMAIN todo /\ s[i] = todo[i + 1]
      /\ \A j \in DOMAIN s : j \in Nat \ {0} /\ j + 1 \in DOMAIN todo /\ s[j] = todo[j + 1]
  BY Rest DEF PInv
<1>2. Planned(todo, i + 1)  BY <1>1 DEF PInv, Plan
<1>3. \A j \in 1..(i - 1) : j \in DOMAIN s /\ j + 1 \in 1..i
  BY <1>1, Rest DEF PInv
<1> HIDE DEF s
<1>4. s[i].op = "input" => \A j \in DOMAIN s : j # i => s[j].op # "input"
  BY <1>1, <1>2 DEF Planned
<1>5. s[i].op = "call" =>
        /\ \A j \in 1..(i - 1) : s[j].op \in {"start", "input"}
        /\ s[i].yes => \A k \in DOMAIN s : s[k].op # "fork"
  <2>1. s[i].op = "call" => \A j \in 1..i : todo[j].op \in {"start", "input"}
    BY <1>1, <1>2 DEF Planned
  <2> QED  BY <1>1, <1>2, <1>3, <2>1 DEF Planned
<1>6. s[i].op = "fork" =>
        /\ "called" \in book[s[i].call]
             \/ (i > 1 /\ s[i - 1].op = "call" /\ s[i - 1].call = s[i].call)
        /\ \A j \in DOMAIN s : j # i => s[j].op # "fork"
  <2>1. i > 1 => i - 1 \in DOMAIN s /\ s[i - 1] = todo[i]  BY <1>1, <1>3
  <2> QED  BY <1>1, <1>2, <2>1 DEF Planned
<1> QED  BY <1>1, <1>2, <1>4, <1>5, <1>6 DEF Planned

LEMMA SettlingRest ==
  ASSUME PInv, at = "settle", todo # <<>>, Next1.op = "clear" => AllEnded
  PROVE  \A i \in DOMAIN Tail(todo) : Settling(Tail(todo), i)
<1> DEFINE s == Tail(todo)
<1> SUFFICES ASSUME NEW i \in DOMAIN s PROVE Settling(s, i)  OBVIOUS
<1>1. /\ Next1 = todo[1] /\ 1 \in DOMAIN todo
      /\ i \in Nat \ {0} /\ i + 1 \in DOMAIN todo /\ s[i] = todo[i + 1]
      /\ \A j \in DOMAIN s : j \in Nat \ {0} /\ j + 1 \in DOMAIN todo /\ s[j] = todo[j + 1]
  BY Rest DEF PInv
<1>2. Settling(todo, i + 1)  BY <1>1 DEF PInv, Plan
<1>3. \A j \in 1..i : j = 1 \/ (j - 1 \in 1..(i - 1) /\ j - 1 \in DOMAIN s /\ todo[j] = s[j - 1])
  BY <1>1, Rest DEF PInv
<1> HIDE DEF s
<1>4. ASSUME NEW j \in 1..((i + 1) - 1), todo[j].op = "clear"
      PROVE  AllEnded \/ \E k \in 1..(i - 1) : s[k].op = "clear"
  <2>1. j \in 1..i  BY <1>1
  <2>2. CASE j = 1  BY <1>1, <1>4, <2>2
  <2>3. CASE j # 1  BY <1>3, <1>4, <2>1, <2>3
  <2> QED  BY <2>2, <2>3
<1> QED  BY <1>1, <1>2, <1>4 DEF Settling

\* What committing an event may do to a call.
LEMMA CommitWrites ==
  ASSUME PInv, Commit
  PROVE  /\ turn \in Turns /\ During /\ todo # <<>>
         /\ Next1.op = "call" => "called" \in book[Next1.call]
         /\ \A t \in Turns, c \in Calls : tool'[t][c] # tool[t][c] =>
              /\ t = turn /\ c = Next1.call
              /\ \/ Next1.op = "input" /\ Here(c) = "absent" /\ tool'[t][c] = "pending"
                      /\ "known" \in book[c]
                 \/ Next1.op = "call" /\ at = "stream" /\ Callable(c) /\ Here(c) # "absent"
                      /\ "called" \in book[c]
                 \/ /\ Next1.op \in {"result", "failed"} /\ Here(c) \in Open
                    /\ tool'[t][c] = "error" \/ (Next1.op = "result" /\ tool'[t][c] = "completed")
<1>1. todo # <<>> /\ marked /\ TypeOK  BY DEF Commit, PInv, TypeOK, Doing
<1>2. Next1 \in Task /\ Next1 = todo[1] /\ 1 \in DOMAIN todo /\ During
  BY <1>1, Rest DEF During
<1>3. turn \in Turns  BY <1>1, <1>2 DEF PInv, Written, TypeOK, Turns
<1>4. Next1.op \in {"input", "call"} =>
        /\ at = "stream"
        /\ Next1.op = "input" => Here(Next1.call) = "absent" /\ "known" \in book[Next1.call]
        /\ Next1.op = "call" => Callable(Next1.call) /\ "called" \in book[Next1.call]
  BY <1>1, <1>2 DEF PInv, Plan, Planned, Settling, Recorded, During
<1>5. tool \in [Turns -> [Calls -> Statuses]]  BY <1>1 DEF TypeOK, Statuses
<1>6. ASSUME NEW t \in Turns, NEW c \in Calls, tool'[t][c] # tool[t][c]
      PROVE  /\ t = turn /\ c = Next1.call
             /\ \/ Next1.op = "input" /\ tool'[t][c] = "pending"
                \/ Next1.op = "call" /\ Here(c) # "absent"
                \/ /\ Next1.op \in {"result", "failed"} /\ Here(c) \in Open
                   /\ tool'[t][c] = "error" \/ (Next1.op = "result" /\ tool'[t][c] = "completed")
  <2>1. CASE tool' = tool  BY <1>6, <2>1
  <2>2. CASE /\ Next1.op = "input"
             /\ tool' = [tool EXCEPT ![turn][Next1.call] = "pending"]
    BY <1>3, <1>5, <1>6, <2>2
  <2>3. CASE /\ Next1.op \in {"call", "result", "failed"}
             /\ tool' = [tool EXCEPT ![turn][Next1.call] = Projected(Next1.op, @, Next1.yes)]
    <3>1. t = turn /\ c = Next1.call
            /\ tool'[t][c] = Projected(Next1.op, tool[turn][c], Next1.yes)
      BY <1>3, <1>5, <1>6, <2>3
    <3>2. tool[turn][c] \in Statuses /\ Next1.yes \in BOOLEAN  BY <1>2, <1>3, <1>5 DEF Task
    <3> QED  BY <1>6, <2>3, <3>1, <3>2 DEF Projected, Statuses, Open, Here
  <2> QED  BY <2>1, <2>2, <2>3 DEF Commit
<1> QED  BY <1>1, <1>2, <1>3, <1>4, <1>6

\* What a tool's result may do to a call.
LEMMA DeliverWrites ==
  ASSUME PInv, NoToolOutlivesItsTurn, NEW c \in Calls, Deliver(c)
  PROVE  /\ turn \in Turns /\ During /\ "called" \in book[c]
         /\ \A t \in Turns, d \in Calls : tool'[t][d] # tool[t][d] =>
              /\ t = turn /\ d = c /\ Here(c) \in Open
              /\ tool'[t][d] \in {"error", "completed"}
<1>1. TypeOK /\ fiber[c] \in Live /\ fiber[c] # "none"  BY DEF Deliver, PInv, Live
<1>2. During  BY <1>1 DEF NoToolOutlivesItsTurn, AllEnded, During, TypeOK
<1>3. turn \in Turns  BY <1>1, <1>2 DEF PInv, Written, TypeOK, Turns
<1>4. tool \in [Turns -> [Calls -> Statuses]]  BY <1>1 DEF TypeOK, Statuses
<1>5. ASSUME NEW t \in Turns, NEW d \in Calls, tool'[t][d] # tool[t][d]
      PROVE  /\ t = turn /\ d = c /\ Here(c) \in Open
             /\ tool'[t][d] \in {"error", "completed"}
  <2>1. tool' = [tool EXCEPT ![turn][c] = Projected("result", @, fiber[c] = "ok")]
    BY <1>5 DEF Deliver
  <2>2. t = turn /\ d = c /\ tool'[t][d] = Projected("result", tool[turn][c], fiber[c] = "ok")
    BY <1>3, <1>4, <1>5, <2>1
  <2>3. tool[turn][c] \in Statuses  BY <1>3, <1>4
  <2> QED  BY <1>5, <2>2, <2>3 DEF Projected, Statuses, Open, Here
<1> QED  BY <1>1, <1>2, <1>3, <1>5 DEF PInv, Uncalled

\* Steps that leave the turn, its records and its tools alone.
LEMMA PlanIdle ==
  ASSUME PInv, [Next]_vars,
         \/ UNCHANGED vars \/ Interrupt \/ Compact \/ EndDrain \/ Stopped \/ Recover
         \/ StartDrain \/ BeginTurn \/ Crash \/ EndTurn
  PROVE  PInv'
<1>0. TypeOK /\ TypeOK'  BY TypeStep DEF PInv
<1>1. CASE UNCHANGED vars \/ Interrupt \/ Compact
  <2>1. UNCHANGED <<tool, place, publisher, fibers>>
    BY <1>1 DEF vars, durable, Interrupt, Compact
  <2>2. Written' /\ Uncalled' /\ Local'
    BY <2>1 DEF PInv, place, publisher, fibers, Written, Uncalled, Local, During, Here, Callable
  <2>3. Plan' /\ Recorded' /\ Kept'
    BY <2>1 DEF PInv, place, publisher, fibers, Plan, Recorded, Kept, Planned, Settling, Here,
                Callable, Next1, AllEnded
  <2> QED  BY <1>0, <2>2, <2>3 DEF PInv
<1>2. CASE EndDrain \/ Stopped \/ EndTurn
  <2>1. /\ UNCHANGED <<tool, last, turn, book, flags, marked, fibers>>
        /\ at' \in {"idle", "ready"} /\ ~marked
    BY <1>0, <1>2 DEF EndDrain, Stopped, EndTurn, durable, publisher, Doing, TypeOK, Publications
  <2>2. Written' /\ Uncalled' /\ Local'
    BY <2>1 DEF PInv, fibers, Written, Uncalled, Local, During
  <2>3. Plan' /\ Recorded' /\ Kept'
    BY <2>1 DEF PInv, fibers, Plan, Recorded, Kept
  <2> QED  BY <1>0, <2>2, <2>3 DEF PInv
<1>3. CASE Recover
  <2>1. /\ UNCHANGED <<last, turn, publisher, fibers>>
        /\ at' \in {"recover", "ready"} /\ at = "recover" /\ todo = <<>> /\ ~marked
    BY <1>0, <1>3 DEF Recover, TypeOK, Doing
  <2>2. \A t \in Turns, c \in Calls : tool[t][c] = "absent" => tool'[t][c] = "absent"
    <3>1. ASSUME NEW call \in OpenCalls,
                 tool' = [tool EXCEPT ![call[1]][call[2]] = "error"],
                 NEW t \in Turns, NEW c \in Calls, tool[t][c] = "absent"
          PROVE  tool'[t][c] = "absent"
      <4>1. /\ call[1] \in Turns /\ call[2] \in Calls
            /\ call[1] # t \/ call[2] # c
        BY <3>1 DEF OpenCalls, Visible, Open
      <4> QED  BY <1>0, <3>1, <4>1 DEF TypeOK
    <3> QED  BY <1>3, <3>1 DEF Recover
  <2>3. Written' /\ Uncalled' /\ Local'
    BY <2>1, <2>2 DEF PInv, publisher, fibers, Written, Uncalled, Local, During
  <2>4. Plan' /\ Recorded' /\ Kept'
    BY <2>1 DEF PInv, publisher, fibers, Plan, Recorded, Kept
  <2> QED  BY <1>0, <2>3, <2>4 DEF PInv
<1>4. CASE StartDrain \/ BeginTurn \/ Crash
  <2>1. /\ Reset /\ tool' = tool /\ last' = last
        /\ (at' \in {"idle", "recover"} /\ turn' = turn) \/ (at' = "stream" /\ turn' = turn + 1)
    BY <1>4 DEF StartDrain, BeginTurn, Crash, durable
  <2>2. /\ \A c \in Calls : book'[c] = {} /\ fiber'[c] = "none"
        /\ todo' = <<>> /\ ~marked'
    BY <2>1 DEF Reset
  <2>3. \A t \in Turns, c \in Calls : t > turn' => tool'[t][c] = "absent"
    BY <1>0, <2>1 DEF PInv, Written, TypeOK, Turns
  <2>4. at' = "stream" => turn' > 0 /\ turn' \in Turns /\ \A c \in Calls : tool'[turn'][c] = "absent"
    BY <1>0, <2>1 DEF PInv, Written, TypeOK, Turns
  <2>5. Written' /\ Uncalled' /\ Local'
    BY <2>1, <2>2, <2>3, <2>4 DEF Written, Uncalled, Local, During, Here, Callable
  <2>6. Plan' /\ Recorded' /\ Kept'
    BY <2>1, <2>2 DEF Plan, Recorded, Kept
  <2> QED  BY <1>0, <2>5, <2>6 DEF PInv
<1> QED  BY <1>1, <1>2, <1>3, <1>4

LEMMA Appended ==
  ASSUME NEW S, NEW s \in Seq(S), NEW x \in S, NEW t \in Seq(S),
         Len(t) = Len(s) + 1, t[Len(s) + 1] = x, \A i \in 1..Len(s) : t[i] = s[i]
  PROVE  s \o <<x>> = t
<1>1. <<x>> \in Seq(S) /\ Len(<<x>>) = 1 /\ <<x>>[1] = x  OBVIOUS
<1>2. s \o <<x>> \in Seq(S) /\ Len(s \o <<x>>) = Len(t)  BY <1>1
<1>3. \A i \in 1..Len(t) : (s \o <<x>>)[i] = t[i]  BY <1>1
<1> QED  BY <1>2, <1>3, SeqEqual

LEMMA Appended1 ==
  ASSUME NEW S, NEW x \in S, NEW y \in S
  PROVE  <<x>> \o <<y>> = <<x, y>>
<1> DEFINE s == <<x>>
           t == <<x, y>>
<1>1. s \in Seq(S) /\ Len(s) = 1 /\ s[1] = x  OBVIOUS
<1>2. t \in Seq(S) /\ Len(t) = 2 /\ t[1] = x /\ t[2] = y  OBVIOUS
<1> HIDE DEF s, t
<1>3. /\ Len(t) = Len(s) + 1 /\ t[Len(s) + 1] = y
      /\ \A i \in 1..Len(s) : t[i] = s[i]
  BY <1>1, <1>2
<1>4. s \o <<y>> = t  BY <1>1, <1>2, <1>3, Appended
<1> QED  BY <1>4 DEF s, t

LEMMA Appended2 ==
  ASSUME NEW S, NEW x \in S, NEW y \in S, NEW z \in S
  PROVE  <<x, y>> \o <<z>> = <<x, y, z>>
<1> DEFINE s == <<x, y>>
           t == <<x, y, z>>
<1>1. s \in Seq(S) /\ Len(s) = 2 /\ s[1] = x /\ s[2] = y  OBVIOUS
<1>2. t \in Seq(S) /\ Len(t) = 3 /\ t[1] = x /\ t[2] = y /\ t[3] = z  OBVIOUS
<1> HIDE DEF s, t
<1>3. /\ Len(t) = Len(s) + 1 /\ t[Len(s) + 1] = z
      /\ \A i \in 1..Len(s) : t[i] = s[i]
  BY <1>1, <1>2
<1>4. s \o <<z>> = t  BY <1>1, <1>2, <1>3, Appended
<1> QED  BY <1>4 DEF s, t

LEMMA Appended3 ==
  ASSUME NEW S, NEW w \in S, NEW x \in S, NEW y \in S, NEW z \in S
  PROVE  <<w, x, y>> \o <<z>> = <<w, x, y, z>>
<1> DEFINE s == <<w, x, y>>
           t == <<w, x, y, z>>
<1>1. s \in Seq(S) /\ Len(s) = 3 /\ s[1] = w /\ s[2] = x /\ s[3] = y  OBVIOUS
<1>2. t \in Seq(S) /\ Len(t) = 4 /\ t[1] = w /\ t[2] = x /\ t[3] = y /\ t[4] = z  OBVIOUS
<1> HIDE DEF s, t
<1>3. /\ Len(t) = Len(s) + 1 /\ t[Len(s) + 1] = z
      /\ \A i \in 1..Len(s) : t[i] = s[i]
  BY <1>1, <1>2
<1>4. s \o <<z>> = t  BY <1>1, <1>2, <1>3, Appended
<1> QED  BY <1>4 DEF s, t

\* The tasks an event of the provider gives are a plan.
LEMMA Handled ==
  ASSUME PInv, [Next]_vars, NEW tasks, Handles(tasks),
         at = "stream" => \A i \in DOMAIN tasks : Planned(tasks, i)
  PROVE  PInv'
<1>1. TypeOK /\ TypeOK'  BY TypeStep DEF PInv
<1>2. /\ todo' = tasks /\ ~marked /\ ~marked' /\ at = "stream"
      /\ UNCHANGED <<durable, place, book, fibers>>
  BY <1>1 DEF Handles, Reads, TypeOK, Doing
<1>3. Written' /\ Uncalled' /\ Local'
  BY <1>2 DEF PInv, durable, place, fibers, Written, Uncalled, Local, During, Here, Callable
<1>4. Plan' /\ Recorded' /\ Kept'
  BY <1>2 DEF PInv, durable, place, fibers, Plan, Recorded, Kept, Planned, Here, Callable
<1> QED  BY <1>1, <1>3, <1>4 DEF PInv

LEMMA PlanProvider == ASSUME PInv, [Next]_vars, Provider PROVE PInv'
<1>1. /\ at = "stream"
      /\ \A c \in Calls : "called" \notin book[c] =>
           Callable(c) /\ fiber[c] = "none" /\ "hosted" \notin book[c]
      /\ \A c \in Calls : book[c] = {} => Here(c) = "absent"
  <2>1. at = "stream"
    BY DEF Provider, Text, StepFinish, ProviderError, Input, Call, Result, Handles, Reads
  <2> QED  BY <2>1 DEF PInv, Uncalled, Written, During
<1>2. Starting = <<>> \/ Starting = <<On("start", None, FALSE)>>  BY DEF Starting, Do
<1>9. \A c \in Calls :
        \/ StartInput(c) = <<On("input", c, FALSE)>>
        \/ StartInput(c) = <<On("start", None, FALSE), On("input", c, FALSE)>>
  <2> TAKE c \in Calls
  <2>1. On("start", None, FALSE) \in Task /\ On("input", c, FALSE) \in Task
    BY Tasked DEF Tasks, Publications
  <2>2. <<On("start", None, FALSE)>> \o <<On("input", c, FALSE)>>
          = <<On("start", None, FALSE), On("input", c, FALSE)>>
    BY <2>1, Appended1
  <2>3. <<>> \o <<On("input", c, FALSE)>> = <<On("input", c, FALSE)>>  OBVIOUS
  <2> QED  BY <1>2, <2>2, <2>3, Zenon DEF StartInput
<1>3. CASE Text
  <2>1. Handles(Starting)  BY <1>3 DEF Text
  <2>2. \A i \in DOMAIN Starting : Planned(Starting, i)  BY <1>2 DEF Planned, On
  <2> QED  BY <2>1, <2>2, Handled
<1>4. CASE StepFinish
  <2>1. Handles(<<>>)  BY <1>4 DEF StepFinish
  <2> QED  BY <2>1, Handled
<1>5. CASE ProviderError
  <2>1. Handles(FailStep)  BY <1>5 DEF ProviderError
  <2>2. \/ FailStep = <<>> \/ FailStep = <<On("failStep", None, FALSE)>>
        \/ FailStep = <<On("start", None, FALSE), On("failStep", None, FALSE)>>
    <3>1. On("start", None, FALSE) \in Task /\ On("failStep", None, FALSE) \in Task
      BY Tasked DEF Tasks, Publications
    <3>2. <<On("start", None, FALSE)>> \o <<On("failStep", None, FALSE)>>
            = <<On("start", None, FALSE), On("failStep", None, FALSE)>>
      BY <3>1, Appended1
    <3>3. <<>> \o <<On("failStep", None, FALSE)>> = <<On("failStep", None, FALSE)>>  OBVIOUS
    <3> QED  BY <1>2, <3>2, <3>3, Zenon DEF FailStep, Do
  <2>3. \A i \in DOMAIN FailStep : Planned(FailStep, i)  BY <2>2 DEF Planned, On
  <2> QED  BY <2>1, <2>3, Handled
<1>6. ASSUME NEW c \in Calls, Input(c) PROVE PInv'
  <2>1. Handles(StartInput(c)) /\ Here(c) = "absent"  BY <1>1, <1>6 DEF Input
  <2>2. \/ StartInput(c) = <<On("input", c, FALSE)>>
        \/ StartInput(c) = <<On("start", None, FALSE), On("input", c, FALSE)>>
    BY <1>9
  <2>3. \A i \in DOMAIN StartInput(c) : Planned(StartInput(c), i)  BY <2>1, <2>2 DEF Planned, On
  <2> QED  BY <2>1, <2>3, Handled
<1>7. ASSUME NEW c \in Calls, NEW yes \in BOOLEAN, Call(c, yes) PROVE PInv'
  <2> DEFINE S == On("start", None, FALSE)
             I == On("input", c, FALSE)
             C == On("call", c, yes)
             F == On("fork", c, FALSE)
             a == IF book[c] = {} THEN StartInput(c) ELSE <<>>
             d == IF yes THEN <<>> ELSE <<F>>
             b == a \o <<C>>
             s == b \o d
  <2>1. Handles(s)  BY <1>7 DEF Call
  <2>2. Callable(c) /\ fiber[c] = "none" /\ "hosted" \notin book[c]
    BY <1>1, <1>7 DEF Call, NotCalled
  <2>3. S \in Task /\ I \in Task /\ C \in Task /\ F \in Task
    BY Tasked DEF Tasks, Publications
  <2>4. a = <<>> \/ (Here(c) = "absent" /\ (a = <<I>> \/ a = <<S, I>>))  BY <1>1, <1>9
  <2>5. (d = <<>> /\ yes) \/ (d = <<F>> /\ ~yes)  OBVIOUS
  <2>6. /\ S.op = "start" /\ I.op = "input" /\ I.call = c /\ F.op = "fork" /\ F.call = c
        /\ C.op = "call" /\ C.call = c /\ C.yes = yes
    BY DEF On
  <2> HIDE DEF S, I, C, F, a, d
  <2>7. /\ b \in Seq(Task)
        /\ b = <<C>> \/ (Here(c) = "absent" /\ (b = <<I, C>> \/ b = <<S, I, C>>))
    <3>1. <<>> \o <<C>> = <<C>> /\ <<I>> \o <<C>> = <<I, C>> /\ <<S, I>> \o <<C>> = <<S, I, C>>
      BY <2>3, Appended1, Appended2
    <3>2. <<C>> \in Seq(Task) /\ <<I, C>> \in Seq(Task) /\ <<S, I, C>> \in Seq(Task)
      BY <2>3
    <3> QED  BY <2>4, <3>1, <3>2, Zenon
  <2> HIDE DEF b
  <2>8. CASE d = <<>> /\ yes
    <3>1. s = b  BY <2>7, <2>8, ConcatEmptySeq
    <3>2. \A i \in DOMAIN b : Planned(b, i)  BY <2>2, <2>6, <2>7, <2>8 DEF Planned
    <3> QED  BY <2>1, <3>1, <3>2, Handled
  <2>9. CASE d = <<F>> /\ ~yes
    <3>1. s = <<C, F>> \/ (Here(c) = "absent" /\ (s = <<I, C, F>> \/ s = <<S, I, C, F>>))
      <4>1. <<C>> \o <<F>> = <<C, F>>  BY <2>3, Appended1
      <4>2. <<I, C>> \o <<F>> = <<I, C, F>>  BY <2>3, Appended2
      <4>3. <<S, I, C>> \o <<F>> = <<S, I, C, F>>  BY <2>3, Appended3
      <4> QED  BY <2>7, <2>9, <4>1, <4>2, <4>3, Zenon
    <3> HIDE DEF s
    <3>2. \A i \in DOMAIN s : Planned(s, i)  BY <2>2, <2>6, <2>9, <3>1 DEF Planned
    <3> QED  BY <2>1, <3>2, Handled
  <2> QED  BY <2>5, <2>8, <2>9
<1>8. ASSUME NEW c \in Calls, NEW yes \in BOOLEAN, Result(c, yes) PROVE PInv'
  <2>1. Handles(<<On("result", c, yes)>>) /\ "hosted" \in book[c]  BY <1>8 DEF Result
  <2>2. \A i \in DOMAIN <<On("result", c, yes)>> : Planned(<<On("result", c, yes)>>, i)
    BY <2>1 DEF Planned, On
  <2> QED  BY <2>1, <2>2, Handled
<1> QED  BY <1>3, <1>4, <1>5, <1>6, <1>7, <1>8 DEF Provider

\* The end of the stream, whatever was under way.
LEMMA PlanSettles == ASSUME PInv, [Next]_vars, NEW x, Settles(x) PROVE PInv'
<1>1. TypeOK /\ TypeOK'  BY TypeStep DEF PInv
<1>2. /\ at = "stream" /\ at' = "settle" /\ todo' = Before(x) /\ ~marked'
      /\ UNCHANGED <<tool, last, turn, book, fibers>>
  BY DEF Settles, durable
<1>3. \A i \in DOMAIN Before(x) :
        Before(x)[i].op \in {"sweepHosted", "start", "failStep", "clear", "await"}
  <2> DEFINE E == {t \in Task : t.op \in {"sweepHosted", "start", "failStep", "clear", "await"}}
  <2>1. \A op \in {"sweepHosted", "start", "failStep", "clear", "await"} : Do(op) \in Seq(E)
    <3> TAKE op \in {"sweepHosted", "start", "failStep", "clear", "await"}
    <3>1. On(op, None, FALSE) \in Task /\ On(op, None, FALSE).op = op
      BY Tasked DEF Tasks, Publications, Sweeps, On
    <3>2. On(op, None, FALSE) \in E  BY <3>1
    <3> QED  BY <3>2, Single DEF Do
  <2>2. <<>> \in Seq(E)  OBVIOUS
  <2> HIDE DEF E
  <2>3. Starting \in Seq(E) /\ FailStep \in Seq(E)  BY <2>1, <2>2, Joined DEF Starting, FailStep
  <2>4. Do("sweepHosted") \o FailStep \in Seq(E)  BY <2>1, <2>3, Joined
  <2>5. /\ When(x = "llm" /\ ~Rejected, Do("sweepHosted") \o FailStep) \in Seq(E)
        /\ When(x = "interrupted", Do("clear")) \in Seq(E)
    BY <2>1, <2>2, <2>4 DEF When
  <2>6. Before(x) \in Seq(E)  BY <2>1, <2>5, Joined DEF Before
  <2>7. \A i \in DOMAIN Before(x) : Before(x)[i] \in E  BY <2>6
  <2> QED  BY <2>7 DEF E
<1>4. Written' /\ Uncalled' /\ Local'
  BY <1>2 DEF PInv, fibers, Written, Uncalled, Local, During, Here, Callable
<1>5. Plan' /\ Recorded' /\ Kept'
  <2>1. ASSUME NEW s, s = todo' PROVE \A i \in DOMAIN s : Settling(s, i)'
    BY <1>2, <1>3, <2>1 DEF Settling
  <2> QED  BY <1>2, <2>1 DEF PInv, fibers, Plan, Recorded, Kept
<1> QED  BY <1>1, <1>4, <1>5 DEF PInv

LEMMA PlanMark == ASSUME PInv, [Next]_vars, Mark PROVE PInv'
<1>1. TypeOK /\ TypeOK' /\ todo # <<>>  BY TypeStep DEF PInv, Mark, Doing
<1>2. /\ UNCHANGED <<tool, last, turn, at, todo, fibers>>
      /\ Next1 \in Task /\ Next1 = todo[1] /\ 1 \in DOMAIN todo /\ During
  BY <1>1, Rest DEF Mark, durable, place, During
<1> DEFINE k == Next1.call
<1>3. book \in [Calls -> SUBSET {"known", "called", "hosted", "settled"}]  BY <1>1 DEF TypeOK
<1>4. \A c \in Calls :
        /\ book[c] \subseteq book'[c]
        /\ c # k => book'[c] = book[c]
        /\ "hosted" \in book'[c] /\ "hosted" \notin book[c] => Next1.op = "call" /\ Next1.yes
        /\ "hosted" \in book'[c] /\ "hosted" \notin book[c] => "called" \in book'[c]
        /\ "settled" \in book'[c] /\ "settled" \notin book[c] => Next1.op \in {"result", "failed"}
  BY <1>3 DEF Mark
<1>5. /\ Next1.op = "input" /\ k \in Calls => "known" \in book'[k]
      /\ Next1.op = "call" /\ k \in Calls => "called" \in book'[k]
  BY <1>3 DEF Mark
<1>6. at = "stream" => Planned(todo, 1)  BY <1>2 DEF PInv, Plan
<1>7. at = "settle" => Settling(todo, 1)  BY <1>2 DEF PInv, Plan
<1> HIDE DEF k
<1>8. Written'
  BY <1>2, <1>4 DEF PInv, Written, During, Here
<1>9. Uncalled'
  BY <1>2, <1>4 DEF PInv, Uncalled, fibers, Callable, Here
<1>10. Local'
  <2>1. ASSUME NEW c \in Calls, "hosted" \in book'[c] PROVE fiber[c] = "none"
    <3>1. CASE "hosted" \in book[c]  BY <3>1 DEF PInv, Local
    <3>2. CASE "hosted" \notin book[c]
      <4>1. Next1.op = "call" /\ c = k  BY <1>4, <2>1, <3>2
      <4>2. at = "stream"  BY <1>2, <1>7, <4>1 DEF During, Settling
      <4> QED  BY <1>2, <1>6, <4>1, <4>2 DEF Planned, k
    <3> QED  BY <3>1, <3>2
  <2> QED  BY <1>2, <2>1 DEF PInv, Local, fibers, During
<1>11. Plan'
  <2>1. ASSUME at = "stream", NEW i \in DOMAIN todo PROVE Planned(todo, i)'
    <3>1. Planned(todo, i)  BY <2>1 DEF PInv, Plan
    <3>2. ASSUME todo[i].op = "fork" PROVE "hosted" \notin book'[todo[i].call]
      <4>1. todo[i].call \in Calls /\ "hosted" \notin book[todo[i].call]
        BY <3>1, <3>2 DEF Planned
      <4>2. Next1.op = "call" => ~Next1.yes  BY <1>2, <1>6, <2>1, <3>2 DEF Planned
      <4>3. Next1.op = "call" /\ Next1.yes => FALSE  BY <4>2
      <4> QED  BY <1>4, <4>1, <4>3
    <3>3. \A c \in Calls : book[c] \subseteq book'[c]  BY <1>4
    <3> QED  BY <1>2, <3>1, <3>2, <3>3 DEF Planned, Here, Callable, fibers
  <2>2. ASSUME at = "settle", NEW i \in DOMAIN todo PROVE Settling(todo, i)'
    <3>1. Settling(todo, i)  BY <2>2 DEF PInv, Plan
    <3>2. \A c \in Calls : book[c] \subseteq book'[c]  BY <1>4
    <3> QED  BY <1>2, <3>1, <3>2 DEF Settling, fibers, AllEnded
  <2> QED  BY <1>2, <2>1, <2>2 DEF Plan
<1>12. Recorded'
  <2>1. Next1.op \in {"input", "call"} => k \in Calls
    BY <1>2, <1>6, <1>7 DEF During, Planned, Settling, k
  <2> QED  BY <1>2, <1>5, <2>1 DEF Recorded, Next1, k
<1>13. Kept'
  <2>1. ASSUME NEW c \in Calls, "settled" \in book'[c], "settled" \notin book[c]
        PROVE  /\ fiber[c] \in {"running", "ok"} => joined = "error"
               /\ at = "stream" /\ ~last[turn] => "hosted" \in book'[c]
    <3>1. c = k /\ Next1.op \in {"result", "failed"}  BY <1>4, <2>1
    <3>2. CASE at = "stream" /\ Next1.op = "result"
      <4>1. "hosted" \in book[c]  BY <1>2, <1>6, <3>1, <3>2 DEF Planned, k
      <4>2. fiber[c] = "none"  BY <4>1 DEF PInv, Local
      <4> QED  BY <1>4, <4>1, <4>2
    <3>3. CASE at = "stream" /\ Next1.op = "failed"
      <4>1. last[turn]  BY <1>2, <1>6, <3>3 DEF Planned
      <4>2. fiber[c] = "none"  BY <1>2, <4>1 DEF PInv, Local
      <4> QED  BY <4>1, <4>2
    <3>4. CASE at = "settle"
      <4>1. joined = "error" \/ AllEnded \/ "hosted" \in book[c]
        BY <1>2, <1>7, <3>1, <3>4 DEF Settling, k
      <4>2. "hosted" \in book[c] => fiber[c] = "none"  BY DEF PInv, Local
      <4> QED  BY <3>4, <4>1, <4>2 DEF AllEnded, Live
    <3> QED  BY <1>2, <3>1, <3>2, <3>3, <3>4 DEF During
  <2>2. UNCHANGED <<joined, fiber>>  BY <1>2 DEF fibers
  <2>3. \A c \in Calls : "hosted" \in book[c] => "hosted" \in book'[c]  BY <1>4
  <2> QED  BY <1>2, <2>1, <2>2, <2>3 DEF PInv, Kept
<1> QED  BY <1>1, <1>8, <1>9, <1>10, <1>11, <1>12, <1>13 DEF PInv

LEMMA PlanCommit == ASSUME PInv, [Next]_vars, Commit PROVE PInv'
<1>1. TypeOK /\ TypeOK' /\ todo # <<>> /\ turn \in Turns /\ During
  BY CommitWrites, TypeStep DEF PInv
<1>2. /\ UNCHANGED <<last, turn, at, book, fibers>>
      /\ todo' = Tail(todo) /\ ~marked'
  BY DEF Commit, place
<1>3. /\ Next1 = todo[1] /\ 1 \in DOMAIN todo
      /\ \A i \in DOMAIN Tail(todo) :
           i \in Nat \ {0} /\ i + 1 \in DOMAIN todo /\ Tail(todo)[i] = todo[i + 1]
  BY <1>1, Rest
<1>4. Written'
  <2>1. \A t \in Turns, c \in Calls : t > turn => tool'[t][c] = tool[t][c]
    BY <1>1, CommitWrites DEF Turns
  <2>2. \A c \in Calls : tool'[turn][c] # "absent" => "known" \in book[c]
    BY <1>1, CommitWrites DEF PInv, Written, Here, Open
  <2> QED  BY <1>2, <2>1, <2>2 DEF PInv, Written, During, Here
<1>5. Uncalled'
  <2>1. ASSUME at = "stream", NEW c \in Calls, "called" \notin book[c] PROVE Callable(c)'
    <3>1. CASE tool'[turn][c] = tool[turn][c]
      BY <1>2, <2>1, <3>1 DEF PInv, Uncalled, Callable, Here
    <3>2. CASE tool'[turn][c] # tool[turn][c]
      <4>1. Next1.op # "result" /\ (Next1.op = "failed" => last[turn])
        <5>1. Planned(todo, 1)  BY <1>3, <2>1 DEF PInv, Plan
        <5>2. c = Next1.call  BY <1>1, <3>2, CommitWrites
        <5>3. Next1.op = "result" => "called" \in book[c]
          BY <1>3, <5>1, <5>2 DEF PInv, Planned, Uncalled
        <5> QED  BY <1>3, <2>1, <5>1, <5>3 DEF Planned
      <4>2. tool'[turn][c] = "pending" \/ (tool'[turn][c] = "error" /\ last[turn])
        BY <1>1, <2>1, <3>2, <4>1, CommitWrites
      <4> QED  BY <1>2, <4>2 DEF Callable, Here
    <3> QED  BY <3>1, <3>2
  <2> QED  BY <1>2, <2>1 DEF PInv, Uncalled, fibers
<1>6. Local'  BY <1>2 DEF PInv, Local, During, fibers
<1>7. ASSUME NEW s, s = todo' PROVE Plan'
  <2>1. ASSUME at = "stream", NEW i \in DOMAIN s,
               NEW c, c = s[i].call
        PROVE  Planned(s, i)'
    <3>0. s = Tail(todo)  BY <1>2, <1>7
    <3>1. Planned(s, i)  BY <3>0, <1>1, <2>1, CommitWrites, PlannedRest
    <3>2. Planned(todo, i + 1) /\ s[i] = todo[i + 1] /\ 1 \in 1..((i + 1) - 1) /\ i + 1 # 1
      BY <1>3, <2>1, <3>0 DEF PInv, Plan
    <3>3. s[i].op = "input" => Here(c)' = "absent"
      <4> SUFFICES ASSUME s[i].op = "input", Here(c)' # "absent" PROVE FALSE  OBVIOUS
      <4>1. c \in Calls /\ Here(c) = "absent" /\ Next1.op # "input"
        BY <1>3, <2>1, <3>1, <3>2 DEF Planned
      <4>2. tool'[turn][c] # tool[turn][c]  BY <1>2, <4>1 DEF Here
      <4> QED  BY <1>1, <4>1, <4>2, CommitWrites DEF Open
    <3>4. s[i].op = "call" => Callable(c)'
      <4> SUFFICES ASSUME s[i].op = "call" PROVE Callable(c)'  OBVIOUS
      <4>1. c \in Calls /\ Callable(c) /\ Next1.op \in {"start", "input"}
        BY <1>3, <2>1, <3>1, <3>2 DEF Planned
      <4>2. tool'[turn][c] = tool[turn][c] \/ tool'[turn][c] = "pending"
        BY <1>1, <4>1, CommitWrites
      <4> QED  BY <1>2, <4>1, <4>2 DEF Callable, Here
    <3> QED  BY <1>2, <2>1, <3>1, <3>3, <3>4 DEF Planned, fibers
  <2>2. ASSUME at = "settle", NEW i \in DOMAIN s PROVE Settling(s, i)'
    <3>0. s = Tail(todo)  BY <1>2, <1>7
    <3>1. Settling(s, i)
      <4>1. Next1.op # "clear"  BY DEF Commit, PInv, TypeOK, Doing, Publications
      <4> QED  BY <1>1, <2>2, <3>0, <4>1, SettlingRest
    <3> QED  BY <1>2, <3>1 DEF Settling, fibers, AllEnded
  <2> QED  BY <1>2, <1>7, <2>1, <2>2 DEF Plan, Planned, Settling
<1>8. Recorded' /\ Kept'  BY <1>2 DEF PInv, Recorded, Kept, fibers
<1> QED  BY <1>1, <1>4, <1>5, <1>6, <1>7, <1>8 DEF PInv

LEMMA PlanSweep == ASSUME PInv, [Next]_vars, Sweep PROVE PInv'
<1>1. TypeOK /\ TypeOK' /\ todo # <<>> /\ Next1.op \in Sweeps /\ ~marked
  BY TypeStep DEF PInv, Sweep, Doing, TypeOK, Sweeps, Publications
<1>2. UNCHANGED <<tool, last, turn, at, book, marked, fibers>>
  BY DEF Sweep, durable, place
<1>3. Written' /\ Uncalled' /\ Local'
  BY <1>2 DEF PInv, fibers, Written, Uncalled, Local, During, Here, Callable
<1>4. Recorded' /\ Kept'  BY <1>1, <1>2 DEF PInv, fibers, Recorded, Kept
<1>5. ASSUME NEW s, s = todo' PROVE Plan'
  <2>1. CASE s = Tail(todo)
    <3>1. at = "stream" => \A i \in DOMAIN s : Planned(s, i)
      BY <1>1, <2>1, PlannedRest DEF Sweeps
    <3>2. at = "settle" => \A i \in DOMAIN s : Settling(s, i)
      BY <1>1, <2>1, SettlingRest DEF Sweeps
    <3> QED  BY <1>2, <1>5, <3>1, <3>2
             DEF Plan, Planned, Settling, fibers, Here, Callable, AllEnded
  <2>2. ASSUME NEW c \in Unsettled(Next1.op = "sweepHosted"),
               s = <<On("failed", c, FALSE)>> \o todo
        PROVE  Plan'
    <3>1. /\ todo \in Seq(Task) /\ c \in Calls /\ Next1 = todo[1] /\ 1 \in DOMAIN todo
          /\ Next1.op = "sweepHosted" => "hosted" \in book[c]
      BY <1>1, <2>2, Rest DEF TypeOK, Unsettled
    <3>2. /\ s[1] = On("failed", c, FALSE)
          /\ \A i \in DOMAIN s : i \in Nat \ {0}
          /\ \A i \in DOMAIN s : i # 1 => i - 1 \in DOMAIN todo /\ s[i] = todo[i - 1]
          /\ \A i \in DOMAIN todo : i + 1 \in DOMAIN s /\ s[i + 1] = todo[i]
      BY <2>2, <3>1
    <3>3. s[1].op = "failed" /\ s[1].call = c  BY <3>2 DEF On
    <3>4. ASSUME at = "stream", NEW i \in DOMAIN s PROVE Planned(s, i)
      <4>1. CASE i = 1
        <5>1. last[turn]  BY <1>1, <3>1, <3>2, <4>1, <3>4 DEF PInv, Plan, Planned, Sweeps
        <5> QED  BY <3>1, <3>3, <4>1, <5>1 DEF Planned
      <4>2. CASE i # 1
        <5>1. /\ Planned(todo, i - 1) /\ s[i] = todo[i - 1] /\ i - 1 \in Nat \ {0}
              /\ i - 1 # 1 => s[i - 1] = todo[(i - 1) - 1]
          BY <3>1, <3>2, <3>4, <4>2 DEF PInv, Plan
        <5>2. s[i].op # "call"
          <6>1. CASE i - 1 = 1  BY <1>1, <3>1, <5>1, <6>1 DEF Sweeps
          <6>2. CASE i - 1 # 1
            <7>0. i \in Nat \ {0}  BY <3>2
            <7>1. 1 \in 1..((i - 1) - 1)  BY <4>2, <6>2, <7>0
            <7> QED  BY <1>1, <3>1, <5>1, <7>1 DEF Planned, Sweeps
          <6> QED  BY <6>1, <6>2
        <5>3. ASSUME NEW j \in DOMAIN s, j # i
              PROVE  s[j].op = "failed"
                       \/ (j - 1 # i - 1 /\ j - 1 \in DOMAIN todo /\ s[j] = todo[j - 1])
          <6>1. i \in Nat /\ j \in Nat  BY <3>2
          <6>2. CASE j = 1  BY <3>3, <6>2
          <6>3. CASE j # 1
            <7>1. j - 1 \in DOMAIN todo /\ s[j] = todo[j - 1]  BY <3>2, <6>3
            <7>2. j - 1 # i - 1  BY <5>3, <6>1
            <7> QED  BY <7>1, <7>2
          <6> QED  BY <6>2, <6>3
        <5>4. s[i].op = "input" => \A j \in DOMAIN s : j # i => s[j].op # "input"
          BY <5>1, <5>3 DEF Planned
        <5>5. s[i].op = "fork" => \A j \in DOMAIN s : j # i => s[j].op # "fork"
          BY <5>1, <5>3 DEF Planned
        <5>6. s[i].op = "fork" => "called" \in book[s[i].call]
          <6> SUFFICES ASSUME s[i].op = "fork", "called" \notin book[s[i].call] PROVE FALSE
            OBVIOUS
          <6>1. i - 1 > 1 /\ todo[(i - 1) - 1].op = "call"  BY <5>1 DEF Planned
          <6>2. (i - 1) - 1 \in DOMAIN todo /\ Planned(todo, (i - 1) - 1)
            <7>1. (i - 1) - 1 \in DOMAIN todo  BY <3>1, <3>2, <3>4, <4>2, <6>1
            <7> QED  BY <3>4, <7>1 DEF PInv, Plan
          <6>3. CASE (i - 1) - 1 = 1  BY <1>1, <3>1, <6>1, <6>3 DEF Sweeps
          <6>4. CASE (i - 1) - 1 # 1
            <7>0. i \in Nat  BY <3>2
            <7>1. 1 \in 1..(((i - 1) - 1) - 1)  BY <6>1, <6>4, <7>0
            <7> QED  BY <1>1, <3>1, <6>1, <6>2, <7>1 DEF Planned, Sweeps
          <6> QED  BY <6>3, <6>4
        <5> QED  BY <5>1, <5>2, <5>4, <5>5, <5>6 DEF Planned
      <4> QED  BY <4>1, <4>2
    <3>5. ASSUME at = "settle", NEW i \in DOMAIN s PROVE Settling(s, i)
      <4>1. CASE i = 1
        <5>1. Settling(todo, 1) /\ 1..(1 - 1) = {}  BY <3>1, <3>5 DEF PInv, Plan
        <5>2. joined = "error" \/ AllEnded \/ "hosted" \in book[c]
          BY <1>1, <3>1, <5>1 DEF Settling, Sweeps
        <5> QED  BY <3>1, <3>3, <4>1, <5>2 DEF Settling
      <4>2. CASE i # 1
        <5>1. Settling(todo, i - 1) /\ s[i] = todo[i - 1]
          BY <3>2, <3>5, <4>2 DEF PInv, Plan
        <5>2. \A j \in 1..((i - 1) - 1) : j + 1 \in 1..(i - 1) /\ s[j + 1] = todo[j]
          BY <3>1, <3>2, <3>5
        <5> QED  BY <5>1, <5>2 DEF Settling
      <4> QED  BY <4>1, <4>2
    <3> QED  BY <1>2, <1>5, <3>4, <3>5
             DEF Plan, Planned, Settling, fibers, Here, Callable, AllEnded
  <2> QED  BY <1>5, <2>1, <2>2 DEF Sweep
<1> QED  BY <1>1, <1>3, <1>4, <1>5 DEF PInv

LEMMA PlanFork == ASSUME PInv, [Next]_vars, Fork PROVE PInv'
<1>1. TypeOK /\ TypeOK' /\ todo # <<>> /\ Next1.op = "fork" /\ ~marked
  BY TypeStep DEF PInv, Fork, Doing, TypeOK, Publications
<1>2. /\ UNCHANGED <<tool, last, turn, at, book, marked, joined>>
      /\ todo \in Seq(Task) /\ Next1 = todo[1] /\ 1 \in DOMAIN todo /\ During
  BY <1>1, Rest DEF Fork, durable, place, During, TypeOK
<1>3. at = "stream"  BY <1>1, <1>2 DEF PInv, Plan, Settling, During
<1>4. Planned(todo, 1)  BY <1>2, <1>3 DEF PInv, Plan
<1>5. \A i \in DOMAIN todo : i # 1 => Planned(todo, i) /\ todo[i].op \notin {"call", "fork"}
  <2> SUFFICES ASSUME NEW i \in DOMAIN todo, i # 1
               PROVE  Planned(todo, i) /\ todo[i].op \notin {"call", "fork"}
    OBVIOUS
  <2>1. Planned(todo, i) /\ 1 \in 1..(i - 1)  BY <1>2, <1>3 DEF PInv, Plan
  <2> QED  BY <1>1, <1>2, <1>4, <2>1 DEF Planned
<1>6. Written'  BY <1>2 DEF PInv, Written, During, Here
<1>7. CASE last[turn]
  <2>1. todo' = Do("sweep") \o Tail(todo) /\ fiber' = fiber  BY <1>7 DEF Fork
  <2>2. Uncalled' /\ Local' /\ Recorded' /\ Kept'
    BY <1>1, <1>2, <2>1 DEF PInv, Uncalled, Local, Recorded, Kept, Callable, Here, During
  <2>3. ASSUME NEW s, s = todo' PROVE Plan'
    <3>1. Do("sweep") = <<On("sweep", None, FALSE)>>  BY DEF Do
    <3>2. /\ s[1] = On("sweep", None, FALSE)
          /\ \A i \in DOMAIN s : i # 1 => i \in DOMAIN todo /\ s[i] = todo[i]
      <4>1. s = <<On("sweep", None, FALSE)>> \o Tail(todo)  BY <2>1, <2>3, <3>1
      <4>2. Tail(todo) \in Seq(Task)  BY <1>1, Rest
      <4>3. s[1] = On("sweep", None, FALSE)  BY <4>1, <4>2
      <4>4. \A i \in DOMAIN s : i # 1 => i - 1 \in DOMAIN Tail(todo) /\ s[i] = Tail(todo)[i - 1]
        BY <4>1, <4>2
      <4>5. \A i \in DOMAIN s : i \in Nat  BY <4>1, <4>2
      <4> QED  BY <1>1, <4>3, <4>4, <4>5, Rest
    <3>3. s[1].op = "sweep"  BY <3>2 DEF On
    <3>4. ASSUME NEW i \in DOMAIN s PROVE Planned(s, i)
      <4>1. CASE i = 1  BY <1>7, <3>3, <4>1 DEF Planned
      <4>2. CASE i # 1
        <5>1. Planned(todo, i) /\ s[i] = todo[i] /\ s[i].op \notin {"call", "fork"}
          BY <1>5, <3>2, <4>2
        <5>2. \A j \in DOMAIN s : j = 1 \/ (j \in DOMAIN todo /\ s[j] = todo[j])  BY <3>2
        <5> QED  BY <3>3, <5>1, <5>2 DEF Planned
      <4> QED  BY <4>1, <4>2
    <3>5. \A i \in DOMAIN s : Planned(s, i)'
      BY <1>2, <2>1, <3>4 DEF Planned, Here, Callable
    <3> QED  BY <1>2, <1>3, <2>3, <3>5 DEF Plan, Planned
  <2> QED  BY <1>1, <1>6, <2>2, <2>3 DEF PInv
<1>8. CASE ~last[turn]
  <2> DEFINE k == Next1.call
  <2>1. todo' = Tail(todo) /\ fiber' = [fiber EXCEPT ![k] = "running"]  BY <1>8 DEF Fork
  <2>2. /\ k \in Calls /\ fiber[k] = "none" /\ "hosted" \notin book[k] /\ "called" \in book[k]
        /\ "settled" \notin book[k]
    BY <1>1, <1>2, <1>3, <1>4, <1>8 DEF Planned, PInv, Kept
  <2> HIDE DEF k
  <2>3. \A c \in Calls : fiber'[c] = IF c = k THEN "running" ELSE fiber[c]
    BY <1>1, <2>1 DEF TypeOK
  <2>4. Uncalled'
    BY <1>2, <2>2, <2>3 DEF PInv, Uncalled, Callable, Here
  <2>5. Local' /\ Recorded' /\ Kept'
    BY <1>1, <1>2, <1>8, <2>2, <2>3 DEF PInv, Local, Recorded, Kept, During
  <2>6. ASSUME NEW s, s = todo' PROVE Plan'
    <3>1. \A i \in DOMAIN s : Planned(s, i)
      BY <1>1, <1>3, <2>1, <2>6, PlannedRest
    <3>2. \A i \in DOMAIN s : s[i].op \notin {"call", "fork"}
      <4> TAKE i \in DOMAIN s
      <4>1. i + 1 \in DOMAIN todo /\ i + 1 # 1 /\ s[i] = todo[i + 1]
        BY <1>1, <2>1, <2>6, Rest
      <4> QED  BY <1>5, <4>1
    <3> QED  BY <1>2, <1>3, <2>6, <3>1, <3>2 DEF Plan, Planned, Here
  <2> QED  BY <1>1, <1>6, <2>4, <2>5, <2>6 DEF PInv
<1> QED  BY <1>7, <1>8

\* A tool at work: no plan and no record depends on what it does.
LEMMA PlanTools ==
  ASSUME PInv, [Next]_vars, NEW c \in Calls,
         Kill(c) \/ (\E result \in {"ok", "bad"} : Execute(c, result))
           \/ (\E how \in {"error", "declined"} : Break(c, how))
  PROVE  PInv'
<1>1. TypeOK /\ TypeOK'  BY TypeStep DEF PInv
<1>2. /\ UNCHANGED <<durable, place, publisher>>
      /\ fiber[c] = "running" /\ (joined = "error" => joined' = "error")
      /\ \E to : fiber' = [fiber EXCEPT ![c] = to] /\ to # "none"
  BY DEF Kill, Execute, Break
<1>3. /\ UNCHANGED <<tool, last, turn, at, book, todo, marked>>
      /\ \A d \in Calls : (fiber'[d] = "none" <=> fiber[d] = "none")
           /\ (fiber'[d] \in {"running", "ok"} => fiber[d] \in {"running", "ok"})
      /\ ~AllEnded
  BY <1>1, <1>2 DEF TypeOK, durable, place, publisher, AllEnded, Live
<1>4. Written' /\ Uncalled' /\ Local'
  BY <1>3 DEF PInv, Written, Uncalled, Local, During, Here, Callable
<1>5. Recorded' /\ Kept'
  BY <1>2, <1>3 DEF PInv, Recorded, Kept, Next1
<1>6. Plan'
  <2>1. ASSUME at = "stream", NEW i \in DOMAIN todo PROVE Planned(todo, i)'
    <3>1. Planned(todo, i)  BY <2>1 DEF PInv, Plan
    <3> QED  BY <1>3, <3>1 DEF Planned, Here, Callable
  <2>2. ASSUME at = "settle", NEW i \in DOMAIN todo PROVE Settling(todo, i)'
    <3>1. Settling(todo, i)  BY <2>2 DEF PInv, Plan
    <3> QED  BY <1>2, <1>3, <3>1 DEF Settling
  <2> QED  BY <1>3, <2>1, <2>2 DEF Plan
<1> QED  BY <1>1, <1>4, <1>5, <1>6 DEF PInv

LEMMA PlanDeliver ==
  ASSUME PInv, NoToolOutlivesItsTurn, [Next]_vars, NEW c \in Calls, Deliver(c)
  PROVE  PInv'
<1>1. TypeOK /\ TypeOK'  BY TypeStep DEF PInv
<1>2. /\ UNCHANGED <<last, turn, at, todo, marked, joined>>
      /\ fiber[c] \in {"ok", "bad"} /\ turn \in Turns /\ "called" \in book[c]
  BY DeliverWrites DEF Deliver, place
<1>3. /\ \A d \in Calls : d # c => fiber'[d] = fiber[d] /\ book'[d] = book[d]
      /\ fiber'[c] \in {"dropped", "delivered"}
      /\ book[c] \subseteq book'[c] /\ book'[c] \subseteq book[c] \cup {"settled"}
  BY <1>1 DEF Deliver, TypeOK
<1>4. /\ ~AllEnded
      /\ \A d \in Calls : fiber'[d] = "none" <=> fiber[d] = "none"
      /\ \A d \in Calls : "hosted" \in book'[d] <=> "hosted" \in book[d]
      /\ \A d \in Calls : "called" \in book'[d] <=> "called" \in book[d]
      /\ \A d \in Calls : "known" \in book'[d] <=> "known" \in book[d]
  BY <1>2, <1>3 DEF AllEnded, Live
<1>5. /\ \A t \in Turns, d \in Calls : t # turn \/ d # c => tool'[t][d] = tool[t][d]
      /\ tool[turn][c] = "absent" => tool'[turn][c] = "absent"
  BY <1>2, DeliverWrites DEF Here, Open
<1>6. Written'
  BY <1>2, <1>4, <1>5 DEF PInv, Written, During, Here, Turns
<1>7. Uncalled' /\ Local'
  BY <1>2, <1>4, <1>5 DEF PInv, Uncalled, Local, During, Here, Callable
<1>8. Recorded'
  <2>1. Next1' = Next1  BY <1>2 DEF Next1
  <2>2. marked /\ Next1.op \in {"input", "call"} => Next1.call \in Calls
    <3> SUFFICES ASSUME marked, Next1.op \in {"input", "call"} PROVE Next1.call \in Calls
      OBVIOUS
    <3>1. todo # <<>>  BY <1>1 DEF TypeOK, Doing
    <3>2. Next1 = todo[1] /\ 1 \in DOMAIN todo /\ During  BY <1>1, <3>1, Rest DEF During
    <3> QED  BY <3>2 DEF PInv, Plan, Planned, Settling, During
  <2> QED  BY <1>2, <1>4, <2>1, <2>2 DEF PInv, Recorded
<1>9. Kept'
  BY <1>2, <1>3, <1>4 DEF PInv, Kept
<1>10. Plan'
  <2>1. ASSUME at = "stream", NEW i \in DOMAIN todo PROVE Planned(todo, i)'
    <3>1. Planned(todo, i)  BY <2>1 DEF PInv, Plan
    <3>2. todo[i].op = "input" => Here(todo[i].call)' = "absent"
      BY <1>2, <1>5, <3>1 DEF Planned, Here
    <3>3. todo[i].op = "call" => Callable(todo[i].call)'
      BY <1>2, <1>5, <3>1 DEF Planned, Here, Callable
    <3> QED  BY <1>2, <1>4, <3>1, <3>2, <3>3 DEF Planned
  <2>2. ASSUME at = "settle", NEW i \in DOMAIN todo PROVE Settling(todo, i)'
    <3>1. Settling(todo, i)  BY <2>2 DEF PInv, Plan
    <3> QED  BY <1>2, <1>4, <3>1 DEF Settling
  <2> QED  BY <1>2, <2>1, <2>2 DEF Plan
<1> QED  BY <1>1, <1>6, <1>7, <1>8, <1>9, <1>10 DEF PInv

LEMMA FirstStays ==
  ASSUME NEW S, NEW s \in Seq(S), NEW t \in Seq(S), s # <<>>
  PROVE  s \o t \in Seq(S) /\ s \o t # <<>> /\ (s \o t)[1] = s[1]
OBVIOUS

\* What is left after the wait: no work of the stream, and no sweep before
\* the fibers are stopped, when they are to be.
LEMMA AfterTasks ==
  ASSUME NEW x
  PROVE  /\ \A i \in DOMAIN After(x) :
              After(x)[i].op \in {"sweepHosted", "start", "failStep", "endStep", "sweep", "clear",
                                  "close"}
         /\ x \in {"interrupted", "declined"} => After(x)[1].op = "clear"
         /\ \A i \in DOMAIN After(x) : i \in Nat \ {0}
<1> DEFINE Ops == {"sweepHosted", "start", "failStep", "endStep", "sweep", "clear", "close"}
           E == {t \in Task : t.op \in Ops}
<1>1. \A op \in Ops : On(op, None, FALSE) \in E /\ On(op, None, TRUE) \in E
  BY Tasked DEF Tasks, Publications, Sweeps, On
<1>2. \A op \in Ops : Do(op) \in Seq(E)
  <2> SUFFICES ASSUME NEW op \in Ops PROVE Do(op) \in Seq(E)  OBVIOUS
  <2>1. On(op, None, FALSE) \in E  BY <1>1
  <2> QED  BY <2>1, Single DEF Do
<1>3. \A yes \in BOOLEAN : <<On("close", None, yes)>> \in Seq(E)
  <2> TAKE yes \in BOOLEAN
  <2>1. On("close", None, yes) \in E  BY <1>1
  <2> QED  BY <2>1, Single
<1>4. <<>> \in Seq(E)  OBVIOUS
<1>5. \A i \in DOMAIN Do("clear") : Do("clear")[i].op = "clear"
  BY DEF Do, On
<1>6. Do("clear") # <<>> /\ Do("clear")[1].op = "clear"  BY DEF Do, On
<1>7. \A t \in E : t.op \in Ops  OBVIOUS
<1>8. {"start", "failStep", "endStep", "sweep", "sweepHosted", "clear"} \subseteq Ops  OBVIOUS
<1> HIDE DEF E, Ops
<1>9. Starting \in Seq(E) /\ FailStep \in Seq(E)
  BY <1>2, <1>4, <1>8, Joined DEF Starting, FailStep
<1>10. /\ StopTools \in Seq(E) /\ StopTools # <<>> /\ StopTools[1].op = "clear"
  BY <1>2, <1>6, <1>8, FirstStays DEF StopTools
<1>11. /\ FailActive \in Seq(E) /\ LastLook \in Seq(E) /\ Do("sweep") \in Seq(E)
       /\ Starting \o Do("endStep") \in Seq(E)
  BY <1>2, <1>4, <1>8, <1>9, Joined DEF FailActive, LastLook, When
<1>12. CASE x = "declined"
  <2>1. After(x) = StopTools \o <<On("close", None, TRUE)>>  BY <1>12 DEF After
  <2>2. After(x) \in Seq(E) /\ After(x)[1].op = "clear"
    <3>1. <<On("close", None, TRUE)>> \in Seq(E)  BY <1>3
    <3>2. /\ StopTools \o <<On("close", None, TRUE)>> \in Seq(E)
          /\ (StopTools \o <<On("close", None, TRUE)>>)[1] = StopTools[1]
      BY <1>10, <3>1, FirstStays
    <3> QED  BY <1>10, <2>1, <3>2
  <2> QED  BY <1>7, <2>2 DEF Ops
<1>13. CASE x # "declined"
  <2> DEFINE a == When(x = "interrupted", StopTools \o FailActive)
             b == When(x = "error", Do("sweep"))
             d == When("finished" \in flags /\ ~Rejected, Starting \o Do("endStep"))
             e == When(Rejected, Do("sweep"))
             f == <<On("close", None, exit # "ok" \/ x = "interrupted")>>
  <2>1. a \in Seq(E) /\ b \in Seq(E) /\ d \in Seq(E) /\ e \in Seq(E)
    <3>1. StopTools \o FailActive \in Seq(E)  BY <1>10, <1>11, Joined
    <3> QED  BY <1>4, <1>11, <3>1 DEF When
  <2>2. f \in Seq(E)  BY <1>3
  <2>3. After(x) = a \o b \o d \o e \o LastLook \o f  BY <1>13 DEF After
  <2>4. x = "interrupted" => a # <<>> /\ a[1].op = "clear"
    BY <1>10, <1>11, FirstStays DEF When
  <2> HIDE DEF a, b, d, e, f
  <2>5. After(x) \in Seq(E)  BY <1>11, <2>1, <2>2, <2>3, Joined
  <2>6. x = "interrupted" => After(x)[1].op = "clear"
    <3> SUFFICES ASSUME x = "interrupted" PROVE After(x)[1].op = "clear"  OBVIOUS
    <3>1. a \o b \in Seq(E) /\ a \o b # <<>> /\ (a \o b)[1] = a[1]  BY <2>1, <2>4, FirstStays
    <3>2. /\ a \o b \o d \in Seq(E) /\ a \o b \o d # <<>>
          /\ (a \o b \o d)[1] = a[1]
      BY <2>1, <3>1, FirstStays
    <3>3. /\ a \o b \o d \o e \in Seq(E) /\ a \o b \o d \o e # <<>>
          /\ (a \o b \o d \o e)[1] = a[1]
      BY <2>1, <3>2, FirstStays
    <3>4. /\ a \o b \o d \o e \o LastLook \in Seq(E) /\ a \o b \o d \o e \o LastLook # <<>>
          /\ (a \o b \o d \o e \o LastLook)[1] = a[1]
      BY <1>11, <3>3, FirstStays
    <3>5. (a \o b \o d \o e \o LastLook \o f)[1] = a[1]
      BY <2>2, <3>4, FirstStays
    <3> QED  BY <2>3, <2>4, <3>5
  <2> QED  BY <1>7, <1>13, <2>5, <2>6 DEF Ops
<1> QED  BY <1>12, <1>13

LEMMA PlanAwait == ASSUME PInv, [Next]_vars, Await \/ Cleared PROVE PInv'
<1>1. TypeOK /\ TypeOK' /\ todo # <<>> /\ Next1.op \in {"await", "clear"} /\ ~marked
  BY TypeStep DEF PInv, Await, Cleared, Doing, TypeOK, Publications
<1>2. /\ UNCHANGED <<tool, last, turn, at, book, marked, fibers>>
      /\ Next1 = todo[1] /\ 1 \in DOMAIN todo /\ During
  BY <1>1, Rest DEF Await, Cleared, durable, place, During
<1>3. at = "settle"  BY <1>1, <1>2 DEF PInv, Plan, Planned, During
<1>4. Written' /\ Uncalled' /\ Local'
  BY <1>2 DEF PInv, fibers, Written, Uncalled, Local, During, Here, Callable
<1>5. Recorded' /\ Kept'  BY <1>1, <1>2 DEF PInv, fibers, Recorded, Kept
<1>6. ASSUME NEW s, s = todo' PROVE Plan'
  <2>1. CASE Cleared
    <3>1. \A i \in DOMAIN s : Settling(s, i)
      BY <1>1, <1>3, <1>6, <2>1, SettlingRest DEF Cleared
    <3> QED  BY <1>2, <1>3, <1>6, <3>1 DEF Plan, Settling, fibers, AllEnded
  <2>2. ASSUME NEW x, s = After(x), x \in {"interrupted", "declined"} \/ joined = "error" \/ AllEnded
        PROVE  Plan'
    <3>1. ASSUME NEW i \in DOMAIN s PROVE Settling(s, i)
      <4>1. /\ s[i].op \notin {"input", "call", "fork", "result", "failed"}
            /\ i \in Nat \ {0} /\ (x \in {"interrupted", "declined"} => s[1].op = "clear")
        BY <2>2, AfterTasks
      <4>2. s[1].op = "clear" /\ s[i].op = "sweep" => 1 \in 1..(i - 1)  BY <4>1
      <4> QED  BY <2>2, <4>1, <4>2 DEF Settling
    <3> QED  BY <1>2, <1>3, <1>6, <3>1 DEF Plan, Settling, fibers, AllEnded
  <2>3. CASE Await
    <3>1. \/ s = After("interrupted") \/ (joined # "none" /\ s = After(joined))
          \/ (AllEnded /\ s = After("ok"))
      BY <1>6, <2>3 DEF Await
    <3>2. joined \in {"none", "error", "declined"}  BY <1>1 DEF TypeOK
    <3> QED  BY <2>2, <3>1, <3>2
  <2> QED  BY <2>1, <2>3
<1> QED  BY <1>1, <1>4, <1>5, <1>6 DEF PInv

LEMMA PlanStep == ASSUME PInv, NoToolOutlivesItsTurn, [Next]_vars PROVE PInv'
BY PlanIdle, PlanProvider, PlanSettles, PlanMark, PlanCommit, PlanSweep, PlanFork, PlanTools,
   PlanDeliver, PlanAwait
DEF Next, Runner, Tools, StreamEnds, StreamInterrupted

LEMMA Plans == Spec => []PInv
<1> QED  BY PInit, PlanStep, ToolsEnd, PTL DEF Spec

\* A settled call stays as it is, whatever comes late: the events of its own
\* turn in any order, interrupted or not, its own result, the recovery of any
\* later drain.
THEOREM SettledForGood == Spec => SettlementIsFinal
<1> DEFINE Final == \A t \in Turns, c \in Calls :
                      (\/ tool[t][c] = "completed"
                       \/ tool[t][c] = "error" /\ ~(at = "stream" /\ t = turn /\ last[t]))
                        => tool'[t][c] = tool[t][c]
<1>1. ASSUME PInv, NoToolOutlivesItsTurn, [Next]_vars PROVE Final
  <2> SUFFICES ASSUME NEW t \in Turns, NEW c \in Calls,
                      \/ tool[t][c] = "completed"
                      \/ tool[t][c] = "error" /\ ~(at = "stream" /\ t = turn /\ last[t]),
                      tool'[t][c] # tool[t][c]
               PROVE  FALSE
    OBVIOUS
  <2>1. CASE Commit
    BY <1>1, <2>1, CommitWrites DEF Here, Open, Callable
  <2>2. CASE \E d \in Calls : Deliver(d)
    BY <1>1, <2>2, DeliverWrites DEF Here, Open
  <2>3. CASE Recover
    <3>1. PICK call \in OpenCalls : tool' = [tool EXCEPT ![call[1]][call[2]] = "error"]
      BY <2>3 DEF Recover
    <3>2. call[1] \in Turns /\ call[2] \in Calls /\ (call[1] # t \/ call[2] # c)
      BY <3>1 DEF OpenCalls, Visible, Open
    <3> QED  BY <1>1, <3>1, <3>2 DEF PInv, TypeOK
  <2>4. CASE tool' = tool  BY <2>4
  <2>5. \A tasks : Handles(tasks) => tool' = tool  BY DEF Handles, durable
  <2>6. Provider => tool' = tool
    BY <2>5 DEF Provider, Text, StepFinish, ProviderError, Input, Call, Result
  <2>7. \A x : Settles(x) => tool' = tool  BY DEF Settles, durable
  <2>8. Tools => tool' = tool  BY DEF Tools, Execute, Break, durable
  <2>9. \A d \in Calls : Kill(d) => tool' = tool  BY DEF Kill, durable
  <2>10. Commit \/ (\E d \in Calls : Deliver(d)) \/ Recover \/ tool' = tool
    BY <1>1, <2>6, <2>7, <2>8, <2>9
    DEF Next, Runner, StreamEnds, StreamInterrupted, vars, durable, StartDrain, Compact, BeginTurn,
        EndDrain, Interrupt, Crash, Stopped, Mark, Sweep, Fork, Await, Cleared, EndTurn
  <2> QED  BY <2>1, <2>2, <2>3, <2>4, <2>10
<1>2. PInv /\ NoToolOutlivesItsTurn /\ [Next]_vars => [Final]_vars  BY <1>1
<1>3. Spec => [][Final]_vars  BY <1>2, Plans, ToolsEnd, PTL DEF Spec
<1> QED  BY <1>3 DEF SettlementIsFinal

\* A tool that did its work is recorded as it ended, unless another tool broke
\* the turn: it is never swept while its result is on its way.
THEOREM WorkIsKept == Spec => []FinishedWorkIsKept
<1>1. PInv => FinishedWorkIsKept  BY DEF PInv, Kept, FinishedWorkIsKept
<1> QED  BY <1>1, Plans, PTL

-----------------------------------------------------------------------------
(***************************************************************************)
(* What is left to do, by the kinds of its tasks.                          *)
(***************************************************************************)
Has(s, ops) == \E i \in DOMAIN s : s[i].op \in ops

\* The end of a drain is among the tasks.
Stops(s) == \E i \in DOMAIN s : s[i].op = "close" /\ s[i].yes

\* A step that is started is ended by the same tasks.
Rounded(s) ==
  \A i \in DOMAIN s : s[i].op = "start" =>
    \E j \in DOMAIN s : j > i /\ s[j].op \in {"failStep", "endStep"}

LEMMA Concatenated ==
  ASSUME NEW s \in Seq(Task), NEW t \in Seq(Task)
  PROVE  /\ s \o t \in Seq(Task) /\ Len(s) \in Nat /\ Len(s \o t) = Len(s) + Len(t)
         /\ \A i \in DOMAIN s : i \in Nat /\ i <= Len(s) /\ i \in DOMAIN (s \o t) /\ (s \o t)[i] = s[i]
         /\ \A i \in DOMAIN t :
              /\ i \in Nat \ {0} /\ Len(s) + i > Len(s)
              /\ Len(s) + i \in DOMAIN (s \o t) /\ (s \o t)[Len(s) + i] = t[i]
         /\ \A i \in DOMAIN (s \o t) :
              \/ i \in DOMAIN s
              \/ /\ i \in Nat /\ i - Len(s) \in DOMAIN t /\ i > Len(s)
                 /\ (s \o t)[i] = t[i - Len(s)]
<1>1. s \o t \in Seq(Task) /\ Len(s \o t) = Len(s) + Len(t)  OBVIOUS
<1>2. /\ \A i \in 1..Len(s) : (s \o t)[i] = s[i]
      /\ \A i \in 1..Len(t) : (s \o t)[Len(s) + i] = t[i]
  OBVIOUS
<1>3. /\ DOMAIN s = 1..Len(s) /\ DOMAIN t = 1..Len(t) /\ DOMAIN (s \o t) = 1..Len(s \o t)
      /\ Len(s) \in Nat /\ Len(t) \in Nat
  BY <1>1
<1>4. \A i \in DOMAIN (s \o t) :
        \/ i \in DOMAIN s
        \/ /\ i \in Nat /\ i - Len(s) \in DOMAIN t /\ i > Len(s)
           /\ (s \o t)[i] = t[i - Len(s)]
  <2> TAKE i \in DOMAIN (s \o t)
  <2>1. i \in 1..(Len(s) + Len(t))  BY <1>1, <1>3
  <2>2. CASE i <= Len(s)  BY <1>3, <2>1, <2>2
  <2>3. CASE i > Len(s)
    <3>1. i - Len(s) \in 1..Len(t) /\ Len(s) + (i - Len(s)) = i  BY <1>3, <2>1, <2>3
    <3> QED  BY <1>2, <1>3, <2>1, <2>3, <3>1
  <2> QED  BY <1>3, <2>1, <2>2, <2>3
<1> QED  BY <1>1, <1>2, <1>3, <1>4

LEMMA HasJoined ==
  ASSUME NEW s \in Seq(Task), NEW t \in Seq(Task)
  PROVE  /\ \A ops : Has(s \o t, ops) <=> Has(s, ops) \/ Has(t, ops)
         /\ Stops(s \o t) <=> Stops(s) \/ Stops(t)
         /\ Rounded(s) /\ Rounded(t) => Rounded(s \o t)
<1> DEFINE u == s \o t
<1>1. /\ \A i \in DOMAIN s : i \in Nat /\ i <= Len(s) /\ i \in DOMAIN u /\ u[i] = s[i]
      /\ \A i \in DOMAIN t :
           /\ i \in Nat \ {0} /\ Len(s) + i > Len(s)
           /\ Len(s) + i \in DOMAIN u /\ u[Len(s) + i] = t[i]
      /\ \A i \in DOMAIN u :
           \/ i \in DOMAIN s
           \/ /\ i \in Nat /\ i - Len(s) \in DOMAIN t /\ i > Len(s)
              /\ u[i] = t[i - Len(s)]
      /\ Len(s) \in Nat
  BY Concatenated
<1> HIDE DEF u
<1>2. \A ops : Has(u, ops) <=> Has(s, ops) \/ Has(t, ops)
  <2> TAKE ops
  <2>1. Has(u, ops) => Has(s, ops) \/ Has(t, ops)  BY <1>1 DEF Has
  <2>2. Has(s, ops) => Has(u, ops)  BY <1>1 DEF Has
  <2>3. Has(t, ops) => Has(u, ops)  BY <1>1 DEF Has
  <2> QED  BY <2>1, <2>2, <2>3
<1>3. Stops(u) <=> Stops(s) \/ Stops(t)
  <2>1. Stops(u) => Stops(s) \/ Stops(t)  BY <1>1 DEF Stops
  <2>2. Stops(s) => Stops(u)  BY <1>1 DEF Stops
  <2>3. Stops(t) => Stops(u)  BY <1>1 DEF Stops
  <2> QED  BY <2>1, <2>2, <2>3
<1>4. ASSUME Rounded(s), Rounded(t) PROVE Rounded(u)
  <2> SUFFICES ASSUME NEW i \in DOMAIN u, u[i].op = "start"
               PROVE  \E j \in DOMAIN u : j > i /\ u[j].op \in {"failStep", "endStep"}
    BY DEF Rounded
  <2>1. CASE i \in DOMAIN s
    <3>1. PICK j \in DOMAIN s : j > i /\ s[j].op \in {"failStep", "endStep"}
      BY <1>1, <1>4, <2>1 DEF Rounded
    <3> QED  BY <1>1, <3>1
  <2>2. CASE i \notin DOMAIN s
    <3>1. /\ i \in Nat /\ i - Len(s) \in DOMAIN t /\ t[i - Len(s)].op = "start"
      BY <1>1, <2>2
    <3>2. PICK j \in DOMAIN t : j > i - Len(s) /\ t[j].op \in {"failStep", "endStep"}
      BY <1>4, <3>1 DEF Rounded
    <3>3. j \in Nat /\ Len(s) + j > i  BY <1>1, <3>1, <3>2
    <3> QED  BY <1>1, <3>2, <3>3
  <2> QED  BY <2>1, <2>2
<1> QED  BY <1>2, <1>3, <1>4 DEF u

LEMMA HasOne ==
  ASSUME NEW x
  PROVE  /\ \A ops : Has(<<x>>, ops) <=> x.op \in ops
         /\ \A ops : ~Has(<<>>, ops)
         /\ ~Stops(<<>>) /\ (Stops(<<x>>) <=> x.op = "close" /\ x.yes)
         /\ Rounded(<<>>) /\ (x.op # "start" => Rounded(<<x>>))
<1>1. DOMAIN <<x>> = {1} /\ <<x>>[1] = x /\ DOMAIN <<>> = {}  OBVIOUS
<1> QED  BY <1>1 DEF Has, Stops, Rounded

\* What is left when the first task is done.
LEMMA Later ==
  ASSUME TypeOK, todo # <<>>
  PROVE  /\ \A ops : Has(Tail(todo), ops) => Has(todo, ops)
         /\ \A ops : Has(todo, ops) /\ Next1.op \notin ops => Has(Tail(todo), ops)
         /\ Stops(todo) /\ Next1.op # "close" => Stops(Tail(todo))
         /\ Rounded(todo) => Rounded(Tail(todo))
         /\ Rounded(todo) /\ Next1.op = "start" => Has(Tail(todo), {"failStep", "endStep"})
         /\ Next1 = todo[1] /\ Len(todo) \in Nat /\ Len(Tail(todo)) = Len(todo) - 1
         /\ \A i \in DOMAIN Tail(todo) :
              i \in Nat \ {0} /\ i + 1 \in DOMAIN todo /\ Tail(todo)[i] = todo[i + 1]
         /\ \A i \in DOMAIN todo :
              i = 1 \/ (i \in Nat /\ i - 1 \in DOMAIN Tail(todo) /\ Tail(todo)[i - 1] = todo[i])
<1> DEFINE s == Tail(todo)
<1>1. /\ Next1 = todo[1] /\ 1 \in DOMAIN todo /\ s \in Seq(Task) /\ todo \in Seq(Task)
      /\ \A i \in DOMAIN s : i \in Nat \ {0} /\ i + 1 \in DOMAIN todo /\ s[i] = todo[i + 1]
  BY Rest DEF TypeOK
<1>2. Len(todo) \in Nat /\ Len(s) = Len(todo) - 1  BY <1>1
<1>3. \A i \in DOMAIN todo :
        i = 1 \/ (i \in Nat /\ i - 1 \in DOMAIN s /\ s[i - 1] = todo[i])
  <2> SUFFICES ASSUME NEW i \in DOMAIN todo, i # 1
               PROVE  i \in Nat /\ i - 1 \in DOMAIN s /\ s[i - 1] = todo[i]
    OBVIOUS
  <2>1. i \in Nat /\ i - 1 \in DOMAIN s  BY <1>1, <1>2
  <2>2. (i - 1) + 1 = i  BY <2>1
  <2> QED  BY <1>1, <2>1, <2>2
<1> HIDE DEF s
<1>4. \A ops : /\ Has(s, ops) => Has(todo, ops)
               /\ Has(todo, ops) /\ Next1.op \notin ops => Has(s, ops)
  BY <1>1, <1>3 DEF Has
<1>5. Stops(todo) /\ Next1.op # "close" => Stops(s)  BY <1>1, <1>3 DEF Stops
<1>6. Rounded(todo) => Rounded(s)
  <2> SUFFICES ASSUME Rounded(todo), NEW i \in DOMAIN s, s[i].op = "start"
               PROVE  \E j \in DOMAIN s : j > i /\ s[j].op \in {"failStep", "endStep"}
    BY DEF Rounded
  <2>1. PICK j \in DOMAIN todo : j > i + 1 /\ todo[j].op \in {"failStep", "endStep"}
    BY <1>1 DEF Rounded
  <2>2. i \in Nat \ {0} /\ j # 1  BY <1>1, <2>1
  <2>3. j \in Nat /\ j - 1 \in DOMAIN s /\ s[j - 1] = todo[j]  BY <1>3, <2>2
  <2>4. j - 1 > i  BY <2>1, <2>2, <2>3
  <2> QED  BY <2>1, <2>3, <2>4
<1>7. Rounded(todo) /\ Next1.op = "start" => Has(s, {"failStep", "endStep"})
  <2> SUFFICES ASSUME Rounded(todo), Next1.op = "start" PROVE Has(s, {"failStep", "endStep"})
    OBVIOUS
  <2>1. PICK j \in DOMAIN todo : j > 1 /\ todo[j].op \in {"failStep", "endStep"}
    BY <1>1 DEF Rounded
  <2>2. j # 1  BY <2>1
  <2> QED  BY <1>3, <2>1, <2>2 DEF Has
<1> QED  BY <1>1, <1>2, <1>3, <1>4, <1>5, <1>6, <1>7 DEF s

\* What is left when a task is put before the others.
LEMMA Earlier ==
  ASSUME NEW s \in Seq(Task), NEW x \in Task
  PROVE  /\ <<x>> \o s \in Seq(Task) /\ (<<x>> \o s)[1] = x /\ <<x>> \o s # <<>>
         /\ \A ops : Has(<<x>> \o s, ops) <=> x.op \in ops \/ Has(s, ops)
         /\ Stops(s) => Stops(<<x>> \o s)
         /\ x.op # "start" /\ Rounded(s) => Rounded(<<x>> \o s)
         /\ Len(s) \in Nat /\ Len(<<x>> \o s) = Len(s) + 1
         /\ \A i \in DOMAIN (<<x>> \o s) :
              i = 1 \/ (i \in Nat /\ i - 1 \in DOMAIN s /\ (<<x>> \o s)[i] = s[i - 1])
<1>1. <<x>> \in Seq(Task) /\ Len(<<x>>) = 1 /\ <<x>>[1] = x /\ DOMAIN <<x>> = {1}  OBVIOUS
<1>2. /\ \A i \in DOMAIN <<x>> : i \in DOMAIN (<<x>> \o s) /\ (<<x>> \o s)[i] = <<x>>[i]
      /\ \A i \in DOMAIN (<<x>> \o s) :
           \/ i \in DOMAIN <<x>>
           \/ i \in Nat /\ i - 1 \in DOMAIN s /\ (<<x>> \o s)[i] = s[i - 1]
  BY <1>1, Concatenated
<1>3. <<x>> \o s \in Seq(Task) /\ Len(s) \in Nat /\ Len(<<x>> \o s) = Len(s) + 1  BY <1>1
<1>4. /\ \A ops : Has(<<x>> \o s, ops) <=> x.op \in ops \/ Has(s, ops)
      /\ Stops(s) => Stops(<<x>> \o s)
      /\ x.op # "start" /\ Rounded(s) => Rounded(<<x>> \o s)
  BY <1>1, HasJoined, HasOne
<1> QED  BY <1>1, <1>2, <1>3, <1>4

\* How a step is ended.
LEMMA FailStepHas ==
  /\ \A s \in {FailStep, Starting \o Do("endStep")} :
       s \in Seq(Task) /\ Rounded(s) /\ ~Has(s, {"await", "close"})
  /\ "failed" \notin flags => Has(FailStep, {"failStep", "endStep"})
  /\ Has(Starting \o Do("endStep"), {"failStep", "endStep"})
<1>1. ASSUME NEW op \in {"failStep", "endStep"}, NEW s, s = Starting \o Do(op)
      PROVE  /\ s \in Seq(Task) /\ Rounded(s) /\ ~Has(s, {"await", "close"})
             /\ Has(s, {"failStep", "endStep"})
  <2> DEFINE a == On("start", None, FALSE)
             b == On(op, None, FALSE)
  <2>1. a \in Task /\ b \in Task /\ a.op = "start" /\ b.op = op /\ Do(op) = <<b>>
          /\ Do("start") = <<a>>
    BY Tasked DEF Tasks, Publications, On, Do
  <2> HIDE DEF a, b
  <2>2. CASE Starting = <<>>
    <3>1. s = <<b>>  BY <1>1, <2>1, <2>2
    <3>2. <<b>> \in Seq(Task)  BY <2>1
    <3> QED  BY <2>1, <3>1, <3>2, HasOne
  <2>3. CASE Starting = Do("start")
    <3>1. s = <<a, b>>  BY <1>1, <2>1, <2>3, Appended1
    <3>2. /\ <<a, b>> \in Seq(Task) /\ DOMAIN <<a, b>> = {1, 2}
          /\ <<a, b>>[1] = a /\ <<a, b>>[2] = b
      BY <2>1
    <3>3. Rounded(<<a, b>>) /\ ~Has(<<a, b>>, {"await", "close"})
            /\ Has(<<a, b>>, {"failStep", "endStep"})
      BY <2>1, <3>2 DEF Rounded, Has
    <3> QED  BY <3>1, <3>2, <3>3
  <2> QED  BY <2>2, <2>3 DEF Starting
<1>2. <<>> \in Seq(Task)  OBVIOUS
<1> QED  BY <1>1, <1>2, HasOne DEF FailStep

\* What is left after the wait for the tools.
LEMMA AfterHas ==
  ASSUME NEW x
  PROVE  /\ After(x) \in Seq(Task) /\ Rounded(After(x)) /\ ~Has(After(x), {"await"})
         /\ x \in {"interrupted", "declined"} => Stops(After(x))
         /\ x = "error" \/ (Rejected /\ x # "declined") => Has(After(x), {"sweep"})
         /\ x # "declined" /\ exit = "ok" /\ ~Rejected => Has(After(x), {"sweepHosted"})
         /\ x = "interrupted" /\ "active" \in flags /\ "failed" \notin flags =>
              Has(After(x), {"failStep", "endStep"})
         /\ x # "declined" /\ "finished" \in flags /\ ~Rejected =>
              Has(After(x), {"failStep", "endStep"})
         /\ \A i \in DOMAIN After(x) : After(x)[i].op = "close" =>
              i = Len(After(x)) /\ (exit # "ok" => After(x)[i].yes)
<1> DEFINE Ops == {"sweepHosted", "start", "failStep", "endStep", "sweep", "clear"}
           Ok(s) == s \in Seq(Task) /\ Rounded(s) /\ ~Has(s, {"await", "close"})
           Closed(s) == /\ s \in Seq(Task) /\ Rounded(s) /\ ~Has(s, {"await"})
                        /\ \A i \in DOMAIN s : s[i].op = "close" =>
                             i = Len(s) /\ (exit # "ok" => s[i].yes)
<1>1. \A s, t : Ok(s) /\ Ok(t) => Ok(s \o t)
  BY HasJoined, Concatenated
<1>2. Ok(<<>>)
  <2>1. <<>> \in Seq(Task)  OBVIOUS
  <2> QED  BY <2>1, HasOne
<1>3. \A op \in Ops : /\ op # "start" => Ok(Do(op))
                      /\ Do(op) \in Seq(Task)
                      /\ \A ops : Has(Do(op), ops) <=> op \in ops
  <2> TAKE op \in Ops
  <2>1. Do(op) = <<On(op, None, FALSE)>> /\ On(op, None, FALSE).op = op  BY DEF Do, On
  <2>2. Do(op) \in Seq(Task)  BY Tasked DEF Tasks, Publications, Sweeps
  <2> QED  BY <2>1, <2>2, HasOne
<1>4. ASSUME NEW s, NEW yes \in BOOLEAN, Ok(s), exit # "ok" => yes,
             NEW u, u = s \o <<On("close", None, yes)>>
      PROVE  Closed(u) /\ (yes => Stops(u)) /\ \A ops : Has(s, ops) => Has(u, ops)
  <2>0. PICK f : f = <<On("close", None, yes)>>  OBVIOUS
  <2>1. On("close", None, yes) \in Task  BY Tasked DEF Tasks
  <2>2. /\ f \in Seq(Task) /\ Len(f) = 1 /\ DOMAIN f = {1} /\ f[1].op = "close" /\ f[1].yes = yes
        /\ Rounded(f) /\ ~Has(f, {"await"}) /\ (yes => Stops(f))
        /\ u = s \o f
    BY <1>4, <2>0, <2>1, HasOne DEF On
  <2>3. /\ u \in Seq(Task) /\ Len(u) = Len(s) + 1 /\ Rounded(u) /\ ~Has(u, {"await"})
        /\ yes => Stops(u)
        /\ \A ops : Has(s, ops) => Has(u, ops)
    <3>1. s \in Seq(Task) /\ Rounded(s) /\ ~Has(s, {"await"})  BY <1>4 DEF Has
    <3>2. u \in Seq(Task) /\ Len(u) = Len(s) + 1
      <4>1. f \in Seq(Task) /\ Len(f) = 1 /\ u = s \o f  BY <2>2
      <4>2. s \o f \in Seq(Task) /\ Len(s \o f) = Len(s) + Len(f)
        BY <3>1, <4>1, Concatenated, Zenon
      <4> QED  BY <4>1, <4>2
    <3>3. Rounded(u) /\ (yes => Stops(u))  BY <2>2, <3>1, HasJoined
    <3>4. \A ops : Has(u, ops) <=> Has(s, ops) \/ Has(f, ops)  BY <2>2, <3>1, HasJoined
    <3> QED  BY <2>2, <3>1, <3>2, <3>3, <3>4
  <2>4. ASSUME NEW i \in DOMAIN u, u[i].op = "close" PROVE i = Len(u) /\ (exit # "ok" => u[i].yes)
    <3>1. CASE i \in DOMAIN s
      <4>1. u[i] = s[i]  BY <1>4, <2>2, <3>1, Concatenated
      <4> QED  BY <1>4, <2>4, <3>1, <4>1 DEF Has
    <3>2. CASE i \notin DOMAIN s
      <4>1. i \in Nat /\ i - Len(s) \in DOMAIN f /\ u[i] = f[i - Len(s)]
        BY <1>4, <2>2, <3>2, Concatenated
      <4>2. i - Len(s) = 1 /\ Len(s) \in Nat  BY <1>4, <2>2, <4>1, Concatenated
      <4>3. Len(u) = Len(s) + 1  BY <2>3
      <4>4. i = Len(u)  BY <4>1, <4>2, <4>3
      <4> QED  BY <1>4, <2>2, <4>1, <4>2, <4>4
    <3> QED  BY <3>1, <3>2
  <2> QED  BY <2>3, <2>4
<1> HIDE DEF Closed
<1>5. /\ Ok(FailStep)
      /\ "failed" \notin flags => Has(FailStep, {"failStep", "endStep"})
      /\ Ok(Starting \o Do("endStep"))
      /\ Has(Starting \o Do("endStep"), {"failStep", "endStep"})
  BY FailStepHas
<1>6. Ok(StopTools)  BY <1>1, <1>3 DEF StopTools
<1>7. CASE x = "declined"
  <2>1. After(x) = StopTools \o <<On("close", None, TRUE)>>  BY <1>7 DEF After
  <2>2. Closed(After(x)) /\ (TRUE => Stops(After(x)))  BY <1>4, <1>6, <2>1
  <2> QED  BY <1>7, <2>2 DEF Closed
<1>8. CASE x # "declined"
  <2> DEFINE a == When(x = "interrupted", StopTools \o FailActive)
             b == When(x = "error", Do("sweep"))
             d == When("finished" \in flags /\ ~Rejected, Starting \o Do("endStep"))
             e == When(Rejected, Do("sweep"))
             yes == exit # "ok" \/ x = "interrupted"
             f == <<On("close", None, yes)>>
             p == a \o b \o d \o e \o LastLook
  <2>1. Ok(FailActive)  BY <1>2, <1>5 DEF FailActive, When
  <2>2. /\ Ok(StopTools \o FailActive)
        /\ "active" \in flags /\ "failed" \notin flags =>
             Has(StopTools \o FailActive, {"failStep", "endStep"})
    <3>1. "active" \in flags => FailActive = FailStep  BY DEF FailActive, When
    <3> QED  BY <1>1, <1>5, <1>6, <2>1, <3>1, HasJoined
  <2>3. /\ Ok(a)
        /\ x = "interrupted" /\ "active" \in flags /\ "failed" \notin flags =>
             Has(a, {"failStep", "endStep"})
    BY <1>2, <2>2 DEF When
  <2>4. Ok(b) /\ (x = "error" => Has(b, {"sweep"}))  BY <1>2, <1>3 DEF When
  <2>5. Ok(d) /\ ("finished" \in flags /\ ~Rejected => Has(d, {"failStep", "endStep"}))
    BY <1>2, <1>5 DEF When
  <2>6. Ok(e) /\ (Rejected => Has(e, {"sweep"}))  BY <1>2, <1>3 DEF When
  <2>7. Ok(LastLook) /\ (exit = "ok" /\ ~Rejected => Has(LastLook, {"sweepHosted"}))
    BY <1>2, <1>3 DEF When, LastLook
  <2>8. After(x) = p \o f  BY <1>8 DEF After
  <2>9. yes \in BOOLEAN /\ (exit # "ok" => yes) /\ (x = "interrupted" => yes)  OBVIOUS
  <2> HIDE DEF a, b, d, e, f, yes
  <2>10. Ok(a \o b) /\ Ok(a \o b \o d) /\ Ok(a \o b \o d \o e) /\ Ok(p)
    BY <1>1, <2>3, <2>4, <2>5, <2>6, <2>7
  <2>11. \A ops : \/ Has(a, ops) \/ Has(b, ops) \/ Has(d, ops) \/ Has(e, ops) \/ Has(LastLook, ops)
                  => Has(p, ops)
    BY <2>3, <2>4, <2>5, <2>6, <2>7, <2>10, HasJoined
  <2> HIDE DEF p
  <2>12. /\ Closed(After(x)) /\ (yes => Stops(After(x)))
         /\ \A ops : Has(p, ops) => Has(After(x), ops)
    BY <1>4, <2>8, <2>9, <2>10 DEF f
  <2> QED  BY <1>8, <2>3, <2>4, <2>5, <2>6, <2>7, <2>9, <2>11, <2>12 DEF Closed
<1> QED  BY <1>7, <1>8

\* What is left at the end of the stream.
LEMMA BeforeHas ==
  ASSUME NEW x
  PROVE  /\ Before(x) \in Seq(Task) /\ Has(Before(x), {"await"}) /\ ~Has(Before(x), {"close"})
         /\ x \notin {"llm", "interrupted"} => Before(x) = Do("await")
         /\ \A i \in DOMAIN Before(x) : Before(x)[i].op = "await" => i = Len(Before(x))
         /\ Rounded(Before(x))
         /\ x = "llm" /\ ~Rejected /\ "failed" \notin flags =>
              Has(Before(x), {"failStep", "endStep"})
         /\ x = "interrupted" =>
              \A i \in DOMAIN Before(x) : Before(x)[i].op \in {"clear", "await"}
<1>1. \A op \in {"sweepHosted", "clear", "await"} :
        /\ Do(op) \in Seq(Task) /\ Len(Do(op)) = 1 /\ Do(op)[1].op = op /\ DOMAIN Do(op) = {1}
        /\ \A ops : Has(Do(op), ops) <=> op \in ops
        /\ Rounded(Do(op))
  <2> TAKE op \in {"sweepHosted", "clear", "await"}
  <2> DEFINE a == On(op, None, FALSE)
  <2>1. Do(op) = <<a>> /\ a.op = op /\ a \in Task
    BY Tasked DEF Do, On, Tasks, Publications, Sweeps
  <2> HIDE DEF a
  <2>2. <<a>> \in Seq(Task) /\ Len(<<a>>) = 1 /\ <<a>>[1] = a /\ DOMAIN <<a>> = {1}  BY <2>1
  <2>3. Rounded(<<a>>) /\ \A ops : Has(<<a>>, ops) <=> op \in ops  BY <2>1, HasOne
  <2> QED  BY <2>1, <2>2, <2>3
<1>2. ASSUME NEW p \in Seq(Task), Rounded(p), ~Has(p, {"await", "close"}),
             NEW u, u = p \o Do("await")
      PROVE  /\ u \in Seq(Task) /\ Has(u, {"await"}) /\ ~Has(u, {"close"}) /\ Rounded(u)
             /\ \A i \in DOMAIN u : u[i].op = "await" => i = Len(u)
             /\ \A ops : Has(p, ops) => Has(u, ops)
  <2>1. ~Has(p, {"await"}) /\ ~Has(p, {"close"})  BY <1>2 DEF Has
  <2>2. /\ u \in Seq(Task) /\ Len(p) \in Nat /\ Len(u) = Len(p) + 1
        /\ \A i \in DOMAIN p : u[i] = p[i]
        /\ \A i \in DOMAIN u : i \in DOMAIN p \/ (i \in Nat /\ i - Len(p) \in {1})
    <3> DEFINE f == Do("await")
    <3>1. f \in Seq(Task) /\ Len(f) = 1 /\ DOMAIN f = {1} /\ u = p \o f  BY <1>1, <1>2
    <3> HIDE DEF f
    <3>2. p \o f \in Seq(Task) /\ Len(p) \in Nat /\ Len(p \o f) = Len(p) + Len(f)
      BY <3>1, Concatenated, Zenon
    <3>3. /\ \A i \in DOMAIN p : u[i] = p[i]
          /\ \A i \in DOMAIN u : i \in DOMAIN p \/ (i \in Nat /\ i - Len(p) \in {1})
      BY <3>1, Concatenated
    <3> QED  BY <3>1, <3>2, <3>3
  <2>3. ASSUME NEW i \in DOMAIN u, u[i].op = "await" PROVE i = Len(u)
    <3>1. i \notin DOMAIN p  BY <2>1, <2>2, <2>3 DEF Has
    <3> QED  BY <2>2, <3>1
  <2>4. Rounded(u) /\ \A ops : Has(u, ops) <=> Has(p, ops) \/ "await" \in ops
    BY <1>1, <1>2, HasJoined
  <2> QED  BY <2>1, <2>2, <2>3, <2>4
<1>3. <<>> \in Seq(Task) /\ \A s \in Seq(Task) : <<>> \o s = s /\ s \o <<>> = s  OBVIOUS
<1>4. CASE x \notin {"llm", "interrupted"}
  <2>1. Before(x) = <<>> \o <<>> \o Do("await")  BY <1>4 DEF Before, When
  <2>2. Before(x) = Do("await") /\ Before(x) = <<>> \o Do("await")  BY <1>1, <1>3, <2>1
  <2> QED  BY <1>2, <1>3, <1>4, <2>2, HasOne
<1>5. CASE x = "interrupted"
  <2>1. Before(x) = <<>> \o Do("clear") \o Do("await")  BY <1>5 DEF Before, When
  <2>2. Before(x) = Do("clear") \o Do("await")  BY <1>1, <1>3, <2>1
  <2>3. \A i \in DOMAIN Before(x) : Before(x)[i].op \in {"clear", "await"}
    BY <1>1, <2>2, Concatenated
  <2> QED  BY <1>1, <1>2, <1>5, <2>2, <2>3
<1>6. CASE x = "llm"
  <2> DEFINE p == When(~Rejected, Do("sweepHosted") \o FailStep)
  <2>1. FailStep \in Seq(Task) /\ Rounded(FailStep) /\ ~Has(FailStep, {"await", "close"})
          /\ ("failed" \notin flags => Has(FailStep, {"failStep", "endStep"}))
    BY FailStepHas
  <2>2. p \in Seq(Task) /\ Rounded(p) /\ ~Has(p, {"await", "close"})
          /\ (~Rejected /\ "failed" \notin flags => Has(p, {"failStep", "endStep"}))
    BY <1>1, <1>3, <2>1, HasJoined, HasOne DEF When
  <2>3. Before(x) = p \o <<>> \o Do("await")  BY <1>6 DEF Before, When
  <2> HIDE DEF p
  <2>4. Before(x) = p \o Do("await")  BY <1>3, <2>2, <2>3
  <2> QED  BY <1>2, <1>6, <2>2, <2>4
<1> QED  BY <1>4, <1>5, <1>6

-----------------------------------------------------------------------------
(***************************************************************************)
(* The calls at work.  At the end of the stream every call that runs is    *)
(* without a settlement in the records, and is the provider's own or has a *)
(* fiber; the settlement then waits for the fibers and sweeps what is      *)
(* left, unless it ends the drain.                                         *)
(***************************************************************************)
Forks(c) == \E i \in DOMAIN todo : todo[i].op = "fork" /\ todo[i].call = c

\* The calls of a turn are in the history only when its step is.
Shown == During => \A c \in Calls : Here(c) # "absent" => "started" \in step

Streaming ==
  at = "stream" /\ ~last[turn] =>
    /\ \A c \in Calls : Here(c) = "running" /\ "settled" \in book[c] =>
         marked /\ Next1.op = "result" /\ Next1.call = c
    /\ \A c \in Calls : "called" \in book[c] /\ "hosted" \notin book[c] =>
         fiber[c] # "none" \/ Forks(c)
    /\ \A i \in DOMAIN todo : todo[i].op = "call" =>
         "settled" \notin book[todo[i].call] /\ (todo[i].yes \/ Forks(todo[i].call))

\* A fiber that ended has told so: to the records, or to those who wait for
\* it.  Until the wait of a turn that goes on, none is interrupted.
Ended ==
  /\ \A c \in Calls : fiber[c] \in {"delivered", "dropped"} => "settled" \in book[c]
  /\ \A c \in Calls : fiber[c] = "broken" => joined # "none"
  /\ at = "stream" \/ (at = "settle" /\ exit = "ok" /\ Has(todo, {"await"})) =>
       \A c \in Calls : fiber[c] # "interrupted"

\* The wait, and the end of the turn, come last; and after a stream that was
\* broken off the drain does not go on.
Closing ==
  at = "settle" =>
    \A i \in DOMAIN todo :
      /\ todo[i].op \in {"await", "close"} => i = Len(todo)
      /\ todo[i].op = "await" /\ exit = "ok" => i = 1
      /\ todo[i].op = "close" /\ exit # "ok" => todo[i].yes

\* What will settle a call.
Settler(c) ==
  \/ /\ "settled" \notin book[c]
     /\ \/ Has(todo, {"sweep"})
        \/ "hosted" \in book[c] /\ Has(todo, {"sweepHosted", "await"})
        \/ fiber[c] # "none" /\ Has(todo, {"await"})
  \/ todo # <<>> /\ Next1.op = "failed" /\ Next1.call = c

Settlement ==
  at = "settle" /\ exit = "ok" /\ ~last[turn] =>
    Stops(todo) \/ \A c \in Calls : Here(c) = "running" => Settler(c)

\* No call of an earlier turn runs, once the drain makes requests.
Past ==
  at \in {"ready", "stream", "settle"} =>
    \A t \in Turns, c \in Calls :
      tool[t][c] = "running" /\ (at = "ready" \/ t # turn) => last[t]

RInv == Shown /\ Streaming /\ Ended /\ Closing /\ Settlement /\ Past

\* Nor does one that a compaction hides: it was hidden between turns.
Hidden ==
  /\ \A t \in 1..compacted, c \in Calls : tool[t][c] = "running" => last[t]
  /\ During => compacted < turn

\* Steps that change neither the plan nor the records, the history or a fiber.
LEMMA CallsIdle ==
  ASSUME PInv, NoToolOutlivesItsTurn, RInv, Hidden, [Next]_vars,
         \/ UNCHANGED vars \/ Interrupt \/ Compact \/ EndDrain \/ Stopped \/ Recover
         \/ StartDrain \/ BeginTurn \/ Crash \/ EndTurn
  PROVE  RInv'
<1>0. TypeOK /\ TypeOK'  BY TypeStep DEF PInv
<1>1. CASE UNCHANGED vars \/ Interrupt \/ Compact
  <2>1. UNCHANGED <<tool, step, place, publisher, exit, fibers>>
    BY <1>1 DEF vars, durable, Interrupt, Compact
  <2>2. Shown' /\ Streaming' /\ Ended'
    BY <2>1 DEF RInv, place, publisher, fibers, Shown, Streaming, Ended, During, Here,
                Forks, Next1, Has
  <2>3. Closing' /\ Settlement' /\ Past'
    BY <2>1 DEF RInv, place, publisher, fibers, Closing, Settlement, Settler, Past, Here,
                Next1, Has, Stops
  <2> QED  BY <2>2, <2>3 DEF RInv
<1>2. CASE EndDrain \/ Stopped \/ StartDrain \/ Crash
  <2>1. at' \in {"idle", "recover"}
    BY <1>2 DEF EndDrain, Stopped, StartDrain, Crash
  <2>2. UNCHANGED <<book, fiber, joined>> \/ \A c \in Calls : fiber'[c] = "none"
    <3>1. EndDrain \/ Stopped => UNCHANGED <<book, fiber, joined>>
      BY DEF EndDrain, Stopped, publisher, fibers
    <3>2. StartDrain \/ Crash => \A c \in Calls : fiber'[c] = "none"
      BY DEF StartDrain, Crash, Reset
    <3> QED  BY <1>2, <3>1, <3>2
  <2>3. Ended'  BY <2>1, <2>2 DEF RInv, Ended
  <2> QED
    BY <2>1, <2>3 DEF RInv, Shown, Streaming, Closing, Settlement, Past, During
<1>3. CASE Recover
  <2>1. at' \in {"recover", "ready"} /\ UNCHANGED <<book, fibers>>
          /\ last' = last /\ (at' = "ready" => OpenCalls = {} /\ tool' = tool)
    BY <1>3 DEF Recover, publisher
  <2>2. Past'
    <3> SUFFICES ASSUME at' = "ready", NEW t \in Turns, NEW c \in Calls, tool[t][c] = "running"
                 PROVE  last[t]
      BY <2>1 DEF Past
    <3>1. t \notin Visible
      <4>1. t \in Visible => <<t, c>> \in OpenCalls  BY DEF OpenCalls, Open
      <4> QED  BY <2>1, <4>1
    <3>2. t \in 1..compacted  BY <1>0, <3>1 DEF Visible, TypeOK, Turns
    <3> QED  BY <3>2 DEF Hidden
  <2> QED
    BY <2>1, <2>2 DEF RInv, Shown, Streaming, Ended, Closing, Settlement, During, fibers
<1>4. CASE BeginTurn
  <2>1. /\ at = "ready" /\ at' = "stream" /\ turn' = turn + 1 /\ tool' = tool /\ last' = last
        /\ \A c \in Calls : book'[c] = {} /\ fiber'[c] = "none"
        /\ todo' = <<>>
    BY <1>4 DEF BeginTurn, Reset
  <2>2. turn' \in Turns /\ \A c \in Calls : tool[turn'][c] = "absent"
    BY <1>0, <1>4, <2>1 DEF PInv, Written, TypeOK, Turns, BeginTurn
  <2>3. Past'  BY <2>1 DEF RInv, Past
  <2> QED
    BY <2>1, <2>2, <2>3 DEF RInv, Shown, Streaming, Ended, Closing, Settlement, During, Here
<1>5. CASE EndTurn
  <2>1. /\ todo # <<>> /\ Next1.op = "close" /\ at' = (IF Next1.yes THEN "idle" ELSE "ready")
        /\ UNCHANGED <<durable, last, turn, book, exit, fibers>>
    BY <1>5 DEF EndTurn, Doing
  <2>2. /\ at = "settle" /\ Next1 = todo[1] /\ 1 \in DOMAIN todo /\ During
    BY <1>0, <2>1, Rest DEF PInv, Plan, Planned, During
  <2>3. 1 = Len(todo) /\ DOMAIN todo = {1}
    <3>1. 1 = Len(todo)  BY <2>1, <2>2 DEF RInv, Closing
    <3> QED  BY <1>0, <3>1 DEF TypeOK
  <2>4. ASSUME at' = "ready" PROVE \A c \in Calls : Here(c) = "running" => last[turn]
    <3>1. ~Next1.yes  BY <2>1, <2>4
    <3>2. exit = "ok"  BY <2>1, <2>2, <3>1 DEF RInv, Closing
    <3>3. ~Stops(todo) /\ ~Has(todo, {"sweep"}) /\ ~Has(todo, {"sweepHosted", "await"})
            /\ ~Has(todo, {"await"})
      BY <2>1, <2>2, <2>3, <3>1 DEF Stops, Has
    <3> QED  BY <2>1, <2>2, <3>2, <3>3 DEF RInv, Settlement, Settler
  <2>5. Past'  BY <2>1, <2>2, <2>4 DEF RInv, Past, Here, durable
  <2> QED
    BY <2>1, <2>5 DEF RInv, Shown, Streaming, Ended, Closing, Settlement, During, fibers
<1> QED  BY <1>1, <1>2, <1>3, <1>4, <1>5

LEMMA CallsProvider ==
  ASSUME PInv, NoToolOutlivesItsTurn, RInv, [Next]_vars, Provider PROVE RInv'
<1>1. ASSUME NEW tasks, Handles(tasks),
             \A i \in DOMAIN tasks : tasks[i].op = "call" =>
               LET c == tasks[i].call IN
                 /\ c \in Calls /\ "called" \notin book[c]
                 /\ tasks[i].yes \/ \E j \in DOMAIN tasks : tasks[j].op = "fork" /\ tasks[j].call = c
      PROVE  RInv'
  <2>1. /\ todo' = tasks /\ ~marked /\ ~marked' /\ at = "stream" /\ todo = <<>>
        /\ UNCHANGED <<durable, place, book, exit, fibers>>
    BY <1>1 DEF PInv, Handles, Reads, TypeOK, Doing
  <2>2. \A c \in Calls : ~Forks(c)  BY <2>1 DEF Forks
  <2>3. Streaming'
    <3> SUFFICES ASSUME ~last[turn] PROVE Streaming'
      BY <2>1 DEF Streaming, place
    <3>1. \A c \in Calls : ~(Here(c) = "running" /\ "settled" \in book[c])'
      BY <2>1 DEF RInv, Streaming, durable, place, Here
    <3>2. \A c \in Calls : ("called" \in book[c] /\ "hosted" \notin book[c] => fiber[c] # "none")'
      BY <2>1, <2>2 DEF RInv, Streaming, place, fibers
    <3>3. \A c \in Calls : "settled" \in book[c] => "called" \in book[c]
      BY <2>1 DEF PInv, Kept, Uncalled
    <3>4. \A i \in DOMAIN tasks : tasks[i].op = "call" =>
            "settled" \notin book'[tasks[i].call] /\ (tasks[i].yes \/ Forks(tasks[i].call)')
      BY <1>1, <2>1, <3>3 DEF Forks
    <3> QED  BY <2>1, <3>1, <3>2, <3>4 DEF Streaming
  <2>4. Shown' /\ Ended' /\ Closing' /\ Settlement' /\ Past'
    BY <2>1 DEF RInv, Shown, Ended, Closing, Settlement, Past, During, Here, durable, place, fibers
  <2> QED  BY <2>3, <2>4 DEF RInv
<1>2. ASSUME NEW tasks, Handles(tasks), tasks \in Seq(Task), ~Has(tasks, {"call"}) PROVE RInv'
  BY <1>1, <1>2 DEF Has
<1>3. /\ \A op \in {"start", "failStep"} :
           Do(op) \in Seq(Task) /\ ~Has(Do(op), {"call"})
      /\ <<>> \in Seq(Task) /\ ~Has(<<>>, {"call"})
  <2>1. ASSUME NEW op \in {"start", "failStep"} PROVE Do(op) \in Seq(Task) /\ ~Has(Do(op), {"call"})
    <3>1. Do(op) = <<On(op, None, FALSE)>> /\ On(op, None, FALSE).op = op  BY DEF Do, On
    <3>2. Do(op) \in Seq(Task)  BY Tasked DEF Tasks, Publications
    <3> QED  BY <3>1, <3>2, HasOne
  <2>2. <<>> \in Seq(Task)  OBVIOUS
  <2> QED  BY <2>1, <2>2, HasOne
<1>4. Starting \in Seq(Task) /\ ~Has(Starting, {"call"})  BY <1>3 DEF Starting
<1>5. FailStep \in Seq(Task) /\ ~Has(FailStep, {"call"})
  BY <1>3, <1>4, HasJoined, Tasked DEF FailStep
<1>6. ASSUME NEW c \in Calls PROVE StartInput(c) \in Seq(Task) /\ ~Has(StartInput(c), {"call"})
  <2>1. On("input", c, FALSE) \in Task /\ On("input", c, FALSE).op = "input"
    BY Tasked DEF Tasks, Publications, On
  <2>2. <<On("input", c, FALSE)>> \in Seq(Task)  BY <2>1, Single
  <2>3. ~Has(<<On("input", c, FALSE)>>, {"call"})  BY <2>1, HasOne
  <2> QED  BY <1>4, <2>2, <2>3, HasJoined, Tasked DEF StartInput
<1>7. CASE Text  BY <1>2, <1>4, <1>7 DEF Text
<1>8. CASE StepFinish
  <2>1. Handles(<<>>)  BY <1>8 DEF StepFinish
  <2> QED  BY <1>2, <1>3, <2>1
<1>9. CASE ProviderError  BY <1>2, <1>5, <1>9 DEF ProviderError
<1>10. ASSUME NEW c \in Calls, Input(c) PROVE RInv'  BY <1>2, <1>6, <1>10 DEF Input
<1>11. ASSUME NEW c \in Calls, NEW ok \in BOOLEAN, Result(c, ok) PROVE RInv'
  <2>1. On("result", c, ok) \in Task /\ On("result", c, ok).op = "result"
    BY Tasked DEF Tasks, Publications, On
  <2>2. <<On("result", c, ok)>> \in Seq(Task) /\ ~Has(<<On("result", c, ok)>>, {"call"})
    BY <2>1, HasOne
  <2>3. Handles(<<On("result", c, ok)>>)  BY <1>11 DEF Result
  <2> QED  BY <1>2, <2>2, <2>3
<1>12. ASSUME NEW c \in Calls, NEW hosted \in BOOLEAN, Call(c, hosted) PROVE RInv'
  <2> DEFINE C == On("call", c, hosted)
             F == On("fork", c, FALSE)
             a == IF book[c] = {} THEN StartInput(c) ELSE <<>>
             d == IF hosted THEN <<>> ELSE <<F>>
             b == a \o <<C>>
             s == b \o d
  <2>1. Handles(s) /\ "called" \notin book[c]  BY <1>12 DEF Call, NotCalled
  <2>2. /\ C \in Task /\ C.op = "call" /\ C.call = c /\ C.yes = hosted
        /\ F \in Task /\ F.op = "fork" /\ F.call = c
    BY Tasked DEF Tasks, Publications, On
  <2>3. a \in Seq(Task) /\ ~Has(a, {"call"})  BY <1>3, <1>6
  <2> HIDE DEF C, F, a
  <2>4. /\ <<C>> \in Seq(Task) /\ DOMAIN <<C>> = {1} /\ <<C>>[1] = C
        /\ <<F>> \in Seq(Task) /\ DOMAIN <<F>> = {1} /\ <<F>>[1] = F
    BY <2>2
  <2>5. /\ d \in Seq(Task)
        /\ \A i \in DOMAIN d : d[i] = F
        /\ ~hosted => 1 \in DOMAIN d
    <3>1. CASE hosted
      <4>1. d = <<>>  BY <3>1
      <4> QED  BY <1>3, <3>1, <4>1
    <3>2. CASE ~hosted
      <4>1. d = <<F>>  BY <3>2
      <4> QED  BY <2>4, <4>1
    <3> QED  BY <3>1, <3>2
  <2>6. b \in Seq(Task) /\ \A i \in DOMAIN b : b[i].op = "call" => b[i] = C
    <3>1. b \in Seq(Task)  BY <2>3, <2>4, Concatenated
    <3>2. ASSUME NEW i \in DOMAIN b, b[i].op = "call" PROVE b[i] = C
      <4>1. CASE i \in DOMAIN a
        <5>1. b[i] = a[i]  BY <2>3, <2>4, <4>1, Concatenated
        <5> QED  BY <2>3, <3>2, <4>1, <5>1 DEF Has
      <4>2. CASE i \notin DOMAIN a
        <5>1. i - Len(a) \in DOMAIN <<C>> /\ b[i] = <<C>>[i - Len(a)]
          BY <2>3, <2>4, <4>2, Concatenated
        <5> QED  BY <2>4, <5>1
      <4> QED  BY <4>1, <4>2
    <3> QED  BY <3>1, <3>2
  <2> HIDE DEF b, d
  <2>7. \A i \in DOMAIN s : s[i].op = "call" => s[i] = C
    BY <2>2, <2>5, <2>6, Concatenated
  <2>8. ~hosted => \E j \in DOMAIN s : s[j].op = "fork" /\ s[j].call = c
    <3>1. \A i \in DOMAIN d : Len(b) + i \in DOMAIN s /\ s[Len(b) + i] = d[i]
      BY <2>5, <2>6, Concatenated
    <3> QED  BY <2>2, <2>5, <3>1
  <2> HIDE DEF s
  <2> QED  BY <1>1, <2>1, <2>2, <2>7, <2>8
<1> QED  BY <1>7, <1>8, <1>9, <1>10, <1>11, <1>12 DEF Provider

\* Of the calls of a stream that ended, the local ones have a fiber.
LEMMA CallsSettles ==
  ASSUME PInv, RInv, [Next]_vars,
         NEW x \in {"ok", "llm", "defect", "interrupted"}, Settles(x),
         x # "interrupted" => todo = <<>>
  PROVE  RInv'
<1>1. TypeOK /\ TypeOK'  BY TypeStep DEF PInv
<1>2. /\ at = "stream" /\ at' = "settle" /\ exit' = x /\ todo' = Before(x) /\ ~marked'
      /\ UNCHANGED <<durable, last, turn, since, stopping, book, flags, fibers>>
  BY DEF Settles
<1>3. Shown' /\ Ended' /\ Past'
  BY <1>2 DEF RInv, Shown, Ended, Past, During, Here, durable, fibers
<1>4. ASSUME NEW s, s = todo' PROVE Closing'
  <2>1. \A i \in DOMAIN s : /\ s[i].op # "close"
                            /\ s[i].op = "await" => i = Len(s)
    BY <1>2, <1>4, BeforeHas DEF Has
  <2>2. x = "ok" => \A i \in DOMAIN s : i = 1
    <3>1. x = "ok" => s = Do("await")  BY <1>2, <1>4, BeforeHas
    <3> QED  BY <3>1 DEF Do
  <2> QED  BY <1>2, <1>4, <2>1, <2>2 DEF Closing
<1>5. Settlement'
  <2> SUFFICES ASSUME x = "ok", ~last[turn], NEW c \in Calls, Here(c) = "running"
               PROVE  Settler(c)'
    BY <1>2 DEF Settlement, Here, durable
  <2>1. todo = <<>> /\ ~marked  BY <1>1 DEF TypeOK, Doing
  <2>2. "settled" \notin book[c]  BY <1>2, <2>1 DEF RInv, Streaming
  <2>3. "called" \in book[c]  BY <1>2 DEF PInv, Uncalled, Callable
  <2>4. ~Forks(c)  BY <2>1 DEF Forks
  <2>5. "hosted" \in book[c] \/ fiber[c] # "none"  BY <1>2, <2>3, <2>4 DEF RInv, Streaming
  <2>6. Has(todo', {"await"}) /\ Has(todo', {"sweepHosted", "await"})
    BY <1>2, BeforeHas DEF Has
  <2> QED  BY <1>2, <2>2, <2>5, <2>6 DEF Settler, fibers
<1> QED  BY <1>2, <1>3, <1>4, <1>5 DEF RInv, Streaming

\* A result is in the records before it is in the history.
LEMMA CallsMark == ASSUME PInv, RInv, [Next]_vars, Mark PROVE RInv'
<1>1. TypeOK /\ TypeOK' /\ todo # <<>> /\ marked' /\ ~marked  BY TypeStep DEF PInv, Mark, Doing
<1>2. /\ UNCHANGED <<durable, place, todo, exit, fibers>>
      /\ Next1 \in Task /\ Next1 = todo[1] /\ 1 \in DOMAIN todo /\ During /\ Next1' = Next1
  BY <1>1, Rest DEF Mark, During, Next1
<1> DEFINE k == Next1.call
<1>3. /\ \A c \in Calls :
           /\ book[c] \subseteq book'[c]
           /\ c # k => book'[c] = book[c]
           /\ "called" \in book'[c] /\ "called" \notin book[c] => Next1.op = "call"
           /\ "settled" \in book'[c] /\ "settled" \notin book[c] => Next1.op \in {"result", "failed"}
      /\ Next1.op = "call" /\ Next1.yes /\ k \in Calls => "hosted" \in book'[k]
  BY <1>1 DEF Mark, TypeOK
<1>4. at = "stream" => Planned(todo, 1)  BY <1>2 DEF PInv, Plan
<1>5. at = "settle" => Settling(todo, 1)  BY <1>2 DEF PInv, Plan
<1> HIDE DEF k
<1>6. Shown' /\ Closing' /\ Past'
  BY <1>2 DEF RInv, Shown, Closing, Past, During, Here, durable, place
<1>7. Ended'
  BY <1>2, <1>3 DEF RInv, Ended, place, fibers
<1>8. ASSUME at = "stream", ~last[turn] PROVE Streaming'
  <2>1. Next1.op # "failed"  BY <1>2, <1>4, <1>8 DEF Planned
  <2>2. \A c \in Calls : Here(c)' = "running" /\ "settled" \in book'[c] =>
          marked' /\ Next1'.op = "result" /\ Next1'.call = c
    <3> SUFFICES ASSUME NEW c \in Calls, Here(c) = "running", "settled" \in book'[c]
                 PROVE  Next1.op = "result" /\ Next1.call = c
      BY <1>1, <1>2 DEF Here, durable, place
    <3>1. "settled" \notin book[c]  BY <1>1, <1>8 DEF RInv, Streaming
    <3> QED  BY <1>3, <2>1, <3>1 DEF k
  <2>3. \A c \in Calls : "called" \in book'[c] /\ "hosted" \notin book'[c] =>
          fiber[c] # "none" \/ Forks(c)
    <3> SUFFICES ASSUME NEW c \in Calls, "called" \in book'[c], "hosted" \notin book'[c]
                 PROVE  fiber[c] # "none" \/ Forks(c)
      OBVIOUS
    <3>1. CASE "called" \in book[c]  BY <1>3, <1>8, <3>1 DEF RInv, Streaming
    <3>2. CASE "called" \notin book[c]
      <4>1. c = k /\ Next1.op = "call" /\ ~Next1.yes  BY <1>3, <3>2 DEF Task
      <4> QED  BY <1>2, <1>8, <4>1 DEF RInv, Streaming, k
    <3> QED  BY <3>1, <3>2
  <2>4. \A i \in DOMAIN todo : todo[i].op = "call" => "settled" \notin book'[todo[i].call]
    <3> SUFFICES ASSUME NEW i \in DOMAIN todo, todo[i].op = "call", "settled" \in book'[todo[i].call]
                 PROVE  FALSE
      OBVIOUS
    <3>1. /\ "settled" \notin book[todo[i].call] /\ todo[i].call \in Calls
          /\ \A j \in 1..(i - 1) : todo[j].op \in {"start", "input"}
      BY <1>8 DEF RInv, Streaming, PInv, Plan, Planned
    <3>2. Next1.op = "result"  BY <1>3, <2>1, <3>1
    <3>3. 1 \in 1..(i - 1)  BY <1>1, <1>2, <3>2 DEF TypeOK
    <3> QED  BY <1>2, <3>1, <3>2, <3>3
  <2>5. \A c \in Calls : Forks(c)' <=> Forks(c)  BY <1>2 DEF Forks
  <2>6. \A i \in DOMAIN todo : todo[i].op = "call" => todo[i].yes \/ Forks(todo[i].call)
    BY <1>8 DEF RInv, Streaming
  <2>7. \A i \in DOMAIN todo : todo[i].op = "call" => todo[i].call \in Calls
    BY <1>8 DEF PInv, Plan, Planned
  <2> QED  BY <1>2, <2>2, <2>3, <2>4, <2>5, <2>6, <2>7 DEF Streaming, fibers, place
<1>9. ASSUME at = "settle", exit = "ok", ~last[turn] PROVE Settlement'
  <2>1. CASE Stops(todo)  BY <1>2, <2>1 DEF Settlement, Stops
  <2>2. CASE ~Stops(todo)
    <3>1. ASSUME NEW c \in Calls, Here(c)' = "running" PROVE Settler(c)'
      <4>1. Settler(c)  BY <1>2, <1>9, <2>2, <3>1 DEF RInv, Settlement, Here, durable, place
      <4>2. UNCHANGED <<todo, fiber, Next1>>  BY <1>2 DEF fibers
      <4>3. CASE "settled" \notin book'[c]
        BY <1>3, <4>1, <4>2, <4>3 DEF Settler, Has
      <4>4. CASE "settled" \in book'[c] /\ "settled" \notin book[c]
        <5>1. Next1.op = "failed" /\ c = k  BY <1>2, <1>3, <1>5, <1>9, <4>4 DEF Settling
        <5> QED  BY <1>1, <4>2, <5>1 DEF Settler, k
      <4>5. CASE "settled" \in book[c]  BY <4>1, <4>2, <4>5 DEF Settler
      <4> QED  BY <4>3, <4>4, <4>5
    <3> QED  BY <3>1 DEF Settlement
  <2> QED  BY <2>1, <2>2
<1> QED
  BY <1>2, <1>6, <1>7, <1>8, <1>9 DEF RInv, Streaming, Settlement, place, durable

\* What a commit leaves running.
LEMMA CommitRuns ==
  ASSUME PInv, RInv, Commit
  PROVE  /\ \A t \in Turns, c \in Calls : tool'[t][c] = "running" /\ tool[t][c] # "running" =>
              /\ t = turn /\ c = Next1.call /\ Next1.op = "call" /\ at = "stream"
         /\ Next1.op \in {"result", "failed"} /\ Next1.call \in Calls =>
              tool'[turn][Next1.call] # "running"
<1>1. /\ turn \in Turns /\ During /\ todo # <<>> /\ TypeOK
      /\ \A t \in Turns, c \in Calls : tool'[t][c] # tool[t][c] =>
           /\ t = turn /\ c = Next1.call
           /\ \/ Next1.op = "input" /\ tool'[t][c] = "pending"
              \/ Next1.op = "call" /\ at = "stream"
              \/ tool'[t][c] = "error" \/ tool'[t][c] = "completed"
  BY CommitWrites DEF PInv
<1>2. Next1 \in Task  BY <1>1, Rest
<1>3. ASSUME Next1.op \in {"result", "failed"}, Next1.call \in Calls,
             tool'[turn][Next1.call] = "running"
      PROVE  FALSE
  <2>1. tool[turn][Next1.call] = "running"  BY <1>1, <1>3
  <2>2. "started" \in step  BY <1>1, <1>3, <2>1 DEF RInv, Shown, Here
  <2>3. tool' = [tool EXCEPT ![turn][Next1.call] = Projected(Next1.op, @, Next1.yes)]
    BY <1>3, <2>2 DEF Commit
  <2>4. tool'[turn][Next1.call] = Projected(Next1.op, "running", Next1.yes)
    BY <1>1, <1>3, <2>1, <2>3 DEF TypeOK
  <2> QED  BY <1>2, <1>3, <2>4 DEF Projected, Open, Task
<1> QED  BY <1>1, <1>3

LEMMA CallsCommit == ASSUME PInv, RInv, [Next]_vars, Commit PROVE RInv'
<1>1. TypeOK /\ TypeOK' /\ todo # <<>> /\ turn \in Turns /\ During /\ marked
  BY CommitWrites, TypeStep DEF PInv, Commit
<1>2. /\ UNCHANGED <<place, book, exit, fibers>>
      /\ todo' = Tail(todo) /\ ~marked'
      /\ Next1.op \in Publications
  BY <1>1 DEF Commit, TypeOK, Doing
<1>3. /\ Next1 = todo[1] /\ 1 \in DOMAIN todo
      /\ \A i \in DOMAIN Tail(todo) :
           i \in Nat \ {0} /\ i + 1 \in DOMAIN todo /\ Tail(todo)[i] = todo[i + 1]
      /\ \A i \in DOMAIN todo :
           i = 1 \/ (i \in Nat /\ i - 1 \in DOMAIN Tail(todo) /\ Tail(todo)[i - 1] = todo[i])
      /\ Len(todo) \in Nat /\ Len(Tail(todo)) = Len(todo) - 1
  BY <1>1, Rest, Later
<1>4. Shown'
  <2>1. "started" \in step => "started" \in step'  BY DEF Commit
  <2>2. \A c \in Calls : tool'[turn][c] # tool[turn][c] => "started" \in step
    BY DEF Commit
  <2> QED  BY <1>1, <1>2, <2>1, <2>2 DEF RInv, Shown, During, Here, place
<1>5. Ended' /\ Past'
  <2>1. Has(Tail(todo), {"await"}) => Has(todo, {"await"})  BY <1>1, Later
  <2>2. Ended'  BY <1>2, <2>1 DEF RInv, Ended, place, fibers
  <2>3. Past'  BY <1>1, <1>2, CommitRuns DEF RInv, Past, place, During
  <2> QED  BY <2>2, <2>3
<1>6. ASSUME NEW s, s = todo' PROVE Closing'
  <2>1. \A i \in DOMAIN s : i + 1 \in DOMAIN todo /\ s[i] = todo[i + 1] /\ i \in Nat \ {0}
          /\ Len(s) = Len(todo) - 1
    BY <1>2, <1>3, <1>6
  <2> QED  BY <1>2, <1>3, <1>6, <2>1 DEF RInv, Closing, place
<1>7. ASSUME at = "stream", ~last[turn] PROVE Streaming'
  <2>1. \A c \in Calls : ~(tool'[turn][c] = "running" /\ "settled" \in book[c])
    <3> SUFFICES ASSUME NEW c \in Calls, tool'[turn][c] = "running", "settled" \in book[c]
                 PROVE  FALSE
      OBVIOUS
    <3>1. CASE tool[turn][c] = "running"
      <4>1. Next1.op = "result" /\ Next1.call = c  BY <1>7, <3>1 DEF RInv, Streaming, Here
      <4> QED  BY <4>1, CommitRuns
    <3>2. CASE tool[turn][c] # "running"
      <4>1. c = Next1.call /\ Next1.op = "call"  BY <1>1, <3>2, CommitRuns
      <4> QED  BY <1>3, <1>7, <4>1 DEF RInv, Streaming
    <3> QED  BY <3>1, <3>2
  <2>2. \A c \in Calls : Forks(c) => Forks(c)'
    <3>1. Next1.op # "fork"  BY <1>2 DEF Publications
    <3> QED  BY <1>2, <1>3, <3>1 DEF Forks
  <2>3. \A i \in DOMAIN Tail(todo) : Tail(todo)[i].op = "call" =>
          /\ Tail(todo)[i].call \in Calls
          /\ "settled" \notin book[Tail(todo)[i].call]
          /\ Tail(todo)[i].yes \/ Forks(Tail(todo)[i].call)
    <3> TAKE i \in DOMAIN Tail(todo)
    <3>1. i + 1 \in DOMAIN todo /\ Tail(todo)[i] = todo[i + 1]  BY <1>3
    <3> QED  BY <1>7, <3>1 DEF RInv, Streaming, PInv, Plan, Planned
  <2>4. \A c \in Calls : "called" \in book[c] /\ "hosted" \notin book[c] =>
          fiber[c] # "none" \/ Forks(c)
    BY <1>7 DEF RInv, Streaming
  <2> QED  BY <1>2, <2>1, <2>2, <2>3, <2>4 DEF Streaming, place, fibers, Here
<1>8. ASSUME at = "settle", exit = "ok", ~last[turn] PROVE Settlement'
  <2>1. Next1.op \notin {"sweep", "sweepHosted", "await", "close"}  BY <1>2 DEF Publications
  <2>2. CASE Stops(todo)
    <3>1. Stops(Tail(todo))  BY <1>1, <2>1, <2>2, Later
    <3> QED  BY <1>2, <3>1 DEF Settlement
  <2>3. CASE ~Stops(todo)
    <3>1. ASSUME NEW c \in Calls, tool'[turn][c] = "running" PROVE Settler(c)'
      <4>1. tool[turn][c] = "running"  BY <1>1, <1>8, <3>1, CommitRuns
      <4>2. Settler(c)  BY <1>8, <2>3, <4>1 DEF RInv, Settlement, Here
      <4>3. ~(Next1.op = "failed" /\ Next1.call = c)  BY <3>1, CommitRuns
      <4>4. /\ Has(todo, {"sweep"}) => Has(Tail(todo), {"sweep"})
            /\ Has(todo, {"sweepHosted", "await"}) => Has(Tail(todo), {"sweepHosted", "await"})
            /\ Has(todo, {"await"}) => Has(Tail(todo), {"await"})
        BY <1>1, <2>1, Later
      <4> QED  BY <1>2, <4>2, <4>3, <4>4 DEF Settler, fibers
    <3> QED  BY <1>2, <3>1 DEF Settlement, Here, place
  <2> QED  BY <2>2, <2>3
<1> QED
  BY <1>2, <1>4, <1>5, <1>6, <1>7, <1>8 DEF RInv, Streaming, Settlement, place

\* A sweep leaves no call behind that it could have settled.
LEMMA CallsSweep == ASSUME PInv, RInv, [Next]_vars, Sweep PROVE RInv'
<1>1. TypeOK /\ TypeOK' /\ todo # <<>> /\ Next1.op \in Sweeps /\ ~marked
  BY TypeStep DEF PInv, Sweep, Doing, TypeOK, Sweeps, Publications
<1>2. /\ UNCHANGED <<durable, place, stopping, book, flags, marked, exit, fibers>>
      /\ todo \in Seq(Task) /\ Next1 = todo[1] /\ 1 \in DOMAIN todo /\ During
  BY <1>1, Rest DEF Sweep, During, TypeOK
<1>3. Shown' /\ Past'
  BY <1>2 DEF RInv, Shown, Past, During, Here, durable, place
<1>4. at = "stream" => last[turn]  BY <1>1, <1>2 DEF PInv, Plan, Planned, Sweeps
<1>5. Next1.op \notin {"await", "close", "failed"}  BY <1>1 DEF Sweeps
<1>6. ASSUME todo' = Tail(todo), Unsettled(Next1.op = "sweepHosted") = {} PROVE RInv'
  <2>1. /\ \A ops : Has(Tail(todo), ops) => Has(todo, ops)
        /\ \A ops : Has(todo, ops) /\ Next1.op \notin ops => Has(Tail(todo), ops)
        /\ Stops(todo) => Stops(Tail(todo))
        /\ Len(todo) \in Nat /\ Len(Tail(todo)) = Len(todo) - 1
        /\ \A i \in DOMAIN Tail(todo) :
             i \in Nat \ {0} /\ i + 1 \in DOMAIN todo /\ Tail(todo)[i] = todo[i + 1]
    BY <1>1, <1>5, Later
  <2>2. Ended'  BY <1>2, <1>6, <2>1 DEF RInv, Ended, place, fibers
  <2>3. ASSUME NEW s, s = todo' PROVE Closing'
    <3>1. \A i \in DOMAIN s : i + 1 \in DOMAIN todo /\ s[i] = todo[i + 1] /\ i \in Nat \ {0}
            /\ Len(s) = Len(todo) - 1
      BY <1>6, <2>1, <2>3
    <3> QED  BY <1>2, <2>1, <2>3, <3>1 DEF RInv, Closing, place
  <2>4. ASSUME at = "settle", exit = "ok", ~last[turn], ~Stops(todo),
               NEW c \in Calls, Here(c) = "running"
        PROVE  Settler(c)'
    <3>1. "settled" \notin book[c] /\ Settler(c)
      BY <1>5, <2>4 DEF RInv, Settlement, Settler
    <3>2. "known" \in book[c]  BY <1>2, <2>4 DEF PInv, Written
    <3>3. Next1.op = "sweepHosted" /\ "hosted" \notin book[c]
      BY <1>1, <1>6, <3>1, <3>2 DEF Unsettled, Sweeps
    <3>4. Has(Tail(todo), {"sweep"}) \/ (fiber[c] # "none" /\ Has(Tail(todo), {"await"}))
      BY <1>5, <2>1, <3>1, <3>3, <2>4 DEF Settler
    <3> QED  BY <1>2, <1>6, <3>1, <3>4 DEF Settler, fibers
  <2>5. Settlement'  BY <1>2, <1>6, <2>1, <2>4 DEF Settlement, Here, durable, place
  <2> QED  BY <1>2, <1>3, <1>4, <2>2, <2>3, <2>5 DEF RInv, Streaming, place
<1>7. ASSUME NEW k \in Calls, todo' = <<On("failed", k, FALSE)>> \o todo PROVE RInv'
  <2> DEFINE x == On("failed", k, FALSE)
  <2>1. x \in Task /\ x.op = "failed"  BY Tasked DEF Tasks, Publications, On
  <2>2. PICK s : s = <<x>> \o todo  OBVIOUS
  <2> HIDE DEF x
  <2>3. /\ todo' = s
        /\ \A ops : Has(s, ops) <=> x.op \in ops \/ Has(todo, ops)
        /\ Stops(todo) => Stops(s)
        /\ s[1] = x /\ Len(todo) \in Nat /\ Len(s) = Len(todo) + 1
        /\ \A i \in DOMAIN s :
             i = 1 \/ (i \in Nat /\ i - 1 \in DOMAIN todo /\ s[i] = todo[i - 1])
    <3>1. todo' = s  BY <1>7, <2>2 DEF x
    <3> QED  BY <1>2, <2>1, <2>2, <3>1, Earlier
  <2>4. Ended'  BY <1>2, <2>1, <2>3 DEF RInv, Ended, place, fibers
  <2>5. Closing'
    <3>1. ASSUME at = "settle", NEW i \in DOMAIN s
          PROVE  /\ s[i].op \in {"await", "close"} => i = Len(s)
                 /\ s[i].op = "await" /\ exit = "ok" => i = 1
                 /\ s[i].op = "close" /\ exit # "ok" => s[i].yes
      <4>1. CASE i = 1  BY <2>1, <2>3, <4>1
      <4>2. CASE i # 1
        <5>1. i \in Nat /\ i - 1 \in DOMAIN todo /\ s[i] = todo[i - 1]  BY <2>3, <4>2
        <5>2. /\ s[i].op \in {"await", "close"} => i - 1 = Len(todo)
              /\ s[i].op = "await" /\ exit = "ok" => i - 1 = 1
              /\ s[i].op = "close" /\ exit # "ok" => s[i].yes
          BY <3>1, <5>1 DEF RInv, Closing
        <5>3. s[i].op = "await" /\ exit = "ok" => FALSE
          BY <1>2, <1>5, <5>1, <5>2
        <5> QED  BY <2>3, <5>1, <5>2, <5>3
      <4> QED  BY <4>1, <4>2
    <3> QED  BY <1>2, <2>3, <3>1 DEF Closing, place
  <2>6. ASSUME at = "settle", exit = "ok", ~last[turn], ~Stops(todo),
               NEW c \in Calls, Here(c) = "running"
        PROVE  Settler(c)'
    <3>1. Settler(c)  BY <2>6 DEF RInv, Settlement
    <3> QED  BY <1>2, <1>5, <2>3, <3>1 DEF Settler, fibers
  <2>7. Settlement'  BY <1>2, <2>3, <2>6 DEF Settlement, Here, durable, place
  <2> QED  BY <1>2, <1>3, <1>4, <2>4, <2>5, <2>7 DEF RInv, Streaming, place
<1> QED  BY <1>6, <1>7 DEF Sweep, Unsettled

LEMMA CallsFork == ASSUME PInv, RInv, [Next]_vars, Fork PROVE RInv'
<1>1. TypeOK /\ TypeOK' /\ todo # <<>> /\ Next1.op = "fork" /\ ~marked
  BY TypeStep DEF PInv, Fork, Doing, TypeOK, Publications
<1>2. /\ UNCHANGED <<durable, place, stopping, book, flags, marked, exit, joined>>
      /\ todo \in Seq(Task) /\ Next1 = todo[1] /\ 1 \in DOMAIN todo /\ During
  BY <1>1, Rest DEF Fork, During, TypeOK
<1>3. at = "stream"  BY <1>1, <1>2 DEF PInv, Plan, Settling, During
<1>4. Planned(todo, 1)  BY <1>2, <1>3 DEF PInv, Plan
<1>5. fiber' = fiber \/ fiber' = [fiber EXCEPT ![Next1.call] = "running"]  BY DEF Fork
<1>6. Shown' /\ Past' /\ Closing' /\ Settlement'
  BY <1>2, <1>3 DEF RInv, Shown, Past, Closing, Settlement, During, Here, durable, place
<1>7. Ended'
  BY <1>1, <1>2, <1>3, <1>5 DEF RInv, Ended, place, TypeOK
<1>8. ASSUME ~last[turn] PROVE Streaming'
  <2>1. /\ todo' = Tail(todo) /\ Next1.call \in Calls
        /\ \A c \in Calls : fiber'[c] = IF c = Next1.call THEN "running" ELSE fiber[c]
    BY <1>1, <1>4, <1>2, <1>8 DEF Fork, Planned, TypeOK
  <2>2. \A c \in Calls : ~(Here(c) = "running" /\ "settled" \in book[c])
    BY <1>1, <1>3, <1>8 DEF RInv, Streaming
  <2>3. /\ \A i \in DOMAIN Tail(todo) :
             i \in Nat \ {0} /\ i + 1 \in DOMAIN todo /\ Tail(todo)[i] = todo[i + 1]
        /\ \A i \in DOMAIN todo :
             i = 1 \/ (i \in Nat /\ i - 1 \in DOMAIN Tail(todo) /\ Tail(todo)[i - 1] = todo[i])
    BY <1>1, Later
  <2>4. \A i \in DOMAIN Tail(todo) : Tail(todo)[i].op # "call"
    <3> SUFFICES ASSUME NEW i \in DOMAIN Tail(todo), Tail(todo)[i].op = "call" PROVE FALSE
      OBVIOUS
    <3>1. /\ i + 1 \in DOMAIN todo /\ todo[i + 1].op = "call" /\ 1 \in 1..((i + 1) - 1)
      BY <2>3
    <3> QED  BY <1>1, <1>2, <1>3, <3>1 DEF PInv, Plan, Planned
  <2>5. \A c \in Calls : Forks(c) /\ c # Next1.call =>
          \E i \in DOMAIN Tail(todo) : Tail(todo)[i].op = "fork" /\ Tail(todo)[i].call = c
    BY <1>2, <2>3 DEF Forks
  <2>6. \A c \in Calls : "called" \in book[c] /\ "hosted" \notin book[c] =>
          fiber'[c] # "none" \/ Forks(c)'
    BY <1>3, <1>8, <2>1, <2>5 DEF RInv, Streaming, Forks
  <2> QED  BY <1>2, <2>1, <2>2, <2>4, <2>6 DEF Streaming, Here, durable, place
<1> QED  BY <1>2, <1>6, <1>7, <1>8 DEF RInv, Streaming, place

\* The wait is over: what runs is the provider's own, and is swept, or a tool
\* broke the turn, and everything is.
LEMMA CallsAwait == ASSUME PInv, RInv, [Next]_vars, Await PROVE RInv'
<1>1. TypeOK /\ TypeOK' /\ todo # <<>> /\ Next1.op = "await" /\ ~marked
  BY TypeStep DEF PInv, Await, Doing, TypeOK, Publications
<1>2. /\ UNCHANGED <<durable, place, book, flags, marked, exit, fibers>>
      /\ todo \in Seq(Task) /\ Next1 = todo[1] /\ 1 \in DOMAIN todo /\ During
  BY <1>1, Rest DEF Await, During, TypeOK
<1>3. at = "settle"  BY <1>1, <1>2 DEF PInv, Plan, Planned, During
<1>4. DOMAIN todo = {1} /\ Has(todo, {"await"}) /\ ~Has(todo, {"sweep"})
        /\ ~Has(todo, {"sweepHosted"}) /\ ~Stops(todo)
  <2>1. 1 = Len(todo)  BY <1>1, <1>2, <1>3 DEF RInv, Closing
  <2>2. DOMAIN todo = {1}  BY <1>2, <2>1
  <2> QED  BY <1>1, <1>2, <2>2 DEF Has, Stops
<1>5. PICK x \in {"interrupted", "error", "declined", "ok"} :
        todo' = After(x) /\ (x = "ok" => joined = "none" /\ AllEnded)
  BY <1>1 DEF Await, TypeOK
<1>6. Shown' /\ Past'
  BY <1>2 DEF RInv, Shown, Past, During, Here, durable, place
<1>7. ~Has(todo', {"await"}) /\ Ended'
  <2>1. ~Has(todo', {"await"})  BY <1>5, AfterHas
  <2> QED  BY <1>2, <1>3, <2>1 DEF RInv, Ended, place, fibers
<1>8. ASSUME NEW s, s = todo' PROVE Closing'
  <2>1. \A i \in DOMAIN s : /\ s[i].op # "await"
                            /\ s[i].op = "close" => i = Len(s) /\ (exit # "ok" => s[i].yes)
    BY <1>5, <1>8, AfterHas DEF Has
  <2> QED  BY <1>2, <1>8, <2>1 DEF Closing
<1>9. ASSUME exit = "ok", ~last[turn], ~Stops(todo'), NEW c \in Calls, Here(c) = "running"
      PROVE  Settler(c)'
  <2>1. x \notin {"interrupted", "declined"}  BY <1>5, <1>9, AfterHas
  <2>2. /\ "settled" \notin book[c]
        /\ "hosted" \in book[c] \/ fiber[c] # "none"
    BY <1>1, <1>3, <1>4, <1>9 DEF RInv, Settlement, Settler
  <2>3. CASE Has(todo', {"sweep"})  BY <1>2, <2>2, <2>3 DEF Settler
  <2>4. CASE ~Has(todo', {"sweep"})
    <3>1. x = "ok" /\ ~Rejected  BY <1>5, <2>1, <2>4, AfterHas
    <3>2. Has(todo', {"sweepHosted"})  BY <1>5, <1>9, <3>1, AfterHas
    <3>3. fiber[c] = "none"
      <4>1. joined = "none" /\ fiber[c] \notin Live  BY <1>5, <3>1 DEF AllEnded
      <4>2. fiber[c] \notin {"delivered", "dropped", "broken", "interrupted"}
        BY <1>3, <1>4, <1>9, <2>2, <4>1 DEF RInv, Ended
      <4>3. fiber[c] \in Fibers  BY <1>1 DEF TypeOK, Fibers
      <4> QED  BY <4>1, <4>2, <4>3 DEF Fibers
    <3>4. Has(todo', {"sweepHosted", "await"})  BY <3>2 DEF Has
    <3> QED  BY <1>2, <2>2, <3>3, <3>4 DEF Settler
  <2> QED  BY <2>3, <2>4
<1>10. Settlement'  BY <1>2, <1>9 DEF Settlement, Here, durable, place
<1> QED  BY <1>2, <1>3, <1>6, <1>7, <1>8, <1>10 DEF RInv, Streaming, place

LEMMA CallsCleared == ASSUME PInv, RInv, [Next]_vars, Cleared PROVE RInv'
<1>1. TypeOK /\ TypeOK' /\ todo # <<>> /\ Next1.op = "clear" /\ ~marked
  BY TypeStep DEF PInv, Cleared, Doing, TypeOK, Publications
<1>2. /\ UNCHANGED <<durable, place, stopping, book, flags, marked, exit, fibers>>
      /\ todo' = Tail(todo) /\ Next1 = todo[1] /\ 1 \in DOMAIN todo /\ During
  BY <1>1, Rest DEF Cleared, During
<1>3. at = "settle"  BY <1>1, <1>2 DEF PInv, Plan, Planned, During
<1>4. /\ \A ops : Has(Tail(todo), ops) => Has(todo, ops)
      /\ \A ops : Has(todo, ops) /\ "clear" \notin ops => Has(Tail(todo), ops)
      /\ Stops(todo) => Stops(Tail(todo))
      /\ Len(todo) \in Nat /\ Len(Tail(todo)) = Len(todo) - 1
      /\ \A i \in DOMAIN Tail(todo) :
           i \in Nat \ {0} /\ i + 1 \in DOMAIN todo /\ Tail(todo)[i] = todo[i + 1]
  BY <1>1, Later
<1>5. Shown' /\ Past'
  BY <1>2 DEF RInv, Shown, Past, During, Here, durable, place
<1>6. Ended'  BY <1>2, <1>4 DEF RInv, Ended, place, fibers
<1>7. ASSUME NEW s, s = todo' PROVE Closing'
  <2>1. \A i \in DOMAIN s : i + 1 \in DOMAIN todo /\ s[i] = todo[i + 1] /\ i \in Nat \ {0}
          /\ Len(s) = Len(todo) - 1
    BY <1>2, <1>4, <1>7
  <2> QED  BY <1>2, <1>4, <1>7, <2>1 DEF RInv, Closing, place
<1>8. ASSUME exit = "ok", ~last[turn], ~Stops(todo), NEW c \in Calls, Here(c) = "running"
      PROVE  Settler(c)'
  <2>1. Settler(c)  BY <1>3, <1>8 DEF RInv, Settlement
  <2> QED  BY <1>1, <1>2, <1>4, <2>1 DEF Settler, fibers
<1>9. Settlement'  BY <1>2, <1>4, <1>8 DEF Settlement, Here, durable, place
<1> QED  BY <1>2, <1>3, <1>5, <1>6, <1>7, <1>9 DEF RInv, Streaming, place

LEMMA CallsTools ==
  ASSUME PInv, RInv, [Next]_vars, NEW k \in Calls,
         Kill(k) \/ (\E result \in {"ok", "bad"} : Execute(k, result))
           \/ (\E how \in {"error", "declined"} : Break(k, how))
  PROVE  RInv'
<1>1. TypeOK /\ TypeOK'  BY TypeStep DEF PInv
<1>2. /\ UNCHANGED <<durable, place, publisher, exit>>
      /\ fiber[k] = "running" /\ (joined # "none" => joined' # "none")
      /\ \E to \in {"ok", "bad", "broken", "interrupted"} :
           /\ fiber' = [fiber EXCEPT ![k] = to]
           /\ to = "broken" => joined' # "none"
           /\ to = "interrupted" => Doing({"clear", "close"})
  BY DEF Kill, Execute, Break
<1>3. /\ UNCHANGED <<tool, step, last, turn, at, book, todo, marked>>
      /\ \A c \in Calls : (fiber'[c] = "none" <=> fiber[c] = "none")
  BY <1>1, <1>2 DEF TypeOK, durable, place, publisher
<1>4. Shown' /\ Past' /\ Closing' /\ Streaming' /\ Settlement'
  BY <1>2, <1>3 DEF RInv, Shown, Past, Closing, Streaming, Settlement, Settler, Forks, Next1,
                    During, Here
<1>5. Ended'
  <2>1. Doing({"clear", "close"}) =>
          ~(at = "stream" \/ (at = "settle" /\ exit = "ok" /\ Has(todo, {"await"})))
    <3> SUFFICES ASSUME Doing({"clear", "close"}),
                        at = "stream" \/ (at = "settle" /\ exit = "ok" /\ Has(todo, {"await"}))
                 PROVE  FALSE
      OBVIOUS
    <3>1. todo # <<>> /\ Next1.op \in {"clear", "close"} /\ Next1 = todo[1] /\ 1 \in DOMAIN todo
      BY <1>1, Rest DEF Doing
    <3>2. at # "stream"  BY <3>1 DEF PInv, Plan, Planned
    <3>3. PICK i \in DOMAIN todo : todo[i].op = "await"  BY <3>2 DEF Has
    <3>4. i = 1  BY <3>2, <3>3 DEF RInv, Closing
    <3> QED  BY <3>1, <3>3, <3>4
  <2>2. \A c \in Calls : c # k => fiber'[c] = fiber[c]  BY <1>1, <1>2 DEF TypeOK
  <2>3. /\ fiber'[k] \notin {"delivered", "dropped"}
        /\ fiber'[k] = "broken" => joined' # "none"
        /\ fiber'[k] = "interrupted" => Doing({"clear", "close"})
    BY <1>1, <1>2 DEF TypeOK
  <2> QED  BY <1>2, <1>3, <2>1, <2>2, <2>3 DEF RInv, Ended
<1> QED  BY <1>4, <1>5 DEF RInv

LEMMA CallsDeliver ==
  ASSUME PInv, NoToolOutlivesItsTurn, RInv, [Next]_vars, NEW k \in Calls, Deliver(k)
  PROVE  RInv'
<1>1. TypeOK /\ TypeOK'  BY TypeStep DEF PInv
<1>2. /\ UNCHANGED <<step, place, stopping, flags, todo, marked, exit, joined>>
      /\ fiber[k] \in {"ok", "bad"} /\ turn \in Turns /\ During
  BY DeliverWrites DEF Deliver
<1>3. /\ \A c \in Calls : c # k => fiber'[c] = fiber[c] /\ book'[c] = book[c]
      /\ fiber'[k] \in {"dropped", "delivered"} /\ "settled" \in book'[k]
      /\ book[k] \subseteq book'[k] /\ book'[k] \subseteq book[k] \cup {"settled"}
  BY <1>1 DEF Deliver, TypeOK
<1>4. \A c \in Calls : /\ fiber'[c] = "none" <=> fiber[c] = "none"
                       /\ "hosted" \in book'[c] <=> "hosted" \in book[c]
                       /\ "called" \in book'[c] <=> "called" \in book[c]
  BY <1>2, <1>3
<1>5. /\ \A t \in Turns, c \in Calls : tool'[t][c] = "running" => tool[t][c] = "running"
      /\ \A c \in Calls : tool'[turn][c] # "absent" => tool[turn][c] # "absent"
      /\ "settled" \notin book[k] => tool'[turn][k] # "running"
  <2>1. /\ \A t \in Turns, c \in Calls : tool'[t][c] # tool[t][c] =>
             t = turn /\ Here(c) \in Open /\ tool'[t][c] \in {"error", "completed"}
    BY DeliverWrites
  <2>2. ASSUME "settled" \notin book[k], tool'[turn][k] = "running" PROVE FALSE
    <3>1. tool[turn][k] = "running"  BY <1>2, <2>1, <2>2
    <3>2. tool' = [tool EXCEPT ![turn][k] = Projected("result", @, fiber[k] = "ok")]
      BY <2>2 DEF Deliver
    <3>3. tool'[turn][k] = Projected("result", "running", fiber[k] = "ok")
      BY <1>1, <1>2, <3>1, <3>2 DEF TypeOK
    <3> QED  BY <2>2, <3>3 DEF Projected, Open
  <2> QED  BY <1>2, <2>1, <2>2 DEF Here, Open
<1>6. Shown' /\ Past' /\ Closing' /\ Ended'
  <2>1. Shown' /\ Past'  BY <1>2, <1>5 DEF RInv, Shown, Past, During, Here, place
  <2>2. Closing'  BY <1>2 DEF RInv, Closing, place
  <2>3. Ended'  BY <1>2, <1>3 DEF RInv, Ended, place
  <2> QED  BY <2>1, <2>2, <2>3
<1>7. ASSUME at = "stream", ~last[turn] PROVE Streaming'
  <2>1. \A c \in Calls : Here(c)' = "running" /\ "settled" \in book'[c] =>
          marked' /\ Next1'.op = "result" /\ Next1'.call = c
    <3> SUFFICES ASSUME NEW c \in Calls, tool'[turn][c] = "running", "settled" \in book'[c]
                 PROVE  marked /\ Next1.op = "result" /\ Next1.call = c
      BY <1>2 DEF Here, place, Next1
    <3>1. tool[turn][c] = "running"  BY <1>2, <1>5
    <3>2. "settled" \in book[c]  BY <1>3, <1>5
    <3> QED  BY <1>7, <3>1, <3>2 DEF RInv, Streaming, Here
  <2>2. \A i \in DOMAIN todo : todo[i].op = "call" => todo[i].call # k /\ todo[i].call \in Calls
    BY <1>2, <1>7 DEF PInv, Plan, Planned
  <2>3. \A c \in Calls : Forks(c)' <=> Forks(c)  BY <1>2 DEF Forks
  <2>4. \A i \in DOMAIN todo : todo[i].op = "call" =>
          "settled" \notin book'[todo[i].call] /\ (todo[i].yes \/ Forks(todo[i].call)')
    <3>1. \A i \in DOMAIN todo : todo[i].op = "call" => "settled" \notin book'[todo[i].call]
      BY <1>3, <1>7, <2>2 DEF RInv, Streaming
    <3>2. \A i \in DOMAIN todo : todo[i].op = "call" => todo[i].yes \/ Forks(todo[i].call)
      BY <1>7 DEF RInv, Streaming
    <3> QED  BY <1>2, <3>1, <3>2 DEF Forks
  <2>5. \A c \in Calls : "called" \in book'[c] /\ "hosted" \notin book'[c] =>
          fiber'[c] # "none" \/ Forks(c)'
    BY <1>4, <1>7, <2>3 DEF RInv, Streaming
  <2> QED  BY <1>2, <2>1, <2>4, <2>5 DEF Streaming
<1>8. ASSUME at = "settle", exit = "ok", ~last[turn], ~Stops(todo),
             NEW c \in Calls, tool'[turn][c] = "running"
      PROVE  Settler(c)'
  <2>1. Settler(c)  BY <1>2, <1>5, <1>8 DEF RInv, Settlement, Here
  <2>2. "settled" \in book'[c] => "settled" \in book[c]  BY <1>3, <1>5, <1>8
  <2> QED  BY <1>2, <1>4, <2>1, <2>2 DEF Settler, Next1
<1>9. Settlement'  BY <1>2, <1>8 DEF Settlement, Here, place
<1> QED  BY <1>2, <1>6, <1>7, <1>9 DEF RInv, Streaming, place

LEMMA CallsStep == ASSUME PInv, NoToolOutlivesItsTurn, RInv, Hidden, [Next]_vars PROVE RInv'
<1>1. ASSUME NEW x \in {"ok", "llm", "defect"}, todo = <<>>, Settles(x) PROVE RInv'
  BY <1>1, CallsSettles
<1>2. CASE StreamInterrupted  BY <1>2, CallsSettles DEF StreamInterrupted
<1> QED
  BY <1>1, <1>2, CallsIdle, CallsProvider, CallsMark, CallsCommit, CallsSweep, CallsFork,
     CallsAwait, CallsCleared, CallsTools, CallsDeliver
  DEF Next, Runner, Tools, StreamEnds

LEMMA CallsInit == Init => RInv
BY DEF Init, RInv, Shown, Streaming, Ended, Closing, Settlement, Past, During

\* A compaction comes between turns, where none of its calls runs, and a turn
\* writes its own calls only.
LEMMA HiddenStep ==
  ASSUME PInv, NoToolOutlivesItsTurn, RInv, Hidden, [Next]_vars PROVE Hidden'
<1>0. TypeOK  BY DEF PInv
<1>1. CASE Commit \/ \E c \in Calls : Deliver(c)
  <2>1. UNCHANGED <<compacted, last, turn, at>>  BY <1>1 DEF Commit, Deliver, place
  <2>2. During
    <3>1. CASE Commit  BY <3>1, CommitWrites
    <3>2. CASE \E c \in Calls : Deliver(c)  BY <3>2, DeliverWrites
    <3> QED  BY <1>1, <3>1, <3>2
  <2>3. compacted < turn  BY <2>2 DEF Hidden
  <2>4. \A t \in 1..compacted, c \in Calls : tool'[t][c] = tool[t][c]
    <3> SUFFICES ASSUME NEW t \in 1..compacted, NEW c \in Calls, tool'[t][c] # tool[t][c]
                 PROVE  FALSE
      OBVIOUS
    <3>1. t \in Turns /\ t # turn  BY <1>0, <2>3 DEF TypeOK, Turns
    <3>2. CASE Commit  BY <3>1, <3>2, CommitWrites
    <3>3. CASE \E d \in Calls : Deliver(d)  BY <3>1, <3>3, DeliverWrites
    <3> QED  BY <1>1, <3>2, <3>3
  <2> QED  BY <2>1, <2>3, <2>4 DEF Hidden, During
<1>2. CASE Recover
  <2>1. UNCHANGED <<compacted, last, turn>> /\ at' \in {"recover", "ready"}
    BY <1>2 DEF Recover
  <2>2. \A t \in 1..compacted, c \in Calls : tool'[t][c] = tool[t][c]
    <3>1. ASSUME NEW call \in OpenCalls, NEW t \in 1..compacted, NEW c \in Calls,
                 tool' = [tool EXCEPT ![call[1]][call[2]] = "error"]
          PROVE  tool'[t][c] = tool[t][c]
      <4>1. call[1] \in Turns /\ call[2] \in Calls /\ call[1] > compacted
        BY <3>1 DEF OpenCalls, Visible
      <4>2. t \in Turns /\ t # call[1]  BY <1>0, <4>1 DEF TypeOK, Turns
      <4> QED  BY <1>0, <3>1, <4>1, <4>2 DEF TypeOK
    <3> QED  BY <1>2, <3>1 DEF Recover
  <2> QED  BY <2>1, <2>2 DEF Hidden, During
<1>3. CASE Compact
  <2>1. UNCHANGED <<tool, last, turn, at>> /\ compacted' = turn /\ at = "ready"
    BY <1>3 DEF Compact, place
  <2>2. 1..turn \subseteq Turns  BY <1>0 DEF TypeOK, Turns
  <2> QED  BY <2>1, <2>2 DEF RInv, Past, Hidden, During
<1>4. CASE BeginTurn
  BY <1>0, <1>4 DEF BeginTurn, Hidden, TypeOK
<1>5. ASSUME UNCHANGED <<tool, compacted, last, turn>>, During' => During PROVE Hidden'
  BY <1>5 DEF Hidden
<1>6. CASE UNCHANGED vars \/ StartDrain \/ EndDrain \/ Stopped \/ Interrupt \/ Crash \/ EndTurn
  BY <1>5, <1>6 DEF vars, durable, place, StartDrain, EndDrain, Stopped, Interrupt, Crash, EndTurn,
                    During
<1>7. ASSUME NEW tasks, Handles(tasks) PROVE Hidden'
  BY <1>5, <1>7 DEF Handles, durable, place, During
<1>8. CASE Provider
  BY <1>7, <1>8 DEF Provider, Text, StepFinish, ProviderError, Input, Call, Result
<1>9. ASSUME NEW x, Settles(x) PROVE Hidden'
  BY <1>5, <1>9 DEF Settles, durable, During
<1>10. CASE Mark \/ Sweep \/ Fork \/ Await \/ Cleared \/ Tools \/ \E c \in Calls : Kill(c)
  BY <1>5, <1>10 DEF Mark, Sweep, Fork, Await, Cleared, Tools, Kill, Execute, Break, durable, place,
                     During
<1> QED
  BY <1>1, <1>2, <1>3, <1>4, <1>6, <1>8, <1>9, <1>10
  DEF Next, Runner, StreamEnds, StreamInterrupted

LEMMA CallsInvariant == Spec => [](PInv /\ RInv /\ Hidden)
<1>1. Init => Hidden  BY DEF Init, Hidden, During
<1> QED  BY <1>1, CallsInit, CallsStep, HiddenStep, Plans, ToolsEnd, PTL DEF Spec

\* When a drain makes its next request, no call of its earlier turns runs:
\* the tools were awaited, and what the provider or a broken turn left
\* without a result was failed, but on a last step, which offers no tools.
THEOREM NoneRunning == Spec => []RequestsShowNoRunningCall
<1>1. RInv => RequestsShowNoRunningCall  BY DEF RInv, Past, RequestsShowNoRunningCall
<1> QED  BY <1>1, CallsInvariant, PTL

\* Before a drain makes a request, and for as long as its turns last, a call of
\* an earlier drain is open only when a compaction of its own drain hid it, and
\* then it does not run, but on a last step.
THEOREM LeftoversFailed == Spec => []LeftoversAreFailed
<1>1. ASSUME TypeOK, LInv, Hidden PROVE LeftoversAreFailed
  <2> SUFFICES ASSUME at \in {"ready", "stream", "settle"}, NEW t \in 1..since, NEW c \in Calls,
                      tool[t][c] \in Open
               PROVE  t <= compacted /\ (tool[t][c] = "pending" \/ last[t])
    BY DEF LeftoversAreFailed
  <2>1. t <= compacted  BY <1>1 DEF LInv, OpenIsHidden
  <2>2. t \in 1..compacted  BY <1>1, <2>1 DEF TypeOK
  <2> QED  BY <1>1, <2>1, <2>2 DEF Hidden, Open
<1> QED  BY <1>1, Leftovers, CallsInvariant, TypeCorrect, PTL

-----------------------------------------------------------------------------
(***************************************************************************)
(* The step of a turn whose stream was broken off.  What is left of the    *)
(* settlement ends the step, or will when the wait is over: the publisher  *)
(* knows of a step that started and did not finish that it is active, even *)
(* when the event that started it was under way.                           *)
(***************************************************************************)
Ends == {"failStep", "endStep"}

Exits ==
  /\ at = "stream" => exit = "none"
  /\ at \in {"recover", "ready"} => exit \in {"none", "ok"}

Flagged ==
  /\ at = "stream" /\ ~Rejected => "failed" \notin flags /\ ~Has(todo, Ends)
  /\ During /\ "started" \in step /\ "failed" \notin flags =>
       "active" \in flags \/ "finished" \in flags
  /\ marked /\ Next1.op = "start" => "active" \in flags

\* An interrupted stream is settled as an interrupt.
Interrupted ==
  at = "settle" /\ exit = "interrupted" /\ Has(todo, {"await"}) /\ ~Rejected =>
    /\ stopping /\ "failed" \notin flags
    /\ \A i \in DOMAIN todo : todo[i].op \in {"clear", "await"}

Concluded ==
  at = "settle" /\ exit \in {"llm", "interrupted"} /\ ~Rejected =>
    \/ "failed" \in step \/ "ended" \in step
    \/ /\ Rounded(todo)
       /\ "started" \in step =>
            Has(todo, Ends) \/ (exit = "interrupted" /\ Has(todo, {"await"}))

BInv == Exits /\ Flagged /\ Interrupted /\ Concluded /\ BrokenStepIsClosed

LEMMA StepIdle ==
  ASSUME PInv, RInv, BInv, [Next]_vars,
         \/ UNCHANGED vars \/ Interrupt \/ Compact \/ EndDrain \/ Stopped \/ Recover
         \/ StartDrain \/ BeginTurn \/ Crash \/ EndTurn
  PROVE  BInv'
<1>0. TypeOK /\ TypeOK'  BY TypeStep DEF PInv
<1>1. CASE UNCHANGED vars \/ Interrupt \/ Compact
  <2>1. /\ UNCHANGED <<tool, step, last, turn, since, at, book, flags, todo, marked, exit, fiber,
                       joined>>
        /\ stopping => stopping'
    BY <1>1 DEF vars, Interrupt, Compact, durable, place, publisher, fibers
  <2>2. Exits' /\ Flagged' /\ BrokenStepIsClosed'
    BY <2>1 DEF BInv, Exits, Flagged, BrokenStepIsClosed, During, Rejected, Next1, Has
  <2>3. Interrupted' /\ Concluded'
    BY <2>1 DEF BInv, Interrupted, Concluded, Rejected, Has, Rounded
  <2> QED  BY <2>2, <2>3 DEF BInv
<1>2. CASE StartDrain \/ BeginTurn \/ Crash
  <2>1. /\ at' \in {"recover", "stream", "idle"} /\ exit' = "none" /\ flags' = {}
        /\ todo' = <<>> /\ ~marked' /\ (at' = "stream" => step' = {})
    BY <1>2 DEF StartDrain, BeginTurn, Crash, Reset
  <2>2. ~Has(todo', Ends)  BY <2>1 DEF Has
  <2> QED
    BY <2>1, <2>2 DEF BInv, Exits, Flagged, Interrupted, Concluded, BrokenStepIsClosed, During
<1>3. CASE EndDrain \/ Stopped \/ Recover
  <2>1. /\ at \in {"recover", "ready"} /\ at' \in {"idle", "recover", "ready"} /\ exit' = exit
        /\ UNCHANGED <<marked, flags, todo>>
    BY <1>3 DEF EndDrain, Stopped, Recover, publisher
  <2>2. exit \in {"none", "ok"}  BY <2>1 DEF BInv, Exits
  <2>3. ~marked  BY <1>0, <2>1 DEF TypeOK, Doing
  <2> QED
    BY <2>1, <2>2, <2>3 DEF BInv, Exits, Flagged, Interrupted, Concluded, BrokenStepIsClosed,
                            During
<1>4. CASE EndTurn
  <2>1. /\ todo # <<>> /\ Next1.op = "close" /\ at' = (IF Next1.yes THEN "idle" ELSE "ready")
        /\ UNCHANGED <<durable, flags, marked, exit>>
    BY <1>4 DEF EndTurn, Doing
  <2>2. /\ at = "settle" /\ Next1 = todo[1] /\ 1 \in DOMAIN todo
    BY <1>0, <2>1, Rest DEF PInv, Plan, Planned
  <2>3. DOMAIN todo = {1}
    <3>1. 1 = Len(todo)  BY <2>1, <2>2 DEF RInv, Closing
    <3> QED  BY <1>0, <3>1 DEF TypeOK
  <2>4. ~Has(todo, Ends) /\ ~Has(todo, {"await"})  BY <2>1, <2>2, <2>3 DEF Has, Ends
  <2>5. BrokenStepIsClosed'
    <3> SUFFICES ASSUME exit \in {"llm", "interrupted"}, ~Rejected, step = {"started"} PROVE FALSE
      BY <2>1 DEF BrokenStepIsClosed, Rejected, durable
    <3> QED  BY <2>2, <2>4 DEF BInv, Concluded
  <2>6. at' = "ready" => exit = "ok"
    <3>1. at' = "ready" => ~Next1.yes  BY <2>1
    <3>2. ~Next1.yes => exit = "ok"  BY <2>1, <2>2 DEF RInv, Closing
    <3> QED  BY <3>1, <3>2
  <2>7. ~marked  BY <1>0, <2>1 DEF TypeOK, Doing, Publications
  <2> QED
    BY <2>1, <2>5, <2>6, <2>7 DEF BInv, Exits, Flagged, Interrupted, Concluded, During
<1> QED  BY <1>1, <1>2, <1>3, <1>4

LEMMA StepProvider == ASSUME PInv, BInv, [Next]_vars, Provider PROVE BInv'
<1>0. TypeOK  BY DEF PInv
<1>1. ASSUME NEW tasks, Handles(tasks),
             "providerError" \in flags' \/ ~Has(tasks, Ends),
             "failed" \in flags' <=> "failed" \in flags,
             "active" \in flags => "active" \in flags' \/ "finished" \in flags',
             "finished" \in flags => "finished" \in flags'
      PROVE  BInv'
  <2>1. /\ at = "stream" /\ at' = "stream" /\ "providerError" \notin flags /\ todo = <<>>
        /\ ~marked' /\ exit' = exit /\ step' = step /\ todo' = tasks
    BY <1>0, <1>1 DEF Handles, Reads, place, durable, TypeOK, Doing
  <2>2. Flagged'  BY <1>1, <2>1 DEF BInv, Flagged, During, Rejected
  <2> QED  BY <2>1, <2>2 DEF BInv, Exits, Interrupted, Concluded, BrokenStepIsClosed
<1>2. /\ ~Has(<<>>, Ends) /\ <<>> \in Seq(Task)  BY DEF Has
<1>3. \A op \in {"start", "input", "call", "result", "fork"}, c \in Calls \cup {None}, yes \in BOOLEAN :
        ~Has(<<On(op, c, yes)>>, Ends) /\ <<On(op, c, yes)>> \in Seq(Task)
  <2> TAKE op \in {"start", "input", "call", "result", "fork"}, c \in Calls \cup {None}, yes \in BOOLEAN
  <2>1. On(op, c, yes) \in Task  BY Tasked DEF Tasks, Publications
  <2>2. On(op, c, yes).op \notin Ends  BY DEF On, Ends
  <2> QED  BY <2>1, <2>2, HasOne, Single
<1>4. ~Has(Starting, Ends)  BY <1>2, <1>3 DEF Starting, Do
<1>5. \A c \in Calls : ~Has(StartInput(c), Ends)
  <2> TAKE c \in Calls
  <2>1. <<On("input", c, FALSE)>> \in Seq(Task) /\ ~Has(<<On("input", c, FALSE)>>, Ends)
    BY <1>3
  <2> QED  BY <1>4, <2>1, Tasked, HasJoined DEF StartInput
<1>6. CASE Text  BY <1>1, <1>4, <1>6 DEF Text
<1>7. CASE StepFinish
  <2>1. Handles(<<>>) /\ flags' = (flags \cup {"finished"}) \ {"active"}  BY <1>7 DEF StepFinish
  <2> QED  BY <1>1, <1>2, <2>1
<1>8. CASE ProviderError  BY <1>1, <1>8 DEF ProviderError
<1>9. ASSUME NEW c \in Calls, Input(c) PROVE BInv'  BY <1>1, <1>5, <1>9 DEF Input
<1>10. ASSUME NEW c \in Calls, NEW ok \in BOOLEAN, Result(c, ok) PROVE BInv'
  <2>1. Handles(<<On("result", c, ok)>>) /\ flags' = flags  BY <1>10 DEF Result
  <2>2. ~Has(<<On("result", c, ok)>>, Ends)  BY <1>3
  <2> QED  BY <1>1, <2>1, <2>2
<1>11. ASSUME NEW c \in Calls, NEW hosted \in BOOLEAN, Call(c, hosted) PROVE BInv'
  <2> DEFINE a == IF book[c] = {} THEN StartInput(c) ELSE <<>>
             b == <<On("call", c, hosted)>>
             d == IF hosted THEN <<>> ELSE <<On("fork", c, FALSE)>>
  <2>1. Handles(a \o b \o d) /\ flags' = flags  BY <1>11 DEF Call
  <2>2. a \in Seq(Task) /\ ~Has(a, Ends)  BY <1>2, <1>5, Tasked
  <2>3. b \in Seq(Task) /\ ~Has(b, Ends)  BY <1>3
  <2>4. d \in Seq(Task) /\ ~Has(d, Ends)
    <3>1. CASE hosted
      <4>1. d = <<>>  BY <3>1
      <4> QED  BY <1>2, <4>1
    <3>2. CASE ~hosted
      <4>1. d = <<On("fork", c, FALSE)>>  BY <3>2
      <4> QED  BY <1>3, <4>1
    <3> QED  BY <3>1, <3>2
  <2> HIDE DEF a, b, d
  <2>5. a \o b \in Seq(Task) /\ ~Has(a \o b, Ends)  BY <2>2, <2>3, HasJoined, Concatenated
  <2>6. ~Has(a \o b \o d, Ends)  BY <2>4, <2>5, HasJoined
  <2> QED  BY <1>1, <2>1, <2>6
<1> QED  BY <1>6, <1>7, <1>8, <1>9, <1>10, <1>11 DEF Provider

LEMMA StepSettles ==
  ASSUME PInv, BInv, [Next]_vars,
         NEW x \in {"ok", "llm", "defect", "interrupted"}, Settles(x),
         x = "interrupted" => stopping
  PROVE  BInv'
<1>1. /\ at = "stream" /\ at' = "settle" /\ exit' = x /\ todo' = Before(x) /\ ~marked'
      /\ UNCHANGED <<durable, stopping, flags>>
  BY DEF Settles
<1>2. ~Rejected => "failed" \notin flags  BY <1>1 DEF BInv, Flagged
<1>3. Exits' /\ BrokenStepIsClosed' /\ Flagged'
  BY <1>1 DEF BInv, Exits, BrokenStepIsClosed, Flagged, During, durable
<1>4. ASSUME NEW s, s = todo' PROVE Interrupted'
  <2>1. x = "interrupted" => \A i \in DOMAIN s : s[i].op \in {"clear", "await"}
    BY <1>1, <1>4, BeforeHas
  <2> QED  BY <1>1, <1>2, <1>4, <2>1 DEF Interrupted, Rejected
<1>5. Concluded'
  <2>1. Rounded(todo') /\ Has(todo', {"await"})  BY <1>1, BeforeHas
  <2>2. x = "llm" /\ ~Rejected => Has(todo', Ends)  BY <1>1, <1>2, BeforeHas DEF Ends
  <2> QED  BY <1>1, <2>1, <2>2 DEF Concluded, Rejected
<1> QED  BY <1>3, <1>4, <1>5 DEF BInv

LEMMA StepMark == ASSUME PInv, BInv, [Next]_vars, Mark PROVE BInv'
<1>1. TypeOK /\ todo # <<>> /\ marked' /\ Next1.op \in Publications  BY DEF PInv, Mark, Doing
<1>2. /\ UNCHANGED <<durable, place, stopping, todo, exit>>
      /\ Next1' = Next1 /\ Next1 = todo[1] /\ 1 \in DOMAIN todo
  BY <1>1, Rest DEF Mark, Next1
<1>3. /\ Next1.op # "failStep" => flags \subseteq flags'
      /\ "failed" \in flags' /\ "failed" \notin flags => Next1.op = "failStep"
      /\ Next1.op = "failStep" => "failed" \in flags'
      /\ Next1.op = "start" => "active" \in flags'
      /\ "providerError" \in flags' <=> "providerError" \in flags
  BY DEF Mark
<1>4. Next1.op = "failStep" => Has(todo, Ends)  BY <1>2 DEF Has, Ends
<1>5. Flagged'
  BY <1>2, <1>3, <1>4 DEF BInv, Flagged, During, Rejected, durable, place, Has
<1>6. Interrupted'
  <2>1. Next1.op = "failStep" /\ at = "settle" /\ exit = "interrupted" /\ Has(todo, {"await"})
          => Rejected
    BY <1>2 DEF BInv, Interrupted
  <2>2. Has(todo', {"await"}) <=> Has(todo, {"await"})  BY <1>2
  <2> QED  BY <1>2, <1>3, <2>1, <2>2 DEF BInv, Interrupted, Rejected, place
<1>7. Exits' /\ Concluded' /\ BrokenStepIsClosed'
  BY <1>2, <1>3 DEF BInv, Exits, Concluded, BrokenStepIsClosed, Rejected, durable, place, Has,
                    Rounded
<1> QED  BY <1>5, <1>6, <1>7 DEF BInv

\* The event that starts the step was marked; the one that ends it ends it.
LEMMA StepCommit == ASSUME PInv, BInv, [Next]_vars, Commit PROVE BInv'
<1>1. TypeOK /\ todo # <<>> /\ During /\ marked /\ Next1.op \in Publications
  BY CommitWrites DEF PInv, Commit, TypeOK, Doing
<1>2. /\ UNCHANGED <<place, stopping, flags, exit>> /\ todo' = Tail(todo) /\ ~marked'
      /\ step \subseteq step'
      /\ "started" \in step' /\ "started" \notin step => Next1.op = "start"
      /\ "started" \in step /\ Next1.op \in Ends => "failed" \in step' \/ "ended" \in step'
  BY DEF Commit, Ends
<1>3. /\ \A ops : Has(Tail(todo), ops) => Has(todo, ops)
      /\ \A ops : Has(todo, ops) /\ Next1.op \notin ops => Has(Tail(todo), ops)
      /\ Rounded(todo) => Rounded(Tail(todo))
      /\ Rounded(todo) /\ Next1.op = "start" => Has(Tail(todo), Ends)
      /\ \A i \in DOMAIN Tail(todo) : i + 1 \in DOMAIN todo /\ Tail(todo)[i] = todo[i + 1]
  BY <1>1, Later DEF Ends
<1>4. Flagged'
  <2>1. "started" \in step' /\ "failed" \notin flags => "active" \in flags \/ "finished" \in flags
    BY <1>1, <1>2 DEF BInv, Flagged
  <2> QED  BY <1>2, <1>3, <2>1 DEF BInv, Flagged, Rejected, place
<1>5. Interrupted'
  BY <1>2, <1>3 DEF BInv, Interrupted, Rejected, place
<1>6. Concluded'
  <2> SUFFICES ASSUME at = "settle", exit \in {"llm", "interrupted"}, ~Rejected,
                      "failed" \notin step', "ended" \notin step'
               PROVE  /\ Rounded(Tail(todo))
                      /\ "started" \in step' =>
                           \/ Has(Tail(todo), Ends)
                           \/ exit = "interrupted" /\ Has(Tail(todo), {"await"})
    BY <1>2 DEF Concluded, Rejected, place
  <2>1. /\ Rounded(todo)
        /\ "started" \in step =>
             Has(todo, Ends) \/ (exit = "interrupted" /\ Has(todo, {"await"}))
    BY <1>2 DEF BInv, Concluded
  <2>2. Next1.op # "await"  BY <1>1 DEF Publications
  <2>3. CASE "started" \in step
    <3>1. Next1.op \notin Ends  BY <1>2, <2>3
    <3> QED  BY <1>3, <2>1, <2>2, <2>3, <3>1
  <2>4. CASE "started" \notin step  BY <1>2, <1>3, <2>1, <2>4
  <2> QED  BY <2>3, <2>4
<1>7. Exits' /\ BrokenStepIsClosed'
  BY <1>1, <1>2 DEF BInv, Exits, BrokenStepIsClosed, During, place
<1> QED  BY <1>4, <1>5, <1>6, <1>7 DEF BInv

LEMMA StepSweep == ASSUME PInv, BInv, [Next]_vars, Sweep PROVE BInv'
<1>1. TypeOK /\ todo # <<>> /\ Next1.op \in Sweeps /\ ~marked
  BY DEF PInv, Sweep, Doing, TypeOK, Sweeps, Publications
<1>2. /\ UNCHANGED <<durable, place, stopping, book, flags, marked, exit, fibers>>
      /\ todo \in Seq(Task) /\ Next1 = todo[1] /\ 1 \in DOMAIN todo
  BY <1>1, Rest DEF Sweep, TypeOK
<1>3. /\ Rounded(todo) => Rounded(todo')
      /\ Has(todo, Ends) <=> Has(todo', Ends)
      /\ Has(todo, {"await"}) <=> Has(todo', {"await"})
  <2>1. CASE todo' = Tail(todo)
    <3>1. Next1.op \notin Ends /\ Next1.op \notin {"await"}  BY <1>1 DEF Ends, Sweeps
    <3>2. /\ Rounded(todo) => Rounded(Tail(todo))
          /\ \A ops : Has(Tail(todo), ops) => Has(todo, ops)
          /\ \A ops : Has(todo, ops) /\ Next1.op \notin ops => Has(Tail(todo), ops)
      BY <1>1, Later
    <3> QED  BY <2>1, <3>1, <3>2
  <2>2. ASSUME NEW c \in Calls, todo' = <<On("failed", c, FALSE)>> \o todo
        PROVE  /\ Rounded(todo) => Rounded(todo')
               /\ Has(todo, Ends) <=> Has(todo', Ends)
               /\ Has(todo, {"await"}) <=> Has(todo', {"await"})
    <3> DEFINE x == On("failed", c, FALSE)
    <3>1. x \in Task /\ x.op = "failed"  BY Tasked DEF Tasks, Publications, On
    <3>2. todo' = <<x>> \o todo  BY <2>2
    <3> HIDE DEF x
    <3>3. /\ Rounded(todo) => Rounded(<<x>> \o todo)
          /\ \A ops : Has(<<x>> \o todo, ops) <=> x.op \in ops \/ Has(todo, ops)
      BY <1>2, <3>1, Earlier
    <3> QED  BY <3>1, <3>2, <3>3 DEF Ends
  <2> QED  BY <2>1, <2>2 DEF Sweep, Unsettled
<1>4. ~\A i \in DOMAIN todo : todo[i].op \in {"clear", "await"}  BY <1>1, <1>2 DEF Sweeps
<1>5. Exits' /\ BrokenStepIsClosed' /\ Flagged'
  BY <1>1, <1>2, <1>3 DEF BInv, Exits, BrokenStepIsClosed, Flagged, Rejected, During, durable, place
<1>6. Interrupted' /\ Concluded'
  BY <1>2, <1>3, <1>4 DEF BInv, Interrupted, Concluded, Rejected, durable, place
<1> QED  BY <1>5, <1>6 DEF BInv

LEMMA StepFork == ASSUME PInv, BInv, [Next]_vars, Fork PROVE BInv'
<1>1. TypeOK /\ todo # <<>> /\ Next1.op = "fork" /\ ~marked
  BY DEF PInv, Fork, Doing, TypeOK, Publications
<1>2. /\ UNCHANGED <<durable, place, stopping, book, flags, marked, exit>>
      /\ Next1 = todo[1] /\ 1 \in DOMAIN todo /\ Tail(todo) \in Seq(Task) /\ During
  BY <1>1, Rest DEF Fork, During
<1>3. at = "stream"  BY <1>1, <1>2 DEF PInv, Plan, Settling, During
<1>4. Has(todo', Ends) => Has(todo, Ends)
  <2>1. Has(Tail(todo), Ends) => Has(todo, Ends)  BY <1>1, Later
  <2>2. Do("sweep") \in Seq(Task) /\ ~Has(Do("sweep"), Ends)
    <3>1. Do("sweep") = <<On("sweep", None, FALSE)>> /\ On("sweep", None, FALSE).op = "sweep"
      BY DEF Do, On
    <3>2. Do("sweep") \in Seq(Task)  BY Tasked DEF Tasks, Sweeps
    <3> QED  BY <3>1, <3>2, HasOne DEF Ends
  <2>3. Has(Do("sweep") \o Tail(todo), Ends) <=> Has(Tail(todo), Ends)
    BY <1>2, <2>2, HasJoined
  <2> QED  BY <2>1, <2>3 DEF Fork
<1>5. Flagged'
  BY <1>1, <1>2, <1>4 DEF BInv, Flagged, Rejected, During, durable, place
<1> QED
  BY <1>2, <1>3, <1>5 DEF BInv, Exits, BrokenStepIsClosed, Interrupted, Concluded, durable, place

\* After the wait the publisher's flags say whether the step is to be ended.
LEMMA StepAwait == ASSUME PInv, RInv, BInv, [Next]_vars, Await PROVE BInv'
<1>1. TypeOK /\ todo # <<>> /\ Next1.op = "await" /\ ~marked
  BY DEF PInv, Await, Doing, TypeOK, Publications
<1>2. /\ UNCHANGED <<durable, place, stopping, book, flags, marked, exit, fibers>>
      /\ todo \in Seq(Task) /\ Next1 = todo[1] /\ 1 \in DOMAIN todo /\ During
  BY <1>1, Rest DEF Await, During, TypeOK
<1>3. at = "settle"  BY <1>1, <1>2 DEF PInv, Plan, Planned, During
<1>4. Has(todo, {"await"}) /\ ~Has(todo, Ends)
  <2>1. 1 = Len(todo)  BY <1>1, <1>2, <1>3 DEF RInv, Closing
  <2>2. DOMAIN todo = {1}  BY <1>2, <2>1
  <2> QED  BY <1>1, <1>2, <2>2 DEF Has, Ends
<1>5. PICK x \in {"interrupted", "error", "declined", "ok"} :
        todo' = After(x) /\ (stopping => x = "interrupted")
  BY <1>1 DEF Await, TypeOK
<1>6. ~Has(todo', {"await"}) /\ Rounded(todo')  BY <1>5, AfterHas
<1>7. Exits' /\ BrokenStepIsClosed' /\ Flagged' /\ Interrupted'
  BY <1>1, <1>2, <1>3, <1>6 DEF BInv, Exits, BrokenStepIsClosed, Flagged, Interrupted, Rejected,
                                During, durable, place
<1>8. Concluded'
  <2> SUFFICES ASSUME exit \in {"llm", "interrupted"}, ~Rejected, "failed" \notin step,
                      "ended" \notin step, "started" \in step
               PROVE  Has(todo', Ends)
    BY <1>2, <1>6 DEF Concluded, Rejected, durable
  <2>1. exit = "interrupted"  BY <1>3, <1>4 DEF BInv, Concluded
  <2>2. stopping /\ "failed" \notin flags  BY <1>3, <1>4, <2>1 DEF BInv, Interrupted
  <2>3. "active" \in flags \/ "finished" \in flags  BY <1>2, <2>2 DEF BInv, Flagged
  <2>4. x = "interrupted"  BY <1>5, <2>2
  <2> QED  BY <1>5, <2>2, <2>3, <2>4, AfterHas DEF Ends
<1> QED  BY <1>7, <1>8 DEF BInv

LEMMA StepCleared == ASSUME PInv, BInv, [Next]_vars, Cleared PROVE BInv'
<1>1. TypeOK /\ todo # <<>> /\ Next1.op = "clear" /\ ~marked
  BY DEF PInv, Cleared, Doing, TypeOK, Publications
<1>2. /\ UNCHANGED <<durable, place, stopping, book, flags, marked, exit, fibers>>
      /\ todo' = Tail(todo)
  BY DEF Cleared
<1>3. /\ Rounded(todo) => Rounded(Tail(todo))
      /\ \A ops : Has(Tail(todo), ops) => Has(todo, ops)
      /\ \A ops : Has(todo, ops) /\ Next1.op \notin ops => Has(Tail(todo), ops)
      /\ \A i \in DOMAIN Tail(todo) : i + 1 \in DOMAIN todo /\ Tail(todo)[i] = todo[i + 1]
  BY <1>1, Later
<1>4. Has(todo, Ends) => Has(Tail(todo), Ends)  BY <1>1, <1>3 DEF Ends
<1>5. Has(todo, {"await"}) => Has(Tail(todo), {"await"})  BY <1>1, <1>3
<1>6. Exits' /\ BrokenStepIsClosed' /\ Flagged'
  BY <1>1, <1>2, <1>3 DEF BInv, Exits, BrokenStepIsClosed, Flagged, Rejected, During, durable, place
<1>7. Interrupted' /\ Concluded'
  BY <1>2, <1>3, <1>4, <1>5 DEF BInv, Interrupted, Concluded, Rejected, durable, place
<1> QED  BY <1>6, <1>7 DEF BInv

LEMMA StepTools ==
  ASSUME PInv, BInv, [Next]_vars, NEW k \in Calls,
         Kill(k) \/ Deliver(k) \/ (\E result \in {"ok", "bad"} : Execute(k, result))
           \/ (\E how \in {"error", "declined"} : Break(k, how))
  PROVE  BInv'
<1>1. UNCHANGED <<step, at, stopping, flags, todo, marked, exit>>
  BY DEF Kill, Deliver, Execute, Break, durable, place, publisher
<1>2. Exits' /\ BrokenStepIsClosed' /\ Flagged'
  BY <1>1 DEF BInv, Exits, BrokenStepIsClosed, Flagged, Rejected, During, Has, Next1
<1>3. Interrupted' /\ Concluded'
  BY <1>1 DEF BInv, Interrupted, Concluded, Rejected, Has, Rounded
<1> QED  BY <1>2, <1>3 DEF BInv

LEMMA StepStep == ASSUME PInv, RInv, BInv, [Next]_vars PROVE BInv'
<1>1. ASSUME NEW x \in {"ok", "llm", "defect"}, Settles(x) PROVE BInv'
  BY <1>1, StepSettles
<1>2. CASE StreamInterrupted  BY <1>2, StepSettles DEF StreamInterrupted
<1> QED
  BY <1>1, <1>2, StepIdle, StepProvider, StepMark, StepCommit, StepSweep, StepFork, StepAwait,
     StepCleared, StepTools
  DEF Next, Runner, Tools, StreamEnds

LEMMA StepInit == Init => BInv
<1> SUFFICES ASSUME Init PROVE BInv  OBVIOUS
<1>1. at = "idle" /\ exit = "none" /\ ~marked  BY DEF Init
<1> QED
  BY <1>1 DEF BInv, Exits, Flagged, Interrupted, Concluded, BrokenStepIsClosed, During

\* A step whose stream failed, or was interrupted wherever in the publication
\* of an event, is not left open when the drain is over.
THEOREM NoStepLeftOpen == Spec => []BrokenStepIsClosed
<1>1. BInv => BrokenStepIsClosed  BY DEF BInv
<1> QED  BY <1>1, StepInit, StepStep, CallsInvariant, PTL DEF Spec
=============================================================================
