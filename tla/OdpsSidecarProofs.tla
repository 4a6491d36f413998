-------------------------- MODULE OdpsSidecarProofs -------------------------
(***************************************************************************)
(* Theorems of OdpsSidecar, for any number of requests and slots.          *)
(***************************************************************************)
EXTENDS OdpsSidecar, SequenceTheorems, TLAPS

USE SidecarAssumption

-----------------------------------------------------------------------------
(***************************************************************************)
(* Sequences.                                                              *)
(***************************************************************************)
\* An element of a tail, a part, a concatenation was one before.
LEMMA InTail ==
  ASSUME NEW S, NEW s \in Seq(S), s # <<>>, NEW m
  PROVE  In(m, s) <=> m = Head(s) \/ In(m, Tail(s))
<1>1. ASSUME In(m, s) PROVE m = Head(s) \/ In(m, Tail(s))
  <2>1. PICK n \in 1..Len(s) : s[n] = m  BY <1>1 DEF In
  <2>2. CASE n = 1  BY <2>1, <2>2
  <2>3. CASE n # 1
    <3>1. n - 1 \in 1..Len(Tail(s)) /\ Tail(s)[n - 1] = m  BY <2>1, <2>3
    <3> QED  BY <3>1 DEF In
  <2> QED  BY <2>2, <2>3
<1>2. m = Head(s) => In(m, s)
  <2>1. 1 \in 1..Len(s) /\ s[1] = Head(s)  OBVIOUS
  <2> QED  BY <2>1 DEF In
<1>3. ASSUME In(m, Tail(s)) PROVE In(m, s)
  <2>1. PICK n \in 1..Len(Tail(s)) : Tail(s)[n] = m  BY <1>3 DEF In
  <2>2. n + 1 \in 1..Len(s) /\ s[n + 1] = m  BY <2>1
  <2> QED  BY <2>2 DEF In
<1> QED  BY <1>1, <1>2, <1>3

LEMMA InConcat ==
  ASSUME NEW S, NEW s \in Seq(S), NEW t \in Seq(S), NEW m
  PROVE  In(m, s \o t) <=> In(m, s) \/ In(m, t)
<1>1. ASSUME In(m, s \o t) PROVE In(m, s) \/ In(m, t)
  <2>1. PICK n \in 1..Len(s \o t) : (s \o t)[n] = m  BY <1>1 DEF In
  <2>2. CASE n <= Len(s)
    <3>1. n \in 1..Len(s) /\ s[n] = m  BY <2>1, <2>2
    <3> QED  BY <3>1 DEF In
  <2>3. CASE n > Len(s)
    <3>1. n - Len(s) \in 1..Len(t) /\ t[n - Len(s)] = m  BY <2>1, <2>3
    <3> QED  BY <3>1 DEF In
  <2> QED  BY <2>1, <2>2, <2>3
<1>2. ASSUME In(m, s) PROVE In(m, s \o t)
  <2>1. PICK n \in 1..Len(s) : s[n] = m  BY <1>2 DEF In
  <2>2. n \in 1..Len(s \o t) /\ (s \o t)[n] = m  BY <2>1
  <2> QED  BY <2>2 DEF In
<1>3. ASSUME In(m, t) PROVE In(m, s \o t)
  <2>1. PICK n \in 1..Len(t) : t[n] = m  BY <1>3 DEF In
  <2>2. Len(s) + n \in 1..Len(s \o t) /\ (s \o t)[Len(s) + n] = m  BY <2>1
  <2> QED  BY <2>2 DEF In
<1> QED  BY <1>1, <1>2, <1>3

LEMMA InAppend ==
  ASSUME NEW S, NEW s \in Seq(S), NEW x \in S, NEW m
  PROVE  In(m, Append(s, x)) <=> In(m, s) \/ m = x
<1>1. ASSUME In(m, Append(s, x)) PROVE In(m, s) \/ m = x
  <2>1. PICK n \in 1..Len(Append(s, x)) : Append(s, x)[n] = m  BY <1>1 DEF In
  <2>2. CASE n = Len(s) + 1  BY <2>1, <2>2
  <2>3. CASE n # Len(s) + 1
    <3>1. n \in 1..Len(s) /\ s[n] = m  BY <2>1, <2>3
    <3> QED  BY <3>1 DEF In
  <2> QED  BY <2>2, <2>3
<1>2. ASSUME In(m, s) PROVE In(m, Append(s, x))
  <2>1. PICK n \in 1..Len(s) : s[n] = m  BY <1>2 DEF In
  <2>2. n \in 1..Len(Append(s, x)) /\ Append(s, x)[n] = m  BY <2>1
  <2> QED  BY <2>2 DEF In
<1>3. In(x, Append(s, x))
  <2>1. Len(s) + 1 \in 1..Len(Append(s, x)) /\ Append(s, x)[Len(s) + 1] = x  OBVIOUS
  <2> QED  BY <2>1 DEF In
<1> QED  BY <1>1, <1>2, <1>3

\* The two parts that Flush makes of its lines.
LEMMA InParts ==
  ASSUME NEW S, NEW s \in Seq(S), NEW n \in 0..Len(s), NEW m
  PROVE  /\ SubSeq(s, 1, n) \in Seq(S) /\ SubSeq(s, n + 1, Len(s)) \in Seq(S)
         /\ In(m, s) <=> In(m, SubSeq(s, 1, n)) \/ In(m, SubSeq(s, n + 1, Len(s)))
<1> DEFINE a == SubSeq(s, 1, n)
           b == SubSeq(s, n + 1, Len(s))
<1>1. a \in Seq(S) /\ Len(a) = n /\ \A i \in 1..n : a[i] = s[i]
  BY SubSeqProperties
<1>2. b \in Seq(S) /\ Len(b) = Len(s) - n /\ \A i \in 1..(Len(s) - n) : b[i] = s[n + i]
  <2>1. b \in Seq(S)  BY SubSeqProperties
  <2>2. Len(b) = Len(s) - n  BY SubSeqProperties
  <2>3. \A i \in 1..(Len(s) - n) : b[i] = s[n + i]  BY <2>2, SubSeqProperties
  <2> QED  BY <2>1, <2>2, <2>3
<1> HIDE DEF a, b
<1>3. ASSUME In(m, s) PROVE In(m, a) \/ In(m, b)
  <2>1. PICK i \in 1..Len(s) : s[i] = m  BY <1>3 DEF In
  <2>2. CASE i <= n
    <3>1. i \in 1..Len(a) /\ a[i] = m  BY <1>1, <2>1, <2>2
    <3> QED  BY <3>1 DEF In
  <2>3. CASE i > n
    <3>1. i - n \in 1..Len(b) /\ b[i - n] = m  BY <1>2, <2>1, <2>3
    <3> QED  BY <3>1 DEF In
  <2> QED  BY <2>1, <2>2, <2>3
<1>4. ASSUME In(m, a) PROVE In(m, s)
  <2>1. PICK i \in 1..Len(a) : a[i] = m  BY <1>4 DEF In
  <2>2. i \in 1..Len(s) /\ s[i] = m  BY <1>1, <2>1
  <2> QED  BY <2>2 DEF In
<1>5. ASSUME In(m, b) PROVE In(m, s)
  <2>1. PICK i \in 1..Len(b) : b[i] = m  BY <1>5 DEF In
  <2>2. n + i \in 1..Len(s) /\ s[n + i] = m  BY <1>2, <2>1
  <2> QED  BY <2>2 DEF In
<1> QED  BY <1>1, <1>2, <1>3, <1>4, <1>5 DEF a, b

-----------------------------------------------------------------------------
(***************************************************************************)
(* Messages, and what sending them does.                                   *)
(***************************************************************************)
Calls == {"idle", "starting", "resumed", "pending"} \cup Answers

LEMMA Messages ==
  /\ \A r \in Requests : Ask(r) \in Msg /\ Ask(r).of = r /\ Ask(r).verb # "cancel"
  /\ \A q \in Signalled : Cancel(q) \in Msg /\ Cancel(q).of = q /\ Cancel(q).verb = "cancel"
BY DEF Ask, Cancel, Msg, Requests

LEMMA AskOnce ==
  /\ \A r, s \in Requests : Ask(r) = Ask(s) => r = s
  /\ \A r \in Requests, q \in Signalled : Ask(r) # Cancel(q)
  /\ \A p, q \in Signalled : Cancel(p) = Cancel(q) => p = q
BY Messages

\* A message that the child will read, now or when it drains.
Sent(m) == In(m, stdin) \/ (In(m, queue) /\ writer = "waiting")

\* The loop of writeLine sends all its lines or keeps the rest.
LEMMA FlushFacts ==
  ASSUME stdin \in Seq(Msg), NEW lines \in Seq(Msg), Flush(lines)
  PROVE  /\ stdin' \in Seq(Msg) /\ queue' \in Seq(Msg) /\ writer' \in {"idle", "waiting"}
         /\ \A m : In(m, stdin') => In(m, stdin) \/ In(m, lines)
         /\ \A m : In(m, queue') => In(m, lines)
         /\ Running \/ child = "spawning" =>
              \A m : In(m, stdin) \/ In(m, lines) => Sent(m)'
<1>1. PICK n \in 0..Len(lines), full \in BOOLEAN :
        /\ n < Len(lines) => full
        /\ stdin' = IF Running \/ child = "spawning"
                      THEN stdin \o SubSeq(lines, 1, n) ELSE stdin
        /\ queue' = SubSeq(lines, n + 1, Len(lines))
        /\ writer' = IF full THEN "waiting" ELSE "idle"
  BY DEF Flush
<1> DEFINE a == SubSeq(lines, 1, n)
           b == SubSeq(lines, n + 1, Len(lines))
<1>2. a \in Seq(Msg) /\ b \in Seq(Msg) /\ \A m : In(m, lines) <=> In(m, a) \/ In(m, b)
  BY InParts
<1>3. n = Len(lines) => \A m : ~In(m, b)
  <2>1. n = Len(lines) => b = <<>>  BY SubSeqEmpty
  <2> QED  BY <2>1 DEF In
<1> HIDE DEF a, b
<1>4. stdin' = (IF Running \/ child = "spawning" THEN stdin \o a ELSE stdin) /\ queue' = b
  BY <1>1 DEF a, b
<1>5. \A m : In(m, stdin \o a) <=> In(m, stdin) \/ In(m, a)  BY <1>2, InConcat
<1>6. writer' = IF full THEN "waiting" ELSE "idle"  BY <1>1
<1>7. ~full => n = Len(lines)  BY <1>1
<1>8. stdin \o a \in Seq(Msg)  BY <1>2
<1> QED  BY <1>2, <1>3, <1>4, <1>5, <1>6, <1>7, <1>8 DEF Sent

\* writeLine.
LEMMA SendFacts ==
  ASSUME TypeOK, NEW lines \in Seq(Msg), NEW asked \in SUBSET Msg,
         NEW says \in [Requests -> Calls], SendLines(lines, asked, says)
  PROVE  /\ stdin' \in Seq(Msg) /\ queue' \in Seq(Msg) /\ pending' \subseteq Msg
         /\ writer' \in {"idle", "waiting", "lost"} /\ call' \in [Requests -> Calls]
         /\ pending' = (IF child = "broken" THEN {} ELSE pending \cup asked)
         /\ \A m : In(m, stdin') \/ In(m, queue')
                     => In(m, stdin) \/ In(m, queue) \/ In(m, lines)
         /\ Running \/ child = "spawning" =>
              \A m : Sent(m) \/ In(m, lines) => Sent(m)' \/ writer' = "lost"
         /\ writer = "lost" => writer' = "lost"
<1>1. stdin \in Seq(Msg) /\ queue \in Seq(Msg) /\ pending \subseteq Msg
        /\ writer \in {"idle", "waiting", "lost"}
  BY DEF TypeOK, ProcessTypeOK
<1>2. queue \o lines \in Seq(Msg) /\ \A m : In(m, queue \o lines) <=> In(m, queue) \/ In(m, lines)
  BY <1>1, InConcat
<1>3. CASE child = "broken"
  <2>1. /\ pending' = {} /\ UNCHANGED <<stdin, queue, writer>>
        /\ call' = [r \in Requests |->
             IF Ask(r) \in pending \cup asked THEN "ended" ELSE says[r]]
    BY <1>3 DEF SendLines, pipe
  <2> QED  BY <1>1, <1>3, <2>1 DEF Sent, Running, Calls, Answers
<1>4. CASE child # "broken" /\ writer = "idle"
  <2>1. pending' = pending \cup asked /\ call' = says /\ Flush(queue \o lines)
    BY <1>4 DEF SendLines
  <2>2. /\ stdin' \in Seq(Msg) /\ queue' \in Seq(Msg) /\ writer' \in {"idle", "waiting"}
        /\ \A m : In(m, stdin') => In(m, stdin) \/ In(m, queue \o lines)
        /\ \A m : In(m, queue') => In(m, queue \o lines)
        /\ Running \/ child = "spawning" =>
             \A m : In(m, stdin) \/ In(m, queue \o lines) => Sent(m)'
    BY <1>1, <1>2, <2>1, FlushFacts
  <2> QED  BY <1>1, <1>2, <1>4, <2>1, <2>2 DEF Sent
<1>5. CASE child # "broken" /\ writer # "idle"
  <2>1. /\ pending' = pending \cup asked /\ call' = says
        /\ queue' = queue \o lines /\ UNCHANGED <<stdin, writer>>
    BY <1>5 DEF SendLines
  <2> QED  BY <1>1, <1>2, <1>5, <2>1 DEF Sent
<1> QED  BY <1>3, <1>4, <1>5

\* What a call or a callback of its start sends.
LEMMA RegisterFacts ==
  ASSUME TypeOK, NEW r \in Requests, Register(r)
  PROVE  /\ UNCHANGED <<stdout, thread, event, sup, child, aborted>>
         /\ listening' \subseteq Signalled /\ listening' \subseteq listening \cup {r}
         /\ \/ /\ UNCHANGED <<stdin, pipe, pending>>
               /\ call' = [call EXCEPT ![r] = "ended"]
            \/ /\ handle
               /\ \E lines \in Seq(Msg), asked \in SUBSET Msg :
                    /\ SendLines(lines, asked, [call EXCEPT ![r] = "pending"])
                    /\ Ask(r) \in asked /\ In(Ask(r), lines)
                    /\ \A s \in Requests : Ask(s) \in asked => s = r
                    /\ \A q \in Signalled : In(Cancel(q), lines) => q \in aborted
<1>1. Ask(r) \in Msg /\ (r \in aborted => r \in Signalled /\ Cancel(r) \in Msg)
  BY Messages DEF TypeOK
<1> DEFINE early == r \in aborted
           asked == {Ask(r)} \cup (IF early THEN {Cancel(r)} ELSE {})
           lines == IF early THEN <<Cancel(r), Ask(r)>> ELSE <<Ask(r)>>
<1>2. /\ asked \in SUBSET Msg /\ Ask(r) \in asked
      /\ \A s \in Requests : Ask(s) \in asked => s = r
  BY <1>1, AskOnce
<1>3. lines \in Seq(Msg) /\ In(Ask(r), lines)
  <2>1. CASE early
    <3>1. lines = <<Cancel(r), Ask(r)>>  BY <2>1
    <3>2. 2 \in 1..Len(lines) /\ lines[2] = Ask(r)  BY <3>1
    <3> QED  BY <1>1, <2>1, <3>1, <3>2 DEF In
  <2>2. CASE ~early
    <3>1. lines = <<Ask(r)>>  BY <2>2
    <3>2. 1 \in 1..Len(lines) /\ lines[1] = Ask(r)  BY <3>1
    <3> QED  BY <1>1, <3>1, <3>2 DEF In
  <2> QED  BY <2>1, <2>2
<1>4. ASSUME NEW q \in Signalled, In(Cancel(q), lines) PROVE q \in aborted
  <2>1. PICK n \in 1..Len(lines) : lines[n] = Cancel(q)  BY <1>4 DEF In
  <2>2. lines[n] = Ask(r) \/ (early /\ lines[n] = Cancel(r))
    <3>1. CASE early
      <4>1. lines = <<Cancel(r), Ask(r)>>  BY <3>1
      <4> QED  BY <2>1, <3>1, <4>1
    <3>2. CASE ~early
      <4>1. lines = <<Ask(r)>>  BY <3>2
      <4> QED  BY <2>1, <4>1
    <3> QED  BY <3>1, <3>2
  <2> QED  BY <1>1, <2>1, <2>2, AskOnce
<1>5. /\ UNCHANGED <<stdout, thread, event, sup, child, aborted>>
      /\ \/ /\ call' = [call EXCEPT ![r] = "ended"]
            /\ UNCHANGED <<stdin, pipe, pending, listening>>
         \/ /\ handle /\ SendLines(lines, asked, [call EXCEPT ![r] = "pending"])
            /\ listening' = listening \cup (({r} \cap Signalled) \ aborted)
  BY DEF Register
<1> HIDE DEF lines, asked
<1> QED  BY <1>2, <1>3, <1>4, <1>5 DEF TypeOK

-----------------------------------------------------------------------------
(***************************************************************************)
(* Types.                                                                  *)
(***************************************************************************)
\* The part that a step of the process changes.
LEMMA ProcessTyped ==
  ASSUME ProcessTypeOK, ProcessReads \/ (\E q \in Queries : ProcessWorks(q) \/ TimeIsUp(q)) \/ Garble
  PROVE  ProcessTypeOK'
<1>a. \A m \in Msg, say \in {"ended", "cancelled", "late", "tooLong"} :
        Write(m, say) => stdout' \in Seq(Reply \cup {Junk})
  BY DEF ProcessTypeOK, Write, Reply
<1>b. \A m : Reads(m) => stdin' \in Seq(Msg)  BY DEF ProcessTypeOK, Reads
<1>1. ASSUME NEW q \in Queries, ReadQuery(q) PROVE ProcessTypeOK'
  <2>1. Ask(q) \in Msg  BY Messages DEF Requests
  <2> QED  BY <1>1, <1>a, <1>b, <2>1 DEF ReadQuery, ProcessTypeOK
<1>2. ASSUME NEW q \in Signalled, ReadCancel(q) PROVE ProcessTypeOK'
  <2>1. Cancel(q) \in Msg  BY Messages
  <2> QED  BY <1>2, <1>a, <1>b, <2>1 DEF ReadCancel, ProcessTypeOK
<1>3. ASSUME NEW h \in Healths, ReadHealth(h) PROVE ProcessTypeOK'
  <2>1. Ask(h) \in Msg  BY Messages DEF Requests
  <2> QED  BY <1>3, <1>a, <1>b, <2>1 DEF ReadHealth, ProcessTypeOK
<1>4. ASSUME NEW q \in Queries, Work(q) PROVE ProcessTypeOK'
  <2>1. Ask(q) \in Msg  BY Messages DEF Requests
  <2>2. CASE Begin(q) \/ Release(q)  BY <2>2 DEF Begin, Release, ProcessTypeOK
  <2>3. ASSUME NEW say \in {"ended", "cancelled", "late", "tooLong"}, Answer(q, say)
        PROVE  ProcessTypeOK'
    BY <1>a, <2>1, <2>3 DEF Answer, ProcessTypeOK
  <2> QED  BY <1>4, <2>2, <2>3 DEF Work
<1>5. ASSUME NEW q \in Queries, TimeIsUp(q) PROVE ProcessTypeOK'
  BY <1>5 DEF TimeIsUp, ProcessTypeOK
<1>6. CASE Garble  BY <1>6 DEF Garble, ProcessTypeOK
<1> QED  BY <1>1, <1>2, <1>3, <1>4, <1>5, <1>6 DEF ProcessReads, ProcessWorks, Read

LEMMA SettledTyped ==
  ASSUME TypeOK, NEW ms, NEW say \in Answers
  PROVE  Settled(ms, say) \in [Requests -> Calls]
BY DEF TypeOK, Settled, Calls

LEMMA TypeStep == TypeOK /\ [Next]_vars => TypeOK'
<1> SUFFICES ASSUME TypeOK, [Next]_vars PROVE TypeOK'  OBVIOUS
<1>a. RejectAll => pending' = {} /\ call' \in [Requests -> Calls]
  BY SettledTyped DEF RejectAll, Answers
<1>1. CASE UNCHANGED vars
  BY <1>1 DEF vars, process, sup, pipe, callers, TypeOK, ProcessTypeOK
<1>2. ASSUME NEW r \in Requests, Register(r) PROVE TypeOK'
  <2>1. /\ UNCHANGED <<stdout, thread, event, handle, starting, timer, closed, child, aborted>>
        /\ listening' \subseteq Signalled
    BY <1>2, RegisterFacts DEF sup
  <2>2. /\ stdin' \in Seq(Msg) /\ queue' \in Seq(Msg) /\ pending' \subseteq Msg
        /\ writer' \in {"idle", "waiting", "lost"} /\ call' \in [Requests -> Calls]
    <3>1. CASE /\ UNCHANGED <<stdin, pipe, pending>>
               /\ call' = [call EXCEPT ![r] = "ended"]
      BY <3>1 DEF TypeOK, ProcessTypeOK, pipe, Calls, Answers
    <3>2. ASSUME NEW lines \in Seq(Msg), NEW asked \in SUBSET Msg,
                 SendLines(lines, asked, [call EXCEPT ![r] = "pending"])
          PROVE  /\ stdin' \in Seq(Msg) /\ queue' \in Seq(Msg) /\ pending' \subseteq Msg
                 /\ writer' \in {"idle", "waiting", "lost"} /\ call' \in [Requests -> Calls]
      <4>1. [call EXCEPT ![r] = "pending"] \in [Requests -> Calls]  BY DEF TypeOK, Calls
      <4> QED  BY <3>2, <4>1, SendFacts
    <3> QED  BY <1>2, <3>1, <3>2, RegisterFacts
  <2> QED  BY <2>1, <2>2 DEF TypeOK, ProcessTypeOK, Calls
<1>3. ASSUME NEW r \in Requests, Call(r) PROVE TypeOK'
  <2>1. CASE handle  BY <1>2, <1>3, <2>1 DEF Call
  <2>2. CASE ~handle
    <3>1. call' \in [Requests -> Calls]
      BY <1>3, <2>2 DEF Call, TypeOK, Calls, Answers
    <3>2. UNCHANGED <<timer, closed, queue, writer, pending, aborted, listening>>
      BY <1>3, <2>2 DEF Call, pipe
    <3>3. \/ UNCHANGED <<process, handle, starting, child>>
          \/ Spawn
      BY <1>3, <2>2 DEF Call
    <3>4. CASE UNCHANGED <<process, handle, starting, child>>
      BY <3>1, <3>2, <3>4 DEF TypeOK, ProcessTypeOK, process, Calls
    <3>5. CASE Spawn
      BY <3>1, <3>2, <3>5 DEF Spawn, TypeOK, ProcessTypeOK, Calls
    <3> QED  BY <3>3, <3>4, <3>5
  <2> QED  BY <2>1, <2>2
<1>4. ASSUME NEW r \in Requests, Resume(r) PROVE TypeOK'
  BY <1>2, <1>4 DEF Resume
<1>5. ASSUME NEW q \in Signalled, Abort(q) PROVE TypeOK'
  <2>1. Cancel(q) \in Msg /\ <<Cancel(q)>> \in Seq(Msg)  BY Messages
  <2>2. CASE SendLines(<<Cancel(q)>>, {Cancel(q)}, call)
    <3>1. call \in [Requests -> Calls]  BY DEF TypeOK, Calls
    <3>2. /\ stdin' \in Seq(Msg) /\ queue' \in Seq(Msg) /\ pending' \subseteq Msg
          /\ writer' \in {"idle", "waiting", "lost"} /\ call' \in [Requests -> Calls]
      BY <2>1, <2>2, <3>1, SendFacts
    <3> QED  BY <1>5, <3>2 DEF Abort, TypeOK, ProcessTypeOK, sup, Calls
  <2>3. CASE UNCHANGED <<stdin, pipe, pending, call>>
    BY <1>5, <2>3 DEF Abort, TypeOK, ProcessTypeOK, sup, pipe, Calls
  <2> QED  BY <1>5, <2>2, <2>3 DEF Abort
<1>6. ASSUME \/ \E q \in Queries : ProcessWorks(q) \/ (Running /\ TimeIsUp(q) /\ Outside)
             \/ ProcessReads \/ (Running /\ Garble /\ Outside)
      PROVE  TypeOK'
  <2>1. ProcessTypeOK'  BY <1>6, ProcessTyped DEF TypeOK
  <2>2. UNCHANGED <<sup, pipe, child, callers>>
    BY <1>6 DEF ProcessWorks, ProcessReads, Outside
  <2> QED  BY <2>1, <2>2 DEF TypeOK, sup, pipe, callers
<1>7. CASE Spawned
  BY <1>7 DEF Spawned, TypeOK, ProcessTypeOK, process, pipe
<1>8. CASE SpawnFailed
  <2>1. pending' \subseteq Msg /\ call' \in [Requests -> Calls] /\ timer' \in BOOLEAN
          /\ handle' \in BOOLEAN /\ starting' \in BOOLEAN
    BY <1>8, <1>a DEF SpawnFailed, TypeOK, Calls, Answers
  <2>2. stdin' = <<>> /\ child' = "none" /\ writer' \in {"idle", "waiting", "lost"}
          /\ UNCHANGED <<stdout, thread, event, closed, queue, aborted, listening>>
    BY <1>8 DEF SpawnFailed, TypeOK
  <2> QED  BY <2>1, <2>2 DEF TypeOK, ProcessTypeOK, Calls
<1>9. CASE Restart
  <2>1. CASE Spawn
    <3>1. /\ UNCHANGED <<thread, event, closed, queue, writer, pending, call, aborted, listening>>
          /\ timer' = FALSE /\ handle' = TRUE /\ starting' = TRUE /\ child' = "spawning"
          /\ stdin' = <<>> /\ stdout' = <<>>
      BY <1>9, <2>1 DEF Restart, Spawn, pipe, callers
    <3>2. {handle', starting', timer', closed'} \subseteq BOOLEAN
      <4>1. {handle, starting, timer, closed} \subseteq BOOLEAN  BY DEF TypeOK
      <4> QED  BY <3>1, <4>1, Zenon
    <3> QED  BY <3>1, <3>2 DEF TypeOK, ProcessTypeOK
  <2>2. CASE UNCHANGED <<process, handle, starting, child>>
    BY <1>9, <2>2 DEF Restart, TypeOK, ProcessTypeOK, process, pipe, callers
  <2> QED  BY <1>9, <2>1, <2>2 DEF Restart
<1>10. CASE Stop
  BY <1>10, <1>a DEF Stop, TypeOK, ProcessTypeOK, process, pipe, Calls
<1>11. CASE Receive
  <2>1. Head(stdout) \in Reply \cup {Junk} /\ stdout' \in Seq(Reply \cup {Junk})
    BY <1>11 DEF Receive, TypeOK, ProcessTypeOK
  <2>2. pending' \subseteq Msg /\ call' \in [Requests -> Calls]
    BY <1>11, <1>a, SettledTyped DEF Receive, TypeOK
  <2>3. child' = child \/ child' = "killed"  BY <1>11 DEF Receive
  <2> QED  BY <1>11, <2>1, <2>2, <2>3 DEF Receive, TypeOK, ProcessTypeOK, sup, pipe, Calls
<1>12. CASE Drained
  <2>1. stdin' \in Seq(Msg) /\ queue' \in Seq(Msg) /\ writer' \in {"idle", "waiting"}
    BY <1>12, FlushFacts DEF Drained, TypeOK, ProcessTypeOK
  <2> QED  BY <1>12, <2>1 DEF Drained, TypeOK, ProcessTypeOK, sup, callers
<1>13. CASE Die
  BY <1>13 DEF Die, Vanish, TypeOK, ProcessTypeOK, sup, callers
<1>14. CASE StdinBreaks
  BY <1>14 DEF StdinBreaks, TypeOK, ProcessTypeOK, process, sup, pipe, callers
<1>15. CASE Exited
  <2>1. pending' \subseteq Msg /\ call' \in [Requests -> Calls] /\ timer' \in BOOLEAN
          /\ handle' \in BOOLEAN
    BY <1>15, <1>a DEF Exited, TypeOK, Calls
  <2>2. stdout' = <<>> /\ child' = "none"
          /\ UNCHANGED <<stdin, thread, event, starting, closed, queue, writer, aborted, listening>>
    BY <1>15 DEF Exited, pipe
  <2> QED  BY <2>1, <2>2 DEF TypeOK, ProcessTypeOK, Calls
<1> QED
  BY <1>1, <1>3, <1>4, <1>5, <1>6, <1>7, <1>8, <1>9, <1>10, <1>11, <1>12, <1>13, <1>14, <1>15
  DEF Next

\* Every variable of the supervisor, its callers and the process keeps its type.
THEOREM TypeCorrect == Spec => []TypeOK
<1>1. Init => TypeOK
  <2>1. Init => ProcessTypeOK  BY DEF Init, ProcessInit, ProcessTypeOK
  <2>2. Init => {handle, starting, timer, closed} \subseteq BOOLEAN
    BY Zenon DEF Init
  <2>3. Init => /\ queue \in Seq(Msg) /\ writer \in {"idle"} /\ child \in {"none"}
                /\ pending \subseteq Msg /\ call \in [Requests -> {"idle"}]
                /\ aborted \subseteq Signalled /\ listening \subseteq Signalled
    BY DEF Init
  <2> QED  BY <2>1, <2>2, <2>3 DEF TypeOK
<1> QED  BY <1>1, TypeStep, PTL DEF Spec

-----------------------------------------------------------------------------
(***************************************************************************)
(* One child, and nobody forgotten.                                        *)
(***************************************************************************)
\* Until stop, the supervisor holds a child exactly while there is one.
HoldsChild == ~closed => (handle <=> child # "none")

\* After stop it holds none, and owes nothing.
Stopped == closed => ~handle /\ ~timer /\ pending = {}

\* Who waits for an answer is in the map of the child that is held.
Held == \A r \in Requests : call[r] = "pending" => handle /\ Ask(r) \in pending

InHand(r) == r \in Queries /\ thread[r] \in {"started", "running"}
Answered(r) == \E line : In(line, stdout) /\ line # Junk /\ line.to = Ask(r)
Route(r) ==
  \/ child \in {"killed", "dead", "broken"} \/ writer = "lost"
  \/ Sent(Ask(r)) \/ InHand(r) \/ Answered(r)
Routed == \A r \in Requests : call[r] = "pending" => Route(r)

SupInv == HoldsChild /\ Stopped /\ Held /\ Routed

\* Where nobody waits, nobody is forgotten.
LEMMA NobodyWaits ==
  ASSUME \A r \in Requests : call'[r] # "pending"
  PROVE  Held' /\ Routed'
BY DEF Held, Routed

LEMMA Rejected ==
  ASSUME TypeOK, Held, RejectAll
  PROVE  \A r \in Requests : call'[r] # "pending"
BY DEF RejectAll, Settled, Held

\* writeLine keeps everybody on the way who was, and brings those it sends.
LEMMA SendKeeps ==
  ASSUME TypeOK, SupInv, handle, UNCHANGED <<stdout, thread, sup, child>>,
         NEW lines \in Seq(Msg), NEW asked \in SUBSET Msg,
         NEW says \in [Requests -> Calls], SendLines(lines, asked, says),
         \A r \in Requests : says[r] = "pending" =>
           call[r] = "pending" \/ (Ask(r) \in asked /\ In(Ask(r), lines))
  PROVE  SupInv'
<1>0. \A r \in Requests :
        call'[r] = IF child = "broken" /\ Ask(r) \in pending \cup asked
                     THEN "ended" ELSE says[r]
  BY DEF SendLines
<1>1. HoldsChild' /\ Stopped'
  BY SendFacts DEF SupInv, HoldsChild, Stopped, sup
<1>2. handle' /\ child # "none"  BY DEF SupInv, HoldsChild, Stopped, sup
<1>3. ASSUME NEW r \in Requests, call'[r] = "pending"
      PROVE  Ask(r) \in pending' /\ Route(r)'
  <2>1. child # "broken" \/ Ask(r) \notin pending \cup asked
    BY <1>0, <1>3
  <2>2. says[r] = "pending"  BY <1>0, <1>3, <2>1
  <2>3. Ask(r) \in pending \cup asked  BY <2>2 DEF SupInv, Held
  <2>4. child # "broken" /\ Ask(r) \in pending'  BY <2>1, <2>3, SendFacts
  <2>5. CASE child \in {"killed", "dead"}  BY <2>4, <2>5 DEF Route
  <2>6. CASE Running \/ child = "spawning"
    <3>1. \A m : Sent(m) \/ In(m, lines) => Sent(m)' \/ writer' = "lost"
      BY <2>6, SendFacts
    <3>2. writer = "lost" => writer' = "lost"  BY SendFacts
    <3>3. CASE In(Ask(r), lines)  BY <2>4, <3>1, <3>3 DEF Route
    <3>4. CASE call[r] = "pending"
      <4>1. Route(r)  BY <3>4 DEF SupInv, Routed
      <4> QED  BY <2>4, <3>1, <3>2, <4>1 DEF Route, InHand, Answered
    <3> QED  BY <2>2, <3>3, <3>4
  <2> QED  BY <1>2, <2>4, <2>5, <2>6 DEF TypeOK, Running
<1> QED  BY <1>1, <1>2, <1>3 DEF SupInv, Held, Routed

\* The steps of the process keep every request on its way.
LEMMA ProcessKeeps ==
  ASSUME TypeOK, SupInv, UNCHANGED <<sup, pipe, child, callers>>,
         \A r \in Requests : Route(r) => Route(r)'
  PROVE  SupInv'
BY DEF SupInv, HoldsChild, Stopped, Held, Routed, sup, callers

LEMMA WriteAnswers ==
  ASSUME TypeOK, NEW m \in Msg, NEW say \in {"ended", "cancelled", "late", "tooLong"},
         Write(m, say)
  PROVE  /\ \A r \in Requests : Answered(r) => Answered(r)'
         /\ \A r \in Requests : m = Ask(r) => Answered(r)'
<1> DEFINE line == [to |-> m, say |-> say]
<1>1. line \in Reply \cup {Junk} /\ line.to = m /\ line # Junk
  <2>1. line.say # Junk.say  BY DEF Junk
  <2> QED  BY <2>1 DEF Reply
<1>2. stdout' = Append(stdout, line)  BY DEF Write
<1> HIDE DEF line
<1>3. \A l : In(l, stdout') <=> In(l, stdout) \/ l = line
  BY <1>1, <1>2, InAppend DEF TypeOK, ProcessTypeOK
<1> QED  BY <1>1, <1>3 DEF Answered

LEMMA RouteReads ==
  ASSUME TypeOK, Outside, Read, NEW r \in Requests, Route(r)
  PROVE  Route(r)'
<1> USE DEF Outside, sup, pipe
<1>a. ASSUME NEW m, Reads(m) PROVE \A l : In(l, stdin) <=> l = m \/ In(l, stdin')
  BY <1>a, InTail DEF Reads, TypeOK, ProcessTypeOK
<1>1. ASSUME NEW q \in Queries, ReadQuery(q) PROVE Route(r)'
  <2>1. q \in Requests /\ Ask(q) \in Msg  BY Messages DEF Requests
  <2>2. Answered(r) => Answered(r)'
    BY <1>1, <2>1, WriteAnswers DEF ReadQuery, Answered
  <2>3. r = q => InHand(r)' \/ Answered(r)'
    BY <1>1, <2>1, WriteAnswers DEF ReadQuery, InHand, TypeOK, ProcessTypeOK
  <2>4. InHand(r) => InHand(r)'
    BY <1>1 DEF ReadQuery, InHand, TypeOK, ProcessTypeOK
  <2>5. Sent(Ask(r)) => Sent(Ask(r))' \/ r = q
    BY <1>1, <1>a, <2>1, AskOnce DEF ReadQuery, Sent
  <2> QED  BY <2>2, <2>3, <2>4, <2>5 DEF Route
<1>2. ASSUME NEW q \in Signalled, ReadCancel(q) PROVE Route(r)'
  <2>1. Cancel(q) \in Msg  BY Messages
  <2>2. Answered(r) => Answered(r)'  BY <1>2, <2>1, WriteAnswers DEF ReadCancel
  <2>3. InHand(r) => InHand(r)'  BY <1>2 DEF ReadCancel, InHand
  <2>4. Sent(Ask(r)) => Sent(Ask(r))'
    BY <1>2, <1>a, AskOnce DEF ReadCancel, Sent
  <2> QED  BY <2>2, <2>3, <2>4 DEF Route
<1>3. ASSUME NEW h \in Healths, ReadHealth(h) PROVE Route(r)'
  <2>1. h \in Requests /\ Ask(h) \in Msg  BY Messages DEF Requests
  <2>2. Answered(r) => Answered(r)'  BY <1>3, <2>1, WriteAnswers DEF ReadHealth
  <2>3. r = h => Answered(r)'  BY <1>3, <2>1, WriteAnswers DEF ReadHealth
  <2>4. InHand(r) => InHand(r)'  BY <1>3 DEF ReadHealth, InHand
  <2>5. Sent(Ask(r)) => Sent(Ask(r))' \/ r = h
    BY <1>3, <1>a, <2>1, AskOnce DEF ReadHealth, Sent
  <2> QED  BY <2>2, <2>3, <2>4, <2>5 DEF Route
<1> QED  BY <1>1, <1>2, <1>3 DEF Read

LEMMA RouteWorks ==
  ASSUME TypeOK, Outside, NEW q \in Queries, Work(q) \/ TimeIsUp(q),
         NEW r \in Requests, Route(r)
  PROVE  Route(r)'
<1> USE DEF Outside, sup, pipe
<1>1. CASE Begin(q) \/ Release(q) \/ TimeIsUp(q)
  <2>1. InHand(r) => InHand(r)'
    BY <1>1 DEF Begin, Release, TimeIsUp, InHand, TypeOK, ProcessTypeOK
  <2>2. UNCHANGED <<stdin, stdout>>  BY <1>1 DEF Begin, Release, TimeIsUp
  <2> QED  BY <2>1, <2>2 DEF Route, Sent, Answered
<1>2. ASSUME NEW say \in {"ended", "cancelled", "late", "tooLong"}, Answer(q, say)
      PROVE  Route(r)'
  <2>1. q \in Requests /\ Ask(q) \in Msg  BY Messages DEF Requests
  <2>2. Answered(r) => Answered(r)'  BY <1>2, <2>1, WriteAnswers DEF Answer
  <2>3. r = q => Answered(r)'  BY <1>2, <2>1, WriteAnswers DEF Answer
  <2>4. InHand(r) => InHand(r)' \/ r = q
    BY <1>2 DEF Answer, InHand, TypeOK, ProcessTypeOK
  <2>5. UNCHANGED stdin  BY <1>2 DEF Answer
  <2> QED  BY <2>2, <2>3, <2>4, <2>5 DEF Route, Sent
<1> QED  BY <1>1, <1>2 DEF Work

LEMMA RouteGarbled ==
  ASSUME TypeOK, Outside, Garble, NEW r \in Requests, Route(r)
  PROVE  Route(r)'
<1>1. \A l : In(l, stdout) => In(l, stdout')
  BY InAppend DEF Garble, TypeOK, ProcessTypeOK
<1> QED  BY <1>1 DEF Garble, Outside, pipe, Route, Sent, InHand, Answered

LEMMA SupStep == TypeOK /\ SupInv /\ [Next]_vars => SupInv'
<1> SUFFICES ASSUME TypeOK, SupInv, [Next]_vars PROVE SupInv'  OBVIOUS
<1>a. RejectAll => Held' /\ Routed'  BY Rejected, NobodyWaits DEF SupInv
\* Without a child that is held nobody waits.
<1>b. ~handle => \A r \in Requests : call[r] # "pending"  BY DEF SupInv, Held
<1>1. CASE UNCHANGED vars
  BY <1>1
  DEF vars, process, sup, pipe, callers, SupInv, HoldsChild, Stopped, Held, Routed, Route,
      Sent, InHand, Answered
<1>2. ASSUME NEW r \in Requests, Register(r) PROVE SupInv'
  <2>1. CASE UNCHANGED <<stdin, pipe, pending>> /\ call' = [call EXCEPT ![r] = "ended"]
    <3>1. UNCHANGED <<stdout, thread, handle, timer, closed, child>>
      BY <1>2, RegisterFacts DEF sup
    <3>2. \A s \in Requests : call'[s] = "pending" => call[s] = "pending"
      BY <2>1 DEF TypeOK
    <3> QED
      BY <2>1, <3>1, <3>2
      DEF pipe, SupInv, HoldsChild, Stopped, Held, Routed, Route, Sent, InHand, Answered
  <2>2. ASSUME handle, NEW lines \in Seq(Msg), NEW asked \in SUBSET Msg,
               SendLines(lines, asked, [call EXCEPT ![r] = "pending"]),
               Ask(r) \in asked, In(Ask(r), lines)
        PROVE  SupInv'
    <3> DEFINE says == [call EXCEPT ![r] = "pending"]
    <3>1. says \in [Requests -> Calls]
            /\ \A s \in Requests : says[s] = "pending" => call[s] = "pending" \/ s = r
      BY DEF TypeOK, Calls
    <3>2. UNCHANGED <<stdout, thread, sup, child>>  BY <1>2, RegisterFacts
    <3>3. \A s \in Requests : says[s] = "pending" =>
            call[s] = "pending" \/ (Ask(s) \in asked /\ In(Ask(s), lines))
      BY <2>2, <3>1
    <3>4. SendLines(lines, asked, says)  BY <2>2
    <3> HIDE DEF says
    <3> QED  BY <2>2, <3>1, <3>2, <3>3, <3>4, SendKeeps
  <2> QED  BY <1>2, <2>1, <2>2, RegisterFacts
<1>3. ASSUME NEW r \in Requests, Call(r) PROVE SupInv'
  <2>1. CASE handle  BY <1>2, <1>3, <2>1 DEF Call
  <2>2. CASE ~handle
    <3>1. \A s \in Requests : call'[s] # "pending"
      BY <1>b, <1>3, <2>2 DEF Call, TypeOK
    <3>2. HoldsChild' /\ Stopped'
      BY <1>3, <2>2 DEF Call, Spawn, SupInv, HoldsChild, Stopped
    <3> QED  BY <3>1, <3>2, NobodyWaits DEF SupInv
  <2> QED  BY <2>1, <2>2
<1>4. ASSUME NEW r \in Requests, Resume(r) PROVE SupInv'
  BY <1>2, <1>4 DEF Resume
<1>5. ASSUME NEW q \in Signalled, Abort(q) PROVE SupInv'
  <2>1. UNCHANGED <<stdout, thread, sup, child>>  BY <1>5 DEF Abort
  <2>2. CASE handle /\ SendLines(<<Cancel(q)>>, {Cancel(q)}, call)
    <3>1. Cancel(q) \in Msg /\ <<Cancel(q)>> \in Seq(Msg) /\ call \in [Requests -> Calls]
      BY Messages DEF TypeOK, Calls
    <3> QED  BY <2>1, <2>2, <3>1, SendKeeps
  <2>3. CASE UNCHANGED <<stdin, pipe, pending, call>>
    BY <2>1, <2>3
    DEF sup, pipe, SupInv, HoldsChild, Stopped, Held, Routed, Route, Sent, InHand, Answered
  <2> QED  BY <1>5, <2>2, <2>3 DEF Abort
<1>6. ASSUME \/ \E q \in Queries : ProcessWorks(q) \/ (Running /\ TimeIsUp(q) /\ Outside)
             \/ ProcessReads \/ (Running /\ Garble /\ Outside)
      PROVE  SupInv'
  <2>1. UNCHANGED <<sup, pipe, child, callers>>
    BY <1>6 DEF ProcessWorks, ProcessReads, Outside
  <2>2. \A r \in Requests : Route(r) => Route(r)'
    BY <1>6, RouteReads, RouteWorks, RouteGarbled DEF ProcessWorks, ProcessReads
  <2> QED  BY <2>1, <2>2, ProcessKeeps
<1>7. CASE Spawned
  <2>1. HoldsChild' /\ Stopped'
    BY <1>7 DEF Spawned, SupInv, HoldsChild, Stopped
  <2>2. \A r \in Requests : call'[r] = "pending" => call[r] = "pending"
    BY <1>7 DEF Spawned
  <2>3. \A r \in Requests : Route(r) => Route(r)'
    BY <1>7 DEF Spawned, process, pipe, Route, Sent, InHand, Answered
  <2> QED  BY <1>7, <2>1, <2>2, <2>3 DEF Spawned, SupInv, Held, Routed
<1>8. CASE SpawnFailed
  <2>1. HoldsChild' /\ Stopped'
    BY <1>8, <1>a DEF SpawnFailed, SupInv, HoldsChild, Stopped
  <2>2. CASE handle  BY <1>8, <1>a, <2>1, <2>2 DEF SpawnFailed, SupInv
  <2>3. CASE ~handle
    <3>1. \A r \in Requests : call'[r] # "pending"
      BY <1>b, <1>8, <2>3 DEF SpawnFailed
    <3> QED  BY <2>1, <3>1, NobodyWaits DEF SupInv
  <2> QED  BY <2>2, <2>3
<1>9. CASE Restart
  <2>1. CASE UNCHANGED <<process, handle, starting, child>>
    BY <1>9, <2>1
    DEF Restart, process, pipe, callers, SupInv, HoldsChild, Stopped, Held, Routed, Route,
        Sent, InHand, Answered
  <2>2. CASE ~closed /\ ~handle /\ Spawn
    <3>1. HoldsChild' /\ Stopped'
      BY <1>9, <2>2 DEF Restart, Spawn, SupInv, HoldsChild, Stopped
    <3>2. \A r \in Requests : call'[r] # "pending"
      BY <1>b, <1>9, <2>2 DEF Restart, callers
    <3> QED  BY <3>1, <3>2, NobodyWaits DEF SupInv
  <2> QED  BY <1>9, <2>1, <2>2 DEF Restart
<1>10. CASE Stop
  <2>1. HoldsChild' /\ Stopped'
    BY <1>10 DEF Stop, RejectAll, HoldsChild, Stopped
  <2> QED  BY <1>10, <1>a, <2>1 DEF Stop, SupInv
<1>11. CASE Receive
  <2>1. HoldsChild' /\ Stopped'
    BY <1>11 DEF Receive, RejectAll, sup, SupInv, HoldsChild, Stopped
  <2>2. CASE RejectAll  BY <1>a, <2>1, <2>2 DEF SupInv
  <2>3. CASE ~RejectAll
    <3> DEFINE line == Head(stdout)
    <3>1. /\ handle /\ UNCHANGED <<stdin, thread, sup, pipe, child>> /\ stdout # <<>>
          /\ stdout' = Tail(stdout) /\ line.say \in Answers
          /\ pending' = pending \ {line.to}
          /\ call' = Settled(pending \cap {line.to}, line.say)
      BY <1>11, <2>3 DEF Receive
    <3> HIDE DEF line
    <3>2. ASSUME NEW r \in Requests, call'[r] = "pending"
          PROVE  call[r] = "pending" /\ Ask(r) \in pending' /\ Ask(r) # line.to
      <4>1. call'[r] = IF Ask(r) \in pending \cap {line.to} THEN line.say ELSE call[r]
        BY <3>1 DEF Settled
      <4>2. Ask(r) \notin pending \cap {line.to} /\ call[r] = "pending"
        BY <3>1, <3>2, <4>1 DEF Answers
      <4>3. Ask(r) \in pending  BY <4>2 DEF SupInv, Held
      <4> QED  BY <3>1, <4>2, <4>3
    <3>3. \A l : In(l, stdout) <=> l = line \/ In(l, stdout')
      BY <3>1, InTail DEF TypeOK, ProcessTypeOK, line
    <3>4. \A r \in Requests : Ask(r) # line.to /\ Route(r) => Route(r)'
      BY <3>1, <3>3 DEF Route, Sent, InHand, Answered, pipe
    <3>5. Held' /\ Routed'
      BY <3>1, <3>2, <3>4 DEF sup, SupInv, Held, Routed
    <3> QED  BY <2>1, <3>5 DEF SupInv
  <2> QED  BY <2>2, <2>3
<1>12. CASE Drained
  <2>1. \A m : In(m, stdin) \/ In(m, queue) => Sent(m)'
    BY <1>12, FlushFacts DEF Drained, Running, TypeOK, ProcessTypeOK
  <2>2. \A r \in Requests : Route(r) => Route(r)'
    BY <1>12, <2>1 DEF Drained, Route, Sent, InHand, Answered
  <2> QED
    BY <1>12, <2>2
    DEF Drained, sup, callers, SupInv, HoldsChild, Stopped, Held, Routed
<1>13. CASE Die
  <2>1. \A r \in Requests : Route(r)'  BY <1>13 DEF Die, Route
  <2> QED
    BY <1>13, <2>1
    DEF Die, Running, sup, callers, SupInv, HoldsChild, Stopped, Held, Routed
<1>14. CASE StdinBreaks
  <2>1. \A r \in Requests : Route(r)'  BY <1>14 DEF StdinBreaks, Route
  <2> QED
    BY <1>14, <2>1
    DEF StdinBreaks, sup, callers, SupInv, HoldsChild, Stopped, Held, Routed
<1>15. CASE Exited
  <2>1. HoldsChild' /\ Stopped'
    BY <1>15 DEF Exited, RejectAll, SupInv, HoldsChild, Stopped
  <2>2. CASE handle  BY <1>15, <1>a, <2>1, <2>2 DEF Exited, SupInv
  <2>3. CASE ~handle
    <3>1. \A r \in Requests : call'[r] # "pending"
      BY <1>b, <1>15, <2>3 DEF Exited
    <3> QED  BY <2>1, <3>1, NobodyWaits DEF SupInv
  <2> QED  BY <2>2, <2>3
<1> QED
  BY <1>1, <1>3, <1>4, <1>5, <1>6, <1>7, <1>8, <1>9, <1>10, <1>11, <1>12, <1>13, <1>14, <1>15
  DEF Next

LEMMA SupInductive == Spec => [](TypeOK /\ SupInv)
<1>1. Init => SupInv
  BY DEF Init, SupInv, HoldsChild, Stopped, Held, Routed
<1> QED  BY <1>1, TypeCorrect, SupStep, PTL DEF Spec

\* A caller that waits for its answer is in the map of the child that is held,
\* and its request on its way, unless its end is about to be noticed or the
\* writer waits for a child that is gone.
THEOREM EverybodyKnown == Spec => []NobodyForgotten
<1>1. TypeOK /\ SupInv => NobodyForgotten
  <2> SUFFICES ASSUME TypeOK, SupInv, NEW r \in Requests, call[r] = "pending"
               PROVE  /\ handle /\ Ask(r) \in pending
                      /\ \/ child \in {"killed", "dead", "broken"} \/ writer = "lost"
                         \/ writer = "waiting" /\ In(Ask(r), queue)
                         \/ In(Ask(r), stdin)
                         \/ r \in Queries /\ thread[r] \in {"started", "running"}
                         \/ \E n \in 1..Len(stdout) :
                              stdout[n] # Junk /\ stdout[n].to = Ask(r)
    BY DEF NobodyForgotten
  <2>1. Route(r) /\ handle /\ Ask(r) \in pending
    BY DEF SupInv, Held, Routed
  <2>2. Answered(r) => \E n \in 1..Len(stdout) : stdout[n] # Junk /\ stdout[n].to = Ask(r)
    BY DEF Answered, In
  <2> QED  BY <2>1, <2>2 DEF Route, Sent, InHand
<1> QED  BY <1>1, SupInductive, PTL

\* After stop there is no child, no timer and nobody who waits.
THEOREM StoppedForGood == Spec => []StopIsFinal
<1>1. SupInv => StopIsFinal
  BY DEF SupInv, Stopped, Held, StopIsFinal
<1> QED  BY <1>1, SupInductive, PTL

\* A child is spawned only where there is none, and never after stop.
THEOREM OneAtATime == Spec => OneChild
<1>1. SupInv /\ [Next]_vars
        => [child' = "spawning" /\ child # "spawning" => child = "none" /\ ~closed]_vars
  <2> SUFFICES ASSUME SupInv, Next, child' = "spawning", child # "spawning"
               PROVE  child = "none" /\ ~closed
    OBVIOUS
  <2>1. Spawn /\ ~handle /\ ~closed
    <3>1. ASSUME NEW r \in Requests, Register(r) PROVE UNCHANGED child
      BY <3>1 DEF Register
    <3> QED
      BY <3>1
      DEF Next, Call, Resume, Abort, ProcessWorks, Outside, Spawned, SpawnFailed, Restart,
          Stop, Receive, Drained, Die, StdinBreaks, Exited, ProcessReads
  <2> QED  BY <2>1 DEF SupInv, HoldsChild
<1> QED  BY <1>1, SupInductive, PTL DEF Spec, OneChild

-----------------------------------------------------------------------------
(***************************************************************************)
(* A cancel reaches its own query.                                         *)
(***************************************************************************)
\* A cancel on its way, an event it has set and an answer it has caused are of
\* a query whose signal was aborted.
CancelsOwn == \A q \in Signalled : In(Cancel(q), stdin) \/ In(Cancel(q), queue) => q \in aborted
EventsOwn == \A q \in Queries : event[q] = "cancelled" => q \in aborted
AnswersOwn ==
  \A line, q : In(line, stdout) /\ line # Junk /\ q \in Queries
                /\ line.to = Ask(q) /\ line.say = "cancelled" => q \in aborted
CancelInv == CancelsOwn /\ EventsOwn /\ AnswersOwn /\ CancelledForAReason

\* What is sent must be of aborted queries; who is told is not told of a cancel.
LEMMA SendCancels ==
  ASSUME TypeOK, CancelInv, aborted \subseteq aborted', UNCHANGED <<stdout, event>>,
         NEW lines \in Seq(Msg), NEW asked \in SUBSET Msg,
         NEW says \in [Requests -> Calls], SendLines(lines, asked, says),
         \A q \in Signalled : In(Cancel(q), lines) => q \in aborted',
         \A r \in Requests : says[r] = "cancelled" => call[r] = "cancelled"
  PROVE  CancelInv'
<1>1. CancelsOwn'
  <2>1. \A m : In(m, stdin') \/ In(m, queue') => In(m, stdin) \/ In(m, queue) \/ In(m, lines)
    BY SendFacts
  <2> QED  BY <2>1 DEF CancelInv, CancelsOwn
<1>2. \A r \in Requests : call'[r] = "cancelled" => call[r] = "cancelled"
  BY DEF SendLines
<1>3. EventsOwn' /\ AnswersOwn'  BY DEF CancelInv, EventsOwn, AnswersOwn
<1> QED  BY <1>1, <1>2, <1>3 DEF CancelInv, CancelledForAReason, Requests

\* Steps that send nothing, set no event and answer nothing.
LEMMA CancelKeeps ==
  ASSUME CancelInv, aborted \subseteq aborted',
         \A m : In(m, stdin') \/ In(m, queue') => In(m, stdin) \/ In(m, queue),
         \A q \in Queries : event'[q] = "cancelled" => event[q] = "cancelled",
         \A line : In(line, stdout') => In(line, stdout),
         \A r \in Requests : call'[r] = "cancelled" => call[r] = "cancelled"
  PROVE  CancelInv'
BY DEF CancelInv, CancelsOwn, EventsOwn, AnswersOwn, CancelledForAReason, Requests

\* Lines that are written.
LEMMA WriteOwn ==
  ASSUME TypeOK, AnswersOwn, UNCHANGED aborted, NEW m \in Msg,
         NEW say \in {"ended", "cancelled", "late", "tooLong"}, Write(m, say),
         \A q \in Queries : m = Ask(q) /\ say = "cancelled" => q \in aborted
  PROVE  AnswersOwn'
<1> DEFINE new == [to |-> m, say |-> say]
<1>1. new \in Reply \cup {Junk} /\ new.to = m /\ new.say = say  BY DEF Reply
<1>2. stdout' = Append(stdout, new)  BY DEF Write
<1> HIDE DEF new
<1>3. \A l : In(l, stdout') <=> In(l, stdout) \/ l = new
  BY <1>1, <1>2, InAppend DEF TypeOK, ProcessTypeOK
<1> QED  BY <1>1, <1>3 DEF AnswersOwn

LEMMA ReadOwn ==
  ASSUME TypeOK, CancelInv, Outside, Read
  PROVE  CancelInv'
<1> USE DEF Outside, pipe, callers
<1>a. ASSUME NEW m, Reads(m)
      PROVE  CancelsOwn' /\ In(m, stdin)
  <2>1. \A l : In(l, stdin) <=> l = m \/ In(l, stdin')
    BY <1>a, InTail DEF Reads, TypeOK, ProcessTypeOK
  <2> QED  BY <2>1 DEF CancelInv, CancelsOwn
<1>b. CancelledForAReason'  BY DEF CancelInv, CancelledForAReason
<1>1. ASSUME NEW q \in Queries, ReadQuery(q) PROVE CancelInv'
  <2>1. Ask(q) \in Msg  BY Messages DEF Requests
  <2>2. AnswersOwn'  BY <1>1, <2>1, WriteOwn DEF ReadQuery, CancelInv, AnswersOwn
  <2>3. EventsOwn'  BY <1>1 DEF ReadQuery, CancelInv, EventsOwn
  <2> QED  BY <1>1, <1>a, <1>b, <2>2, <2>3 DEF ReadQuery, CancelInv
<1>2. ASSUME NEW q \in Signalled, ReadCancel(q) PROVE CancelInv'
  <2>1. Cancel(q) \in Msg  BY Messages
  <2>2. q \in aborted  BY <1>2, <1>a DEF ReadCancel, CancelInv, CancelsOwn
  <2>3. AnswersOwn'  BY <1>2, <2>1, WriteOwn DEF ReadCancel, CancelInv
  <2>4. EventsOwn'
    BY <1>2, <2>2 DEF ReadCancel, CancelledBy, CancelInv, EventsOwn
  <2> QED  BY <1>2, <1>a, <1>b, <2>3, <2>4 DEF ReadCancel, CancelInv
<1>3. ASSUME NEW h \in Healths, ReadHealth(h) PROVE CancelInv'
  <2>1. Ask(h) \in Msg  BY Messages DEF Requests
  <2>2. AnswersOwn'  BY <1>3, <2>1, WriteOwn DEF ReadHealth, CancelInv
  <2>3. EventsOwn'  BY <1>3 DEF ReadHealth, CancelInv, EventsOwn
  <2> QED  BY <1>3, <1>a, <1>b, <2>2, <2>3 DEF ReadHealth, CancelInv
<1> QED  BY <1>1, <1>2, <1>3 DEF Read

LEMMA WorkOwn ==
  ASSUME TypeOK, CancelInv, Outside, NEW q \in Queries, Work(q) \/ TimeIsUp(q)
  PROVE  CancelInv'
<1> USE DEF Outside, pipe, callers
<1>1. CASE Begin(q) \/ Release(q) \/ TimeIsUp(q)
  <2>1. \A p \in Queries : event'[p] = "cancelled" => event[p] = "cancelled"
    BY <1>1 DEF Begin, Release, TimeIsUp, TypeOK, ProcessTypeOK
  <2>2. UNCHANGED <<stdin, stdout>>  BY <1>1 DEF Begin, Release, TimeIsUp
  <2> QED  BY <2>1, <2>2, CancelKeeps
<1>2. ASSUME NEW say \in {"ended", "cancelled", "late", "tooLong"}, Answer(q, say)
      PROVE  CancelInv'
  <2>1. Ask(q) \in Msg /\ \A p \in Queries : Ask(q) = Ask(p) => q = p
    BY Messages, AskOnce DEF Requests
  <2>2. say = "cancelled" => q \in aborted
    BY <1>2 DEF Answer, CancelInv, EventsOwn
  <2>3. AnswersOwn'  BY <1>2, <2>1, <2>2, WriteOwn DEF Answer, CancelInv
  <2> QED
    BY <1>2, <2>3 DEF Answer, CancelInv, CancelsOwn, EventsOwn, CancelledForAReason
<1> QED  BY <1>1, <1>2 DEF Work

LEMMA CancelStep == TypeOK /\ CancelInv /\ [Next]_vars => CancelInv'
<1> SUFFICES ASSUME TypeOK, CancelInv, [Next]_vars PROVE CancelInv'  OBVIOUS
<1>a. RejectAll => \A r \in Requests : call'[r] = "cancelled" => call[r] = "cancelled"
  BY DEF RejectAll, Settled
<1>e. \A m : ~In(m, <<>>)  BY DEF In
<1>1. CASE UNCHANGED vars
  BY <1>1, CancelKeeps DEF vars, process, pipe, callers
<1>2. ASSUME NEW r \in Requests, Register(r) PROVE CancelInv'
  <2>1. UNCHANGED <<stdout, event, aborted>>  BY <1>2, RegisterFacts
  <2>2. CASE UNCHANGED <<stdin, pipe, pending>> /\ call' = [call EXCEPT ![r] = "ended"]
    <3>1. \A s \in Requests : call'[s] = "cancelled" => call[s] = "cancelled"
      BY <2>2 DEF TypeOK
    <3> QED  BY <2>1, <2>2, <3>1, CancelKeeps DEF pipe
  <2>3. ASSUME NEW lines \in Seq(Msg), NEW asked \in SUBSET Msg,
               SendLines(lines, asked, [call EXCEPT ![r] = "pending"]),
               \A q \in Signalled : In(Cancel(q), lines) => q \in aborted
        PROVE  CancelInv'
    <3> DEFINE says == [call EXCEPT ![r] = "pending"]
    <3>1. says \in [Requests -> Calls]
            /\ \A s \in Requests : says[s] = "cancelled" => call[s] = "cancelled"
      BY DEF TypeOK, Calls
    <3>2. SendLines(lines, asked, says)  BY <2>3
    <3> HIDE DEF says
    <3> QED  BY <2>1, <2>3, <3>1, <3>2, SendCancels
  <2> QED  BY <1>2, <2>2, <2>3, RegisterFacts
<1>3. ASSUME NEW r \in Requests, Call(r) PROVE CancelInv'
  <2>1. CASE handle  BY <1>2, <1>3, <2>1 DEF Call
  <2>2. CASE ~handle
    <3>1. \A s \in Requests : call'[s] = "cancelled" => call[s] = "cancelled"
      BY <1>3, <2>2 DEF Call, TypeOK
    <3>2. UNCHANGED <<queue, event, aborted>>
            /\ (UNCHANGED <<stdin, stdout>> \/ (stdin' = <<>> /\ stdout' = <<>>))
      BY <1>3, <2>2 DEF Call, Spawn, process, pipe
    <3> QED  BY <1>e, <3>1, <3>2, CancelKeeps
  <2> QED  BY <2>1, <2>2
<1>4. ASSUME NEW r \in Requests, Resume(r) PROVE CancelInv'
  BY <1>2, <1>4 DEF Resume
<1>5. ASSUME NEW q \in Signalled, Abort(q) PROVE CancelInv'
  <2>1. UNCHANGED <<stdout, event>> /\ aborted' = aborted \cup {q}
    BY <1>5 DEF Abort
  <2>2. CASE SendLines(<<Cancel(q)>>, {Cancel(q)}, call)
    <3>1. Cancel(q) \in Msg /\ <<Cancel(q)>> \in Seq(Msg) /\ call \in [Requests -> Calls]
      BY Messages DEF TypeOK, Calls
    <3>2. \A m : In(m, <<Cancel(q)>>) => m = Cancel(q)  BY DEF In
    <3>3. \A p \in Signalled : In(Cancel(p), <<Cancel(q)>>) => p \in aborted'
      BY <2>1, <3>2, AskOnce
    <3> QED  BY <2>1, <2>2, <3>1, <3>3, SendCancels
  <2>3. CASE UNCHANGED <<stdin, pipe, pending, call>>
    BY <2>1, <2>3, CancelKeeps DEF pipe
  <2> QED  BY <1>5, <2>2, <2>3 DEF Abort
<1>6. ASSUME \/ \E q \in Queries : ProcessWorks(q) \/ (Running /\ TimeIsUp(q) /\ Outside)
             \/ ProcessReads
      PROVE  CancelInv'
  BY <1>6, ReadOwn, WorkOwn DEF ProcessWorks, ProcessReads
<1>7. CASE Running /\ Garble /\ Outside
  <2>1. \A l : In(l, stdout') => In(l, stdout) \/ l = Junk
    BY <1>7, InAppend DEF Garble, TypeOK, ProcessTypeOK
  <2> QED
    BY <1>7, <2>1
    DEF Garble, Outside, pipe, callers, CancelInv, CancelsOwn, EventsOwn, AnswersOwn,
        CancelledForAReason
<1>8. CASE Spawned
  <2>1. \A r \in Requests : call'[r] = "cancelled" => call[r] = "cancelled"
    BY <1>8 DEF Spawned
  <2> QED  BY <1>8, <2>1, CancelKeeps DEF Spawned, process, pipe
<1>9. CASE SpawnFailed
  <2>1. \A r \in Requests : call'[r] = "cancelled" => call[r] = "cancelled"
    BY <1>9, <1>a DEF SpawnFailed
  <2> QED  BY <1>9, <1>e, <2>1, CancelKeeps DEF SpawnFailed
<1>10. CASE Restart
  <2>1. UNCHANGED <<queue, event, aborted, call>>
          /\ (UNCHANGED <<stdin, stdout>> \/ (stdin' = <<>> /\ stdout' = <<>>))
    BY <1>10 DEF Restart, Spawn, process, pipe, callers
  <2> QED  BY <1>e, <2>1, CancelKeeps
<1>11. CASE Stop
  BY <1>11, <1>a, CancelKeeps DEF Stop, process, pipe
<1>12. CASE Receive
  <2> DEFINE line == Head(stdout)
  <2>1. /\ UNCHANGED <<stdin, event, pipe, aborted>> /\ stdout # <<>>
        /\ stdout' = Tail(stdout)
        /\ RejectAll \/ (line.say \in Answers
                            /\ call' = Settled(pending \cap {line.to}, line.say))
    BY <1>12 DEF Receive
  <2>2. \A l : In(l, stdout) <=> l = line \/ In(l, stdout')
    BY <2>1, InTail DEF TypeOK, ProcessTypeOK
  <2> HIDE DEF line
  <2>3. CASE RejectAll  BY <1>a, <2>1, <2>2, <2>3, CancelKeeps DEF pipe
  <2>4. CASE line.say \in Answers /\ call' = Settled(pending \cap {line.to}, line.say)
    <3>1. line # Junk  BY <2>4 DEF Junk, Answers
    <3>2. ASSUME NEW q \in Queries, call'[q] = "cancelled" PROVE q \in aborted
      <4>1. q \in Requests  BY DEF Requests
      <4>2. call'[q] = IF Ask(q) \in pending \cap {line.to} THEN line.say ELSE call[q]
        BY <2>4, <4>1 DEF Settled
      <4>3. CASE Ask(q) = line.to /\ line.say = "cancelled"
        BY <2>2, <3>1, <4>3 DEF CancelInv, AnswersOwn
      <4>4. CASE call[q] = "cancelled"  BY <4>4 DEF CancelInv, CancelledForAReason
      <4> QED  BY <3>2, <4>2, <4>3, <4>4
    <3> QED
      BY <2>1, <2>2, <3>2
      DEF pipe, CancelInv, CancelsOwn, EventsOwn, AnswersOwn, CancelledForAReason
  <2> QED  BY <2>1, <2>3, <2>4
<1>13. CASE Drained
  <2>1. \A m : In(m, stdin') \/ In(m, queue') => In(m, stdin) \/ In(m, queue)
    BY <1>13, FlushFacts DEF Drained, TypeOK, ProcessTypeOK
  <2> QED  BY <1>13, <2>1, CancelKeeps DEF Drained, callers
<1>14. CASE Die
  BY <1>14, <1>e, CancelKeeps DEF Die, Vanish, callers
<1>15. CASE StdinBreaks
  BY <1>15, CancelKeeps DEF StdinBreaks, process, pipe, callers
<1>16. CASE Exited
  <2>1. \A r \in Requests : call'[r] = "cancelled" => call[r] = "cancelled"
    BY <1>16, <1>a DEF Exited
  <2> QED  BY <1>16, <1>e, <2>1, CancelKeeps DEF Exited, pipe
<1> QED
  BY <1>1, <1>3, <1>4, <1>5, <1>6, <1>7, <1>8, <1>9, <1>10, <1>11, <1>12, <1>13, <1>14, <1>15,
     <1>16
  DEF Next

\* A query ends as cancelled only if its own signal was aborted.
THEOREM CancelsReachTheirOwn == Spec => []CancelledForAReason
<1>1. Init => CancelInv
  BY DEF Init, ProcessInit, CancelInv, CancelsOwn, EventsOwn, AnswersOwn, CancelledForAReason,
         In, Requests
<1>2. CancelInv => CancelledForAReason  BY DEF CancelInv
<1> QED  BY <1>1, <1>2, TypeCorrect, CancelStep, PTL DEF Spec
=============================================================================
