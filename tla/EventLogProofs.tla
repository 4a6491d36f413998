--------------------------- MODULE EventLogProofs ---------------------------
(***************************************************************************)
(* Proofs about EventLog: every property of its runs but the two temporal  *)
(* ones that need fairness.                                                *)
(***************************************************************************)
EXTENDS EventLog, Sequences, TLAPS

USE LogAssumption DEF LogAssumption

\* A write is the commit of the next sequence by an idle fiber, whatever owner
\* it comes from.
LEMMA WriteIsCommit ==
  ASSUME TypeOK, NEW f \in Fibers, Writing(f)
  PROVE  \E a \in Aggregates, id \in Ids, by \in Owners \cup {NoOwner, Local},
            tell \in BOOLEAN :
           /\ fiber[f] = Idle /\ latest[a] + 1 \in 0..MaxSeq
           /\ Commit(f, a, latest[a] + 1, id, by, tell)
<1>1. PICK a \in Aggregates, id \in Ids :
        \/ Publish(f, a, id)
        \/ \E seq \in 0..MaxSeq, o \in Owners \cup {NoOwner}, tell \in BOOLEAN :
             ReplayNew(f, a, seq, id, o, tell)
  BY DEF Writing
<1>2. latest[a] \in -1..MaxSeq
  BY DEF TypeOK
<1>3. CASE Publish(f, a, id)
  <2>1. Commit(f, a, latest[a] + 1, id, Local, TRUE)
    BY <1>3 DEF Publish, NextSeq
  <2>2. fiber[f] = Idle /\ latest[a] + 1 \in 0..MaxSeq
    BY <1>2, <1>3 DEF Publish, NextSeq
  <2> QED
    BY <2>1, <2>2, Zenon
<1>4. CASE \E seq \in 0..MaxSeq, o \in Owners \cup {NoOwner}, tell \in BOOLEAN :
             ReplayNew(f, a, seq, id, o, tell)
  <2> PICK seq \in 0..MaxSeq, o \in Owners \cup {NoOwner}, tell \in BOOLEAN :
         ReplayNew(f, a, seq, id, o, tell)
    BY <1>4
  <2>1. fiber[f] = Idle /\ latest[a] + 1 \in 0..MaxSeq
    BY <1>2 DEF ReplayNew
  <2>2. Commit(f, a, latest[a] + 1, id, o, tell)
    BY DEF ReplayNew
  <2> QED
    BY <2>1, <2>2, Zenon
<1> QED
  BY <1>1, <1>3, <1>4

-----------------------------------------------------------------------------
\* The owner columns keep their types in every step that may change them.
LEMMA OwnerTyped ==
  ASSUME TypeOK, NEW a \in Aggregates, NEW o \in Owners \cup {NoOwner},
         TakeUnowned(a, o)
  PROVE  /\ owner' \in [Aggregates -> Owners \cup {NoOwner}]
         /\ ownedFrom' \in [Aggregates -> -1..MaxSeq]
BY DEF TypeOK, TakeUnowned

LEMMA CommitTyped ==
  ASSUME TypeOK, NEW f \in Fibers, NEW a \in Aggregates, NEW id \in Ids,
         NEW by \in Owners \cup {NoOwner, Local}, NEW tell \in BOOLEAN,
         latest[a] + 1 \in 0..MaxSeq, Commit(f, a, latest[a] + 1, id, by, tell)
  PROVE  /\ latest' \in [Aggregates -> -1..MaxSeq]
         /\ events' \subseteq Row
         /\ fiber' \in [Fibers -> {Idle} \cup
              [at : {"waking", "notifying"}, row : Row, tell : BOOLEAN]]
<1> DEFINE row == [agg |-> a, seq |-> latest[a] + 1, id |-> id, by |-> by,
                   era |-> era[a]]
<1>1. row \in Row
  BY DEF TypeOK, Row
<1>2. events' = events \cup {row}
  BY DEF Commit
<1>3. fiber' = [fiber EXCEPT ![f] = [at |-> "waking", row |-> row, tell |-> tell]]
  BY DEF Commit
<1>4. latest' = [latest EXCEPT ![a] = latest[a] + 1]
  BY DEF Commit
<1> HIDE DEF row
<1>5. events' \subseteq Row
  BY <1>1, <1>2 DEF TypeOK
<1>6. latest' \in [Aggregates -> -1..MaxSeq]
  BY <1>4 DEF TypeOK
<1>7. fiber' \in [Fibers -> {Idle} \cup
              [at : {"waking", "notifying"}, row : Row, tell : BOOLEAN]]
  BY <1>1, <1>3 DEF TypeOK
<1> QED
  BY <1>5, <1>6, <1>7

\* A fiber that has not finished holds a row.
LEMMA BusyFiber ==
  ASSUME TypeOK, NEW f \in Fibers, fiber[f].at # "idle"
  PROVE  fiber[f] \in [at : {"waking", "notifying"}, row : Row, tell : BOOLEAN]
BY DEF TypeOK, Idle

LEMMA OpenedStream ==
  ASSUME TypeOK, NEW s \in Streams, stream[s] # Closed
  PROVE  stream[s] \in OpenStream
BY DEF TypeOK

\* Where a read leaves the cursor.
LEMMA ReadMoves ==
  ASSUME TypeOK, NEW s \in Streams, Read(s)
  PROVE  \E last \in -1..MaxSeq :
           /\ \/ Unread(s) = {} /\ last = stream[s].cursor
              \/ /\ \E e \in Unread(s) : e.seq = last
                 /\ \A e \in Unread(s) : e.seq <= last
           /\ last >= stream[s].cursor
           /\ stream' = [stream EXCEPT
                ![s] = [stream[s] EXCEPT !.at = "tailing", !.cursor = last]]
<1>1. stream[s] \in OpenStream /\ Unread(s) \subseteq Row
  BY OpenedStream DEF Read, Unread, TypeOK
<1>2. PICK last \in -1..MaxSeq :
        /\ IF Unread(s) = {} THEN last = stream[s].cursor
           ELSE /\ \E e \in Unread(s) : e.seq = last
                /\ \A e \in Unread(s) : e.seq <= last
        /\ stream' = [stream EXCEPT ![s].at = "tailing", ![s].cursor = last]
  BY DEF Read, LastRead
<1>3. last >= stream[s].cursor
  BY <1>1, <1>2 DEF Unread, OpenStream, Row
<1>4. stream' = [stream EXCEPT
                ![s] = [stream[s] EXCEPT !.at = "tailing", !.cursor = last]]
  BY <1>1, <1>2 DEF TypeOK
<1> QED
  BY <1>2, <1>3, <1>4

LEMMA TypeInit == Init => TypeOK
BY DEF Init, TypeOK, Idle, Closed

LEMMA TypeStep == TypeOK /\ [Next]_vars => TypeOK'
<1> SUFFICES ASSUME TypeOK, [Next]_vars PROVE TypeOK'
  OBVIOUS
<1> USE DEF tables, streams
<1>1. CASE \E f \in Fibers : Writing(f)
  <2> PICK f \in Fibers : Writing(f)
    BY <1>1
  <2>1. PICK a \in Aggregates, id \in Ids, by \in Owners \cup {NoOwner, Local},
             tell \in BOOLEAN :
          /\ fiber[f] = Idle /\ latest[a] + 1 \in 0..MaxSeq
          /\ Commit(f, a, latest[a] + 1, id, by, tell)
    BY WriteIsCommit
  <2>2. UNCHANGED <<streams, heard, era>>
    BY <2>1 DEF Commit
  <2>3. /\ owner' \in [Aggregates -> Owners \cup {NoOwner}]
        /\ ownedFrom' \in [Aggregates -> -1..MaxSeq]
    BY OwnerTyped DEF Writing, Publish, ReplayNew, TypeOK
  <2> QED
    BY <2>1, <2>2, <2>3, CommitTyped DEF TypeOK
<1>2. CASE \E f \in Fibers : WakeStreams(f)
  <2> PICK f \in Fibers : WakeStreams(f)
    BY <1>2
  <2>1. fiber[f] \in [at : {"waking", "notifying"}, row : Row, tell : BOOLEAN]
    BY BusyFiber DEF WakeStreams
  <2>2. fiber' \in [Fibers -> {Idle} \cup
              [at : {"waking", "notifying"}, row : Row, tell : BOOLEAN]]
    BY <2>1 DEF WakeStreams, TypeOK
  <2>3. wake' \in [Streams -> BOOLEAN]
    <3>1. \A s \in Streams : (wake[s] \/ Registered(s, f)) \in BOOLEAN
      BY Zenon DEF TypeOK
    <3> QED
      BY <3>1, Zenon DEF WakeStreams
  <2> QED
    BY <2>2, <2>3 DEF WakeStreams, TypeOK
<1>3. CASE \E f \in Fibers : Notify(f) \/ InterruptBeforeNotify(f)
  <2> PICK f \in Fibers : Notify(f) \/ InterruptBeforeNotify(f)
    BY <1>3
  <2>1. fiber[f].row \in Row
    BY BusyFiber DEF Notify, InterruptBeforeNotify
  <2> QED
    BY <2>1 DEF Notify, InterruptBeforeNotify, TypeOK
<1>4. CASE \E f \in Fibers : \E e \in events, o \in Owners : ReplayStale(f, e, o)
  <2> PICK f \in Fibers, e \in events, o \in Owners : ReplayStale(f, e, o)
    BY <1>4
  <2>1. e.agg \in Aggregates
    BY DEF TypeOK, Row
  <2>2. /\ owner' \in [Aggregates -> Owners \cup {NoOwner}]
        /\ ownedFrom' \in [Aggregates -> -1..MaxSeq]
    BY <2>1, OwnerTyped DEF ReplayStale
  <2> QED
    BY <2>2 DEF ReplayStale, StaleDone, TypeOK
<1>5. CASE \E a \in Aggregates : Remove(a)
  BY <1>5 DEF Remove, TypeOK
<1>6. CASE \E a \in Aggregates, o \in Owners : Claim(a, o)
  BY <1>6 DEF Claim, TypeOK
<1>7. CASE \E s \in Streams, a \in Aggregates, after \in -1..MaxSeq : Open(s, a, after)
  BY <1>7 DEF Open, Start, OpenStream, TypeOK
<1>8. CASE \E s \in Streams : Read(s)
  <2> PICK s \in Streams : Read(s)
    BY <1>8
  <2>1. PICK last \in -1..MaxSeq : stream' = [stream EXCEPT
                ![s] = [stream[s] EXCEPT !.at = "tailing", !.cursor = last]]
    BY ReadMoves
  <2>2. stream[s] \in OpenStream
    BY OpenedStream DEF Read
  <2>3. [stream[s] EXCEPT !.at = "tailing", !.cursor = last] \in OpenStream
    BY <2>2 DEF OpenStream
  <2>4. delivered' \in [Streams -> SUBSET Row]
    BY DEF Read, Unread, TypeOK
  <2> QED
    BY <2>1, <2>3, <2>4 DEF Read, TypeOK
<1>9. CASE \E s \in Streams : TakeWake(s)
  <2> PICK s \in Streams : TakeWake(s)
    BY <1>9
  <2>1. stream[s] \in OpenStream
    BY OpenedStream DEF TakeWake
  <2> QED
    BY <2>1 DEF TakeWake, OpenStream, TypeOK
<1>10. CASE \E s \in Streams : Close(s)
  BY <1>10 DEF Close, TypeOK
<1>11. CASE UNCHANGED vars
  BY <1>11 DEF vars, TypeOK
<1> QED
  BY <1>1, <1>2, <1>3, <1>4, <1>5, <1>6, <1>7, <1>8, <1>9, <1>10, <1>11
  DEF Next, Administration

\* Every variable keeps its type in every reachable state, for any sets of
\* aggregates, events, owners, fibers and streams.
THEOREM TypeCorrect == Spec => []TypeOK
BY TypeInit, TypeStep, PTL DEF Spec


-----------------------------------------------------------------------------
(***************************************************************************)
(* What each class of step does to the log, so that the invariants below   *)
(* need three cases and not eleven: one commit, one removal, or nothing.   *)
(***************************************************************************)
Committed(f, a) ==
  \E id \in Ids, by \in Owners \cup {NoOwner, Local}, tell \in BOOLEAN :
    /\ fiber[f] = Idle /\ latest[a] + 1 \in 0..MaxSeq
    /\ Commit(f, a, latest[a] + 1, id, by, tell)

LEMMA LogSteps ==
  ASSUME TypeOK, [Next]_vars
  PROVE  \/ \E f \in Fibers, a \in Aggregates : Committed(f, a)
         \/ \E a \in Aggregates : Remove(a)
         \/ UNCHANGED <<latest, events, era>>
<1>1. ASSUME NEW f \in Fibers, Writing(f)
      PROVE  \E a \in Aggregates : Committed(f, a)
  BY <1>1, WriteIsCommit DEF Committed
<1>2. ASSUME NEW f \in Fibers, WakeStreams(f) \/ Notify(f) \/ InterruptBeforeNotify(f)
      PROVE  UNCHANGED <<latest, events, era>>
  BY <1>2 DEF WakeStreams, Notify, InterruptBeforeNotify, tables
<1>3. ASSUME NEW f \in Fibers, NEW e \in events, NEW o \in Owners, ReplayStale(f, e, o)
      PROVE  UNCHANGED <<latest, events, era>>
  BY <1>3 DEF ReplayStale
<1>4. ASSUME NEW a \in Aggregates, NEW o \in Owners, Claim(a, o)
      PROVE  UNCHANGED <<latest, events, era>>
  BY <1>4 DEF Claim
<1>5. ASSUME NEW s \in Streams,
             \/ \E a \in Aggregates, after \in -1..MaxSeq : Open(s, a, after)
             \/ Read(s) \/ TakeWake(s) \/ Close(s)
      PROVE  UNCHANGED <<latest, events, era>>
  BY <1>5 DEF Open, Read, TakeWake, Close, tables
<1>6. UNCHANGED vars => UNCHANGED <<latest, events, era>>
  BY DEF vars, tables
<1> QED
  BY <1>1, <1>2, <1>3, <1>4, <1>5, <1>6 DEF Next, Administration

LEMMA CommitRow ==
  ASSUME TypeOK, NEW f \in Fibers, NEW a \in Aggregates, Committed(f, a)
  PROVE  \E row \in Row :
           /\ row.agg = a /\ row.seq = latest[a] + 1 /\ row.era = era[a]
           /\ \A e \in events : e.id # row.id
           /\ events' = events \cup {row}
           /\ latest' = [latest EXCEPT ![a] = latest[a] + 1]
           /\ fiber[f] = Idle
           /\ \E tell \in BOOLEAN : fiber' = [fiber EXCEPT ![f] =
                [at |-> "waking", row |-> row, tell |-> tell]]
           /\ UNCHANGED <<streams, heard, era>>
<1>1. PICK id \in Ids, by \in Owners \cup {NoOwner, Local}, tell \in BOOLEAN :
        /\ fiber[f] = Idle /\ latest[a] + 1 \in 0..MaxSeq
        /\ Commit(f, a, latest[a] + 1, id, by, tell)
  BY DEF Committed
<1> DEFINE row == [agg |-> a, seq |-> latest[a] + 1, id |-> id, by |-> by,
                   era |-> era[a]]
<1>2. row \in Row
  BY <1>1 DEF TypeOK, Row
<1>3. /\ \A e \in events : e.id # row.id
      /\ events' = events \cup {row}
      /\ latest' = [latest EXCEPT ![a] = latest[a] + 1]
      /\ fiber' = [fiber EXCEPT ![f] = [at |-> "waking", row |-> row, tell |-> tell]]
      /\ UNCHANGED <<streams, heard, era>>
  BY <1>1 DEF Commit, Fresh
<1>4. row.agg = a /\ row.seq = latest[a] + 1 /\ row.era = era[a]
  OBVIOUS
<1> HIDE DEF row
<1> QED
  BY <1>1, <1>2, <1>3, <1>4

LEMMA GaplessInit == Init => GaplessLog
BY DEF Init, GaplessLog, Log

LEMMA GaplessStep == TypeOK /\ GaplessLog /\ [Next]_vars => GaplessLog'
<1> SUFFICES ASSUME TypeOK, GaplessLog, [Next]_vars PROVE GaplessLog'
  OBVIOUS
<1>1. CASE \E f \in Fibers, a \in Aggregates : Committed(f, a)
  <2> PICK f \in Fibers, a \in Aggregates : Committed(f, a)
    BY <1>1
  <2>1. PICK row \in Row :
          /\ row.agg = a /\ row.seq = latest[a] + 1
          /\ \A e \in events : e.id # row.id
          /\ events' = events \cup {row}
          /\ latest' = [latest EXCEPT ![a] = latest[a] + 1]
    BY CommitRow
  <2>2. latest[a] \in -1..MaxSeq /\ events \subseteq Row
    BY DEF TypeOK
  <2>3. \A e \in events : e.agg = a => e.seq <= latest[a]
    BY <2>2 DEF GaplessLog, Log, Row
  <2>4. ASSUME NEW b \in Aggregates
        PROVE  {e.seq : e \in Log(b)'} = 0..latest'[b]
    <3>1. {e.seq : e \in Log(b)} = 0..latest[b] /\ latest[b] \in -1..MaxSeq
      BY DEF GaplessLog, TypeOK
    <3>2. CASE b = a
      <4>1. Log(b)' = Log(b) \cup {row}
        BY <2>1, <3>2 DEF Log
      <4>2. {e.seq : e \in Log(b)'} = {e.seq : e \in Log(b)} \cup {row.seq}
        BY <4>1
      <4>3. latest'[b] = latest[b] + 1
        BY <2>1, <3>2 DEF TypeOK
      <4>4. row.seq = latest[b] + 1
        BY <2>1, <3>2
      <4>5. 0..(latest[b] + 1) = (0..latest[b]) \cup {latest[b] + 1}
        BY <3>1
      <4> QED
        BY <3>1, <4>2, <4>3, <4>4, <4>5, Zenon
    <3>3. CASE b # a
      <4>1. Log(b)' = Log(b)
        BY <2>1, <3>3 DEF Log
      <4>2. latest'[b] = latest[b]
        BY <2>1, <3>3 DEF TypeOK
      <4> QED
        BY <3>1, <4>1, <4>2
    <3> QED
      BY <3>2, <3>3
  <2>5. \A d, e \in events' : d.agg = e.agg /\ d.seq = e.seq => d = e
    BY <2>1, <2>2, <2>3 DEF GaplessLog, Row
  <2>6. \A d, e \in events' : d.id = e.id => d = e
    BY <2>1 DEF GaplessLog
  <2> QED
    BY <2>4, <2>5, <2>6 DEF GaplessLog
<1>2. CASE \E a \in Aggregates : Remove(a)
  <2> PICK a \in Aggregates : Remove(a)
    BY <1>2
  <2>1. /\ latest' = [latest EXCEPT ![a] = -1]
        /\ events' = {e \in events : e.agg # a}
    BY DEF Remove
  <2>2. ASSUME NEW b \in Aggregates
        PROVE  {e.seq : e \in Log(b)'} = 0..latest'[b]
    <3>1. CASE b = a
      <4>1. Log(b)' = {} /\ latest'[b] = -1
        BY <2>1, <3>1 DEF Log, TypeOK
      <4> QED
        BY <4>1
    <3>2. CASE b # a
      <4>1. Log(b)' = Log(b) /\ latest'[b] = latest[b]
        BY <2>1, <3>2 DEF Log, TypeOK
      <4> QED
        BY <4>1 DEF GaplessLog
    <3> QED
      BY <3>1, <3>2
  <2> QED
    BY <2>1, <2>2 DEF GaplessLog
<1>3. CASE UNCHANGED <<latest, events, era>>
  BY <1>3 DEF GaplessLog, Log
<1> QED
  BY <1>1, <1>2, <1>3, LogSteps

\* The log of every aggregate has exactly the sequences 0 to latest, and an
\* event id is in one row of the table (commitDurableEvent's checks suffice).
THEOREM Gapless == Spec => []GaplessLog
BY TypeInit, TypeStep, GaplessInit, GaplessStep, PTL DEF Spec


-----------------------------------------------------------------------------
(***************************************************************************)
(* The owner fence.                                                        *)
(***************************************************************************)
LEMMA OwnedInit == Init => OwnedTail
BY DEF Init, OwnedTail

\* No row lies beyond latest, so an owner that takes the aggregate now owes
\* nothing for the rows that are there.
LEMMA BelowLatest ==
  ASSUME TypeOK, GaplessLog, NEW a \in Aggregates, NEW e \in Log(a)
  PROVE  e.seq <= latest[a] /\ e.seq \in 0..MaxSeq
<1>1. e.seq \in 0..latest[a]
  BY DEF GaplessLog
<1>2. latest[a] \in -1..MaxSeq
  BY DEF TypeOK
<1> QED
  BY <1>1, <1>2

LEMMA OwnedStep == TypeOK /\ GaplessLog /\ OwnedTail /\ [Next]_vars => OwnedTail'
<1> SUFFICES ASSUME TypeOK, GaplessLog, OwnedTail, [Next]_vars,
                    NEW b \in Aggregates, owner'[b] # NoOwner,
                    NEW e \in Log(b)', e.seq > ownedFrom'[b]
             PROVE  e.by \in {owner'[b], Local}
  BY DEF OwnedTail
<1>1. ASSUME e \in Log(b), owner'[b] = owner[b], ownedFrom'[b] = ownedFrom[b]
      PROVE  e.by \in {owner'[b], Local}
  BY <1>1 DEF OwnedTail
<1>2. ASSUME NEW f \in Fibers, NEW a \in Aggregates, NEW id \in Ids, Publish(f, a, id)
      PROVE  e.by \in {owner'[b], Local}
  <2>1. e \in Log(b) \/ e.by = Local
    BY <1>2 DEF Publish, Commit, Log
  <2> QED
    BY <1>1, <1>2, <2>1 DEF Publish
<1>3. ASSUME NEW f \in Fibers, NEW a \in Aggregates, NEW id \in Ids,
             NEW seq \in 0..MaxSeq, NEW o \in Owners \cup {NoOwner},
             NEW tell \in BOOLEAN, ReplayNew(f, a, seq, id, o, tell)
      PROVE  e.by \in {owner'[b], Local}
  <2>1. e \in Log(b) \/ (b = a /\ e.by = o)
    BY <1>3 DEF ReplayNew, Commit, Log
  <2>2. CASE b # a \/ ~ (owner[a] = NoOwner /\ o # NoOwner)
    <3>1. owner'[b] = owner[b] /\ ownedFrom'[b] = ownedFrom[b]
      BY <1>3, <2>2 DEF ReplayNew, TakeUnowned, TypeOK
    <3>2. e.by = o /\ b = a => o = owner[b]
      BY <1>3, <3>1 DEF ReplayNew, Fence
    <3> QED
      BY <1>1, <2>1, <3>1, <3>2
  <2>3. CASE b = a /\ owner[a] = NoOwner /\ o # NoOwner
    <3>1. owner'[b] = o /\ ownedFrom'[b] = latest[b]
      BY <1>3, <2>3 DEF ReplayNew, TakeUnowned, TypeOK
    <3>2. e \notin Log(b)
      BY <3>1, BelowLatest DEF TypeOK
    <3> QED
      BY <2>1, <3>1, <3>2
  <2> QED
    BY <2>2, <2>3
<1>4. ASSUME NEW f \in Fibers, NEW r \in events, NEW o \in Owners, ReplayStale(f, r, o)
      PROVE  e.by \in {owner'[b], Local}
  <2>1. e \in Log(b)
    BY <1>4 DEF ReplayStale, Log
  <2>2. \/ owner'[b] = owner[b] /\ ownedFrom'[b] = ownedFrom[b]
        \/ ownedFrom'[b] = latest[b]
    BY <1>4 DEF ReplayStale, TakeUnowned, TypeOK
  <2> QED
    BY <1>1, <2>1, <2>2, BelowLatest DEF TypeOK
<1>5. ASSUME NEW a \in Aggregates, Remove(a)
      PROVE  e.by \in {owner'[b], Local}
  <2>1. a # b
    BY <1>5 DEF Remove, TypeOK
  <2>2. e \in Log(b) /\ owner'[b] = owner[b] /\ ownedFrom'[b] = ownedFrom[b]
    BY <1>5, <2>1 DEF Remove, TypeOK, Log
  <2> QED
    BY <1>1, <2>2
<1>6. ASSUME NEW a \in Aggregates, NEW o \in Owners, Claim(a, o)
      PROVE  e.by \in {owner'[b], Local}
  <2>1. e \in Log(b)
    BY <1>6 DEF Claim, Log
  <2>2. \/ owner'[b] = owner[b] /\ ownedFrom'[b] = ownedFrom[b]
        \/ ownedFrom'[b] = latest[b]
    BY <1>6 DEF Claim, TypeOK
  <2> QED
    BY <1>1, <2>1, <2>2, BelowLatest DEF TypeOK
<1>7. ASSUME UNCHANGED tables
      PROVE  e.by \in {owner'[b], Local}
  BY <1>1, <1>7 DEF tables, Log
<1>8. ASSUME \/ \E f \in Fibers : WakeStreams(f) \/ Notify(f) \/ InterruptBeforeNotify(f)
             \/ \E s \in Streams :
                  \/ \E a \in Aggregates, after \in -1..MaxSeq : Open(s, a, after)
                  \/ Read(s) \/ TakeWake(s) \/ Close(s)
             \/ UNCHANGED vars
      PROVE  UNCHANGED tables
  BY <1>8 DEF WakeStreams, Notify, InterruptBeforeNotify, Open, Read, TakeWake,
              Close, vars, tables
<1> QED
  BY <1>2, <1>3, <1>4, <1>5, <1>6, <1>7, <1>8
  DEF Next, Writing, Administration

\* Since its owner took it, an aggregate has received only that owner's
\* replays and local events: the fence of commitDurableEvent, with stale
\* replays, claims and removals in between.
THEOREM Fenced == Spec => []OwnedTail
BY TypeInit, TypeStep, GaplessInit, GaplessStep, OwnedInit, OwnedStep, PTL DEF Spec

-----------------------------------------------------------------------------
(***************************************************************************)
(* Streams.                                                                *)
(***************************************************************************)
\* A read leaves the cursor at or behind no row of the log.
LEMMA ReadReachesLatest ==
  ASSUME TypeOK, GaplessLog, NEW s \in Streams, Read(s)
  PROVE  /\ stream'[s] # Closed
         /\ stream'[s].agg = stream[s].agg /\ stream'[s].after = stream[s].after
         /\ stream'[s].era = stream[s].era /\ stream'[s].at = "tailing"
         /\ stream'[s].cursor >= stream[s].cursor
         /\ latest[stream[s].agg] <= stream'[s].cursor
         /\ stream'[s].cursor = stream[s].cursor
            \/ stream'[s].cursor <= latest[stream[s].agg]
         /\ \A r \in Streams \ {s} : stream'[r] = stream[r]
<1>1. stream[s] \in OpenStream
  BY OpenedStream DEF Read
<1>2. PICK last \in -1..MaxSeq :
        /\ \/ Unread(s) = {} /\ last = stream[s].cursor
           \/ /\ \E e \in Unread(s) : e.seq = last
              /\ \A e \in Unread(s) : e.seq <= last
        /\ last >= stream[s].cursor
        /\ stream' = [stream EXCEPT
             ![s] = [stream[s] EXCEPT !.at = "tailing", !.cursor = last]]
  BY ReadMoves
<1> DEFINE a == stream[s].agg
<1>3. a \in Aggregates /\ latest[a] \in -1..MaxSeq /\ stream[s].cursor \in -1..MaxSeq
  BY <1>1 DEF TypeOK, OpenStream
<1>4. stream'[s] = [stream[s] EXCEPT !.at = "tailing", !.cursor = last]
  BY <1>2 DEF TypeOK
<1>5. latest[a] > stream[s].cursor => \E e \in Unread(s) : e.seq = latest[a]
  <2> HAVE latest[a] > stream[s].cursor
  <2>1. latest[a] \in {e.seq : e \in Log(a)}
    BY <1>3 DEF GaplessLog
  <2> QED
    BY <2>1 DEF Unread, Log
<1>6. \A e \in Unread(s) : e.seq <= latest[a]
  BY <1>3, BelowLatest DEF Unread, Log
<1>7. latest[a] <= last /\ (last = stream[s].cursor \/ last <= latest[a])
  BY <1>2, <1>3, <1>5, <1>6
<1>8. stream'[s] # Closed
  BY <1>1, <1>4 DEF OpenStream, Closed
<1> QED
  BY <1>1, <1>2, <1>4, <1>7, <1>8 DEF OpenStream, TypeOK

LEMMA MissedInit == Init => NoMissedWake
BY DEF Init, NoMissedWake

LEMMA MissedStep ==
  TypeOK /\ GaplessLog /\ NoMissedWake /\ [Next]_vars => NoMissedWake'
<1> SUFFICES ASSUME TypeOK, GaplessLog, NoMissedWake, [Next]_vars,
                    NEW s \in Streams, stream'[s] # Closed,
                    stream'[s].at = "tailing",
                    latest'[stream'[s].agg] > stream'[s].cursor
             PROVE  wake'[s] \/ \E f \in Fibers :
                      fiber'[f].at = "waking" /\ fiber'[f].row.agg = stream'[s].agg
  BY DEF NoMissedWake
<1> DEFINE Goal == wake'[s] \/ \E f \in Fibers :
                      fiber'[f].at = "waking" /\ fiber'[f].row.agg = stream'[s].agg
           Lagging == stream[s] # Closed /\ stream[s].at = "tailing"
                      /\ latest[stream[s].agg] > stream[s].cursor
<1>1. Lagging => wake[s] \/ \E f \in Fibers :
                      fiber[f].at = "waking" /\ fiber[f].row.agg = stream[s].agg
  BY DEF NoMissedWake
<1>2. ASSUME NEW f \in Fibers, NEW a \in Aggregates, Committed(f, a) PROVE Goal
  <2>1. PICK row \in Row :
          /\ row.agg = a
          /\ latest' = [latest EXCEPT ![a] = latest[a] + 1]
          /\ fiber[f] = Idle
          /\ \E tell \in BOOLEAN : fiber' = [fiber EXCEPT ![f] =
               [at |-> "waking", row |-> row, tell |-> tell]]
          /\ UNCHANGED <<streams, heard, era>>
    BY <1>2, CommitRow
  <2>2. fiber'[f].at = "waking" /\ fiber'[f].row.agg = a
        /\ \A g \in Fibers \ {f} : fiber'[g] = fiber[g]
    BY <2>1 DEF TypeOK
  <2>3. stream' = stream /\ wake' = wake
    BY <2>1 DEF streams
  <2>4. CASE stream[s].agg = a
    BY <2>2, <2>3, <2>4
  <2>5. CASE stream[s].agg # a
    <3>1. Lagging
      BY <2>1, <2>3, <2>5 DEF TypeOK, OpenStream
    <3> QED
      BY <1>1, <2>1, <2>2, <2>3, <3>1 DEF Idle
  <2> QED
    BY <2>4, <2>5
<1>3. ASSUME NEW a \in Aggregates, Remove(a) PROVE Goal
  <2>1. stream[s] \in OpenStream /\ stream' = stream /\ wake' = wake /\ fiber' = fiber
    BY <1>3, OpenedStream DEF Remove, streams
  <2>2. Lagging
    BY <1>3, <2>1 DEF Remove, TypeOK, OpenStream
  <2> QED
    BY <1>1, <2>1, <2>2
<1>4. ASSUME NEW f \in Fibers, WakeStreams(f) PROVE Goal
  <2>1. Lagging /\ stream' = stream /\ \A g \in Fibers \ {f} : fiber'[g] = fiber[g]
    BY <1>4 DEF WakeStreams, tables, TypeOK
  <2>2. wake'[s] = (wake[s] \/ Registered(s, f))
    BY <1>4 DEF WakeStreams
  <2>3. CASE fiber[f].row.agg = stream[s].agg
    BY <2>1, <2>2, <2>3 DEF Registered
  <2>4. CASE fiber[f].row.agg # stream[s].agg
    BY <1>1, <2>1, <2>2, <2>4
  <2> QED
    BY <2>3, <2>4
<1>5. ASSUME NEW f \in Fibers, Notify(f) \/ InterruptBeforeNotify(f) PROVE Goal
  <2>1. Lagging /\ stream' = stream /\ wake' = wake
    BY <1>5 DEF Notify, InterruptBeforeNotify, tables, streams
  <2>2. \A g \in Fibers : fiber[g].at = "waking" => fiber'[g] = fiber[g]
    BY <1>5 DEF Notify, InterruptBeforeNotify, TypeOK
  <2> QED
    BY <1>1, <2>1, <2>2
<1>6. ASSUME \/ \E f \in Fibers : \E e \in events, o \in Owners : ReplayStale(f, e, o)
             \/ \E a \in Aggregates, o \in Owners : Claim(a, o)
             \/ UNCHANGED vars
      PROVE Goal
  <2>1. UNCHANGED <<latest, stream, wake, fiber>>
    BY <1>6 DEF ReplayStale, StaleDone, Claim, vars, tables, streams
  <2> QED
    BY <1>1, <2>1
<1>7. ASSUME NEW r \in Streams, NEW a \in Aggregates, NEW after \in -1..MaxSeq,
             Open(r, a, after)
      PROVE Goal
  <2>1. r # s
    BY <1>7 DEF Open, TypeOK
  <2>2. Lagging /\ stream'[s] = stream[s] /\ wake' = wake /\ fiber' = fiber
    BY <1>7, <2>1 DEF Open, TypeOK, tables
  <2> QED
    BY <1>1, <2>2
<1>8. ASSUME NEW r \in Streams, Read(r) PROVE Goal
  <2>1. UNCHANGED <<latest, fiber, wake>>
    BY <1>8 DEF Read, tables
  <2>2. r # s
    <3> SUFFICES ASSUME r = s PROVE FALSE
      OBVIOUS
    <3>1. stream[s] \in OpenStream /\ stream'[s].agg = stream[s].agg
          /\ latest[stream[s].agg] <= stream'[s].cursor
      BY <1>8, ReadReachesLatest, OpenedStream DEF Read
    <3>2. stream'[s] \in OpenStream
      BY TypeStep, OpenedStream DEF TypeOK
    <3> QED
      BY <2>1, <3>1, <3>2 DEF OpenStream, TypeOK
  <2>3. stream'[s] = stream[s]
    BY <1>8, <2>2, ReadReachesLatest
  <2> QED
    BY <1>1, <2>1, <2>3
<1>9. ASSUME NEW r \in Streams, TakeWake(r) \/ Close(r) PROVE Goal
  <2>1. UNCHANGED <<latest, fiber>>
    BY <1>9 DEF TakeWake, Close, tables
  <2>2. r # s
    BY <1>9 DEF TakeWake, Close, TypeOK, OpenStream
  <2>3. stream'[s] = stream[s] /\ wake'[s] = wake[s]
    BY <1>9, <2>2 DEF TakeWake, Close, TypeOK
  <2> QED
    BY <1>1, <2>1, <2>3
<1>10. ASSUME NEW f \in Fibers, Writing(f) PROVE Goal
  BY <1>2, <1>10, WriteIsCommit DEF Committed
<1> QED
  BY <1>3, <1>4, <1>5, <1>6, <1>7, <1>8, <1>9, <1>10
  DEF Next, Administration

\* A lagging stream that waits always has its signal set or coming: no commit
\* is missed between registering, reading and waiting.
THEOREM NoneMissed == Spec => []NoMissedWake
BY TypeInit, TypeStep, GaplessInit, GaplessStep, MissedInit, MissedStep, PTL DEF Spec

-----------------------------------------------------------------------------
(***************************************************************************)
(* What a stream has emitted.  The cursor lies at the start position or on *)
(* a row of the log (until the log is removed), so that a commit never     *)
(* falls behind it.                                                        *)
(***************************************************************************)
CursorInv ==
  \A s \in Streams :
    IF stream[s] = Closed THEN delivered[s] = {}
    ELSE /\ stream[s].era <= era[stream[s].agg]
         /\ stream[s].after <= stream[s].cursor
         /\ \A e \in delivered[s] : e.seq <= stream[s].cursor
         /\ stream[s].era = era[stream[s].agg] =>
              \/ stream[s].cursor = stream[s].after
              \/ stream[s].cursor <= latest[stream[s].agg]

Due(s) == {e \in Log(stream[s].agg) :
             e.seq > stream[s].after /\ e.seq <= stream[s].cursor}

StreamInv == TypeOK /\ GaplessLog /\ CursorInv /\ StreamComplete

LEMMA StreamInit == Init => CursorInv /\ StreamComplete
BY DEF Init, CursorInv, StreamComplete

\* A step leaves a stream's position alone, or opens, reads or closes it.
LEMMA StreamSteps ==
  ASSUME TypeOK, [Next]_vars, NEW s \in Streams
  PROVE  \/ Read(s)
         \/ \E a \in Aggregates, after \in -1..MaxSeq : Open(s, a, after)
         \/ stream'[s] = Closed /\ delivered'[s] = {}
         \/ /\ stream[s] = Closed <=> stream'[s] = Closed
            /\ stream[s] # Closed =>
                 /\ stream'[s].agg = stream[s].agg
                 /\ stream'[s].after = stream[s].after
                 /\ stream'[s].cursor = stream[s].cursor
                 /\ stream'[s].era = stream[s].era
            /\ delivered'[s] = delivered[s]
<1> DEFINE Kept == /\ stream[s] = Closed <=> stream'[s] = Closed
                   /\ stream[s] # Closed =>
                        /\ stream'[s].agg = stream[s].agg
                        /\ stream'[s].after = stream[s].after
                        /\ stream'[s].cursor = stream[s].cursor
                        /\ stream'[s].era = stream[s].era
                   /\ delivered'[s] = delivered[s]
<1>1. stream' = stream /\ delivered' = delivered => Kept
  OBVIOUS
<1>2. ASSUME NEW f \in Fibers,
             \/ Writing(f) \/ WakeStreams(f) \/ Notify(f) \/ InterruptBeforeNotify(f)
             \/ \E e \in events, o \in Owners : ReplayStale(f, e, o)
      PROVE  Kept
  BY <1>1, <1>2 DEF Writing, Publish, ReplayNew, Commit, WakeStreams, Notify,
     InterruptBeforeNotify, ReplayStale, streams
<1>3. Administration => Kept
  BY <1>1 DEF Administration, Remove, Claim, streams
<1>4. UNCHANGED vars => Kept
  BY <1>1 DEF vars, streams
<1>5. ASSUME NEW r \in Streams, r # s,
             \/ \E a \in Aggregates, after \in -1..MaxSeq : Open(r, a, after)
             \/ Read(r) \/ Close(r)
      PROVE  Kept
  BY <1>5, ReadReachesLatest DEF Open, Read, Close, TypeOK
<1>6. ASSUME NEW r \in Streams, TakeWake(r) PROVE Kept
  <2>1. stream[r] \in OpenStream
    BY <1>6, OpenedStream DEF TakeWake
  <2>2. stream' = [stream EXCEPT ![r] = [stream[r] EXCEPT !.at = "reading"]]
        /\ delivered' = delivered
    BY <1>6, <2>1 DEF TakeWake, TypeOK
  <2>3. [stream[r] EXCEPT !.at = "reading"] # Closed
    BY <2>1 DEF OpenStream, Closed
  <2>4. stream'[r].agg = stream[r].agg /\ stream'[r].after = stream[r].after
        /\ stream'[r].cursor = stream[r].cursor /\ stream'[r].era = stream[r].era
        /\ stream'[r] # Closed /\ stream[r] # Closed
    BY <1>6, <2>1, <2>2, <2>3 DEF TakeWake, TypeOK, OpenStream
  <2>5. r # s => stream'[s] = stream[s]
    BY <2>2 DEF TypeOK
  <2> QED
    BY <2>2, <2>4, <2>5
<1>7. Close(s) => stream'[s] = Closed /\ delivered'[s] = {}
  BY DEF Close, TypeOK
<1> QED
  BY <1>2, <1>3, <1>4, <1>5, <1>6, <1>7 DEF Next

LEMMA StreamStep == StreamInv /\ [Next]_vars => CursorInv' /\ StreamComplete'
<1> SUFFICES ASSUME StreamInv, [Next]_vars, NEW s \in Streams
             PROVE  /\ stream'[s] = Closed => delivered'[s] = {}
                    /\ stream'[s] # Closed =>
                         /\ stream'[s].era <= era'[stream'[s].agg]
                         /\ stream'[s].after <= stream'[s].cursor
                         /\ \A e \in delivered'[s] : e.seq <= stream'[s].cursor
                         /\ stream'[s].era = era'[stream'[s].agg] =>
                              /\ \/ stream'[s].cursor = stream'[s].after
                                 \/ stream'[s].cursor <= latest'[stream'[s].agg]
                              /\ delivered'[s] = Due(s)'
  BY DEF CursorInv, StreamComplete, Due
<1> USE DEF StreamInv
<1>1. CASE Read(s)
  <2>1. stream[s] \in OpenStream
    BY <1>1, OpenedStream DEF Read
  <2> PICK a \in Aggregates : a = stream[s].agg
    BY <2>1 DEF OpenStream
  <2>2. UNCHANGED <<latest, events, era>>
    BY <1>1 DEF Read, tables
  <2>3. /\ stream'[s].agg = a /\ stream'[s].after = stream[s].after
        /\ stream'[s].era = stream[s].era
        /\ stream'[s].cursor >= stream[s].cursor
        /\ latest[a] <= stream'[s].cursor
        /\ stream'[s].cursor = stream[s].cursor \/ stream'[s].cursor <= latest[a]
        /\ stream'[s] # Closed
    BY <1>1, ReadReachesLatest
  <2>4. stream'[s].cursor \in -1..MaxSeq /\ stream[s].cursor \in -1..MaxSeq
        /\ stream[s].after \in -1..MaxSeq /\ latest[a] \in -1..MaxSeq
    BY <2>1, <2>3, TypeStep, OpenedStream DEF TypeOK, OpenStream
  <2>5. delivered'[s] = delivered[s] \cup Unread(s)
    BY <1>1 DEF Read, TypeOK
  <2>6. \A e \in Unread(s) : e \in Log(a) /\ e.seq <= latest[a] /\ e.seq \in 0..MaxSeq
    BY <2>1, BelowLatest DEF Unread, Log
  <2>7. stream[s] # Closed
    BY <1>1 DEF Read
  <2>8. \A e \in delivered[s] : e.seq <= stream[s].cursor /\ e.seq \in 0..MaxSeq
    BY <2>7 DEF CursorInv, TypeOK, Row
  <2>9. \A e \in delivered'[s] : e.seq <= stream'[s].cursor
    BY <2>3, <2>4, <2>5, <2>6, <2>8
  <2>10. ASSUME stream[s].era = era[a] PROVE delivered'[s] = Due(s)'
    <3>1. delivered[s] = Due(s)
      BY <2>7, <2>10 DEF StreamComplete, Due
    <3>2. Log(a)' = Log(a)
      BY <2>2 DEF Log
    <3>3. stream[s].after <= stream[s].cursor
      BY <2>7 DEF CursorInv
    <3>4. \A e \in Log(a) : e.seq <= latest[a] /\ e.seq \in 0..MaxSeq
      BY <2>1, BelowLatest
    <3>5. \A e \in Log(a) : e \in Unread(s) <=> e.seq > stream[s].cursor
      BY DEF Unread, Log
    <3>6. Due(s)' = {e \in Log(a) : e.seq > stream[s].after
                                    /\ e.seq <= stream'[s].cursor}
      BY <2>3, <3>2 DEF Due
    <3> QED
      BY <2>3, <2>4, <2>5, <2>6, <3>1, <3>3, <3>4, <3>5, <3>6 DEF Due
  <2> QED
    BY <2>2, <2>3, <2>4, <2>7, <2>9, <2>10 DEF CursorInv
<1>2. CASE \E a \in Aggregates, after \in -1..MaxSeq : Open(s, a, after)
  <2> PICK a \in Aggregates, after \in -1..MaxSeq : Open(s, a, after)
    BY <1>2
  <2>1. stream'[s] = [at |-> "replaying", agg |-> a, after |-> after,
                      cursor |-> after, era |-> era[a]]
    BY DEF Open, Start, TypeOK
  <2>2. delivered'[s] = {} /\ era' = era /\ events' = events
    BY DEF Open, tables, CursorInv
  <2>3. era[a] \in 0..MaxEra
    BY DEF TypeOK
  <2>4. Due(s)' = {}
    <3>1. \A e \in Log(a)' : e.seq \in 0..MaxSeq
      BY <2>2 DEF Log, TypeOK, Row
    <3> QED
      BY <2>1, <3>1 DEF Due
  <2>5. stream'[s].era <= era'[stream'[s].agg] /\ stream'[s].after <= stream'[s].cursor
        /\ stream'[s].cursor = stream'[s].after
    BY <2>1, <2>2, <2>3
  <2> QED
    BY <2>2, <2>4, <2>5
<1>3. CASE stream'[s] = Closed /\ delivered'[s] = {}
  BY <1>3
<1>4. CASE /\ stream[s] = Closed <=> stream'[s] = Closed
           /\ stream[s] # Closed =>
                /\ stream'[s].agg = stream[s].agg
                /\ stream'[s].after = stream[s].after
                /\ stream'[s].cursor = stream[s].cursor
                /\ stream'[s].era = stream[s].era
           /\ delivered'[s] = delivered[s]
  <2>1. CASE stream[s] = Closed
    BY <1>4, <2>1 DEF CursorInv
  <2>2. CASE stream[s] # Closed
    <3>1. stream[s] \in OpenStream
      BY <2>2, OpenedStream
    <3> PICK a \in Aggregates : a = stream[s].agg
      BY <3>1 DEF OpenStream
    <3>2. /\ stream'[s] # Closed
          /\ stream'[s].agg = a /\ stream'[s].after = stream[s].after
          /\ stream'[s].cursor = stream[s].cursor
          /\ stream'[s].era = stream[s].era /\ delivered'[s] = delivered[s]
      BY <1>4, <2>2
    <3>3. /\ stream[s].era <= era[a] /\ stream[s].after <= stream[s].cursor
          /\ \A e \in delivered[s] : e.seq <= stream[s].cursor
          /\ stream[s].era = era[a] =>
               /\ stream[s].cursor = stream[s].after \/ stream[s].cursor <= latest[a]
               /\ delivered[s] = Due(s)
      BY <2>2 DEF CursorInv, StreamComplete, Due
    <3>4. stream[s].era \in 0..MaxEra /\ era[a] \in 0..MaxEra
          /\ latest[a] \in -1..MaxSeq /\ stream[s].cursor \in -1..MaxSeq
          /\ stream[s].after \in -1..MaxSeq
      BY <3>1 DEF OpenStream, TypeOK
    <3>5. CASE \E f \in Fibers, b \in Aggregates : Committed(f, b)
      <4> PICK f \in Fibers, b \in Aggregates : Committed(f, b)
        BY <3>5
      <4>1. PICK row \in Row :
              /\ row.agg = b /\ row.seq = latest[b] + 1
              /\ events' = events \cup {row}
              /\ latest' = [latest EXCEPT ![b] = latest[b] + 1]
              /\ UNCHANGED <<streams, heard, era>>
        BY CommitRow
      <4>2. latest'[a] >= latest[a]
        BY <3>1, <3>4, <4>1 DEF TypeOK
      <4>3. Log(a)' = Log(a) \/ (b = a /\ Log(a)' = Log(a) \cup {row})
        BY <4>1 DEF Log
      <4>4. b = a /\ stream[s].era = era[a] =>
              ~ (row.seq > stream[s].after /\ row.seq <= stream[s].cursor)
        BY <3>3, <3>4, <4>1
      <4>5. Due(s)' = {e \in Log(a)' : e.seq > stream[s].after
                                       /\ e.seq <= stream[s].cursor}
        BY <3>2 DEF Due
      <4>6. stream[s].era = era[a] => Due(s)' = Due(s)
        BY <4>3, <4>4, <4>5 DEF Due
      <4>7. latest'[a] \in Int
        BY <3>1, TypeStep DEF TypeOK
      <4> QED
        BY <3>2, <3>3, <3>4, <4>1, <4>2, <4>6, <4>7
    <3>6. CASE \E b \in Aggregates : Remove(b)
      <4> PICK b \in Aggregates : Remove(b)
        BY <3>6
      <4>1. CASE b = a
        <5>1. era'[a] = era[a] + 1
          BY <3>1, <4>1 DEF Remove, TypeOK
        <5> QED
          BY <2>2, <3>2, <3>3, <3>4, <5>1
      <4>2. CASE b # a
        <5>1. era'[a] = era[a] /\ latest'[a] = latest[a] /\ Log(a)' = Log(a)
          BY <4>2 DEF Remove, TypeOK, Log
        <5>2. Due(s)' = Due(s)
          BY <3>2, <5>1 DEF Due
        <5> QED
          BY <2>2, <3>2, <3>3, <5>1, <5>2
      <4> QED
        BY <4>1, <4>2
    <3>7. CASE UNCHANGED <<latest, events, era>>
      <4>1. Due(s)' = Due(s)
        BY <3>2, <3>7 DEF Due, Log
      <4> QED
        BY <2>2, <3>2, <3>3, <3>7, <4>1
    <3> QED
      BY <3>5, <3>6, <3>7, LogSteps
  <2> QED
    BY <2>1, <2>2
<1> QED
  BY <1>1, <1>2, <1>3, <1>4, StreamSteps

LEMMA StreamInvariant == Spec => []StreamInv
<1>1. Init => StreamInv
  BY TypeInit, GaplessInit, StreamInit DEF StreamInv
<1>2. StreamInv /\ [Next]_vars => StreamInv'
  BY TypeStep, GaplessStep, StreamStep DEF StreamInv
<1> QED
  BY <1>1, <1>2, PTL DEF Spec

\* A stream has emitted every row between its start and its cursor, and no
\* other, whatever commits ran between its registration, reads and waits.
THEOREM Complete == Spec => []StreamComplete
<1>1. StreamInv => StreamComplete
  BY DEF StreamInv
<1> QED
  BY <1>1, StreamInvariant, PTL

\* No read emits a row a second time, also of a log removed and started again.
THEOREM NoRedelivery == Spec => NeverRedelivers
<1>1. StreamInv => \A s \in Streams : Read(s) => Unread(s) \cap delivered[s] = {}
  <2> SUFFICES ASSUME StreamInv, NEW s \in Streams, Read(s),
                      NEW e \in Unread(s) \cap delivered[s]
               PROVE  FALSE
    OBVIOUS
  <2>1. e.seq <= stream[s].cursor
    BY DEF StreamInv, CursorInv, Read
  <2>2. e.seq > stream[s].cursor /\ e.seq \in 0..MaxSeq
    BY DEF Unread, StreamInv, TypeOK, Row
  <2>3. stream[s].cursor \in -1..MaxSeq
    BY OpenedStream DEF Read, StreamInv, OpenStream
  <2> QED
    BY <2>1, <2>2, <2>3
<1>2. StreamInv /\ [Next]_vars =>
        [\A s \in Streams : Read(s) => Unread(s) \cap delivered[s] = {}]_vars
  BY <1>1
<1> QED
  BY <1>2, StreamInvariant, PTL DEF Spec, NeverRedelivers

-----------------------------------------------------------------------------
(***************************************************************************)
(* What listeners are told.  A row is told by the one fiber that committed *)
(* it, and a row that is committed now was never told before.              *)
(***************************************************************************)
Stored(e) == \/ e.era < era[e.agg]
             \/ e.era = era[e.agg] /\ e.seq <= latest[e.agg]

ToldInv ==
  /\ \A e \in heard : Stored(e)
  /\ \A f \in Fibers : fiber[f] # Idle =>
       Stored(fiber[f].row) /\ fiber[f].row \notin heard
  /\ \A f, g \in Fibers : f # g /\ fiber[f] # Idle /\ fiber[g] # Idle =>
       fiber[f].row # fiber[g].row

LEMMA ToldStep == TypeOK /\ ToldInv /\ [Next]_vars => ToldInv'
<1> SUFFICES ASSUME TypeOK, ToldInv, [Next]_vars PROVE ToldInv'
  OBVIOUS
<1>0. \A e \in Row : Stored(e) => Stored(e)'
  <2> SUFFICES ASSUME NEW e \in Row, Stored(e) PROVE Stored(e)'
    OBVIOUS
  <2>1. e.agg \in Aggregates /\ e.seq \in 0..MaxSeq /\ e.era \in 0..MaxEra
        /\ era[e.agg] \in 0..MaxEra /\ latest[e.agg] \in -1..MaxSeq
    BY DEF Row, TypeOK
  <2>2. ASSUME NEW f \in Fibers, NEW a \in Aggregates, Committed(f, a)
        PROVE  Stored(e)'
    <3>1. latest' = [latest EXCEPT ![a] = latest[a] + 1] /\ era' = era
      BY <2>2, CommitRow
    <3>2. latest'[e.agg] = latest[e.agg] \/ latest'[e.agg] = latest[e.agg] + 1
      BY <2>1, <3>1 DEF TypeOK
    <3> QED
      BY <2>1, <3>1, <3>2 DEF Stored
  <2>3. ASSUME NEW a \in Aggregates, Remove(a) PROVE Stored(e)'
    <3>1. CASE a = e.agg
      BY <2>1, <2>3, <3>1 DEF Remove, Stored, TypeOK
    <3>2. CASE a # e.agg
      BY <2>1, <2>3, <3>2 DEF Remove, Stored, TypeOK
    <3> QED
      BY <3>1, <3>2
  <2> QED
    BY <2>2, <2>3, LogSteps DEF Stored
<1>1. heard \subseteq Row /\ \A f \in Fibers : fiber[f] # Idle => fiber[f].row \in Row
  BY DEF TypeOK
<1>2. ASSUME NEW f \in Fibers, NEW a \in Aggregates, Committed(f, a)
      PROVE  ToldInv'
  <2>1. PICK row \in Row :
          /\ row.agg = a /\ row.seq = latest[a] + 1 /\ row.era = era[a]
          /\ latest' = [latest EXCEPT ![a] = latest[a] + 1]
          /\ \E tell \in BOOLEAN : fiber' = [fiber EXCEPT ![f] =
               [at |-> "waking", row |-> row, tell |-> tell]]
          /\ heard' = heard /\ era' = era
    BY <1>2, CommitRow
  <2>2. latest[a] \in -1..MaxSeq /\ era[a] \in 0..MaxEra
    BY DEF TypeOK
  <2>3. ~ Stored(row)
    BY <2>1, <2>2 DEF Stored
  <2>4. Stored(row)'
    BY <2>1, <2>2 DEF Stored, TypeOK
  <2>5. fiber'[f].row = row /\ \A g \in Fibers \ {f} : fiber'[g] = fiber[g]
    BY <2>1 DEF TypeOK
  <2>6. row \notin heard /\ \A g \in Fibers : fiber[g] # Idle => fiber[g].row # row
    BY <2>3 DEF ToldInv
  <2>7. \A e \in heard' : Stored(e)'
    BY <1>0, <1>1, <2>1 DEF ToldInv
  <2>8. \A g \in Fibers :
          (fiber[g] # Idle => Stored(fiber[g].row) /\ fiber[g].row \notin heard)'
    BY <1>0, <1>1, <2>1, <2>4, <2>5, <2>6 DEF ToldInv, Stored
  <2>9. \A g, h \in Fibers : g # h /\ fiber'[g] # Idle /\ fiber'[h] # Idle =>
          fiber'[g].row # fiber'[h].row
    BY <2>5, <2>6 DEF ToldInv
  <2> QED
    BY <2>7, <2>8, <2>9, Zenon DEF ToldInv
<1>3. ASSUME heard' = heard,
             \A g \in Fibers : fiber'[g] # Idle =>
               fiber[g] # Idle /\ fiber'[g].row = fiber[g].row
      PROVE  ToldInv'
  <2>1. \A e \in heard' : Stored(e)'
    BY <1>0, <1>1, <1>3 DEF ToldInv
  <2>2. \A g \in Fibers :
          (fiber[g] # Idle => Stored(fiber[g].row) /\ fiber[g].row \notin heard)'
    BY <1>0, <1>1, <1>3 DEF ToldInv, Stored
  <2>3. \A g, h \in Fibers : g # h /\ fiber'[g] # Idle /\ fiber'[h] # Idle =>
          fiber'[g].row # fiber'[h].row
    BY <1>3 DEF ToldInv
  <2> QED
    BY <2>1, <2>2, <2>3, Zenon DEF ToldInv
<1>4. ASSUME NEW f \in Fibers, WakeStreams(f) PROVE ToldInv'
  <2>1. fiber[f] \in [at : {"waking", "notifying"}, row : Row, tell : BOOLEAN]
        /\ fiber[f] # Idle
    BY <1>4, BusyFiber DEF WakeStreams, Idle
  <2>2. heard' = heard /\ \A g \in Fibers : fiber'[g] # Idle =>
          fiber[g] # Idle /\ fiber'[g].row = fiber[g].row
    BY <1>4, <2>1 DEF WakeStreams, TypeOK
  <2> QED
    BY <1>3, <2>2
<1>5. ASSUME NEW f \in Fibers, InterruptBeforeNotify(f) PROVE ToldInv'
  BY <1>3, <1>5 DEF InterruptBeforeNotify, TypeOK
<1>6. ASSUME NEW f \in Fibers, Notify(f) PROVE ToldInv'
  <2>1. fiber[f] # Idle /\ heard' = heard \cup {fiber[f].row}
        /\ fiber' = [fiber EXCEPT ![f] = Idle]
    BY <1>6 DEF Notify, Idle
  <2>2. \A g \in Fibers : fiber'[g] # Idle => g # f /\ fiber'[g] = fiber[g]
    BY <2>1 DEF TypeOK
  <2>3. \A e \in heard' : Stored(e)'
    BY <1>0, <1>1, <2>1 DEF ToldInv
  <2>4. \A g \in Fibers :
          (fiber[g] # Idle => Stored(fiber[g].row) /\ fiber[g].row \notin heard)'
    BY <1>0, <1>1, <2>1, <2>2 DEF ToldInv, Stored
  <2>5. \A g, h \in Fibers : g # h /\ fiber'[g] # Idle /\ fiber'[h] # Idle =>
          fiber'[g].row # fiber'[h].row
    BY <2>2 DEF ToldInv
  <2> QED
    BY <2>3, <2>4, <2>5, Zenon DEF ToldInv
<1>7. ASSUME NEW f \in Fibers, NEW e \in events, NEW o \in Owners, ReplayStale(f, e, o)
      PROVE  ToldInv'
  BY <1>3, <1>7 DEF ReplayStale, StaleDone
<1>8. Administration => ToldInv'
  BY <1>3 DEF Administration, Remove, Claim
<1>9. ASSUME NEW s \in Streams,
             \/ \E a \in Aggregates, after \in -1..MaxSeq : Open(s, a, after)
             \/ Read(s) \/ TakeWake(s) \/ Close(s)
      PROVE  ToldInv'
  BY <1>3, <1>9 DEF Open, Read, TakeWake, Close
<1>10. UNCHANGED vars => ToldInv'
  BY <1>3 DEF vars
<1> QED
  BY <1>2, <1>4, <1>5, <1>6, <1>7, <1>8, <1>9, <1>10, WriteIsCommit
  DEF Next, Committed

\* Listeners are told of a row at most once, in any mixture of publishes,
\* repeated replays, interrupts and removals.
THEOREM ToldOnce == Spec => NeverRetold
<1>1. Init => ToldInv
  BY DEF Init, ToldInv
<1>2. TypeOK /\ ToldInv /\ [Next]_vars =>
        [\A f \in Fibers : Notify(f) => fiber[f].row \notin heard]_vars
  BY DEF ToldInv, Notify, Idle
<1> QED
  BY <1>1, <1>2, ToldStep, TypeInit, TypeStep, PTL DEF Spec, NeverRetold

-----------------------------------------------------------------------------
(***************************************************************************)
(* EventLog implements AppendOnlyLog.                                      *)
(***************************************************************************)
\* In a set of rows where a position determines the row, the entry at a
\* position is the row that lies there.
LEMMA EntryAt ==
  ASSUME NEW E, NEW a, NEW q, NEW e \in E, e.agg = a, e.seq = q,
         \A c, d \in E : c.agg = d.agg /\ c.seq = d.seq => c = d
  PROVE  (CHOOSE d \in E : d.agg = a /\ d.seq = q) = e
OBVIOUS

\* LogOf, position by position.
LEMMA LogEntries ==
  ASSUME TypeOK, GaplessLog, NEW a \in Aggregates
  PROVE  /\ LogOf[a] \in Seq(Ids) /\ Len(LogOf[a]) = latest[a] + 1
         /\ \A n \in 1..(latest[a] + 1) :
              \E e \in Log(a) : e.seq = n - 1 /\ LogOf[a][n] = e.id
<1>1. latest[a] \in Int /\ latest[a] + 1 \in Nat
  BY DEF TypeOK
<1>2. LogOf[a] = [n \in 1..(latest[a] + 1) |->
                    (CHOOSE e \in events : e.agg = a /\ e.seq = n - 1).id]
  BY DEF LogOf
<1>3. \A n \in 1..(latest[a] + 1) :
        \E e \in Log(a) : e.seq = n - 1 /\ LogOf[a][n] = e.id
  <2> SUFFICES ASSUME NEW n \in 1..(latest[a] + 1)
               PROVE  \E e \in Log(a) : e.seq = n - 1 /\ LogOf[a][n] = e.id
    OBVIOUS
  <2>1. n - 1 \in {e.seq : e \in Log(a)}
    <3>1. n - 1 \in 0..latest[a]
      BY <1>1
    <3> QED
      BY <3>1 DEF GaplessLog
  <2>2. PICK e \in Log(a) : e.seq = n - 1
    BY <2>1
  <2>3. e \in events /\ e.agg = a
    BY DEF Log
  <2>4. (CHOOSE d \in events : d.agg = a /\ d.seq = n - 1) = e
    BY <2>2, <2>3, EntryAt DEF GaplessLog
  <2> QED
    BY <1>2, <2>2, <2>4
<1>4. \A n \in 1..(latest[a] + 1) : LogOf[a][n] \in Ids
  BY <1>3 DEF Log, TypeOK, Row
<1>5. PICK m \in Nat : m = latest[a] + 1
  BY <1>1
<1>6. LogOf[a] = [n \in 1..m |-> LogOf[a][n]]
  BY <1>2, <1>5
<1>7. LogOf[a] \in [1..m -> Ids]
  BY <1>4, <1>5, <1>6
<1>8. LogOf[a] \in Seq(Ids) /\ Len(LogOf[a]) = m
  BY <1>7
<1> QED
  BY <1>3, <1>5, <1>8

LEMMA RefineInit == Init => Promise!Init
<1> SUFFICES ASSUME Init PROVE Promise!Init
  OBVIOUS
<1>1. LogOf = [a \in Aggregates |-> <<>>]
  BY DEF Init, LogOf
<1>2. ReaderOf = [s \in Streams |-> <<>>]
  BY DEF Init, ReaderOf
<1> QED
  BY <1>1, <1>2 DEF Promise!Init

LEMMA CommitExtends ==
  ASSUME TypeOK, GaplessLog, [Next]_vars, NEW f \in Fibers, NEW a \in Aggregates,
         Committed(f, a)
  PROVE  \E id \in Ids : Promise!Extend(a, id)
<1>1. PICK row \in Row :
        /\ row.agg = a /\ row.seq = latest[a] + 1
        /\ \A e \in events : e.id # row.id
        /\ events' = events \cup {row}
        /\ latest' = [latest EXCEPT ![a] = latest[a] + 1]
        /\ stream' = stream
  BY CommitRow DEF streams
<1>2. TypeOK' /\ GaplessLog'
  BY TypeStep, GaplessStep
<1>3. ReaderOf' = ReaderOf
  BY <1>1 DEF ReaderOf
<1>4. row.id \in Ids /\ latest[a] + 1 \in Nat /\ latest[a] \in Int
  BY DEF Row, TypeOK
<1>5. \A b \in Aggregates : \A n \in 1..Len(LogOf[b]) : LogOf[b][n] # row.id
  BY <1>1, LogEntries DEF Log
<1>6. ASSUME NEW b \in Aggregates, NEW n \in 1..(latest[b] + 1)
      PROVE  (CHOOSE e \in events' : e.agg = b /\ e.seq = n - 1).id = LogOf[b][n]
  <2>1. PICK e \in Log(b) : e.seq = n - 1 /\ LogOf[b][n] = e.id
    BY LogEntries
  <2>2. e \in events' /\ e.agg = b
    BY <1>1 DEF Log
  <2> QED
    BY <1>2, <2>1, <2>2, EntryAt DEF GaplessLog
<1>7. (CHOOSE e \in events' : e.agg = a /\ e.seq = latest[a] + 1).id = row.id
  BY <1>1, <1>2, EntryAt DEF GaplessLog
<1>8. LogOf' = [LogOf EXCEPT ![a] = Append(LogOf[a], row.id)]
  <2>1. LogOf' = [b \in Aggregates |-> [n \in 1..(latest'[b] + 1) |->
                   (CHOOSE e \in events' : e.agg = b /\ e.seq = n - 1).id]]
    BY DEF LogOf
  <2>2. ASSUME NEW b \in Aggregates, b # a PROVE LogOf'[b] = LogOf[b]
    <3>1. latest'[b] = latest[b]
      BY <1>1, <2>2 DEF TypeOK
    <3>2. LogOf[b] = [n \in 1..(latest[b] + 1) |-> LogOf[b][n]]
      BY DEF LogOf
    <3> QED
      BY <1>6, <2>1, <3>1, <3>2
  <2>3. LogOf'[a] = Append(LogOf[a], row.id)
    <3>1. latest'[a] = latest[a] + 1
      BY <1>1 DEF TypeOK
    <3>2. LogOf[a] \in Seq(Ids) /\ Len(LogOf[a]) = latest[a] + 1
      BY LogEntries
    <3>3. LogOf'[a] = [n \in 1..(latest[a] + 2) |->
            (CHOOSE e \in events' : e.agg = a /\ e.seq = n - 1).id]
      BY <1>4, <2>1, <3>1
    <3>4. \A n \in 1..(latest[a] + 2) : LogOf'[a][n] = Append(LogOf[a], row.id)[n]
      <4> SUFFICES ASSUME NEW n \in 1..(latest[a] + 2)
                   PROVE  LogOf'[a][n] = Append(LogOf[a], row.id)[n]
        OBVIOUS
      <4>1. CASE n \in 1..(latest[a] + 1)
        BY <1>4, <1>6, <3>2, <3>3, <4>1
      <4>2. CASE n = latest[a] + 2
        <5>1. n - 1 = latest[a] + 1
          BY <1>4, <4>2
        <5> QED
          BY <1>4, <1>7, <3>2, <3>3, <4>2, <5>1
      <4>3. n \in 1..(latest[a] + 1) \/ n = latest[a] + 2
        BY <1>4
      <4> QED
        BY <4>1, <4>2, <4>3
    <3>5. Append(LogOf[a], row.id) =
            [n \in 1..(latest[a] + 2) |-> Append(LogOf[a], row.id)[n]]
      <4>1. Append(LogOf[a], row.id) \in Seq(Ids)
            /\ Len(Append(LogOf[a], row.id)) = latest[a] + 2
        BY <1>4, <3>2
      <4> QED
        BY <4>1
    <3> QED
      BY <3>3, <3>4, <3>5
  <2>4. LogOf' = [b \in Aggregates |-> LogOf'[b]]
    BY <2>1
  <2>5. LogOf = [b \in Aggregates |-> LogOf[b]]
    BY DEF LogOf
  <2> QED
    BY <2>2, <2>3, <2>4, <2>5
<1> QED
  BY <1>3, <1>4, <1>5, <1>8 DEF Promise!Extend

LEMMA RemoveClears ==
  ASSUME TypeOK, GaplessLog, [Next]_vars, NEW a \in Aggregates, Remove(a)
  PROVE  Promise!Clear(a)
<1>1. latest' = [latest EXCEPT ![a] = -1] /\ events' = {e \in events : e.agg # a}
      /\ stream' = stream /\ latest[a] >= 0
  BY DEF Remove, streams
<1>2. ReaderOf' = ReaderOf
  BY <1>1 DEF ReaderOf
<1>3. LogOf[a] # <<>>
  BY <1>1, LogEntries DEF TypeOK
<1>4. GaplessLog'
  BY GaplessStep
<1>5. LogOf' = [b \in Aggregates |-> [n \in 1..(latest'[b] + 1) |->
                 (CHOOSE e \in events' : e.agg = b /\ e.seq = n - 1).id]]
  BY DEF LogOf
<1>6. LogOf'[a] = <<>>
  BY <1>1, <1>5 DEF TypeOK
<1>7. ASSUME NEW b \in Aggregates, b # a PROVE LogOf'[b] = LogOf[b]
  <2>1. latest'[b] = latest[b]
    BY <1>1, <1>7 DEF TypeOK
  <2>2. ASSUME NEW n \in 1..(latest[b] + 1)
        PROVE  (CHOOSE e \in events' : e.agg = b /\ e.seq = n - 1).id = LogOf[b][n]
    <3>1. PICK e \in Log(b) : e.seq = n - 1 /\ LogOf[b][n] = e.id
      BY LogEntries
    <3>2. e \in events' /\ e.agg = b
      BY <1>1, <1>7 DEF Log
    <3> QED
      BY <1>4, <3>1, <3>2, EntryAt DEF GaplessLog
  <2>3. LogOf[b] = [n \in 1..(latest[b] + 1) |-> LogOf[b][n]]
    BY DEF LogOf
  <2> QED
    BY <1>5, <2>1, <2>2, <2>3
<1>8. LogOf' = [LogOf EXCEPT ![a] = <<>>]
  <2>1. LogOf = [b \in Aggregates |-> LogOf[b]]
    BY DEF LogOf
  <2> QED
    BY <1>5, <1>6, <1>7, <2>1
<1> QED
  BY <1>2, <1>3, <1>8 DEF Promise!Clear

\* A stream's step, while no transaction commits.
LEMMA StreamRefines ==
  ASSUME TypeOK, GaplessLog, NEW s \in Streams,
         \/ \E a \in Aggregates, after \in -1..MaxSeq : Open(s, a, after)
         \/ Read(s) \/ TakeWake(s) \/ Close(s)
  PROVE  [Promise!Next]_(Promise!vars)
<1>1. LogOf' = LogOf
  <2>1. UNCHANGED <<latest, events>>
    BY DEF Open, Read, TakeWake, Close, tables
  <2> QED
    BY <2>1 DEF LogOf
<1> DEFINE Value(t) == IF t = Closed THEN <<>> ELSE <<t.agg, t.cursor + 1>>
<1>2. ReaderOf = [r \in Streams |-> Value(stream[r])]
      /\ ReaderOf' = [r \in Streams |-> Value(stream'[r])]
  BY DEF ReaderOf
<1>3. \A r \in Streams \ {s} : stream'[r] = stream[r]
  BY ReadReachesLatest DEF Open, TakeWake, Close, TypeOK
<1>4. ReaderOf' = [ReaderOf EXCEPT ![s] = Value(stream'[s])]
  BY <1>2, <1>3
<1>5. ASSUME NEW a \in Aggregates, NEW after \in -1..MaxSeq, Open(s, a, after)
      PROVE  Promise!Attach(s, a, after + 1)
  <2>1. stream'[s] = [at |-> "replaying", agg |-> a, after |-> after,
                      cursor |-> after, era |-> era[a]]
    BY <1>5 DEF Open, Start, TypeOK
  <2>2. Value(stream'[s]) = <<a, after + 1>>
    BY <2>1 DEF Closed
  <2>3. ReaderOf[s] = <<>>
    BY <1>2, <1>5 DEF Open
  <2> QED
    BY <1>1, <1>4, <2>2, <2>3 DEF Promise!Attach
<1>6. CASE Close(s)
  <2>1. ReaderOf[s] # <<>> /\ Value(stream'[s]) = <<>>
    BY <1>2, <1>6 DEF Close, TypeOK
  <2> QED
    BY <1>1, <1>4, <1>6, <2>1 DEF Promise!Next, Promise!Detach
<1>7. CASE TakeWake(s)
  <2>1. stream[s] \in OpenStream
    BY <1>7, OpenedStream DEF TakeWake
  <2>2. stream'[s] = [stream[s] EXCEPT !.at = "reading"]
    BY <1>7 DEF TakeWake, TypeOK
  <2>3. Value(stream'[s]) = ReaderOf[s]
    BY <1>2, <1>7, <2>1, <2>2 DEF TakeWake, OpenStream, Closed
  <2>4. ReaderOf' = ReaderOf
    BY <1>2, <1>4, <2>3
  <2> QED
    BY <1>1, <2>4 DEF Promise!vars
<1>8. CASE Read(s)
  <2>1. stream[s] \in OpenStream
    BY <1>8, OpenedStream DEF Read
  <2> PICK a \in Aggregates : a = stream[s].agg
    BY <2>1 DEF OpenStream
  <2>2. /\ stream'[s] # Closed /\ stream'[s].agg = a
        /\ stream'[s].cursor >= stream[s].cursor
        /\ latest[a] <= stream'[s].cursor
        /\ stream'[s].cursor = stream[s].cursor \/ stream'[s].cursor <= latest[a]
    BY <1>8, ReadReachesLatest
  <2>3. ReaderOf[s] = <<a, stream[s].cursor + 1>>
        /\ Value(stream'[s]) = <<a, stream'[s].cursor + 1>>
    BY <1>2, <1>8, <2>2 DEF Read
  <2>4. CASE stream'[s].cursor = stream[s].cursor
    <3>1. ReaderOf' = ReaderOf
      BY <1>2, <1>4, <2>3, <2>4
    <3> QED
      BY <1>1, <3>1 DEF Promise!vars
  <2>5. CASE stream'[s].cursor # stream[s].cursor
    <3>1. stream[s].cursor \in Int /\ latest[a] \in Int /\ stream'[s].cursor \in Int
      <4>1. \E last \in -1..MaxSeq : stream'[s].cursor = last
        <5>1. PICK last \in -1..MaxSeq : stream' = [stream EXCEPT
                ![s] = [stream[s] EXCEPT !.at = "tailing", !.cursor = last]]
          BY <1>8, ReadMoves
        <5> QED
          BY <2>1, <5>1 DEF TypeOK, OpenStream
      <4> QED
        BY <2>1, <4>1 DEF OpenStream, TypeOK
    <3>2. stream'[s].cursor = latest[a] /\ stream[s].cursor < latest[a]
      BY <2>2, <2>5, <3>1
    <3>3. Len(LogOf[a]) = latest[a] + 1
      BY LogEntries
    <3>4. ReaderOf' = [ReaderOf EXCEPT ![s] = <<a, Len(LogOf[a])>>]
      BY <1>4, <2>3, <3>2, <3>3
    <3>5. ReaderOf[s] # <<>> /\ ReaderOf[s][1] = a /\ ReaderOf[s][2] < Len(LogOf[a])
      BY <2>3, <3>1, <3>2, <3>3
    <3>6. Promise!Deliver(s)
      BY <1>1, <3>4, <3>5 DEF Promise!Deliver
    <3> QED
      BY <3>6 DEF Promise!Next
  <2> QED
    BY <2>4, <2>5
<1> QED
  BY <1>5, <1>6, <1>7, <1>8 DEF Promise!Next

LEMMA RefineStep ==
  TypeOK /\ GaplessLog /\ [Next]_vars => [Promise!Next]_(Promise!vars)
<1> SUFFICES ASSUME TypeOK, GaplessLog, [Next]_vars
             PROVE  [Promise!Next]_(Promise!vars)
  OBVIOUS
<1>1. ASSUME NEW f \in Fibers, Writing(f) PROVE Promise!Next
  <2>1. PICK a \in Aggregates : Committed(f, a)
    BY <1>1, WriteIsCommit DEF Committed
  <2> QED
    BY <2>1, CommitExtends DEF Promise!Next
<1>2. ASSUME NEW a \in Aggregates, Remove(a) PROVE Promise!Next
  BY <1>2, RemoveClears DEF Promise!Next
<1>3. ASSUME \/ \E f \in Fibers :
                  \/ WakeStreams(f)
                  \/ \E e \in events, o \in Owners : ReplayStale(f, e, o)
                  \/ Notify(f) \/ InterruptBeforeNotify(f)
             \/ \E a \in Aggregates, o \in Owners : Claim(a, o)
             \/ UNCHANGED vars
      PROVE  UNCHANGED Promise!vars
  <2>1. UNCHANGED <<latest, events, stream>>
    BY <1>3 DEF WakeStreams, ReplayStale, Notify, InterruptBeforeNotify, Claim,
                vars, tables, streams
  <2> QED
    BY <2>1 DEF Promise!vars, LogOf, ReaderOf
<1> QED
  BY <1>1, <1>2, <1>3, StreamRefines DEF Next, Administration

\* EventLog implements the append-only log with readers, whatever its sets of
\* aggregates, events, owners, fibers and streams.
THEOREM Implements == Spec => RefinesLog
BY TypeInit, TypeStep, GaplessInit, GaplessStep, RefineInit, RefineStep, PTL
DEF Spec, Promise!Spec, RefinesLog

=============================================================================
