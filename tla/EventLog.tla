------------------------------ MODULE EventLog ------------------------------
(***************************************************************************)
(* The durable event log of packages/core (EventV2):                       *)
(* src/packages/core/src/event.ts.                                         *)
(*                                                                         *)
(* An aggregate (a Session) has a row of event_sequence, with its latest   *)
(* sequence and replay owner, and its rows of event.  A publisher or a     *)
(* replayer commits one event in one immediate transaction, then wakes the *)
(* durable streams of the aggregate, then notifies the live listeners:     *)
(* three separate steps, between which other fibers run.  A durable stream *)
(* registers its wake signal, reads history, and reads again after a wake. *)
(*                                                                         *)
(* An event's type and data are its id: two events are the same iff their  *)
(* ids are.  A projector, a commit hook or a check that dies rolls the     *)
(* transaction back, which is no step.  strictOwner only turns a silent    *)
(* skip into a defect, and is not visible here.                            *)
(***************************************************************************)
EXTENDS Integers, FiniteSets

CONSTANTS
  Aggregates, Ids, Owners, Fibers, Streams,
  NoOwner,   \* owner_id is null
  Local,     \* history: the row was published here, not replayed
  NoRow,     \* a fiber that has committed nothing
  MaxSeq,    \* bound: largest sequence
  MaxEra     \* bound: how often an aggregate is removed

ASSUME LogAssumption ==
  /\ NoOwner \notin Owners /\ Local \notin Owners \cup {NoOwner}
  /\ MaxSeq \in Nat /\ MaxEra \in Nat
  /\ Aggregates # {} /\ Ids # {}

VARIABLES
  latest,     \* event_sequence.seq; -1 while there is no row
  owner,      \* event_sequence.owner_id
  events,     \* the rows of event
  fiber,      \* per fiber: the row it committed, and what is left to do
  stream,     \* per durable stream: its state, aggregate, after and cursor
  wake,       \* per durable stream: the sliding(1) wake signal is set
  delivered,  \* history: rows a stream has emitted
  heard,      \* history: rows the live listeners were told of
  era,        \* history: how often the aggregate was removed
  ownedFrom   \* history: latest when the present owner took the aggregate

tables == <<latest, owner, events, era, ownedFrom>>
streams == <<stream, wake, delivered>>
vars == <<tables, fiber, streams, heard>>

Row == [agg : Aggregates, seq : 0..MaxSeq, id : Ids,
        by : Owners \cup {NoOwner, Local}, era : 0..MaxEra]

Idle == [at |-> "idle", row |-> NoRow, tell |-> FALSE]
Closed == [at |-> "closed"]

OpenStream == [at : {"replaying", "tailing", "reading"}, agg : Aggregates,
               after : -1..MaxSeq, cursor : -1..MaxSeq, era : 0..MaxEra]

TypeOK ==
  /\ latest \in [Aggregates -> -1..MaxSeq]
  /\ owner \in [Aggregates -> Owners \cup {NoOwner}]
  /\ events \subseteq Row
  /\ fiber \in [Fibers -> {Idle} \cup
                 [at : {"waking", "notifying"}, row : Row, tell : BOOLEAN]]
  /\ stream \in [Streams -> {Closed} \cup OpenStream]
  /\ wake \in [Streams -> BOOLEAN]
  /\ delivered \in [Streams -> SUBSET Row]
  /\ heard \subseteq Row
  /\ era \in [Aggregates -> 0..MaxEra]
  /\ ownedFrom \in [Aggregates -> -1..MaxSeq]

Init ==
  /\ latest = [a \in Aggregates |-> -1]
  /\ owner = [a \in Aggregates |-> NoOwner]
  /\ events = {}
  /\ fiber = [f \in Fibers |-> Idle]
  /\ stream = [s \in Streams |-> Closed]
  /\ wake = [s \in Streams |-> FALSE]
  /\ delivered = [s \in Streams |-> {}]
  /\ heard = {}
  /\ era = [a \in Aggregates |-> 0]
  /\ ownedFrom = [a \in Aggregates |-> -1]

-----------------------------------------------------------------------------
(***************************************************************************)
(* commitDurableEvent: the transaction.                                    *)
(***************************************************************************)
\* Mutant: the id is only looked for in the aggregate's own log.
FreshInLog(a, id) == \A e \in events : e.agg = a => e.id # id
Fresh(a, id) == \A e \in events : e.id # id

\* The end of the transaction, common to publish and replay: the id must be
\* new, the sequence row is upserted and the event inserted.
Commit(f, a, seq, id, by, tell) ==
  LET row == [agg |-> a, seq |-> seq, id |-> id, by |-> by, era |-> era[a]] IN
  /\ Fresh(a, id)
  /\ latest' = [latest EXCEPT ![a] = seq]
  /\ events' = events \cup {row}
  /\ fiber' = [fiber EXCEPT ![f] = [at |-> "waking", row |-> row, tell |-> tell]]
  /\ UNCHANGED <<streams, heard, era>>

NextSeq(a) == latest[a] + 1

\* A local publish takes the next sequence and ignores the replay owner.
Publish(f, a, id) ==
  /\ fiber[f] = Idle /\ NextSeq(a) <= MaxSeq
  /\ Commit(f, a, NextSeq(a), id, Local, TRUE)
  /\ UNCHANGED <<owner, ownedFrom>>

\* The first owner that is replayed takes an unowned aggregate.
TakeUnowned(a, o) ==
  IF owner[a] = NoOwner /\ o # NoOwner
    THEN /\ owner' = [owner EXCEPT ![a] = o]
         /\ ownedFrom' = [ownedFrom EXCEPT ![a] = latest[a]]
    ELSE UNCHANGED <<owner, ownedFrom>>

\* Mutant: a replay without an owner passes the fence.
FenceOpenToNobody(a, o) == owner[a] = NoOwner \/ owner[a] = o \/ o = NoOwner
Fence(a, o) == owner[a] = NoOwner \/ owner[a] = o

\* A replay of the next event, let through by the owner fence.  Any other
\* sequence beyond latest dies, and another owner's replay is skipped.
ReplayNew(f, a, seq, id, o, tell) ==
  /\ fiber[f] = Idle /\ seq = latest[a] + 1 /\ Fence(a, o)
  /\ Commit(f, a, seq, id, o, tell)
  /\ TakeUnowned(a, o)

\* Mutant: the stale branch returns the stored row as if it had committed it.
StaleCommitted(f, e) ==
  fiber' = [fiber EXCEPT ![f] = [at |-> "waking", row |-> e, tell |-> TRUE]]
StaleDone(f, e) == fiber' = fiber

\* A stale replay of an identical event only claims an unowned aggregate; one
\* that differs from the stored row dies.
ReplayStale(f, e, o) ==
  /\ fiber[f] = Idle
  /\ TakeUnowned(e.agg, o) /\ StaleDone(f, e)
  /\ UNCHANGED <<latest, events, era, streams, heard>>

Claim(a, o) ==
  /\ latest[a] >= 0
  /\ owner' = [owner EXCEPT ![a] = o]
  /\ ownedFrom' = [ownedFrom EXCEPT ![a] = latest[a]]
  /\ UNCHANGED <<latest, events, era, fiber, streams, heard>>

Remove(a) ==
  /\ latest[a] >= 0 /\ era[a] < MaxEra
  /\ latest' = [latest EXCEPT ![a] = -1]
  /\ owner' = [owner EXCEPT ![a] = NoOwner]
  /\ ownedFrom' = [ownedFrom EXCEPT ![a] = -1]
  /\ events' = {e \in events : e.agg # a}
  /\ era' = [era EXCEPT ![a] = @ + 1]
  /\ UNCHANGED <<fiber, streams, heard>>

-----------------------------------------------------------------------------
(***************************************************************************)
(* After the transaction.                                                  *)
(***************************************************************************)
\* Mutant: the wake is part of notify, which a silent replay skips.
RegisteredIfTold(s, f) ==
  stream[s] # Closed /\ stream[s].agg = fiber[f].row.agg /\ fiber[f].tell
Registered(s, f) == stream[s] # Closed /\ stream[s].agg = fiber[f].row.agg

\* Every registered stream of the aggregate gets the (coalescing) signal; a
\* replay that does not publish ends here.
WakeStreams(f) ==
  /\ fiber[f].at = "waking"
  /\ wake' = [s \in Streams |-> wake[s] \/ Registered(s, f)]
  /\ fiber' = [fiber EXCEPT ![f] =
                 IF @.tell THEN [@ EXCEPT !.at = "notifying"] ELSE Idle]
  /\ UNCHANGED <<tables, stream, delivered, heard>>

\* The listeners, the typed and the all channel; nothing orders the
\* notifications of two fibers.
Notify(f) ==
  /\ fiber[f].at = "notifying"
  /\ heard' = heard \cup {fiber[f].row}
  /\ fiber' = [fiber EXCEPT ![f] = Idle]
  /\ UNCHANGED <<tables, streams>>

\* Only the commit and its wake are uninterruptible.
InterruptBeforeNotify(f) ==
  /\ fiber[f].at = "notifying"
  /\ fiber' = [fiber EXCEPT ![f] = Idle]
  /\ UNCHANGED <<tables, streams, heard>>

-----------------------------------------------------------------------------
(***************************************************************************)
(* durable: replay and tail.                                               *)
(***************************************************************************)
\* Mutant: the caller's after is taken for the first sequence it wants.
StartPast(after) == after + 1
Start(after) == after

\* subscribeDurable registers the signal before the first read.
Open(s, a, after) ==
  /\ stream[s] = Closed
  /\ stream' = [stream EXCEPT ![s] =
       [at |-> "replaying", agg |-> a, after |-> after,
        cursor |-> Start(after), era |-> era[a]]]
  /\ UNCHANGED <<tables, fiber, wake, delivered, heard>>

Unread(s) == {e \in events : e.agg = stream[s].agg /\ e.seq > stream[s].cursor}

\* Mutant: the cursor moves to the first row that was read.
FirstRead(s, q) == \A e \in Unread(s) : e.seq >= q
LastRead(s, q) == \A e \in Unread(s) : e.seq <= q

\* readAfter, and the cursor moves to the last row's sequence.  The query is
\* what other fibers can tell from it; the cursor is the stream's own, and a
\* wake that arrives before it moves stays set.
Read(s) ==
  /\ stream[s] # Closed /\ stream[s].at \in {"replaying", "reading"}
  /\ delivered' = [delivered EXCEPT ![s] = @ \cup Unread(s)]
  /\ \E last \in -1..MaxSeq :
       /\ IF Unread(s) = {} THEN last = stream[s].cursor
          ELSE LastRead(s, last) /\ \E e \in Unread(s) : e.seq = last
       /\ stream' = [stream EXCEPT ![s].at = "tailing", ![s].cursor = last]
  /\ UNCHANGED <<tables, fiber, wake, heard>>

TakeWake(s) ==
  /\ stream[s] # Closed /\ stream[s].at = "tailing" /\ wake[s]
  /\ wake' = [wake EXCEPT ![s] = FALSE]
  /\ stream' = [stream EXCEPT ![s].at = "reading"]
  /\ UNCHANGED <<tables, fiber, delivered, heard>>

Close(s) ==
  /\ stream[s] # Closed
  /\ stream' = [stream EXCEPT ![s] = Closed]
  /\ wake' = [wake EXCEPT ![s] = FALSE]
  /\ delivered' = [delivered EXCEPT ![s] = {}]
  /\ UNCHANGED <<tables, fiber, heard>>

-----------------------------------------------------------------------------
Writing(f) ==
  \E a \in Aggregates, id \in Ids :
    \/ Publish(f, a, id)
    \/ \E seq \in 0..MaxSeq, o \in Owners \cup {NoOwner}, tell \in BOOLEAN :
         ReplayNew(f, a, seq, id, o, tell)

Administration ==
  \E a \in Aggregates :
    \/ Remove(a)
    \/ \E o \in Owners : Claim(a, o)

Next ==
  \/ \E f \in Fibers :
       \/ Writing(f) \/ WakeStreams(f) \/ Notify(f) \/ InterruptBeforeNotify(f)
       \/ \E e \in events, o \in Owners : ReplayStale(f, e, o)
  \/ Administration
  \/ \E s \in Streams :
       \/ \E a \in Aggregates, after \in -1..MaxSeq : Open(s, a, after)
       \/ Read(s) \/ TakeWake(s) \/ Close(s)

Spec == Init /\ [][Next]_vars

\* A committed fiber is uninterruptible until it has woken the streams, and
\* a stream that can read or take its signal is scheduled.
Fairness ==
  /\ \A f \in Fibers : WF_vars(WakeStreams(f))
  /\ \A s \in Streams : WF_vars(Read(s)) /\ WF_vars(TakeWake(s))

FairSpec == Spec /\ Fairness

-----------------------------------------------------------------------------
(***************************************************************************)
(* Properties.                                                             *)
(***************************************************************************)
Log(a) == {e \in events : e.agg = a}

\* The rows of an aggregate number 0 to latest without gap or repetition,
\* whatever mixture of publishes, replays and removals produced them, and an
\* event id names one row of the whole table.
GaplessLog ==
  /\ \A a \in Aggregates : {e.seq : e \in Log(a)} = 0..latest[a]
  /\ \A d, e \in events : d.agg = e.agg /\ d.seq = e.seq => d = e
  /\ \A d, e \in events : d.id = e.id => d = e

\* Whatever entered an owned aggregate since its owner took it came from that
\* owner or was published here: a replay for another owner, or for none, is
\* fenced off, also when the two arrive before anybody owned the aggregate.
OwnedTail ==
  \A a \in Aggregates : owner[a] # NoOwner =>
    \A e \in Log(a) : e.seq > ownedFrom[a] => e.by \in {owner[a], Local}

\* A stream has emitted exactly the rows between its start and its cursor
\* (of a log that was not removed under it): no gap, nothing invented.
StreamComplete ==
  \A s \in Streams : stream[s] # Closed /\ stream[s].era = era[stream[s].agg] =>
    delivered[s] = {e \in Log(stream[s].agg) :
                      e.seq > stream[s].after /\ e.seq <= stream[s].cursor}

\* No read emits a row the stream has emitted before.
NeverRedelivers ==
  [][\A s \in Streams : Read(s) => Unread(s) \cap delivered[s] = {}]_vars

\* A waiting stream that lags behind its log has its signal set, or the fiber
\* that committed is still about to set it: registering before the first
\* read, and waking after the commit, leaves no window.
NoMissedWake ==
  \A s \in Streams : stream[s] # Closed /\ stream[s].at = "tailing"
                     /\ latest[stream[s].agg] > stream[s].cursor =>
    wake[s] \/ \E f \in Fibers : fiber[f].at = "waking"
                                 /\ fiber[f].row.agg = stream[s].agg

\* Listeners hear of a row at most once: a replay of a stored event tells
\* nobody, however often and by whomever it is repeated.
NeverRetold == [][\A f \in Fibers : Notify(f) => fiber[f].row \notin heard]_vars

-----------------------------------------------------------------------------
\* The tables and the streams as an append-only log and its readers.
LogOf == [a \in Aggregates |-> [n \in 1..(latest[a] + 1) |->
            (CHOOSE e \in events : e.agg = a /\ e.seq = n - 1).id]]
ReaderOf == [s \in Streams |-> IF stream[s] = Closed THEN <<>>
               ELSE <<stream[s].agg, stream[s].cursor + 1>>]

Promise == INSTANCE AppendOnlyLog WITH
  Logs <- Aggregates, Entries <- Ids, Readers <- Streams,
  Positions <- 0..(MaxSeq + 1), log <- LogOf, reader <- ReaderOf

\* Every transaction, replay, stale claim, wake and read of the code is a step
\* of the append-only log with readers, or changes nothing that it promises.
RefinesLog == Promise!Spec

\* And what the log owes a reader is delivered.
KeepsPromise == Promise!FairSpec
=============================================================================
