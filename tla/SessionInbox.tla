---------------------------- MODULE SessionInbox ----------------------------
(***************************************************************************)
(* The durable prompt inbox of a Session:                                  *)
(* src/packages/core/src/session/input.ts with its projectors, and         *)
(* V2Session.prompt.                                                       *)
(*                                                                         *)
(* A prompt is admitted (event PromptAdmitted, a row of session_input) and *)
(* later promoted (event Prompted: the row gets its promoted_seq and the   *)
(* user message its row in session_message, in one transaction).  Clients  *)
(* look, publish and recover in separate steps; promoters select rows and  *)
(* then publish them one by one from what they selected.                   *)
(*                                                                         *)
(* A publish is one step that takes the Session's next sequence, see       *)
(* EventLog; a projector that dies rolls it back.  time_created is the     *)
(* sequence of the admission it was read for.                              *)
(***************************************************************************)
EXTENDS Integers

CONSTANTS
  Sessions, Ids, Contents, Clients, Promoters,
  None,      \* no row
  MaxSeq     \* bound: largest sequence of a Session

VARIABLES
  seq,       \* per Session: the latest sequence of its events
  input,     \* session_input, by id
  message,   \* session_message, by id
  client,    \* per client: where its call of prompt is, and what it answered
  promoter,  \* per promoter: the selected rows it still has to publish
  reverted   \* history: ids whose row a committed revert deleted

tables == <<seq, input, message, reverted>>
vars == <<tables, client, promoter>>

Deliveries == {"steer", "queue"}
Request == [id : Ids, session : Sessions, content : Contents, delivery : Deliveries]
Input == [id : Ids, session : Sessions, content : Contents, delivery : Deliveries,
          admitted : 0..MaxSeq, promoted : -1..MaxSeq, created : 0..MaxSeq]
Message == [session : Sessions, seq : 0..MaxSeq, type : {"user", "other"}]

ASSUME InboxAssumption == MaxSeq \in Nat /\ None \notin Input \cup Message

Idle == [at |-> "idle"]
Refused == -1

\* Types, the key of a row, and that no row is ahead of its Session's events.
TypeOK ==
  /\ seq \in [Sessions -> -1..MaxSeq]
  /\ input \in [Ids -> Input \cup {None}]
  /\ \A i \in Ids : input[i] # None =>
       input[i].id = i /\ input[i].admitted <= seq[input[i].session]
  /\ \A i \in Ids : message[i] # None => message[i].seq <= seq[message[i].session]
  /\ message \in [Ids -> Message \cup {None}]
  /\ client \in [Clients -> {Idle} \cup
       [at : {"publishing", "recovering"}, req : Request] \cup
       [at : {"done"}, req : Request, answer : -1..MaxSeq]]
  /\ promoter \in [Promoters -> SUBSET Input]
  /\ reverted \subseteq Ids

Init ==
  /\ seq = [s \in Sessions |-> -1]
  /\ input = [i \in Ids |-> None]
  /\ message = [i \in Ids |-> None]
  /\ client = [c \in Clients |-> Idle]
  /\ promoter = [p \in Promoters |-> {}]
  /\ reverted = {}

\* Every durable event takes the next sequence.
Advance(s) == seq[s] < MaxSeq /\ seq' = [seq EXCEPT ![s] = @ + 1]

-----------------------------------------------------------------------------
(***************************************************************************)
(* Admission.                                                              *)
(***************************************************************************)
\* Mutant: a reused id is compared by Session and delivery only.
EquivalentShape(row, req) == row.session = req.session /\ row.delivery = req.delivery
Equivalent(row, req) ==
  row.session = req.session /\ row.content = req.content /\ row.delivery = req.delivery

Answer(c, req, n) == client' = [client EXCEPT ![c] = [at |-> "done", req |-> req, answer |-> n]]

\* The receipt of the stored row, or PromptConflictError.
AnswerWith(c, req, row) ==
  Answer(c, req, IF Equivalent(row, req) THEN row.admitted ELSE Refused)

\* prompt calls admit, whose first step is find.
Prompt(c, req) ==
  /\ client[c].at \in {"idle", "done"}
  /\ IF input[req.id] # None THEN AnswerWith(c, req, input[req.id])
     ELSE client' = [client EXCEPT ![c] = [at |-> "publishing", req |-> req]]
  /\ UNCHANGED <<tables, promoter>>

Free(id) == input[id] = None /\ message[id] = None

\* The PromptAdmitted transaction; projectAdmitted dies on a used id.
PublishAdmitted(c) ==
  /\ client[c].at = "publishing"
  /\ LET req == client[c].req
         n == seq[req.session] + 1 IN
       IF Free(req.id)
         THEN /\ Advance(req.session)
              /\ input' = [input EXCEPT ![req.id] =
                   [id |-> req.id, session |-> req.session, content |-> req.content,
                    delivery |-> req.delivery, admitted |-> n, promoted |-> -1,
                    created |-> n]]
              /\ Answer(c, req, n)
              /\ UNCHANGED <<message, reverted, promoter>>
         ELSE /\ client' = [client EXCEPT ![c].at = "recovering"]
              /\ UNCHANGED <<tables, promoter>>

\* Mutant: a lost race is answered as a conflict.
FoundNothing(id) == FALSE
Found(id) == input[id] # None

\* admit's catchDefect finds the row again, or lets the conflict through.
Recover(c) ==
  /\ client[c].at = "recovering"
  /\ LET req == client[c].req IN
       IF Found(req.id) THEN AnswerWith(c, req, input[req.id])
       ELSE Answer(c, req, Refused)
  /\ UNCHANGED <<tables, promoter>>

-----------------------------------------------------------------------------
(***************************************************************************)
(* Promotion.                                                              *)
(***************************************************************************)
Pending(s, d) ==
  {input[i] : i \in {j \in Ids : /\ input[j] # None /\ input[j].promoted = -1
                                 /\ input[j].session = s /\ input[j].delivery = d}}

\* Mutant: the last row in admission order.
Last(rows) == {r \in rows : \A o \in rows : o.admitted <= r.admitted}
\* The first row in admission order, or nothing.
First(rows) == {r \in rows : \A o \in rows : r.admitted <= o.admitted}

\* promoteSteers: all steers up to a cutoff that was read earlier.
SelectSteers(p, s, cutoff) ==
  /\ promoter[p] = {}
  /\ promoter' = [promoter EXCEPT ![p] = {r \in Pending(s, "steer") : r.admitted <= cutoff}]
  /\ UNCHANGED <<tables, client>>

\* promoteNextQueued.
SelectQueued(p, s) ==
  /\ promoter[p] = {}
  /\ promoter' = [promoter EXCEPT ![p] = First(Pending(s, "queue"))]
  /\ UNCHANGED <<tables, client>>

\* The transaction of Prompted for the selected row r: the row is marked and
\* the message appears.
Show(r, row) ==
  LET n == seq[r.session] + 1 IN
  /\ Advance(r.session)
  /\ input' = [input EXCEPT ![r.id] = [row EXCEPT !.promoted = n]]
  /\ message' = [message EXCEPT ![r.id] =
                   [session |-> r.session, seq |-> n, type |-> "user"]]
  /\ UNCHANGED <<reverted, client>>

SameAdmission(row, r) == Equivalent(row, r) /\ row.created = r.created

Drop(p, r) == promoter' = [promoter EXCEPT ![p] = @ \ {r}]

\* projectPrompted finds the row pending and unchanged.
PublishPending(p, r) ==
  /\ input[r.id] # None /\ message[r.id] = None
  /\ input[r.id].promoted = -1 /\ SameAdmission(input[r.id], r)
  /\ Show(r, input[r.id]) /\ Drop(p, r)

\* It finds no row, a revert took it after it was selected, and inserts one.
PublishMissing(p, r) ==
  /\ input[r.id] = None /\ message[r.id] = None
  /\ Show(r, [r EXCEPT !.admitted = seq[r.session] + 1]) /\ Drop(p, r)

\* Another promoter was first: the LifecycleConflict is swallowed.
SkipPromoted(p, r) ==
  /\ input[r.id] # None /\ input[r.id].promoted # -1
  /\ Drop(p, r) /\ UNCHANGED <<tables, client>>

\* The id was admitted anew or belongs to another message by now: the defect
\* ends the promotion.
Collide(p, r) ==
  /\ \/ input[r.id] # None /\ input[r.id].promoted = -1 /\ ~ SameAdmission(input[r.id], r)
     \/ input[r.id] = None /\ message[r.id] # None
  /\ promoter' = [promoter EXCEPT ![p] = {}]
  /\ UNCHANGED <<tables, client>>

Publish(p) ==
  \E r \in First(promoter[p]) :
    PublishPending(p, r) \/ PublishMissing(p, r) \/ SkipPromoted(p, r) \/ Collide(p, r)

-----------------------------------------------------------------------------
(***************************************************************************)
(* The rest of the Session.                                                *)
(***************************************************************************)
\* Any other message, with a generated id.
AppendOther(s, i) ==
  /\ input[i] = None /\ message[i] = None /\ Advance(s)
  /\ message' = [message EXCEPT ![i] =
                   [session |-> s, seq |-> seq[s] + 1, type |-> "other"]]
  /\ UNCHANGED <<input, reverted, client, promoter>>

\* Mutant: the inputs are deleted by their admission alone.
AdmittedAfter(row, b) == row.admitted > b
UndoneAfter(row, b) == row.admitted > b \/ row.promoted > b

\* RevertEvent.Committed back to message i.
CommitRevert(s, i) ==
  /\ message[i] # None /\ message[i].session = s /\ Advance(s)
  /\ LET b == message[i].seq
         undone == {j \in Ids : input[j] # None /\ input[j].session = s
                                /\ UndoneAfter(input[j], b)}
         hidden == {j \in Ids : message[j] # None /\ message[j].session = s
                                /\ message[j].seq > b} IN
       /\ input' = [j \in Ids |-> IF j \in undone THEN None ELSE input[j]]
       /\ message' = [j \in Ids |-> IF j \in hidden THEN None ELSE message[j]]
       /\ reverted' = reverted \cup undone \cup hidden
  /\ UNCHANGED <<client, promoter>>

\* A promoter is interrupted between two publishes; the process dies.
Interrupt(p) ==
  /\ promoter[p] # {}
  /\ promoter' = [promoter EXCEPT ![p] = {}]
  /\ UNCHANGED <<tables, client>>

Crash ==
  /\ client' = [c \in Clients |-> Idle]
  /\ promoter' = [p \in Promoters |-> {}]
  /\ UNCHANGED tables

Next ==
  \/ \E c \in Clients :
       (\E req \in Request : Prompt(c, req)) \/ PublishAdmitted(c) \/ Recover(c)
  \/ \E p \in Promoters :
       \/ Publish(p) \/ Interrupt(p)
       \/ \E s \in Sessions :
            SelectQueued(p, s) \/ \E cutoff \in -1..seq[s] : SelectSteers(p, s, cutoff)
  \/ \E s \in Sessions, i \in Ids : AppendOther(s, i) \/ CommitRevert(s, i)
  \/ Crash

Spec == Init /\ [][Next]_vars

-----------------------------------------------------------------------------
(***************************************************************************)
(* Properties.                                                             *)
(***************************************************************************)
\* A prompt is marked promoted iff its message is visible, with the same
\* sequence, whatever promoters, crashes and reverts do: no prompt is shown
\* twice, hidden while it counts as promoted, or shown while it is pending.
PromotedIffVisible ==
  \A i \in Ids :
    /\ message[i] # None /\ message[i].type = "user" => input[i] # None
    /\ input[i] # None =>
         \/ input[i].promoted = -1 /\ message[i] = None
         \/ /\ message[i] # None /\ message[i].type = "user"
            /\ message[i].session = input[i].session
            /\ message[i].seq = input[i].promoted

\* Of two steers (or two queued prompts) of a Session, the one admitted later
\* is visible only behind the other one: promotion keeps admission order also
\* when promoters overlap, stop half way or lag behind.  A row that was put
\* back after a revert has no admission, and is exempt.
InAdmissionOrder ==
  \A i, j \in Ids :
    /\ input[i] # None /\ input[j] # None
    /\ input[i].session = input[j].session /\ input[i].delivery = input[j].delivery
    /\ input[i].admitted < input[j].admitted
    /\ input[j].promoted # -1 /\ input[j].admitted # input[j].promoted
    => input[i].promoted # -1 /\ input[i].promoted < input[j].promoted

\* The request that a row stores.
Stored(row) == [id |-> row.id, session |-> row.session, content |-> row.content,
                delivery |-> row.delivery]

\* A client that was given a receipt asked for exactly the prompt that is
\* stored under the id, and every retry is given the same receipt (until a
\* revert takes the prompt back).
ReceiptsHold ==
  \A c \in Clients :
    client[c].at = "done" /\ client[c].answer # Refused
      /\ client[c].req.id \notin reverted =>
    LET i == client[c].req.id IN
      /\ input[i] # None /\ Stored(input[i]) = client[c].req
      /\ input[i].admitted = client[c].answer

\* A client is refused only if its id is really taken by something else: an
\* exact retry that races the first call is never told of a conflict.
RefusalsJustified ==
  \A c \in Clients :
    client[c].at = "done" /\ client[c].answer = Refused
      /\ client[c].req.id \notin reverted =>
    LET i == client[c].req.id IN
      \/ input[i] # None /\ Stored(input[i]) # client[c].req
      \/ message[i] # None /\ message[i].type = "other"
=============================================================================
