------------------------- MODULE SessionInboxProofs -------------------------
(***************************************************************************)
(* Proofs about SessionInbox: each invariant of its runs, for every value  *)
(* of the constants.                                                       *)
(***************************************************************************)
EXTENDS SessionInbox, TLAPS

USE InboxAssumption

-----------------------------------------------------------------------------
(***************************************************************************)
(* What a step does to the tables: one of four transactions, or nothing.   *)
(***************************************************************************)
Admits(c) ==
  /\ client[c].at = "publishing" /\ client[c].req \in Request
  /\ Free(client[c].req.id)
  /\ Advance(client[c].req.session)
  /\ input' = [input EXCEPT ![client[c].req.id] =
       [id |-> client[c].req.id, session |-> client[c].req.session,
        content |-> client[c].req.content, delivery |-> client[c].req.delivery,
        admitted |-> seq[client[c].req.session] + 1, promoted |-> -1,
        created |-> seq[client[c].req.session] + 1]]
  /\ UNCHANGED <<message, reverted, promoter>>

Promotes(p, r) == r \in First(promoter[p]) /\ (PublishPending(p, r) \/ PublishMissing(p, r))

LEMMA Steps ==
  ASSUME TypeOK, [Next]_vars
  PROVE  \/ \E c \in Clients : Admits(c)
         \/ \E p \in Promoters : \E r \in promoter[p] : Promotes(p, r)
         \/ \E s \in Sessions, i \in Ids : AppendOther(s, i) \/ CommitRevert(s, i)
         \/ UNCHANGED tables
<1>1. ASSUME NEW c \in Clients, PublishAdmitted(c)
      PROVE  Admits(c) \/ UNCHANGED tables
  <2>1. client[c].req \in Request
    BY <1>1 DEF PublishAdmitted, TypeOK, Idle
  <2> QED
    BY <1>1, <2>1 DEF PublishAdmitted, Admits
<1>2. ASSUME NEW c \in Clients, (\E req \in Request : Prompt(c, req)) \/ Recover(c)
      PROVE  UNCHANGED tables
  BY <1>2 DEF Prompt, Recover
<1>3. ASSUME NEW p \in Promoters, Publish(p)
      PROVE  (\E r \in promoter[p] : Promotes(p, r)) \/ UNCHANGED tables
  BY <1>3 DEF Publish, Promotes, First, SkipPromoted, Collide
<1>4. ASSUME NEW p \in Promoters,
             \/ Interrupt(p)
             \/ \E s \in Sessions :
                  SelectQueued(p, s) \/ \E cutoff \in -1..seq[s] : SelectSteers(p, s, cutoff)
      PROVE  UNCHANGED tables
  BY <1>4 DEF Interrupt, SelectQueued, SelectSteers
<1>5. Crash \/ UNCHANGED vars => UNCHANGED tables
  BY DEF Crash, vars
<1> QED
  BY <1>1, <1>2, <1>3, <1>4, <1>5 DEF Next

\* The sequences only grow, within their bound.
LEMMA SeqGrows ==
  ASSUME TypeOK, NEW s \in Sessions, Advance(s)
  PROVE  /\ seq' \in [Sessions -> -1..MaxSeq] /\ seq[s] + 1 \in 0..MaxSeq
         /\ seq'[s] = seq[s] + 1 /\ \A t \in Sessions : seq[t] <= seq'[t]
BY DEF Advance, TypeOK

\* A row that is shown: what the two cases of a promotion have in common.
LEMMA Shown ==
  ASSUME TypeOK, NEW p \in Promoters, NEW r \in promoter[p], Promotes(p, r)
  PROVE  \E row \in Input :
           /\ row.id = r.id /\ row.session = r.session /\ row.content = r.content
           /\ row.delivery = r.delivery /\ row.promoted = seq[r.session] + 1
           /\ \/ /\ input[r.id] # None /\ input[r.id].promoted = -1
                 /\ row.admitted = input[r.id].admitted
                 /\ row.created = r.created /\ input[r.id].created = r.created
              \/ input[r.id] = None /\ row.admitted = row.promoted
           /\ input[r.id] = None
              \/ /\ input[r.id].session = r.session /\ input[r.id].content = r.content
                 /\ input[r.id].delivery = r.delivery
           /\ message[r.id] = None /\ Advance(r.session)
           /\ input' = [input EXCEPT ![r.id] = row]
           /\ message' = [message EXCEPT ![r.id] =
                [session |-> r.session, seq |-> row.promoted, type |-> "user"]]
           /\ promoter' = [promoter EXCEPT ![p] = @ \ {r}]
           /\ UNCHANGED <<reverted, client>>
<1>1. r \in Input /\ r.id \in Ids /\ r.session \in Sessions
  BY DEF TypeOK, Input
<1>2. CASE PublishPending(p, r)
  <2> DEFINE row == [input[r.id] EXCEPT !.promoted = seq[r.session] + 1]
  <2>1. input[r.id] \in Input /\ input[r.id].id = r.id
    BY <1>1, <1>2 DEF PublishPending, TypeOK
  <2>2. seq[r.session] + 1 \in 0..MaxSeq
    BY <1>1, <1>2, SeqGrows DEF PublishPending, Show
  <2>3. row \in Input /\ row.id = r.id /\ row.promoted = seq[r.session] + 1
        /\ row.admitted = input[r.id].admitted /\ row.created = input[r.id].created
        /\ row.session = input[r.id].session /\ row.content = input[r.id].content
        /\ row.delivery = input[r.id].delivery
    BY <2>1, <2>2 DEF Input
  <2>4. input' = [input EXCEPT ![r.id] = row]
        /\ message' = [message EXCEPT ![r.id] =
             [session |-> r.session, seq |-> row.promoted, type |-> "user"]]
        /\ Advance(r.session) /\ UNCHANGED <<reverted, client>>
    BY <1>2, <2>3 DEF PublishPending, Show
  <2> HIDE DEF row
  <2> QED
    BY <1>2, <2>3, <2>4 DEF PublishPending, SameAdmission, Equivalent, Drop
<1>3. CASE PublishMissing(p, r)
  <2> DEFINE n == seq[r.session] + 1
             late == [r EXCEPT !.admitted = n]
             row == [late EXCEPT !.promoted = n]
  <2>1. n \in 0..MaxSeq
    BY <1>1, <1>3, SeqGrows DEF PublishMissing, Show
  <2> HIDE DEF n
  <2>2. late \in Input /\ late.id = r.id /\ late.admitted = n
        /\ late.session = r.session /\ late.content = r.content
        /\ late.delivery = r.delivery /\ late.created = r.created
    BY <1>1, <2>1 DEF Input
  <2> HIDE DEF late
  <2>a. row \in Input /\ row.id = r.id /\ row.promoted = n /\ row.admitted = n
        /\ row.session = r.session /\ row.content = r.content
        /\ row.delivery = r.delivery /\ row.created = r.created
    BY <2>1, <2>2 DEF Input
  <2>3. input' = [input EXCEPT ![r.id] = row]
        /\ message' = [message EXCEPT ![r.id] =
             [session |-> r.session, seq |-> row.promoted, type |-> "user"]]
        /\ Advance(r.session) /\ UNCHANGED <<reverted, client>>
    BY <1>3, <2>a DEF PublishMissing, Show, n, late
  <2> HIDE DEF row
  <2> QED
    BY <1>3, <2>a, <2>3 DEF PublishMissing, Drop, n
<1> QED
  BY <1>2, <1>3 DEF Promotes

-----------------------------------------------------------------------------
(***************************************************************************)
(* Types.                                                                  *)
(***************************************************************************)
TablesOK ==
  /\ seq \in [Sessions -> -1..MaxSeq]
  /\ input \in [Ids -> Input \cup {None}]
  /\ \A i \in Ids : input[i] # None =>
       input[i].id = i /\ input[i].admitted <= seq[input[i].session]
  /\ \A i \in Ids : message[i] # None => message[i].seq <= seq[message[i].session]
  /\ message \in [Ids -> Message \cup {None}]
  /\ reverted \subseteq Ids

LEMMA TypeInit == Init => TypeOK
BY DEF Init, TypeOK, Idle

LEMMA TablesStep == TypeOK /\ [Next]_vars => TablesOK'
<1> SUFFICES ASSUME TypeOK, [Next]_vars PROVE TablesOK'
  OBVIOUS
<1>0. /\ \A i \in Ids : input[i] # None =>
           input[i] \in Input /\ seq[input[i].session] \in -1..MaxSeq
      /\ \A i \in Ids : message[i] # None =>
           message[i] \in Message /\ seq[message[i].session] \in -1..MaxSeq
  BY DEF TypeOK, Input, Message
<1>1. ASSUME NEW c \in Clients, Admits(c) PROVE TablesOK'
  <2> PICK req \in Request : req = client[c].req
    BY <1>1 DEF Admits
  <2> DEFINE row == [id |-> req.id, session |-> req.session, content |-> req.content,
                     delivery |-> req.delivery, admitted |-> seq[req.session] + 1,
                     promoted |-> -1, created |-> seq[req.session] + 1]
  <2>1. /\ req.id \in Ids /\ req.session \in Sessions /\ req.content \in Contents
        /\ req.delivery \in Deliveries
    BY DEF Request
  <2>2. /\ seq' \in [Sessions -> -1..MaxSeq] /\ seq[req.session] + 1 \in 0..MaxSeq
        /\ seq'[req.session] = seq[req.session] + 1
        /\ \A t \in Sessions : seq[t] <= seq'[t]
    BY <1>1, <2>1, SeqGrows DEF Admits
  <2>3. row \in Input /\ row.id = req.id /\ row.session = req.session
        /\ row.admitted = seq[req.session] + 1
    BY <2>1, <2>2 DEF Input
  <2>4. input' = [input EXCEPT ![req.id] = row] /\ UNCHANGED <<message, reverted>>
    BY <1>1 DEF Admits
  <2> HIDE DEF row
  <2>5. \A i \in Ids : input'[i] = input[i] \/ (i = req.id /\ input'[i] = row)
    BY <2>4 DEF TypeOK
  <2>6. \A i \in Ids : input'[i] # None =>
          input'[i].id = i /\ input'[i].admitted <= seq'[input'[i].session]
    <3> SUFFICES ASSUME NEW i \in Ids, input'[i] # None
                 PROVE  input'[i].id = i /\ input'[i].admitted <= seq'[input'[i].session]
      OBVIOUS
    <3>1. CASE input'[i] = input[i]
      <4>1. input[i] \in Input /\ input[i].id = i
            /\ input[i].admitted <= seq[input[i].session]
        BY <1>0, <3>1 DEF TypeOK
      <4> QED
        BY <2>2, <3>1, <4>1 DEF Input, TypeOK
    <3>2. CASE i = req.id /\ input'[i] = row
      BY <2>2, <2>3, <3>2
    <3> QED
      BY <2>5, <3>1, <3>2
  <2>7. \A i \in Ids : message'[i] # None => message'[i].seq <= seq'[message'[i].session]
    BY <1>0, <2>2, <2>4 DEF TypeOK, Message
  <2> QED
    BY <2>2, <2>3, <2>4, <2>6, <2>7 DEF TablesOK, TypeOK
<1>2. ASSUME NEW p \in Promoters, NEW r \in promoter[p], Promotes(p, r) PROVE TablesOK'
  <2>1. PICK row \in Input :
          /\ row.id = r.id /\ row.session = r.session
          /\ row.promoted = seq[r.session] + 1
          /\ \/ input[r.id] # None /\ row.admitted = input[r.id].admitted
                /\ input[r.id].session = r.session
             \/ row.admitted = row.promoted
          /\ Advance(r.session)
          /\ input' = [input EXCEPT ![r.id] = row]
          /\ message' = [message EXCEPT ![r.id] =
               [session |-> r.session, seq |-> row.promoted, type |-> "user"]]
          /\ reverted' = reverted
    BY <1>2, Shown
  <2>2. r.id \in Ids /\ r.session \in Sessions
    BY DEF TypeOK, Input
  <2>3. /\ seq' \in [Sessions -> -1..MaxSeq] /\ seq[r.session] + 1 \in 0..MaxSeq
        /\ seq'[r.session] = seq[r.session] + 1
        /\ \A t \in Sessions : seq[t] <= seq'[t]
    BY <2>1, <2>2, SeqGrows
  <2>4. row.admitted <= seq'[r.session]
    BY <1>0, <2>1, <2>2, <2>3 DEF TypeOK, Input
  <2>5. \A i \in Ids : input'[i] # None =>
          input'[i].id = i /\ input'[i].admitted <= seq'[input'[i].session]
    <3> SUFFICES ASSUME NEW i \in Ids, input'[i] # None
                 PROVE  input'[i].id = i /\ input'[i].admitted <= seq'[input'[i].session]
      OBVIOUS
    <3>1. CASE i = r.id
      BY <2>1, <2>4, <3>1 DEF TypeOK
    <3>2. CASE i # r.id
      <4>1. input'[i] = input[i]
        BY <2>1, <3>2 DEF TypeOK
      <4> QED
        BY <1>0, <2>3, <4>1 DEF TypeOK, Input
    <3> QED
      BY <3>1, <3>2
  <2>6. \A i \in Ids : message'[i] # None => message'[i].seq <= seq'[message'[i].session]
    <3> SUFFICES ASSUME NEW i \in Ids, message'[i] # None
                 PROVE  message'[i].seq <= seq'[message'[i].session]
      OBVIOUS
    <3>1. CASE i = r.id
      BY <2>1, <2>3, <3>1 DEF TypeOK
    <3>2. CASE i # r.id
      <4>1. message'[i] = message[i]
        BY <2>1, <3>2 DEF TypeOK
      <4> QED
        BY <1>0, <2>3, <4>1 DEF TypeOK, Message
    <3> QED
      BY <3>1, <3>2
  <2>7. message' \in [Ids -> Message \cup {None}]
    BY <2>1, <2>2, <2>3 DEF TypeOK, Message
  <2> QED
    BY <2>1, <2>3, <2>5, <2>6, <2>7 DEF TablesOK, TypeOK
<1>3. ASSUME NEW s \in Sessions, NEW i \in Ids, AppendOther(s, i) PROVE TablesOK'
  <2>1. /\ seq' \in [Sessions -> -1..MaxSeq] /\ seq[s] + 1 \in 0..MaxSeq
        /\ seq'[s] = seq[s] + 1 /\ \A t \in Sessions : seq[t] <= seq'[t]
    BY <1>3, SeqGrows DEF AppendOther
  <2>2. message' = [message EXCEPT ![i] =
                     [session |-> s, seq |-> seq[s] + 1, type |-> "other"]]
        /\ UNCHANGED <<input, reverted>>
    BY <1>3 DEF AppendOther
  <2>3. message' \in [Ids -> Message \cup {None}]
    BY <2>1, <2>2 DEF TypeOK, Message
  <2>4. \A j \in Ids : message'[j] # None => message'[j].seq <= seq'[message'[j].session]
    <3> SUFFICES ASSUME NEW j \in Ids, message'[j] # None
                 PROVE  message'[j].seq <= seq'[message'[j].session]
      OBVIOUS
    <3>1. CASE j = i
      BY <2>1, <2>2, <3>1 DEF TypeOK
    <3>2. CASE j # i
      <4>1. message'[j] = message[j]
        BY <2>2, <3>2 DEF TypeOK
      <4> QED
        BY <1>0, <2>1, <4>1 DEF TypeOK, Message
    <3> QED
      BY <3>1, <3>2
  <2>5. \A j \in Ids : input'[j] # None =>
          input'[j].id = j /\ input'[j].admitted <= seq'[input'[j].session]
    BY <1>0, <2>1, <2>2 DEF TypeOK, Input
  <2> QED
    BY <2>1, <2>2, <2>3, <2>4, <2>5 DEF TablesOK, TypeOK
<1>4. ASSUME NEW s \in Sessions, NEW i \in Ids, CommitRevert(s, i) PROVE TablesOK'
  <2>1. /\ seq' \in [Sessions -> -1..MaxSeq]
        /\ \A t \in Sessions : seq[t] <= seq'[t]
    BY <1>4, SeqGrows DEF CommitRevert
  <2>2. /\ \A j \in Ids : input'[j] = input[j] \/ input'[j] = None
        /\ \A j \in Ids : message'[j] = message[j] \/ message'[j] = None
        /\ input' \in [Ids -> Input \cup {None}]
        /\ message' \in [Ids -> Message \cup {None}]
        /\ reverted' \subseteq Ids
    BY <1>4 DEF CommitRevert, TypeOK
  <2>3. \A j \in Ids : input'[j] # None =>
          input'[j].id = j /\ input'[j].admitted <= seq'[input'[j].session]
    BY <1>0, <2>1, <2>2 DEF TypeOK, Input
  <2>4. \A j \in Ids : message'[j] # None => message'[j].seq <= seq'[message'[j].session]
    BY <1>0, <2>1, <2>2 DEF TypeOK, Message
  <2> QED
    BY <2>1, <2>2, <2>3, <2>4 DEF TablesOK
<1>5. CASE UNCHANGED tables
  BY <1>5 DEF tables, TablesOK, TypeOK
<1> QED
  BY <1>1, <1>2, <1>3, <1>4, <1>5, Steps

LEMMA AnswerTyped ==
  ASSUME TypeOK, NEW c \in Clients, NEW req \in Request, NEW n \in -1..MaxSeq,
         Answer(c, req, n)
  PROVE  client' \in [Clients -> {Idle} \cup
            [at : {"publishing", "recovering"}, req : Request] \cup
            [at : {"done"}, req : Request, answer : -1..MaxSeq]]
BY DEF Answer, TypeOK

LEMMA TypeStep == TypeOK /\ [Next]_vars => TypeOK'
<1> SUFFICES ASSUME TypeOK, [Next]_vars PROVE TypeOK'
  OBVIOUS
<1> DEFINE ClientOK == client \in [Clients -> {Idle} \cup
              [at : {"publishing", "recovering"}, req : Request] \cup
              [at : {"done"}, req : Request, answer : -1..MaxSeq]]
           PromoterOK == promoter \in [Promoters -> SUBSET Input]
<1>0. TablesOK'
  BY TablesStep
<1>1. ASSUME NEW c \in Clients, NEW req \in Request, Prompt(c, req)
      PROVE  ClientOK' /\ PromoterOK'
  <2>1. CASE input[req.id] # None
    <3>1. input[req.id] \in Input
      BY <2>1 DEF TypeOK, Request
    <3> QED
      BY <1>1, <2>1, <3>1, AnswerTyped DEF Prompt, AnswerWith, Refused, Input, TypeOK
  <2>2. CASE input[req.id] = None
    BY <1>1, <2>2 DEF Prompt, TypeOK
  <2> QED
    BY <2>1, <2>2
<1>2. ASSUME NEW c \in Clients, PublishAdmitted(c) PROVE ClientOK' /\ PromoterOK'
  <2>1. client[c] \in [at : {"publishing", "recovering"}, req : Request]
    BY <1>2 DEF PublishAdmitted, TypeOK, Idle
  <2>2. CASE Free(client[c].req.id)
    <3>1. seq[client[c].req.session] + 1 \in -1..MaxSeq
      BY <1>2, <2>1, <2>2, SeqGrows DEF PublishAdmitted, Request
    <3> QED
      BY <1>2, <2>1, <2>2, <3>1, AnswerTyped DEF PublishAdmitted, TypeOK
  <2>3. CASE ~ Free(client[c].req.id)
    BY <1>2, <2>1, <2>3 DEF PublishAdmitted, TypeOK
  <2> QED
    BY <2>2, <2>3
<1>3. ASSUME NEW c \in Clients, Recover(c) PROVE ClientOK' /\ PromoterOK'
  <2>1. client[c].req \in Request
    BY <1>3 DEF Recover, TypeOK, Idle
  <2>2. CASE Found(client[c].req.id)
    <3>1. input[client[c].req.id] \in Input
      BY <2>1, <2>2 DEF Found, TypeOK, Request
    <3> QED
      BY <1>3, <2>1, <2>2, <3>1, AnswerTyped
      DEF Recover, AnswerWith, Refused, Input, TypeOK
  <2>3. CASE ~ Found(client[c].req.id)
    BY <1>3, <2>1, <2>3, AnswerTyped DEF Recover, Refused, TypeOK
  <2> QED
    BY <2>2, <2>3
<1>4. ASSUME NEW p \in Promoters, Publish(p) \/ Interrupt(p) PROVE ClientOK' /\ PromoterOK'
  BY <1>4 DEF Publish, PublishPending, PublishMissing, SkipPromoted, Collide, Show,
              Drop, Interrupt, TypeOK
<1>5. ASSUME NEW p \in Promoters, NEW s \in Sessions,
             SelectQueued(p, s) \/ \E cutoff \in -1..seq[s] : SelectSteers(p, s, cutoff)
      PROVE  ClientOK' /\ PromoterOK'
  <2>1. \A d : Pending(s, d) \subseteq Input
    BY DEF Pending, TypeOK
  <2> QED
    BY <1>5, <2>1 DEF SelectQueued, SelectSteers, First, TypeOK
<1>6. ASSUME NEW s \in Sessions, NEW i \in Ids, AppendOther(s, i) \/ CommitRevert(s, i)
      PROVE  ClientOK' /\ PromoterOK'
  BY <1>6 DEF AppendOther, CommitRevert, TypeOK
<1>7. Crash \/ UNCHANGED vars => ClientOK' /\ PromoterOK'
  BY DEF Crash, vars, TypeOK
<1>8. ClientOK' /\ PromoterOK'
  BY <1>1, <1>2, <1>3, <1>4, <1>5, <1>6, <1>7 DEF Next
<1> QED
  BY <1>0, <1>8 DEF TablesOK, TypeOK

\* Every variable keeps its type, rows keep their ids, and no row is ahead of
\* its Session's sequence.
THEOREM TypeCorrect == Spec => []TypeOK
BY TypeInit, TypeStep, PTL DEF Spec

-----------------------------------------------------------------------------
(***************************************************************************)
(* Promotion and visibility.  Inductive with: a row is promoted behind its *)
(* admission.  A revert deletes messages by their sequence and inputs by   *)
(* their admission too, and the two agree only because of that.            *)
(***************************************************************************)
Behind == \A i \in Ids : input[i] # None =>
            input[i].promoted = -1 \/ input[i].admitted <= input[i].promoted

Visible == TypeOK /\ Behind /\ PromotedIffVisible

LEMMA VisibleStep == Visible /\ [Next]_vars => Visible'
<1> SUFFICES ASSUME Visible, [Next]_vars PROVE Visible'
  OBVIOUS
<1> USE DEF Visible
<1>0. TypeOK'
  BY TypeStep
<1>a. \A i \in Ids : input[i] # None =>
        input[i] \in Input /\ input[i].id = i
        /\ seq[input[i].session] \in -1..MaxSeq /\ input[i].admitted <= seq[input[i].session]
  BY DEF TypeOK, Input
<1>1. ASSUME NEW c \in Clients, Admits(c) PROVE Behind' /\ PromotedIffVisible'
  <2> PICK req \in Request : req = client[c].req
    BY <1>1 DEF Admits
  <2>1. req.id \in Ids /\ input[req.id] = None /\ message[req.id] = None
    BY <1>1 DEF Admits, Free, Request
  <2>2. /\ input'[req.id] # None => input'[req.id].promoted = -1
        /\ \A i \in Ids \ {req.id} : input'[i] = input[i]
        /\ message' = message
    BY <1>1, <2>1 DEF Admits, TypeOK
  <2> QED
    BY <2>1, <2>2 DEF Behind, PromotedIffVisible
<1>2. ASSUME NEW p \in Promoters, NEW r \in promoter[p], Promotes(p, r)
      PROVE  Behind' /\ PromotedIffVisible'
  <2>1. PICK row \in Input :
          /\ row.session = r.session /\ row.promoted = seq[r.session] + 1
          /\ \/ input[r.id] # None /\ row.admitted = input[r.id].admitted
                /\ input[r.id].session = r.session
             \/ row.admitted = row.promoted
          /\ Advance(r.session)
          /\ input' = [input EXCEPT ![r.id] = row]
          /\ message' = [message EXCEPT ![r.id] =
               [session |-> r.session, seq |-> row.promoted, type |-> "user"]]
          /\ message' = [message EXCEPT ![r.id] =
               [session |-> r.session, seq |-> row.promoted, type |-> "user"]]
    BY <1>2, Shown
  <2>2. r.id \in Ids /\ r.session \in Sessions
    BY DEF TypeOK, Input
  <2>3. row.admitted <= row.promoted
    BY <1>a, <2>1, <2>2 DEF TypeOK, Input
  <2>4. /\ input'[r.id] = row
        /\ message'[r.id] = [session |-> r.session, seq |-> row.promoted, type |-> "user"]
        /\ \A i \in Ids \ {r.id} : input'[i] = input[i] /\ message'[i] = message[i]
    BY <2>1, <2>2 DEF TypeOK
  <2>5. input'[r.id] # None /\ message'[r.id] # None
    <3>1. seq[r.session] + 1 \in 0..MaxSeq
      BY <1>2, <2>2, SeqGrows DEF Promotes, PublishPending, PublishMissing, Show
    <3> QED
      BY <2>1, <2>2, <2>4, <3>1 DEF Message
  <2> QED
    BY <2>1, <2>3, <2>4, <2>5 DEF Behind, PromotedIffVisible
<1>3. ASSUME NEW s \in Sessions, NEW i \in Ids, AppendOther(s, i)
      PROVE  Behind' /\ PromotedIffVisible'
  <2>1. /\ input' = input /\ input[i] = None
        /\ message'[i] = [session |-> s, seq |-> seq[s] + 1, type |-> "other"]
        /\ \A j \in Ids \ {i} : message'[j] = message[j]
    BY <1>3 DEF AppendOther, TypeOK
  <2> QED
    BY <2>1 DEF Behind, PromotedIffVisible
<1>4. ASSUME NEW s \in Sessions, NEW i \in Ids, CommitRevert(s, i)
      PROVE  Behind' /\ PromotedIffVisible'
  <2> PICK b \in 0..MaxSeq : b = message[i].seq
    BY <1>4 DEF CommitRevert, TypeOK, Message
  <2>1. \A j \in Ids :
          /\ input'[j] = IF input[j] # None /\ input[j].session = s /\ UndoneAfter(input[j], b)
                         THEN None ELSE input[j]
          /\ message'[j] = IF message[j] # None /\ message[j].session = s /\ message[j].seq > b
                           THEN None ELSE message[j]
    BY <1>4 DEF CommitRevert
  <2>2. Behind'
    BY <2>1 DEF Behind
  <2>3. ASSUME NEW j \in Ids, input[j] # None
        PROVE  /\ message'[j] # None /\ message'[j].type = "user" => input'[j] # None
               /\ input'[j] # None =>
                    \/ input'[j].promoted = -1 /\ message'[j] = None
                    \/ /\ message'[j] # None /\ message'[j].type = "user"
                       /\ message'[j].session = input'[j].session
                       /\ message'[j].seq = input'[j].promoted
    <3>1. CASE input[j].promoted = -1
      <4>1. message[j] = None
        BY <2>3, <3>1 DEF PromotedIffVisible, TypeOK, Message
      <4> QED
        BY <2>1, <3>1, <4>1
    <3>2. CASE input[j].promoted # -1
      <4>1. /\ message[j] # None /\ message[j].session = input[j].session
            /\ message[j].seq = input[j].promoted /\ message[j].type = "user"
        BY <2>3, <3>2 DEF PromotedIffVisible
      <4>2. input[j].admitted <= input[j].promoted
            /\ input[j].admitted \in Int /\ input[j].promoted \in Int
        BY <1>a, <2>3, <3>2 DEF Behind, Input
      <4>3. UndoneAfter(input[j], b) <=> message[j].seq > b
        BY <4>1, <4>2 DEF UndoneAfter
      <4> QED
        BY <2>1, <2>3, <4>1, <4>3
    <3> QED
      BY <3>1, <3>2
  <2>4. ASSUME NEW j \in Ids, input[j] = None
        PROVE  input'[j] = None /\ ~ (message'[j] # None /\ message'[j].type = "user")
    BY <2>1, <2>4 DEF PromotedIffVisible
  <2> QED
    BY <2>2, <2>3, <2>4 DEF PromotedIffVisible
<1>5. CASE UNCHANGED tables
  <2>1. input' = input /\ message' = message
    BY <1>5 DEF tables
  <2> QED
    BY <1>0, <2>1 DEF Behind, PromotedIffVisible
<1> QED
  BY <1>0, <1>1, <1>2, <1>3, <1>4, <1>5, Steps

\* A prompt is marked promoted iff its message is visible, with one sequence,
\* whatever promoters, crashes and reverts do.
THEOREM MarkedIffShown == Spec => []PromotedIffVisible
<1>1. Init => Visible
  BY TypeInit DEF Init, Visible, Behind, PromotedIffVisible
<1> QED
  BY <1>1, VisibleStep, PTL DEF Spec, Visible

-----------------------------------------------------------------------------
(***************************************************************************)
(* The order of promotion.  A promoter may have selected long ago; what    *)
(* stays true of its selection is that it has every pending prompt before  *)
(* any prompt in it, since admissions only come behind.  created tells a   *)
(* row that a client admitted from one that PublishMissing put back.       *)
(***************************************************************************)
Selected ==
  \A p \in Promoters : \A r \in promoter[p] :
    /\ r.promoted = -1 /\ r.created = r.admitted /\ r.admitted <= seq[r.session]
    /\ \A j \in Ids :
         /\ input[j] # None /\ input[j].promoted = -1
         /\ input[j].session = r.session /\ input[j].delivery = r.delivery
         /\ input[j].admitted < r.admitted
         => input[j] \in promoter[p]

Admitted == \A i \in Ids : input[i] # None /\ input[i].promoted = -1 =>
              input[i].created = input[i].admitted

\* What a step may do to the pending prompts: one is admitted, behind all
\* others of its Session, or some are gone.
LEMMA PendingStep ==
  ASSUME TypeOK, Admitted, [Next]_vars
  PROVE  /\ Admitted'
         /\ \A s \in Sessions : seq[s] <= seq'[s]
         /\ \A j \in Ids : input'[j] # None /\ input'[j].promoted = -1 =>
              \/ input'[j] = input[j]
              \/ input'[j].session \in Sessions /\ input'[j].admitted > seq[input'[j].session]
<1>1. ASSUME NEW c \in Clients, Admits(c)
      PROVE  /\ Admitted'
             /\ \A s \in Sessions : seq[s] <= seq'[s]
             /\ \A j \in Ids : input'[j] # None /\ input'[j].promoted = -1 =>
                  \/ input'[j] = input[j]
                  \/ input'[j].session \in Sessions
                     /\ input'[j].admitted > seq[input'[j].session]
  <2> PICK req \in Request : req = client[c].req
    BY <1>1 DEF Admits
  <2>1. req.id \in Ids /\ req.session \in Sessions
    BY DEF Request
  <2>2. /\ input'[req.id].session = req.session
        /\ input'[req.id].admitted = seq[req.session] + 1
        /\ input'[req.id].created = seq[req.session] + 1
        /\ \A j \in Ids \ {req.id} : input'[j] = input[j]
    BY <1>1, <2>1 DEF Admits, TypeOK
  <2>3. seq[req.session] \in Int /\ \A s \in Sessions : seq[s] <= seq'[s]
    BY <1>1, <2>1, SeqGrows DEF Admits, TypeOK
  <2> QED
    BY <2>1, <2>2, <2>3 DEF Admitted
<1>2. ASSUME NEW p \in Promoters, NEW r \in promoter[p], Promotes(p, r)
      PROVE  /\ Admitted'
             /\ \A s \in Sessions : seq[s] <= seq'[s]
             /\ \A j \in Ids : input'[j] # None /\ input'[j].promoted = -1 =>
                  input'[j] = input[j]
  <2>1. PICK row \in Input :
          /\ row.session = r.session /\ row.promoted = seq[r.session] + 1
          /\ Advance(r.session) /\ input' = [input EXCEPT ![r.id] = row]
          /\ message' = [message EXCEPT ![r.id] =
               [session |-> r.session, seq |-> row.promoted, type |-> "user"]]
    BY <1>2, Shown
  <2>2. r.id \in Ids /\ r.session \in Sessions
    BY DEF TypeOK, Input
  <2>3. row.promoted # -1 /\ \A s \in Sessions : seq[s] <= seq'[s]
    BY <2>1, <2>2, SeqGrows
  <2>4. input'[r.id] = row /\ \A j \in Ids \ {r.id} : input'[j] = input[j]
    BY <2>1, <2>2 DEF TypeOK
  <2> QED
    BY <2>3, <2>4 DEF Admitted
<1>3. ASSUME NEW s \in Sessions, NEW i \in Ids, AppendOther(s, i) \/ CommitRevert(s, i)
      PROVE  /\ Admitted'
             /\ \A t \in Sessions : seq[t] <= seq'[t]
             /\ \A j \in Ids : input'[j] # None => input'[j] = input[j]
  <2>1. \A j \in Ids : input'[j] # None => input'[j] = input[j]
    BY <1>3 DEF AppendOther, CommitRevert
  <2>2. \A t \in Sessions : seq[t] <= seq'[t]
    BY <1>3, SeqGrows DEF AppendOther, CommitRevert
  <2> QED
    BY <2>1, <2>2 DEF Admitted
<1>4. CASE UNCHANGED tables
  <2>1. input' = input /\ seq' = seq
    BY <1>4 DEF tables
  <2> QED
    BY <2>1 DEF Admitted, TypeOK
<1> QED
  BY <1>1, <1>2, <1>3, <1>4, Steps

\* What a step may do to a promoter: it selects, or drops what it has.
LEMMA PromoterStep ==
  ASSUME TypeOK, [Next]_vars, NEW p \in Promoters
  PROVE  \/ \E s \in Sessions, cutoff \in Int :
              /\ UNCHANGED tables
              /\ promoter'[p] = {r \in Pending(s, "steer") : r.admitted <= cutoff}
         \/ \E s \in Sessions :
              UNCHANGED tables /\ promoter'[p] = First(Pending(s, "queue"))
         \/ promoter'[p] = {} \/ promoter'[p] = promoter[p]
         \/ \E r \in promoter[p] :
              /\ promoter'[p] = promoter[p] \ {r}
              /\ input'[r.id] # None => input'[r.id].promoted # -1
<1>1. ASSUME NEW c \in Clients,
             (\E req \in Request : Prompt(c, req)) \/ PublishAdmitted(c) \/ Recover(c)
      PROVE  promoter'[p] = promoter[p]
  BY <1>1 DEF Prompt, PublishAdmitted, Recover
<1>2. ASSUME NEW q \in Promoters, q # p,
             \/ Publish(q) \/ Interrupt(q)
             \/ \E s \in Sessions :
                  SelectQueued(q, s) \/ \E cutoff \in -1..seq[s] : SelectSteers(q, s, cutoff)
      PROVE  promoter'[p] = promoter[p]
  BY <1>2 DEF Publish, PublishPending, PublishMissing, SkipPromoted, Collide, Drop,
              Interrupt, SelectQueued, SelectSteers, TypeOK
<1>3. ASSUME NEW r \in promoter[p], Promotes(p, r)
      PROVE  /\ promoter'[p] = promoter[p] \ {r}
             /\ input'[r.id] # None => input'[r.id].promoted # -1
  <2>1. PICK row \in Input :
          /\ row.session = r.session /\ row.promoted = seq[r.session] + 1
          /\ Advance(r.session) /\ input' = [input EXCEPT ![r.id] = row]
          /\ message' = [message EXCEPT ![r.id] =
               [session |-> r.session, seq |-> row.promoted, type |-> "user"]]
          /\ promoter' = [promoter EXCEPT ![p] = @ \ {r}]
    BY <1>3, Shown
  <2>2. r.id \in Ids /\ r.session \in Sessions
    BY DEF TypeOK, Input
  <2>3. row.promoted # -1
    BY <2>1, <2>2, SeqGrows
  <2> QED
    BY <2>1, <2>2, <2>3 DEF TypeOK
<1>4. ASSUME NEW r \in promoter[p], SkipPromoted(p, r)
      PROVE  /\ promoter'[p] = promoter[p] \ {r}
             /\ input'[r.id] # None => input'[r.id].promoted # -1
  BY <1>4 DEF SkipPromoted, Drop, tables, TypeOK
<1>5. ASSUME NEW r \in promoter[p], Collide(p, r) PROVE promoter'[p] = {}
  BY <1>5 DEF Collide, TypeOK
<1>6. ASSUME NEW s \in Sessions, SelectQueued(p, s)
      PROVE  UNCHANGED tables /\ promoter'[p] = First(Pending(s, "queue"))
  BY <1>6 DEF SelectQueued, TypeOK
<1>7. ASSUME NEW s \in Sessions, NEW cutoff \in -1..seq[s], SelectSteers(p, s, cutoff)
      PROVE  /\ UNCHANGED tables /\ cutoff \in Int
             /\ promoter'[p] = {r \in Pending(s, "steer") : r.admitted <= cutoff}
  BY <1>7 DEF SelectSteers, TypeOK
<1>8. ASSUME NEW s \in Sessions, NEW i \in Ids, AppendOther(s, i) \/ CommitRevert(s, i)
      PROVE  promoter'[p] = promoter[p]
  BY <1>8 DEF AppendOther, CommitRevert
<1>9. Interrupt(p) \/ Crash => promoter'[p] = {}
  BY DEF Interrupt, Crash, TypeOK
<1>10. ASSUME Publish(p)
       PROVE  \/ promoter'[p] = {}
              \/ \E r \in promoter[p] :
                   /\ promoter'[p] = promoter[p] \ {r}
                   /\ input'[r.id] # None => input'[r.id].promoted # -1
  <2>1. PICK r \in First(promoter[p]) :
          PublishPending(p, r) \/ PublishMissing(p, r) \/ SkipPromoted(p, r) \/ Collide(p, r)
    BY <1>10 DEF Publish
  <2>2. r \in promoter[p]
    BY DEF First
  <2> QED
    BY <1>3, <1>4, <1>5, <2>1, <2>2 DEF Promotes
<1> QED
  BY <1>1, <1>2, <1>6, <1>7, <1>8, <1>9, <1>10 DEF Next, vars

LEMMA SelectedStep ==
  ASSUME TypeOK, Admitted, Selected, [Next]_vars
  PROVE  Selected'
<1> SUFFICES ASSUME NEW p \in Promoters, NEW r \in promoter'[p]
             PROVE  /\ r.promoted = -1 /\ r.created = r.admitted
                    /\ r.admitted <= seq'[r.session]
                    /\ \A j \in Ids :
                         /\ input'[j] # None /\ input'[j].promoted = -1
                         /\ input'[j].session = r.session
                         /\ input'[j].delivery = r.delivery
                         /\ input'[j].admitted < r.admitted
                         => input'[j] \in promoter'[p]
  BY DEF Selected
<1>0. /\ seq' \in [Sessions -> -1..MaxSeq] /\ seq \in [Sessions -> -1..MaxSeq]
      /\ \A s \in Sessions : seq[s] <= seq'[s]
  BY PendingStep, TypeStep DEF TypeOK
<1>1. ASSUME NEW s \in Sessions, NEW d, UNCHANGED tables, r \in Pending(s, d),
             \A j \in Ids : /\ input[j] \in Pending(s, d)
                            /\ input[j].admitted < r.admitted
                            => input[j] \in promoter'[p]
      PROVE  /\ r.promoted = -1 /\ r.created = r.admitted
             /\ r.admitted <= seq'[r.session]
             /\ \A j \in Ids :
                  /\ input'[j] # None /\ input'[j].promoted = -1
                  /\ input'[j].session = r.session
                  /\ input'[j].delivery = r.delivery
                  /\ input'[j].admitted < r.admitted
                  => input'[j] \in promoter'[p]
  <2>1. input' = input /\ seq' = seq
    BY <1>1 DEF tables
  <2>2. PICK i \in Ids : /\ r = input[i] /\ input[i] # None /\ input[i].promoted = -1
                         /\ input[i].session = s /\ input[i].delivery = d
    BY <1>1 DEF Pending
  <2>3. r.promoted = -1 /\ r.created = r.admitted /\ r.admitted <= seq'[r.session]
    BY <2>1, <2>2 DEF Admitted, TypeOK
  <2>4. ASSUME NEW j \in Ids, input[j] # None, input[j].promoted = -1,
               input[j].session = r.session, input[j].delivery = r.delivery
        PROVE  input[j] \in Pending(s, d)
    BY <2>2, <2>4 DEF Pending
  <2> QED
    BY <1>1, <2>1, <2>3, <2>4
<1>2. CASE \E s \in Sessions, cutoff \in Int :
             /\ UNCHANGED tables
             /\ promoter'[p] = {x \in Pending(s, "steer") : x.admitted <= cutoff}
  <2>1. PICK s \in Sessions, cutoff \in Int :
          /\ UNCHANGED tables
          /\ promoter'[p] = {x \in Pending(s, "steer") : x.admitted <= cutoff}
    BY <1>2
  <2>2. r \in Pending(s, "steer") /\ r.admitted <= cutoff
    BY <2>1
  <2>3. \A x \in Pending(s, "steer") : x.admitted \in Int
    BY DEF Pending, TypeOK, Input
  <2>4. \A x \in Pending(s, "steer") : x.admitted < r.admitted => x \in promoter'[p]
    BY <2>1, <2>2, <2>3
  <2> QED
    BY <1>1, <2>1, <2>2, <2>4
<1>3. CASE \E s \in Sessions :
             UNCHANGED tables /\ promoter'[p] = First(Pending(s, "queue"))
  <2>1. PICK s \in Sessions :
          UNCHANGED tables /\ promoter'[p] = First(Pending(s, "queue"))
    BY <1>3
  <2>2. r \in Pending(s, "queue") /\ \A x \in Pending(s, "queue") : r.admitted <= x.admitted
    BY <2>1 DEF First
  <2>3. \A x \in Pending(s, "queue") : x.admitted \in Int
    BY DEF Pending, TypeOK, Input
  <2>4. \A x \in Pending(s, "queue") : x.admitted < r.admitted => x \in promoter'[p]
    BY <2>2, <2>3
  <2> QED
    BY <1>1, <2>1, <2>2, <2>4
<1>4. ASSUME r \in promoter[p],
             \/ promoter'[p] = promoter[p]
             \/ \E x \in promoter[p] :
                  /\ promoter'[p] = promoter[p] \ {x}
                  /\ input'[x.id] # None => input'[x.id].promoted # -1
      PROVE  /\ r.promoted = -1 /\ r.created = r.admitted
             /\ r.admitted <= seq'[r.session]
             /\ \A j \in Ids :
                  /\ input'[j] # None /\ input'[j].promoted = -1
                  /\ input'[j].session = r.session
                  /\ input'[j].delivery = r.delivery
                  /\ input'[j].admitted < r.admitted
                  => input'[j] \in promoter'[p]
  <2>1. r.session \in Sessions /\ r.admitted \in Int
    BY <1>4 DEF TypeOK, Input
  <2>2. r.promoted = -1 /\ r.created = r.admitted /\ r.admitted <= seq[r.session]
    BY <1>4 DEF Selected
  <2>3. ASSUME NEW j \in Ids, input'[j] # None, input'[j].promoted = -1,
               input'[j].session = r.session, input'[j].delivery = r.delivery,
               input'[j].admitted < r.admitted
        PROVE  input'[j] \in promoter'[p]
    <3>1. ~ (input'[j].admitted > seq[r.session])
      <4>1. input'[j] \in Input
        BY <2>3, TypeStep DEF TypeOK
      <4> QED
        BY <1>0, <2>1, <2>2, <2>3, <4>1 DEF Input
    <3>2. input'[j] = input[j]
      BY <2>3, <3>1, PendingStep
    <3>3. input[j] \in promoter[p]
      BY <1>4, <2>3, <3>2 DEF Selected
    <3>4. \A x \in promoter[p] :
            (input'[x.id] # None => input'[x.id].promoted # -1) => x # input[j]
      BY <2>3, <3>2 DEF TypeOK
    <3> QED
      BY <1>4, <3>2, <3>3, <3>4
  <2> QED
    BY <1>0, <2>1, <2>2, <2>3
<1> QED
  BY <1>2, <1>3, <1>4, PromoterStep

Ordered == Visible /\ Admitted /\ Selected /\ InAdmissionOrder

LEMMA OrderedStep == Ordered /\ [Next]_vars => Ordered'
<1> SUFFICES ASSUME Ordered, [Next]_vars PROVE Ordered'
  OBVIOUS
<1> USE DEF Ordered
<1>0. Visible' /\ Admitted' /\ Selected'
  <2> TypeOK
    BY DEF Visible
  <2> QED
    BY VisibleStep, PendingStep, SelectedStep
<1>t. TypeOK /\ PromotedIffVisible
  BY DEF Visible
<1>a. \A i \in Ids : input[i] # None =>
        /\ input[i].id = i /\ input[i] \in Input
        /\ input[i].session \in Sessions /\ seq[input[i].session] \in Int
        /\ input[i].admitted \in Int /\ input[i].promoted \in Int
        /\ input[i].admitted <= seq[input[i].session]
        /\ input[i].promoted <= seq[input[i].session]
  <2> SUFFICES ASSUME NEW i \in Ids, input[i] # None
               PROVE  /\ input[i].id = i /\ input[i] \in Input
                      /\ input[i].session \in Sessions /\ seq[input[i].session] \in Int
                      /\ input[i].admitted \in Int /\ input[i].promoted \in Int
                      /\ input[i].admitted <= seq[input[i].session]
                      /\ input[i].promoted <= seq[input[i].session]
    OBVIOUS
  <2>1. input[i] \in Input /\ input[i].id = i
        /\ input[i].admitted <= seq[input[i].session]
        /\ seq \in [Sessions -> -1..MaxSeq]
    BY <1>t DEF TypeOK
  <2>2. \/ input[i].promoted = -1
        \/ /\ message[i] # None /\ message[i].session = input[i].session
           /\ message[i].seq = input[i].promoted
    BY <1>t DEF PromotedIffVisible
  <2>3. input[i].promoted <= seq[input[i].session]
    BY <1>t, <2>1, <2>2 DEF TypeOK, Input
  <2> QED
    BY <2>1, <2>3 DEF Input
<1>1. ASSUME NEW c \in Clients, Admits(c) PROVE InAdmissionOrder'
  <2> PICK req \in Request : req = client[c].req
    BY <1>1 DEF Admits
  <2>1. req.id \in Ids /\ req.session \in Sessions
    BY DEF Request
  <2>2. /\ input'[req.id].session = req.session /\ input'[req.id].promoted = -1
        /\ input'[req.id].admitted = seq[req.session] + 1
        /\ \A j \in Ids \ {req.id} : input'[j] = input[j]
    BY <1>1, <2>1 DEF Admits, TypeOK, Visible
  <2>3. ASSUME NEW j \in Ids \ {req.id}, input[j] # None, input[j].session = req.session
        PROVE  ~ (input'[req.id].admitted < input[j].admitted)
    BY <1>a, <2>2, <2>3
  <2> QED
    BY <2>1, <2>2, <2>3 DEF InAdmissionOrder
<1>2. ASSUME NEW p \in Promoters, NEW r \in promoter[p], Promotes(p, r)
      PROVE  InAdmissionOrder'
  <2>1. PICK row \in Input :
           /\ row.id = r.id /\ row.session = r.session /\ row.content = r.content
           /\ row.delivery = r.delivery /\ row.promoted = seq[r.session] + 1
           /\ \/ /\ input[r.id] # None /\ input[r.id].promoted = -1
                 /\ row.admitted = input[r.id].admitted
                 /\ row.created = r.created /\ input[r.id].created = r.created
                 /\ input[r.id].session = r.session /\ input[r.id].content = r.content
                 /\ input[r.id].delivery = r.delivery
              \/ row.admitted = row.promoted /\ input[r.id] = None
           /\ message[r.id] = None /\ Advance(r.session)
           /\ input' = [input EXCEPT ![r.id] = row]
           /\ message' = [message EXCEPT ![r.id] =
                [session |-> r.session, seq |-> row.promoted, type |-> "user"]]
           /\ promoter' = [promoter EXCEPT ![p] = @ \ {r}]
           /\ UNCHANGED <<reverted, client>>
    BY <1>2, <1>t, Shown
  <2>2. r.id \in Ids /\ r.session \in Sessions /\ r.admitted \in Int
        /\ seq[r.session] \in Int
    BY <1>t DEF TypeOK, Input
  <2>3. input'[r.id] = row /\ \A i \in Ids \ {r.id} : input'[i] = input[i]
    BY <1>t, <2>1, <2>2 DEF TypeOK
  <2>4. CASE row.admitted = row.promoted
    <3>1. ASSUME NEW j \in Ids \ {r.id}, input[j] # None, input[j].session = row.session
          PROVE  ~ (row.admitted < input[j].admitted)
      BY <1>a, <2>1, <2>2, <2>4, <3>1
    <3> QED
      BY <2>2, <2>3, <2>4, <3>1 DEF InAdmissionOrder
  <2>5. CASE row.admitted # row.promoted
    <3>1. /\ input[r.id] # None /\ input[r.id].promoted = -1
          /\ input[r.id].session = row.session /\ input[r.id].delivery = row.delivery
          /\ input[r.id].admitted = row.admitted
          /\ row.admitted = r.admitted
      BY <2>1, <2>2, <2>5 DEF Admitted, Selected
    <3>2. ASSUME NEW i \in Ids \ {r.id}, input[i] # None, input[i].session = row.session,
                 input[i].delivery = row.delivery, input[i].admitted < row.admitted
          PROVE  input[i].promoted # -1 /\ input[i].promoted < row.promoted
      <4>1. ASSUME input[i].promoted = -1 PROVE FALSE
        <5>1. input[i] \in promoter[p]
          BY <2>1, <3>1, <3>2, <4>1 DEF Selected
        <5>2. r.admitted <= input[i].admitted
          BY <1>2, <5>1 DEF Promotes, First
        <5> QED
          BY <1>a, <2>2, <3>1, <3>2, <5>2
      <4> QED
        BY <1>a, <2>1, <2>2, <3>2, <4>1
    <3>3. ASSUME NEW j \in Ids \ {r.id}, input[j] # None, input[j].session = row.session,
                 input[j].delivery = row.delivery, row.admitted < input[j].admitted,
                 input[j].promoted # -1, input[j].admitted # input[j].promoted
          PROVE  FALSE
      BY <2>2, <3>1, <3>3 DEF InAdmissionOrder
    <3>4. ~ (row.admitted < row.admitted)
      BY DEF Input
    <3> QED
      BY <2>2, <2>3, <3>2, <3>3, <3>4 DEF InAdmissionOrder
  <2> QED
    BY <2>4, <2>5
<1>3. ASSUME NEW s \in Sessions, NEW i \in Ids, AppendOther(s, i) \/ CommitRevert(s, i)
      PROVE  InAdmissionOrder'
  <2>1. \A j \in Ids : input'[j] = None \/ input'[j] = input[j]
    BY <1>3 DEF AppendOther, CommitRevert
  <2> QED
    BY <2>1 DEF InAdmissionOrder
<1>4. CASE UNCHANGED tables
  <2>1. input' = input
    BY <1>4 DEF tables
  <2> QED
    BY <1>0, <2>1 DEF InAdmissionOrder
<1> QED
  BY <1>0, <1>1, <1>2, <1>3, <1>4, <1>t, Steps

\* Steers, and queued prompts, of a Session become visible in the order of
\* their admission, also when promoters overlap or stop half way.
THEOREM PromotedInOrder == Spec => []InAdmissionOrder
<1>1. Init => Ordered
  BY TypeInit DEF Init, Ordered, Visible, Behind, PromotedIffVisible, Admitted, Selected,
                  InAdmissionOrder
<1> QED
  BY <1>1, OrderedStep, PTL DEF Spec, Ordered

-----------------------------------------------------------------------------
(***************************************************************************)
(* What the clients are told.                                              *)
(***************************************************************************)
\* A row keeps its request and its admission, and a message stays as it is,
\* unless a revert takes them.
LEMMA RowsStay ==
  ASSUME TypeOK, [Next]_vars, NEW i \in Ids, i \notin reverted'
  PROVE  /\ i \notin reverted
         /\ input[i] # None =>
              /\ input'[i] # None /\ Stored(input'[i]) = Stored(input[i])
              /\ input'[i].admitted = input[i].admitted
         /\ message[i] # None => message'[i] = message[i]
<1>1. ASSUME NEW c \in Clients, Admits(c)
      PROVE  /\ reverted' = reverted /\ message' = message
             /\ input[i] # None => input'[i] = input[i]
  BY <1>1 DEF Admits, Free, TypeOK, Request
<1>2. ASSUME NEW p \in Promoters, NEW r \in promoter[p], Promotes(p, r)
      PROVE  /\ reverted' = reverted
             /\ input[i] # None =>
                  /\ input'[i] # None /\ Stored(input'[i]) = Stored(input[i])
                  /\ input'[i].admitted = input[i].admitted
             /\ message[i] # None => message'[i] = message[i]
  <2>1. PICK row \in Input :
           /\ row.id = r.id /\ row.session = r.session /\ row.content = r.content
           /\ row.delivery = r.delivery /\ row.promoted = seq[r.session] + 1
           /\ \/ /\ input[r.id] # None /\ input[r.id].promoted = -1
                 /\ row.admitted = input[r.id].admitted
                 /\ row.created = r.created /\ input[r.id].created = r.created
                 /\ input[r.id].session = r.session /\ input[r.id].content = r.content
                 /\ input[r.id].delivery = r.delivery
              \/ row.admitted = row.promoted /\ input[r.id] = None
           /\ message[r.id] = None /\ Advance(r.session)
           /\ input' = [input EXCEPT ![r.id] = row]
           /\ message' = [message EXCEPT ![r.id] =
                [session |-> r.session, seq |-> row.promoted, type |-> "user"]]
           /\ promoter' = [promoter EXCEPT ![p] = @ \ {r}]
           /\ UNCHANGED <<reverted, client>>
    BY <1>2, Shown
  <2>2. CASE i = r.id
    <3>1. input'[i] = row /\ row # None /\ reverted' = reverted
      BY <2>1, <2>2 DEF TypeOK
    <3>2. input[i] # None => input[i].id = i
      BY DEF TypeOK
    <3> QED
      BY <2>1, <2>2, <3>1, <3>2 DEF Stored
  <2>3. CASE i # r.id
    BY <2>1, <2>3 DEF TypeOK
  <2> QED
    BY <2>2, <2>3
<1>3. ASSUME NEW s \in Sessions, NEW j \in Ids, AppendOther(s, j)
      PROVE  /\ UNCHANGED <<reverted, input>>
             /\ message[i] # None => message'[i] = message[i]
  BY <1>3 DEF AppendOther, TypeOK
<1>4. ASSUME NEW s \in Sessions, NEW j \in Ids, CommitRevert(s, j)
      PROVE  /\ i \notin reverted
             /\ input[i] # None => input'[i] = input[i]
             /\ message[i] # None => message'[i] = message[i]
  BY <1>4 DEF CommitRevert
<1>5. UNCHANGED tables => UNCHANGED <<reverted, input, message>>
  BY DEF tables
<1> QED
  BY <1>1, <1>2, <1>3, <1>4, <1>5, Steps

\* A client that lost the race knows why, and has its answer from it.
Lost(c) ==
  client[c].at = "recovering" /\ client[c].req.id \notin reverted =>
    LET i == client[c].req.id IN
      input[i] # None \/ (message[i] # None /\ message[i].type = "other")

Answered == Visible /\ ReceiptsHold /\ RefusalsJustified /\ \A c \in Clients : Lost(c)

\* A step of client c's own call.
CallStep(c) == (\E req \in Request : Prompt(c, req)) \/ PublishAdmitted(c) \/ Recover(c)

LEMMA OthersStay ==
  ASSUME TypeOK, [Next]_vars, NEW c \in Clients, ~ CallStep(c)
  PROVE  client'[c] = client[c] \/ client'[c] = Idle
<1>1. ASSUME NEW d \in Clients, CallStep(d) PROVE client'[c] = client[c]
  BY <1>1 DEF CallStep, Prompt, PublishAdmitted, Recover, AnswerWith, Answer, TypeOK
<1>2. ASSUME NEW p \in Promoters,
             \/ Publish(p) \/ Interrupt(p)
             \/ \E s \in Sessions :
                  SelectQueued(p, s) \/ \E cutoff \in -1..seq[s] : SelectSteers(p, s, cutoff)
      PROVE  client'[c] = client[c]
  BY <1>2 DEF Publish, PublishPending, PublishMissing, SkipPromoted, Collide, Show,
              Interrupt, SelectQueued, SelectSteers
<1>3. ASSUME NEW s \in Sessions, NEW i \in Ids, AppendOther(s, i) \/ CommitRevert(s, i)
      PROVE  client'[c] = client[c]
  BY <1>3 DEF AppendOther, CommitRevert
<1>4. Crash => client'[c] = Idle
  BY DEF Crash
<1> QED
  BY <1>1, <1>2, <1>3, <1>4 DEF Next, vars, CallStep

\* The answers that admit gives from a stored row are true.
LEMMA StoredAnswer ==
  ASSUME TypeOK, NEW c \in Clients, NEW req \in Request, input[req.id] # None,
         AnswerWith(c, req, input[req.id])
  PROVE  /\ client'[c].at = "done" /\ client'[c].req = req
         /\ client'[c].answer # Refused =>
              /\ Stored(input[req.id]) = req
              /\ input[req.id].admitted = client'[c].answer
         /\ client'[c].answer = Refused => Stored(input[req.id]) # req
<1> DEFINE row == input[req.id]
<1>1. row \in Input /\ row.id = req.id /\ req.id \in Ids
  BY DEF TypeOK, Request
<1>2. client'[c] = [at |-> "done", req |-> req,
                    answer |-> IF Equivalent(row, req) THEN row.admitted ELSE Refused]
  BY DEF AnswerWith, Answer, TypeOK
<1>3. row.admitted # Refused
  BY <1>1 DEF Input, Refused
<1>4. Equivalent(row, req) <=> Stored(row) = req
  <2> HIDE DEF row
  <2>1. req = [id |-> req.id, session |-> req.session, content |-> req.content,
               delivery |-> req.delivery]
    BY DEF Request
  <2> QED
    BY <1>1, <2>1 DEF Equivalent, Stored
<1> QED
  BY <1>2, <1>3, <1>4

LEMMA AnsweredStep == Answered /\ [Next]_vars => Answered'
<1> SUFFICES ASSUME Answered, [Next]_vars PROVE Answered'
  OBVIOUS
<1>t. Visible' /\ Visible /\ TypeOK /\ PromotedIffVisible
  BY VisibleStep DEF Answered, Visible
<1> SUFFICES ASSUME NEW c \in Clients
             PROVE  /\ client'[c].at = "done" /\ client'[c].req.id \notin reverted' =>
                         LET i == client'[c].req.id IN
                           /\ client'[c].answer # Refused =>
                                /\ input'[i] # None /\ Stored(input'[i]) = client'[c].req
                                /\ input'[i].admitted = client'[c].answer
                           /\ client'[c].answer = Refused =>
                                \/ input'[i] # None /\ Stored(input'[i]) # client'[c].req
                                \/ message'[i] # None /\ message'[i].type = "other"
                    /\ client'[c].at = "recovering" /\ client'[c].req.id \notin reverted' =>
                         LET i == client'[c].req.id IN
                           input'[i] # None \/ (message'[i] # None /\ message'[i].type = "other")
  BY <1>t DEF Answered, ReceiptsHold, RefusalsJustified, Lost
<1>k. \A i \in Ids : i \notin reverted' =>
        /\ i \notin reverted
        /\ input[i] # None =>
             /\ input'[i] # None /\ Stored(input'[i]) = Stored(input[i])
             /\ input'[i].admitted = input[i].admitted
        /\ message[i] # None => message'[i] = message[i]
  BY <1>t, RowsStay
<1>c. /\ client[c].at # "idle" => client[c].req \in Request /\ client[c].req.id \in Ids
      /\ client[c].at = "publishing" => client[c] = [at |-> "publishing", req |-> client[c].req]
  BY <1>t DEF TypeOK, Idle, Request
<1>1. CASE ~ CallStep(c)
  <2>1. CASE client'[c] = Idle
    BY <2>1 DEF Idle
  <2>2. CASE client'[c] = client[c]
    <3> SUFFICES ASSUME client[c].at # "idle", client[c].req.id \notin reverted'
                 PROVE  /\ client[c].at = "done" =>
                             LET i == client[c].req.id IN
                               /\ client[c].answer # Refused =>
                                    /\ input'[i] # None /\ Stored(input'[i]) = client[c].req
                                    /\ input'[i].admitted = client[c].answer
                               /\ client[c].answer = Refused =>
                                    \/ input'[i] # None /\ Stored(input'[i]) # client[c].req
                                    \/ message'[i] # None /\ message'[i].type = "other"
                        /\ client[c].at = "recovering" =>
                             LET i == client[c].req.id IN
                               input'[i] # None \/ (message'[i] # None /\ message'[i].type = "other")
      BY <2>2
    <3> PICK i \in Ids : i = client[c].req.id
      BY <1>c
    <3>1. /\ i \notin reverted
          /\ input[i] # None =>
               /\ input'[i] # None /\ Stored(input'[i]) = Stored(input[i])
               /\ input'[i].admitted = input[i].admitted
          /\ message[i] # None => message'[i] = message[i]
      BY <1>k
    <3>2. client[c].at = "done" /\ client[c].answer # Refused =>
            /\ input[i] # None /\ Stored(input[i]) = client[c].req
            /\ input[i].admitted = client[c].answer
      BY <3>1 DEF Answered, ReceiptsHold
    <3>3. client[c].at = "done" /\ client[c].answer = Refused =>
            \/ input[i] # None /\ Stored(input[i]) # client[c].req
            \/ message[i] # None /\ message[i].type = "other"
      BY <3>1 DEF Answered, RefusalsJustified
    <3>4. client[c].at = "recovering" =>
            input[i] # None \/ (message[i] # None /\ message[i].type = "other")
      BY <3>1 DEF Answered, Lost
    <3> QED
      BY <3>1, <3>2, <3>3, <3>4
  <2> QED
    BY <1>1, <1>t, <2>1, <2>2, OthersStay
<1>2. ASSUME NEW req \in Request, input[req.id] # None,
             AnswerWith(c, req, input[req.id]), UNCHANGED tables
      PROVE  /\ client'[c].at = "done" /\ client'[c].req = req
             /\ input' = input
             /\ client'[c].answer # Refused =>
                  /\ Stored(input[req.id]) = req
                  /\ input[req.id].admitted = client'[c].answer
             /\ client'[c].answer = Refused => Stored(input[req.id]) # req
  BY <1>2, <1>t, StoredAnswer DEF tables
<1>3. CASE \E req \in Request : Prompt(c, req)
  <2> PICK req \in Request : Prompt(c, req)
    BY <1>3
  <2>1. CASE input[req.id] # None
    <3>1. AnswerWith(c, req, input[req.id]) /\ UNCHANGED tables
      BY <2>1 DEF Prompt
    <3> QED
      BY <1>2, <2>1, <3>1
  <2>2. CASE input[req.id] = None
    <3>1. client'[c].at = "publishing"
      BY <1>t, <2>2 DEF Prompt, TypeOK
    <3> QED
      BY <3>1
  <2> QED
    BY <2>1, <2>2
<1>4. CASE PublishAdmitted(c)
  <2> PICK req \in Request : req = client[c].req
    BY <1>4, <1>c DEF PublishAdmitted
  <2>1. CASE Free(req.id)
    <3> DEFINE n == seq[req.session] + 1
               row == [id |-> req.id, session |-> req.session, content |-> req.content,
                       delivery |-> req.delivery, admitted |-> n, promoted |-> -1,
                       created |-> n]
    <3>1. /\ client'[c] = [at |-> "done", req |-> req, answer |-> n]
          /\ input' = [input EXCEPT ![req.id] = row] /\ Advance(req.session)
      BY <1>4, <1>t, <2>1 DEF PublishAdmitted, Answer, TypeOK
    <3>2. n \in 0..MaxSeq /\ req.session \in Sessions /\ req.id \in Ids
      BY <1>t, <3>1, SeqGrows DEF Request
    <3> HIDE DEF n
    <3>3. row \in Input
      BY <3>2 DEF Input, Request
    <3>4. req = [id |-> req.id, session |-> req.session, content |-> req.content,
                 delivery |-> req.delivery]
      BY DEF Request
    <3>5. Stored(row) = req /\ row.admitted = n
      BY <3>4 DEF Stored
    <3> HIDE DEF row
    <3>6. input'[req.id] = row /\ row # None
      BY <1>t, <3>1, <3>2, <3>3 DEF TypeOK
    <3> QED
      BY <3>1, <3>2, <3>5, <3>6 DEF Refused
  <2>2. CASE ~ Free(req.id)
    <3>1. /\ client'[c] = [at |-> "recovering", req |-> req]
          /\ UNCHANGED tables
      BY <1>4, <1>t, <1>c, <2>2 DEF PublishAdmitted, TypeOK
    <3>2. input' = input /\ message' = message
      BY <3>1 DEF tables
    <3>3. message[req.id] = None \/ message[req.id].type \in {"user", "other"}
      BY <1>t DEF TypeOK, Message, Request
    <3>4. input[req.id] # None \/ (message[req.id] # None /\ message[req.id].type = "other")
      <4>1. req.id \in Ids
        BY DEF Request
      <4>2. message[req.id] # None /\ message[req.id].type = "user" => input[req.id] # None
        BY <1>t, <4>1 DEF PromotedIffVisible
      <4> QED
        BY <2>2, <3>3, <4>2 DEF Free
    <3> QED
      BY <3>1, <3>2, <3>4
  <2> QED
    BY <2>1, <2>2
<1>5. CASE Recover(c)
  <2> PICK req \in Request : req = client[c].req
    BY <1>5, <1>c DEF Recover
  <2>1. CASE input[req.id] # None
    <3>1. AnswerWith(c, req, input[req.id]) /\ UNCHANGED tables
      BY <1>5, <2>1 DEF Recover, Found
    <3> QED
      BY <1>2, <2>1, <3>1
  <2>2. CASE input[req.id] = None
    <3>1. client'[c] = [at |-> "done", req |-> req, answer |-> Refused] /\ UNCHANGED tables
      BY <1>5, <1>t, <2>2 DEF Recover, Found, Answer, TypeOK
    <3>2. input' = input /\ message' = message /\ reverted' = reverted
      BY <3>1 DEF tables
    <3>3. req.id \notin reverted => message[req.id] # None /\ message[req.id].type = "other"
      BY <1>5, <2>2 DEF Answered, Lost, Recover
    <3> QED
      BY <3>1, <3>2, <3>3
  <2> QED
    BY <2>1, <2>2
<1> QED
  BY <1>1, <1>3, <1>4, <1>5 DEF CallStep

LEMMA AnsweredInit == Init => Answered
BY TypeInit DEF Init, Answered, Visible, Behind, PromotedIffVisible, ReceiptsHold,
                RefusalsJustified, Lost, Idle

\* A receipt is for the prompt that is stored under the id, the same on every
\* retry, until a revert takes the prompt back.
THEOREM ReceiptsTrue == Spec => []ReceiptsHold
BY AnsweredInit, AnsweredStep, PTL DEF Spec, Answered

\* A client is refused only if something else has its id: a retry that races
\* the first call is not.
THEOREM RefusalsTrue == Spec => []RefusalsJustified
BY AnsweredInit, AnsweredStep, PTL DEF Spec, Answered

=============================================================================
