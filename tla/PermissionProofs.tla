-------------------------- MODULE PermissionProofs --------------------------
(***************************************************************************)
(* Theorems of Permission, for any number of requests, Sessions, resources *)
(* and clients that reply.                                                 *)
(***************************************************************************)
EXTENDS Permission, TLAPS

Answering == [at : {"answering"}, req : Requests, reply : {"once", "always", "reject"}]
Saving == [at : {"saved"}, req : Requests]
Remembering == [at : {"remembering"}, req : Requests]
Rejecting == [at : {"rejecting"}, session : Sessions, item : Requests \cup {None}]
Matching == [at : {"matching"}, rules : SUBSET Resources, seen : SUBSET Requests,
             item : Requests \cup {None}]

\* What a replier works on has the form of what it is at.
LEMMA Shape ==
  ASSUME TypeOK, NEW u \in Repliers
  PROVE  /\ At(u, "answering") => replier[u] \in Answering
         /\ At(u, "saved") => replier[u] \in Saving
         /\ At(u, "remembering") => replier[u] \in Remembering
         /\ At(u, "rejecting") => replier[u] \in Rejecting
         /\ At(u, "matching") => replier[u] \in Matching
<1>1. replier[u] \in {Idle} \cup Working  BY DEF TypeOK
<1>2. replier[u] = Idle \/ replier[u] \in Answering \/ replier[u] \in Saving
        \/ replier[u] \in Remembering \/ replier[u] \in Rejecting \/ replier[u] \in Matching
  BY <1>1 DEF Working, Answering, Saving, Remembering, Rejecting, Matching
<1>3. CASE replier[u] = Idle  BY <1>3 DEF Idle, At
<1>4. CASE replier[u] \in Answering  BY <1>4 DEF Answering, At
<1>5. CASE replier[u] \in Saving  BY <1>5 DEF Saving, At
<1>6. CASE replier[u] \in Rejecting  BY <1>6 DEF Rejecting, At
<1>7. CASE replier[u] \in Matching  BY <1>7 DEF Matching, At
<1>8. CASE replier[u] \in Remembering  BY <1>8 DEF Remembering, At
<1> QED  BY <1>2, <1>3, <1>4, <1>5, <1>6, <1>7, <1>8

\* A replier that goes on to work of one of the forms keeps the type.
LEMMA GoesTyped ==
  ASSUME TypeOK, NEW u \in Repliers, NEW state, Goes(u, state),
         state = Idle \/ state \in Answering \/ state \in Saving \/ state \in Remembering
           \/ state \in Rejecting \/ state \in Matching
  PROVE  replier' \in [Repliers -> {Idle} \cup Working]
<1>1. state \in {Idle} \cup Working
  BY DEF Working, Answering, Saving, Remembering, Rejecting, Matching
<1> QED  BY <1>1 DEF TypeOK, Goes

\* Every variable keeps its type.
LEMMA TypeInit == Init => TypeOK
<1> SUFFICES ASSUME Init PROVE TypeOK  OBVIOUS
<1>1. replier \in [Repliers -> {Idle} \cup Working]  BY DEF Init
<1> QED  BY <1>1 DEF Init, TypeOK, Outcomes

LEMMA TypeStep == TypeOK /\ [Next]_vars => TypeOK'
<1> SUFFICES ASSUME TypeOK, [Next]_vars PROVE TypeOK'  OBVIOUS
<1> USE PermissionAssumption DEF outside, Unbarred
<1>1. CASE UNCHANGED vars  BY <1>1 DEF TypeOK, vars, history
<1>2. ASSUME NEW r \in Requests, Asserts(r) \/ Stopped(r) PROVE TypeOK'
  <2>1. CASE Evaluate(r)  BY <2>1 DEF TypeOK, Evaluate, Becomes, history, Outcomes
  <2>2. CASE Create(r)  BY <2>2 DEF TypeOK, Create, Becomes, Outcomes
  <2>3. CASE Asked(r)  BY <2>3 DEF TypeOK, Asked, Becomes, history, Outcomes
  <2>4. CASE Answered(r)  BY <2>4 DEF TypeOK, Answered, Becomes, Drop, Outcomes
  <2>5. CASE Stopped(r)  BY <2>5 DEF TypeOK, Stopped, Becomes, Drop, Outcomes
  <2> QED  BY <1>2, <2>1, <2>2, <2>3, <2>4, <2>5 DEF Asserts
<1>3. ASSUME NEW u \in Repliers, Replies(u) \/ Dies(u) \/ \E r \in Requests : Reply(u, r)
      PROVE  TypeOK'
  <2>1. ASSUME NEW r \in Requests, Reply(u, r) PROVE TypeOK'
    <3>1. PICK reply \in {"once", "always", "reject"} :
            Goes(u, [at |-> "answering", req |-> r, reply |-> reply])
      BY <2>1 DEF Reply
    <3>2. replier' \in [Repliers -> {Idle} \cup Working]
      BY <3>1, GoesTyped DEF Answering
    <3> QED  BY <2>1, <3>2 DEF Reply, TypeOK, history
  <2>2. CASE Reject(u)
    <3>1. replier[u] \in Answering  BY <2>2, Shape DEF Reject
    <3> DEFINE r == replier[u].req
    <3>2. r \in Requests /\ SessionOf[r] \in Sessions  BY <3>1 DEF Answering
    <3>3. Goes(u, [at |-> "rejecting", session |-> SessionOf[r], item |-> None])
      BY <2>2 DEF Reject
    <3>4. replier' \in [Repliers -> {Idle} \cup Working]
      BY <3>2, <3>3, GoesTyped DEF Rejecting
    <3> QED  BY <2>2, <3>2, <3>4 DEF Reject, TypeOK, Complete, Drop, OfSession, Outcomes
  <2>3. CASE RejectNext(u)
    <3>1. replier[u] \in Rejecting  BY <2>3, Shape DEF RejectNext
    <3>2. \/ Goes(u, Idle)
          \/ \E p \in Requests : Goes(u, [replier[u] EXCEPT !.item = p])
      BY <2>3 DEF RejectNext, OfSession, TypeOK
    <3>3. \A p \in Requests : [replier[u] EXCEPT !.item = p] \in Rejecting
      BY <3>1 DEF Rejecting
    <3>4. replier' \in [Repliers -> {Idle} \cup Working]
      BY <3>2, <3>3, GoesTyped
    <3> QED  BY <2>3, <3>4 DEF RejectNext, TypeOK, history
  <2>4. CASE RejectItem(u)
    <3>1. replier[u] \in Rejecting /\ replier[u].item \in Requests
      BY <2>4, Shape DEF RejectItem, Rejecting
    <3>2. [replier[u] EXCEPT !.item = None] \in Rejecting  BY <3>1 DEF Rejecting
    <3>3. replier' \in [Repliers -> {Idle} \cup Working]
      BY <2>4, <3>2, GoesTyped DEF RejectItem
    <3> QED  BY <2>4, <3>1, <3>3 DEF RejectItem, Settle, Complete, Drop, TypeOK, Outcomes
  <2>5. CASE AllowOnce(u)
    <3>1. replier[u].req \in Requests  BY <2>5, Shape DEF AllowOnce, Answering
    <3>2. replier' \in [Repliers -> {Idle} \cup Working]
      BY <2>5, GoesTyped DEF AllowOnce
    <3> QED  BY <2>5, <3>1, <3>2 DEF AllowOnce, Settle, Complete, Drop, TypeOK, Outcomes
  <2>6. CASE SaveRules(u)
    <3>1. replier[u].req \in Requests  BY <2>6, Shape DEF SaveRules, Answering
    <3>2. [at |-> "saved", req |-> replier[u].req] \in Saving  BY <3>1 DEF Saving
    <3>3. replier' \in [Repliers -> {Idle} \cup Working]
      BY <2>6, <3>2, GoesTyped DEF SaveRules
    <3> QED  BY <2>6, <3>1, <3>3 DEF SaveRules, TypeOK, history
  <2>7. CASE AllowAlways(u)
    <3>1. replier[u].req \in Requests  BY <2>7, Shape DEF AllowAlways, Saving
    <3>2. [at |-> "remembering", req |-> replier[u].req] \in Remembering
      BY <3>1 DEF Remembering
    <3>3. replier' \in [Repliers -> {Idle} \cup Working]
      BY <2>7, <3>2, GoesTyped DEF AllowAlways
    <3> QED  BY <2>7, <3>1, <3>3 DEF AllowAlways, Settle, Complete, Drop, TypeOK, Outcomes
  <2>8. CASE MatchNext(u)
    <3>1. replier[u] \in Matching  BY <2>8, Shape DEF MatchNext
    <3>2. \/ Goes(u, Idle)
          \/ \E p \in Requests :
               Goes(u, [replier[u] EXCEPT !.seen = @ \cup {p},
                          !.item = IF Matches(u, p) THEN p ELSE None])
      BY <2>8 DEF MatchNext, TypeOK
    <3>3. \A p \in Requests :
            [replier[u] EXCEPT !.seen = @ \cup {p},
               !.item = IF Matches(u, p) THEN p ELSE None] \in Matching
      BY <3>1 DEF Matching
    <3>4. replier' \in [Repliers -> {Idle} \cup Working]
      BY <3>2, <3>3, GoesTyped
    <3> QED  BY <2>8, <3>4 DEF MatchNext, TypeOK, history
  <2>9. CASE MatchItem(u)
    <3>1. replier[u] \in Matching /\ replier[u].item \in Requests
      BY <2>9, Shape DEF MatchItem, Matching
    <3>2. [replier[u] EXCEPT !.item = None] \in Matching  BY <3>1 DEF Matching
    <3>3. replier' \in [Repliers -> {Idle} \cup Working]
      BY <2>9, <3>2, GoesTyped DEF MatchItem
    <3> QED  BY <2>9, <3>1, <3>3 DEF MatchItem, Settle, Complete, Drop, TypeOK, Outcomes
  <2>10. CASE Remember(u)
    <3>1. [at |-> "matching", rules |-> saved, seen |-> {}, item |-> None] \in Matching
      BY DEF Matching, TypeOK
    <3>2. replier' \in [Repliers -> {Idle} \cup Working]
      BY <2>10, <3>1, GoesTyped DEF Remember
    <3> QED  BY <2>10, <3>2 DEF Remember, TypeOK, history
  <2>11. CASE Dies(u)
    <3>1. replier' \in [Repliers -> {Idle} \cup Working]  BY <2>11, GoesTyped DEF Dies
    <3>2. excused' \subseteq Requests /\ barred' \subseteq Repliers \X Requests
      BY <2>11 DEF Dies, TypeOK
    <3> QED  BY <2>11, <3>1, <3>2 DEF Dies, TypeOK
  <2> QED
    BY <1>3, <2>1, <2>2, <2>3, <2>4, <2>5, <2>6, <2>7, <2>8, <2>9, <2>10, <2>11 DEF Replies
<1>4. ASSUME NEW x \in Resources, Forget(x) PROVE TypeOK'
  BY <1>4 DEF TypeOK, Forget, history
<1>5. CASE Close  BY <1>5 DEF TypeOK, Close, Outcomes
<1>6. ASSUME NEW s \in Sessions, Delete(s) PROVE TypeOK'
  BY <1>6 DEF TypeOK, Delete, history
<1> QED  BY <1>1, <1>2, <1>3, <1>4, <1>5, <1>6 DEF Next

\* Every variable of the requests, the repliers and the approvals keeps its
\* type.
THEOREM TypeCorrect == Spec => []TypeOK
BY TypeInit, TypeStep, PTL DEF Spec

-----------------------------------------------------------------------------
(***************************************************************************)
(* Who waits is pending.                                                   *)
(***************************************************************************)
LEMMA WaiterStep == TypeOK /\ WaiterIsPending /\ [Next]_vars => WaiterIsPending'
<1> SUFFICES ASSUME TypeOK, WaiterIsPending, [Next]_vars,
                    ~closed', NEW r \in Requests, Waits(r)'
             PROVE  r \in pending'
  BY DEF WaiterIsPending
<1> USE DEF outside
<1>1. CASE UNCHANGED vars  BY <1>1 DEF vars, WaiterIsPending, Waits
<1>2. ASSUME NEW q \in Requests, Asserts(q) \/ Stopped(q) PROVE r \in pending'
  <2>1. CASE Evaluate(q)
    BY <2>1 DEF WaiterIsPending, Waits, TypeOK, Evaluate, Becomes, history
  <2>2. CASE Create(q)
    BY <2>2 DEF WaiterIsPending, Waits, TypeOK, Create, Becomes
  <2>3. CASE Asked(q)
    BY <2>3 DEF WaiterIsPending, Waits, TypeOK, Asked, Becomes, history
  <2>4. CASE Answered(q)
    BY <2>4 DEF WaiterIsPending, Waits, TypeOK, Answered, Becomes, Drop, Outcomes
  <2>5. CASE Stopped(q)
    BY <2>5 DEF WaiterIsPending, Waits, TypeOK, Stopped, Becomes, Drop, Outcomes
  <2> QED  BY <1>2, <2>1, <2>2, <2>3, <2>4, <2>5 DEF Asserts
<1>3. ASSUME NEW u \in Repliers, Replies(u) \/ Dies(u) \/ \E q \in Requests : Reply(u, q)
      PROVE  r \in pending'
  <2>1. CASE \E q \in Requests : Reply(u, q)
    BY <2>1 DEF WaiterIsPending, Waits, Reply, history
  <2>2. CASE RejectNext(u) \/ SaveRules(u) \/ Remember(u) \/ MatchNext(u) \/ Dies(u)
    BY <2>2 DEF WaiterIsPending, Waits, RejectNext, SaveRules, Remember, MatchNext, Dies, history
  \* The requests that are dropped are answered in the same step.
  <2>3. CASE Reject(u)
    <3>1. replier[u].req \in Requests  BY <2>3, Shape DEF Reject, Answering
    <3> QED  BY <2>3, <3>1 DEF WaiterIsPending, Waits, TypeOK, Reject, Complete, Drop
  <2>4. CASE RejectItem(u)
    <3>1. replier[u].item \in Requests  BY <2>4, Shape DEF RejectItem, Rejecting
    <3> QED  BY <2>4, <3>1 DEF WaiterIsPending, Waits, TypeOK, RejectItem, Settle, Complete, Drop
  <2>5. CASE AllowOnce(u)
    <3>1. replier[u].req \in Requests  BY <2>5, Shape DEF AllowOnce, Answering
    <3> QED  BY <2>5, <3>1 DEF WaiterIsPending, Waits, TypeOK, AllowOnce, Settle, Complete, Drop
  <2>6. CASE AllowAlways(u)
    <3>1. replier[u].req \in Requests  BY <2>6, Shape DEF AllowAlways, Saving
    <3> QED  BY <2>6, <3>1 DEF WaiterIsPending, Waits, TypeOK, AllowAlways, Settle, Complete, Drop
  <2>7. CASE MatchItem(u)
    <3>1. replier[u].item \in Requests  BY <2>7, Shape DEF MatchItem, Matching
    <3> QED  BY <2>7, <3>1 DEF WaiterIsPending, Waits, TypeOK, MatchItem, Settle, Complete, Drop
  <2> QED  BY <1>3, <2>1, <2>2, <2>3, <2>4, <2>5, <2>6, <2>7 DEF Replies
<1>4. ASSUME NEW x \in Resources, Forget(x) PROVE r \in pending'
  BY <1>4 DEF WaiterIsPending, Waits, Forget
<1>5. CASE Close  BY <1>5 DEF Close
<1>6. ASSUME NEW s \in Sessions, Delete(s) PROVE r \in pending'
  BY <1>6 DEF WaiterIsPending, Waits, Delete
<1> QED  BY <1>1, <1>2, <1>3, <1>4, <1>5, <1>6 DEF Next

\* Until the layer is closed, who waits for an answer is in the map.
THEOREM WaitersPending == Spec => []WaiterIsPending
<1>1. Init => WaiterIsPending  BY DEF Init, WaiterIsPending, Waits
<1> QED  BY <1>1, TypeCorrect, WaiterStep, PTL DEF Spec

-----------------------------------------------------------------------------
(***************************************************************************)
(* What passes has a source.                                               *)
(***************************************************************************)
\* What was evaluated, granted or registered names nothing that is denied.
Passed(r) ==
  \/ caller[r] \in {"evaluated", "replied", "covered"}
  \/ deferred[r] \in {"replied", "covered"}
  \/ r \in pending
Unblocked == \A r \in Requests : Passed(r) => ~Blocked(r)

\* The same holds of what a replier is about to grant, by approvals it read.
GrantsWell ==
  \A u \in Repliers :
    /\ At(u, "answering") \/ At(u, "saved") => ~Blocked(replier[u].req)
    /\ At(u, "matching") =>
         /\ replier[u].rules \subseteq approved
         /\ replier[u].item # None => Covered(replier[u].item, replier[u].rules)

Sourced ==
  \A r \in Requests :
    caller[r] = "covered" \/ deferred[r] = "covered" => Wants[r] \subseteq Allowed \cup approved

GrantInv == saved \subseteq approved /\ Unblocked /\ GrantsWell /\ Sourced

\* A replier that is given other work grants well if the others did and its
\* new work does.
LEMMA GoesWell ==
  ASSUME TypeOK, GrantsWell, NEW u \in Repliers, NEW state, Goes(u, state),
         approved \subseteq approved',
         state.at \in {"answering", "saved"} => ~Blocked(state.req),
         state.at = "matching" =>
           /\ state.rules \subseteq approved'
           /\ state.item # None => Covered(state.item, state.rules)
  PROVE  GrantsWell'
<1> SUFFICES ASSUME NEW v \in Repliers
             PROVE  /\ At(v, "answering")' \/ At(v, "saved")' => ~Blocked(replier'[v].req)
                    /\ At(v, "matching")' =>
                         /\ replier'[v].rules \subseteq approved'
                         /\ replier'[v].item # None =>
                              Covered(replier'[v].item, replier'[v].rules)
  BY DEF GrantsWell, Blocked, Covered
<1>1. replier'[v] = IF v = u THEN state ELSE replier[v]
  BY DEF TypeOK, Goes
<1>2. CASE v = u  BY <1>1, <1>2 DEF At
<1>3. CASE v # u  BY <1>1, <1>3 DEF At, GrantsWell
<1> QED  BY <1>2, <1>3

LEMMA GrantStep == TypeOK /\ GrantInv /\ [Next]_vars => GrantInv'
<1> SUFFICES ASSUME TypeOK, GrantInv, [Next]_vars PROVE GrantInv'  OBVIOUS
<1> USE PermissionAssumption DEF outside, Unbarred
<1>1. CASE UNCHANGED vars
  BY <1>1 DEF GrantInv, Unblocked, Passed, GrantsWell, Sourced, At, Blocked, Covered, vars, history
<1>2. ASSUME NEW r \in Requests, Asserts(r) \/ Stopped(r) PROVE GrantInv'
  <2>1. GrantsWell'
    <3>1. UNCHANGED <<replier, approved>>
      BY <1>2 DEF Asserts, Evaluate, Create, Asked, Answered, Stopped, history
    <3> QED  BY <3>1 DEF GrantInv, GrantsWell, At, Blocked, Covered
  <2>2. Unblocked'
    <3> SUFFICES ASSUME NEW q \in Requests, Passed(q)' PROVE ~Blocked(q)
      BY DEF Unblocked, Blocked
    <3>1. CASE Evaluate(r)
      BY <3>1 DEF TypeOK, GrantInv, Unblocked, Passed, Evaluate, Becomes, history
    <3>2. CASE Create(r)
      BY <3>2 DEF TypeOK, GrantInv, Unblocked, Passed, Create, Becomes
    <3>3. CASE Asked(r)
      BY <3>3 DEF TypeOK, GrantInv, Unblocked, Passed, Asked, Becomes, history
    <3>4. CASE Answered(r)
      BY <3>4 DEF TypeOK, GrantInv, Unblocked, Passed, Answered, Becomes, Drop, Outcomes
    <3>5. CASE Stopped(r)
      BY <3>5 DEF TypeOK, GrantInv, Unblocked, Passed, Stopped, Becomes, Drop
    <3> QED  BY <1>2, <3>1, <3>2, <3>3, <3>4, <3>5 DEF Asserts
  <2>3. Sourced'
    <3> SUFFICES ASSUME NEW q \in Requests, (caller[q] = "covered" \/ deferred[q] = "covered")'
                 PROVE  Wants[q] \subseteq Allowed \cup approved'
      BY DEF Sourced
    <3>1. CASE Evaluate(r)
      BY <3>1 DEF TypeOK, GrantInv, Sourced, Evaluate, Becomes, Covered, history
    <3>2. CASE Create(r)
      BY <3>2 DEF TypeOK, GrantInv, Sourced, Create, Becomes
    <3>3. CASE Asked(r)
      BY <3>3 DEF TypeOK, GrantInv, Sourced, Asked, Becomes, history
    <3>4. CASE Answered(r)
      BY <3>4 DEF TypeOK, GrantInv, Sourced, Answered, Becomes
    <3>5. CASE Stopped(r)
      BY <3>5 DEF TypeOK, GrantInv, Sourced, Stopped, Becomes
    <3> QED  BY <1>2, <3>1, <3>2, <3>3, <3>4, <3>5 DEF Asserts
  <2>4. saved' \subseteq approved'
    BY <1>2 DEF GrantInv, Asserts, Evaluate, Create, Asked, Answered, Stopped, history
  <2> QED  BY <2>1, <2>2, <2>3, <2>4 DEF GrantInv
<1>3. ASSUME NEW u \in Repliers, Replies(u) \/ Dies(u) \/ \E r \in Requests : Reply(u, r)
      PROVE  GrantInv'
  <2>1. ASSUME NEW r \in Requests, Reply(u, r) PROVE GrantInv'
    <3>1. ~Blocked(r)  BY <2>1 DEF Reply, GrantInv, Unblocked, Passed
    <3>2. GrantsWell'  BY <2>1, <3>1, GoesWell DEF Reply, GrantInv, history
    <3> QED
      BY <2>1, <3>2 DEF Reply, GrantInv, Unblocked, Passed, Sourced, Blocked, history
  <2>2. CASE Reject(u)
    <3>1. replier[u].req \in Requests  BY <2>2, Shape DEF Reject, Answering
    <3>2. GrantsWell'  BY <2>2, GoesWell DEF Reject, GrantInv
    <3> QED
      BY <2>2, <3>1, <3>2
      DEF Reject, Complete, Drop, TypeOK, GrantInv, Unblocked, Passed, Sourced, Blocked
  <2>3. CASE RejectNext(u)
    <3>1. replier[u] \in Rejecting  BY <2>3, Shape DEF RejectNext
    <3>2. GrantsWell'
      BY <2>3, <3>1, GoesWell DEF RejectNext, GrantInv, Rejecting, Idle, history
    <3> QED
      BY <2>3, <3>2 DEF RejectNext, GrantInv, Unblocked, Passed, Sourced, Blocked, history
  <2>4. CASE RejectItem(u)
    <3>1. replier[u] \in Rejecting /\ replier[u].item \in Requests
      BY <2>4, Shape DEF RejectItem, Rejecting
    <3>2. GrantsWell'
      BY <2>4, <3>1, GoesWell DEF RejectItem, GrantInv, Rejecting
    <3> QED
      BY <2>4, <3>1, <3>2
      DEF RejectItem, Settle, Complete, Drop, TypeOK, GrantInv, Unblocked, Passed, Sourced, Blocked
  <2>5. CASE AllowOnce(u)
    <3>1. replier[u].req \in Requests  BY <2>5, Shape DEF AllowOnce, Answering
    <3>2. ~Blocked(replier[u].req)  BY <2>5 DEF AllowOnce, GrantInv, GrantsWell
    <3>3. GrantsWell'  BY <2>5, GoesWell DEF AllowOnce, GrantInv, Idle
    <3> QED
      BY <2>5, <3>1, <3>2, <3>3
      DEF AllowOnce, Settle, Complete, Drop, TypeOK, GrantInv, Unblocked, Passed, Sourced, Blocked
  <2>6. CASE SaveRules(u)
    <3>1. ~Blocked(replier[u].req)  BY <2>6 DEF SaveRules, GrantInv, GrantsWell
    <3>2. GrantsWell'  BY <2>6, <3>1, GoesWell DEF SaveRules, GrantInv
    <3> QED
      BY <2>6, <3>2 DEF SaveRules, GrantInv, Unblocked, Passed, Sourced, Blocked, history
  <2>7. CASE AllowAlways(u)
    <3>1. replier[u].req \in Requests  BY <2>7, Shape DEF AllowAlways, Saving
    <3>2. ~Blocked(replier[u].req)  BY <2>7 DEF AllowAlways, GrantInv, GrantsWell
    <3>3. GrantsWell'  BY <2>7, GoesWell DEF AllowAlways, GrantInv
    <3> QED
      BY <2>7, <3>1, <3>2, <3>3
      DEF AllowAlways, Settle, Complete, Drop, TypeOK, GrantInv, Unblocked, Passed, Sourced, Blocked
  <2>8. CASE MatchNext(u)
    <3>1. replier[u] \in Matching /\ replier[u].rules \subseteq approved
      BY <2>8, Shape DEF MatchNext, GrantInv, GrantsWell
    <3>2. CASE Goes(u, Idle)
      BY <2>8, <3>2, GoesWell DEF MatchNext, GrantInv, Idle, Unblocked, Passed, Sourced, Blocked, history
    <3>3. ASSUME NEW p \in pending,
                 Goes(u, [replier[u] EXCEPT !.seen = @ \cup {p},
                            !.item = IF Matches(u, p) THEN p ELSE None])
          PROVE  GrantInv'
      <4>1. GrantsWell'
        BY <2>8, <3>1, <3>3, GoesWell DEF MatchNext, Matches, GrantInv, Matching, history
      <4> QED
        BY <2>8, <4>1 DEF MatchNext, GrantInv, Unblocked, Passed, Sourced, Blocked, history
    <3> QED  BY <2>8, <3>2, <3>3 DEF MatchNext
  <2>9. CASE MatchItem(u)
    <3>1. replier[u] \in Matching /\ replier[u].item \in Requests
      BY <2>9, Shape DEF MatchItem, Matching
    <3>2. replier[u].rules \subseteq approved /\ Covered(replier[u].item, replier[u].rules)
      BY <2>9 DEF MatchItem, GrantInv, GrantsWell
    <3>3. GrantsWell'
      BY <2>9, <3>1, <3>2, GoesWell DEF MatchItem, GrantInv, Matching
    <3> QED
      BY <2>9, <3>1, <3>2, <3>3
      DEF MatchItem, Settle, Complete, Drop, TypeOK, GrantInv, Unblocked, Passed, Sourced, Blocked, Covered
  <2>10. CASE Remember(u)
    <3>1. GrantsWell'  BY <2>10, GoesWell DEF Remember, GrantInv, history
    <3> QED
      BY <2>10, <3>1 DEF Remember, GrantInv, Unblocked, Passed, Sourced, Blocked, history
  <2>11. CASE Dies(u)
    <3>1. GrantsWell'  BY <2>11, GoesWell DEF Dies, GrantInv, Idle
    <3> QED  BY <2>11, <3>1 DEF Dies, GrantInv, Unblocked, Passed, Sourced, Blocked
  <2> QED
    BY <1>3, <2>1, <2>2, <2>3, <2>4, <2>5, <2>6, <2>7, <2>8, <2>9, <2>10, <2>11 DEF Replies
<1>4. ASSUME NEW x \in Resources, Forget(x) PROVE GrantInv'
  BY <1>4 DEF Forget, GrantInv, Unblocked, Passed, GrantsWell, Sourced, At, Blocked, Covered, history
<1>5. CASE Close
  BY <1>5 DEF Close, TypeOK, GrantInv, Unblocked, Passed, GrantsWell, Sourced, At, Blocked, Covered
<1>6. ASSUME NEW s \in Sessions, Delete(s) PROVE GrantInv'
  BY <1>6 DEF Delete, GrantInv, Unblocked, Passed, GrantsWell, Sourced, At, Blocked, Covered, history
<1> QED  BY <1>1, <1>2, <1>3, <1>4, <1>5, <1>6 DEF Next

\* Nothing passes but by a reply of its own or approvals that cover all it
\* names, and nothing that is denied.
THEOREM Granted == Spec => []GrantHasASource
<1>1. Init => GrantInv
  BY DEF Init, GrantInv, Unblocked, Passed, GrantsWell, Sourced, At, Idle
<1>2. GrantInv => GrantHasASource
  BY DEF GrantInv, Unblocked, Passed, Sourced, GrantHasASource, Blocked
<1> QED  BY <1>1, <1>2, TypeCorrect, GrantStep, PTL DEF Spec

-----------------------------------------------------------------------------
(***************************************************************************)
(* A rejection reaches its whole Session.                                  *)
(***************************************************************************)
\* Who is barred or pending has been registered, and is not registered again.
Known == pending \cup {b[2] : b \in barred}
Registered == \A r \in Known : caller[r] \notin {"new", "evaluated"}

LEMMA RegisteredStep == TypeOK /\ Registered /\ [Next]_vars => Registered'
<1> SUFFICES ASSUME TypeOK, Registered, [Next]_vars, NEW r \in Known'
             PROVE  caller'[r] \notin {"new", "evaluated"}
  BY DEF Registered
<1> USE DEF outside, Known
<1>1. CASE UNCHANGED vars  BY <1>1 DEF vars, history, Registered
<1>2. ASSUME NEW q \in Requests, Asserts(q) \/ Stopped(q)
      PROVE  caller'[r] \notin {"new", "evaluated"}
  <2>1. CASE Evaluate(q)
    BY <2>1 DEF Registered, TypeOK, Evaluate, Becomes, history
  <2>2. CASE Create(q)  BY <2>2 DEF Registered, TypeOK, Create, Becomes
  <2>3. CASE Asked(q)  BY <2>3 DEF Registered, TypeOK, Asked, Becomes, history
  <2>4. CASE Answered(q)
    BY <2>4 DEF Registered, TypeOK, Answered, Becomes, Drop, Outcomes
  <2>5. CASE Stopped(q)
    BY <2>5 DEF Registered, TypeOK, Stopped, Becomes, Drop, Unbarred
  <2> QED  BY <1>2, <2>1, <2>2, <2>3, <2>4, <2>5 DEF Asserts
<1>3. ASSUME NEW u \in Repliers, Replies(u) \/ Dies(u) \/ \E q \in Requests : Reply(u, q)
      PROVE  caller'[r] \notin {"new", "evaluated"}
  <2>1. UNCHANGED caller
    BY <1>3 DEF Replies, Reply, Reject, RejectNext, RejectItem, AllowOnce, SaveRules,
                AllowAlways, Remember, MatchNext, MatchItem, Dies
  <2>2. r \in Known
    <3>1. CASE Reject(u)
      <4>1. /\ pending' \subseteq pending
            /\ barred' \subseteq barred \cup {<<u, p>> : p \in pending}
        BY <3>1 DEF Reject, Drop, Unbarred, OfSession
      <4> QED  BY <4>1
    <3>2. CASE ~Reject(u)
      <4>1. pending' \subseteq pending /\ barred' \subseteq barred
        BY <1>3, <3>2 DEF Replies, Reply, RejectNext, RejectItem, AllowOnce, SaveRules,
                          AllowAlways, Remember, MatchNext, MatchItem, Dies, Drop, Settle,
                          Unbarred, history
      <4> QED  BY <4>1
    <3> QED  BY <3>1, <3>2
  <2> QED  BY <2>1, <2>2 DEF Registered
<1>4. ASSUME NEW x \in Resources, Forget(x)
      PROVE  caller'[r] \notin {"new", "evaluated"}
  BY <1>4 DEF Forget, Registered, history
<1>5. CASE Close  BY <1>5 DEF Close
<1>6. ASSUME NEW s \in Sessions, Delete(s)
      PROVE  caller'[r] \notin {"new", "evaluated"}
  BY <1>6 DEF Delete, Registered, history
<1> QED  BY <1>1, <1>2, <1>3, <1>4, <1>5, <1>6 DEF Next

\* A replier that rejects the others of r's Session.
Rejects(u, r) == At(u, "rejecting") /\ replier[u].session = SessionOf[r]

LEMMA RejectionStep ==
  TypeOK /\ Registered /\ WaiterIsPending /\ RejectionReachesAll /\ [Next]_vars
    => RejectionReachesAll'
<1> SUFFICES ASSUME TypeOK, Registered, WaiterIsPending, RejectionReachesAll, [Next]_vars,
                    ~closed', NEW b \in barred', Waits(b[2])'
             PROVE  Rejects(b[1], b[2])'
  BY DEF RejectionReachesAll, Rejects, Waits, At
<1> USE DEF outside
<1> DEFINE v == b[1]
           r == b[2]
<1>r. v \in Repliers /\ r \in Requests /\ b = <<v, r>>
  <2>1. barred' \subseteq Repliers \X Requests  BY TypeStep DEF TypeOK
  <2> QED  BY <2>1
\* Who waited and was barred before has its replier.
<1>a. ASSUME ~closed, b \in barred, Waits(r) PROVE Rejects(v, r)
  BY <1>a DEF RejectionReachesAll, Rejects
<1> HIDE DEF v, r
<1>b. Waits(r)'  BY DEF r
<1>s. SUFFICES Rejects(v, r)'  BY DEF v, r
<1>1. CASE UNCHANGED vars  BY <1>1, <1>a, <1>b DEF vars, history, Rejects, At, Waits
<1>2. ASSUME NEW q \in Requests, Asserts(q) \/ Stopped(q)
      PROVE  Rejects(v, r)'
  <2>1. UNCHANGED <<replier, closed>> /\ b \in barred
    BY <1>2 DEF Asserts, Evaluate, Create, Asked, Answered, Stopped, Unbarred, history
  <2>2. Waits(r)
    <3>1. CASE Create(q)
      <4>1. r # q  BY <2>1, <3>1 DEF Registered, Known, Create, r
      <4> QED  BY <1>b, <3>1, <4>1 DEF Waits, TypeOK, Create, Becomes
    <3>2. CASE ~Create(q)
      BY <1>2, <1>r, <1>b, <3>2
      DEF Waits, TypeOK, Asserts, Evaluate, Asked, Answered, Stopped, Becomes, Outcomes
    <3> QED  BY <3>1, <3>2
  <2> QED  BY <2>1, <2>2, <1>a DEF Rejects, At
<1>3. ASSUME NEW u \in Repliers, Replies(u) \/ Dies(u) \/ \E q \in Requests : Reply(u, q)
      PROVE  Rejects(v, r)'
  <2>1. ~closed
    BY <1>3 DEF Replies, Reply, Reject, RejectNext, RejectItem, AllowOnce, SaveRules,
                AllowAlways, Remember, MatchNext, MatchItem, Dies, history
  <2>2. Waits(r)
    <3>1. UNCHANGED caller
      BY <1>3 DEF Replies, Reply, Reject, RejectNext, RejectItem, AllowOnce, SaveRules,
                  AllowAlways, Remember, MatchNext, MatchItem, Dies
    <3>2. deferred'[r] = "open" => deferred[r] = "open"
      BY <1>3, <1>r DEF TypeOK, Replies, Reply, Reject, RejectNext, RejectItem, AllowOnce,
                  SaveRules, AllowAlways, Remember, MatchNext, MatchItem, Dies, Settle, Complete
    <3> QED  BY <1>b, <3>1, <3>2 DEF Waits
  <2>3. b \in barred => Rejects(v, r)  BY <2>1, <2>2, <1>a
  \* The other repliers go on as they were.
  <2>4. v # u => (Rejects(v, r) => Rejects(v, r)')
    BY <1>3, <1>r DEF Rejects, At, TypeOK, Replies, Reply, Reject, RejectNext, RejectItem, AllowOnce,
                SaveRules, AllowAlways, Remember, MatchNext, MatchItem, Dies, Goes
  <2>5. CASE Reject(u)
    <3>1. CASE b \in barred
      <4>1. ~Rejects(u, r)  BY <2>5 DEF Rejects, Reject, At
      <4> QED  BY <2>3, <2>4, <3>1, <4>1
    <3>2. CASE b \notin barred
      <4>1. v = u /\ SessionOf[r] = SessionOf[replier[u].req]
        BY <1>r, <2>5, <3>2 DEF Reject, OfSession, Unbarred
      <4> QED  BY <2>5, <4>1 DEF Reject, Goes, Rejects, At, TypeOK
    <3> QED  BY <3>1, <3>2
  <2>6. CASE RejectNext(u)
    <3>1. b \in barred  BY <2>6 DEF RejectNext, history
    <3>2. r \in pending  BY <1>r, <2>1, <2>2 DEF WaiterIsPending
    <3>3. Rejects(v, r)  BY <2>3, <3>1
    <3>4. CASE v = u
      <4>1. r \in OfSession(replier[u].session)
        BY <3>2, <3>3, <3>4 DEF OfSession, Rejects
      <4>2. replier[u] \in Rejecting  BY <2>6, Shape DEF RejectNext
      <4>3. PICK p \in pending : Goes(u, [replier[u] EXCEPT !.item = p])
        BY <2>6, <4>1 DEF RejectNext, OfSession
      <4> QED  BY <3>3, <3>4, <4>2, <4>3 DEF Rejects, At, Goes, TypeOK, Rejecting
    <3> QED  BY <2>4, <3>3, <3>4
  <2>7. CASE RejectItem(u)
    <3>1. b \in barred  BY <2>7 DEF RejectItem, Settle, Unbarred
    <3>2. replier[u] \in Rejecting  BY <2>7, Shape DEF RejectItem
    <3>3. Rejects(u, r) => Rejects(u, r)'
      BY <2>7, <3>2 DEF RejectItem, Goes, Rejects, At, TypeOK, Rejecting
    <3> QED  BY <2>3, <2>4, <3>1, <3>3
  \* What a reply that dies was to reject is not on its account any more.
  <2>8. CASE Dies(u)
    <3>1. b \in barred /\ v # u  BY <2>8 DEF Dies, v
    <3> QED  BY <2>3, <2>4, <3>1
  <2>9. CASE ~Reject(u) /\ ~RejectNext(u) /\ ~RejectItem(u) /\ ~Dies(u)
    <3>1. b \in barred
      BY <1>3, <2>9 DEF Replies, Reply, AllowOnce, SaveRules, AllowAlways, Remember, MatchNext,
                        MatchItem, Settle, Unbarred, history
    <3>2. ~At(u, "rejecting")
      BY <1>3, <2>9 DEF At, Replies, Reply, AllowOnce, SaveRules, AllowAlways, Remember,
                        MatchNext, MatchItem
    <3> QED  BY <2>3, <2>4, <3>1, <3>2 DEF Rejects
  <2> QED  BY <2>5, <2>6, <2>7, <2>8, <2>9
<1>4. ASSUME NEW x \in Resources, Forget(x) PROVE Rejects(v, r)'
  BY <1>4, <1>a, <1>b DEF Forget, Waits, Rejects, At
<1>5. CASE Close  BY <1>5 DEF Close
<1>6. ASSUME NEW s \in Sessions, Delete(s) PROVE Rejects(v, r)'
  BY <1>6, <1>a, <1>b DEF Delete, Waits, Rejects, At, history
<1> QED  BY <1>1, <1>2, <1>3, <1>4, <1>5, <1>6 DEF Next

\* Those of a Session that were pending when a request of it was rejected do
\* not stay: the cascade goes on until each is answered, or it dies.
THEOREM RejectedTogether == Spec => []RejectionReachesAll
<1>1. Init => Registered /\ RejectionReachesAll
  BY DEF Init, Registered, Known, RejectionReachesAll
<1> QED
  BY <1>1, TypeCorrect, WaitersPending, RegisteredStep, RejectionStep, PTL DEF Spec

-----------------------------------------------------------------------------
(***************************************************************************)
(* Approvals answer what they have come to cover.                          *)
(***************************************************************************)
LEMMA CoveredStep == TypeOK /\ CoveredIsMatched /\ [Next]_vars => CoveredIsMatched'
<1> SUFFICES ASSUME TypeOK, CoveredIsMatched, [Next]_vars,
                    ~closed', NEW r \in pending' \ excused', deferred'[r] = "open",
                    Covered(r, saved'), SessionOf[r] \notin gone'
             PROVE  \E u \in Repliers : Reaches(u, r)'
  BY DEF CoveredIsMatched, Reaches, At, Covered, Blocked
<1> USE DEF outside
<1>r. r \in Requests  BY TypeStep DEF TypeOK
\* Who was to be answered before has its replier.
<1>a. ASSUME r \in pending \ excused, ~closed, deferred[r] = "open", Covered(r, saved),
             SessionOf[r] \notin gone
      PROVE  \E u \in Repliers : Reaches(u, r)
  BY <1>a DEF CoveredIsMatched
<1>1. CASE UNCHANGED vars
  BY <1>1, <1>a DEF vars, history, Reaches, At, Covered, Blocked
<1>2. ASSUME NEW q \in Requests, Asserts(q) \/ Stopped(q)
      PROVE  \E u \in Repliers : Reaches(u, r)'
  <2>1. UNCHANGED <<replier, outside, saved, deferred>>
    BY <1>2 DEF Asserts, Evaluate, Create, Asked, Answered, Stopped
  <2>2. Covered(r, saved)  BY <2>1 DEF Covered, Blocked
  <2>3. r \in pending \ excused
    BY <1>2, <2>2 DEF Asserts, Evaluate, Create, Asked, Answered, Stopped, Drop, history
  <2> QED  BY <2>1, <2>2, <2>3, <1>a DEF Reaches, At, Covered, Blocked
<1>3. ASSUME NEW u \in Repliers, Replies(u) \/ Dies(u) \/ \E q \in Requests : Reply(u, q)
      PROVE  \E v \in Repliers : Reaches(v, r)'
  <2>1. r \in pending /\ (SaveRules(u) \/ r \notin excused) /\ ~closed /\ SessionOf[r] \notin gone
    <3>1. \/ UNCHANGED <<pending, excused>> \/ \E q \in Requests \cup {None} : Drop(q)
          \/ UNCHANGED pending /\ (SaveRules(u) \/ excused \subseteq excused')
      BY <1>3, Shape
      DEF Replies, Reply, Reject, RejectNext, RejectItem, AllowOnce, SaveRules, AllowAlways,
          Remember, MatchNext, MatchItem, Dies, Settle, history, Answering, Saving, Rejecting,
          Matching
    <3>2. UNCHANGED outside
      BY <1>3 DEF Replies, Reply, Reject, RejectNext, RejectItem, AllowOnce, SaveRules,
                  AllowAlways, Remember, MatchNext, MatchItem, Dies
    <3>3. r \in pending /\ (SaveRules(u) \/ r \notin excused)  BY <3>1 DEF Drop
    <3> QED  BY <3>2, <3>3
  <2>2. deferred[r] = "open"
    BY <1>3, <1>r DEF TypeOK, Replies, Reply, Reject, RejectNext, RejectItem, AllowOnce,
                SaveRules, AllowAlways, Remember, MatchNext, MatchItem, Dies, Settle, Complete,
                history
  \* The other repliers go on as they were.
  <2>3. \A v \in Repliers : v # u => (Reaches(v, r) => Reaches(v, r)')
    BY <1>3 DEF Reaches, At, Covered, Blocked, TypeOK, Replies, Reply, Reject, RejectNext,
                RejectItem, AllowOnce, SaveRules, AllowAlways, Remember, MatchNext, MatchItem,
                Dies, Goes
  <2>4. CASE SaveRules(u)
    BY <2>4 DEF SaveRules, Goes, Reaches, At, TypeOK
  <2>5. CASE AllowAlways(u)
    BY <2>5 DEF AllowAlways, Goes, Reaches, At, TypeOK
  <2>7. CASE Remember(u)
    <3>1. replier'[u] = [at |-> "matching", rules |-> saved, seen |-> {}, item |-> None]
      BY <2>7 DEF Remember, Goes, TypeOK
    <3>2. Covered(r, saved)  BY <2>7 DEF Remember, Covered, Blocked
    <3> QED  BY <3>1, <3>2 DEF Reaches, At, Covered, Blocked
  \* Had the reply that dies been the last on its way, r were excused.
  <2>8. CASE Dies(u)
    <3>1. Covered(r, saved)  BY <2>8 DEF Dies, Covered, Blocked
    <3>2. \E v \in Repliers : Reaches(v, r)
      <4>1. r \notin excused  BY <2>8 DEF Dies
      <4> QED  BY <2>1, <2>2, <3>1, <4>1, <1>a
    <3>3. ~\A v \in Repliers : Reaches(v, r) => v = u
      BY <2>1, <2>8, <3>1 DEF Dies
    <3> QED  BY <2>3, <3>3
  <2>6. CASE ~SaveRules(u) /\ ~AllowAlways(u) /\ ~Remember(u) /\ ~Dies(u)
    <3>1. UNCHANGED saved
      BY <1>3, <2>6 DEF Replies, Reply, Reject, RejectNext, RejectItem, AllowOnce,
                        MatchNext, MatchItem
    <3>2. Covered(r, saved)  BY <3>1 DEF Covered, Blocked
    <3>3. PICK v \in Repliers : Reaches(v, r)  BY <2>1, <2>2, <2>6, <3>2, <1>a
    <3>4. CASE v # u  BY <2>3, <3>3, <3>4
    <3>5. CASE v = u /\ MatchNext(u)
      <4>1. replier[u] \in Matching  BY <3>5, Shape DEF MatchNext
      <4>2. r \notin replier[u].seen /\ Covered(r, replier[u].rules) /\ r # None
        BY <1>r, <3>3, <3>5, PermissionAssumption DEF Reaches, At, MatchNext
      <4>3. PICK p \in pending :
              Goes(u, [replier[u] EXCEPT !.seen = @ \cup {p},
                         !.item = IF Matches(u, p) THEN p ELSE None])
        BY <2>1, <3>5, <4>2 DEF MatchNext
      <4>4. /\ replier'[u].at = "matching"
            /\ replier'[u].rules = replier[u].rules
            /\ replier'[u].seen = replier[u].seen \cup {p}
            /\ replier'[u].item = IF Matches(u, p) THEN p ELSE None
        BY <4>1, <4>3 DEF Goes, TypeOK, Matching
      <4>5. Covered(r, replier'[u].rules)
        BY <4>2, <4>4 DEF Covered, Blocked
      <4>6. r = p => replier'[u].item = r  BY <2>1, <4>2, <4>4 DEF Matches
      <4> QED  BY <4>2, <4>4, <4>5, <4>6 DEF Reaches, At, Covered, Blocked
    <3>6. CASE v = u /\ MatchItem(u)
      <4>1. replier[u] \in Matching  BY <3>6, Shape DEF MatchItem
      <4>2. replier[u].item # r
        BY <1>r, <3>6 DEF MatchItem, Settle, Complete, TypeOK
      <4>3. r \notin replier[u].seen /\ Covered(r, replier[u].rules)
        BY <3>3, <3>6, <4>2 DEF Reaches, At, MatchItem
      <4>4. /\ replier'[u].at = "matching"
            /\ replier'[u].rules = replier[u].rules
            /\ replier'[u].seen = replier[u].seen
        BY <3>6, <4>1 DEF MatchItem, Goes, TypeOK, Matching
      <4> QED  BY <4>3, <4>4 DEF Reaches, At, Covered, Blocked
    <3>7. CASE v = u /\ ~MatchNext(u) /\ ~MatchItem(u)
      <4>1. ~At(u, "saved") /\ ~At(u, "remembering") /\ ~At(u, "matching")
        BY <1>3, <2>6, <3>7 DEF At, Replies, Reply, Reject, RejectNext, RejectItem, AllowOnce
      <4> QED  BY <3>3, <3>7, <4>1 DEF Reaches
    <3> QED  BY <3>4, <3>5, <3>6, <3>7
  <2> QED  BY <2>4, <2>5, <2>6, <2>7, <2>8
\* Fewer approvals cover no more requests.
<1>4. ASSUME NEW x \in Resources, Forget(x) PROVE \E u \in Repliers : Reaches(u, r)'
  <2>1. Covered(r, saved) /\ Covered(r, saved \ {x})  BY <1>4 DEF Forget, Covered, Blocked
  <2>2. r \notin excused  BY <1>4, <2>1 DEF Forget
  <2> QED  BY <1>4, <2>1, <2>2, <1>a DEF Forget, Reaches, At, Covered, Blocked
<1>5. CASE Close  BY <1>5 DEF Close
<1>6. ASSUME NEW s \in Sessions, Delete(s) PROVE \E u \in Repliers : Reaches(u, r)'
  <2>1. Covered(r, saved)  BY <1>6 DEF Delete, Covered, Blocked
  <2> QED  BY <1>6, <2>1, <1>a DEF Delete, Reaches, At, Covered, Blocked, history
<1> QED  BY <1>1, <1>2, <1>3, <1>4, <1>5, <1>6 DEF Next

\* An always-reply answers every request that its approvals complete and whose
\* Session is there.  Until the next always-reply one may stay that was covered
\* already when it was registered, or that a reply did not come to as it died.
THEOREM CoveredAnswered == Spec => []CoveredIsMatched
<1>1. Init => CoveredIsMatched  BY DEF Init, CoveredIsMatched
<1> QED  BY <1>1, TypeCorrect, CoveredStep, PTL DEF Spec
=============================================================================
