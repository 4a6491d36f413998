----------------------------- MODULE Permission -----------------------------
(***************************************************************************)
(* Permission requests of one Location: src/packages/core/src/permission.ts *)
(* and permission/saved.ts.                                                *)
(*                                                                         *)
(* A tool asserts a permission.  The configured rules and the saved        *)
(* approvals allow it, deny it, or leave it to the user: then the request  *)
(* is put into a map, published, and the tool waits for its Deferred.      *)
(* Replies come from any number of clients.  Publishing an event and a     *)
(* query of the database let other fibers run, so each is a step of its    *)
(* own; what runs between two of them is one action.  Both may also die:    *)
(* a listener dies with the publication of an event that is not durable    *)
(* (EventV2.notify), and the queries die with the database.                *)
(*                                                                         *)
(* A pattern is the set of resources it matches, one action stands for     *)
(* all, and a reply's feedback is data.  The configured rules do not       *)
(* change.  The loops over the map take its requests in any order, which   *)
(* allows more than the code does.                                         *)
(***************************************************************************)
CONSTANTS
  Requests, Sessions, Resources, Repliers,
  SessionOf, Wants, Saves,  \* of each request: its Session, the resources it
                            \* names, and those it saves when always allowed
  Asks,                     \* the requests made by ask; the others by assert
  Allowed, Denied,          \* the configured rules
  None

ASSUME PermissionAssumption ==
  /\ Asks \subseteq Requests
  /\ SessionOf \in [Requests -> Sessions]
  /\ Wants \in [Requests -> SUBSET Resources]
  /\ Saves \in [Requests -> SUBSET Resources]
  /\ Allowed \subseteq Resources /\ Denied \subseteq Resources
  /\ None \notin Requests

VARIABLES
  pending,   \* the map of pending requests
  deferred,  \* per request: what its Deferred was completed with
  caller,    \* per request: the fiber that asks or asserts
  replier,   \* per replying fiber: what it is at
  saved,     \* the table of saved approvals
  gone,      \* the Sessions that were deleted
  closed,    \* the layer's finalizer has run
  approved,  \* history: what was ever saved
  barred,    \* history: who rejected a request of a Session, with each open one
             \* of it that was pending then, unless the reply has died
  excused    \* history: covered requests that nobody is to answer, as they were
             \* covered when registered, or a reply died before it came to them

history == <<approved, barred, excused>>
outside == <<gone, closed>>
vars == <<pending, deferred, caller, replier, saved, outside, history>>

\* A grant tells a reply of its own from an approval.
Outcomes == {"replied", "covered", "declined"}
Idle == [at |-> "idle"]
Working ==
  [at : {"answering"}, req : Requests, reply : {"once", "always", "reject"}]
    \cup [at : {"saved"}, req : Requests]
    \cup [at : {"remembering"}, req : Requests]
    \cup [at : {"rejecting"}, session : Sessions, item : Requests \cup {None}]
    \cup [at : {"matching"}, rules : SUBSET Resources, seen : SUBSET Requests,
          item : Requests \cup {None}]

TypeOK ==
  /\ pending \subseteq Requests
  /\ deferred \in [Requests -> {"open"} \cup Outcomes]
  /\ caller \in [Requests -> {"new", "evaluated", "asking", "waiting", "left", "stopped"}
                           \cup Outcomes]
  /\ replier \in [Repliers -> {Idle} \cup Working]
  /\ saved \subseteq Resources /\ approved \subseteq Resources
  /\ gone \subseteq Sessions /\ closed \in BOOLEAN
  /\ barred \subseteq Repliers \X Requests /\ excused \subseteq Requests

Init ==
  /\ pending = {}
  /\ deferred = [r \in Requests |-> "open"]
  /\ caller = [r \in Requests |-> "new"]
  /\ replier = [u \in Repliers |-> Idle]
  /\ saved = {} /\ approved = {} /\ gone = {} /\ closed = FALSE
  /\ barred = {} /\ excused = {}

-----------------------------------------------------------------------------
Blocked(r) == Wants[r] \cap Denied # {}

\* Mutant: one resource that is allowed is enough.
AnyCovered(r, rules) == ~Blocked(r) /\ Wants[r] \cap (Allowed \cup rules) # {}
\* evaluate for every resource of the request, after denied.
Covered(r, rules) == ~Blocked(r) /\ Wants[r] \subseteq Allowed \cup rules

Drop(r) == pending' = pending \ {r} /\ excused' = excused \ {r}
Unbarred(r) == {b \in barred : b[2] # r}

\* Completing a Deferred that is done already does nothing.
Complete(r, outcome) ==
  deferred' = [deferred EXCEPT ![r] = IF @ = "open" THEN outcome ELSE @]

Settle(r, outcome) == Complete(r, outcome) /\ Drop(r) /\ barred' = Unbarred(r)

Becomes(r, c) == caller' = [caller EXCEPT ![r] = c]

-----------------------------------------------------------------------------
(***************************************************************************)
(* ask and assert.                                                         *)
(***************************************************************************)
\* Without its Session there are no rules.
Evaluate(r) ==
  /\ caller[r] = "new" /\ ~closed
  /\ Becomes(r, IF SessionOf[r] \in gone THEN "stopped"
                ELSE IF Blocked(r) THEN "declined"
                ELSE IF Covered(r, saved) THEN "covered" ELSE "evaluated")
  /\ UNCHANGED <<pending, deferred, replier, saved, outside, history>>

\* create: the request is in the map before it is published.
Create(r) ==
  /\ caller[r] = "evaluated"
  /\ pending' = pending \cup {r}
  /\ Becomes(r, IF r \in Asks THEN "asking" ELSE "waiting")
  /\ excused' = IF Covered(r, saved) THEN excused \cup {r} ELSE excused
  /\ UNCHANGED <<deferred, replier, saved, outside, barred, approved>>

\* ask returns once its request is published.
Asked(r) ==
  /\ caller[r] = "asking" /\ Becomes(r, "left")
  /\ UNCHANGED <<pending, deferred, replier, saved, outside, history>>

\* assert returns what its Deferred was completed with.  Mutant: it does not
\* wait for that.
AnsweredAtOnce(r) ==
  /\ caller[r] = "waiting"
  /\ Becomes(r, deferred[r]) /\ Drop(r)
  /\ UNCHANGED <<deferred, replier, saved, outside, barred, approved>>
Answered(r) ==
  /\ caller[r] = "waiting" /\ deferred[r] # "open"
  /\ Becomes(r, deferred[r]) /\ Drop(r)
  /\ UNCHANGED <<deferred, replier, saved, outside, barred, approved>>

\* A listener dies while the request is published, or the wait of assert is
\* interrupted.
Stopped(r) ==
  /\ caller[r] \in {"asking", "waiting"}
  /\ Becomes(r, "stopped") /\ Drop(r)
  /\ barred' = Unbarred(r)
  /\ UNCHANGED <<deferred, replier, saved, outside, approved>>

-----------------------------------------------------------------------------
(***************************************************************************)
(* reply.                                                                  *)
(***************************************************************************)
At(u, place) == replier[u].at = place
Goes(u, state) == replier' = [replier EXCEPT ![u] = state]

\* A pending request is found, and the reply published.
Reply(u, r) ==
  /\ At(u, "idle") /\ ~closed /\ r \in pending
  /\ \E reply \in {"once", "always", "reject"} :
       Goes(u, [at |-> "answering", req |-> r, reply |-> reply])
  /\ UNCHANGED <<pending, deferred, caller, saved, outside, history>>

OfSession(s) == {p \in pending : SessionOf[p] = s}

Reject(u) ==
  /\ At(u, "answering") /\ replier[u].reply = "reject"
  /\ LET r == replier[u].req
         s == SessionOf[r]
     IN /\ Complete(r, "declined") /\ Drop(r)
        /\ barred' = Unbarred(r) \cup {<<u, p>> : p \in {o \in OfSession(s) \ {r} :
                                                            deferred[o] = "open"}}
        /\ Goes(u, [at |-> "rejecting", session |-> s, item |-> None])
  /\ UNCHANGED <<caller, saved, outside, approved>>

\* The loop over the map sees what was added since it began: while there is a
\* request of the Session, one is published as rejected.  Mutant: it stops at
\* a request of another Session.
RejectNextInRow(u) ==
  /\ At(u, "rejecting") /\ replier[u].item = None
  /\ \/ /\ \E p \in pending : SessionOf[p] # replier[u].session
        /\ Goes(u, Idle)
     \/ \E p \in OfSession(replier[u].session) : Goes(u, [replier[u] EXCEPT !.item = p])
  /\ UNCHANGED <<pending, deferred, caller, saved, outside, history>>
RejectNext(u) ==
  /\ At(u, "rejecting") /\ replier[u].item = None
  /\ \/ OfSession(replier[u].session) = {} /\ Goes(u, Idle)
     \/ \E p \in OfSession(replier[u].session) : Goes(u, [replier[u] EXCEPT !.item = p])
  /\ UNCHANGED <<pending, deferred, caller, saved, outside, history>>

RejectItem(u) ==
  /\ At(u, "rejecting") /\ replier[u].item # None
  /\ Settle(replier[u].item, "declined")
  /\ Goes(u, [replier[u] EXCEPT !.item = None])
  /\ UNCHANGED <<caller, saved, outside, approved>>

\* once, and always with nothing to save.
AllowOnce(u) ==
  /\ At(u, "answering")
  /\ \/ replier[u].reply = "once"
     \/ replier[u].reply = "always" /\ Saves[replier[u].req] = {}
  /\ Settle(replier[u].req, "replied")
  /\ Goes(u, Idle)
  /\ UNCHANGED <<caller, saved, outside, approved>>

SaveRules(u) ==
  /\ At(u, "answering") /\ replier[u].reply = "always" /\ Saves[replier[u].req] # {}
  /\ saved' = saved \cup Saves[replier[u].req]
  /\ approved' = approved \cup Saves[replier[u].req]
  /\ Goes(u, [at |-> "saved", req |-> replier[u].req])
  /\ excused' = {}
  /\ UNCHANGED <<pending, deferred, caller, outside, barred>>

\* The request is answered.  Mutant: its Deferred is forgotten.
AllowSilently(u) ==
  /\ At(u, "saved")
  /\ Drop(replier[u].req)
  /\ Goes(u, [at |-> "remembering", req |-> replier[u].req])
  /\ UNCHANGED <<deferred, caller, saved, outside, barred, approved>>
AllowAlways(u) ==
  /\ At(u, "saved")
  /\ Settle(replier[u].req, "replied")
  /\ Goes(u, [at |-> "remembering", req |-> replier[u].req])
  /\ UNCHANGED <<caller, saved, outside, approved>>

\* The approvals are read again.  Mutant: only those of this reply.
RememberOwn(u) ==
  /\ At(u, "remembering")
  /\ Goes(u, [at |-> "matching", rules |-> Saves[replier[u].req], seen |-> {}, item |-> None])
  /\ UNCHANGED <<pending, deferred, caller, saved, outside, history>>
Remember(u) ==
  /\ At(u, "remembering")
  /\ Goes(u, [at |-> "matching", rules |-> saved, seen |-> {}, item |-> None])
  /\ UNCHANGED <<pending, deferred, caller, saved, outside, history>>

\* The loop over the map: a request that it has not looked at is published as
\* allowed if its Session is there and the rules that were read cover it now.
Matches(u, p) == SessionOf[p] \notin gone /\ Covered(p, replier[u].rules)

MatchNext(u) ==
  /\ At(u, "matching") /\ replier[u].item = None
  /\ \/ pending \subseteq replier[u].seen /\ Goes(u, Idle)
     \/ \E p \in pending \ replier[u].seen :
          Goes(u, [replier[u] EXCEPT
                     !.seen = @ \cup {p},
                     !.item = IF Matches(u, p) THEN p ELSE None])
  /\ UNCHANGED <<pending, deferred, caller, saved, outside, history>>

MatchItem(u) ==
  /\ At(u, "matching") /\ replier[u].item # None
  /\ Settle(replier[u].item, "covered")
  /\ Goes(u, [replier[u] EXCEPT !.item = None])
  /\ UNCHANGED <<caller, saved, outside, approved>>

\* u is on its way to answer r, if the approvals cover it.
Reaches(u, r) ==
  \/ At(u, "saved") \/ At(u, "remembering")
  \/ /\ At(u, "matching") /\ Covered(r, replier[u].rules)
     /\ r \notin replier[u].seen \/ replier[u].item = r

\* A listener or a query dies, and the reply with it, wherever it has come.
Dies(u) ==
  /\ \/ At(u, "answering") \/ At(u, "remembering") \/ At(u, "matching")
     \/ At(u, "rejecting") /\ replier[u].item # None
  /\ Goes(u, Idle)
  /\ barred' = {b \in barred : b[1] # u}
  /\ excused' = excused \cup {p \in pending :
       Covered(p, saved) /\ \A v \in Repliers : Reaches(v, p) => v = u}
  /\ UNCHANGED <<pending, deferred, caller, saved, outside, approved>>

-----------------------------------------------------------------------------
\* PermissionSaved.remove: a user takes an approval back.
Forget(x) ==
  /\ x \in saved /\ saved' = saved \ {x}
  /\ excused' = {p \in excused : Covered(p, saved \ {x})}
  /\ UNCHANGED <<pending, deferred, caller, replier, outside, approved, barred>>

\* A Session is deleted; its requests stay.
Delete(s) ==
  /\ s \notin gone /\ gone' = gone \cup {s}
  /\ UNCHANGED <<pending, deferred, caller, replier, saved, closed, history>>

\* The finalizer: whoever is pending is declined.
Close ==
  /\ ~closed /\ closed' = TRUE
  /\ deferred' = [r \in Requests |->
       IF r \in pending /\ deferred[r] = "open" THEN "declined" ELSE deferred[r]]
  /\ pending' = {} /\ barred' = {} /\ excused' = {}
  /\ UNCHANGED <<caller, replier, saved, gone, approved>>

Asserts(r) == Evaluate(r) \/ Create(r) \/ Asked(r) \/ Answered(r)

Replies(u) ==
  \/ Reject(u) \/ RejectNext(u) \/ RejectItem(u)
  \/ AllowOnce(u) \/ SaveRules(u) \/ AllowAlways(u) \/ Remember(u)
  \/ MatchNext(u) \/ MatchItem(u)

Next ==
  \/ \E r \in Requests : Asserts(r) \/ Stopped(r)
  \/ \E u \in Repliers : Replies(u) \/ Dies(u) \/ \E r \in Requests : Reply(u, r)
  \/ \E x \in Resources : Forget(x)
  \/ \E s \in Sessions : Delete(s)
  \/ Close

Spec == Init /\ [][Next]_vars

-----------------------------------------------------------------------------
(***************************************************************************)
(* Properties.                                                             *)
(***************************************************************************)
Waits(r) == caller[r] = "waiting" /\ deferred[r] = "open"

\* Who waits can be found and answered, until the layer is closed: no reply,
\* cascade or interrupt of another takes its request out of the map and
\* leaves its Deferred open.
WaiterIsPending == ~closed => \A r \in Requests : Waits(r) => r \in pending

\* A request that passed was allowed by a reply of its own, or by approvals
\* that were given for everything it names, and never names anything that is
\* denied.
GrantHasASource ==
  \A r \in Requests :
    /\ caller[r] \in {"replied", "covered"} => Wants[r] \cap Denied = {}
    /\ caller[r] = "covered" => Wants[r] \subseteq Allowed \cup approved

\* When a request is rejected, those of its Session that were pending with it
\* do not stay: until each is answered, the cascade of the reply that rejected
\* it goes on.  Only a reply that dies in its cascade leaves the rest waiting.
RejectionReachesAll ==
  ~closed => \A b \in barred : Waits(b[2]) =>
    At(b[1], "rejecting") /\ replier[b[1]].session = SessionOf[b[2]]

\* A request that the saved approvals have come to cover is on the way of an
\* always-reply to be answered, unless its Session was deleted.  It stays when
\* it was covered already as it was registered, evaluated before, or when the
\* last reply that would have come to it died; then until the next always-reply.
CoveredIsMatched ==
  ~closed => \A r \in pending \ excused :
    deferred[r] = "open" /\ Covered(r, saved) /\ SessionOf[r] \notin gone =>
      \E u \in Repliers : Reaches(u, r)
=============================================================================
