--------------------------- MODULE SessionRunProofs ---------------------------
(***************************************************************************)
(* Proofs about SessionRun for every set of Sessions, callers, Entries and *)
(* prompts and every step limit.                                           *)
(***************************************************************************)
EXTENDS SessionRun, TLAPS

(***************************************************************************)
(* What removing, adding and cutting off make of an inbox.                 *)
(***************************************************************************)
LEMMA RemoveOne ==
  ASSUME NEW S, NEW s \in Seq(S), IsInjective(s), NEW n \in DOMAIN s
  PROVE  /\ RemoveAt(s, n) \in Seq(S) /\ IsInjective(RemoveAt(s, n))
         /\ ToSet(RemoveAt(s, n)) = ToSet(s) \ {s[n]}
<1> DEFINE r == RemoveAt(s, n)
<1>1. Len(s) \in Nat /\ DOMAIN s = 1..Len(s) /\ n \in 1..Len(s)  OBVIOUS
<1>2. r \in Seq(S) /\ Len(r) = Len(s) - 1  BY <1>1 DEF RemoveAt
<1>3. \A i \in 1..Len(r) : r[i] = IF i < n THEN s[i] ELSE s[i + 1]
  <2> DEFINE front == SubSeq(s, 1, n - 1)
             back == SubSeq(s, n + 1, Len(s))
  <2>1. /\ front \in Seq(S) /\ Len(front) = n - 1
        /\ \A i \in 1..(n - 1) : front[i] = s[i]
    BY <1>1
  <2>2. /\ back \in Seq(S) /\ Len(back) = Len(s) - n
        /\ \A i \in 1..(Len(s) - n) : back[i] = s[n + i]
    BY <1>1
  <2>3. r = front \o back  BY DEF RemoveAt
  <2> HIDE DEF front, back, r
  <2> SUFFICES ASSUME NEW i \in 1..Len(r)
               PROVE  r[i] = IF i < n THEN s[i] ELSE s[i + 1]
    OBVIOUS
  <2>4. r[i] = IF i <= Len(front) THEN front[i] ELSE back[i - Len(front)]
    BY <1>1, <1>2, <2>1, <2>2, <2>3
  <2>5. CASE i < n  BY <1>1, <2>1, <2>4, <2>5
  <2>6. CASE ~(i < n)
    <3>1. i - (n - 1) \in 1..(Len(s) - n) /\ n + (i - (n - 1)) = i + 1
      BY <1>1, <1>2, <2>6
    <3>2. back[i - (n - 1)] = s[n + (i - (n - 1))]  BY <2>2, <3>1
    <3>3. r[i] = back[i - (n - 1)]  BY <1>1, <2>1, <2>4, <2>6
    <3> QED  BY <2>6, <3>1, <3>2, <3>3
  <2> QED  BY <2>5, <2>6
<1>4. DOMAIN r = 1..Len(r)  BY <1>2
<1>5. IsInjective(r)
  <2> DEFINE at(i) == IF i < n THEN i ELSE i + 1
  <2>1. \A i \in 1..Len(r) : at(i) \in 1..Len(s) /\ r[i] = s[at(i)]
    BY <1>1, <1>2, <1>3
  <2>2. \A i, j \in 1..Len(r) : at(i) = at(j) => i = j  BY <1>1, <1>2
  <2>3. \A i, j \in 1..Len(s) : s[i] = s[j] => i = j  BY <1>1 DEF IsInjective
  <2> HIDE DEF at
  <2>4. \A i, j \in 1..Len(r) : r[i] = r[j] => i = j  BY <2>1, <2>2, <2>3
  <2> QED  BY <1>4, <2>4 DEF IsInjective
<1>6. ToSet(r) \subseteq ToSet(s) \ {s[n]}
  BY <1>1, <1>2, <1>3, <1>4 DEF IsInjective, ToSet
<1>7. ASSUME NEW p \in ToSet(s) \ {s[n]} PROVE p \in ToSet(r)
  <2>1. PICK i \in 1..Len(s) : p = s[i]  BY <1>1 DEF ToSet
  <2>2. CASE i < n  BY <1>1, <1>2, <1>3, <1>4, <2>1, <2>2 DEF ToSet
  <2>3. CASE i > n
    <3>1. i - 1 \in 1..Len(r) /\ r[i - 1] = s[i]  BY <1>1, <1>2, <1>3, <2>3
    <3> QED  BY <1>4, <2>1, <3>1 DEF ToSet
  <2> QED  BY <1>1, <2>1, <2>2, <2>3
<1> QED  BY <1>2, <1>5, <1>6, <1>7

LEMMA AddOne ==
  ASSUME NEW S, NEW s \in Seq(S), IsInjective(s), NEW p \in S, p \notin ToSet(s)
  PROVE  /\ Append(s, p) \in Seq(S) /\ IsInjective(Append(s, p))
         /\ ToSet(Append(s, p)) = ToSet(s) \cup {p}
<1> DEFINE r == Append(s, p)
<1>1. Len(s) \in Nat /\ DOMAIN s = 1..Len(s)  OBVIOUS
<1>2. r \in Seq(S) /\ Len(r) = Len(s) + 1 /\ DOMAIN r = 1..Len(r)  BY <1>1
<1>3. r[Len(r)] = p /\ \A i \in 1..Len(s) : r[i] = s[i]  BY <1>1, <1>2
<1>4. IsInjective(r)
  BY <1>1, <1>2, <1>3 DEF IsInjective, ToSet
<1>5. ToSet(r) = ToSet(s) \cup {p}
  BY <1>1, <1>2, <1>3 DEF ToSet
<1> QED  BY <1>2, <1>4, <1>5

LEMMA CutOff ==
  ASSUME NEW S, NEW s \in Seq(S), IsInjective(s), NEW n \in 0..Len(s)
  PROVE  /\ SubSeq(s, 1, n) \in Seq(S) /\ IsInjective(SubSeq(s, 1, n))
         /\ ToSet(SubSeq(s, 1, n)) \subseteq ToSet(s)
<1> DEFINE r == SubSeq(s, 1, n)
<1>1. Len(s) \in Nat /\ DOMAIN s = 1..Len(s)  OBVIOUS
<1>2. r \in Seq(S) /\ Len(r) = n /\ DOMAIN r = 1..n /\ \A i \in 1..n : r[i] = s[i]
  BY <1>1
<1> QED  BY <1>1, <1>2 DEF IsInjective, ToSet
-----------------------------------------------------------------------------
(***************************************************************************)
(* The coordinator's Entries.                                              *)
(***************************************************************************)
\* A live fiber belongs to the active Entry of its Session, the active Entry
\* of a Session has a live fiber, and an Entry without a fiber is fresh.
LiveIsActive == \A e \in Entries : fiber[e] # "none" => active[keyOf[e]] = e
ActiveIsLive ==
  \A k \in Keys : active[k] # None =>
    keyOf[active[k]] = k /\ fiber[active[k]] # "none"
FreshFlags == \A e \in Entries : fiber[e] = "none" => ~pendingWake[e] /\ ~stopping[e]

CoordOK == C!TypeOK /\ LiveIsActive /\ ActiveIsLive /\ FreshFlags

\* What a step may not touch of the Sessions but k.
OthersStay(k) ==
  \A j \in Keys \ {k} :
    /\ active'[j] = active[j]
    /\ active[j] # None =>
         LET e == active[j] IN
           /\ fiber'[e] = fiber[e] /\ pendingWake'[e] = pendingWake[e]
           /\ stopping'[e] = stopping[e] /\ keyOf'[e] = keyOf[e]

LEMMA WorkType ==
  /\ Work \in [Keys -> BOOLEAN] /\ Signalled \in [Keys -> BOOLEAN]
  /\ Work' \in [Keys -> BOOLEAN] /\ Signalled' \in [Keys -> BOOLEAN]
  BY DEF Work, Signalled

\* An idle Session is given a fresh Entry, which drains.
LEMMA StartIdleStep ==
  ASSUME CoordOK, NEW k \in Keys, active[k] = None, C!StartIdle(k),
         pc' \in [Clients -> {"idle", "resolved", "rerun"} \cup C!Waiting],
         ref' \in [Clients -> Entries \cup {None}], target' \in [Clients -> Keys],
         calm' \in [Keys -> BOOLEAN]
  PROVE  /\ CoordOK' /\ OthersStay(k)
         /\ active'[k] \in Entries /\ fiber[active'[k]] = "none"
         /\ fiber' = [fiber EXCEPT ![active'[k]] = "draining"]
         /\ UNCHANGED <<pendingWake, stopping>>
<1>1. PICK e \in Entries :
        /\ fiber[e] = "none" /\ C!MakeActive(k, e)
        /\ fiber' = [fiber EXCEPT ![e] = "draining"]
        /\ UNCHANGED <<pendingWake, stopping>>
  BY DEF C!StartIdle
<1>2. active' = [active EXCEPT ![k] = e] /\ keyOf' = [keyOf EXCEPT ![e] = k]
  BY <1>1 DEF C!MakeActive
<1>3. None \notin Entries  BY RunAssumption
<1> USE <1>1, <1>2, <1>3 DEF CoordOK, C!TypeOK, C!Live
<1>4. C!TypeOK'  BY WorkType
<1>5. LiveIsActive' /\ ActiveIsLive' /\ FreshFlags'
  BY DEF LiveIsActive, ActiveIsLive, FreshFlags
<1>6. OthersStay(k)  BY DEF OthersStay, ActiveIsLive
<1>7. active'[k] = e  OBVIOUS
<1> QED  BY <1>4, <1>5, <1>6, <1>7

\* The callers that wait for an Entry are answered.
LEMMA CompleteStep ==
  ASSUME CoordOK, NEW e \in Entries, NEW exit, C!Complete(e, exit)
  PROVE  /\ pc' \in [Clients -> {"idle", "resolved", "rerun"} \cup C!Waiting]
         /\ ref' \in [Clients -> Entries \cup {None}] /\ target' \in [Clients -> Keys]
  BY DEF CoordOK, C!TypeOK, C!Waiting, C!Complete

\* An Entry without a follow-up is forgotten, and its Session is idle.
LEMMA RetireStep ==
  ASSUME CoordOK, NEW e \in Entries, fiber[e] # "none", NEW exit, C!Retire(e, exit),
         calm' \in [Keys -> BOOLEAN]
  PROVE  /\ CoordOK' /\ OthersStay(keyOf[e])
         /\ \A f \in Entries :
              fiber'[f] = "draining" <=> (f # e /\ fiber[f] = "draining")
<1>1. None \notin Entries /\ active[keyOf[e]] = e /\ keyOf[e] \in Keys
  BY RunAssumption DEF CoordOK, LiveIsActive, C!TypeOK
<1>2. \A j \in Keys \ {keyOf[e]} : active[j] # None =>
        active[j] \in Entries \ {e} /\ fiber[active[j]] # "none"
  BY DEF CoordOK, ActiveIsLive, C!TypeOK
<1> USE <1>1 DEF CoordOK, C!TypeOK, C!Live, C!Retire, C!ClearFlags
<1>3. C!TypeOK'  BY CompleteStep, WorkType
<1>4. LiveIsActive' /\ ActiveIsLive' /\ FreshFlags'
  BY DEF LiveIsActive, ActiveIsLive, FreshFlags
<1>5. OthersStay(keyOf[e])  BY <1>2 DEF OthersStay
<1> QED  BY <1>3, <1>4, <1>5

\* An Entry whose fiber ends is drained again, replaced, or retired: with a
\* wake due its Session goes on, without one it is idle.
LEMMA SettleStep ==
  ASSUME CoordOK, NEW e \in Entries, fiber[e] # "none", NEW exit, C!Settle(e, exit),
         calm' \in [Keys -> BOOLEAN]
  PROVE  /\ CoordOK' /\ OthersStay(keyOf[e])
         /\ \A f \in Entries :
              fiber'[f] = "draining" <=> (f # e /\ fiber[f] = "draining")
         /\ pendingWake[e] =>
              LET a == active'[keyOf[e]] IN
                a \in Entries /\ fiber'[a] = "yielding" /\ ~stopping'[a]
<1>1. None \notin Entries /\ active[keyOf[e]] = e /\ keyOf[e] \in Keys
  BY RunAssumption DEF CoordOK, LiveIsActive, C!TypeOK
<1>2. \A j \in Keys \ {keyOf[e]} : active[j] # None =>
        active[j] \in Entries \ {e} /\ fiber[active[j]] # "none"
  BY DEF CoordOK, ActiveIsLive, C!TypeOK
<1> USE <1>1 DEF CoordOK, C!TypeOK, C!Live, C!Waiting
<1>3. CASE C!FollowUp(e, exit) /\ C!DrainAgain(e)
  <2> USE <1>3 DEF C!FollowUp, C!DrainAgain, C!clientVars
  <2>1. C!TypeOK'  BY WorkType
  <2>2. LiveIsActive' /\ ActiveIsLive' /\ FreshFlags'
    BY DEF LiveIsActive, ActiveIsLive, FreshFlags
  <2>3. OthersStay(keyOf[e])  BY <1>2 DEF OthersStay
  <2> QED  BY <2>1, <2>2, <2>3
<1>4. CASE C!Successor(e, exit) /\ C!HandOver(e, exit)
  <2>1. PICK f \in Entries :
          /\ fiber[f] = "none" /\ C!MakeActive(keyOf[e], f)
          /\ fiber' = [fiber EXCEPT ![f] = "yielding", ![e] = "none"]
    BY <1>4 DEF C!HandOver
  <2> USE <2>1 DEF C!MakeActive, C!ClearFlags
  <2>2. C!ClearFlags(e) /\ C!Complete(e, exit)  BY <1>4 DEF C!HandOver
  <2>3. f # e  OBVIOUS
  <2>4. C!TypeOK'  BY CompleteStep, <2>2, WorkType
  <2>5. LiveIsActive' /\ ActiveIsLive' /\ FreshFlags'
    BY <2>2, <2>3 DEF LiveIsActive, ActiveIsLive, FreshFlags
  <2>6. OthersStay(keyOf[e])
    BY <1>2, <2>2, <2>3 DEF OthersStay
  <2>7. active'[keyOf[e]] = f /\ fiber'[f] = "yielding" /\ ~stopping'[f]
    BY <2>2, <2>3 DEF FreshFlags
  <2> QED  BY <2>3, <2>4, <2>5, <2>6, <2>7
<1>5. CASE ~C!Successor(e, exit) /\ C!Retire(e, exit)
  BY <1>5, RetireStep DEF C!Successor
<1> QED  BY <1>3, <1>4, <1>5 DEF C!Settle
-----------------------------------------------------------------------------
(***************************************************************************)
(* The inductive invariant.                                                *)
(***************************************************************************)
\* Only a draining Entry has anything in its drain's local state.
AtRest == \A e \in Entries : fiber[e] # "draining" => runner[e] = Started(FALSE)

\* What was not admitted was neither woken for nor promoted.
Known == (woken \cup unasked) \cap fresh = {}

\* A promoted prompt is in the hands of the drain of its Session, which comes
\* to its request before it looks for anything else.
Held(p) ==
  LET e == active[kind[p].session] IN
    /\ e # None /\ fiber[e] = "draining"
    /\ \/ runner[e].at \in {"steers", "call"}
       \/ runner[e].at = "turn" /\ runner[e].plan = "none"
InHand == \A p \in unasked : Held(p)

\* The cutoff is one of steers.
Steered ==
  \A e \in Entries : runner[e].at \in {"queued", "steers"} =>
    \A p \in runner[e].cutoff : kind[p].delivery = "steer"

\* NoPromptStranded, for one Session.
Owed(k) ==
  \A p \in Pending(k) \cap woken :
    /\ active[k] # None
    /\ LET e == active[k] IN
         \/ pendingWake[e]
         \/ ~stopping[e] /\ fiber[e] = "yielding"
         \/ /\ ~stopping[e] /\ fiber[e] = "draining"
            /\ kind[p].delivery = "steer" => runner[e].at \notin {"lookQueue", "lookMore"}

\* The inboxes, apart from the rest of the types.
InboxOK ==
  /\ inbox \in [Keys -> Seq(Prompts)]
  /\ \A k \in Keys :
       /\ IsInjective(inbox[k])
       /\ \A p \in Pending(k) : p \notin fresh \cup unasked /\ kind[p].session = k

PromptsOK ==
  /\ kind \in [Prompts -> [session : Keys, delivery : {"steer", "queue"}]]
  /\ fresh \subseteq Prompts /\ woken \subseteq Prompts /\ unasked \subseteq Prompts
  /\ waking \subseteq Prompts \ fresh
  /\ InboxOK

SInv ==
  /\ CoordOK /\ PromptsOK /\ runner \in [Entries -> Runner]
  /\ AtRest /\ Known /\ InHand /\ Steered
  /\ OneQueuedAtATime /\ \A k \in Keys : Owed(k)

LEMMA Implied ==
  SInv => TypeOK /\ NoPromptStranded /\ NothingSwallowed /\ OneQueuedAtATime
<1> SUFFICES ASSUME SInv
             PROVE  TypeOK /\ NoPromptStranded /\ NothingSwallowed /\ OneQueuedAtATime
  OBVIOUS
<1>1. TypeOK  BY DEF SInv, CoordOK, PromptsOK, InboxOK, TypeOK
<1>2. NoPromptStranded  BY DEF SInv, Owed, NoPromptStranded
<1>3. NothingSwallowed
  BY DEF SInv, InHand, Held, NothingSwallowed
<1> QED  BY <1>1, <1>2, <1>3 DEF SInv

LEMMA InitInv == Init => SInv
<1> SUFFICES ASSUME Init PROVE SInv  OBVIOUS
<1>1. None \notin Entries /\ Keys # {} /\ MaxSteps \in Nat \ {0}  BY RunAssumption
<1> USE DEF Init
<1>2. CoordOK
  BY <1>1, WorkType DEF CoordOK, C!TypeOK, C!Live, C!Waiting, LiveIsActive, ActiveIsLive, FreshFlags
<1>3. \A k \in Keys : inbox[k] = <<>> /\ Pending(k) = {}  BY DEF Pending, ToSet
<1>4. PromptsOK
  <2>1. IsInjective(<<>>) /\ <<>> \in Seq(Prompts)  BY DEF IsInjective
  <2> QED  BY <1>3, <2>1 DEF PromptsOK, InboxOK
<1>5. Started(FALSE) \in Runner /\ Started(FALSE).at = "start"
  BY <1>1 DEF Started, Runner
<1>6. runner \in [Entries -> Runner] /\ AtRest /\ Steered
  BY <1>5 DEF AtRest, Steered
<1>7. Known /\ InHand /\ OneQueuedAtATime  BY DEF Known, InHand, OneQueuedAtATime
<1>8. \A k \in Keys : Owed(k)  BY <1>3 DEF Owed
<1> QED  BY <1>2, <1>4, <1>6, <1>7, <1>8 DEF SInv
-----------------------------------------------------------------------------
(***************************************************************************)
(* Steps of a drain.                                                       *)
(***************************************************************************)
LEMMA TheActive ==
  ASSUME SInv, NEW e \in Entries, fiber[e] # "none"
  PROVE  /\ keyOf[e] \in Keys /\ active[keyOf[e]] = e /\ e # None
         /\ \A k \in Keys : active[k] = e => k = keyOf[e]
  BY RunAssumption DEF SInv, CoordOK, C!TypeOK, LiveIsActive, ActiveIsLive

\* Until it comes to its next request, a drain has nothing promoted in hand.
LEMMA EmptyHanded ==
  ASSUME SInv, NEW e \in Entries, fiber[e] # "none",
         runner[e].at \notin {"steers", "call"},
         runner[e].at # "turn" \/ runner[e].plan # "none"
  PROVE  \A p \in unasked : kind[p].session # keyOf[e]
  BY TheActive DEF SInv, InHand, Held

LEMMA SameCoordination ==
  ASSUME CoordOK, UNCHANGED coordination
  PROVE  CoordOK'
<1> USE DEF coordination
<1>1. C!TypeOK'  BY WorkType DEF CoordOK, C!TypeOK
<1>2. LiveIsActive' /\ ActiveIsLive' /\ FreshFlags'
  BY DEF CoordOK, LiveIsActive, ActiveIsLive, FreshFlags
<1> QED  BY <1>1, <1>2 DEF CoordOK

LEMMA SamePrompts ==
  ASSUME PromptsOK, UNCHANGED prompts, unasked' \subseteq unasked
  PROVE  PromptsOK'
<1> USE DEF prompts
<1>1. \A k : Pending(k)' = Pending(k)  BY DEF Pending
<1> QED  BY <1>1 DEF PromptsOK, InboxOK

LEMMA FewerInHand ==
  ASSUME OneQueuedAtATime, unasked' \subseteq unasked, UNCHANGED kind
  PROVE  OneQueuedAtATime'
  BY DEF OneQueuedAtATime

\* The local state of a drain changes and nothing else.
LEMMA LocalStep ==
  ASSUME SInv, NEW e \in Entries, fiber[e] = "draining",
         UNCHANGED <<coordination, prompts>>, unasked' \subseteq unasked,
         NEW r \in Runner, Goes(e, r),
         r.at \in {"queued", "steers"} => \A p \in r.cutoff : kind[p].delivery = "steer",
         \A p \in unasked' : kind[p].session = keyOf[e] =>
           r.at \in {"steers", "call"} \/ (r.at = "turn" /\ r.plan = "none"),
         r.at \in {"lookQueue", "lookMore"} => ~HasPending(e, "steer")
  PROVE  SInv'
<1>1. keyOf[e] \in Keys /\ active[keyOf[e]] = e /\ e # None
      /\ \A k \in Keys : active[k] = e => k = keyOf[e]
  BY TheActive
<1>2. CoordOK' /\ PromptsOK' /\ OneQueuedAtATime'
  BY SameCoordination, SamePrompts, FewerInHand DEF SInv, prompts
<1>3. runner' \in [Entries -> Runner] /\ runner'[e] = r
      /\ \A f \in Entries \ {e} : runner'[f] = runner[f]
  BY DEF SInv, Goes
<1> USE DEF coordination, prompts
<1>4. AtRest' /\ Steered'
  BY <1>3 DEF SInv, AtRest, Steered
<1>5. Known'  BY DEF SInv, Known
<1>6. InHand'
  <2> SUFFICES ASSUME NEW p \in unasked' PROVE Held(p)'  BY DEF InHand
  <2>1. Held(p) /\ kind[p].session \in Keys
    BY DEF SInv, InHand, PromptsOK
  <2>2. active[kind[p].session] \in Entries
    BY <2>1 DEF SInv, CoordOK, C!TypeOK, Held
  <2>3. CASE kind[p].session = keyOf[e]  BY <1>1, <1>3, <2>3 DEF Held
  <2>4. CASE kind[p].session # keyOf[e]
    BY <1>1, <1>3, <2>1, <2>2, <2>4 DEF Held
  <2> QED  BY <2>3, <2>4
<1>7. ASSUME NEW k \in Keys PROVE Owed(k)'
  <2> SUFFICES ASSUME NEW p \in (Pending(k) \cap woken)'
               PROVE  /\ active[k] # None
                      /\ LET f == active[k] IN
                           \/ pendingWake[f]
                           \/ ~stopping[f] /\ fiber[f] = "yielding"
                           \/ /\ ~stopping[f] /\ fiber[f] = "draining"
                              /\ kind[p].delivery = "steer" =>
                                   runner'[f].at \notin {"lookQueue", "lookMore"}
    BY DEF Owed
  <2>1. p \in Pending(k) \cap woken  BY DEF Pending
  <2>2. Owed(k) /\ active[k] \in Entries \cup {None}
    BY DEF SInv, CoordOK, C!TypeOK
  <2>3. CASE k = keyOf[e]
    <3>1. kind[p].delivery = "steer" => HasPending(e, "steer")
      BY <2>1, <2>3 DEF HasPending, Delivered
    <3> QED  BY <1>1, <1>3, <2>1, <2>2, <2>3, <3>1 DEF Owed
  <2>4. CASE k # keyOf[e]
    <3>1. active[k] # e  BY <1>1, <2>4
    <3> QED  BY <1>3, <2>1, <2>2, <3>1 DEF Owed
  <2> QED  BY <2>3, <2>4
<1> QED  BY <1>2, <1>3, <1>4, <1>5, <1>6, <1>7 DEF SInv

LEMMA TurnStep ==
  ASSUME SInv, NEW e \in Entries, fiber[e] = "draining",
         UNCHANGED <<coordination, prompts, unasked>>,
         runner[e].at \notin {"steers", "call", "turn"},
         NEW plan \in {"none", "steer", "queue"}, NEW step \in 1..MaxSteps,
         Turn(e, plan, step)
  PROVE  SInv'
<1> DEFINE r == [runner[e] EXCEPT !.at = "turn", !.plan = plan, !.step = step,
                                  !.recovered = FALSE]
<1>1. r \in Runner /\ r.at = "turn"  BY DEF SInv, Runner
<1>2. Goes(e, r)  BY DEF Turn
<1>3. \A p \in unasked' : kind[p].session # keyOf[e]  BY EmptyHanded
<1> HIDE DEF r
<1> QED  BY <1>1, <1>2, <1>3, LocalStep

LEMMA NextStepType ==
  ASSUME SInv, NEW e \in Entries
  PROVE  NextStep(e) \in 1..MaxSteps /\ 1 \in 1..MaxSteps
  BY RunAssumption DEF SInv, Runner, NextStep

LEMMA LookSteerStep == ASSUME SInv, NEW e \in Entries, LookSteer(e) PROVE SInv'
<1> USE DEF LookSteer, Runs
<1>1. CASE HasPending(e, "steer")
  BY <1>1, NextStepType, TurnStep
<1>2. CASE ~HasPending(e, "steer")
  <2> DEFINE r == [runner[e] EXCEPT !.at = "lookQueue"]
  <2>1. r \in Runner /\ r.at = "lookQueue"  BY DEF SInv, Runner
  <2>2. Goes(e, r)  BY <1>2
  <2>3. \A p \in unasked' : kind[p].session # keyOf[e]  BY EmptyHanded
  <2> HIDE DEF r
  <2> QED  BY <1>2, <2>1, <2>2, <2>3, LocalStep
<1> QED  BY <1>1, <1>2

LEMMA LookAgainStep == ASSUME SInv, NEW e \in Entries, LookAgain(e) PROVE SInv'
<1> USE DEF LookAgain, Runs
<1>1. CASE HasPending(e, "steer")
  BY <1>1, NextStepType, TurnStep
<1>2. CASE ~HasPending(e, "steer")
  <2> DEFINE r == [runner[e] EXCEPT !.at = "lookMore"]
  <2>1. r \in Runner /\ r.at = "lookMore"  BY DEF SInv, Runner
  <2>2. Goes(e, r)  BY <1>2
  <2>3. \A p \in unasked' : kind[p].session # keyOf[e]  BY EmptyHanded
  <2> HIDE DEF r
  <2> QED  BY <1>2, <2>1, <2>2, <2>3, LocalStep
<1> QED  BY <1>1, <1>2

\* A drain that returns leaves no queued prompt, and a steer only to the
\* follow-up that is due for it.
LEMMA ExitStep ==
  ASSUME SInv, NEW e \in Entries, fiber[e] = "draining",
         runner[e].at \in {"lookQueue", "lookMore"}, ~HasPending(e, "queue"),
         Exit(e), UNCHANGED <<prompts, unasked>>
  PROVE  SInv'
<1>1. /\ keyOf[e] \in Keys /\ active[keyOf[e]] = e /\ e # None
      /\ \A k \in Keys : active[k] = e => k = keyOf[e]
  BY TheActive
<1>2. PromptsOK' /\ OneQueuedAtATime'
  BY SamePrompts, FewerInHand DEF SInv, prompts
<1>3. Started(FALSE) \in Runner /\ Started(FALSE).at = "start"
  BY RunAssumption DEF Started, Runner
<1>4. /\ runner' = [runner EXCEPT ![e] = Started(FALSE)]
      /\ runner' \in [Entries -> Runner] /\ runner'[e] = Started(FALSE)
      /\ \A f \in Entries \ {e} : runner'[f] = runner[f]
  BY <1>3 DEF SInv, Exit, Goes
<1> HIDE DEF Started
<1>5. CoordOK'
  <2>1. C!TypeOK'  BY WorkType DEF SInv, CoordOK, C!TypeOK, C!Live, Exit
  <2>2. LiveIsActive' /\ ActiveIsLive' /\ FreshFlags'
    BY DEF SInv, CoordOK, C!TypeOK, LiveIsActive, ActiveIsLive, FreshFlags, Exit
  <2> QED  BY <2>1, <2>2 DEF CoordOK
<1>6. /\ fiber' = [fiber EXCEPT ![e] = "exiting"] /\ fiber'[e] = "exiting"
      /\ \A f \in Entries \ {e} : fiber'[f] = fiber[f]
      /\ UNCHANGED <<active, keyOf, pendingWake, stopping>>
  BY DEF Exit, SInv, CoordOK, C!TypeOK
<1> USE DEF prompts
<1>7. AtRest' /\ Steered'
  BY <1>3, <1>4, <1>6 DEF SInv, AtRest, Steered
<1>8. Known'  BY DEF SInv, Known
<1>9. InHand'
  <2> SUFFICES ASSUME NEW p \in unasked PROVE Held(p)'  BY DEF InHand
  <2>1. Held(p) /\ kind[p].session # keyOf[e] /\ kind[p].session \in Keys
    BY EmptyHanded DEF SInv, InHand, PromptsOK
  <2>2. active[kind[p].session] \in Entries \ {e}
    BY <1>1, <2>1 DEF SInv, CoordOK, C!TypeOK, Held
  <2> QED  BY <1>4, <1>6, <2>1, <2>2 DEF Held
<1>10. ASSUME NEW k \in Keys PROVE Owed(k)'
  <2> SUFFICES ASSUME NEW p \in (Pending(k) \cap woken)'
               PROVE  /\ active[k] # None
                      /\ LET f == active[k] IN
                           \/ pendingWake[f]
                           \/ ~stopping[f] /\ fiber'[f] = "yielding"
                           \/ /\ ~stopping[f] /\ fiber'[f] = "draining"
                              /\ kind[p].delivery = "steer" =>
                                   runner'[f].at \notin {"lookQueue", "lookMore"}
    BY <1>6 DEF Owed
  <2>1. p \in Pending(k) \cap woken  BY DEF Pending
  <2>2. Owed(k) /\ active[k] \in Entries \cup {None}
    BY DEF SInv, CoordOK, C!TypeOK
  <2>3. CASE k = keyOf[e]
    <3>1. kind[p].delivery = "steer"
      BY <2>1, <2>3 DEF SInv, PromptsOK, HasPending, Delivered
    <3>2. pendingWake[e]  BY <1>1, <2>1, <2>2, <2>3, <3>1 DEF Owed
    <3> QED  BY <1>1, <2>3, <3>2
  <2>4. CASE k # keyOf[e]
    <3>1. active[k] # e  BY <1>1, <2>4
    <3> QED  BY <1>4, <1>6, <2>1, <2>2, <3>1 DEF Owed
  <2> QED  BY <2>3, <2>4
<1> QED  BY <1>2, <1>4, <1>5, <1>7, <1>8, <1>9, <1>10 DEF SInv

LEMMA LookQueueStep == ASSUME SInv, NEW e \in Entries, LookQueue(e) PROVE SInv'
<1> USE DEF LookQueue, Runs
<1>1. CASE HasPending(e, "queue") \/ runner[e].force
  BY <1>1, NextStepType, TurnStep
<1>2. CASE ~HasPending(e, "queue") /\ ~runner[e].force
  BY <1>2, ExitStep
<1> QED  BY <1>1, <1>2

LEMMA LookMoreStep == ASSUME SInv, NEW e \in Entries, LookMore(e) PROVE SInv'
<1> USE DEF LookMore, Runs
<1>1. CASE HasPending(e, "queue")  BY <1>1, NextStepType, TurnStep
<1>2. CASE ~HasPending(e, "queue")  BY <1>2, ExitStep
<1> QED  BY <1>1, <1>2

LEMMA ReadCutoffStep == ASSUME SInv, NEW e \in Entries, ReadCutoff(e) PROVE SInv'
<1> USE DEF ReadCutoff, Runs
<1>1. CASE runner[e].plan = "none"
  <2> DEFINE r == [runner[e] EXCEPT !.at = "call"]
  <2>1. r \in Runner /\ r.at = "call"  BY DEF SInv, Runner
  <2>2. Goes(e, r)  BY <1>1
  <2> HIDE DEF r
  <2> QED  BY <2>1, <2>2, LocalStep
<1>2. CASE runner[e].plan # "none"
  <2> DEFINE steers == Delivered(keyOf[e], "steer")
             r == [runner[e] EXCEPT
                     !.at = IF runner[e].plan = "queue" THEN "queued" ELSE "steers",
                     !.cutoff = steers]
  <2>1. steers \subseteq Prompts /\ \A p \in steers : kind[p].delivery = "steer"
    <3>1. inbox[keyOf[e]] \in Seq(Prompts)
      BY TheActive DEF SInv, PromptsOK, InboxOK
    <3> QED  BY <3>1 DEF Delivered, Pending, ToSet
  <2>2. r \in Runner /\ r.at \in {"queued", "steers"} /\ r.cutoff = steers
    BY <2>1 DEF SInv, Runner
  <2>3. Goes(e, r)  BY <1>2
  <2>4. \A p \in unasked' : kind[p].session # keyOf[e]  BY <1>2, EmptyHanded
  <2> HIDE DEF r, steers
  <2> QED  BY <2>1, <2>2, <2>3, <2>4, LocalStep
<1> QED  BY <1>1, <1>2

LEMMA CompactStep == ASSUME SInv, NEW e \in Entries, Compact(e) PROVE SInv'
<1> DEFINE r == [runner[e] EXCEPT !.at = "turn", !.plan = "none"]
<1>1. r \in Runner /\ r.at = "turn" /\ r.plan = "none"  BY DEF SInv, Runner
<1>2. Goes(e, r)  BY DEF Compact
<1> HIDE DEF r
<1> QED  BY <1>1, <1>2, LocalStep DEF Compact, Runs

LEMMA CallProviderStep == ASSUME SInv, NEW e \in Entries, CallProvider(e) PROVE SInv'
<1> DEFINE r == [runner[e] EXCEPT !.at = "stream"]
<1>1. r \in Runner /\ r.at = "stream"  BY DEF SInv, Runner
<1>2. Goes(e, r)  BY DEF CallProvider
<1> HIDE DEF r
<1> QED  BY <1>1, <1>2, LocalStep DEF CallProvider, Runs

LEMMA OverflowStep == ASSUME SInv, NEW e \in Entries, Overflow(e) PROVE SInv'
<1> DEFINE r == [runner[e] EXCEPT !.at = "turn", !.plan = "none", !.recovered = TRUE]
<1>1. r \in Runner /\ r.at = "turn" /\ r.plan = "none"  BY DEF SInv, Runner
<1>2. Goes(e, r)  BY DEF Overflow
<1> HIDE DEF r
<1> QED  BY <1>1, <1>2, LocalStep DEF Overflow, Runs

LEMMA AnsweredStep == ASSUME SInv, NEW e \in Entries, Answered(e) PROVE SInv'
<1> USE DEF Answered, Runs
<1>1. CASE Turn(e, "steer", NextStep(e))
  BY <1>1, NextStepType, TurnStep
<1>2. CASE Goes(e, [runner[e] EXCEPT !.at = "lookAgain"])
  <2> DEFINE r == [runner[e] EXCEPT !.at = "lookAgain"]
  <2>1. r \in Runner /\ r.at = "lookAgain"  BY DEF SInv, Runner
  <2>2. Goes(e, r)  BY <1>2
  <2>3. \A p \in unasked' : kind[p].session # keyOf[e]  BY EmptyHanded
  <2> HIDE DEF r
  <2> QED  BY <2>1, <2>2, <2>3, LocalStep
<1> QED  BY <1>1, <1>2

\* The oldest of some prompts leaves the inbox for the hands of the drain.
LEMMA PromoteStep ==
  ASSUME SInv, NEW e \in Entries, fiber[e] = "draining",
         runner[e].at \in {"queued", "steers"},
         NEW n \in DOMAIN inbox[keyOf[e]],
         runner[e].at = "queued" \/ kind[inbox[keyOf[e]][n]].delivery = "steer",
         Promote(e, n, "steers")
  PROVE  SInv'
<1> DEFINE q == inbox[keyOf[e]][n]
           r == [runner[e] EXCEPT !.at = "steers", !.step = 1]
<1>1. /\ keyOf[e] \in Keys /\ active[keyOf[e]] = e /\ e # None
      /\ \A k \in Keys : active[k] = e => k = keyOf[e]
  BY TheActive
<1>2. /\ inbox \in [Keys -> Seq(Prompts)] /\ IsInjective(inbox[keyOf[e]])
      /\ inbox[keyOf[e]] \in Seq(Prompts)
  BY <1>1 DEF SInv, PromptsOK, InboxOK
<1>3. q \in Pending(keyOf[e]) /\ q \in Prompts
  BY <1>2 DEF Pending, ToSet
<1>4. kind[q].session = keyOf[e] /\ q \notin fresh \cup unasked
  BY <1>1, <1>3 DEF SInv, PromptsOK, InboxOK
<1>5. r \in Runner /\ r.at = "steers" /\ r.cutoff = runner[e].cutoff
  BY NextStepType DEF SInv, Runner
<1>6. /\ UNCHANGED <<coordination, kind, fresh, waking>>
      /\ woken' = woken \ {q} /\ unasked' = unasked \cup {q}
      /\ inbox' = [inbox EXCEPT ![keyOf[e]] = RemoveAt(@, n)]
      /\ Goes(e, r)
  BY DEF Promote
<1>7. runner' \in [Entries -> Runner] /\ runner'[e] = r
      /\ \A f \in Entries \ {e} : runner'[f] = runner[f]
  BY <1>5, <1>6 DEF SInv, Goes
<1>8. /\ inbox' \in [Keys -> Seq(Prompts)]
      /\ \A k \in Keys : /\ IsInjective(inbox'[k])
                         /\ Pending(k)' = IF k = keyOf[e] THEN Pending(k) \ {q} ELSE Pending(k)
  <2>1. /\ RemoveAt(inbox[keyOf[e]], n) \in Seq(Prompts)
        /\ IsInjective(RemoveAt(inbox[keyOf[e]], n))
        /\ ToSet(RemoveAt(inbox[keyOf[e]], n)) = ToSet(inbox[keyOf[e]]) \ {q}
    BY <1>2, RemoveOne
  <2>2. inbox' \in [Keys -> Seq(Prompts)]  BY <1>1, <1>2, <1>6, <2>1
  <2>3. inbox'[keyOf[e]] = RemoveAt(inbox[keyOf[e]], n)
        /\ \A k \in Keys \ {keyOf[e]} : inbox'[k] = inbox[k]
    BY <1>1, <1>2, <1>6
  <2> QED  BY <2>1, <2>2, <2>3 DEF Pending, SInv, PromptsOK, InboxOK
<1> HIDE DEF q, r
<1>9. CoordOK'  BY <1>6, SameCoordination DEF SInv
<1> USE <1>6 DEF coordination
<1>10. PromptsOK'
  <2>1. InboxOK'
    <3> SUFFICES ASSUME NEW k \in Keys, NEW p \in Pending(k)'
                 PROVE  p \notin fresh \cup unasked' /\ kind[p].session = k
      BY <1>8 DEF InboxOK
    <3>1. p \in Pending(k)  BY <1>8
    <3>2. p \notin fresh \cup unasked /\ kind[p].session = k
      BY <3>1 DEF SInv, PromptsOK, InboxOK
    <3>3. p # q  BY <1>4, <1>8, <3>2
    <3> QED  BY <3>2, <3>3
  <2> QED  BY <1>3, <2>1 DEF SInv, PromptsOK
<1>11. AtRest' /\ Steered'
  BY <1>5, <1>7 DEF SInv, AtRest, Steered
<1>12. Known'  BY <1>4 DEF SInv, Known
<1>13. InHand'
  <2> SUFFICES ASSUME NEW p \in unasked' PROVE Held(p)'  BY DEF InHand
  <2>1. CASE kind[p].session = keyOf[e]  BY <1>1, <1>5, <1>7, <2>1 DEF Held
  <2>2. CASE kind[p].session # keyOf[e]
    <3>1. Held(p) /\ kind[p].session \in Keys
      BY <1>4, <2>2 DEF SInv, InHand, PromptsOK
    <3>2. active[kind[p].session] \in Entries \ {e}
      BY <1>1, <2>2, <3>1 DEF SInv, CoordOK, C!TypeOK, Held
    <3> QED  BY <1>7, <3>1, <3>2 DEF Held
  <2> QED  BY <2>1, <2>2
<1>14. OneQueuedAtATime'
  <2>1. CASE runner[e].at = "queued"
    <3>1. \A p \in unasked : kind[p].session # keyOf[e]  BY <2>1, EmptyHanded
    <3> QED  BY <1>4, <3>1 DEF SInv, OneQueuedAtATime
  <2>2. CASE kind[q].delivery = "steer"
    BY <2>2 DEF SInv, OneQueuedAtATime
  <2> QED  BY <2>1, <2>2 DEF q
<1>15. ASSUME NEW k \in Keys PROVE Owed(k)'
  <2> SUFFICES ASSUME NEW p \in (Pending(k) \cap woken)'
               PROVE  /\ active[k] # None
                      /\ LET f == active[k] IN
                           \/ pendingWake[f]
                           \/ ~stopping[f] /\ fiber[f] = "yielding"
                           \/ /\ ~stopping[f] /\ fiber[f] = "draining"
                              /\ kind[p].delivery = "steer" =>
                                   runner'[f].at \notin {"lookQueue", "lookMore"}
    BY DEF Owed
  <2>1. p \in Pending(k) \cap woken  BY <1>8
  <2>2. Owed(k) /\ active[k] \in Entries \cup {None}
    BY DEF SInv, CoordOK, C!TypeOK
  <2>3. CASE k = keyOf[e]  BY <1>1, <1>5, <1>7, <2>1, <2>2, <2>3 DEF Owed
  <2>4. CASE k # keyOf[e]
    <3>1. active[k] # e  BY <1>1, <2>4
    <3> QED  BY <1>7, <2>1, <2>2, <3>1 DEF Owed
  <2> QED  BY <2>3, <2>4
<1> QED  BY <1>7, <1>9, <1>10, <1>11, <1>12, <1>13, <1>14, <1>15 DEF SInv

LEMMA PromoteQueuedStep == ASSUME SInv, NEW e \in Entries, PromoteQueued(e) PROVE SInv'
<1> DEFINE queue == Delivered(keyOf[e], "queue")
<1>1. CASE \E n \in Oldest(keyOf[e], queue) : Promote(e, n, "steers")
  <2>1. PICK n \in Oldest(keyOf[e], queue) : Promote(e, n, "steers")  BY <1>1
  <2>2. n \in DOMAIN inbox[keyOf[e]]  BY <2>1 DEF Oldest
  <2> QED  BY <2>1, <2>2, PromoteStep DEF PromoteQueued
<1>2. CASE /\ Goes(e, [runner[e] EXCEPT !.at = "steers"])
           /\ UNCHANGED <<coordination, prompts, unasked>>
  <2> DEFINE r == [runner[e] EXCEPT !.at = "steers"]
  <2>1. r \in Runner /\ r.at = "steers" /\ r.cutoff = runner[e].cutoff
    BY DEF SInv, Runner
  <2>2. \A p \in r.cutoff : kind[p].delivery = "steer"
    BY <2>1 DEF SInv, Steered, PromoteQueued
  <2>3. Goes(e, r)  BY <1>2
  <2> HIDE DEF r
  <2> QED  BY <1>2, <2>1, <2>2, <2>3, LocalStep DEF PromoteQueued
<1> QED  BY <1>1, <1>2 DEF PromoteQueued

LEMMA PromoteSteersStep == ASSUME SInv, NEW e \in Entries, PromoteSteers(e) PROVE SInv'
<1> DEFINE steers == Pending(keyOf[e]) \cap runner[e].cutoff
<1>1. CASE \E n \in Oldest(keyOf[e], steers) : Promote(e, n, "steers")
  <2>1. PICK n \in Oldest(keyOf[e], steers) : Promote(e, n, "steers")  BY <1>1
  <2>2. n \in DOMAIN inbox[keyOf[e]] /\ inbox[keyOf[e]][n] \in runner[e].cutoff
    BY <2>1 DEF Oldest
  <2>3. kind[inbox[keyOf[e]][n]].delivery = "steer"
    BY <2>2 DEF SInv, Steered, PromoteSteers
  <2> QED  BY <2>1, <2>2, <2>3, PromoteStep DEF PromoteSteers
<1>2. CASE /\ Goes(e, [runner[e] EXCEPT !.at = "call", !.cutoff = {}])
           /\ UNCHANGED <<coordination, prompts, unasked>>
  <2> DEFINE r == [runner[e] EXCEPT !.at = "call", !.cutoff = {}]
  <2>1. r \in Runner /\ r.at = "call"  BY DEF SInv, Runner
  <2>2. Goes(e, r)  BY <1>2
  <2> HIDE DEF r
  <2> QED  BY <1>2, <2>1, <2>2, LocalStep DEF PromoteSteers
<1> QED  BY <1>1, <1>2 DEF PromoteSteers
-----------------------------------------------------------------------------
(***************************************************************************)
(* Steps of the inbox: nothing that is owed a look comes in by itself.     *)
(***************************************************************************)
LEMMA InboxStep ==
  ASSUME SInv, UNCHANGED <<coordination, kind, runner>>, PromptsOK', Known',
         unasked' \subseteq unasked,
         \A k \in Keys : (Pending(k) \cap woken)' \subseteq Pending(k) \cap woken
  PROVE  SInv'
<1>1. CoordOK' /\ OneQueuedAtATime'
  BY SameCoordination, FewerInHand DEF SInv
<1> USE DEF coordination
<1>2. InHand'  BY DEF SInv, InHand, Held
<1>3. AtRest' /\ Steered'  BY DEF SInv, AtRest, Steered
<1>4. ASSUME NEW k \in Keys PROVE Owed(k)'
  <2>1. Owed(k) /\ (Pending(k) \cap woken)' \subseteq Pending(k) \cap woken  BY DEF SInv
  <2> QED  BY <2>1 DEF Owed
<1> QED  BY <1>1, <1>2, <1>3, <1>4 DEF SInv

LEMMA AdmitStep ==
  ASSUME SInv, NEW p \in Prompts, NEW resume \in BOOLEAN, Admit(p, resume)
  PROVE  SInv'
<1> DEFINE k == kind[p].session
<1>1. /\ p \in fresh /\ k \in Keys /\ p \notin waking /\ p \notin woken
      /\ p \notin unasked /\ p \notin Pending(k)
  BY DEF SInv, PromptsOK, InboxOK, Known, Admit
<1>2. inbox \in [Keys -> Seq(Prompts)] /\ inbox[k] \in Seq(Prompts) /\ IsInjective(inbox[k])
  BY <1>1 DEF SInv, PromptsOK, InboxOK
<1>3. inbox' = [inbox EXCEPT ![k] = Append(@, p)] /\ fresh' = fresh \ {p}
      /\ UNCHANGED <<coordination, kind, woken, runner, unasked>>
      /\ waking' \subseteq waking \cup {p}
  BY DEF Admit
<1>4. /\ inbox' \in [Keys -> Seq(Prompts)]
      /\ \A j \in Keys : /\ IsInjective(inbox'[j])
                         /\ Pending(j)' = IF j = k THEN Pending(j) \cup {p} ELSE Pending(j)
  <2>1. /\ Append(inbox[k], p) \in Seq(Prompts) /\ IsInjective(Append(inbox[k], p))
        /\ ToSet(Append(inbox[k], p)) = ToSet(inbox[k]) \cup {p}
    BY <1>1, <1>2, AddOne DEF Pending
  <2>2. inbox' \in [Keys -> Seq(Prompts)]  BY <1>1, <1>2, <1>3, <2>1
  <2>3. inbox'[k] = Append(inbox[k], p) /\ \A j \in Keys \ {k} : inbox'[j] = inbox[j]
    BY <1>1, <1>2, <1>3
  <2> QED  BY <2>1, <2>2, <2>3 DEF Pending, SInv, PromptsOK, InboxOK
<1>5. PromptsOK'
  <2>1. InboxOK'
    <3> SUFFICES ASSUME NEW j \in Keys, NEW q \in Pending(j)'
                 PROVE  q \notin fresh' \cup unasked' /\ kind'[q].session = j
      BY <1>4 DEF InboxOK
    <3>1. CASE q \in Pending(j)
      <4>1. q \notin fresh \cup unasked /\ kind[q].session = j
        BY <3>1 DEF SInv, PromptsOK, InboxOK
      <4> QED  BY <1>3, <4>1
    <3>2. CASE q = p /\ j = k  BY <1>1, <1>3, <3>2
    <3> QED  BY <1>4, <3>1, <3>2
  <2> QED  BY <1>1, <1>3, <2>1 DEF SInv, PromptsOK
<1>6. Known'  BY <1>3 DEF SInv, Known
<1>7. \A j \in Keys : (Pending(j) \cap woken)' \subseteq Pending(j) \cap woken
  BY <1>1, <1>3, <1>4
<1> HIDE DEF k
<1> QED  BY <1>3, <1>5, <1>6, <1>7, InboxStep

LEMMA RevertStep == ASSUME SInv, NEW k \in Keys, Revert(k) PROVE SInv'
<1>1. PICK n \in 0..Len(inbox[k]) :
        /\ inbox' = [inbox EXCEPT ![k] = SubSeq(@, 1, n)]
        /\ woken' \subseteq woken /\ unasked' \subseteq unasked
        /\ UNCHANGED <<coordination, kind, fresh, waking, runner>>
  BY DEF Revert
<1>2. inbox \in [Keys -> Seq(Prompts)] /\ inbox[k] \in Seq(Prompts) /\ IsInjective(inbox[k])
  BY DEF SInv, PromptsOK, InboxOK
<1>3. /\ inbox' \in [Keys -> Seq(Prompts)]
      /\ \A j \in Keys : IsInjective(inbox'[j]) /\ Pending(j)' \subseteq Pending(j)
  <2>1. /\ SubSeq(inbox[k], 1, n) \in Seq(Prompts) /\ IsInjective(SubSeq(inbox[k], 1, n))
        /\ ToSet(SubSeq(inbox[k], 1, n)) \subseteq ToSet(inbox[k])
    BY <1>2, CutOff
  <2>2. inbox' \in [Keys -> Seq(Prompts)]  BY <1>1, <1>2, <2>1
  <2>3. inbox'[k] = SubSeq(inbox[k], 1, n) /\ \A j \in Keys \ {k} : inbox'[j] = inbox[j]
    BY <1>1, <1>2
  <2> QED  BY <2>1, <2>2, <2>3 DEF Pending, SInv, PromptsOK, InboxOK
<1>4. PromptsOK'
  <2>1. InboxOK'
    <3> SUFFICES ASSUME NEW j \in Keys, NEW q \in Pending(j)'
                 PROVE  q \notin fresh' \cup unasked' /\ kind'[q].session = j
      BY <1>3 DEF InboxOK
    <3>1. q \in Pending(j)  BY <1>3
    <3>2. q \notin fresh \cup unasked /\ kind[q].session = j
      BY <3>1 DEF SInv, PromptsOK, InboxOK
    <3> QED  BY <1>1, <3>2
  <2> QED  BY <1>1, <2>1 DEF SInv, PromptsOK
<1>5. Known'  BY <1>1 DEF SInv, Known
<1>6. \A j \in Keys : (Pending(j) \cap woken)' \subseteq Pending(j) \cap woken
  BY <1>1, <1>3
<1> QED  BY <1>1, <1>4, <1>5, <1>6, InboxStep
-----------------------------------------------------------------------------
(***************************************************************************)
(* Steps of the coordinator, each at one Session k.                        *)
(***************************************************************************)
\* What has to be shown at k; the rest of the invariant is left alone.
LEMMA CoordinatorStep ==
  ASSUME SInv, NEW k \in Keys, CoordOK', OthersStay(k),
         UNCHANGED <<kind, fresh, inbox>>, waking' \subseteq waking,
         woken' \subseteq woken \cup Pending(k),
         unasked' \subseteq unasked,
         runner' \in [Entries -> Runner], AtRest',
         \A e \in Entries : runner'[e] # runner[e] =>
           runner'[e].at = "start" /\ (fiber[e] = "none" \/ keyOf[e] = k),
         \A p \in unasked' : kind[p].session # k \/ Held(p)',
         Owed(k)'
  PROVE  SInv'
<1>1. \A j : Pending(j)' = Pending(j)  BY DEF Pending
<1>2. Pending(k) \subseteq Prompts /\ Pending(k) \cap fresh = {}
  <2>1. inbox[k] \in Seq(Prompts) /\ \A p \in Pending(k) : p \notin fresh
    BY DEF SInv, PromptsOK, InboxOK
  <2> QED  BY <2>1 DEF Pending, ToSet
<1>3. PromptsOK'
  <2>1. InboxOK'  BY <1>1 DEF SInv, PromptsOK, InboxOK
  <2> QED  BY <1>2, <2>1 DEF SInv, PromptsOK
<1>4. OneQueuedAtATime'  BY FewerInHand DEF SInv
<1>5. Known'  BY <1>2 DEF SInv, Known
<1>6. Steered'
  <2> SUFFICES ASSUME NEW e \in Entries, runner'[e].at \in {"queued", "steers"}
               PROVE  \A p \in runner'[e].cutoff : kind[p].delivery = "steer"
    BY DEF Steered
  <2>1. runner'[e] = runner[e]  OBVIOUS
  <2> QED  BY <2>1 DEF SInv, Steered
<1>7. ASSUME NEW j \in Keys \ {k}, active[j] # None
      PROVE  /\ active'[j] = active[j] /\ runner'[active[j]] = runner[active[j]]
             /\ fiber'[active[j]] = fiber[active[j]]
             /\ pendingWake'[active[j]] = pendingWake[active[j]]
             /\ stopping'[active[j]] = stopping[active[j]]
  <2>1. active[j] \in Entries /\ keyOf[active[j]] = j /\ fiber[active[j]] # "none"
    BY <1>7 DEF SInv, CoordOK, C!TypeOK, ActiveIsLive
  <2> QED  BY <1>7, <2>1 DEF OthersStay
<1>8. InHand'
  <2> SUFFICES ASSUME NEW p \in unasked', kind[p].session # k PROVE Held(p)'
    BY DEF InHand
  <2>1. Held(p) /\ kind[p].session \in Keys \ {k}
    BY DEF SInv, InHand, PromptsOK
  <2>2. active[kind[p].session] # None  BY <2>1 DEF Held
  <2> QED  BY <1>7, <2>1, <2>2 DEF Held
<1>9. ASSUME NEW j \in Keys \ {k} PROVE Owed(j)'
  <2> SUFFICES ASSUME NEW p \in (Pending(j) \cap woken)'
               PROVE  /\ active'[j] # None
                      /\ LET f == active'[j] IN
                           \/ pendingWake'[f]
                           \/ ~stopping'[f] /\ fiber'[f] = "yielding"
                           \/ /\ ~stopping'[f] /\ fiber'[f] = "draining"
                              /\ kind[p].delivery = "steer" =>
                                   runner'[f].at \notin {"lookQueue", "lookMore"}
    BY DEF Owed
  <2>1. p \in Pending(j) /\ p \notin Pending(k)
    <3>1. p \in Pending(j) /\ kind[p].session = j  BY <1>1 DEF SInv, PromptsOK, InboxOK
    <3>2. \A q \in Pending(k) : kind[q].session = k  BY DEF SInv, PromptsOK, InboxOK
    <3> QED  BY <3>1, <3>2
  <2>2. p \in Pending(j) \cap woken /\ Owed(j)  BY <2>1 DEF SInv
  <2>3. active[j] # None  BY <2>2 DEF Owed
  <2> QED  BY <1>7, <2>2, <2>3 DEF Owed
<1> QED  BY <1>3, <1>4, <1>5, <1>6, <1>8, <1>9 DEF SInv

LEMMA StartedType ==
  /\ \A force \in BOOLEAN : Started(force) \in Runner /\ Started(force).at = "start"
  BY RunAssumption DEF Started, Runner

\* A drain that starts an idle Session comes to both of its looks.
LEMMA StartStep ==
  ASSUME SInv, NEW k \in Keys, active[k] = None, C!StartIdle(k),
         pc' \in [Clients -> {"idle", "resolved", "rerun"} \cup C!Waiting],
         ref' \in [Clients -> Entries \cup {None}], target' \in [Clients -> Keys],
         calm' \in [Keys -> BOOLEAN],
         UNCHANGED <<kind, fresh, inbox, unasked>>, waking' \subseteq waking,
         woken' \subseteq woken \cup Pending(k),
         NEW force \in BOOLEAN,
         runner' = [runner EXCEPT ![active'[k]] = Started(force)]
  PROVE  SInv'
<1> DEFINE a == active'[k]
<1>1. /\ CoordOK' /\ OthersStay(k) /\ a \in Entries /\ fiber[a] = "none"
      /\ fiber' = [fiber EXCEPT ![a] = "draining"]
      /\ UNCHANGED <<pendingWake, stopping>>
  BY StartIdleStep DEF SInv
<1> HIDE DEF a
<1>2. /\ runner' \in [Entries -> Runner] /\ runner'[a] = Started(force)
      /\ \A e \in Entries \ {a} : runner'[e] = runner[e]
  BY <1>1, StartedType DEF SInv, a
<1>3. fiber'[a] = "draining" /\ \A e \in Entries \ {a} : fiber'[e] = fiber[e]
  BY <1>1 DEF SInv, CoordOK, C!TypeOK
<1>4. AtRest'  BY <1>2, <1>3 DEF SInv, AtRest
<1>5. \A e \in Entries : runner'[e] # runner[e] =>
        runner'[e].at = "start" /\ (fiber[e] = "none" \/ keyOf[e] = k)
  BY <1>1, <1>2, StartedType
<1>6. \A p \in unasked' : kind[p].session # k \/ Held(p)'
  BY DEF SInv, InHand, Held
<1>7. Owed(k)'
  <2>1. a # None /\ ~stopping'[a]
    BY <1>1, RunAssumption DEF SInv, CoordOK, FreshFlags
  <2>2. runner'[a].at = "start"  BY <1>2, StartedType
  <2> QED  BY <1>3, <2>1, <2>2 DEF Owed, a
<1> QED  BY <1>1, <1>2, <1>4, <1>5, <1>6, <1>7, CoordinatorStep

\* No fiber and no drain changes: a step of callers, or one that registers or
\* drops a follow-up.
LEMMA FlagStep ==
  ASSUME SInv, NEW k \in Keys,
         UNCHANGED <<active, fiber, keyOf, kind, fresh, inbox, runner, unasked>>,
         pendingWake' \in [Entries -> BOOLEAN], stopping' \in [Entries -> BOOLEAN],
         \A e \in Entries : active[k] = e \/ (pendingWake'[e] = pendingWake[e]
                                              /\ stopping'[e] = stopping[e]),
         pc' \in [Clients -> {"idle", "resolved", "rerun"} \cup C!Waiting],
         ref' \in [Clients -> Entries \cup {None}], target' \in [Clients -> Keys],
         calm' \in [Keys -> BOOLEAN],
         waking' \subseteq waking, woken' \subseteq woken \cup Pending(k),
         Owed(k)'
  PROVE  SInv'
<1>1. C!TypeOK'  BY WorkType DEF SInv, CoordOK, C!TypeOK
<1>2. LiveIsActive' /\ ActiveIsLive'
  BY DEF SInv, CoordOK, LiveIsActive, ActiveIsLive
<1>3. FreshFlags'
  <2>1. \A e \in Entries : fiber[e] = "none" => active[k] # e
    BY RunAssumption DEF SInv, CoordOK, ActiveIsLive
  <2> QED  BY <2>1 DEF SInv, CoordOK, FreshFlags
<1>4. OthersStay(k)
  BY DEF SInv, CoordOK, C!TypeOK, ActiveIsLive, OthersStay
<1>5. AtRest'  BY DEF SInv, AtRest
<1>6. \A p \in unasked' : kind[p].session # k \/ Held(p)'
  BY DEF SInv, InHand, Held
<1>7. runner' \in [Entries -> Runner]  BY DEF SInv
<1>8. CoordOK'  BY <1>1, <1>2, <1>3 DEF CoordOK
<1> QED  BY <1>4, <1>5, <1>6, <1>7, <1>8, CoordinatorStep

LEMMA WakeForStep == ASSUME SInv, NEW p \in Prompts, WakeFor(p) PROVE SInv'
<1>1. PICK k \in Keys : k = kind[p].session  BY DEF SInv, PromptsOK
<1>2. /\ waking' \subseteq waking /\ woken' \subseteq woken \cup Pending(k)
      /\ UNCHANGED <<kind, fresh, inbox, runner, unasked>> /\ C!Wake(k)
  BY <1>1 DEF WakeFor
<1>3. /\ pc' \in [Clients -> {"idle", "resolved", "rerun"} \cup C!Waiting]
      /\ ref' \in [Clients -> Entries \cup {None}] /\ target' \in [Clients -> Keys]
      /\ calm' \in [Keys -> BOOLEAN]
  BY <1>1, <1>2 DEF SInv, CoordOK, C!TypeOK, C!Wake, C!clientVars
<1>4. CASE /\ active[k] # None
           /\ pendingWake' = [pendingWake EXCEPT ![active[k]] = TRUE]
           /\ UNCHANGED <<active, keyOf, stopping, fiber>>
  <2>1. active[k] \in Entries  BY <1>1, <1>4 DEF SInv, CoordOK, C!TypeOK
  <2>2. /\ pendingWake' \in [Entries -> BOOLEAN] /\ stopping' \in [Entries -> BOOLEAN]
        /\ pendingWake'[active[k]]
        /\ \A e \in Entries : active[k] = e \/ (pendingWake'[e] = pendingWake[e]
                                                /\ stopping'[e] = stopping[e])
    BY <1>4, <2>1 DEF SInv, CoordOK, C!TypeOK
  <2>3. Owed(k)'  BY <1>4, <2>2 DEF Owed
  <2> QED  BY <1>1, <1>2, <1>3, <1>4, <2>2, <2>3, FlagStep
<1>5. CASE active[k] = None /\ C!StartIdle(k)
  <2>1. PICK e \in Entries : fiber[e] = "none" /\ active' = [active EXCEPT ![k] = e]
    BY <1>5 DEF C!StartIdle, C!MakeActive
  <2>2. active'[k] = e  BY <1>1, <2>1 DEF SInv, CoordOK, C!TypeOK
  <2>3. runner[e] = Started(FALSE) /\ runner' = runner /\ runner \in [Entries -> Runner]
    BY <1>2, <2>1 DEF SInv, AtRest
  <2>4. runner' = [runner EXCEPT ![active'[k]] = Started(FALSE)]
    BY <2>2, <2>3
  <2> QED  BY <1>1, <1>2, <1>3, <1>5, <2>4, StartStep
<1> QED  BY <1>2, <1>4, <1>5 DEF C!Wake

LEMMA EnterRunStep ==
  ASSUME SInv, NEW c \in Clients, NEW k \in Keys, UNCHANGED <<prompts, unasked>>,
         C!EnterRun(c, k),
         runner' = IF active[k] # None THEN runner
                   ELSE [runner EXCEPT ![active'[k]] = Started(TRUE)]
  PROVE  SInv'
<1> USE DEF prompts
<1>1. /\ pc' \in [Clients -> {"idle", "resolved", "rerun"} \cup C!Waiting]
      /\ ref' \in [Clients -> Entries \cup {None}] /\ target' \in [Clients -> Keys]
      /\ calm' \in [Keys -> BOOLEAN]
  <2>1. active[k] \in Entries \cup {None} /\ (C!StartIdle(k) => active'[k] \in Entries)
    BY DEF SInv, CoordOK, C!TypeOK, C!StartIdle, C!MakeActive
  <2> QED  BY <2>1 DEF SInv, CoordOK, C!TypeOK, C!EnterRun, C!Wait, C!Waiting, C!Joinable
<1>2. CASE active[k] # None
  <2>1. UNCHANGED <<active, keyOf, pendingWake, stopping, fiber>>
    BY <1>2 DEF C!EnterRun, C!Joinable, C!entryVars
  <2>2. pendingWake \in [Entries -> BOOLEAN] /\ stopping \in [Entries -> BOOLEAN]
        /\ Owed(k)
    BY DEF SInv, CoordOK, C!TypeOK
  <2>3. Owed(k)'  BY <1>2, <2>1, <2>2 DEF Owed, Pending
  <2> QED  BY <1>1, <1>2, <2>1, <2>2, <2>3, FlagStep
<1>3. CASE active[k] = None
  <2>1. C!StartIdle(k)  BY <1>3 DEF C!EnterRun, C!Joinable
  <2> QED  BY <1>1, <1>3, <2>1, StartStep
<1> QED  BY <1>2, <1>3

LEMMA ResumeStep == ASSUME SInv, NEW c \in Clients, Resume(c) PROVE SInv'
<1>1. CASE \E k \in Keys :
             /\ C!Run(c, k)
             /\ runner' = IF active[k] # None THEN runner
                          ELSE [runner EXCEPT ![active'[k]] = Started(TRUE)]
  BY <1>1, EnterRunStep DEF Resume, C!Run
<1>2. CASE /\ C!RunAgain(c)
           /\ runner' = IF active[target[c]] # None THEN runner
                        ELSE [runner EXCEPT ![active'[target[c]]] = Started(TRUE)]
  <2>1. target[c] \in Keys  BY DEF SInv, CoordOK, C!TypeOK
  <2> QED  BY <1>2, <2>1, EnterRunStep DEF Resume, C!RunAgain
<1>3. CASE (C!Return(c) \/ C!Abandon(c)) /\ UNCHANGED runner
  <2>1. UNCHANGED <<active, keyOf, pendingWake, stopping, fiber, target, calm, prompts, unasked>>
    BY <1>3 DEF Resume, C!Return, C!Abandon, C!entryVars
  <2> USE <2>1 DEF prompts
  <2>2. PICK k \in Keys : TRUE  BY RunAssumption
  <2>3. /\ pc' \in [Clients -> {"idle", "resolved", "rerun"} \cup C!Waiting]
        /\ ref' \in [Clients -> Entries \cup {None}]
    BY <1>3 DEF SInv, CoordOK, C!TypeOK, C!Return, C!Abandon
  <2>4. target \in [Clients -> Keys] /\ calm \in [Keys -> BOOLEAN] /\ Owed(k)
        /\ pendingWake \in [Entries -> BOOLEAN] /\ stopping \in [Entries -> BOOLEAN]
    BY DEF SInv, CoordOK, C!TypeOK
  <2>5. Owed(k)'  BY <1>3, <2>4 DEF Owed, Pending
  <2> QED  BY <1>3, <2>3, <2>4, <2>5, FlagStep
<1> QED  BY <1>1, <1>2, <1>3 DEF Resume

\* The settlement of an Entry whose drain is over, with nothing left in hand.
LEMMA SettledStep ==
  ASSUME SInv, NEW e \in Entries, fiber[e] # "none", NEW exit, C!Settle(e, exit),
         UNCHANGED <<kind, fresh, inbox, waking, calm>>, unasked' \subseteq unasked,
         \A p \in unasked' : kind[p].session # keyOf[e],
         Goes(e, Started(FALSE)), woken' \subseteq woken,
         pendingWake[e] \/ Pending(keyOf[e]) \cap woken' = {}
  PROVE  SInv'
<1>1. PICK k \in Keys : k = keyOf[e] /\ active[k] = e  BY TheActive
<1>2. /\ CoordOK' /\ OthersStay(k)
      /\ \A f \in Entries :
           fiber'[f] = "draining" <=> (f # e /\ fiber[f] = "draining")
      /\ pendingWake[e] => LET a == active'[k] IN
           a \in Entries /\ fiber'[a] = "yielding" /\ ~stopping'[a]
  BY <1>1, SettleStep DEF SInv, CoordOK, C!TypeOK
<1>3. /\ runner' \in [Entries -> Runner] /\ runner'[e] = Started(FALSE)
      /\ \A f \in Entries \ {e} : runner'[f] = runner[f]
  BY StartedType DEF SInv, Goes
<1>4. AtRest'  BY <1>2, <1>3 DEF SInv, AtRest
<1>5. \A f \in Entries : runner'[f] # runner[f] =>
        runner'[f].at = "start" /\ (fiber[f] = "none" \/ keyOf[f] = k)
  BY <1>1, <1>3, StartedType
<1>6. Owed(k)'
  <2>1. CASE pendingWake[e]
    BY <1>2, <2>1, RunAssumption DEF Owed
  <2>2. CASE Pending(k) \cap woken' = {}
    BY <2>2 DEF Owed, Pending
  <2> QED  BY <1>1, <2>1, <2>2
<1>7. \A p \in unasked' : kind[p].session # k \/ Held(p)'  BY <1>1
<1> QED  BY <1>2, <1>3, <1>4, <1>5, <1>6, <1>7, CoordinatorStep

LEMMA AroundStep == ASSUME SInv, NEW e \in Entries, Around(e) PROVE SInv'
<1>1. UNCHANGED <<prompts, runner, unasked>>  BY DEF Around
<1> USE <1>1 DEF prompts
<1>2. CASE fiber[e] \in {"exiting", "cleanup"} /\ UNCHANGED calm
           /\ \E exit \in {"success", "interrupted"} : C!Settle(e, exit)
  <2>1. runner[e] = Started(FALSE) /\ runner' = runner /\ runner \in [Entries -> Runner]
    BY <1>2 DEF SInv, AtRest
  <2>2. Goes(e, Started(FALSE))  BY <2>1 DEF Goes
  <2>3. \A p \in unasked : kind[p].session # keyOf[e]
    BY <1>2, TheActive DEF SInv, InHand, Held
  <2>4. pendingWake[e] \/ Pending(keyOf[e]) \cap woken' = {}
    <3>1. Owed(keyOf[e]) /\ active[keyOf[e]] = e  BY <1>2, TheActive DEF SInv
    <3> QED  BY <1>2, <3>1 DEF Owed
  <2> QED  BY <1>2, <2>2, <2>3, <2>4, SettledStep
<1>3. CASE C!Yielded(e)
  <2> USE <1>3 DEF C!Yielded
  <2>1. PICK k \in Keys : k = keyOf[e] /\ active[k] = e  BY TheActive
  <2>2. /\ UNCHANGED <<active, keyOf, pendingWake, stopping, pc, ref, target, calm>>
        /\ fiber'[e] = "draining" /\ \A f \in Entries \ {e} : fiber'[f] = fiber[f]
    BY DEF C!otherVars, C!clientVars, SInv, CoordOK, C!TypeOK
  <2>3. CoordOK'
    <3>1. C!TypeOK'  BY <2>2, WorkType DEF SInv, CoordOK, C!TypeOK, C!Live
    <3>2. LiveIsActive' /\ ActiveIsLive' /\ FreshFlags'
      BY <2>2 DEF SInv, CoordOK, C!TypeOK, LiveIsActive, ActiveIsLive, FreshFlags
    <3> QED  BY <3>1, <3>2 DEF CoordOK
  <2>4. OthersStay(k)
    BY <2>1, <2>2 DEF OthersStay, SInv, CoordOK, C!TypeOK, ActiveIsLive
  <2>5. AtRest'  BY <2>2 DEF SInv, AtRest
  <2>6. \A p \in unasked' : kind[p].session # k \/ Held(p)'
    BY <2>1 DEF SInv, InHand, Held
  <2>7. Owed(k)'
    <3>1. runner[e] = Started(FALSE) /\ Owed(k) /\ Pending(k)' = Pending(k)
      BY DEF SInv, AtRest, Pending
    <3>2. runner[e].at = "start"  BY <3>1, StartedType
    <3> QED  BY <2>1, <2>2, <3>1, <3>2 DEF Owed
  <2>8. runner' \in [Entries -> Runner]  BY DEF SInv
  <2> QED  BY <2>3, <2>4, <2>5, <2>6, <2>7, <2>8, CoordinatorStep
<1> QED  BY <1>2, <1>3 DEF Around, C!Finish, C!CleanedUp

LEMMA FailStep == ASSUME SInv, NEW e \in Entries, Fail(e) PROVE SInv'
<1>1. /\ fiber[e] = "draining" /\ C!Settle(e, "failure")
      /\ UNCHANGED <<kind, fresh, inbox, waking, calm>>
      /\ Goes(e, Started(FALSE)) /\ unasked' \subseteq unasked
      /\ \A p \in unasked' : kind[p].session # keyOf[e]
  BY DEF Fail, GiveUp, C!Fail
<1>2. woken' \subseteq woken /\ (pendingWake[e] \/ Pending(keyOf[e]) \cap woken' = {})
  BY DEF Fail
<1> QED  BY <1>1, <1>2, SettledStep

\* The fiber that unwinds was told to stop, and owes only what came after.
LEMMA UnwindStep == ASSUME SInv, NEW e \in Entries, Unwind(e) PROVE SInv'
<1>1. PICK k \in Keys : k = keyOf[e] /\ active[k] = e
  BY TheActive DEF Unwind, C!Unwind
<1>2. /\ stopping[e] /\ fiber[e] \in {"draining", "exiting"}
      /\ UNCHANGED <<active, keyOf, pendingWake, stopping, pc, ref, target, calm>>
      /\ fiber'[e] = "cleanup" /\ \A f \in Entries \ {e} : fiber'[f] = fiber[f]
      /\ fiber' = [fiber EXCEPT ![e] = "cleanup"]
  BY DEF Unwind, C!Unwind, C!otherVars, C!clientVars, SInv, CoordOK, C!TypeOK
<1>3. /\ UNCHANGED prompts
      /\ runner' \in [Entries -> Runner] /\ runner'[e] = Started(FALSE)
      /\ \A f \in Entries \ {e} : runner'[f] = runner[f]
      /\ unasked' \subseteq unasked /\ \A p \in unasked' : kind[p].session # k
  BY <1>1, StartedType DEF Unwind, GiveUp, SInv, Goes
<1> USE DEF prompts
<1>4. CoordOK'
  <2>1. C!TypeOK'  BY <1>2, WorkType DEF SInv, CoordOK, C!TypeOK, C!Live
  <2>2. LiveIsActive' /\ ActiveIsLive' /\ FreshFlags'
    BY <1>2 DEF SInv, CoordOK, C!TypeOK, LiveIsActive, ActiveIsLive, FreshFlags
  <2> QED  BY <2>1, <2>2 DEF CoordOK
<1>5. OthersStay(k)
  BY <1>1, <1>2 DEF OthersStay, SInv, CoordOK, C!TypeOK, ActiveIsLive
<1>6. AtRest'  BY <1>2, <1>3 DEF SInv, AtRest
<1>7. \A f \in Entries : runner'[f] # runner[f] =>
        runner'[f].at = "start" /\ (fiber[f] = "none" \/ keyOf[f] = k)
  BY <1>1, <1>3, StartedType
<1>8. Owed(k)'
  <2>1. Owed(k) /\ Pending(k)' = Pending(k)  BY <1>3 DEF SInv, Pending
  <2> QED  BY <1>1, <1>2, <1>3, <2>1 DEF Owed
<1> QED  BY <1>3, <1>4, <1>5, <1>6, <1>7, <1>8, CoordinatorStep

LEMMA InterruptStep ==
  ASSUME SInv, NEW c \in Clients, NEW k \in Keys, Interrupt(c, k)
  PROVE  SInv'
<1>1. PICK e \in Entries : active[k] = e /\ keyOf[e] = k /\ fiber[e] # "none"
  <2>1. active[k] # None  BY DEF Interrupt, C!Interrupt
  <2> QED  BY <2>1 DEF SInv, CoordOK, C!TypeOK, ActiveIsLive
<1>2. /\ woken' = woken \ Pending(k)
      /\ UNCHANGED <<kind, fresh, inbox, waking, runner, unasked, keyOf>>
      /\ calm' \in [Keys -> BOOLEAN]
  BY DEF Interrupt, C!Interrupt, SInv, CoordOK, C!TypeOK
<1>3. Owed(k)'  BY <1>2 DEF Owed, Pending
<1>4. CASE /\ C!Stop(e) /\ C!Wait(c, k, e, "interrupting") /\ UNCHANGED <<active, fiber>>
  <2>1. /\ pc' \in [Clients -> {"idle", "resolved", "rerun"} \cup C!Waiting]
        /\ ref' \in [Clients -> Entries \cup {None}] /\ target' \in [Clients -> Keys]
        /\ pendingWake' \in [Entries -> BOOLEAN] /\ stopping' \in [Entries -> BOOLEAN]
        /\ \A f \in Entries : active[k] = f \/ (pendingWake'[f] = pendingWake[f]
                                                /\ stopping'[f] = stopping[f])
    BY <1>1, <1>4 DEF C!Stop, C!Wait, C!Waiting, SInv, CoordOK, C!TypeOK
  <2> QED  BY <1>2, <1>3, <1>4, <2>1, FlagStep
<1>5. CASE fiber[e] = "yielding" /\ C!Retire(e, "interrupted")
  <2>1. /\ CoordOK' /\ OthersStay(k)
        /\ \A f \in Entries : fiber'[f] = "draining" <=> fiber[f] = "draining"
    BY <1>1, <1>2, <1>5, RetireStep DEF SInv
  <2>2. AtRest'  BY <1>2, <2>1 DEF SInv, AtRest
  <2>3. \A p \in unasked' : kind[p].session # k \/ Held(p)'
    BY <1>1, <1>2, <1>5 DEF SInv, InHand, Held
  <2>4. runner' \in [Entries -> Runner]  BY <1>2 DEF SInv
  <2> QED  BY <1>2, <1>3, <2>1, <2>2, <2>3, <2>4, CoordinatorStep
<1> QED  BY <1>1, <1>4, <1>5 DEF Interrupt, C!Interrupt
-----------------------------------------------------------------------------
(***************************************************************************)
(* The invariant holds, and with it the properties.                        *)
(***************************************************************************)
LEMMA NextInv == SInv /\ [Next]_vars => SInv'
<1> SUFFICES ASSUME SInv, [Next]_vars PROVE SInv'  OBVIOUS
<1>1. ASSUME NEW p \in Prompts, WakeFor(p) \/ \E resume \in BOOLEAN : Admit(p, resume)
      PROVE  SInv'
  BY <1>1, WakeForStep, AdmitStep
<1>2. ASSUME NEW c \in Clients, Resume(c) \/ \E k \in Keys : Interrupt(c, k)
      PROVE  SInv'
  BY <1>2, ResumeStep, InterruptStep
<1>3. ASSUME NEW e \in Entries, Drain(e) PROVE SInv'
  BY <1>3, LookSteerStep, LookQueueStep, ReadCutoffStep, PromoteQueuedStep,
     PromoteSteersStep, CallProviderStep, AnsweredStep, LookAgainStep, LookMoreStep,
     AroundStep DEF Drain
<1>4. ASSUME NEW e \in Entries, Compact(e) \/ Overflow(e) \/ Fail(e) \/ Unwind(e)
      PROVE  SInv'
  BY <1>4, CompactStep, OverflowStep, FailStep, UnwindStep
<1>5. CASE UNCHANGED vars
  <2>1. PromptsOK' /\ OneQueuedAtATime' /\ Known' /\ CoordOK'
    BY <1>5, SamePrompts, FewerInHand, SameCoordination DEF vars, prompts, SInv, Known
  <2>2. \A k \in Keys : (Pending(k) \cap woken)' \subseteq Pending(k) \cap woken
    BY <1>5 DEF vars, prompts, Pending
  <2> QED  BY <1>5, <2>1, <2>2, InboxStep DEF vars, prompts
<1> QED  BY <1>1, <1>2, <1>3, <1>4, <1>5, RevertStep DEF Next

THEOREM Invariance == Spec => []SInv
<1> QED  BY InitInv, NextInv, PTL DEF Spec

\* Every variable keeps its type, and an inbox has no prompt twice, none that
\* was promoted, and none of another Session.
THEOREM TypeCorrect == Spec => []TypeOK
<1>1. SInv => TypeOK  BY Implied
<1> QED  BY <1>1, Invariance, PTL

\* No wake is lost on its way from the inbox to a look: a prompt that was
\* woken for has a follow-up due or a drain that still sees it.
THEOREM NoneStranded == Spec => []NoPromptStranded
<1>1. SInv => NoPromptStranded  BY Implied
<1> QED  BY <1>1, Invariance, PTL

\* A drain that succeeds has put every prompt it promoted before the provider.
THEOREM NoneSwallowed == Spec => []NothingSwallowed
<1>1. SInv => NothingSwallowed  BY Implied
<1> QED  BY <1>1, Invariance, PTL

\* No second queued prompt is promoted before the first one was asked for.
THEOREM OneQueued == Spec => []OneQueuedAtATime
<1>1. SInv => OneQueuedAtATime  BY Implied
<1> QED  BY <1>1, Invariance, PTL

\* The drains of a Session never overlap.
THEOREM Serialized == Spec => []C!OneDrainPerKey
<1>1. SInv => C!OneDrainPerKey
  BY DEF SInv, CoordOK, LiveIsActive, C!OneDrainPerKey, C!Live
<1> QED  BY <1>1, Invariance, PTL
-----------------------------------------------------------------------------
(***************************************************************************)
(* The Session at work implements the coordinator.  Its work is hidden: a  *)
(* revert takes prompts back and a promotion takes one of several, which   *)
(* the coordinator does not know of, so to it the inbox is always empty,   *)
(* a drain's end is a look that finds nothing, and what a drain does on    *)
(* its way there is a stutter.                                             *)
(***************************************************************************)
\* Steps that leave the coordinator alone.
LEMMA Hidden == UNCHANGED coordination => UNCHANGED D!vars
  BY DEF coordination, D!vars, D!entryVars, D!clientVars, Idle

LEMMA SameStart == \A k \in Keys : C!StartIdle(k) => D!StartIdle(k)
  BY DEF C!StartIdle, D!StartIdle, C!MakeActive, D!MakeActive

LEMMA SameComplete == \A e, exit : C!Complete(e, exit) => D!Complete(e, exit)
  BY DEF C!Complete, D!Complete, C!Waiters, D!Waiters

LEMMA SameRetire == \A e, exit : C!Retire(e, exit) => D!Retire(e, exit)
  BY SameComplete DEF C!Retire, D!Retire, C!ClearFlags, D!ClearFlags

LEMMA SameSettle == \A e, exit : C!Settle(e, exit) => D!Settle(e, exit)
<1> SUFFICES ASSUME NEW e, NEW exit, C!Settle(e, exit) PROVE D!Settle(e, exit)
  OBVIOUS
<1>1. C!FollowUp(e, exit) <=> D!FollowUp(e, exit)  BY DEF C!FollowUp, D!FollowUp
<1>2. C!Successor(e, exit) <=> D!Successor(e, exit)  BY DEF C!Successor, D!Successor
<1>3. C!DrainAgain(e) => D!DrainAgain(e)
  BY DEF C!DrainAgain, D!DrainAgain, C!clientVars, D!clientVars
<1>4. C!HandOver(e, exit) => D!HandOver(e, exit)
  BY SameComplete DEF C!HandOver, D!HandOver, C!MakeActive, D!MakeActive,
     C!ClearFlags, D!ClearFlags
<1> QED  BY <1>1, <1>2, <1>3, <1>4, SameRetire DEF C!Settle, D!Settle

LEMMA SameEnterRun == \A c \in Clients, k \in Keys : C!EnterRun(c, k) => D!EnterRun(c, k)
  BY SameStart DEF C!EnterRun, D!EnterRun, C!Joinable, D!Joinable, C!Wait, D!Wait,
     C!entryVars, D!entryVars, Idle

LEMMA ResumeCoordinates ==
  ASSUME TypeOK, NEW c \in Clients, Resume(c) PROVE D!Call(c)
<1>1. ASSUME NEW k \in Keys, C!Run(c, k) PROVE D!Run(c, k)
  BY <1>1, SameEnterRun DEF C!Run, D!Run
<1>2. ASSUME C!RunAgain(c) PROVE D!RunAgain(c)
  <2>1. target[c] \in Keys  BY DEF TypeOK, C!TypeOK
  <2> QED  BY <1>2, <2>1, SameEnterRun DEF C!RunAgain, D!RunAgain
<1>3. C!Return(c) => D!Return(c)
  BY DEF C!Return, D!Return, C!entryVars, D!entryVars, Idle
<1>4. C!Abandon(c) => D!Abandon(c)
  BY DEF C!Abandon, D!Abandon, C!entryVars, D!entryVars, C!Waiting, D!Waiting, Idle
<1> QED  BY <1>1, <1>2, <1>3, <1>4 DEF Resume, D!Call

LEMMA InterruptCoordinates ==
  ASSUME NEW c \in Clients, NEW k \in Keys, Interrupt(c, k) PROVE D!Call(c)
<1>1. C!Interrupt(c, k)  BY DEF Interrupt
<1>2. UNCHANGED Idle /\ Idle' = [Idle EXCEPT ![k] = FALSE]  BY DEF Idle
<1>3. D!Interrupt(c, k)
  BY <1>1, <1>2, SameRetire DEF C!Interrupt, D!Interrupt, C!Stop, D!Stop, C!Wait, D!Wait
<1> QED  BY <1>3 DEF D!Call

LEMMA WakeCoordinates ==
  ASSUME NEW p \in Prompts, WakeFor(p), kind[p].session \in Keys
  PROVE  D!Wake(kind[p].session)
<1> DEFINE k == kind[p].session
<1>1. C!Wake(k)  BY DEF WakeFor
<1>2. UNCHANGED Idle /\ Idle' = [Idle EXCEPT ![k] = @ \/ Idle[k]]  BY DEF Idle
<1> HIDE DEF k
<1> SUFFICES D!Wake(k)  BY DEF k
<1>3. C!StartIdle(k) => D!StartIdle(k)  BY SameStart DEF k
<1> QED  BY <1>1, <1>2, <1>3 DEF C!Wake, D!Wake, C!clientVars, D!clientVars

\* A drain ends where the coordinator's finds nothing, and settles like it.
LEMMA EndCoordinates ==
  ASSUME NEW e \in Entries, keyOf[e] \in Keys,
         (Exit(e) /\ fiber[e] = "draining") \/ Around(e) \/ Fail(e) \/ Unwind(e)
  PROVE  D!Drain(e) \/ D!Fail(e)
<1>1. UNCHANGED Idle /\ Idle' = [Idle EXCEPT ![keyOf[e]] = @ /\ pendingWake[e]]
      /\ ~Idle[keyOf[e]]
  BY DEF Idle
<1>2. Exit(e) /\ fiber[e] = "draining" => D!FindNothing(e)
  BY <1>1 DEF Exit, D!FindNothing, D!otherVars, D!clientVars
<1>3. C!Yielded(e) => D!Yielded(e)
  BY <1>1 DEF C!Yielded, D!Yielded, C!otherVars, D!otherVars, C!clientVars, D!clientVars
<1>4. C!Finish(e) => D!Finish(e)
  BY <1>1, SameSettle DEF C!Finish, D!Finish
<1>5. C!CleanedUp(e) => D!CleanedUp(e)
  BY <1>1, SameSettle DEF C!CleanedUp, D!CleanedUp
<1>6. C!Fail(e) => D!Fail(e)
  BY <1>1, SameSettle DEF C!Fail, D!Fail
<1>7. C!Unwind(e) => D!Unwind(e)
  BY <1>1 DEF C!Unwind, D!Unwind, C!otherVars, D!otherVars, C!clientVars, D!clientVars
<1> QED  BY <1>2, <1>3, <1>4, <1>5, <1>6, <1>7 DEF Around, Fail, Unwind, D!Drain

LEMMA StepCoordinates == TypeOK /\ [Next]_vars => [D!Next]_(D!vars)
<1> SUFFICES ASSUME TypeOK, [Next]_vars PROVE D!Next \/ UNCHANGED D!vars
  OBVIOUS
<1>1. ASSUME NEW p \in Prompts, WakeFor(p) \/ \E resume \in BOOLEAN : Admit(p, resume)
      PROVE  D!Next \/ UNCHANGED D!vars
  <2>1. kind[p].session \in Keys  BY DEF TypeOK
  <2>2. WakeFor(p) => \E k \in Keys : D!Wake(k)  BY <2>1, WakeCoordinates
  <2> QED  BY <1>1, <2>2, Hidden DEF Admit, D!Next
<1>2. ASSUME NEW c \in Clients, Resume(c) \/ \E k \in Keys : Interrupt(c, k)
      PROVE  D!Next
  BY <1>2, ResumeCoordinates, InterruptCoordinates DEF D!Next
<1>3. ASSUME NEW k \in Keys, Revert(k) PROVE UNCHANGED D!vars
  BY <1>3, Hidden DEF Revert
<1>4. ASSUME NEW e \in Entries, Drain(e) \/ Compact(e) \/ Overflow(e) \/ Fail(e) \/ Unwind(e)
      PROVE  D!Next \/ UNCHANGED D!vars
  <2>1. \/ UNCHANGED coordination
        \/ Exit(e) /\ fiber[e] = "draining"
        \/ Around(e) \/ Fail(e) \/ Unwind(e)
    BY <1>4 DEF Drain, Compact, Overflow, LookSteer, LookQueue, ReadCutoff, PromoteQueued,
       PromoteSteers, Promote, CallProvider, Answered, LookAgain, LookMore, Runs
  <2>2. keyOf[e] \in Keys  BY DEF TypeOK, C!TypeOK
  <2> QED  BY <2>1, <2>2, Hidden, EndCoordinates DEF D!Next
<1>5. UNCHANGED vars => UNCHANGED D!vars  BY Hidden DEF vars
<1> QED  BY <1>1, <1>2, <1>3, <1>4, <1>5 DEF Next

\* With the inbox hidden, a Session at work is a run of the coordinator: every
\* step of the prompts, the callers and the drains is one of its steps or none.
THEOREM Coordinates == Spec => KeepsToCoordinator
<1>1. Init => D!Init  BY DEF Init, D!Init, Idle
<1>2. TypeOK /\ [Next]_vars => [D!Next]_(D!vars)  BY StepCoordinates
<1> QED  BY <1>1, <1>2, TypeCorrect, PTL DEF Spec, D!Spec, KeepsToCoordinator

\* D, with what is proved of it.
P == INSTANCE RunCoordinatorProofs WITH work <- Idle, signalled <- Idle

LEMMA SameSpec == D!Spec => P!Spec
<1> USE DEF D!StartIdle, P!StartIdle, D!MakeActive, P!MakeActive, D!Retire,
     P!Retire, D!ClearFlags, P!ClearFlags, D!Complete, P!Complete,
     D!Waiters, P!Waiters, D!Successor, P!Successor, D!FollowUp,
     P!FollowUp, D!DrainAgain, P!DrainAgain, D!HandOver, P!HandOver,
     D!Settle, P!Settle, D!Wait, P!Wait, D!Joinable, P!Joinable,
     D!EnterRun, P!EnterRun, D!Run, P!Run, D!RunAgain, P!RunAgain,
     D!Return, P!Return, D!Abandon, P!Abandon, D!Record, P!Record, D!Wake,
     P!Wake, D!Stop, P!Stop, D!Interrupt, P!Interrupt, D!Yielded,
     P!Yielded, D!Consume, P!Consume, D!FindNothing, P!FindNothing,
     D!Finish, P!Finish, D!Fail, P!Fail, D!Unwind, P!Unwind, D!CleanedUp,
     P!CleanedUp, D!Drain, P!Drain, D!Call, P!Call, D!Next, P!Next,
     D!Init, P!Init, D!Waiting, P!Waiting, D!vars, P!vars, D!entryVars,
     P!entryVars, D!clientVars, P!clientVars, D!otherVars, P!otherVars,
     D!Live, P!Live
<1>1. D!Init => P!Init  OBVIOUS
<1>2. [D!Next]_(D!vars) => [P!Next]_(P!vars)  OBVIOUS
<1> QED  BY <1>1, <1>2, PTL DEF D!Spec, P!Spec

\* What holds of the coordinator holds of a Session at work.  Nobody waits for
\* a drain that will not settle, whatever the drain is doing when it ends.
THEOREM NoOrphans == Spec => []C!NoOrphanWaiter
<1>1. P!CoordinatorAssumption  BY RunAssumption DEF P!CoordinatorAssumption
<1>2. P!Spec => []P!NoOrphanWaiter  BY <1>1, P!NoOrphans
<1>3. P!NoOrphanWaiter => C!NoOrphanWaiter
  BY DEF P!NoOrphanWaiter, C!NoOrphanWaiter, P!Waiting, C!Waiting, P!Live, C!Live
<1> QED  BY <1>2, <1>3, Coordinates, SameSpec, PTL DEF KeepsToCoordinator

\* After an interrupt of a Session nothing drains it but what is being stopped,
\* until a prompt wakes it or somebody resumes it.
THEOREM InterruptsAreQuiet == Spec => []C!InterruptStaysQuiet
<1>1. P!CoordinatorAssumption  BY RunAssumption DEF P!CoordinatorAssumption
<1>2. P!Spec => []P!InterruptStaysQuiet  BY <1>1, P!InterruptsAreQuiet
<1>3. P!InterruptStaysQuiet => C!InterruptStaysQuiet
  BY DEF P!InterruptStaysQuiet, C!InterruptStaysQuiet
<1> QED  BY <1>2, <1>3, Coordinates, SameSpec, PTL DEF KeepsToCoordinator
=============================================================================
