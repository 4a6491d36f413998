------------------------ MODULE RunCoordinatorProofs ------------------------
(***************************************************************************)
(* Proofs about RunCoordinator for every set of Keys, Clients and Entries. *)
(***************************************************************************)
EXTENDS RunCoordinator, TLAPS

(***************************************************************************)
(* Settle is the delicate step: it moves an Entry's fiber, possibly        *)
(* replaces the Entry, and releases its waiters in one block.  The three   *)
(* facts below tie the Map, the fibers and the waiters together.           *)
(***************************************************************************)
\* A live fiber belongs to the active Entry of its key.
LiveIsActive ==
  \A e \in Entries : fiber[e] \in Live => active[keyOf[e]] = e

\* The active Entry of a key was made for that key and has a live fiber.
ActiveIsLive ==
  \A k \in Keys : active[k] # None =>
    keyOf[active[k]] = k /\ fiber[active[k]] \in Live

\* A client holds an Entry exactly while it waits, and then it is the active
\* one of the key it called for.
WaitersHoldActive ==
  \A c \in Clients :
    /\ ref[c] # None <=> pc[c] \in Waiting
    /\ ref[c] # None => active[target[c]] = ref[c]

\* An Entry without a fiber is fresh.
FreshFlags ==
  \A e \in Entries : fiber[e] = "none" => ~pendingWake[e] /\ ~stopping[e]

IInv ==
  /\ TypeOK
  /\ LiveIsActive
  /\ ActiveIsLive
  /\ WaitersHoldActive
  /\ FreshFlags
  /\ NoLostWake
  /\ InterruptStaysQuiet

-----------------------------------------------------------------------------
\* Init gives every variable a value of its type and leaves nothing active.
LEMMA InitIInv == Init => IInv
<1> SUFFICES ASSUME Init PROVE IInv
  OBVIOUS
<1> USE CoordinatorAssumption
<1>1. TypeOK
  BY DEF Init, TypeOK, Waiting, Live
<1>2. LiveIsActive /\ ActiveIsLive /\ WaitersHoldActive /\ FreshFlags
  BY DEF Init, LiveIsActive, ActiveIsLive, WaitersHoldActive, FreshFlags,
         Waiting, Live
<1>3. NoLostWake /\ InterruptStaysQuiet
  BY DEF Init, NoLostWake, InterruptStaysQuiet
<1> QED BY <1>1, <1>2, <1>3 DEF IInv

-----------------------------------------------------------------------------
(***************************************************************************)
(* The three ways an execution settles.  A client's wait ends in the step  *)
(* that ends the fiber it waits for, and a successor is started in the     *)
(* step that retires its predecessor.                                      *)
(***************************************************************************)
\* The follow-up drain of a clean exit: same Entry, same waiters.
LEMMA DrainAgainStep ==
  ASSUME IInv, NEW e \in Entries, fiber[e] \in Live, pendingWake[e], ~stopping[e],
         DrainAgain(e), UNCHANGED <<work, signalled, calm>>
  PROVE  IInv'
<1> USE CoordinatorAssumption DEF IInv, TypeOK, Waiting, Live
<1>1. TypeOK'
  BY DEF DrainAgain, clientVars
<1>2. LiveIsActive'
  BY DEF LiveIsActive, DrainAgain, clientVars
<1>3. ActiveIsLive'
  BY DEF ActiveIsLive, DrainAgain, clientVars
<1>4. WaitersHoldActive'
  BY DEF WaitersHoldActive, DrainAgain, clientVars
<1>5. FreshFlags'
  BY DEF FreshFlags, DrainAgain, clientVars
<1>6. NoLostWake'
  BY DEF NoLostWake, DrainAgain, clientVars
<1>7. InterruptStaysQuiet'
  BY DEF InterruptStaysQuiet, DrainAgain, clientVars
<1> QED BY <1>1, <1>2, <1>3, <1>4, <1>5, <1>6, <1>7 DEF IInv

\* A successor takes over: the wake it was made for is the one still owed.
LEMMA HandOverStep ==
  ASSUME IInv, NEW e \in Entries, fiber[e] \in Live, pendingWake[e], NEW exit,
         HandOver(e, exit), UNCHANGED <<work, calm>>,
         signalled' = signalled
  PROVE  IInv'
<1> USE CoordinatorAssumption DEF IInv, TypeOK, Waiting, Live
<1>0. active[keyOf[e]] = e
  BY DEF LiveIsActive
<1>1. TypeOK'
  BY DEF HandOver, MakeActive, ClearFlags, Complete, Waiters
<1>2. LiveIsActive'
  BY DEF LiveIsActive, HandOver, MakeActive, ClearFlags, Complete, Waiters
<1>3. ActiveIsLive'
  BY DEF ActiveIsLive, HandOver, MakeActive, ClearFlags, Complete, Waiters
<1>4. WaitersHoldActive'
  BY <1>0 DEF WaitersHoldActive, HandOver, MakeActive, ClearFlags, Complete, Waiters
<1>5. FreshFlags'
  BY DEF FreshFlags, HandOver, MakeActive, ClearFlags, Complete, Waiters
<1>6. NoLostWake'
  <2> SUFFICES ASSUME NEW k \in Keys, signalled[k]
               PROVE  NoLostWake!(k)'
    BY DEF NoLostWake
  <2>1. PICK next \in Entries :
          /\ fiber[next] = "none"
          /\ MakeActive(keyOf[e], next)
          /\ fiber' = [fiber EXCEPT ![next] = "yielding", ![e] = "none"]
    BY DEF HandOver
  <2>2. CASE k = keyOf[e]
    BY <2>1, <2>2, <1>0 DEF NoLostWake, FreshFlags, HandOver, MakeActive, ClearFlags
  <2>3. CASE k # keyOf[e]
    BY <2>1, <2>3, <1>0 DEF NoLostWake, ActiveIsLive, HandOver, MakeActive, ClearFlags
  <2> QED BY <2>2, <2>3
<1>7. InterruptStaysQuiet'
  BY <1>0 DEF InterruptStaysQuiet, ActiveIsLive, HandOver, MakeActive, ClearFlags,
         Complete, Waiters
<1> QED BY <1>1, <1>2, <1>3, <1>4, <1>5, <1>6, <1>7 DEF IInv

\* Nothing is due: the key becomes idle, and nothing is owed to it.
LEMMA RetireStep ==
  ASSUME IInv, NEW e \in Entries, fiber[e] \in Live, NEW exit, Retire(e, exit),
         UNCHANGED work,
         signalled' = [signalled EXCEPT ![keyOf[e]] = FALSE],
         calm' = calm \/ calm' = [calm EXCEPT ![keyOf[e]] = TRUE]
  PROVE  IInv'
<1> USE CoordinatorAssumption DEF IInv, TypeOK, Waiting, Live
<1>0. active[keyOf[e]] = e
  BY DEF LiveIsActive
<1>1. TypeOK'
  BY DEF Retire, ClearFlags, Complete, Waiters
<1>2. LiveIsActive'
  BY DEF LiveIsActive, Retire, ClearFlags, Complete, Waiters
<1>3. ActiveIsLive'
  BY DEF ActiveIsLive, Retire, ClearFlags, Complete, Waiters
<1>4. WaitersHoldActive'
  BY <1>0 DEF WaitersHoldActive, Retire, ClearFlags, Complete, Waiters
<1>5. FreshFlags'
  BY DEF FreshFlags, Retire, ClearFlags, Complete, Waiters
<1>6. NoLostWake'
  BY <1>0 DEF NoLostWake, ActiveIsLive, Retire, ClearFlags, Complete, Waiters
<1>7. InterruptStaysQuiet'
  BY <1>0 DEF InterruptStaysQuiet, ActiveIsLive, Retire, ClearFlags, Complete, Waiters
<1> QED BY <1>1, <1>2, <1>3, <1>4, <1>5, <1>6, <1>7 DEF IInv

-----------------------------------------------------------------------------
(***************************************************************************)
(* The calls.                                                               *)
(***************************************************************************)
\* A run joins the active Entry, or waits for it to stop.
LEMMA JoinStep ==
  ASSUME IInv, NEW c \in Clients, NEW k \in Keys, pc[c] \in {"idle", "rerun"},
         active[k] # None, NEW how \in {"joined", "deferred"},
         Wait(c, k, active[k], how),
         calm' = [calm EXCEPT ![k] = FALSE],
         UNCHANGED <<entryVars, work, signalled>>
  PROVE  IInv'
<1> USE CoordinatorAssumption DEF IInv, TypeOK, Waiting, Live
<1>1. TypeOK'
  BY DEF Wait, entryVars
<1>2. LiveIsActive'
  BY DEF LiveIsActive, Wait, entryVars
<1>3. ActiveIsLive'
  BY DEF ActiveIsLive, Wait, entryVars
<1>4. WaitersHoldActive'
  BY DEF WaitersHoldActive, Wait, entryVars
<1>5. FreshFlags'
  BY DEF FreshFlags, Wait, entryVars
<1>6. NoLostWake'
  BY DEF NoLostWake, Wait, entryVars
<1>7. InterruptStaysQuiet'
  BY DEF InterruptStaysQuiet, Wait, entryVars
<1> QED BY <1>1, <1>2, <1>3, <1>4, <1>5, <1>6, <1>7 DEF IInv

\* A run on an idle key starts an Entry and joins it.
LEMMA StartRunStep ==
  ASSUME IInv, NEW c \in Clients, NEW k \in Keys, pc[c] \in {"idle", "rerun"},
         active[k] = None, StartIdle(k), Wait(c, k, active'[k], "joined"),
         calm' = [calm EXCEPT ![k] = FALSE],
         UNCHANGED <<work, signalled>>
  PROVE  IInv'
<1> USE CoordinatorAssumption DEF IInv, TypeOK, Waiting, Live
<1>1. TypeOK'
  BY DEF StartIdle, MakeActive, Wait
<1>2. LiveIsActive'
  BY DEF LiveIsActive, ActiveIsLive, StartIdle, MakeActive, Wait
<1>3. ActiveIsLive'
  BY DEF ActiveIsLive, LiveIsActive, StartIdle, MakeActive, Wait
<1>4. WaitersHoldActive'
  BY DEF WaitersHoldActive, ActiveIsLive, StartIdle, MakeActive, Wait
<1>5. FreshFlags'
  BY DEF FreshFlags, ActiveIsLive, StartIdle, MakeActive, Wait
<1>6. NoLostWake'
  BY DEF NoLostWake, ActiveIsLive, FreshFlags, StartIdle, MakeActive, Wait
<1>7. InterruptStaysQuiet'
  BY DEF InterruptStaysQuiet, ActiveIsLive, StartIdle, MakeActive, Wait
<1> QED BY <1>1, <1>2, <1>3, <1>4, <1>5, <1>6, <1>7 DEF IInv

\* A call returns.
LEMMA ReturnStep ==
  ASSUME IInv, NEW c \in Clients, Return(c)
  PROVE  IInv'
<1> USE CoordinatorAssumption DEF IInv, TypeOK, Waiting, Live
<1>1. TypeOK'
  BY DEF Return, entryVars
<1>2. LiveIsActive'
  BY DEF LiveIsActive, Return, entryVars
<1>3. ActiveIsLive'
  BY DEF ActiveIsLive, Return, entryVars
<1>4. WaitersHoldActive'
  BY DEF WaitersHoldActive, Return, entryVars
<1>5. FreshFlags'
  BY DEF FreshFlags, Return, entryVars
<1>6. NoLostWake'
  BY DEF NoLostWake, Return, entryVars
<1>7. InterruptStaysQuiet'
  BY DEF InterruptStaysQuiet, Return, entryVars
<1> QED BY <1>1, <1>2, <1>3, <1>4, <1>5, <1>6, <1>7 DEF IInv

\* A waiting caller goes away; the execution is not touched.
LEMMA AbandonStep ==
  ASSUME IInv, NEW c \in Clients, Abandon(c)
  PROVE  IInv'
<1> USE CoordinatorAssumption DEF IInv, TypeOK, Waiting, Live
<1>1. TypeOK'
  BY DEF Abandon, entryVars
<1>2. LiveIsActive'
  BY DEF LiveIsActive, Abandon, entryVars
<1>3. ActiveIsLive'
  BY DEF ActiveIsLive, Abandon, entryVars
<1>4. WaitersHoldActive'
  BY DEF WaitersHoldActive, Abandon, entryVars
<1>5. FreshFlags'
  BY DEF FreshFlags, Abandon, entryVars
<1>6. NoLostWake'
  BY DEF NoLostWake, Abandon, entryVars
<1>7. InterruptStaysQuiet'
  BY DEF InterruptStaysQuiet, Abandon, entryVars
<1> QED BY <1>1, <1>2, <1>3, <1>4, <1>5, <1>6, <1>7 DEF IInv

\* Work is recorded.
LEMMA RecordStep ==
  ASSUME IInv, NEW k \in Keys, Record(k)
  PROVE  IInv'
<1> USE CoordinatorAssumption DEF IInv, TypeOK, Waiting, Live
<1>1. TypeOK'
  BY DEF Record, entryVars, clientVars
<1>2. LiveIsActive'
  BY DEF LiveIsActive, Record, entryVars, clientVars
<1>3. ActiveIsLive'
  BY DEF ActiveIsLive, Record, entryVars, clientVars
<1>4. WaitersHoldActive'
  BY DEF WaitersHoldActive, Record, entryVars, clientVars
<1>5. FreshFlags'
  BY DEF FreshFlags, Record, entryVars, clientVars
<1>6. NoLostWake'
  BY DEF NoLostWake, Record, entryVars, clientVars
<1>7. InterruptStaysQuiet'
  BY DEF InterruptStaysQuiet, Record, entryVars, clientVars
<1> QED BY <1>1, <1>2, <1>3, <1>4, <1>5, <1>6, <1>7 DEF IInv

\* A wake marks the active Entry or starts one.
LEMMA WakeStep ==
  ASSUME IInv, NEW k \in Keys, Wake(k)
  PROVE  IInv'
<1> USE CoordinatorAssumption DEF IInv, TypeOK, Waiting, Live
<1>1. TypeOK'
  <2>1. signalled' \in [Keys -> BOOLEAN] /\ calm' \in [Keys -> BOOLEAN]
    BY DEF Wake
  <2>2. CASE active[k] # None
    BY <2>1, <2>2 DEF Wake, clientVars
  <2>3. CASE active[k] = None
    BY <2>1, <2>3 DEF Wake, StartIdle, MakeActive, clientVars
  <2> QED BY <2>2, <2>3
<1>2. LiveIsActive'
  BY DEF LiveIsActive, ActiveIsLive, Wake, StartIdle, MakeActive, clientVars
<1>3. ActiveIsLive'
  BY DEF ActiveIsLive, LiveIsActive, Wake, StartIdle, MakeActive, clientVars
<1>4. WaitersHoldActive'
  BY DEF WaitersHoldActive, ActiveIsLive, Wake, StartIdle, MakeActive,
         clientVars
<1>5. FreshFlags'
  BY DEF FreshFlags, ActiveIsLive, Wake, StartIdle, MakeActive, clientVars
<1>6. NoLostWake'
  BY DEF NoLostWake, ActiveIsLive, FreshFlags, Wake, StartIdle, MakeActive,
         clientVars
<1>7. InterruptStaysQuiet'
  BY DEF InterruptStaysQuiet, ActiveIsLive, Wake, StartIdle, MakeActive,
         clientVars
<1> QED BY <1>1, <1>2, <1>3, <1>4, <1>5, <1>6, <1>7 DEF IInv

\* An interrupt of an execution that is inside its drain.
LEMMA InterruptRunningStep ==
  ASSUME IInv, NEW c \in Clients, NEW k \in Keys, pc[c] = "idle",
         active[k] # None, fiber[active[k]] # "yielding",
         stopping' = [stopping EXCEPT ![active[k]] = TRUE],
         pendingWake' = [pendingWake EXCEPT ![active[k]] = FALSE],
         Wait(c, k, active[k], "interrupting"),
         signalled' = [signalled EXCEPT ![k] = FALSE],
         calm' = [calm EXCEPT ![k] = TRUE],
         UNCHANGED <<active, keyOf, fiber, work>>
  PROVE  IInv'
<1> USE CoordinatorAssumption DEF IInv, TypeOK, Waiting, Live
<1>1. TypeOK'
  BY DEF Wait
<1>2. LiveIsActive'
  BY DEF LiveIsActive, ActiveIsLive, Wait
<1>3. ActiveIsLive'
  BY DEF ActiveIsLive, LiveIsActive, Wait
<1>4. WaitersHoldActive'
  BY DEF WaitersHoldActive, ActiveIsLive, Wait
<1>5. FreshFlags'
  BY DEF FreshFlags, ActiveIsLive, Wait
<1>6. NoLostWake'
  BY DEF NoLostWake, ActiveIsLive, FreshFlags, Wait
<1>7. InterruptStaysQuiet'
  BY DEF InterruptStaysQuiet, ActiveIsLive, Wait
<1> QED BY <1>1, <1>2, <1>3, <1>4, <1>5, <1>6, <1>7 DEF IInv

-----------------------------------------------------------------------------
(***************************************************************************)
(* The owner fiber between its settlements.                                *)
(***************************************************************************)
\* A successor's first yield comes back.
LEMMA YieldedStep ==
  ASSUME IInv, NEW e \in Entries, Yielded(e)
  PROVE  IInv'
<1> USE CoordinatorAssumption DEF IInv, TypeOK, Waiting, Live
<1>1. TypeOK'
  BY DEF Yielded, otherVars, clientVars
<1>2. LiveIsActive'
  BY DEF LiveIsActive, ActiveIsLive, Yielded, otherVars, clientVars
<1>3. ActiveIsLive'
  BY DEF ActiveIsLive, LiveIsActive, Yielded, otherVars, clientVars
<1>4. WaitersHoldActive'
  BY DEF WaitersHoldActive, ActiveIsLive, Yielded, otherVars, clientVars
<1>5. FreshFlags'
  BY DEF FreshFlags, ActiveIsLive, Yielded, otherVars, clientVars
<1>6. NoLostWake'
  BY DEF NoLostWake, ActiveIsLive, FreshFlags, Yielded, otherVars, clientVars
<1>7. InterruptStaysQuiet'
  BY DEF InterruptStaysQuiet, ActiveIsLive, Yielded, otherVars, clientVars
<1> QED BY <1>1, <1>2, <1>3, <1>4, <1>5, <1>6, <1>7 DEF IInv

\* The drain consumes the work, and with it the debt.
LEMMA ConsumeStep ==
  ASSUME IInv, NEW e \in Entries, Consume(e)
  PROVE  IInv'
<1> USE CoordinatorAssumption DEF IInv, TypeOK, Waiting, Live
<1>1. TypeOK'
  BY DEF Consume, entryVars, clientVars
<1>2. LiveIsActive'
  BY DEF LiveIsActive, Consume, entryVars, clientVars
<1>3. ActiveIsLive'
  BY DEF ActiveIsLive, Consume, entryVars, clientVars
<1>4. WaitersHoldActive'
  BY DEF WaitersHoldActive, Consume, entryVars, clientVars
<1>5. FreshFlags'
  BY DEF FreshFlags, Consume, entryVars, clientVars
<1>6. NoLostWake'
  BY DEF NoLostWake, Consume, entryVars, clientVars
<1>7. InterruptStaysQuiet'
  BY DEF InterruptStaysQuiet, Consume, entryVars, clientVars
<1> QED BY <1>1, <1>2, <1>3, <1>4, <1>5, <1>6, <1>7 DEF IInv

\* A drain that finds nothing owes nothing.
LEMMA FindNothingStep ==
  ASSUME IInv, NEW e \in Entries, FindNothing(e)
  PROVE  IInv'
<1> USE CoordinatorAssumption DEF IInv, TypeOK, Waiting, Live
<1>1. TypeOK'
  BY DEF FindNothing, otherVars, clientVars
<1>2. LiveIsActive'
  BY DEF LiveIsActive, ActiveIsLive, FindNothing, otherVars, clientVars
<1>3. ActiveIsLive'
  BY DEF ActiveIsLive, LiveIsActive, FindNothing, otherVars, clientVars
<1>4. WaitersHoldActive'
  BY DEF WaitersHoldActive, ActiveIsLive, FindNothing, otherVars, clientVars
<1>5. FreshFlags'
  BY DEF FreshFlags, ActiveIsLive, FindNothing, otherVars, clientVars
<1>6. NoLostWake'
  BY DEF NoLostWake, ActiveIsLive, FreshFlags, FindNothing, otherVars,
         clientVars
<1>7. InterruptStaysQuiet'
  BY DEF InterruptStaysQuiet, ActiveIsLive, FindNothing, otherVars, clientVars
<1> QED BY <1>1, <1>2, <1>3, <1>4, <1>5, <1>6, <1>7 DEF IInv

\* An interruption lands: the wakes before it were dropped by interrupt.
LEMMA UnwindStep ==
  ASSUME IInv, NEW e \in Entries, Unwind(e)
  PROVE  IInv'
<1> USE CoordinatorAssumption DEF IInv, TypeOK, Waiting, Live
<1>1. TypeOK'
  BY DEF Unwind, otherVars, clientVars
<1>2. LiveIsActive'
  BY DEF LiveIsActive, ActiveIsLive, Unwind, otherVars, clientVars
<1>3. ActiveIsLive'
  BY DEF ActiveIsLive, LiveIsActive, Unwind, otherVars, clientVars
<1>4. WaitersHoldActive'
  BY DEF WaitersHoldActive, ActiveIsLive, Unwind, otherVars, clientVars
<1>5. FreshFlags'
  BY DEF FreshFlags, ActiveIsLive, Unwind, otherVars, clientVars
<1>6. NoLostWake'
  BY DEF NoLostWake, ActiveIsLive, FreshFlags, Unwind, otherVars, clientVars
<1>7. InterruptStaysQuiet'
  BY DEF InterruptStaysQuiet, ActiveIsLive, Unwind, otherVars, clientVars
<1> QED BY <1>1, <1>2, <1>3, <1>4, <1>5, <1>6, <1>7 DEF IInv

-----------------------------------------------------------------------------
(***************************************************************************)
(* The invariant.                                                          *)
(***************************************************************************)
\* The three exits of an execution, through settle.
LEMMA SettleStep ==
  ASSUME IInv, NEW e \in Entries, fiber[e] \in Live,
         NEW exit \in {"success", "failure", "interrupted"}, Settle(e, exit),
         UNCHANGED <<work, calm>>,
         exit = "failure" =>
           signalled' = [signalled EXCEPT ![keyOf[e]] = @ /\ pendingWake[e]],
         exit # "failure" => signalled' = signalled,
         exit # "failure" /\ ~pendingWake[e] => ~signalled[keyOf[e]]
  PROVE  IInv'
<1>1. CASE FollowUp(e, exit) /\ DrainAgain(e)
  BY <1>1, DrainAgainStep DEF FollowUp
<1>2. CASE pendingWake[e] /\ HandOver(e, exit)
  <2>1. signalled' = signalled
    BY <1>2 DEF IInv, TypeOK
  <2> QED BY <1>2, <2>1, HandOverStep
<1>3. CASE ~pendingWake[e] /\ Retire(e, exit)
  <2>1. signalled' = [signalled EXCEPT ![keyOf[e]] = FALSE]
    BY <1>3 DEF IInv, TypeOK
  <2> QED BY <1>3, <2>1, RetireStep
<1> QED BY <1>1, <1>2, <1>3 DEF Settle, Successor

\* Entering run, from a fresh call or after an execution that stopped cleanly.
LEMMA EnterRunStep ==
  ASSUME IInv, NEW c \in Clients, NEW k \in Keys, pc[c] \in {"idle", "rerun"},
         EnterRun(c, k)
  PROVE  IInv'
<1>1. CASE active[k] # None
  <2>1. PICK how \in {"joined", "deferred"} : Wait(c, k, active[k], how)
    BY <1>1 DEF EnterRun, Joinable
  <2> QED BY <1>1, <2>1, JoinStep DEF EnterRun, Joinable
<1>2. CASE active[k] = None
  BY <1>2, StartRunStep DEF EnterRun, Joinable
<1> QED BY <1>1, <1>2

LEMMA InterruptStep ==
  ASSUME IInv, NEW c \in Clients, NEW k \in Keys, Interrupt(c, k)
  PROVE  IInv'
<1>1. CASE fiber[active[k]] # "yielding"
  BY <1>1, InterruptRunningStep DEF Interrupt, Stop
<1>2. CASE fiber[active[k]] = "yielding"
  <2>1. active[k] \in Entries /\ keyOf[active[k]] = k
    BY DEF Interrupt, IInv, TypeOK, ActiveIsLive
  <2> QED BY <1>2, <2>1, RetireStep DEF Interrupt, Live
<1> QED BY <1>1, <1>2

\* IInv is inductive.
LEMMA NextIInv == IInv /\ [Next]_vars => IInv'
<1> SUFFICES ASSUME IInv, [Next]_vars PROVE IInv'
  OBVIOUS
<1>1. ASSUME NEW c \in Clients, Call(c) PROVE IInv'
  <2>1. ASSUME NEW k \in Keys, Run(c, k) PROVE IInv'
    BY <2>1, EnterRunStep DEF Run
  <2>2. CASE RunAgain(c)
    <3>1. target[c] \in Keys
      BY DEF IInv, TypeOK
    <3> QED BY <2>2, <3>1, EnterRunStep DEF RunAgain
  <2>3. ASSUME NEW k \in Keys, Interrupt(c, k) PROVE IInv'
    BY <2>3, InterruptStep
  <2> QED BY <1>1, <2>1, <2>2, <2>3, ReturnStep, AbandonStep DEF Call
<1>2. ASSUME NEW k \in Keys, Record(k) \/ Wake(k) PROVE IInv'
  BY <1>2, RecordStep, WakeStep
<1>3. ASSUME NEW e \in Entries, Drain(e) \/ Fail(e) PROVE IInv'
  <2>1. CASE Finish(e)
    <3>1. ~pendingWake[e] => ~signalled[keyOf[e]]
      BY <2>1 DEF Finish, IInv, NoLostWake, LiveIsActive, Live, TypeOK
    <3> QED BY <2>1, <3>1, SettleStep DEF Finish, Live
  <2>2. CASE CleanedUp(e)
    <3>1. ~pendingWake[e] => ~signalled[keyOf[e]]
      BY <2>2 DEF CleanedUp, IInv, NoLostWake, LiveIsActive, Live, TypeOK
    <3> QED BY <2>2, <3>1, SettleStep DEF CleanedUp, Live
  <2>3. CASE Fail(e)
    BY <2>3, SettleStep DEF Fail, Live
  <2> QED BY <1>3, <2>1, <2>2, <2>3, YieldedStep, ConsumeStep,
             FindNothingStep, UnwindStep DEF Drain
<1>4. CASE UNCHANGED vars
  BY <1>4 DEF vars, entryVars, clientVars, IInv, TypeOK, LiveIsActive,
         ActiveIsLive, WaitersHoldActive, FreshFlags, NoLostWake,
         InterruptStaysQuiet
<1> QED BY <1>1, <1>2, <1>3, <1>4 DEF Next

LEMMA SpecIInv == Spec => []IInv
  BY InitIInv, NextIInv, PTL DEF Spec

-----------------------------------------------------------------------------
(***************************************************************************)
(* The results.                                                            *)
(***************************************************************************)
\* Every variable keeps its type, for any number of Sessions and callers.
THEOREM TypeCorrect == Spec => []TypeOK
<1>1. IInv => TypeOK
  BY DEF IInv
<1> QED BY <1>1, SpecIInv, PTL

\* "Serializes execution for each key" (run-coordinator.ts:5): the drains of
\* one Session never overlap, however runs, wakes, interrupts, failures and
\* successors interleave.
THEOREM Serialized == Spec => []OneDrainPerKey
<1>1. IInv => OneDrainPerKey
  BY DEF IInv, TypeOK, LiveIsActive, OneDrainPerKey
<1> QED BY <1>1, SpecIInv, PTL

\* A caller of run or interrupt always waits for a settlement that a live
\* fiber is still going to produce.
THEOREM NoOrphans == Spec => []NoOrphanWaiter
<1>1. IInv => NoOrphanWaiter
  BY DEF IInv, TypeOK, WaitersHoldActive, ActiveIsLive, NoOrphanWaiter
<1> QED BY <1>1, SpecIInv, PTL

\* A wake for recorded work is held by a follow-up or a drain that has yet
\* to look, until the work is consumed, given up by a failure or interrupted.
THEOREM WakesAreKept == Spec => []NoLostWake
<1>1. IInv => NoLostWake
  BY DEF IInv
<1> QED BY <1>1, SpecIInv, PTL

\* An interrupted Session drains nothing new until somebody asks for it.
THEOREM InterruptsAreQuiet == Spec => []InterruptStaysQuiet
<1>1. IInv => InterruptStaysQuiet
  BY DEF IInv
<1> QED BY <1>1, SpecIInv, PTL
=============================================================================
