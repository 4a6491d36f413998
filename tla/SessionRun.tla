----------------------------- MODULE SessionRun -----------------------------
(***************************************************************************)
(* A Session at work: prompts are admitted and woken for, the coordinator  *)
(* (RunCoordinator) starts drains, and a drain is the loop of              *)
(* src/packages/core/src/session/runner/llm.ts that promotes prompts and   *)
(* calls the provider.                                                     *)
(*                                                                         *)
(* The inbox is the sequence of its pending prompts; SessionInbox has its  *)
(* rows and transactions, ProviderTurn what happens inside a turn.  Every  *)
(* read of the inbox is a step of its own.  The coordinator's `work` is a  *)
(* pending prompt, and `signalled` one that was woken for: RunCoordinator  *)
(* lets its drain look once, atomically; the drain here looks twice.       *)
(***************************************************************************)
EXTENDS SequencesExt

CONSTANTS
  Keys, Clients, Entries, None,
  Prompts,
  MaxSteps   \* the agent's configured limit of provider turns

ASSUME RunAssumption ==
  /\ MaxSteps \in Nat \ {0}
  /\ Keys # {} /\ Clients # {} /\ None \notin Entries \cup Keys

VARIABLES
  active, keyOf, pendingWake, stopping, fiber,  \* the coordinator's Entries
  pc, ref, target, calm,                        \* the callers of run, interrupt
  kind,     \* session and delivery of a prompt
  fresh,    \* prompts that were not admitted yet
  inbox,    \* per Session: its pending prompts in admission order
  waking,   \* admitted prompts whose call has yet to wake the coordinator
  woken,    \* history: pending prompts woken for, and still owed a look
  runner,   \* per Entry: the local state of its drain
  unasked   \* history: promoted by a running drain, in no request so far

coordination == <<active, keyOf, pendingWake, stopping, fiber, pc, ref, target, calm>>
prompts == <<kind, fresh, inbox, waking, woken>>
vars == <<coordination, prompts, runner, unasked>>

Pending(k) == ToSet(inbox[k])
Work == [k \in Keys |-> inbox[k] # <<>>]
Signalled == [k \in Keys |-> Pending(k) \cap woken # {}]

C == INSTANCE RunCoordinator WITH work <- Work, signalled <- Signalled

\* The coordinator with its work hidden.  A revert takes prompts back, and a
\* promotion takes one of several: no step of its own does that to `work`.
Idle == [k \in Keys |-> FALSE]
D == INSTANCE RunCoordinator WITH work <- Idle, signalled <- Idle

\* plan is the variable promotion, cutoff the pending steers at the sequence
\* of that name, recovered that this is runAfterOverflowCompaction.
Runner ==
  [at : {"start", "lookQueue", "turn", "queued", "steers", "call", "stream",
         "lookAgain", "lookMore"},
   plan : {"none", "steer", "queue"}, cutoff : SUBSET Prompts, step : 1..MaxSteps,
   recovered : BOOLEAN, force : BOOLEAN]

Started(force) ==
  [at |-> "start", plan |-> "none", cutoff |-> {}, step |-> 1,
   recovered |-> FALSE, force |-> force]

TypeOK ==
  /\ C!TypeOK
  /\ kind \in [Prompts -> [session : Keys, delivery : {"steer", "queue"}]]
  /\ fresh \subseteq Prompts /\ woken \subseteq Prompts /\ unasked \subseteq Prompts
  /\ waking \subseteq Prompts \ fresh
  /\ inbox \in [Keys -> Seq(Prompts)]
  /\ \A k \in Keys :
       /\ IsInjective(inbox[k])
       /\ \A p \in Pending(k) : p \notin fresh \cup unasked /\ kind[p].session = k
  /\ runner \in [Entries -> Runner]

\* The process starts.  What an earlier one left in the inbox is as if it was
\* admitted without a wake.
Init ==
  /\ active = [k \in Keys |-> None]
  /\ keyOf \in {[e \in Entries |-> k] : k \in Keys}
  /\ pendingWake = [e \in Entries |-> FALSE] /\ stopping = [e \in Entries |-> FALSE]
  /\ fiber = [e \in Entries |-> "none"]
  /\ pc = [c \in Clients |-> "idle"] /\ ref = [c \in Clients |-> None]
  /\ target \in {[c \in Clients |-> k] : k \in Keys}
  /\ calm = [k \in Keys |-> FALSE]
  /\ kind \in [Prompts -> [session : Keys, delivery : {"steer", "queue"}]]
  /\ fresh = Prompts /\ inbox = [k \in Keys |-> <<>>]
  /\ waking = {} /\ woken = {} /\ unasked = {}
  /\ runner = [e \in Entries |-> Started(FALSE)]

-----------------------------------------------------------------------------
(***************************************************************************)
(* The calls: prompt, resume, interrupt, and the commit of a revert.       *)
(***************************************************************************)
\* prompt with resume false does not wake.
Admit(p, resume) ==
  /\ p \in fresh
  /\ fresh' = fresh \ {p}
  /\ inbox' = [inbox EXCEPT ![kind[p].session] = Append(@, p)]
  /\ waking' = IF resume THEN waking \cup {p} ELSE waking
  /\ UNCHANGED <<coordination, kind, woken, runner, unasked>>

WakeFor(p) ==
  /\ p \in waking
  /\ waking' = waking \ {p}
  /\ woken' = woken \cup Pending(kind[p].session)
  /\ UNCHANGED <<kind, fresh, inbox, runner, unasked>>
  /\ C!Wake(kind[p].session)

\* An execution that run starts is forced.
Resume(c) ==
  /\ UNCHANGED <<prompts, unasked>>
  /\ \/ \E k \in Keys :
          /\ C!Run(c, k)
          /\ runner' = IF active[k] # None THEN runner
                       ELSE [runner EXCEPT ![active'[k]] = Started(TRUE)]
     \/ /\ C!RunAgain(c)
        /\ runner' = IF active[target[c]] # None THEN runner
                     ELSE [runner EXCEPT ![active'[target[c]]] = Started(TRUE)]
     \/ (C!Return(c) \/ C!Abandon(c)) /\ UNCHANGED runner

Interrupt(c, k) ==
  /\ woken' = woken \ Pending(k)
  /\ UNCHANGED <<kind, fresh, inbox, waking, runner, unasked>>
  /\ C!Interrupt(c, k)

\* A revert takes back the prompts that were admitted or promoted behind its
\* boundary: n and hidden stand for where it is.
Revert(k) ==
  \E n \in 0..Len(inbox[k]), hidden \in SUBSET {p \in unasked : kind[p].session = k} :
    /\ n < Len(inbox[k]) \/ hidden # {}
    /\ inbox' = [inbox EXCEPT ![k] = SubSeq(@, 1, n)]
    /\ woken' = woken \ ToSet(SubSeq(inbox[k], n + 1, Len(inbox[k])))
    /\ unasked' = unasked \ hidden
    /\ UNCHANGED <<coordination, kind, fresh, waking, runner>>

-----------------------------------------------------------------------------
(***************************************************************************)
(* run and runTurn, in the drain of Entry e.                               *)
(***************************************************************************)
\* An interrupted fiber does nothing further, but a commit may complete.
Runs(e, at) == fiber[e] = "draining" /\ ~stopping[e] /\ runner[e].at = at

Goes(e, r) == runner' = [runner EXCEPT ![e] = r]

Delivered(k, d) == {p \in Pending(k) : kind[p].delivery = d}
HasPending(e, d) == Delivered(keyOf[e], d) # {}

\* Mutant: a follow-up that came since the last look is taken for served.
ExitServed(e) ==
  /\ fiber' = [fiber EXCEPT ![e] = "exiting"]
  /\ Goes(e, Started(FALSE))
  /\ pendingWake' = [pendingWake EXCEPT ![e] = FALSE]
  /\ UNCHANGED <<active, keyOf, stopping, pc, ref, target, calm>>
\* run returns.
Exit(e) ==
  /\ fiber' = [fiber EXCEPT ![e] = "exiting"]
  /\ Goes(e, Started(FALSE))
  /\ UNCHANGED <<active, keyOf, pendingWake, stopping, pc, ref, target, calm>>

Turn(e, plan, step) ==
  Goes(e, [runner[e] EXCEPT !.at = "turn", !.plan = plan, !.step = step,
                            !.recovered = FALSE])

LookSteer(e) ==
  /\ Runs(e, "start")
  /\ IF HasPending(e, "steer") THEN Turn(e, "steer", 1)
     ELSE Goes(e, [runner[e] EXCEPT !.at = "lookQueue"])
  /\ UNCHANGED <<coordination, prompts, unasked>>

\* Mutant: a wake only looks for steers.
LookQueueIfForced(e) ==
  /\ Runs(e, "lookQueue")
  /\ IF runner[e].force THEN Turn(e, "queue", 1) /\ UNCHANGED coordination ELSE Exit(e)
  /\ UNCHANGED <<prompts, unasked>>
LookQueue(e) ==
  /\ Runs(e, "lookQueue")
  /\ IF HasPending(e, "queue") THEN Turn(e, "queue", 1) /\ UNCHANGED coordination
     ELSE IF runner[e].force THEN Turn(e, "none", 1) /\ UNCHANGED coordination
     ELSE Exit(e)
  /\ UNCHANGED <<prompts, unasked>>

\* The sequence is read before anything is promoted.
ReadCutoff(e) ==
  /\ Runs(e, "turn")
  /\ IF runner[e].plan = "none" THEN Goes(e, [runner[e] EXCEPT !.at = "call"])
     ELSE Goes(e, [runner[e] EXCEPT
            !.at = IF runner[e].plan = "queue" THEN "queued" ELSE "steers",
            !.cutoff = Delivered(keyOf[e], "steer")])
  /\ UNCHANGED <<coordination, prompts, unasked>>

\* The place in the inbox of the one of ps that was admitted first.
Oldest(k, ps) ==
  {n \in DOMAIN inbox[k] :
     inbox[k][n] \in ps /\ \A m \in 1..(n - 1) : inbox[k][m] \notin ps}

\* Prompted: visible, and the step allowance starts anew.
Promote(e, n, next) ==
  /\ inbox' = [inbox EXCEPT ![keyOf[e]] = RemoveAt(@, n)]
  /\ woken' = woken \ {inbox[keyOf[e]][n]}
  /\ unasked' = unasked \cup {inbox[keyOf[e]][n]}
  /\ Goes(e, [runner[e] EXCEPT !.at = next, !.step = 1])
  /\ UNCHANGED <<coordination, kind, fresh, waking>>

\* promoteNextQueued.
PromoteQueued(e) ==
  /\ fiber[e] = "draining" /\ runner[e].at = "queued"
  /\ LET queue == Delivered(keyOf[e], "queue") IN
       \/ \E n \in Oldest(keyOf[e], queue) : Promote(e, n, "steers")
       \/ /\ queue = {}
          /\ Goes(e, [runner[e] EXCEPT !.at = "steers"])
          /\ UNCHANGED <<coordination, prompts, unasked>>

\* promoteSteers, one by one.
PromoteSteers(e) ==
  /\ fiber[e] = "draining" /\ runner[e].at = "steers"
  /\ LET steers == Pending(keyOf[e]) \cap runner[e].cutoff IN
       \/ \E n \in Oldest(keyOf[e], steers) : Promote(e, n, "steers")
       \/ /\ steers = {}
          /\ Goes(e, [runner[e] EXCEPT !.at = "call", !.cutoff = {}])
          /\ UNCHANGED <<coordination, prompts, unasked>>

\* Mutants: compaction starts the turn over with its promotion, or counts as
\* the turn.
CompactAndPromote(e) ==
  /\ Runs(e, "call")
  /\ Goes(e, [runner[e] EXCEPT !.at = "turn"])
  /\ UNCHANGED <<coordination, prompts, unasked>>
CompactAsTurn(e) ==
  /\ Runs(e, "call")
  /\ Goes(e, [runner[e] EXCEPT !.at = "lookAgain"])
  /\ UNCHANGED <<coordination, prompts, unasked>>
\* compactIfNeeded: the turn starts over, without a promotion.
Compact(e) ==
  /\ Runs(e, "call")
  /\ Goes(e, [runner[e] EXCEPT !.at = "turn", !.plan = "none"])
  /\ UNCHANGED <<coordination, prompts, unasked>>

\* The request has every prompt that was promoted.
CallProvider(e) ==
  /\ Runs(e, "call")
  /\ Goes(e, [runner[e] EXCEPT !.at = "stream"])
  /\ unasked' = {p \in unasked : kind[p].session # keyOf[e]}
  /\ UNCHANGED <<coordination, prompts>>

\* A context overflow is compacted away once, and the turn starts over.
Overflow(e) ==
  /\ Runs(e, "stream") /\ ~runner[e].recovered
  /\ Goes(e, [runner[e] EXCEPT !.at = "turn", !.plan = "none", !.recovered = TRUE])
  /\ UNCHANGED <<coordination, prompts, unasked>>

NextStep(e) == IF runner[e].step < MaxSteps THEN runner[e].step + 1 ELSE MaxSteps

\* Mutant: the last step offers its tools like any other.
ToolsAlways(e) == TRUE
\* Without tools there is no continuation.
HasTools(e) == runner[e].step < MaxSteps

\* The turn settles; local tool calls need a continuation.
Answered(e) ==
  /\ Runs(e, "stream")
  /\ \/ HasTools(e) /\ Turn(e, "steer", NextStep(e))
     \/ Goes(e, [runner[e] EXCEPT !.at = "lookAgain"])
  /\ UNCHANGED <<coordination, prompts, unasked>>

LookAgain(e) ==
  /\ Runs(e, "lookAgain")
  /\ IF HasPending(e, "steer") THEN Turn(e, "steer", NextStep(e))
     ELSE Goes(e, [runner[e] EXCEPT !.at = "lookMore"])
  /\ UNCHANGED <<coordination, prompts, unasked>>

\* Mutant: the promotion is left as it was.
LookMoreForSteers(e) ==
  /\ Runs(e, "lookMore")
  /\ IF HasPending(e, "queue") THEN Turn(e, "steer", 1) /\ UNCHANGED coordination
     ELSE Exit(e)
  /\ UNCHANGED <<prompts, unasked>>
LookMore(e) ==
  /\ Runs(e, "lookMore")
  /\ IF HasPending(e, "queue") THEN Turn(e, "queue", 1) /\ UNCHANGED coordination
     ELSE Exit(e)
  /\ UNCHANGED <<prompts, unasked>>

-----------------------------------------------------------------------------
(***************************************************************************)
(* The end of a drain.  What it promoted and did not ask for is left to an *)
(* explicit resume.                                                        *)
(***************************************************************************)
GiveUp(e) ==
  /\ Goes(e, Started(FALSE))
  /\ unasked' = {p \in unasked : kind[p].session # keyOf[e]}

\* A failure, or a drain that interrupts itself (a declined tool, a Session
\* that moved away).
Fail(e) ==
  /\ fiber[e] = "draining"
  /\ woken' = IF pendingWake[e] THEN woken ELSE woken \ Pending(keyOf[e])
  /\ UNCHANGED <<kind, fresh, inbox, waking>>
  /\ GiveUp(e) /\ C!Fail(e)

Unwind(e) == UNCHANGED prompts /\ C!Unwind(e) /\ GiveUp(e)

\* What the coordinator does around the drain.
Around(e) ==
  UNCHANGED <<prompts, runner, unasked>> /\ (C!Yielded(e) \/ C!Finish(e) \/ C!CleanedUp(e))

Drain(e) ==
  \/ LookSteer(e) \/ LookQueue(e) \/ ReadCutoff(e) \/ PromoteQueued(e)
  \/ PromoteSteers(e) \/ CallProvider(e) \/ Answered(e) \/ LookAgain(e)
  \/ LookMore(e) \/ Around(e)

Next ==
  \/ \E p \in Prompts : WakeFor(p) \/ \E resume \in BOOLEAN : Admit(p, resume)
  \/ \E c \in Clients : Resume(c) \/ \E k \in Keys : Interrupt(c, k)
  \/ \E k \in Keys : Revert(k)
  \/ \E e \in Entries : Drain(e) \/ Compact(e) \/ Overflow(e) \/ Fail(e) \/ Unwind(e)

Spec == Init /\ [][Next]_vars

\* The runtime runs every fiber that can run, and the provider ends every
\* stream.  Prompts, resumes, interrupts, reverts, compaction and failures
\* are never owed, but a prompt call that has admitted goes on to wake.
Fairness ==
  /\ \A e \in Entries : WF_vars(Drain(e)) /\ WF_vars(Unwind(e))
  /\ \A p \in Prompts : WF_vars(WakeFor(p))

FairSpec == Spec /\ Fairness

-----------------------------------------------------------------------------
(***************************************************************************)
(* Properties.                                                             *)
(***************************************************************************)
\* A prompt that was woken for is not stranded: a follow-up is due, or the
\* running drain still comes to a look that sees the prompt.  A steer that
\* comes between the look for steers and the one for queued prompts needs
\* the follow-up.
NoPromptStranded ==
  \A k \in Keys : \A p \in Pending(k) \cap woken :
    /\ active[k] # None
    /\ LET e == active[k] IN
         \/ pendingWake[e]
         \/ ~stopping[e] /\ fiber[e] = "yielding"
         \/ /\ ~stopping[e] /\ fiber[e] = "draining"
            /\ kind[p].delivery = "steer" => runner[e].at \notin {"lookQueue", "lookMore"}

\* A drain that ends in success has put every prompt it promoted before the
\* provider, also those whose turn was started over by a compaction.
NothingSwallowed ==
  \A k \in Keys : active[k] # None /\ fiber[active[k]] = "exiting" =>
    \A p \in unasked : kind[p].session # k

\* Queued prompts are handed out one at a time: no second one is promoted
\* before the provider was called for the first.
OneQueuedAtATime ==
  \A p, q \in unasked :
    kind[p].delivery = "queue" /\ kind[q].delivery = "queue"
      /\ kind[p].session = kind[q].session => p = q

\* Prompts, callers and drains keep to the coordinator: what they do to its
\* Entries is a step of its own, a drain's end one that finds nothing, and what
\* a drain does on its way there is none.
KeepsToCoordinator == D!Spec

\* A prompt that was woken for is promoted, or given up by an interrupt, a
\* failure or a revert, unless turns are compacted over and over.
WokenIsPromoted ==
  <>[][~\E e \in Entries : Compact(e)]_vars => \A p \in Prompts : p \in woken ~> p \notin woken

\* A drain ends: the agent's limit bounds the turns between two prompts.
DrainsEnd ==
  <>[][~\E e \in Entries : Compact(e)]_vars =>
    \A e \in Entries : fiber[e] = "draining" ~> fiber[e] # "draining"
=============================================================================
