---------------------------- MODULE FileMutation ----------------------------
(***************************************************************************)
(* Tool calls that change files: edit (packages/core/src/tool/edit.ts),    *)
(* write (tool/write.ts) and apply_patch (tool/apply-patch.ts), over       *)
(* packages/core/src/file-mutation.ts and its KeyedMutex.                  *)
(*                                                                         *)
(* A call asks for permission, reads what it will change, and then makes   *)
(* its changes one by one, each under the lock of its target: an update    *)
(* compares the file with what was read and writes it, an overwrite, an    *)
(* add and a delete look at nothing that was read before.  Every Location  *)
(* has a FileMutation service of its own (location-services.ts wraps the   *)
(* Location's layer in Layer.fresh), hence a Map of its own: the key of a  *)
(* lock is a Location and a canonical path.                                *)
(*                                                                         *)
(* The content of a file is the set of changes that it shows.  A call may  *)
(* be interrupted wherever the code is interruptible, and the world        *)
(* outside may remove a file or put back its first version at any moment.  *)
(***************************************************************************)
EXTENDS KeyedMutex, Sequences

CONSTANTS
  Locations,
  Files,
  Jobs       \* what a call may be told to do

\* A job is of one Location and makes its changes in order.  edit is one
\* update, write one overwrite, apply_patch any adds, updates and deletes.
Change == [op : {"update", "overwrite", "add", "delete"}, file : Files]

ASSUME FilesAssumption ==
  /\ Keys = Locations \X Files
  /\ \A j \in Jobs : /\ j.loc \in Locations
                     /\ j.changes \in Seq(Change) /\ j.changes # <<>>

VARIABLES
  job,       \* what each call does
  step,      \* "asking" for permission, "reading", "changing"
  n,         \* the change that it is at
  seen,      \* what it read of each target, None before
  did,       \* the change under way: "no", "compared", "ok", "failed"
  applied,   \* the changes it has made
  stopping,  \* calls whose interrupt waits for an uninterruptible part
  result,    \* "none" while the call runs
  file,      \* what the file shows; None when there is no such file
  replaced   \* history: changes that went with a whole file, not by an update
callVars == <<job, step, n, seen, did, applied, stopping, result>>
vars == <<mutexVars, callVars, file, replaced>>

Indices == UNION {DOMAIN j.changes : j \in Jobs}
Changes == Callers \X Indices
Contents == {None} \cup SUBSET Changes

ASSUME ContentAssumption == \A shown \in SUBSET Changes : shown # None

TypeOK ==
  /\ MutexTypeOK
  /\ job \in [Callers -> Jobs]
  /\ step \in [Callers -> {"asking", "reading", "changing"}]
  /\ did \in [Callers -> {"no", "compared", "ok", "failed"}]
  /\ result \in [Callers -> {"none", "ok", "failed", "interrupted"}]
  /\ stopping \subseteq Callers
  /\ file \in [Files -> Contents] /\ replaced \in [Files -> SUBSET Changes]
  /\ seen \in [Callers -> [Indices -> Contents]]
  /\ applied \in [Callers -> SUBSET Indices]
  /\ n \in [Callers -> Indices]
  /\ \A c \in Callers : {n[c]} \cup applied[c] \subseteq DOMAIN job[c].changes

Init ==
  /\ MutexInit
  /\ job \in [Callers -> Jobs]
  /\ step = [c \in Callers |-> "asking"]
  /\ n = [c \in Callers |-> 1]
  /\ seen = [c \in Callers |-> [i \in Indices |-> None]]
  /\ did = [c \in Callers |-> "no"]
  /\ applied = [c \in Callers |-> {}]
  /\ stopping = {}
  /\ result = [c \in Callers |-> "none"]
  /\ file = [f \in Files |-> {}]
  /\ replaced = [f \in Files |-> {}]

-----------------------------------------------------------------------------
Now(c) == job[c].changes[n[c]]
Target(c) == Now(c).file
LockKey(c) == <<job[c].loc, Target(c)>>
Shown(f) == IF file[f] = None THEN {} ELSE file[f]
IsLast(c) == n[c] = Len(job[c].changes)

Runs(c, s) == step[c] = s /\ result[c] = "none"

\* A call that ended has no local variables.
Ends(c, r) ==
  /\ result' = [result EXCEPT ![c] = r]
  /\ step' = [step EXCEPT ![c] = "changing"]
  /\ n' = [n EXCEPT ![c] = 1]
  /\ seen' = [seen EXCEPT ![c] = [i \in Indices |-> None]]
  /\ did' = [did EXCEPT ![c] = "no"]
  /\ stopping' = stopping \ {c}
  /\ UNCHANGED <<job, applied>>

\* permission.assert: approved, or not.
Ask(c) ==
  /\ Runs(c, "asking")
  /\ \/ /\ step' = [step EXCEPT ![c] = "reading"]
        /\ UNCHANGED <<job, n, seen, did, applied, stopping, result>>
     \/ Ends(c, "failed")
  /\ UNCHANGED <<mutexVars, file, replaced>>

\* The next target is prepared, or after the last one the first is changed.
Onward(c) ==
  IF IsLast(c) THEN n' = [n EXCEPT ![c] = 1] /\ step' = [step EXCEPT ![c] = "changing"]
  ELSE n' = [n EXCEPT ![c] = @ + 1] /\ UNCHANGED step

\* readFile of an update's or a delete's target, without its lock: there is
\* none, it does not hold the text to replace, or its content is remembered.
Read(c) ==
  /\ Runs(c, "reading")
  /\ IF Now(c).op \in {"update", "delete"}
     THEN \/ Ends(c, "failed")
          \/ /\ file[Target(c)] # None
             /\ seen' = [seen EXCEPT ![c][n[c]] = file[Target(c)]]
             /\ Onward(c)
             /\ UNCHANGED <<job, did, applied, stopping, result>>
     ELSE Onward(c) /\ UNCHANGED <<job, seen, did, applied, stopping, result>>
  /\ UNCHANGED <<mutexVars, file, replaced>>

-----------------------------------------------------------------------------
\* withTargetLock: the call comes for the lock of its target, and is given it.
Enter(c) ==
  /\ Runs(c, "changing") /\ at[c] = "out"
  /\ WithLock(c, LockKey(c))
  /\ UNCHANGED <<callVars, file, replaced>>

Acquire(c) ==
  /\ Take(c)
  /\ UNCHANGED <<callVars, file, replaced>>

Outcome(c, d) ==
  /\ did' = [did EXCEPT ![c] = d]
  /\ UNCHANGED <<job, step, n, seen, stopping, result>>

\* Mutant: the content that is compared is not the file's.
IsUnread(c) == file[Target(c)] # None
\* sameBytes.
IsUnchanged(c) == file[Target(c)] # None /\ file[Target(c)] = seen[c][n[c]]

\* writeIfUnchanged reads the file again, now under the lock.
Compare(c) ==
  /\ at[c] = "holding" /\ did[c] = "no" /\ Now(c).op = "update"
  /\ Outcome(c, IF IsUnchanged(c) THEN "compared" ELSE "failed")
  /\ UNCHANGED <<mutexVars, applied, file, replaced>>

Makes(c, content) ==
  /\ file' = [file EXCEPT ![Target(c)] = content]
  /\ applied' = [applied EXCEPT ![c] = @ \cup {n[c]}]
  /\ Outcome(c, "ok")

Replaces(c) == replaced' = [replaced EXCEPT ![Target(c)] = @ \cup Shown(Target(c))]

\* The write: of an update what was made from the content that was read,
\* whatever is there now; writeTextPreservingBom the new text alone; create
\* (flag wx) only where nothing is; remove whether or not something is.
Write(c) ==
  /\ at[c] = "holding"
  /\ \/ /\ Now(c).op = "update" /\ did[c] = "compared"
        /\ Makes(c, seen[c][n[c]] \cup {<<c, n[c]>>}) /\ UNCHANGED replaced
     \/ /\ Now(c).op = "overwrite" /\ did[c] = "no"
        /\ Makes(c, {<<c, n[c]>>}) /\ Replaces(c)
     \/ /\ Now(c).op = "add" /\ did[c] = "no" /\ file[Target(c)] = None
        /\ Makes(c, {<<c, n[c]>>}) /\ UNCHANGED replaced
     \/ /\ Now(c).op = "delete" /\ did[c] = "no"
        /\ Makes(c, None) /\ Replaces(c)
  /\ UNCHANGED mutexVars

\* TargetExistsError, or the file system refuses.
WriteFails(c) ==
  /\ at[c] = "holding" /\ did[c] = (IF Now(c).op = "update" THEN "compared" ELSE "no")
  /\ Outcome(c, "failed")
  /\ UNCHANGED <<mutexVars, applied, file, replaced>>

\* Mutant: a change that fails keeps the lock.
SettledWell(c) == did[c] = "ok"
\* The effect under the lock has ended.
Settled(c) == did[c] \in {"ok", "failed"}

Unlock(c) ==
  /\ Settled(c) /\ Release(c)
  /\ UNCHANGED <<callVars, file, replaced>>

\* The lock is left behind: the call goes on with its next change, or ends.
Leave(c) ==
  /\ Drop(c)
  /\ IF c \in stopping \/ did[c] # "ok" \/ IsLast(c)
     THEN Ends(c, IF c \in stopping THEN "interrupted"
                  ELSE IF did[c] = "ok" THEN "ok" ELSE "failed")
     ELSE /\ n' = [n EXCEPT ![c] = @ + 1]
          /\ did' = [did EXCEPT ![c] = "no"]
          /\ UNCHANGED <<job, step, seen, applied, stopping, result>>
  /\ UNCHANGED <<file, replaced>>

-----------------------------------------------------------------------------
\* An interrupt ends a call at once, except where it is under a lock or about
\* to leave it: there it waits.  A caller that waits for its turn gives it up.
Interrupt(c) ==
  /\ result[c] = "none" /\ c \notin stopping
  /\ \/ at[c] = "out" /\ Ends(c, "interrupted") /\ UNCHANGED mutexVars
     \/ /\ at[c] # "out"
        /\ stopping' = stopping \cup {c}
        /\ GiveUp(c) \/ (at[c] # "waiting" /\ UNCHANGED mutexVars)
        /\ UNCHANGED <<job, step, n, seen, did, applied, result>>
  /\ UNCHANGED <<file, replaced>>

\* Another program removes the file, or puts back its first version.
Outside(f) ==
  /\ \E content \in {None, {}} : file' = [file EXCEPT ![f] = content]
  /\ replaced' = [replaced EXCEPT ![f] = @ \cup Shown(f)]
  /\ UNCHANGED <<mutexVars, callVars>>

Works(c) ==
  \/ Read(c) \/ Enter(c) \/ Acquire(c)
  \/ Compare(c) \/ Write(c) \/ WriteFails(c) \/ Unlock(c) \/ Leave(c)

Next ==
  \/ \E c \in Callers : Ask(c) \/ Works(c) \/ Interrupt(c)
  \/ \E f \in Files : Outside(f)

Spec == Init /\ [][Next]_vars

\* The file system answers and fibers are scheduled; nobody owes an approval,
\* an interrupt or a change from outside.
FairSpec == Spec /\ \A c \in Callers : WF_vars(Works(c))

-----------------------------------------------------------------------------
(***************************************************************************)
(* Properties.                                                             *)
(***************************************************************************)
\* Of two updates made from the same content one is refused: a change that
\* was made is shown by its file, or it went when a write or a delete, which
\* compare nothing, or another program replaced the file as a whole.  The
\* comment of FileMutation's layer: "cooperating OpenCode mutations do not
\* overwrite changes made from the same stale content".
NoLostChange ==
  \A c \in Callers : \A i \in applied[c] :
    LET change == job[c].changes[i] IN
      change.op = "delete" \/ <<c, i>> \in Shown(change.file) \cup replaced[change.file]

\* A call that has its approval ends, whoever waits for whom: it holds one
\* lock at a time, and gives it back when its change fails.
CallsEnd == \A c \in Callers : Runs(c, "reading") ~> result[c] # "none"
=============================================================================
