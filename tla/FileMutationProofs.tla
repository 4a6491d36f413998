------------------------- MODULE FileMutationProofs -------------------------
(***************************************************************************)
(* Proofs about the mutex and what FileMutation does with it.              *)
(*                                                                         *)
(* KeyedMutex, for any number of keys and callers: two callers that hold   *)
(* the lock of one key are the same, the Map holds only entries in use,    *)
(* and the whole is a lock per key.  FileMutation: its steps are steps of  *)
(* the mutex, so that whatever holds of KeyedMutex holds of it; and when   *)
(* all calls come from one Location, no change that was made is lost, for  *)
(* any number of calls, files and changes.                                 *)
(***************************************************************************)
EXTENDS FileMutation, FiniteSetTheorems, TLAPS

(***************************************************************************)
(* KeyedMutex.                                                             *)
(***************************************************************************)
\* Who uses an entry finds it under its key; keys do not share entries; the
\* count of an entry in the Map is the number of its users, and not zero; a
\* permit is out while its entry has a holder, and an entry has one at most.
InUse ==
  \A c \in Callers :
    /\ at[c] = "out" <=> entry[c] = None
    /\ entry[c] # None => key[c] # None /\ locks[key[c]] = entry[c]
Apart == \A j, k \in Keys : locks[j] = locks[k] /\ locks[j] # None => j = k
Counted ==
  \A k \in Keys : locks[k] # None =>
    Users(locks[k]) # {} /\ users[locks[k]] = Cardinality(Users(locks[k]))
OneHolder ==
  /\ \A c \in Callers : at[c] = "holding" => entry[c] \in taken
  /\ \A c, d \in Callers :
       at[c] = "holding" /\ at[d] = "holding" /\ entry[c] = entry[d] => c = d

IInv == MutexTypeOK /\ InUse /\ Apart /\ Counted /\ OneHolder

-----------------------------------------------------------------------------
LEMMA UsersFinite == \A e : IsFiniteSet(Users(e))
  BY MutexAssumption, FS_Subset DEF Users

\* At the start nobody uses anything.
LEMMA InitEstablishes == MutexInit => IInv
  BY MutexAssumption
  DEF MutexInit, IInv, MutexTypeOK, InUse, Apart, Counted, OneHolder

\* One user more of an entry makes its count one more.
LEMMA OneMore ==
  ASSUME NEW c \in Callers, NEW e \in Entries, entry[c] = None, MutexTypeOK,
         entry' = [entry EXCEPT ![c] = e]
  PROVE  /\ Users(e)' = Users(e) \cup {c}
         /\ Cardinality(Users(e)') = Cardinality(Users(e)) + 1
         /\ \A d : d # e /\ d # None => Users(d)' = Users(d)
<1>1. e # None BY MutexAssumption
<1>2. Users(e)' = Users(e) \cup {c} BY <1>1 DEF Users, MutexTypeOK
<1>3. c \notin Users(e) BY <1>1 DEF Users
<1>4. Cardinality(Users(e) \cup {c}) = Cardinality(Users(e)) + 1
  BY <1>3, UsersFinite, FS_AddElement
<1>5. \A d : d # e /\ d # None => Users(d)' = Users(d)
  BY DEF Users, MutexTypeOK
<1> QED BY <1>2, <1>4, <1>5

\* One user less makes it one less.
LEMMA OneLess ==
  ASSUME NEW c \in Callers, NEW e \in Entries, entry[c] = e, MutexTypeOK,
         entry' = [entry EXCEPT ![c] = None]
  PROVE  /\ Users(e)' = Users(e) \ {c}
         /\ Cardinality(Users(e)') = Cardinality(Users(e)) - 1
         /\ \A d : d # e /\ d # None => Users(d)' = Users(d)
<1>1. e # None BY MutexAssumption
<1>2. Users(e)' = Users(e) \ {c} BY <1>1 DEF Users, MutexTypeOK
<1>3. c \in Users(e) BY DEF Users
<1>4. Cardinality(Users(e) \ {c}) = Cardinality(Users(e)) - 1
  BY <1>3, UsersFinite, FS_RemoveElement
<1>5. \A d : d # e /\ d # None => Users(d)' = Users(d)
  BY DEF Users, MutexTypeOK
<1> QED BY <1>2, <1>4, <1>5

\* A count that is the number of users is zero when nobody is left.
LEMMA CountsNobody ==
  \A e : /\ Cardinality(Users(e)) \in Nat
         /\ Cardinality(Users(e)) = 0 <=> Users(e) = {}
  BY UsersFinite, FS_CardinalityType, FS_EmptySet

-----------------------------------------------------------------------------
(***************************************************************************)
(* One lemma per action.                                                   *)
(***************************************************************************)
LEMMA FindKeeps ==
  ASSUME IInv, NEW c \in Callers, NEW k \in Keys, Find(c, k)
  PROVE  IInv'
<1> DEFINE e == locks[k]
<1>1. e \in Entries /\ entry[c] = None BY DEF Find, IInv, MutexTypeOK, InUse
<1>2. MutexTypeOK' BY <1>1 DEF Find, Queues, IInv, MutexTypeOK
<1>3. InUse' BY <1>1, MutexAssumption DEF Find, Queues, IInv, MutexTypeOK, InUse
<1>4. Apart' BY DEF Find, IInv, Apart
<1>5. Counted'
  <2> SUFFICES ASSUME NEW j \in Keys, locks[j] # None
               PROVE  Users(locks[j])' # {} /\ users'[locks[j]] = Cardinality(Users(locks[j])')
    BY DEF Find, Counted
  <2>1. CASE locks[j] = e
    <3>1. /\ Users(locks[j])' = Users(locks[j]) \cup {c}
          /\ Cardinality(Users(locks[j])') = Cardinality(Users(locks[j])) + 1
      BY <1>1, <2>1, OneMore DEF Find, Queues, IInv
    <3> QED BY <1>1, <2>1, <3>1 DEF Find, IInv, MutexTypeOK, Counted
  <2>2. CASE locks[j] # e
    <3>1. Users(locks[j])' = Users(locks[j])
      BY <1>1, <2>2, OneMore DEF Find, Queues, IInv
    <3> QED BY <1>1, <2>2, <3>1 DEF Find, IInv, MutexTypeOK, Counted
  <2> QED BY <2>1, <2>2
<1>6. OneHolder'
  BY <1>1 DEF Find, Queues, IInv, MutexTypeOK, OneHolder
<1> QED BY <1>2, <1>3, <1>4, <1>5, <1>6 DEF IInv

LEMMA MakeKeeps ==
  ASSUME IInv, NEW c \in Callers, NEW k \in Keys, NEW e \in Entries, Make(c, k, e)
  PROVE  IInv'
<1>1. entry[c] = None /\ e # None BY MutexAssumption DEF Make, IInv, InUse
<1>2. MutexTypeOK' BY DEF Make, Queues, IInv, MutexTypeOK
<1>3. InUse'
  BY <1>1, MutexAssumption DEF Make, Queues, Unused, Users, IInv, MutexTypeOK, InUse
<1>4. Apart' BY <1>1 DEF Make, Unused, IInv, MutexTypeOK, Apart
<1>5. Counted'
  <2> SUFFICES ASSUME NEW j \in Keys, locks'[j] # None
               PROVE  Users(locks[j])' # {} /\ users'[locks'[j]] = Cardinality(Users(locks[j])')
    BY DEF Counted
  <2>1. CASE j = k
    <3>1. locks'[j] = e BY <2>1 DEF Make, IInv, MutexTypeOK
    <3>2. Users(e)' = Users(e) \cup {c} /\ Cardinality(Users(e)') = Cardinality(Users(e)) + 1
      BY <1>1, OneMore DEF Make, Queues, IInv
    <3>3. Users(e)' # {} /\ Cardinality(Users(e)') = 1
      BY <3>2, CountsNobody DEF Make, Unused
    <3>4. Users(locks[j])' = Users(e)' BY <3>1 DEF Users
    <3> QED BY <3>1, <3>3, <3>4 DEF Make, IInv, MutexTypeOK
  <2>2. CASE j # k
    <3>1. locks'[j] = locks[j] /\ locks[j] # e /\ locks[j] # None
      BY <2>2 DEF Make, Unused, IInv, MutexTypeOK
    <3>3. \A d : d # e /\ d # None => Users(d)' = Users(d)
      BY <1>1, OneMore DEF Make, Queues, IInv
    <3>4. Users(locks[j])' = {d \in Callers : entry'[d] = locks[j]} BY <3>1 DEF Users
    <3>5. Users(locks[j])' = Users(locks[j])
      BY <1>1, <3>1, <3>4, MutexAssumption DEF Users, Make, Queues, IInv, MutexTypeOK
    <3>6. users'[locks[j]] = users[locks[j]]
      BY <3>1 DEF Make, IInv, MutexTypeOK
    <3> QED BY <3>1, <3>5, <3>6 DEF IInv, Counted
  <2> QED BY <2>1, <2>2
<1>6. OneHolder'
  BY <1>1 DEF Make, Queues, Unused, Users, IInv, MutexTypeOK, OneHolder
<1> QED BY <1>2, <1>3, <1>4, <1>5, <1>6 DEF IInv

\* Steps that leave the Map, the counts and who uses what as they are.
LEMMA HandOverKeeps ==
  ASSUME IInv, NEW c \in Callers, Take(c) \/ GiveUp(c) \/ Release(c)
  PROVE  IInv'
<1>1. UNCHANGED <<locks, users, key, entry>> BY DEF Take, GiveUp, Release
<1>2. at[c] # "out" /\ entry[c] \in Entries
  BY DEF Take, GiveUp, Release, IInv, MutexTypeOK, InUse
<1>3. MutexTypeOK' BY <1>2 DEF Take, GiveUp, Release, IInv, MutexTypeOK
<1>4. InUse' BY <1>1 DEF Take, GiveUp, Release, IInv, MutexTypeOK, InUse
<1>5. Apart' BY <1>1 DEF IInv, Apart
<1>6. Counted' BY <1>1 DEF IInv, Counted, Users
<1>7. OneHolder'
  <2>1. CASE Take(c) BY <2>1 DEF Take, IInv, MutexTypeOK, OneHolder
  <2>2. CASE GiveUp(c) BY <2>2 DEF GiveUp, IInv, MutexTypeOK, OneHolder
  <2>3. CASE Release(c) BY <2>3 DEF Release, IInv, MutexTypeOK, OneHolder
  <2> QED BY <2>1, <2>2, <2>3
<1> QED BY <1>3, <1>4, <1>5, <1>6, <1>7 DEF IInv

LEMMA DropKeeps ==
  ASSUME IInv, NEW c \in Callers, Drop(c)
  PROVE  IInv'
<1>1. PICK e \in Entries : e = entry[c]
  BY DEF Drop, IInv, MutexTypeOK, InUse
<1>2. PICK k \in Keys : k = key[c] /\ locks[k] = e
  BY <1>1, MutexAssumption DEF IInv, MutexTypeOK, InUse
<1>3. e # None BY MutexAssumption
<1>4. /\ Users(e)' = Users(e) \ {c}
      /\ Cardinality(Users(e)') = Cardinality(Users(e)) - 1
      /\ \A d : d # e /\ d # None => Users(d)' = Users(d)
  BY <1>1, OneLess DEF Drop, Left, IInv
<1>5. users[e] = Cardinality(Users(e)) /\ Cardinality(Users(e)) \in Nat /\ c \in Users(e)
  <2>1. users[e] = Cardinality(Users(e)) BY <1>2, <1>3 DEF IInv, Counted
  <2>2. c \in Users(e) BY <1>1 DEF Users
  <2> QED BY <2>1, <2>2, CountsNobody
<1>6. users' = [users EXCEPT ![e] = @ - 1] /\ users'[e] = Cardinality(Users(e)')
  BY <1>1, <1>4, <1>5 DEF Drop, IInv, MutexTypeOK
<1>7. Cardinality(Users(e)') \in Nat /\ (Cardinality(Users(e)') = 0 <=> Users(e)' = {})
  <2>1. IsFiniteSet(Users(e)') BY <1>4, UsersFinite, FS_Subset
  <2> QED BY <2>1, FS_CardinalityType, FS_EmptySet
<1>8. locks' = IF Users(e)' = {} THEN [locks EXCEPT ![k] = None] ELSE locks
  BY <1>1, <1>2, <1>6, <1>7 DEF Drop
<1>9. MutexTypeOK'
  <2>1. users' \in [Entries -> Nat] BY <1>6, <1>7 DEF IInv, MutexTypeOK
  <2>2. locks' \in [Keys -> Entries \cup {None}] BY <1>8 DEF IInv, MutexTypeOK
  <2> QED BY <2>1, <2>2 DEF Drop, Left, IInv, MutexTypeOK
<1>10. InUse'
  BY <1>1, <1>2, <1>3, <1>4, <1>8, MutexAssumption
  DEF Drop, Left, Users, IInv, MutexTypeOK, InUse, Apart
<1>11. Apart' BY <1>8 DEF IInv, MutexTypeOK, Apart
<1>12. Counted'
  <2> SUFFICES ASSUME NEW j \in Keys, locks'[j] # None
               PROVE  /\ Users(locks[j])' # {}
                      /\ users'[locks'[j]] = Cardinality(Users(locks[j])')
    BY DEF Counted
  <2>1. locks'[j] = locks[j] BY <1>8 DEF IInv, MutexTypeOK
  <2>2. Users(locks[j])' = {d \in Callers : entry'[d] = locks[j]} BY <2>1 DEF Users
  <2>3. CASE locks[j] = e
    <3>1. Users(locks[j])' = Users(e)' BY <2>2, <2>3 DEF Users
    <3>2. j = k BY <1>2, <1>3, <2>3 DEF IInv, Apart
    <3>3. Users(e)' # {} BY <1>8, <2>1, <2>3, <3>2, <1>3 DEF IInv, MutexTypeOK
    <3> QED BY <1>6, <2>1, <2>3, <3>1, <3>3
  <2>4. CASE locks[j] # e
    <3>1. Users(locks[j])' = Users(locks[j])
      BY <1>1, <2>1, <2>2, <2>4 DEF Users, Drop, Left, IInv, MutexTypeOK
    <3>2. users'[locks[j]] = users[locks[j]]
      BY <1>6, <2>1, <2>4 DEF IInv, MutexTypeOK
    <3> QED BY <2>1, <3>1, <3>2 DEF IInv, Counted
  <2> QED BY <2>3, <2>4
<1>13. OneHolder'
  BY MutexAssumption DEF Drop, Left, IInv, MutexTypeOK, OneHolder
<1> QED BY <1>9, <1>10, <1>11, <1>12, <1>13 DEF IInv

-----------------------------------------------------------------------------
LEMMA StepKeeps ==
  ASSUME IInv, [MutexNext]_mutexVars
  PROVE  IInv'
<1>1. CASE UNCHANGED mutexVars
  BY <1>1 DEF mutexVars, IInv, MutexTypeOK, InUse, Apart, Counted, OneHolder, Users
<1>2. CASE MutexNext
  <2>1. PICK c \in Callers :
          \/ \E k \in Keys : Find(c, k) \/ \E e \in Entries : Make(c, k, e)
          \/ Take(c) \/ GiveUp(c) \/ Release(c) \/ Drop(c)
    BY <1>2 DEF MutexNext, WithLock
  <2> QED BY <2>1, FindKeeps, MakeKeeps, HandOverKeeps, DropKeeps
<1> QED BY <1>1, <1>2

THEOREM Inductive == MutexSpec => []IInv
<1>1. IInv /\ [MutexNext]_mutexVars => IInv' BY StepKeeps
<1> QED BY InitEstablishes, <1>1, PTL DEF MutexSpec

\* Every variable of the mutex keeps its type.
THEOREM MutexTypeCorrect == MutexSpec => []MutexTypeOK
<1>1. IInv => MutexTypeOK BY DEF IInv
<1> QED BY <1>1, Inductive, PTL

\* Two callers that hold the lock of one key are the same.
THEOREM MutualExclusion == MutexSpec => []Exclusive
<1>1. IInv => Exclusive
  BY MutexAssumption DEF IInv, MutexTypeOK, InUse, OneHolder, Exclusive
<1> QED BY <1>1, Inductive, PTL

\* An entry of the Map has a holder or a waiter, or one that is leaving.
THEOREM EntriesInUse == MutexSpec => []NoEntryLeft
<1>1. IInv => NoEntryLeft BY DEF IInv, Counted, NoEntryLeft
<1> QED BY <1>1, Inductive, PTL

-----------------------------------------------------------------------------
\* KeyedMutex is a lock per key: finding or making an entry is asking, taking
\* its permit is being given the key, giving up and releasing are leaving,
\* and to drop an entry is nothing.
THEOREM IsLockPerKey == MutexSpec => Implements
<1> DEFINE asks == [c \in Callers |-> IF at[c] \in {"waiting", "holding"} THEN key[c] ELSE None]
           holds == {c \in Callers : at[c] = "holding"}
<1>1. MutexInit => Lock!Init BY DEF MutexInit, Lock!Init
<1>2. IInv /\ [MutexNext]_mutexVars => [Lock!Next]_(Lock!vars)
  <2> SUFFICES ASSUME IInv, [MutexNext]_mutexVars PROVE [Lock!Next]_(Lock!vars)
    OBVIOUS
  <2>1. CASE UNCHANGED mutexVars BY <2>1 DEF mutexVars, Lock!vars
  <2>2. ASSUME NEW c \in Callers, NEW k \in Keys, WithLock(c, k) PROVE Lock!Ask(c, k)
    <3>1. at[c] = "out" /\ Queues(c, k, entry'[c])
      BY <2>2 DEF WithLock, Find, Make, Queues, IInv, MutexTypeOK
    <3>2. asks[c] = None BY <3>1
    <3>3. asks' = [asks EXCEPT ![c] = k]
      BY <3>1 DEF Queues, IInv, MutexTypeOK
    <3>4. holds' = holds BY <3>1 DEF Queues, IInv, MutexTypeOK
    <3> QED BY <3>2, <3>3, <3>4 DEF Lock!Ask
  <2>3. ASSUME NEW c \in Callers, Take(c) PROVE Lock!Give(c)
    <3>1. asks[c] = key[c] /\ key[c] # None
      BY <2>3, MutexAssumption DEF Take, IInv, MutexTypeOK, InUse
    <3>2. \A d \in holds : asks[d] # asks[c]
      BY <2>3, <3>1, MutexAssumption DEF Take, IInv, MutexTypeOK, InUse, OneHolder
    <3>3. holds' = holds \cup {c} BY <2>3 DEF Take, IInv, MutexTypeOK
    <3>4. asks' = asks BY <2>3 DEF Take, IInv, MutexTypeOK
    <3> QED BY <3>1, <3>2, <3>3, <3>4 DEF Lock!Give
  <2>4. ASSUME NEW c \in Callers, GiveUp(c) \/ Release(c) PROVE Lock!Leave(c)
    <3>1. asks[c] # None
      BY <2>4, MutexAssumption DEF GiveUp, Release, IInv, MutexTypeOK, InUse
    <3>2. asks' = [asks EXCEPT ![c] = None]
      BY <2>4 DEF GiveUp, Release, IInv, MutexTypeOK
    <3>3. holds' = holds \ {c} BY <2>4 DEF GiveUp, Release, IInv, MutexTypeOK
    <3> QED BY <3>1, <3>2, <3>3 DEF Lock!Leave
  <2>5. ASSUME NEW c \in Callers, Drop(c) PROVE UNCHANGED Lock!vars
    <3>1. asks' = asks BY <2>5 DEF Drop, Left, IInv, MutexTypeOK
    <3>2. holds' = holds BY <2>5 DEF Drop, Left, IInv, MutexTypeOK
    <3> QED BY <3>1, <3>2 DEF Lock!vars
  <2> QED BY <2>1, <2>2, <2>3, <2>4, <2>5 DEF MutexNext, Lock!Next
<1> QED BY <1>1, <1>2, Inductive, PTL DEF MutexSpec, Implements, Lock!Spec

-----------------------------------------------------------------------------
(***************************************************************************)
(* FileMutation.                                                           *)
(***************************************************************************)
\* Who is in withLock is there for the target of its present change.
Held ==
  \A c \in Callers : at[c] # "out" =>
    key[c] = LockKey(c) /\ step[c] = "changing" /\ result[c] = "none"

\* Between its comparison and its write a call holds the lock of an update's
\* target, and has seen the target's content.
Compared ==
  \A c \in Callers : did[c] = "compared" =>
    at[c] = "holding" /\ Now(c).op = "update" /\ seen[c][n[c]] # None

\* What was ever made of that target it has seen, or it went with the whole
\* file.
HasSeenAll ==
  \A c \in Callers : did[c] = "compared" =>
    \A d \in Callers : \A i \in applied[d] :
      job[d].changes[i].file = Target(c) /\ job[d].changes[i].op # "delete" =>
        <<d, i>> \in seen[c][n[c]] \cup replaced[Target(c)]

FInv == TypeOK /\ IInv /\ Held /\ Compared

-----------------------------------------------------------------------------
LEMMA IndicesOf == \A j \in Jobs : DOMAIN j.changes \subseteq Indices
  BY DEF Indices

\* The change a call is at, and the lock it needs.
LEMMA TypeOfNow ==
  ASSUME TypeOK, NEW c \in Callers
  PROVE  /\ Now(c) \in Change /\ Target(c) \in Files /\ LockKey(c) \in Keys
         /\ <<c, n[c]>> \in Changes
         /\ job[c].changes \in Seq(Change) /\ Len(job[c].changes) \in Nat
         /\ DOMAIN job[c].changes = 1..Len(job[c].changes)
         /\ 1 \in DOMAIN job[c].changes
         /\ n[c] \in 1..Len(job[c].changes)
<1>1. job[c] \in Jobs /\ n[c] \in DOMAIN job[c].changes BY DEF TypeOK
<1>2. job[c].changes \in Seq(Change) /\ job[c].changes # <<>> /\ job[c].loc \in Locations
  BY <1>1, FilesAssumption
<1>3. DOMAIN job[c].changes = 1..Len(job[c].changes) /\ Len(job[c].changes) \in Nat
  BY <1>2
<1>4. Now(c) \in Change BY <1>1, <1>2, <1>3 DEF Now
<1>5. Target(c) \in Files BY <1>4 DEF Target, Change
<1>6. LockKey(c) \in Keys BY <1>2, <1>5, FilesAssumption DEF LockKey
<1>7. <<c, n[c]>> \in Changes BY <1>1, IndicesOf DEF Changes
<1>8. Len(job[c].changes) # 0 BY <1>2
<1> QED BY <1>1, <1>2, <1>3, <1>4, <1>5, <1>6, <1>7, <1>8

\* What a call that ends or moves on does to its own variables.
LEMMA EndsType ==
  ASSUME TypeOK, NEW c \in Callers, NEW r \in {"ok", "failed", "interrupted"}, Ends(c, r),
         MutexTypeOK', UNCHANGED <<file, replaced>>
  PROVE  TypeOK'
<1>1. 1 \in Indices /\ 1 \in DOMAIN job[c].changes 
  <2>1. 1 \in DOMAIN job[c].changes BY TypeOfNow
  <2> QED BY <2>1, IndicesOf DEF TypeOK
<1>2. n' \in [Callers -> Indices] /\ \A d \in Callers : n'[d] \in DOMAIN job'[d].changes
  BY <1>1 DEF Ends, TypeOK
<1>3. seen' \in [Callers -> [Indices -> Contents]]
  <2>1. [i \in Indices |-> None] \in [Indices -> Contents] BY DEF Contents
  <2> QED BY <2>1 DEF Ends, TypeOK
<1> QED BY <1>2, <1>3 DEF Ends, TypeOK

LEMMA OnwardType ==
  ASSUME TypeOK, NEW c \in Callers, Onward(c)
  PROVE  /\ step' \in [Callers -> {"asking", "reading", "changing"}]
         /\ n' \in [Callers -> Indices]
         /\ \A d \in Callers : n'[d] \in DOMAIN job[d].changes
<1>1. /\ 1 \in DOMAIN job[c].changes
      /\ ~IsLast(c) => n[c] + 1 \in DOMAIN job[c].changes
  <2>1. 1 \in DOMAIN job[c].changes BY TypeOfNow
  <2>2. /\ DOMAIN job[c].changes = 1..Len(job[c].changes) /\ Len(job[c].changes) \in Nat
        /\ n[c] \in 1..Len(job[c].changes)
    BY TypeOfNow
  <2> QED BY <2>1, <2>2 DEF IsLast
<1>2. DOMAIN job[c].changes \subseteq Indices BY IndicesOf DEF TypeOK
<1> QED BY <1>1, <1>2 DEF Onward, TypeOK

\* Whether a step is one of the mutex.
LEMMA MutexStep ==
  ASSUME TypeOK, [Next]_vars
  PROVE  [MutexNext]_mutexVars
<1>1. CASE UNCHANGED vars BY <1>1 DEF vars
<1>2. ASSUME NEW c \in Callers, Ask(c) \/ Works(c) \/ Interrupt(c)
      PROVE  [MutexNext]_mutexVars
  <2>1. CASE Ask(c) \/ Read(c) \/ Compare(c) \/ Write(c) \/ WriteFails(c)
    BY <2>1 DEF Ask, Read, Compare, Write, WriteFails
  <2>2. CASE Enter(c)
    <3>1. LockKey(c) \in Keys BY TypeOfNow
    <3> QED BY <2>2, <3>1 DEF Enter, MutexNext
  <2>3. CASE Acquire(c) BY <2>3 DEF Acquire, MutexNext
  <2>4. CASE Unlock(c) BY <2>4 DEF Unlock, MutexNext
  <2>5. CASE Leave(c) BY <2>5 DEF Leave, MutexNext
  <2>6. CASE Interrupt(c) BY <2>6 DEF Interrupt, MutexNext
  <2> QED BY <1>2, <2>1, <2>2, <2>3, <2>4, <2>5, <2>6 DEF Works
<1>3. ASSUME NEW f \in Files, Outside(f) PROVE [MutexNext]_mutexVars
  BY <1>3 DEF Outside
<1> QED BY <1>1, <1>2, <1>3 DEF Next

-----------------------------------------------------------------------------
(***************************************************************************)
(* Types.                                                                  *)
(***************************************************************************)
LEMMA InitTypes == Init => TypeOK
<1> SUFFICES ASSUME Init PROVE TypeOK
  OBVIOUS
<1>1. MutexTypeOK BY InitEstablishes DEF Init, IInv
<1>2. \A c \in Callers : 1 \in DOMAIN job[c].changes
  <2> TAKE c \in Callers
  <2>1. job[c].changes \in Seq(Change) /\ job[c].changes # <<>>
    BY FilesAssumption DEF Init
  <2> QED BY <2>1
<1>3. n \in [Callers -> Indices] BY <1>2, IndicesOf DEF Init
<1>4. [i \in Indices |-> None] \in [Indices -> Contents] BY DEF Contents
<1>5. seen \in [Callers -> [Indices -> Contents]] BY <1>4 DEF Init
<1>6. file \in [Files -> Contents] /\ replaced \in [Files -> SUBSET Changes]
  BY DEF Init, Contents
<1> QED BY <1>1, <1>2, <1>3, <1>5, <1>6 DEF Init, TypeOK

LEMMA ShownType ==
  ASSUME TypeOK, NEW f \in Files
  PROVE  Shown(f) \subseteq Changes
  BY DEF TypeOK, Contents, Shown

LEMMA WriteType ==
  ASSUME FInv, NEW c \in Callers, Write(c)
  PROVE  TypeOK'
<1> USE DEF FInv
<1>1. /\ Target(c) \in Files /\ <<c, n[c]>> \in Changes /\ n[c] \in Indices
  BY TypeOfNow DEF TypeOK
<1>2. Shown(Target(c)) \subseteq Changes BY <1>1, ShownType
<1>3. did[c] = "compared" => seen[c][n[c]] \subseteq Changes
  BY <1>1 DEF TypeOK, Contents, Compared
<1>4. PICK content \in Contents : Makes(c, content)
  BY <1>1, <1>3 DEF Write, Contents
<1>5. replaced' \in [Files -> SUBSET Changes]
  <2>1. UNCHANGED replaced \/ Replaces(c) BY DEF Write
  <2> QED BY <1>1, <1>2, <2>1 DEF Replaces, TypeOK
<1>6. file' \in [Files -> Contents] /\ applied' \in [Callers -> SUBSET Indices]
  BY <1>1, <1>4 DEF Makes, TypeOK
<1>7. did' \in [Callers -> {"no", "compared", "ok", "failed"}]
  BY <1>4 DEF Makes, Outcome, TypeOK
<1>8. MutexTypeOK' BY DEF Write, TypeOK, MutexTypeOK, mutexVars
<1> QED BY <1>4, <1>5, <1>6, <1>7, <1>8 DEF Makes, Outcome, TypeOK

LEMMA ReadType ==
  ASSUME TypeOK, NEW c \in Callers, Read(c), MutexTypeOK'
  PROVE  TypeOK'
<1>1. Target(c) \in Files /\ n[c] \in Indices BY TypeOfNow DEF TypeOK
<1>2. CASE Ends(c, "failed") BY <1>2, EndsType DEF Read
<1>3. CASE ~Ends(c, "failed")
  <2>1. Onward(c) /\ UNCHANGED <<job, did, applied, stopping, result, file, replaced>>
    BY <1>3 DEF Read
  <2>2. seen' \in [Callers -> [Indices -> Contents]]
    <3>1. UNCHANGED seen \/ seen' = [seen EXCEPT ![c][n[c]] = file[Target(c)]]
      BY <1>3 DEF Read
    <3>2. file[Target(c)] \in Contents BY <1>1 DEF TypeOK
    <3> DEFINE now == [seen[c] EXCEPT ![n[c]] = file[Target(c)]]
    <3>3. now \in [Indices -> Contents] BY <1>1, <3>2 DEF TypeOK
    <3>4. UNCHANGED seen \/ seen' = [seen EXCEPT ![c] = now] BY <3>1
    <3> HIDE DEF now
    <3> QED BY <3>3, <3>4 DEF TypeOK
  <2> QED BY <2>1, <2>2, OnwardType DEF TypeOK
<1> QED BY <1>2, <1>3

LEMMA LeaveType ==
  ASSUME TypeOK, NEW c \in Callers, Leave(c), MutexTypeOK'
  PROVE  TypeOK'
<1>1. CASE \E r \in {"ok", "failed", "interrupted"} : Ends(c, r)
  BY <1>1, EndsType DEF Leave
<1>2. CASE ~\E r \in {"ok", "failed", "interrupted"} : Ends(c, r)
  <2>1. /\ ~IsLast(c) /\ n' = [n EXCEPT ![c] = @ + 1] /\ did' = [did EXCEPT ![c] = "no"]
        /\ UNCHANGED <<job, step, seen, applied, stopping, result, file, replaced>>
    BY <1>2 DEF Leave
  <2>2. n[c] + 1 \in DOMAIN job[c].changes
    <3>1. /\ DOMAIN job[c].changes = 1..Len(job[c].changes) /\ Len(job[c].changes) \in Nat
          /\ n[c] \in 1..Len(job[c].changes)
      BY TypeOfNow
    <3> QED BY <2>1, <3>1 DEF IsLast
  <2>3. n[c] + 1 \in Indices BY <2>2, IndicesOf DEF TypeOK
  <2> QED BY <2>1, <2>2, <2>3 DEF TypeOK
<1> QED BY <1>1, <1>2

LEMMA TypeStep ==
  ASSUME FInv, [Next]_vars, MutexTypeOK'
  PROVE  TypeOK'
<1> USE DEF FInv
<1>1. CASE UNCHANGED vars BY <1>1 DEF vars, callVars, TypeOK
<1>2. ASSUME NEW c \in Callers, Ask(c) PROVE TypeOK'
  <2>1. CASE Ends(c, "failed") BY <1>2, <2>1, EndsType DEF Ask
  <2>2. CASE ~Ends(c, "failed") BY <1>2, <2>2 DEF Ask, TypeOK
  <2> QED BY <2>1, <2>2
<1>3. ASSUME NEW c \in Callers, Enter(c) \/ Acquire(c) \/ Unlock(c) PROVE TypeOK'
  BY <1>3 DEF Enter, Acquire, Unlock, callVars, TypeOK
<1>4. ASSUME NEW c \in Callers, Compare(c) \/ WriteFails(c) PROVE TypeOK'
  <2>1. PICK d \in {"compared", "failed"} : Outcome(c, d)
    BY <1>4 DEF Compare, WriteFails
  <2> QED BY <1>4, <2>1 DEF Compare, WriteFails, Outcome, TypeOK
<1>5. ASSUME NEW c \in Callers, Interrupt(c) PROVE TypeOK'
  <2>1. CASE Ends(c, "interrupted") BY <1>5, <2>1, EndsType DEF Interrupt
  <2>2. CASE ~Ends(c, "interrupted") BY <1>5, <2>2 DEF Interrupt, TypeOK
  <2> QED BY <2>1, <2>2
<1>6. ASSUME NEW f \in Files, Outside(f) PROVE TypeOK'
  <2>1. {} \in Contents /\ None \in Contents BY DEF Contents
  <2>2. Shown(f) \subseteq Changes BY ShownType
  <2>3. file' \in [Files -> Contents] BY <1>6, <2>1 DEF Outside, TypeOK
  <2>4. replaced' \in [Files -> SUBSET Changes] BY <1>6, <2>2 DEF Outside, TypeOK
  <2> QED BY <1>6, <2>3, <2>4 DEF Outside, callVars, TypeOK
<1> QED
  BY <1>1, <1>2, <1>3, <1>4, <1>5, <1>6, WriteType, ReadType, LeaveType DEF Next, Works

-----------------------------------------------------------------------------
(***************************************************************************)
(* Where a call is in withLock, and where in its job.                      *)
(***************************************************************************)
\* A step of a call leaves the place of the others in the mutex alone.
LEMMA HeldStep ==
  ASSUME FInv, [Next]_vars, TypeOK', IInv'
  PROVE  Held' /\ Compared'
<1> USE DEF FInv
<1>1. CASE UNCHANGED vars
  BY <1>1 DEF vars, mutexVars, callVars, Held, Compared, LockKey, Target, Now
<1>2. ASSUME NEW c \in Callers, Ask(c) \/ Read(c) PROVE Held' /\ Compared'
  <2>1. at[c] = "out" /\ did[c] # "compared"
    BY <1>2 DEF Ask, Read, Runs, Held, Compared
  <2>2. UNCHANGED <<at, key, job>> BY <1>2 DEF Ask, Read, Ends, mutexVars
  <2>3. \A d \in Callers : d # c => /\ step'[d] = step[d] /\ n'[d] = n[d] /\ did'[d] = did[d]
                                    /\ seen'[d] = seen[d] /\ result'[d] = result[d]
    BY <1>2 DEF Ask, Read, Ends, Onward, TypeOK
  <2>4. did'[c] # "compared" BY <1>2, <2>1 DEF Ask, Read, Ends, TypeOK
  <2> QED BY <2>1, <2>2, <2>3, <2>4 DEF Held, Compared, LockKey, Target, Now
<1>3. ASSUME NEW c \in Callers, Enter(c) PROVE Held' /\ Compared'
  <2>1. at[c] = "out" /\ Queues(c, LockKey(c), entry'[c]) /\ UNCHANGED callVars /\ Runs(c, "changing")
    BY <1>3 DEF Enter, WithLock, Find, Make, Queues, TypeOK, MutexTypeOK
  <2>2. at' = [at EXCEPT ![c] = "waiting"] /\ key' = [key EXCEPT ![c] = LockKey(c)]
    BY <2>1 DEF Queues
  <2>3. at \in [Callers -> {"out", "waiting", "holding", "leaving"}]
        /\ key \in [Callers -> Keys \cup {None}]
    BY DEF TypeOK, MutexTypeOK
  <2> QED BY <2>1, <2>2, <2>3 DEF Held, Compared, LockKey, Target, Now, callVars, Runs
<1>4. ASSUME NEW c \in Callers, Acquire(c) \/ Unlock(c) PROVE Held' /\ Compared'
  <2>1. UNCHANGED callVars /\ UNCHANGED key /\ at[c] # "out"
        /\ (at' = [at EXCEPT ![c] = "holding"] \/ (at' = [at EXCEPT ![c] = "leaving"] /\ did[c] # "compared"))
    BY <1>4 DEF Acquire, Unlock, Take, Release, Settled
  <2>2. at \in [Callers -> {"out", "waiting", "holding", "leaving"}]
    BY DEF TypeOK, MutexTypeOK
  <2> QED BY <2>1, <2>2 DEF Held, Compared, LockKey, Target, Now, callVars
<1>5. ASSUME NEW c \in Callers, Compare(c) PROVE Held' /\ Compared'
  <2>1. /\ at[c] = "holding" /\ Now(c).op = "update"
        /\ UNCHANGED <<at, key, job, step, n, seen, result>>
        /\ did' = [did EXCEPT ![c] = IF IsUnchanged(c) THEN "compared" ELSE "failed"]
    BY <1>5 DEF Compare, Outcome, mutexVars
  <2>2. IsUnchanged(c) => seen[c][n[c]] # None BY DEF IsUnchanged
  <2> QED BY <2>1, <2>2 DEF Held, Compared, LockKey, Target, Now, TypeOK
<1>6. ASSUME NEW c \in Callers, Write(c) \/ WriteFails(c) PROVE Held' /\ Compared'
  <2>1. PICK o \in {"ok", "failed"} : Outcome(c, o)
    BY <1>6 DEF Write, WriteFails, Makes
  <2>2. UNCHANGED <<at, key>> BY <1>6 DEF Write, WriteFails, mutexVars
  <2> QED BY <2>1, <2>2 DEF Outcome, Held, Compared, LockKey, Target, Now, TypeOK
<1>7. ASSUME NEW c \in Callers, Leave(c) PROVE Held' /\ Compared'
  <2>1. at' = [at EXCEPT ![c] = "out"] /\ key' = [key EXCEPT ![c] = None]
    BY <1>7 DEF Leave, Drop, Left
  <2>2. /\ job' = job /\ did' = [did EXCEPT ![c] = "no"]
        /\ \A d \in Callers : d # c => /\ step'[d] = step[d] /\ n'[d] = n[d]
                                        /\ seen'[d] = seen[d] /\ result'[d] = result[d]
    BY <1>7 DEF Leave, Ends, TypeOK
  <2>3. at \in [Callers -> {"out", "waiting", "holding", "leaving"}]
        /\ key \in [Callers -> Keys \cup {None}]
    BY DEF TypeOK, MutexTypeOK
  <2> QED BY <2>1, <2>2, <2>3 DEF Held, Compared, LockKey, Target, Now, TypeOK
<1>8. ASSUME NEW c \in Callers, Interrupt(c) PROVE Held' /\ Compared'
  <2>1. at \in [Callers -> {"out", "waiting", "holding", "leaving"}]
    BY DEF TypeOK, MutexTypeOK
  <2>2. CASE at[c] = "out"
    <3>1. UNCHANGED <<at, key, job>> /\ Ends(c, "interrupted")
      BY <1>8, <2>2 DEF Interrupt, mutexVars, Ends
    <3> QED BY <2>2, <3>1 DEF Ends, Held, Compared, LockKey, Target, Now, TypeOK
  <2>3. CASE at[c] # "out"
    <3>1. /\ UNCHANGED <<key, job, step, n, seen, did, result>>
          /\ at' = at \/ (at[c] = "waiting" /\ at' = [at EXCEPT ![c] = "leaving"])
      BY <1>8, <2>3 DEF Interrupt, GiveUp, mutexVars
    <3> QED BY <2>1, <2>3, <3>1 DEF Held, Compared, LockKey, Target, Now
  <2> QED BY <2>2, <2>3
<1>9. ASSUME NEW f \in Files, Outside(f) PROVE Held' /\ Compared'
  BY <1>9 DEF Outside, mutexVars, callVars, Held, Compared, LockKey, Target, Now
<1> QED BY <1>1, <1>2, <1>3, <1>4, <1>5, <1>6, <1>7, <1>8, <1>9 DEF Next, Works

LEMMA FInvStep ==
  ASSUME FInv, [Next]_vars
  PROVE  FInv'
<1>1. IInv' BY MutexStep, StepKeeps DEF FInv
<1>2. TypeOK' BY <1>1, TypeStep DEF IInv
<1> QED BY <1>1, <1>2, HeldStep DEF FInv

LEMMA FInvInit == Init => FInv
  BY InitTypes, InitEstablishes DEF Init, MutexInit, FInv, Held, Compared

THEOREM MutationInductive == Spec => []FInv
  BY FInvInit, FInvStep, PTL DEF Spec

\* Every variable of the calls and of the files keeps its type.
THEOREM TypeCorrect == Spec => []TypeOK
<1>1. FInv => TypeOK BY DEF FInv
<1> QED BY <1>1, MutationInductive, PTL

\* The calls use the mutex as it is meant to be used.
THEOREM UsesMutex == Spec => MutexSpec
<1>1. Init => MutexInit BY DEF Init
<1>2. FInv /\ [Next]_vars => [MutexNext]_mutexVars BY MutexStep DEF FInv
<1> QED BY <1>1, <1>2, MutationInductive, PTL DEF Spec, MutexSpec

-----------------------------------------------------------------------------
(***************************************************************************)
(* No change is lost, the calls being of one Location.                     *)
(***************************************************************************)
OneLocation == \A l, m \in Locations : l = m

LEMMA ChangesOf ==
  ASSUME TypeOK, NEW c \in Callers, NEW i \in applied[c]
  PROVE  job[c].changes[i] \in Change
<1>1. i \in DOMAIN job[c].changes BY DEF TypeOK
<1>2. job[c].changes \in Seq(Change) BY TypeOfNow
<1> QED BY <1>1, <1>2

LEMMA OneHolderPerTarget ==
  ASSUME OneLocation, FInv, NEW c \in Callers, NEW d \in Callers,
         at[c] = "holding", at[d] = "holding", Target(c) = Target(d)
  PROVE  c = d
<1>1. job[c].loc \in Locations /\ job[d].loc \in Locations
  BY FilesAssumption DEF FInv, TypeOK
<1>2. key[c] = LockKey(c) /\ key[d] = LockKey(d) BY DEF FInv, Held
<1>3. key[c] = key[d] BY <1>1, <1>2 DEF OneLocation, LockKey
<1>4. entry[c] # None /\ entry[d] # None /\ locks[key[c]] = entry[c] /\ locks[key[d]] = entry[d]
  BY DEF FInv, IInv, InUse
<1> QED BY <1>3, <1>4 DEF FInv, IInv, OneHolder

\* The change c is about to make, among the changes that are recorded.
LEMMA MadeBefore ==
  ASSUME FInv, NEW c \in Callers, NEW content, Makes(c, content),
         NEW d \in Callers, NEW i \in applied'[d]
  PROVE  /\ job' = job /\ i \in Indices
         /\ (d = c /\ i = n[c]) \/ i \in applied[d]
  BY TypeOfNow DEF FInv, TypeOK, Makes, Outcome

LEMMA WriteKeeps ==
  ASSUME OneLocation, FInv, NoLostChange, HasSeenAll, NEW c \in Callers, Write(c)
  PROVE  NoLostChange' /\ HasSeenAll'
<1> DEFINE T == Target(c)
<1>1. PICK content : /\ Makes(c, content)
                     /\ <<c, n[c]>> \in content \/ Now(c).op = "delete"
                     /\ UNCHANGED replaced \/ Replaces(c)
  BY DEF Write
<1>2. T \in Files /\ at[c] = "holding" BY TypeOfNow DEF Write, FInv
<1>3. \A x \in Files : /\ x # T => file'[x] = file[x] /\ replaced'[x] = replaced[x]
                       /\ replaced[x] \subseteq replaced'[x]
  BY <1>1, <1>2 DEF Makes, Replaces, FInv, TypeOK
<1>4. file'[T] = content BY <1>1, <1>2 DEF Makes, FInv, TypeOK
<1>6. ASSUME NEW d \in Callers, NEW i \in applied[d],
             job[d].changes[i].op # "delete", job[d].changes[i].file = T
      PROVE  <<d, i>> \in (IF content = None THEN {} ELSE content) \cup replaced'[T]
  <2>1. <<d, i>> \in Shown(T) \cup replaced[T] BY <1>6 DEF NoLostChange
  <2>2. CASE Now(c).op = "update"
    <3>1. did[c] = "compared" /\ Makes(c, seen[c][n[c]] \cup {<<c, n[c]>>})
      BY <2>2 DEF Write
    <3>2. content = seen[c][n[c]] \cup {<<c, n[c]>>}
      BY <1>1, <1>2, <3>1 DEF Makes, FInv, TypeOK
    <3>3. <<d, i>> \in seen[c][n[c]] \cup replaced[T]
      BY <1>6, <3>1 DEF HasSeenAll
    <3>4. content # None
      <4>1. seen[c][n[c]] \subseteq Changes /\ <<c, n[c]>> \in Changes
        BY <3>1, TypeOfNow DEF FInv, TypeOK, Compared, Contents
      <4> QED BY <3>2, <4>1, ContentAssumption
    <3> QED BY <1>2, <1>3, <3>2, <3>3, <3>4
  <2>3. CASE Now(c).op \in {"overwrite", "delete"}
    <3>1. Replaces(c) BY <2>3 DEF Write
    <3>2. replaced'[T] = replaced[T] \cup Shown(T)
      BY <1>2, <3>1 DEF Replaces, FInv, TypeOK
    <3> QED BY <2>1, <3>2
  <2>4. CASE Now(c).op = "add"
    <3>1. file[T] = None BY <2>4 DEF Write
    <3> QED BY <1>2, <1>3, <2>1, <3>1 DEF Shown
  <2>5. Now(c).op \in {"update", "overwrite", "add", "delete"} BY TypeOfNow DEF FInv, Change
  <2> QED BY <2>2, <2>3, <2>4, <2>5
<1>7. NoLostChange'
  <2> SUFFICES ASSUME NEW d \in Callers, NEW i \in applied'[d],
                      job'[d].changes[i].op # "delete"
               PROVE  <<d, i>> \in Shown(job[d].changes[i].file)'
                                  \cup replaced'[job'[d].changes[i].file]
    BY DEF NoLostChange
  <2>1. job' = job /\ ((d = c /\ i = n[c]) \/ i \in applied[d])
    BY <1>1, MadeBefore
  <2> DEFINE x == job[d].changes[i].file
  <2>2. Shown(x)' = IF file'[x] = None THEN {} ELSE file'[x]
    BY <2>1 DEF Shown
  <2>3. CASE d = c /\ i = n[c]
    <3>1. x = T /\ job[d].changes[i] = Now(c) BY <2>3 DEF Target, Now
    <3>2. <<d, i>> \in content BY <1>1, <2>1, <2>3, <3>1
    <3>3. content # None
      <4>1. Now(c).op # "delete" BY <2>1, <3>1
      <4>2. TypeOK' BY WriteType
      <4>3. <<c, n[c]>> \in Changes BY TypeOfNow DEF FInv
      <4>4. content = {<<c, n[c]>>} \/ (Now(c).op = "update" /\ did[c] = "compared"
                                        /\ content = seen[c][n[c]] \cup {<<c, n[c]>>})
        BY <1>2, <1>4, <4>1 DEF Write, Makes, FInv, TypeOK
      <4>5. did[c] = "compared" => seen[c][n[c]] \subseteq Changes
        BY TypeOfNow DEF FInv, TypeOK, Compared, Contents
      <4> QED BY <4>3, <4>4, <4>5, ContentAssumption
    <3> QED BY <1>4, <2>1, <2>2, <3>1, <3>2, <3>3
  <2>4. CASE ~(d = c /\ i = n[c])
    <3>1. i \in applied[d] BY <2>1, <2>4
    <3>2. CASE x = T BY <1>4, <1>6, <2>1, <2>2, <3>1, <3>2
    <3>3. CASE x # T
      <4>1. <<d, i>> \in Shown(x) \cup replaced[x] BY <2>1, <3>1 DEF NoLostChange
      <4>2. file'[x] = file[x] /\ replaced'[x] = replaced[x]
        <5>1. x \in Files BY <3>1, ChangesOf DEF FInv, Change
        <5> QED BY <1>3, <3>3, <5>1
      <4> QED BY <2>1, <2>2, <4>1, <4>2 DEF Shown
    <3> QED BY <3>2, <3>3
  <2> QED BY <2>3, <2>4
<1>8. HasSeenAll'
  <2> SUFFICES ASSUME NEW d \in Callers, did'[d] = "compared",
                      NEW e \in Callers, NEW i \in applied'[e],
                      job'[e].changes[i].file = Target(d)', job'[e].changes[i].op # "delete"
               PROVE  <<e, i>> \in (seen[d][n[d]])' \cup replaced'[Target(d)']
    BY DEF HasSeenAll
  <2>1. d # c /\ did[d] = "compared" /\ UNCHANGED <<job, n, seen>>
    BY <1>1 DEF Makes, Outcome, FInv, TypeOK
  <2>2. Target(d)' = Target(d) BY <2>1 DEF Target, Now
  <2>3. at[d] = "holding" BY <2>1 DEF FInv, Compared
  <2>4. Target(d) # T BY <1>2, <2>1, <2>3, OneHolderPerTarget
  <2>5. i \in applied[e]
    <3>1. (e = c /\ i = n[c]) \/ i \in applied[e] BY <1>1, MadeBefore
    <3>2. ~(e = c /\ i = n[c]) BY <2>1, <2>2, <2>4 DEF Target, Now
    <3> QED BY <3>1, <3>2
  <2>6. <<e, i>> \in seen[d][n[d]] \cup replaced[Target(d)]
    BY <2>1, <2>2, <2>5 DEF HasSeenAll
  <2>7. Target(d) \in Files BY TypeOfNow DEF FInv
  <2> QED BY <1>3, <2>1, <2>2, <2>6, <2>7
<1> QED BY <1>7, <1>8

\* A step that leaves the files and what was made of them alone.
LEMMA ReadOnlyKeeps ==
  ASSUME FInv, NoLostChange, HasSeenAll, [Next]_vars, UNCHANGED <<file, replaced, applied, job>>,
         \A c \in Callers : did'[c] = "compared" =>
           /\ UNCHANGED <<n[c], seen[c]>>
           /\ did[c] = "compared" \/ file[Target(c)] = seen[c][n[c]]
  PROVE  NoLostChange' /\ HasSeenAll'
<1>1. NoLostChange' BY DEF NoLostChange, Shown
<1>2. HasSeenAll'
  <2> SUFFICES ASSUME NEW c \in Callers, did'[c] = "compared",
                      NEW d \in Callers, NEW i \in applied[d],
                      job[d].changes[i].file = Target(c)', job[d].changes[i].op # "delete"
               PROVE  <<d, i>> \in (seen[c][n[c]])' \cup replaced[Target(c)']
    BY DEF HasSeenAll
  <2>1. n'[c] = n[c] /\ seen'[c] = seen[c] OBVIOUS
  <2>2. Target(c)' = Target(c) /\ (seen[c][n[c]])' = seen[c][n[c]]
    BY <2>1 DEF Target, Now
  <2>3. CASE did[c] = "compared" BY <2>2, <2>3 DEF HasSeenAll
  <2>4. CASE file[Target(c)] = seen[c][n[c]] /\ did[c] # "compared"
    <3>1. <<d, i>> \in Shown(Target(c)) \cup replaced[Target(c)] BY <2>2 DEF NoLostChange
    <3>2. Shown(Target(c)) \subseteq file[Target(c)] BY DEF Shown
    <3> QED BY <2>2, <2>4, <3>1, <3>2
  <2> QED BY <2>3, <2>4
<1> QED BY <1>1, <1>2

LEMMA OutsideKeeps ==
  ASSUME FInv, NoLostChange, HasSeenAll, NEW f \in Files, Outside(f)
  PROVE  NoLostChange' /\ HasSeenAll'
<1>1. UNCHANGED callVars BY DEF Outside
<1>2. \A x \in Files : /\ replaced[x] \subseteq replaced'[x]
                       /\ x = f => Shown(x) \subseteq replaced'[x]
                       /\ x # f => file'[x] = file[x]
  BY DEF Outside, FInv, TypeOK
<1>3. NoLostChange'
  <2> SUFFICES ASSUME NEW c \in Callers, NEW i \in applied[c], job[c].changes[i].op # "delete"
               PROVE  <<c, i>> \in Shown(job[c].changes[i].file)'
                                  \cup replaced'[job[c].changes[i].file]
    BY <1>1 DEF callVars, NoLostChange
  <2> DEFINE x == job[c].changes[i].file
  <2>1. x \in Files BY ChangesOf DEF FInv, Change
  <2>2. <<c, i>> \in Shown(x) \cup replaced[x] BY DEF NoLostChange
  <2>3. x # f => Shown(x)' = Shown(x) BY <1>1, <1>2, <2>1 DEF Shown, callVars
  <2> QED BY <1>2, <2>1, <2>2, <2>3
<1>4. HasSeenAll'
  <2> SUFFICES ASSUME NEW c \in Callers, did[c] = "compared",
                      NEW d \in Callers, NEW i \in applied[d],
                      job[d].changes[i].file = Target(c), job[d].changes[i].op # "delete"
               PROVE  <<d, i>> \in seen[c][n[c]] \cup replaced'[Target(c)]
    BY <1>1 DEF callVars, HasSeenAll, Target, Now
  <2>1. <<d, i>> \in seen[c][n[c]] \cup replaced[Target(c)] BY DEF HasSeenAll
  <2>2. Target(c) \in Files BY TypeOfNow DEF FInv
  <2> QED BY <1>2, <2>1, <2>2
<1> QED BY <1>3, <1>4

LEMMA KeptStep ==
  ASSUME OneLocation, FInv, NoLostChange, HasSeenAll, [Next]_vars
  PROVE  NoLostChange' /\ HasSeenAll'
<1> USE DEF FInv
<1>1. CASE UNCHANGED vars
  BY <1>1 DEF vars, callVars, NoLostChange, HasSeenAll, Shown, Target, Now
<1>2. ASSUME NEW c \in Callers,
             Ask(c) \/ Read(c) \/ Enter(c) \/ Acquire(c) \/ WriteFails(c)
               \/ Unlock(c) \/ Leave(c) \/ Interrupt(c)
      PROVE  NoLostChange' /\ HasSeenAll'
  <2>1. UNCHANGED <<file, replaced, applied, job>>
    BY <1>2 DEF Ask, Read, Enter, Acquire, WriteFails, Unlock, Leave, Interrupt, Ends,
                Outcome, callVars
  <2>2. ASSUME NEW d \in Callers, did'[d] = "compared"
        PROVE  did[d] = "compared" /\ UNCHANGED <<n[d], seen[d]>>
    <3>1. CASE Enter(c) \/ Acquire(c) \/ Unlock(c)
      BY <2>2, <3>1 DEF Enter, Acquire, Unlock, callVars
    <3>2. CASE Ask(c) BY <2>2, <3>2 DEF Ask, Ends, TypeOK
    <3>3. CASE Read(c)
      <4>1. did[c] # "compared" BY <3>3 DEF Read, Runs, Held, Compared
      <4> QED BY <2>2, <3>3, <4>1 DEF Read, Onward, Ends, TypeOK
    <3>4. CASE WriteFails(c) BY <2>2, <3>4 DEF WriteFails, Outcome, TypeOK
    <3>5. CASE Leave(c) BY <2>2, <3>5 DEF Leave, Ends, TypeOK
    <3>6. CASE Interrupt(c) BY <2>2, <3>6 DEF Interrupt, Ends, TypeOK
    <3> QED BY <1>2, <3>1, <3>2, <3>3, <3>4, <3>5, <3>6
  <2>3. [Next]_vars BY <1>2 DEF Next, Works
  <2> QED BY <2>1, <2>2, <2>3, ReadOnlyKeeps
<1>3. ASSUME NEW c \in Callers, Compare(c) PROVE NoLostChange' /\ HasSeenAll'
  <2>1. UNCHANGED <<file, replaced, applied, job, n, seen>>
        /\ did' = [did EXCEPT ![c] = IF IsUnchanged(c) THEN "compared" ELSE "failed"]
    BY <1>3 DEF Compare, Outcome
  <2>2. ASSUME NEW d \in Callers, did'[d] = "compared"
        PROVE  did[d] = "compared" \/ file[Target(d)] = seen[d][n[d]]
    BY <2>1, <2>2 DEF IsUnchanged, TypeOK
  <2> QED BY <2>1, <2>2, ReadOnlyKeeps
<1> QED BY <1>1, <1>2, <1>3, WriteKeeps, OutsideKeeps DEF Next, Works

\* While the calls come from one Location, of two updates made from the same
\* content one is refused: no change that was made is lost.
THEOREM NothingLost == OneLocation => (Spec => []NoLostChange)
<1> SUFFICES ASSUME OneLocation PROVE Spec => []NoLostChange
  OBVIOUS
<1>1. Init => NoLostChange /\ HasSeenAll
  BY DEF Init, NoLostChange, HasSeenAll
<1>2. FInv /\ NoLostChange /\ HasSeenAll /\ [Next]_vars => NoLostChange' /\ HasSeenAll'
  BY KeptStep
<1> QED BY <1>1, <1>2, MutationInductive, PTL DEF Spec
=============================================================================
