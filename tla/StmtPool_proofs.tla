-------------------------- MODULE StmtPool_proofs --------------------------
(***************************************************************************)
(* Proofs about StmtPool, for every number of threads and of statements:   *)
(* no permit is lost, and, as long as no more operations than statements   *)
(* are in progress and stmt_array[i] is read once, no operation is handed  *)
(* NULL and the array is full again whenever no call is in progress.       *)
(***************************************************************************)
EXTENDS StmtPool, FiniteSetTheorems, TLAPS

(***************************************************************************)
(* Types and permits.                                                      *)
(***************************************************************************)

\* A semaphore that is copied keeps its initial value.
PermitInv == PermitsNeverLost /\ (SharedSema \/ sem = N)

Inv == TypeOK /\ PermitInv

\* At first every place holds its statement and all permits are free.
LEMMA InitType == Init => TypeOK
<1> SUFFICES ASSUME Init PROVE TypeOK
  OBVIOUS
<1>1. oneLoad \in BOOLEAN /\ crowded \in BOOLEAN
  BY Zenon DEF Init
<1>2. /\ stmts \in [Slots -> Statements \cup {Null}]
      /\ sem \in Nat
      /\ pc \in [Threads -> {"idle"}]
      /\ index \in [Threads -> Slots]
      /\ stmt \in [Threads -> Statements \cup {Null}]
      /\ place \in [Threads -> 0..N]
  BY ConstantsAssumption DEF Init, Slots, Statements
<1> QED
  BY <1>1, <1>2 DEF TypeOK

\* Leaving an iteration keeps the loop variable within the array.
LEMMA NextIndexType ==
  ASSUME TypeOK, NEW t \in Threads, NEW from, NEW top, NEW exit,
         NextIndex(t, from, top, exit)
  PROVE  /\ index' \in [Threads -> Slots]
         /\ pc' = [pc EXCEPT ![t] = top] \/ pc' = [pc EXCEPT ![t] = exit]
<1>1. N \in Nat /\ index[t] \in 1..N /\ index \in [Threads -> 1..N]
  BY ConstantsAssumption DEF TypeOK, Slots
<1>2. CASE index[t] < N
  <2>1. index' = [index EXCEPT ![t] = @ + 1] /\ pc' = [pc EXCEPT ![t] = top]
    BY <1>2 DEF NextIndex
  <2> QED
    BY <1>1, <1>2, <2>1 DEF Slots
<1>3. CASE ~(index[t] < N)
  <2>1. index' = [index EXCEPT ![t] = 1] /\ pc' = [pc EXCEPT ![t] = exit]
    BY <1>3 DEF NextIndex
  <2> QED
    BY <1>1, <2>1 DEF Slots
<1> QED
  BY <1>2, <1>3

\* Every step keeps the types.
LEMMA TypeStep ==
  ASSUME TypeOK, [Next]_vars
  PROVE  TypeOK'
<1> USE ConstantsAssumption DEF TypeOK, Goto, Post
<1>0. oneLoad' \in BOOLEAN /\ crowded' \in BOOLEAN
  BY DEF Next, Begin, Step, vars
<1>1. ASSUME NEW t \in Threads, Begin(t) PROVE TypeOK'
  BY <1>0, <1>1 DEF Begin
<1>2. ASSUME NEW t \in Threads, SemaWait(t) PROVE TypeOK'
  BY <1>0, <1>2 DEF SemaWait
<1>3. ASSUME NEW t \in Threads, ScanEmpty(t) PROVE TypeOK'
  BY <1>0, <1>3, NextIndexType DEF ScanEmpty
<1>4. ASSUME NEW t \in Threads, ScanFound(t) PROVE TypeOK'
  BY <1>0, <1>4 DEF ScanFound
<1>5. ASSUME NEW t \in Threads, Load(t) PROVE TypeOK'
  BY <1>0, <1>5 DEF Load
<1>6. ASSUME NEW t \in Threads, Clear(t) PROVE TypeOK'
  BY <1>0, <1>6 DEF Clear, Slots
<1>7. ASSUME NEW t \in Threads, GiveUp(t) PROVE TypeOK'
  BY <1>0, <1>7 DEF GiveUp
<1>8. ASSUME NEW t \in Threads, EndUse(t) PROVE TypeOK'
  BY <1>0, <1>8 DEF EndUse
<1>9. ASSUME NEW t \in Threads, TestFull(t) PROVE TypeOK'
  BY <1>0, <1>9, NextIndexType DEF TestFull
<1>10. ASSUME NEW t \in Threads, TestEmpty(t) PROVE TypeOK'
  BY <1>0, <1>10 DEF TestEmpty
<1>11. ASSUME NEW t \in Threads, Store(t) PROVE TypeOK'
  BY <1>0, <1>11, NextIndexType DEF Store
<1>12. ASSUME NEW t \in Threads, Finish(t) PROVE TypeOK'
  BY <1>0, <1>12 DEF Finish
<1>13. CASE UNCHANGED vars
  BY <1>0, <1>13 DEF vars
<1> QED
  BY <1>1, <1>2, <1>3, <1>4, <1>5, <1>6, <1>7, <1>8, <1>9, <1>10, <1>11,
     <1>12, <1>13 DEF Next, Step

\* The threads that hold a permit are finitely many.
LEMMA HoldersFinite ==
  /\ IsFiniteSet(Holders)
  /\ Cardinality(Holders) \in Nat
<1>1. Holders \subseteq Threads
  BY DEF Holders
<1> QED
  BY <1>1, ConstantsAssumption, FS_Subset, FS_CardinalityType

\* At first all permits are free.
LEMMA InitPermits == Init => PermitInv
<1> SUFFICES ASSUME Init PROVE PermitInv
  OBVIOUS
<1>1. sem + Cardinality(Holders) >= N
  BY HoldersFinite, ConstantsAssumption DEF Init
<1> QED
  BY <1>1 DEF Init, PermitInv, PermitsNeverLost

\* A wait hands its permit to the thread, the last post hands it back, and
\* the other steps post or leave the permits alone.
LEMMA PermitStep ==
  ASSUME TypeOK, PermitInv, [Next]_vars
  PROVE  PermitInv'
<1> USE ConstantsAssumption DEF TypeOK, Post
<1>1. N \in Nat /\ Cardinality(Holders) \in Nat /\ IsFiniteSet(Holders)
  BY HoldersFinite
<1>2. ASSUME NEW t \in Threads, SemaWait(t) PROVE PermitInv'
  <2>1. t \notin Holders /\ Holders' = Holders \cup {t}
    BY <1>2 DEF SemaWait, Goto, Holders
  <2>2. Cardinality(Holders)' = Cardinality(Holders) + 1
    BY <1>1, <2>1, FS_AddElement
  <2> QED
    BY <1>1, <1>2, <2>2 DEF SemaWait, PermitInv, PermitsNeverLost
<1>3. ASSUME NEW t \in Threads, Finish(t) PROVE PermitInv'
  <2>1. t \in Holders /\ Holders' = Holders \ {t}
    BY <1>3 DEF Finish, Goto, Holders
  <2>2. Cardinality(Holders)' = Cardinality(Holders) - 1
    BY <1>1, <2>1, FS_RemoveElement
  <2>3. CASE SharedSema
    BY <1>1, <1>3, <2>2, <2>3 DEF Finish, PermitInv, PermitsNeverLost
  <2>4. CASE ~SharedSema
    <3>1. sem' = N
      BY <1>3, <2>4 DEF Finish, PermitInv
    <3>2. Cardinality(Holders)' \in Nat
      BY <1>1, <2>1, <2>2, FS_RemoveElement, FS_CardinalityType
    <3> QED
      BY <1>1, <3>1, <3>2 DEF PermitInv, PermitsNeverLost
  <2> QED
    BY <2>3, <2>4
<1>4. ASSUME Holders' = Holders, sem' = sem \/ Post PROVE PermitInv'
  BY <1>1, <1>4 DEF PermitInv, PermitsNeverLost
<1>5. ASSUME NEW t \in Threads, Begin(t) \/ ScanFound(t) \/ Load(t) \/ Clear(t)
                                \/ GiveUp(t) \/ EndUse(t) \/ TestEmpty(t)
      PROVE PermitInv'
  <2>1. Holders' = Holders
    BY <1>5 DEF Begin, ScanFound, Load, Clear, GiveUp, EndUse, TestEmpty,
                Goto, Holders
  <2>2. sem' = sem \/ Post
    BY <1>5 DEF Begin, ScanFound, Load, Clear, GiveUp, EndUse, TestEmpty
  <2> QED
    BY <1>4, <2>1, <2>2
<1>6. ASSUME NEW t \in Threads, ScanEmpty(t) \/ TestFull(t) \/ Store(t)
      PROVE PermitInv'
  <2>1. Holders' = Holders
    BY <1>6 DEF ScanEmpty, TestFull, Store, NextIndex, Holders
  <2>2. sem' = sem \/ Post
    BY <1>6 DEF ScanEmpty, TestFull, Store
  <2> QED
    BY <1>4, <2>1, <2>2
<1>7. CASE UNCHANGED vars
  BY <1>4, <1>7 DEF vars, Holders
<1> QED
  BY <1>2, <1>3, <1>5, <1>6, <1>7 DEF Next, Step

\* The types and the accounting of permits are invariant.
THEOREM Invariance == Spec => []Inv
<1>1. Init => Inv
  BY InitType, InitPermits DEF Inv
<1>2. Inv /\ [Next]_vars => Inv'
  BY TypeStep, PermitStep DEF Inv
<1> QED
  BY <1>1, <1>2, PTL DEF Spec

\* Every variable keeps its type; the scans stay within stmt_array.
THEOREM TypeCorrect == Spec => []TypeOK
BY Invariance, PTL DEF Inv

\* No interleaving of cpl_acquire_stmt and cpl_release_stmt loses a permit,
\* although neither of them has a lock that excludes anyone.
THEOREM PermitsAreNeverLost == Spec => []PermitsNeverLost
BY Invariance, PTL DEF Inv, PermitInv

(***************************************************************************)
(* No more operations than statements, one load per iteration.             *)
(*                                                                         *)
(* A thread has reached level i when its scan is at place i or has found   *)
(* its statement there.  A scan goes on from i to i + 1 only when place i  *)
(* is empty; then another thread, one that emptied it, is at level i too   *)
(* and not beyond.  So at most N threads reach level 1, at most N - 1      *)
(* level 2, ..., at most one level N, and none ever leaves the array.      *)
(***************************************************************************)

Few == oneLoad /\ ~crowded

Level(t) ==
  IF pc[t] \in {"scan", "load", "clear"} THEN index[t]
  ELSE IF pc[t] \in {"use", "test", "store", "post"} THEN place[t]
  ELSE IF pc[t] = "none" THEN N + 1
  ELSE 0

AtLeast(i) == {t \in Threads : Level(t) >= i}

\* As long as it is not crowded at most N operations are in progress.
ProgressInv == Cardinality(InProgress) <= N

LevelInv == \A i \in 1..(N + 1) : Cardinality(AtLeast(i)) <= N + 1 - i

\* t emptied place i and its release has still to visit it.
Covers(t, i) ==
  /\ place[t] = i
  /\ pc[t] = "use" \/ (pc[t] \in {"test", "store"} /\ index[t] <= i)

EmptyInv ==
  \A i \in Slots : stmts[i] = Null => \E t \in Threads : Covers(t, i)

\* Who has left the scan has a statement, and scans begin at the first place.
CallInv ==
  \A t \in Threads :
    /\ pc[t] # "load"
    /\ pc[t] \in {"clear", "use", "test", "store"} => stmt[t] # Null
    /\ pc[t] \in {"idle", "wait", "use", "post"} => index[t] = 1

FewInv == TypeOK /\ ProgressInv /\ LevelInv /\ EmptyInv /\ CallInv

\* Threads of a level are finitely many, and a level is a number.
LEMMA AtLeastFinite ==
  ASSUME NEW i
  PROVE  /\ IsFiniteSet(AtLeast(i))
         /\ Cardinality(AtLeast(i)) \in Nat
         /\ Cardinality(AtLeast(i)) <= Cardinality(Threads)
         /\ AtLeast(i) \in SUBSET Threads
<1>1. AtLeast(i) \in SUBSET Threads
  BY DEF AtLeast
<1> QED
  BY <1>1, ConstantsAssumption, FS_Subset, FS_CardinalityType

\* Levels are numbers.
LEMMA LevelNat ==
  ASSUME TypeOK, NEW t \in Threads
  PROVE  Level(t) \in Nat
BY ConstantsAssumption DEF TypeOK, Level, Slots

\* Nobody has run past the end of the array.
LEMMA NoneUnreached ==
  ASSUME LevelInv, NEW t \in Threads
  PROVE  pc[t] # "none"
<1> SUFFICES ASSUME pc[t] = "none" PROVE FALSE
  OBVIOUS
<1>1. N \in Nat
  BY ConstantsAssumption
<1>2. t \in AtLeast(N + 1)
  BY <1>1 DEF AtLeast, Level
<1>3. Cardinality(AtLeast(N + 1)) = 0
  BY <1>1, AtLeastFinite DEF LevelInv
<1> QED
  BY <1>2, <1>3, AtLeastFinite, FS_EmptySet

\* The operations in progress are finitely many.
LEMMA InProgressFinite ==
  /\ IsFiniteSet(InProgress)
  /\ Cardinality(InProgress) \in Nat
<1>1. InProgress \in SUBSET Threads
  BY DEF InProgress
<1> QED
  BY <1>1, ConstantsAssumption, FS_Subset, FS_CardinalityType

\* What is few now was few before: the build stays, the history remembers.
LEMMA FewBefore ==
  ASSUME TypeOK, [Next]_vars, Few'
  PROVE  Few
BY DEF TypeOK, Few, Next, Begin, Step, vars

\* At first nobody scans and no place is empty.
LEMMA InitFew == Init => FewInv
<1> SUFFICES ASSUME Init PROVE FewInv
  OBVIOUS
<1>1. N \in Nat
  BY ConstantsAssumption
<1>2. LevelInv
  <2> SUFFICES ASSUME NEW i \in 1..(N + 1)
               PROVE  Cardinality(AtLeast(i)) <= N + 1 - i
    BY DEF LevelInv
  <2>1. AtLeast(i) = {}
    BY <1>1 DEF AtLeast, Level, Init
  <2> QED
    BY <1>1, <2>1, FS_EmptySet
<1>3. EmptyInv /\ CallInv
  BY ConstantsAssumption DEF Init, EmptyInv, CallInv, Slots
<1>4. ProgressInv
  <2>1. InProgress = {}
    BY DEF Init, InProgress
  <2> QED
    BY <1>1, <2>1, FS_EmptySet DEF ProgressInv
<1> QED
  BY <1>2, <1>3, <1>4, InitType DEF FewInv

\* Levels that do not rise stay within their bounds.
LEMMA LevelsFall ==
  ASSUME TypeOK, TypeOK', LevelInv, \A t \in Threads : Level(t)' <= Level(t)
  PROVE  LevelInv'
<1> SUFFICES ASSUME NEW i \in 1..(N + 1)
             PROVE  Cardinality(AtLeast(i)') <= N + 1 - i
  BY DEF LevelInv
<1>1. N \in Nat /\ i \in Nat
  BY ConstantsAssumption
<1>2. \A t \in Threads : Level(t) \in Nat /\ Level(t)' \in Nat
  <2>1. \A t \in Threads : Level(t)' \in Nat
    BY ConstantsAssumption DEF TypeOK, Level, Slots
  <2> QED
    BY <2>1, LevelNat
<1>3. AtLeast(i)' \in SUBSET AtLeast(i)
  BY <1>1, <1>2 DEF AtLeast
<1>4. Cardinality(AtLeast(i)') <= Cardinality(AtLeast(i))
  BY <1>3, AtLeastFinite, FS_Subset
<1>5. Cardinality(AtLeast(i)') \in Nat
  BY <1>3, AtLeastFinite, FS_Subset, FS_CardinalityType
<1> QED
  BY <1>1, <1>4, <1>5, AtLeastFinite DEF LevelInv

\* An operation that begins unless it makes a crowd is one of at most N.
LEMMA ProgressStep ==
  ASSUME FewInv, Few', [Next]_vars
  PROVE  ProgressInv'
<1>1. N \in Nat /\ IsFiniteSet(InProgress) /\ Cardinality(InProgress) \in Nat
  BY ConstantsAssumption, InProgressFinite
<1>2. ASSUME NEW t \in Threads, Begin(t) PROVE ProgressInv'
  <2>1. InProgress' = InProgress \cup {t}
    BY <1>2 DEF Begin, Goto, InProgress, FewInv, TypeOK
  <2>2. ~(Cardinality(InProgress \cup {t}) > N)
    BY <1>2 DEF Begin, Few
  <2>3. Cardinality(InProgress \cup {t}) \in Nat
    BY <1>1, FS_AddElement
  <2> QED
    BY <1>1, <2>1, <2>2, <2>3 DEF ProgressInv
<1>3. ASSUME InProgress' \in SUBSET InProgress PROVE ProgressInv'
  <2>1. Cardinality(InProgress') <= Cardinality(InProgress)
    BY <1>1, <1>3, FS_Subset
  <2>2. Cardinality(InProgress') \in Nat
    BY <1>1, <1>3, FS_Subset, FS_CardinalityType
  <2> QED
    BY <1>1, <2>1, <2>2 DEF ProgressInv, FewInv
<1>4. ASSUME NEW t \in Threads, Step(t) PROVE InProgress' \in SUBSET InProgress
  <2>1. /\ pc[t] # "idle"
        /\ \A u \in Threads : u # t => pc'[u] = pc[u]
    BY <1>4 DEF Step, SemaWait, ScanEmpty, ScanFound, Load, Clear, GiveUp,
                EndUse, TestFull, TestEmpty, Store, Finish, NextIndex, Goto,
                FewInv, TypeOK
  <2> QED
    BY <2>1 DEF InProgress
<1>5. CASE UNCHANGED vars
  BY <1>3, <1>5 DEF vars, InProgress
<1> QED
  BY <1>2, <1>3, <1>4, <1>5 DEF Next

\* A new scan is one of at most N operations.
LEMMA LevelWait ==
  ASSUME FewInv, TypeOK', NEW t \in Threads, SemaWait(t)
  PROVE  LevelInv'
<1> SUFFICES ASSUME NEW i \in 1..(N + 1)
             PROVE  Cardinality(AtLeast(i)') <= N + 1 - i
  BY DEF LevelInv
<1>1. N \in Nat /\ i \in Nat /\ IsFiniteSet(InProgress)
      /\ Cardinality(InProgress) \in Nat
  BY ConstantsAssumption, InProgressFinite
<1>2. CASE i = 1
  <2>1. AtLeast(1)' \in SUBSET InProgress
    BY <1>1 DEF AtLeast, Level, InProgress, SemaWait, Goto, FewInv, TypeOK
  <2>2. Cardinality(AtLeast(1)') <= Cardinality(InProgress)
    BY <1>1, <2>1, FS_Subset
  <2>3. Cardinality(AtLeast(1)') \in Nat
    BY <1>1, <2>1, FS_Subset, FS_CardinalityType
  <2> QED
    BY <1>1, <1>2, <2>2, <2>3 DEF FewInv, ProgressInv
<1>3. CASE i > 1
  <2>1. Level(t)' = 1 /\ Level(t) = 0
    BY DEF SemaWait, Goto, Level, FewInv, CallInv, TypeOK
  <2>2. \A u \in Threads : u # t => Level(u)' = Level(u)
    BY DEF SemaWait, Goto, Level, FewInv, TypeOK
  <2>3. AtLeast(i)' = AtLeast(i)
    BY <1>1, <1>3, <2>1, <2>2 DEF AtLeast
  <2> QED
    BY <2>3 DEF FewInv, LevelInv
<1> QED
  BY <1>1, <1>2, <1>3

\* A scan goes on from an empty place: whoever emptied it stays behind.
LEMMA LevelScan ==
  ASSUME FewInv, TypeOK', NEW t \in Threads, ScanEmpty(t)
  PROVE  LevelInv'
<1> DEFINE k == index[t]
<1>1. N \in Nat /\ k \in 1..N /\ pc[t] = "scan" /\ stmts[k] = Null
  BY ConstantsAssumption DEF FewInv, TypeOK, Slots, ScanEmpty, NextIndex
<1>2. Level(t) = k /\ Level(t)' = k + 1
  <2>1. Level(t) = k
    BY <1>1 DEF Level
  <2>2. CASE k < N
    <3>1. pc'[t] = "scan" /\ index'[t] = k + 1
      BY <1>1, <2>2 DEF ScanEmpty, NextIndex, FewInv, TypeOK
    <3> QED
      BY <2>1, <3>1 DEF Level
  <2>3. CASE ~(k < N)
    <3>1. pc'[t] = "none" /\ k = N
      BY <1>1, <2>3 DEF ScanEmpty, NextIndex, FewInv, TypeOK
    <3> QED
      BY <2>1, <3>1 DEF Level
  <2> QED
    BY <2>2, <2>3
<1>3. \A u \in Threads : u # t => Level(u)' = Level(u)
  BY DEF ScanEmpty, NextIndex, Level, FewInv, TypeOK
<1>4. PICK u \in Threads : Covers(u, k)
  BY <1>1 DEF FewInv, EmptyInv, Slots
<1>5. u # t /\ Level(u) = k
  BY <1>1, <1>4 DEF Covers, Level
<1>6. \A v \in Threads : Level(v) \in Nat
  BY LevelNat DEF FewInv
<1> SUFFICES ASSUME NEW i \in 1..(N + 1)
             PROVE  Cardinality(AtLeast(i)') <= N + 1 - i
  BY DEF LevelInv
<1>7. CASE i # k + 1
  <2>1. AtLeast(i)' = AtLeast(i)
    BY <1>1, <1>2, <1>3, <1>6, <1>7 DEF AtLeast
  <2> QED
    BY <2>1 DEF FewInv, LevelInv
<1>8. CASE i = k + 1
  <2> DEFINE A == AtLeast(k + 1)
  <2>1. IsFiniteSet(A) /\ Cardinality(A) \in Nat
    BY AtLeastFinite
  <2>2. t \notin A /\ u \notin A /\ A \cup {t} = AtLeast(i)'
    BY <1>1, <1>2, <1>3, <1>5, <1>6, <1>8 DEF AtLeast
  <2>3. /\ IsFiniteSet(A \cup {t})
        /\ Cardinality(A \cup {t}) = Cardinality(A) + 1
    BY <2>1, <2>2, FS_AddElement
  <2>4. /\ IsFiniteSet(A \cup {t} \cup {u})
        /\ Cardinality(A \cup {t} \cup {u}) = Cardinality(A) + 2
    BY <1>5, <2>1, <2>2, <2>3, FS_AddElement
  <2>5. A \cup {t} \cup {u} \in SUBSET AtLeast(k)
    BY <1>1, <1>2, <1>5, <1>6 DEF AtLeast
  <2>6. Cardinality(A) + 2 <= Cardinality(AtLeast(k))
    BY <2>4, <2>5, AtLeastFinite, FS_Subset
  <2>7. Cardinality(AtLeast(k)) <= N + 1 - k /\ Cardinality(AtLeast(k)) \in Nat
    BY <1>1, AtLeastFinite DEF FewInv, LevelInv
  <2> HIDE DEF A, k
  <2> QED
    BY <1>1, <1>8, <2>1, <2>2, <2>3, <2>6, <2>7
<1> QED
  BY <1>7, <1>8

\* Every step keeps the levels within their bounds.
LEMMA LevelStep ==
  ASSUME Few, FewInv, TypeOK', [Next]_vars
  PROVE  LevelInv'
<1>1. ASSUME NEW t \in Threads, SemaWait(t) PROVE LevelInv'
  BY <1>1, LevelWait
<1>2. ASSUME NEW t \in Threads, ScanEmpty(t) PROVE LevelInv'
  BY <1>2, LevelScan
<1>3. ASSUME NEW t \in Threads, Load(t) \/ GiveUp(t) PROVE LevelInv'
  BY <1>3, NoneUnreached DEF Load, GiveUp, Goto, FewInv, CallInv
<1>4. ASSUME \A u \in Threads : Level(u)' <= Level(u) PROVE LevelInv'
  BY <1>4, LevelsFall DEF FewInv
<1>5. \A u \in Threads : Level(u) \in Nat
  BY LevelNat DEF FewInv
<1>6. ASSUME NEW t \in Threads, Begin(t) \/ ScanFound(t) \/ Clear(t)
                                \/ EndUse(t) \/ TestEmpty(t)
      PROVE LevelInv'
  <2>1. \A u \in Threads : Level(u)' = Level(u)
    BY <1>6 DEF Begin, ScanFound, Clear, EndUse, TestEmpty, Goto, Level,
                FewInv, TypeOK
  <2> QED
    BY <1>4, <1>5, <2>1
<1>7. ASSUME NEW t \in Threads, TestFull(t) \/ Store(t) PROVE LevelInv'
  <2>1. \A u \in Threads : Level(u)' = Level(u)
    BY <1>7 DEF TestFull, Store, NextIndex, Level, FewInv, TypeOK
  <2> QED
    BY <1>4, <1>5, <2>1
<1>8. ASSUME NEW t \in Threads, Finish(t) PROVE LevelInv'
  <2>1. Level(t)' = 0
    BY <1>8 DEF Finish, Goto, Level, FewInv, TypeOK
  <2>2. \A u \in Threads : u # t => Level(u)' = Level(u)
    BY <1>8 DEF Finish, Goto, Level, FewInv, TypeOK
  <2> QED
    BY <1>4, <1>5, <2>1, <2>2
<1>9. CASE UNCHANGED vars
  <2>1. \A u \in Threads : Level(u)' = Level(u)
    BY <1>9 DEF vars, Level
  <2> QED
    BY <1>4, <1>5, <2>1
<1> QED
  BY <1>1, <1>2, <1>3, <1>6, <1>7, <1>8, <1>9 DEF Next, Step

\* Who has left the scan keeps a statement.
LEMMA CallStep ==
  ASSUME Few, FewInv, TypeOK', [Next]_vars
  PROVE  CallInv'
<1> USE DEF FewInv, TypeOK, CallInv, Goto
<1>1. ASSUME NEW t \in Threads, Begin(t) \/ SemaWait(t) \/ Clear(t)
                                \/ EndUse(t) \/ TestEmpty(t) \/ Finish(t)
      PROVE CallInv'
  BY <1>1 DEF Begin, SemaWait, Clear, EndUse, TestEmpty, Finish
<1>2. ASSUME NEW t \in Threads, ScanFound(t) PROVE CallInv'
  BY <1>2 DEF ScanFound, Few
<1>3. ASSUME NEW t \in Threads, ScanEmpty(t) \/ TestFull(t) \/ Store(t)
      PROVE CallInv'
  <2>1. /\ pc[t] \in {"scan", "test", "store"}
        /\ stmt' = stmt
        /\ \A u \in Threads : u # t => pc'[u] = pc[u] /\ index'[u] = index[u]
    BY <1>3 DEF ScanEmpty, TestFull, Store, NextIndex
  <2>2. /\ pc[t] = "scan" => pc'[t] \in {"scan", "none"}
        /\ pc[t] # "scan" => pc'[t] \in {"test", "post"}
        /\ pc'[t] = "post" => index'[t] = 1
    BY <1>3 DEF ScanEmpty, TestFull, Store, NextIndex
  <2> QED
    BY <2>1, <2>2
<1>4. ASSUME NEW t \in Threads, Load(t) \/ GiveUp(t) PROVE CallInv'
  BY <1>4, NoneUnreached DEF Load, GiveUp
<1>5. CASE UNCHANGED vars
  BY <1>5 DEF vars
<1> QED
  BY <1>1, <1>2, <1>3, <1>4, <1>5 DEF Next, Step

\* An empty place is one that a call in progress will still fill.
LEMMA EmptyStep ==
  ASSUME Few, FewInv, TypeOK', [Next]_vars
  PROVE  EmptyInv'
<1> SUFFICES ASSUME NEW i \in Slots, stmts'[i] = Null
             PROVE  \E t \in Threads : Covers(t, i)'
  BY DEF EmptyInv
<1> USE DEF FewInv, TypeOK, Goto
<1>1. i \in 1..N /\ N \in Nat
  BY ConstantsAssumption DEF Slots
<1>2. ASSUME NEW t \in Threads, Clear(t) PROVE \E u \in Threads : Covers(u, i)'
  <2>1. CASE i = index[t]
    <3>1. Covers(t, i)'
      BY <1>2, <2>1 DEF Clear, Covers
    <3> QED
      BY <3>1
  <2>2. CASE i # index[t]
    <3>1. stmts[i] = Null
      BY <1>2, <2>2 DEF Clear
    <3>2. PICK u \in Threads : Covers(u, i)
      BY <3>1 DEF EmptyInv
    <3>3. Covers(u, i)'
      BY <1>2, <3>2 DEF Clear, Covers
    <3> QED
      BY <3>3
  <2> QED
    BY <2>1, <2>2
<1>3. ASSUME stmts[i] = Null,
             \A u \in Threads : Covers(u, i) => Covers(u, i)'
      PROVE  \E u \in Threads : Covers(u, i)'
  BY <1>3 DEF EmptyInv
<1>4. ASSUME NEW t \in Threads, Begin(t) \/ SemaWait(t) \/ ScanFound(t)
                                \/ EndUse(t) \/ TestEmpty(t) \/ Finish(t)
      PROVE  \E u \in Threads : Covers(u, i)'
  <2>1. stmts[i] = Null
    BY <1>4 DEF Begin, SemaWait, ScanFound, EndUse, TestEmpty, Finish
  <2>2. \A u \in Threads : Covers(u, i) => Covers(u, i)'
    BY <1>1, <1>4 DEF Begin, SemaWait, ScanFound, EndUse, TestEmpty, Finish,
                      Covers, CallInv
  <2> QED
    BY <1>3, <2>1, <2>2
<1>5. ASSUME NEW t \in Threads, ScanEmpty(t)
      PROVE  \E u \in Threads : Covers(u, i)'
  <2>1. stmts[i] = Null
    BY <1>5 DEF ScanEmpty
  <2>2. \A u \in Threads : Covers(u, i) => Covers(u, i)'
    BY <1>1, <1>5 DEF ScanEmpty, NextIndex, Covers
  <2> QED
    BY <1>3, <2>1, <2>2
<1>6. ASSUME NEW t \in Threads, TestFull(t) \/ Store(t)
      PROVE  \E u \in Threads : Covers(u, i)'
  <2>1. stmts[i] = Null /\ index[t] # i
    <3>1. CASE TestFull(t)
      BY <1>1, <3>1 DEF TestFull
    <3>2. CASE Store(t)
      BY <1>1, <3>2 DEF Store, NextIndex, CallInv
    <3> QED
      BY <1>6, <3>1, <3>2
  <2>2. /\ pc[t] \in {"test", "store"} /\ place' = place
        /\ \A u \in Threads : u # t => pc'[u] = pc[u] /\ index'[u] = index[u]
    BY <1>6 DEF TestFull, Store, NextIndex
  <2>3. index[t] < N => pc'[t] = "test" /\ index'[t] = index[t] + 1
    BY <1>6 DEF TestFull, Store, NextIndex
  <2>4. \A u \in Threads : Covers(u, i) => Covers(u, i)'
    BY <1>1, <2>1, <2>2, <2>3 DEF Covers, Slots
  <2> QED
    BY <1>3, <2>1, <2>4
<1>7. ASSUME NEW t \in Threads, Load(t) \/ GiveUp(t)
      PROVE  \E u \in Threads : Covers(u, i)'
  BY <1>7, NoneUnreached DEF Load, GiveUp, CallInv
<1>8. CASE UNCHANGED vars
  BY <1>3, <1>8 DEF vars, Covers
<1> QED
  BY <1>2, <1>4, <1>5, <1>6, <1>7, <1>8 DEF Next, Step

\* The levels, the empty places and the statements in use are invariant as
\* long as few operations are in progress.
THEOREM FewInvariance == Spec => [](TypeOK /\ (Few => FewInv))
<1>1. Init => TypeOK /\ (Few => FewInv)
  BY InitFew, InitType
<1>2. TypeOK /\ (Few => FewInv) /\ [Next]_vars => (TypeOK /\ (Few => FewInv))'
  <2> SUFFICES ASSUME TypeOK, Few => FewInv, [Next]_vars
               PROVE  (TypeOK /\ (Few => FewInv))'
    OBVIOUS
  <2>1. TypeOK'
    BY TypeStep
  <2>2. ASSUME Few' PROVE FewInv'
    <3>1. Few /\ FewInv
      BY <2>2, FewBefore
    <3> QED
      BY <2>1, <2>2, <3>1, ProgressStep, LevelStep, CallStep, EmptyStep
         DEF FewInv
  <2> QED
    BY <2>1, <2>2
<1> QED
  BY <1>1, <1>2, PTL DEF Spec

\* As long as no more than CPL_STMT_MAX operations are in progress at once,
\* and one load is made per iteration, no operation is handed NULL, although
\* the lock is a copy and release does not return.
THEOREM AlwaysServed == Spec => []Served
<1>1. TypeOK /\ (Few => FewInv) => Served
  BY DEF Few, FewInv, CallInv, Served
<1> QED
  BY <1>1, FewInvariance, PTL

\* Then, too, no place of the array is empty when no call is in progress.
THEOREM AlwaysRefilled == Spec => []Refilled
<1>1. TypeOK /\ (Few => FewInv) => Refilled
  BY DEF Few, FewInv, EmptyInv, Covers, Refilled, InProgress
<1> QED
  BY <1>1, FewInvariance, PTL

=============================================================================
