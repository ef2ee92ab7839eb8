-------------------------- MODULE Lifecycle_proofs --------------------------
(***************************************************************************)
(* Proofs about Lifecycle, for any number of threads and backends.         *)
(***************************************************************************)
EXTENDS Lifecycle, TLAPS

\* Where the holder of cpl_backend_lock is.
InLock(t) == pc[t] \in {"checkAttach", "openSem", "setInitialized",
                        "checkDetach", "destroy", "forget", "close"}

LockInv == \A t \in Threads : InLock(t) => lock = t

\* What cpl_initialized says of the other two globals, and what the holder of
\* the lock has made of them.
GlobalsInv ==
  /\ backend \in created \cup {Null}
  /\ initialized => backend \in Backends \ destroyed /\ semOpen
  /\ ~initialized /\ backend # Null =>
       \E t \in Threads : pc[t] \in {"openSem", "setInitialized", "destroy",
                                     "forget"}
  /\ \A t \in Threads :
       /\ pc[t] \in {"openSem", "setInitialized", "destroy", "forget", "close"}
            => ~initialized
       /\ pc[t] \in {"openSem", "setInitialized", "destroy"}
            => backend \in Backends \ destroyed
       /\ pc[t] = "setInitialized" => semOpen
       /\ pc[t] = "close" => backend = Null

\* The argument of a cpl_attach that has not set the pointer yet is a new
\* backend.
ArgInv ==
  \A t \in Threads : pc[t] \in {"attach", "checkAttach"} /\ arg[t] # Null =>
    /\ arg[t] \in created \ destroyed
    /\ arg[t] # backend
    /\ \A u \in Threads : u # t /\ pc[u] \in {"attach", "checkAttach"}
         => arg[u] # arg[t]

OperateInv ==
  "overlap" \notin misuses =>
    \A t \in Threads : Operating(t) =>
      /\ pc[t] = "operate" => initialized
      /\ \A u \in Threads : ~Detaching(u)

\* Where nobody detaches too often, who is attached, or about to detach, is
\* one thread, and the library is initialized.
AttachedInv ==
  "detach" \notin misuses =>
    \A t \in Threads :
      /\ attached[t] \/ pc[t] \in {"detach", "checkDetach"} => initialized
      /\ attached[t] => ~Detaching(t)
      /\ \A u \in Threads :
           (attached[t] \/ Detaching(t)) /\ (attached[u] \/ Detaching(u))
             => t = u

Inv == TypeOK /\ LockInv /\ GlobalsInv /\ ArgInv /\ OperateInv /\ AttachedInv

\* At first the library is not initialized and nobody is inside it.
LEMMA InitInv == Init => Inv
BY ConstantsAssumption
   DEF Init, Inv, TypeOK, LockInv, GlobalsInv, ArgInv, OperateInv,
       AttachedInv, InLock, Operating, Detaching

\* Every step keeps the types.
LEMMA TypeStep ==
  ASSUME Inv, [Next]_vars
  PROVE  TypeOK'
<1> USE ConstantsAssumption
    DEF Inv, TypeOK, GlobalsInv, Goto, Lock, library, callers
<1>1. ASSUME NEW t \in Threads, BeginAttach(t) PROVE TypeOK'
  BY <1>1 DEF BeginAttach
<1>2. ASSUME NEW t \in Threads, AttachLock(t) PROVE TypeOK'
  BY <1>2 DEF AttachLock
<1>3. ASSUME NEW t \in Threads, AttachNull(t) PROVE TypeOK'
  BY <1>3 DEF AttachNull
<1>4. ASSUME NEW t \in Threads, AttachRejected(t) PROVE TypeOK'
  BY <1>4 DEF AttachRejected
<1>5. ASSUME NEW t \in Threads, SetBackend(t) PROVE TypeOK'
  BY <1>5 DEF SetBackend
<1>6. ASSUME NEW t \in Threads, OpenSemFails(t) PROVE TypeOK'
  BY <1>6 DEF OpenSemFails
<1>7. ASSUME NEW t \in Threads, OpenSem(t) PROVE TypeOK'
  BY <1>7 DEF OpenSem
<1>8. ASSUME NEW t \in Threads, SetInitialized(t) PROVE TypeOK'
  BY <1>8 DEF SetInitialized
<1>9. ASSUME NEW t \in Threads, BeginDetach(t) PROVE TypeOK'
  BY <1>9 DEF BeginDetach
<1>10. ASSUME NEW t \in Threads, DetachLock(t) PROVE TypeOK'
  BY <1>10 DEF DetachLock
<1>11. ASSUME NEW t \in Threads, DetachRefused(t) PROVE TypeOK'
  BY <1>11 DEF DetachRefused
<1>12. ASSUME NEW t \in Threads, ClearInitialized(t) PROVE TypeOK'
  BY <1>12 DEF ClearInitialized
<1>13. ASSUME NEW t \in Threads, Destroy(t) PROVE TypeOK'
  BY <1>13 DEF Destroy
<1>14. ASSUME NEW t \in Threads, Forget(t) PROVE TypeOK'
  BY <1>14 DEF Forget
<1>15. ASSUME NEW t \in Threads, CloseSem(t) PROVE TypeOK'
  BY <1>15 DEF CloseSem
<1>16. ASSUME NEW t \in Threads, BeginOperation(t) PROVE TypeOK'
  BY <1>16 DEF BeginOperation
<1>17. ASSUME NEW t \in Threads, EnsureFails(t) PROVE TypeOK'
  BY <1>17 DEF EnsureFails
<1>18. ASSUME NEW t \in Threads, EnsurePasses(t) PROVE TypeOK'
  BY <1>18 DEF EnsurePasses
<1>19. ASSUME NEW t \in Threads, Operate(t) PROVE TypeOK'
  BY <1>19 DEF Operate
<1>20. CASE UNCHANGED vars
  BY <1>20 DEF vars
<1> QED
  BY <1>1, <1>2, <1>3, <1>4, <1>5, <1>6, <1>7, <1>8, <1>9, <1>10, <1>11,
     <1>12, <1>13, <1>14, <1>15, <1>16, <1>17, <1>18, <1>19, <1>20
     DEF Next, Step

\* Only the holder of the lock is where the lock is needed.
LEMMA LockStep ==
  ASSUME Inv, [Next]_vars
  PROVE  LockInv'
<1> USE ConstantsAssumption
    DEF Inv, TypeOK, LockInv, InLock, Goto, Lock, library, callers
<1>1. ASSUME NEW t \in Threads, BeginAttach(t) PROVE LockInv'
  BY <1>1 DEF BeginAttach
<1>2. ASSUME NEW t \in Threads, AttachLock(t) PROVE LockInv'
  BY <1>2 DEF AttachLock
<1>3. ASSUME NEW t \in Threads, AttachNull(t) PROVE LockInv'
  BY <1>3 DEF AttachNull
<1>4. ASSUME NEW t \in Threads, AttachRejected(t) PROVE LockInv'
  BY <1>4 DEF AttachRejected
<1>5. ASSUME NEW t \in Threads, SetBackend(t) PROVE LockInv'
  BY <1>5 DEF SetBackend
<1>6. ASSUME NEW t \in Threads, OpenSemFails(t) PROVE LockInv'
  BY <1>6 DEF OpenSemFails
<1>7. ASSUME NEW t \in Threads, OpenSem(t) PROVE LockInv'
  BY <1>7 DEF OpenSem
<1>8. ASSUME NEW t \in Threads, SetInitialized(t) PROVE LockInv'
  BY <1>8 DEF SetInitialized
<1>9. ASSUME NEW t \in Threads, BeginDetach(t) PROVE LockInv'
  BY <1>9 DEF BeginDetach
<1>10. ASSUME NEW t \in Threads, DetachLock(t) PROVE LockInv'
  BY <1>10 DEF DetachLock
<1>11. ASSUME NEW t \in Threads, DetachRefused(t) PROVE LockInv'
  BY <1>11 DEF DetachRefused
<1>12. ASSUME NEW t \in Threads, ClearInitialized(t) PROVE LockInv'
  BY <1>12 DEF ClearInitialized
<1>13. ASSUME NEW t \in Threads, Destroy(t) PROVE LockInv'
  BY <1>13 DEF Destroy
<1>14. ASSUME NEW t \in Threads, Forget(t) PROVE LockInv'
  BY <1>14 DEF Forget
<1>15. ASSUME NEW t \in Threads, CloseSem(t) PROVE LockInv'
  BY <1>15 DEF CloseSem
<1>16. ASSUME NEW t \in Threads, BeginOperation(t) PROVE LockInv'
  BY <1>16 DEF BeginOperation
<1>17. ASSUME NEW t \in Threads, EnsureFails(t) PROVE LockInv'
  BY <1>17 DEF EnsureFails
<1>18. ASSUME NEW t \in Threads, EnsurePasses(t) PROVE LockInv'
  BY <1>18 DEF EnsurePasses
<1>19. ASSUME NEW t \in Threads, Operate(t) PROVE LockInv'
  BY <1>19 DEF Operate
<1>20. CASE UNCHANGED vars
  BY <1>20 DEF vars
<1> QED
  BY <1>1, <1>2, <1>3, <1>4, <1>5, <1>6, <1>7, <1>8, <1>9, <1>10, <1>11,
     <1>12, <1>13, <1>14, <1>15, <1>16, <1>17, <1>18, <1>19, <1>20
     DEF Next, Step

\* The flag, the pointer and the semaphore change together, under the lock.
LEMMA GlobalsStep ==
  ASSUME Inv, [Next]_vars
  PROVE  GlobalsInv'
<1> USE ConstantsAssumption
    DEF Inv, TypeOK, LockInv, GlobalsInv, ArgInv, InLock, Goto, Lock, library,
        callers
<1>1. ASSUME NEW t \in Threads, BeginAttach(t) PROVE GlobalsInv'
  BY <1>1 DEF BeginAttach
<1>2. ASSUME NEW t \in Threads, AttachLock(t) PROVE GlobalsInv'
  BY <1>2 DEF AttachLock
<1>3. ASSUME NEW t \in Threads, AttachNull(t) PROVE GlobalsInv'
  BY <1>3 DEF AttachNull
<1>4. ASSUME NEW t \in Threads, AttachRejected(t) PROVE GlobalsInv'
  BY <1>4 DEF AttachRejected
<1>5. ASSUME NEW t \in Threads, SetBackend(t) PROVE GlobalsInv'
  BY <1>5 DEF SetBackend
<1>6. ASSUME NEW t \in Threads, OpenSemFails(t) PROVE GlobalsInv'
  BY <1>6 DEF OpenSemFails
<1>7. ASSUME NEW t \in Threads, OpenSem(t) PROVE GlobalsInv'
  BY <1>7 DEF OpenSem
<1>8. ASSUME NEW t \in Threads, SetInitialized(t) PROVE GlobalsInv'
  BY <1>8 DEF SetInitialized
<1>9. ASSUME NEW t \in Threads, BeginDetach(t) PROVE GlobalsInv'
  BY <1>9 DEF BeginDetach
<1>10. ASSUME NEW t \in Threads, DetachLock(t) PROVE GlobalsInv'
  BY <1>10 DEF DetachLock
<1>11. ASSUME NEW t \in Threads, DetachRefused(t) PROVE GlobalsInv'
  BY <1>11 DEF DetachRefused
<1>12. ASSUME NEW t \in Threads, ClearInitialized(t) PROVE GlobalsInv'
  BY <1>12 DEF ClearInitialized
<1>13. ASSUME NEW t \in Threads, Destroy(t) PROVE GlobalsInv'
  BY <1>13 DEF Destroy
<1>14. ASSUME NEW t \in Threads, Forget(t) PROVE GlobalsInv'
  BY <1>14 DEF Forget
<1>15. ASSUME NEW t \in Threads, CloseSem(t) PROVE GlobalsInv'
  BY <1>15 DEF CloseSem
<1>16. ASSUME NEW t \in Threads, BeginOperation(t) PROVE GlobalsInv'
  BY <1>16 DEF BeginOperation
<1>17. ASSUME NEW t \in Threads, EnsureFails(t) PROVE GlobalsInv'
  BY <1>17 DEF EnsureFails
<1>18. ASSUME NEW t \in Threads, EnsurePasses(t) PROVE GlobalsInv'
  BY <1>18 DEF EnsurePasses
<1>19. ASSUME NEW t \in Threads, Operate(t) PROVE GlobalsInv'
  BY <1>19 DEF Operate
<1>20. CASE UNCHANGED vars
  BY <1>20 DEF vars
<1> QED
  BY <1>1, <1>2, <1>3, <1>4, <1>5, <1>6, <1>7, <1>8, <1>9, <1>10, <1>11,
     <1>12, <1>13, <1>14, <1>15, <1>16, <1>17, <1>18, <1>19, <1>20
     DEF Next, Step

\* A new backend stays with the thread that attaches it.
LEMMA ArgStep ==
  ASSUME Inv, [Next]_vars
  PROVE  ArgInv'
<1> USE ConstantsAssumption
    DEF Inv, TypeOK, LockInv, GlobalsInv, ArgInv, InLock, Goto, Lock, library,
        callers
<1>1. ASSUME NEW t \in Threads, BeginAttach(t) PROVE ArgInv'
  BY <1>1 DEF BeginAttach
<1>2. ASSUME NEW t \in Threads, AttachLock(t) PROVE ArgInv'
  BY <1>2 DEF AttachLock
<1>3. ASSUME NEW t \in Threads, AttachNull(t) PROVE ArgInv'
  BY <1>3 DEF AttachNull
<1>4. ASSUME NEW t \in Threads, AttachRejected(t) PROVE ArgInv'
  BY <1>4 DEF AttachRejected
<1>5. ASSUME NEW t \in Threads, SetBackend(t) PROVE ArgInv'
  BY <1>5 DEF SetBackend
<1>6. ASSUME NEW t \in Threads, OpenSemFails(t) PROVE ArgInv'
  BY <1>6 DEF OpenSemFails
<1>7. ASSUME NEW t \in Threads, OpenSem(t) PROVE ArgInv'
  BY <1>7 DEF OpenSem
<1>8. ASSUME NEW t \in Threads, SetInitialized(t) PROVE ArgInv'
  BY <1>8 DEF SetInitialized
<1>9. ASSUME NEW t \in Threads, BeginDetach(t) PROVE ArgInv'
  BY <1>9 DEF BeginDetach
<1>10. ASSUME NEW t \in Threads, DetachLock(t) PROVE ArgInv'
  BY <1>10 DEF DetachLock
<1>11. ASSUME NEW t \in Threads, DetachRefused(t) PROVE ArgInv'
  BY <1>11 DEF DetachRefused
<1>12. ASSUME NEW t \in Threads, ClearInitialized(t) PROVE ArgInv'
  BY <1>12 DEF ClearInitialized
<1>13. ASSUME NEW t \in Threads, Destroy(t) PROVE ArgInv'
  BY <1>13 DEF Destroy
<1>14. ASSUME NEW t \in Threads, Forget(t) PROVE ArgInv'
  BY <1>14 DEF Forget
<1>15. ASSUME NEW t \in Threads, CloseSem(t) PROVE ArgInv'
  BY <1>15 DEF CloseSem
<1>16. ASSUME NEW t \in Threads, BeginOperation(t) PROVE ArgInv'
  BY <1>16 DEF BeginOperation
<1>17. ASSUME NEW t \in Threads, EnsureFails(t) PROVE ArgInv'
  BY <1>17 DEF EnsureFails
<1>18. ASSUME NEW t \in Threads, EnsurePasses(t) PROVE ArgInv'
  BY <1>18 DEF EnsurePasses
<1>19. ASSUME NEW t \in Threads, Operate(t) PROVE ArgInv'
  BY <1>19 DEF Operate
<1>20. CASE UNCHANGED vars
  BY <1>20 DEF vars
<1> QED
  BY <1>1, <1>2, <1>3, <1>4, <1>5, <1>6, <1>7, <1>8, <1>9, <1>10, <1>11,
     <1>12, <1>13, <1>14, <1>15, <1>16, <1>17, <1>18, <1>19, <1>20
     DEF Next, Step

\* The library stays initialized during an operation.
LEMMA OperateStep ==
  ASSUME Inv, [Next]_vars
  PROVE  OperateInv'
<1> USE ConstantsAssumption
    DEF Inv, TypeOK, OperateInv, Operating, Detaching, Goto, Lock, library,
        callers
<1>1. ASSUME NEW t \in Threads, BeginAttach(t) PROVE OperateInv'
  BY <1>1 DEF BeginAttach
<1>2. ASSUME NEW t \in Threads, AttachLock(t) PROVE OperateInv'
  BY <1>2 DEF AttachLock
<1>3. ASSUME NEW t \in Threads, AttachNull(t) PROVE OperateInv'
  BY <1>3 DEF AttachNull
<1>4. ASSUME NEW t \in Threads, AttachRejected(t) PROVE OperateInv'
  BY <1>4 DEF AttachRejected
<1>5. ASSUME NEW t \in Threads, SetBackend(t) PROVE OperateInv'
  BY <1>5 DEF SetBackend
<1>6. ASSUME NEW t \in Threads, OpenSemFails(t) PROVE OperateInv'
  BY <1>6 DEF OpenSemFails
<1>7. ASSUME NEW t \in Threads, OpenSem(t) PROVE OperateInv'
  BY <1>7 DEF OpenSem
<1>8. ASSUME NEW t \in Threads, SetInitialized(t) PROVE OperateInv'
  BY <1>8 DEF SetInitialized
<1>9. ASSUME NEW t \in Threads, BeginDetach(t) PROVE OperateInv'
  BY <1>9 DEF BeginDetach
<1>10. ASSUME NEW t \in Threads, DetachLock(t) PROVE OperateInv'
  BY <1>10 DEF DetachLock
<1>11. ASSUME NEW t \in Threads, DetachRefused(t) PROVE OperateInv'
  BY <1>11 DEF DetachRefused
<1>12. ASSUME NEW t \in Threads, ClearInitialized(t) PROVE OperateInv'
  BY <1>12 DEF ClearInitialized
<1>13. ASSUME NEW t \in Threads, Destroy(t) PROVE OperateInv'
  BY <1>13 DEF Destroy
<1>14. ASSUME NEW t \in Threads, Forget(t) PROVE OperateInv'
  BY <1>14 DEF Forget
<1>15. ASSUME NEW t \in Threads, CloseSem(t) PROVE OperateInv'
  BY <1>15 DEF CloseSem
<1>16. ASSUME NEW t \in Threads, BeginOperation(t) PROVE OperateInv'
  BY <1>16 DEF BeginOperation
<1>17. ASSUME NEW t \in Threads, EnsureFails(t) PROVE OperateInv'
  BY <1>17 DEF EnsureFails
<1>18. ASSUME NEW t \in Threads, EnsurePasses(t) PROVE OperateInv'
  BY <1>18 DEF EnsurePasses
<1>19. ASSUME NEW t \in Threads, Operate(t) PROVE OperateInv'
  BY <1>19 DEF Operate
<1>20. CASE UNCHANGED vars
  BY <1>20 DEF vars
<1> QED
  BY <1>1, <1>2, <1>3, <1>4, <1>5, <1>6, <1>7, <1>8, <1>9, <1>10, <1>11,
     <1>12, <1>13, <1>14, <1>15, <1>16, <1>17, <1>18, <1>19, <1>20
     DEF Next, Step

\* One thread is attached, and it alone detaches.
LEMMA AttachedStep ==
  ASSUME Inv, [Next]_vars
  PROVE  AttachedInv'
<1> USE ConstantsAssumption
    DEF Inv, TypeOK, LockInv, GlobalsInv, AttachedInv, InLock, Detaching, Goto,
        Lock, library, callers
<1>1. ASSUME NEW t \in Threads, BeginAttach(t) PROVE AttachedInv'
  BY <1>1 DEF BeginAttach
<1>2. ASSUME NEW t \in Threads, AttachLock(t) PROVE AttachedInv'
  BY <1>2 DEF AttachLock
<1>3. ASSUME NEW t \in Threads, AttachNull(t) PROVE AttachedInv'
  BY <1>3 DEF AttachNull
<1>4. ASSUME NEW t \in Threads, AttachRejected(t) PROVE AttachedInv'
  BY <1>4 DEF AttachRejected
<1>5. ASSUME NEW t \in Threads, SetBackend(t) PROVE AttachedInv'
  BY <1>5 DEF SetBackend
<1>6. ASSUME NEW t \in Threads, OpenSemFails(t) PROVE AttachedInv'
  BY <1>6 DEF OpenSemFails
<1>7. ASSUME NEW t \in Threads, OpenSem(t) PROVE AttachedInv'
  BY <1>7 DEF OpenSem
<1>8. ASSUME NEW t \in Threads, SetInitialized(t) PROVE AttachedInv'
  BY <1>8 DEF SetInitialized
<1>9. ASSUME NEW t \in Threads, BeginDetach(t) PROVE AttachedInv'
  BY <1>9 DEF BeginDetach
<1>10. ASSUME NEW t \in Threads, DetachLock(t) PROVE AttachedInv'
  BY <1>10 DEF DetachLock
<1>11. ASSUME NEW t \in Threads, DetachRefused(t) PROVE AttachedInv'
  BY <1>11 DEF DetachRefused
<1>12. ASSUME NEW t \in Threads, ClearInitialized(t) PROVE AttachedInv'
  BY <1>12 DEF ClearInitialized
<1>13. ASSUME NEW t \in Threads, Destroy(t) PROVE AttachedInv'
  BY <1>13 DEF Destroy
<1>14. ASSUME NEW t \in Threads, Forget(t) PROVE AttachedInv'
  BY <1>14 DEF Forget
<1>15. ASSUME NEW t \in Threads, CloseSem(t) PROVE AttachedInv'
  BY <1>15 DEF CloseSem
<1>16. ASSUME NEW t \in Threads, BeginOperation(t) PROVE AttachedInv'
  BY <1>16 DEF BeginOperation
<1>17. ASSUME NEW t \in Threads, EnsureFails(t) PROVE AttachedInv'
  BY <1>17 DEF EnsureFails
<1>18. ASSUME NEW t \in Threads, EnsurePasses(t) PROVE AttachedInv'
  BY <1>18 DEF EnsurePasses
<1>19. ASSUME NEW t \in Threads, Operate(t) PROVE AttachedInv'
  BY <1>19 DEF Operate
<1>20. CASE UNCHANGED vars
  BY <1>20 DEF vars
<1> QED
  BY <1>1, <1>2, <1>3, <1>4, <1>5, <1>6, <1>7, <1>8, <1>9, <1>10, <1>11,
     <1>12, <1>13, <1>14, <1>15, <1>16, <1>17, <1>18, <1>19, <1>20
     DEF Next, Step

\* The invariant holds in every program, whatever it misuses.
THEOREM Invariance == Spec => []Inv
<1>1. Inv /\ [Next]_vars => Inv'
  BY TypeStep, LockStep, GlobalsStep, ArgStep, OperateStep, AttachedStep DEF Inv
<1> QED
  BY InitInv, <1>1, PTL DEF Spec

\* Every variable keeps its type; only created backends are destroyed.
THEOREM TypeCorrect == Spec => []TypeOK
BY Invariance, PTL DEF Inv

\* The "impossible race condition" of cpl_attach is impossible.
THEOREM RaceIsImpossible == Spec => []NoLeftoverBackend
<1>1. Inv => NoLeftoverBackend
  BY DEF Inv, LockInv, GlobalsInv, InLock, NoLeftoverBackend
<1> QED
  BY Invariance, <1>1, PTL

\* Who gets past CPL_ENSURE_INITIALIZED can use the backend, if the program
\* does not detach during operations.
THEOREM OperationsAreSafe == Spec => []OperationsFindBackend
<1>1. Inv => OperationsFindBackend
  BY DEF Inv, GlobalsInv, OperateInv, Operating, OperationsFindBackend
<1> QED
  BY Invariance, <1>1, PTL

\* At most one thread has attached, and it finds the library initialized.
THEOREM OneIsAttached == Spec => []OneAttached
<1>1. Inv => OneAttached
  BY DEF Inv, AttachedInv, OneAttached
<1> QED
  BY Invariance, <1>1, PTL

\* No backend is destroyed twice, and NULL never, in any program.
THEOREM NoneDestroyedTwice == Spec => DestroyedOnce
<1>1. ASSUME Inv, [Next]_vars
      PROVE  destroyed' # destroyed => backend \in Backends \ destroyed
  <2>1. SUFFICES ASSUME destroyed' # destroyed
                 PROVE  \E t \in Threads : pc[t] = "destroy"
    BY <1>1 DEF Inv, GlobalsInv
  <2>2. PICK t \in Threads : Destroy(t)
    BY <1>1, <2>1 DEF Next, Step, BeginAttach, BeginDetach, BeginOperation,
       AttachLock, AttachNull, AttachRejected, SetBackend, OpenSemFails,
       OpenSem, SetInitialized, DetachLock, DetachRefused, ClearInitialized,
       Forget, CloseSem, EnsureFails, EnsurePasses, Operate, callers, vars
  <2> QED
    BY <2>2 DEF Destroy, Goto
<1>2. Inv /\ [Next]_vars =>
        [destroyed' # destroyed => backend \in Backends \ destroyed]_vars
  BY <1>1
<1> QED
  BY Invariance, <1>2, PTL DEF Spec, DestroyedOnce

=============================================================================
