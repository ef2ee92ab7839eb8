----------------------------- MODULE Lifecycle -----------------------------
(***************************************************************************)
(* cpl_attach, cpl_detach, and the test every other function of the        *)
(* library begins with: CPL_ENSURE_INITIALIZED.                            *)
(*                                                                         *)
(* The two take cpl_backend_lock.  The others read cpl_initialized and     *)
(* cpl_db_backend without it.  The assignments of the two are therefore    *)
(* steps of their own.  CPL_ENSURE_NOT_NULL and CPL_ENSURE_INITIALIZED     *)
(* are "return"s, also where the lock is held.                             *)
(*                                                                         *)
(* A program that follows the header attaches a backend, detaches only     *)
(* where it has attached, and not while an operation is in progress.  What *)
(* else a program may do is in misuses, which never changes.               *)
(***************************************************************************)
EXTENDS Naturals, FiniteSets

CONSTANTS
  Threads,     \* the threads of one process
  Backends,    \* what cpl_create_odbc_backend returns, one after the other
  Null,        \* NULL
  Free,        \* the owner of cpl_backend_lock when nobody has it
  Programs     \* the programs: the sets of misuses they may commit

ASSUME ConstantsAssumption ==
  /\ Null \notin Backends
  /\ Free \notin Threads
  /\ Programs \subseteq SUBSET {"null", "detach", "overlap"}

VARIABLES
  misuses,     \* "null": cpl_attach(NULL); "detach": a cpl_detach too many;
               \* "overlap": cpl_detach during an operation
  initialized, \* cpl_initialized
  backend,     \* cpl_db_backend
  semOpen,     \* is cpl_lookup_or_create_object_semaphore open?
  lock,        \* the owner of cpl_backend_lock
  pc,          \* pc[t]: where t is
  arg,         \* arg[t]: the argument of t's cpl_attach
  attached,    \* attached[t]: t's last cpl_attach succeeded, not detached yet
  created,     \* the backends that have been created
  destroyed    \* the backends that have been destroyed

library == <<initialized, backend, semOpen, lock>>
callers == <<misuses, arg, attached, created, destroyed>>
vars == <<misuses, initialized, backend, semOpen, lock, pc, arg, attached,
          created, destroyed>>

Init ==
  /\ misuses \in Programs
  /\ initialized = FALSE
  /\ backend = Null
  /\ semOpen = FALSE
  /\ lock = Free
  /\ pc = [t \in Threads |-> "idle"]
  /\ arg = [t \in Threads |-> Null]
  /\ attached = [t \in Threads |-> FALSE]
  /\ created = {}
  /\ destroyed = {}

Goto(t, from, to) == pc[t] = from /\ pc' = [pc EXCEPT ![t] = to]

Detaching(t) == pc[t] \in {"detach", "checkDetach", "destroy", "forget", "close"}
Operating(t) == pc[t] \in {"ensure", "operate"}

\* mutex_lock(cpl_backend_lock): it blocks its own holder, too.
Lock(t) == lock = Free /\ lock' = t

-----------------------------------------------------------------------------
(* cpl_attach.                                                             *)

BeginAttach(t) ==
  /\ Goto(t, "idle", "attach")
  /\ \/ \E b \in Backends \ created :
          /\ arg' = [arg EXCEPT ![t] = b]
          /\ created' = created \cup {b}
     \/ /\ "null" \in misuses
        /\ arg' = [arg EXCEPT ![t] = Null]
        /\ UNCHANGED created
  /\ UNCHANGED <<library, misuses, attached, destroyed>>

AttachLock(t) ==
  /\ Goto(t, "attach", "checkAttach")
  /\ Lock(t)
  /\ UNCHANGED <<initialized, backend, semOpen, callers>>

\* CPL_ENSURE_NOT_NULL(backend): CPL_E_INVALID_ARGUMENT, the lock not released.
AttachNull(t) ==
  /\ Goto(t, "checkAttach", "idle")
  /\ arg[t] = Null
  /\ UNCHANGED <<library, callers>>

\* Faulty variant of AttachRejected: attaching once more is reported as CPL_OK.
AttachAgainAccepted(t) ==
  /\ Goto(t, "checkAttach", "idle")
  /\ arg[t] # Null
  /\ initialized \/ backend # Null
  /\ lock' = Free
  /\ attached' = [attached EXCEPT ![t] = TRUE]
  /\ UNCHANGED <<initialized, backend, semOpen, misuses, arg, created,
                 destroyed>>

\* CPL_E_ALREADY_INITIALIZED, or CPL_E_INTERNAL_ERROR, the "impossible race
\* condition".
AttachRejected(t) ==
  /\ Goto(t, "checkAttach", "idle")
  /\ arg[t] # Null
  /\ initialized \/ backend # Null
  /\ lock' = Free
  /\ UNCHANGED <<initialized, backend, semOpen, callers>>

\* Faulty variant of SetBackend: the flag is set together with the pointer.
SetBackendAndFlag(t) ==
  /\ Goto(t, "checkAttach", "openSem")
  /\ arg[t] # Null /\ ~initialized /\ backend = Null
  /\ backend' = arg[t]
  /\ initialized' = TRUE
  /\ UNCHANGED <<semOpen, lock, callers>>

SetBackend(t) ==
  /\ Goto(t, "checkAttach", "openSem")
  /\ arg[t] # Null /\ ~initialized /\ backend = Null
  /\ backend' = arg[t]
  /\ UNCHANGED <<initialized, semOpen, lock, callers>>

\* Faulty variant of OpenSemFails: the pointer is not taken back.
OpenSemFailsKeepsBackend(t) ==
  /\ Goto(t, "openSem", "idle")
  /\ lock' = Free
  /\ UNCHANGED <<initialized, backend, semOpen, callers>>

\* sem_open() fails: CPL_E_PLATFORM_ERROR.
OpenSemFails(t) ==
  /\ Goto(t, "openSem", "idle")
  /\ backend' = Null
  /\ lock' = Free
  /\ UNCHANGED <<initialized, semOpen, callers>>

OpenSem(t) ==
  /\ Goto(t, "openSem", "setInitialized")
  /\ semOpen' = TRUE
  /\ UNCHANGED <<initialized, backend, lock, callers>>

\* The unlock, and CPL_OK.
SetInitialized(t) ==
  /\ Goto(t, "setInitialized", "idle")
  /\ initialized' = TRUE
  /\ lock' = Free
  /\ attached' = [attached EXCEPT ![t] = TRUE]
  /\ UNCHANGED <<backend, semOpen, misuses, arg, created, destroyed>>

-----------------------------------------------------------------------------
(* cpl_detach.                                                             *)

BeginDetach(t) ==
  /\ Goto(t, "idle", "detach")
  /\ attached[t] \/ "detach" \in misuses
  /\ (\A u \in Threads : ~Operating(u)) \/ "overlap" \in misuses
  /\ attached' = [attached EXCEPT ![t] = FALSE]
  /\ UNCHANGED <<library, misuses, arg, created, destroyed>>

DetachLock(t) ==
  /\ Goto(t, "detach", "checkDetach")
  /\ Lock(t)
  /\ UNCHANGED <<initialized, backend, semOpen, callers>>

\* CPL_ENSURE_INITIALIZED: CPL_E_NOT_INITIALIZED, the lock not released.
DetachRefused(t) ==
  /\ Goto(t, "checkDetach", "idle")
  /\ ~initialized
  /\ UNCHANGED <<library, callers>>

\* Faulty variant of ClearInitialized: the test is left out.
ClearInitializedUntested(t) ==
  /\ Goto(t, "checkDetach", "destroy")
  /\ initialized' = FALSE
  /\ UNCHANGED <<backend, semOpen, lock, callers>>

ClearInitialized(t) ==
  /\ Goto(t, "checkDetach", "destroy")
  /\ initialized
  /\ initialized' = FALSE
  /\ UNCHANGED <<backend, semOpen, lock, callers>>

\* cpl_odbc_destroy disconnects and deletes the backend.
Destroy(t) ==
  /\ Goto(t, "destroy", "forget")
  /\ destroyed' = destroyed \cup {backend}
  /\ UNCHANGED <<library, misuses, arg, attached, created>>

Forget(t) ==
  /\ Goto(t, "forget", "close")
  /\ backend' = Null
  /\ UNCHANGED <<initialized, semOpen, lock, callers>>

\* Faulty variant of CloseSem: the unlock is left out.
CloseSemNoUnlock(t) ==
  /\ Goto(t, "close", "idle")
  /\ semOpen' = FALSE
  /\ UNCHANGED <<initialized, backend, lock, callers>>

\* The semaphore is closed; the unlock, and CPL_OK.
CloseSem(t) ==
  /\ Goto(t, "close", "idle")
  /\ semOpen' = FALSE
  /\ lock' = Free
  /\ UNCHANGED <<initialized, backend, callers>>

-----------------------------------------------------------------------------
(* Any other function.                                                     *)

BeginOperation(t) ==
  /\ Goto(t, "idle", "ensure")
  /\ (\A u \in Threads : ~Detaching(u)) \/ "overlap" \in misuses
  /\ UNCHANGED <<library, callers>>

\* CPL_E_NOT_INITIALIZED.
EnsureFails(t) ==
  /\ Goto(t, "ensure", "idle")
  /\ ~initialized
  /\ UNCHANGED <<library, callers>>

EnsurePasses(t) ==
  /\ Goto(t, "ensure", "operate")
  /\ initialized
  /\ UNCHANGED <<library, callers>>

\* It reads cpl_db_backend, calls the backend, and returns.
Operate(t) ==
  /\ Goto(t, "operate", "idle")
  /\ UNCHANGED <<library, callers>>

Step(t) ==
  \/ AttachLock(t) \/ AttachNull(t) \/ AttachRejected(t)
  \/ SetBackend(t) \/ OpenSemFails(t) \/ OpenSem(t) \/ SetInitialized(t)
  \/ DetachLock(t) \/ DetachRefused(t) \/ ClearInitialized(t) \/ Destroy(t)
  \/ Forget(t) \/ CloseSem(t)
  \/ EnsureFails(t) \/ EnsurePasses(t) \/ Operate(t)

Next ==
  \E t \in Threads :
    BeginAttach(t) \/ BeginDetach(t) \/ BeginOperation(t) \/ Step(t)

Spec == Init /\ [][Next]_vars

\* A thread inside the library keeps running; the lock is not a fair one.
FairSpec == Spec /\ \A t \in Threads : WF_vars(Step(t))

-----------------------------------------------------------------------------
(* Properties.                                                             *)

TypeOK ==
  /\ misuses \in Programs
  /\ initialized \in BOOLEAN
  /\ backend \in Backends \cup {Null}
  /\ semOpen \in BOOLEAN
  /\ lock \in Threads \cup {Free}
  /\ pc \in [Threads -> {"idle", "attach", "checkAttach", "openSem",
                         "setInitialized", "detach", "checkDetach", "destroy",
                         "forget", "close", "ensure", "operate"}]
  /\ arg \in [Threads -> Backends \cup {Null}]
  /\ attached \in [Threads -> BOOLEAN]
  /\ created \in SUBSET Backends
  /\ destroyed \in SUBSET created

\* "impossible race condition" (cpl-standalone.cpp:169): once cpl_attach has
\* the lock and the library is not initialized, no backend is left over from
\* an earlier attach, not even from one that failed.
NoLeftoverBackend ==
  \A t \in Threads : pc[t] = "checkAttach" /\ ~initialized => backend = Null

\* An operation that has passed CPL_ENSURE_INITIALIZED finds a backend that is
\* alive and the semaphore open, whatever attaches meanwhile, unless the
\* program detaches during operations.
OperationsFindBackend ==
  "overlap" \notin misuses /\ (\E t \in Threads : pc[t] = "operate") =>
    backend \in Backends \ destroyed /\ semOpen

\* Destroying hits the one attached backend, and each backend once only.
DestroyedOnce ==
  [][destroyed' # destroyed => backend \in Backends \ destroyed]_vars

\* The bookkeeping of the callers is that of the library: one thread at most
\* believes that it has attached, and while it does the library agrees,
\* unless one thread detaches what another has attached.
OneAttached ==
  "detach" \notin misuses =>
    /\ \A t, u \in Threads : attached[t] /\ attached[u] => t = u
    /\ (\E t \in Threads : attached[t]) => initialized

\* cpl_attach and cpl_detach give cpl_backend_lock back, unless the program
\* attaches NULL or detaches once too often.
LockComesBack ==
  (lock # Free) ~> (lock = Free \/ misuses \cap {"null", "detach"} # {})

\* cpl_detach returns "the error code" (cpl.h:555), and the next call can
\* have the lock: refuted by a program that detaches once too often.
LockAlwaysComesBack == (lock # Free) ~> (lock = Free)

=============================================================================
