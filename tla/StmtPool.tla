------------------------------ MODULE StmtPool ------------------------------
(***************************************************************************)
(* The pool of CPL_STMT_MAX prepared statements behind every operation of  *)
(* the ODBC backend: cpl_acquire_stmt and cpl_release_stmt.                *)
(*                                                                         *)
(* Both functions take their semaphore and their mutex BY VALUE.  The lock *)
(* they take is a copy on their own stack and excludes nobody, so the two  *)
(* loops over stmt_array interleave freely: every load and store is a step *)
(* of its own.  A sem_t is copied as well (Linux), so there nobody waits;  *)
(* a dispatch_semaphore_t is a pointer (macOS), and there the waits and    *)
(* the posts are real: SharedSema tells the two apart.                     *)
(*                                                                         *)
(* A build without optimisation reads stmt_array[i] twice, once to test it *)
(* and once to take it; an optimising build reads it once: oneLoad.        *)
(***************************************************************************)
EXTENDS Naturals, FiniteSets

CONSTANTS
  Threads,    \* the threads that call the backend
  N,          \* CPL_STMT_MAX, also the initial value of the semaphore
  Null,       \* NULL
  SharedSema, \* is the semaphore shared (a pointer), or copied?
  MaxSem      \* bound: no call begins while sem >= MaxSem

ASSUME ConstantsAssumption ==
  /\ N \in Nat \ {0}
  /\ Null \notin 1..N
  /\ IsFiniteSet(Threads)
  /\ SharedSema \in BOOLEAN
  /\ MaxSem \in Nat /\ MaxSem > N

VARIABLES
  stmts, \* stmts[i]: stmt_array[i], a statement or NULL
  sem,   \* the value of the shared semaphore
  pc,    \* pc[t]: where t is
  index, \* index[t]: the loop variable of t's scan
  stmt,  \* stmt[t]: the statement t has, NULL if it has none
  place, \* history: place[t]: the index at which t found it, or 0
  oneLoad, \* the build: is stmt_array[i] read once per iteration of the scan?
  crowded  \* history: were there ever more than N operations in progress?

vars == <<stmts, sem, pc, index, stmt, place, oneLoad, crowded>>

\* The prepared statements, numbered by the place they are prepared for.
Slots == 1..N
Statements == Slots

Init ==
  /\ stmts = [i \in Slots |-> i]
  /\ sem = N
  /\ pc = [t \in Threads |-> "idle"]
  /\ index = [t \in Threads |-> 1]
  /\ stmt = [t \in Threads |-> Null]
  /\ place = [t \in Threads |-> 0]
  /\ oneLoad \in BOOLEAN
  /\ crowded = FALSE

Goto(t, from, to) == pc[t] = from /\ pc' = [pc EXCEPT ![t] = to]

\* Faulty variant of NextIndex: i <= CPL_STMT_MAX.
NextIndexTooFar(t, from, top, exit) ==
  /\ pc[t] = from
  /\ IF index[t] <= N
     THEN /\ index' = [index EXCEPT ![t] = @ + 1]
          /\ pc' = [pc EXCEPT ![t] = top]
     ELSE /\ index' = [index EXCEPT ![t] = 1]
          /\ pc' = [pc EXCEPT ![t] = exit]

\* The end of an iteration: on to the next one at top, or out of the loop.
NextIndex(t, from, top, exit) ==
  /\ pc[t] = from
  /\ IF index[t] < N
     THEN /\ index' = [index EXCEPT ![t] = @ + 1]
          /\ pc' = [pc EXCEPT ![t] = top]
     ELSE /\ index' = [index EXCEPT ![t] = 1]
          /\ pc' = [pc EXCEPT ![t] = exit]

\* A post on the copy of a sem_t is lost with the copy.
Post == sem' = IF SharedSema THEN sem + 1 ELSE sem

-----------------------------------------------------------------------------
(* cpl_acquire_stmt.                                                       *)

\* The threads with an operation in progress.
InProgress == {t \in Threads : pc[t] # "idle"}

\* A backend operation begins.
Begin(t) ==
  /\ Goto(t, "idle", "wait")
  /\ sem < MaxSem
  /\ crowded' = (crowded \/ Cardinality(InProgress \cup {t}) > N)
  /\ UNCHANGED <<stmts, sem, index, stmt, place, oneLoad>>

SemaWait(t) ==
  /\ Goto(t, "wait", "scan")
  /\ SharedSema => sem > 0
  /\ sem' = IF SharedSema THEN sem - 1 ELSE sem
  /\ UNCHANGED <<stmts, index, stmt, place>>

\* if (stmt_array[i] != NULL) fails.
ScanEmpty(t) ==
  /\ stmts[index[t]] = Null
  /\ NextIndex(t, "scan", "scan", "none")
  /\ UNCHANGED <<stmts, sem, stmt, place>>

\* if (stmt_array[i] != NULL) succeeds; ret is the value tested, or is yet
\* to be read.
ScanFound(t) ==
  /\ stmts[index[t]] # Null
  /\ IF oneLoad
     THEN /\ Goto(t, "scan", "clear")
          /\ stmt' = [stmt EXCEPT ![t] = stmts[index[t]]]
     ELSE /\ Goto(t, "scan", "load")
          /\ UNCHANGED stmt
  /\ UNCHANGED <<stmts, sem, index, place>>

\* ret = stmt_array[i], read again: it may have become NULL.
Load(t) ==
  /\ Goto(t, "load", "clear")
  /\ stmt' = [stmt EXCEPT ![t] = stmts[index[t]]]
  /\ UNCHANGED <<stmts, sem, index, place>>

\* stmt_array[i] = NULL; return ret.
Clear(t) ==
  /\ Goto(t, "clear", "use")
  /\ stmts' = [stmts EXCEPT ![index[t]] = Null]
  /\ index' = [index EXCEPT ![t] = 1]
  /\ place' = [place EXCEPT ![t] = index[t]]
  /\ UNCHANGED <<sem, stmt>>

\* Nothing found: the permit goes back and NULL is returned.
GiveUp(t) ==
  /\ Goto(t, "none", "use")
  /\ Post
  /\ UNCHANGED <<stmts, index, stmt, place>>

-----------------------------------------------------------------------------
(* The operation, then cpl_release_stmt.                                   *)

\* Faulty variant of EndUse: an error path returns without the release.
EndUseNoRelease(t) ==
  /\ \/ Goto(t, "use", "test")
     \/ Goto(t, "use", "idle")
  /\ UNCHANGED <<stmts, sem, index, stmt, place>>

\* The operation binds, executes and fetches, or fails at once on NULL; on
\* every path it ends by releasing what it got.
EndUse(t) ==
  /\ Goto(t, "use", "test")
  /\ UNCHANGED <<stmts, sem, index, stmt, place>>

\* if (stmt_array[i] == NULL) fails.
TestFull(t) ==
  /\ stmts[index[t]] # Null
  /\ NextIndex(t, "test", "test", "post")
  /\ UNCHANGED <<stmts, sem, stmt, place>>

\* if (stmt_array[i] == NULL) succeeds.
TestEmpty(t) ==
  /\ Goto(t, "test", "store")
  /\ stmts[index[t]] = Null
  /\ UNCHANGED <<stmts, sem, index, stmt, place>>

\* Faulty variant of Store: the statement is not put back.
StoreNothing(t) ==
  /\ NextIndex(t, "store", "test", "post")
  /\ Post
  /\ UNCHANGED <<stmts, stmt, place>>

\* stmt_array[i] = stmt, and a post.  There is no return here: the scan goes
\* on and fills every other empty place with the same statement.
Store(t) ==
  /\ NextIndex(t, "store", "test", "post")
  /\ stmts' = [stmts EXCEPT ![index[t]] = stmt[t]]
  /\ Post
  /\ UNCHANGED <<stmt, place>>

\* Faulty variant of Finish: the last post is left out.
FinishNoPost(t) ==
  /\ Goto(t, "post", "idle")
  /\ stmt' = [stmt EXCEPT ![t] = Null]
  /\ place' = [place EXCEPT ![t] = 0]
  /\ UNCHANGED <<stmts, sem, index>>

\* The post after the loop, made whether a place was filled or not; the
\* operation returns.
Finish(t) ==
  /\ Goto(t, "post", "idle")
  /\ Post
  /\ stmt' = [stmt EXCEPT ![t] = Null]
  /\ place' = [place EXCEPT ![t] = 0]
  /\ UNCHANGED <<stmts, index>>

Step(t) ==
  /\ \/ SemaWait(t)
     \/ ScanEmpty(t) \/ ScanFound(t) \/ Load(t) \/ Clear(t) \/ GiveUp(t)
     \/ EndUse(t)
     \/ TestFull(t) \/ TestEmpty(t) \/ Store(t) \/ Finish(t)
  /\ UNCHANGED <<oneLoad, crowded>>

Next == \E t \in Threads : Begin(t) \/ Step(t)

Spec == Init /\ [][Next]_vars

\* A thread that can run runs; sem_wait() wakes some waiter, not a given one.
FairSpec == Spec /\ \A t \in Threads : WF_vars(Step(t))

-----------------------------------------------------------------------------
(* Properties.                                                             *)

TypeOK ==
  /\ stmts \in [Slots -> Statements \cup {Null}]
  /\ sem \in Nat
  /\ pc \in [Threads -> {"idle", "wait", "scan", "load", "clear", "none",
                         "use", "test", "store", "post"}]
  /\ index \in [Threads -> Slots]
  /\ stmt \in [Threads -> Statements \cup {Null}]
  /\ place \in [Threads -> 0..N]
  /\ oneLoad \in BOOLEAN
  /\ crowded \in BOOLEAN

\* A thread between the wait and the first post that pays it back.
Holders == {t \in Threads :
  pc[t] \in {"scan", "load", "clear", "none", "use", "test", "store", "post"}}

\* While one thread uses a prepared statement no other thread uses it.
\* (The purpose of the locking, cpl-odbc.cpp:40-43.)
Exclusive ==
  \A t, u \in Threads :
    /\ t # u
    /\ {pc[t], pc[u]} \subseteq {"use"}
    /\ stmt[t] # Null
    => stmt[t] # stmt[u]

\* However the loops interleave no permit is ever lost: the free permits
\* and the calls in progress make up at least CPL_STMT_MAX, whatever the
\* arrays have come to hold.
PermitsNeverLost == sem + Cardinality(Holders) >= N

\* The pool never stalls: when all permits are out one comes back, also when
\* acquire finds nothing or release finds no empty place.
PermitComesBack == (sem = 0) ~> (sem > 0)

\* As long as there have never been more than CPL_STMT_MAX operations in
\* progress at once, and stmt_array[i] is read once, the broken lock and the
\* missing return starve nobody: no operation is handed NULL.
Served ==
  oneLoad /\ ~crowded
    => \A t \in Threads : pc[t] = "use" => stmt[t] # Null

\* As long, too, every place holds a statement whenever no call is in
\* progress, its own or that of another place: releases overwrite each
\* other's statements, but leave no place empty.
Refilled ==
  oneLoad /\ ~crowded /\ InProgress = {}
    => \A i \in Slots : stmts[i] # Null

=============================================================================
