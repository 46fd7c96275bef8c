------------------------------- MODULE TLSLock -------------------------------
(***************************************************************************)
(* TLSLock (util/lock.h): a readers-writer lock made of one mutex per      *)
(* reading thread, kept in thread-specific data, and a master mutex that   *)
(* guards the list of them.  A reader takes its own mutex only; a writer   *)
(* takes the master mutex and then every mutex of the list.                *)
(*                                                                         *)
(* Each pthread call that may block is a step of its own.  Callers pair    *)
(* every lock with its unlock and do not nest them (the mutexes are not    *)
(* recursive).                                                             *)
(***************************************************************************)
EXTENDS Integers, Sequences

CONSTANTS
    Thread,
    Lock,     \* mutexes r_lock may allocate; bounds how often threads restart
    NoLock,   \* pthread_getspecific returns NULL
    Nobody    \* a mutex that is not locked

ASSUME TLSLockAssumption ==
    /\ NoLock \notin Lock
    /\ Nobody \notin Thread

VARIABLES
    pc,        \* what each thread is doing (Stages)
    key,       \* _rwlock_key: the mutex in each thread's specific data
    heap,      \* mutexes allocated so far; only ~TLSLock frees them
    tls_locks, \* _tls_locks
    master,    \* owner of _lock
    owner,     \* owner of each per-thread mutex
    i          \* loop index of w_lock and w_unlock, counted from 1

vars == <<pc, key, heap, tls_locks, master, owner, i>>

Stages == { "idle",
            "register",   \* r_lock: made a mutex, about to lock _lock
            "push",       \* r_lock: holds _lock
            "rwait",      \* r_lock: about to lock its own mutex
            "reading",
            "wwait",      \* w_lock: about to lock _lock
            "collect",    \* w_lock: in the loop
            "writing",
            "release" }   \* w_unlock: in the loop

Init ==
    /\ pc = [t \in Thread |-> "idle"]
    /\ key = [t \in Thread |-> NoLock]
    /\ heap = {}
    /\ tls_locks = <<>>
    /\ master = Nobody
    /\ owner = [l \in Lock |-> Nobody]
    /\ i = [t \in Thread |-> 1]

Goto(t, stage) == pc' = [pc EXCEPT ![t] = stage]

-------------------------------------------------------------------------------
(* r_lock and r_unlock *)

\* A thread that has read before finds its mutex.
FindLock(t) ==
    /\ pc[t] = "idle"
    /\ key[t] # NoLock
    /\ Goto(t, "rwait")
    /\ UNCHANGED <<key, heap, tls_locks, master, owner, i>>

\* A thread's first read makes one.
NewLock(t) ==
    /\ pc[t] = "idle"
    /\ key[t] = NoLock
    /\ \E l \in Lock \ heap :
          /\ heap' = heap \cup {l}
          /\ key' = [key EXCEPT ![t] = l]
    /\ Goto(t, "register")
    /\ UNCHANGED <<tls_locks, master, owner, i>>

\* Mutant of LockToRegister: the list is extended without _lock.
RegisterUnlocked(t) ==
    /\ pc[t] = "register"
    /\ tls_locks' = Append(tls_locks, key[t])
    /\ Goto(t, "rwait")
    /\ UNCHANGED <<key, heap, master, owner, i>>

LockToRegister(t) ==
    /\ pc[t] = "register"
    /\ master = Nobody
    /\ master' = t
    /\ Goto(t, "push")
    /\ UNCHANGED <<key, heap, tls_locks, owner, i>>

\* push_back and the unlock after it: the list is used under _lock only.
Register(t) ==
    /\ pc[t] = "push"
    /\ tls_locks' = Append(tls_locks, key[t])
    /\ master' = Nobody
    /\ Goto(t, "rwait")
    /\ UNCHANGED <<key, heap, owner, i>>

ReadLock(t) ==
    /\ pc[t] = "rwait"
    /\ owner[key[t]] = Nobody
    /\ owner' = [owner EXCEPT ![key[t]] = t]
    /\ Goto(t, "reading")
    /\ UNCHANGED <<key, heap, tls_locks, master, i>>

ReadUnlock(t) ==
    /\ pc[t] = "reading"
    /\ owner' = [owner EXCEPT ![key[t]] = Nobody]
    /\ Goto(t, "idle")
    /\ UNCHANGED <<key, heap, tls_locks, master, i>>

-------------------------------------------------------------------------------
(* w_lock and w_unlock *)

CallWriteLock(t) ==
    /\ pc[t] = "idle"
    /\ Goto(t, "wwait")
    /\ UNCHANGED <<key, heap, tls_locks, master, owner, i>>

LockToWrite(t) ==
    /\ pc[t] = "wwait"
    /\ master = Nobody
    /\ master' = t
    /\ i' = [i EXCEPT ![t] = 1]
    /\ Goto(t, "collect")
    /\ UNCHANGED <<key, heap, tls_locks, owner>>

Collect(t) ==
    /\ pc[t] = "collect"
    /\ i[t] <= Len(tls_locks)
    /\ owner[tls_locks[i[t]]] = Nobody
    /\ owner' = [owner EXCEPT ![tls_locks[i[t]]] = t]
    /\ i' = [i EXCEPT ![t] = @ + 1]
    /\ UNCHANGED <<pc, key, heap, tls_locks, master>>

\* Mutant of Collected: the loop stops one short.
CollectedEarly(t) ==
    /\ pc[t] = "collect"
    /\ i[t] >= Len(tls_locks)
    /\ Goto(t, "writing")
    /\ UNCHANGED <<key, heap, tls_locks, master, owner, i>>

Collected(t) ==
    /\ pc[t] = "collect"
    /\ i[t] > Len(tls_locks)
    /\ Goto(t, "writing")
    /\ UNCHANGED <<key, heap, tls_locks, master, owner, i>>

CallWriteUnlock(t) ==
    /\ pc[t] = "writing"
    /\ i' = [i EXCEPT ![t] = 1]
    /\ Goto(t, "release")
    /\ UNCHANGED <<key, heap, tls_locks, master, owner>>

Release(t) ==
    /\ pc[t] = "release"
    /\ i[t] <= Len(tls_locks)
    /\ owner' = [owner EXCEPT ![tls_locks[i[t]]] = Nobody]
    /\ i' = [i EXCEPT ![t] = @ + 1]
    /\ UNCHANGED <<pc, key, heap, tls_locks, master>>

\* Mutant of Released: _lock is never given back.
ReleasedWithoutMaster(t) ==
    /\ pc[t] = "release"
    /\ i[t] > Len(tls_locks)
    /\ Goto(t, "idle")
    /\ UNCHANGED <<key, heap, tls_locks, master, owner, i>>

Released(t) ==
    /\ pc[t] = "release"
    /\ i[t] > Len(tls_locks)
    /\ master' = Nobody
    /\ Goto(t, "idle")
    /\ UNCHANGED <<key, heap, tls_locks, owner, i>>

-------------------------------------------------------------------------------
\* A thread ends and another starts in its place.  The key has no destructor,
\* so the mutex stays in the list.
Restart(t) ==
    /\ pc[t] = "idle"
    /\ key' = [key EXCEPT ![t] = NoLock]
    /\ UNCHANGED <<pc, heap, tls_locks, master, owner, i>>

\* Steps of a call that has begun; the critical section ends too.
Step(t) ==
    \/ LockToRegister(t) \/ Register(t) \/ ReadLock(t) \/ ReadUnlock(t)
    \/ LockToWrite(t) \/ Collect(t) \/ Collected(t)
    \/ CallWriteUnlock(t) \/ Release(t) \/ Released(t)

Call(t) == FindLock(t) \/ NewLock(t) \/ CallWriteLock(t)

Next == \E t \in Thread : Step(t) \/ Call(t) \/ Restart(t)

\* Threads run and leave their critical sections.  A mutex is not fair: a
\* thread that can take it only now and then may never get it.
Fairness == \A t \in Thread : WF_vars(Step(t))

Spec == Init /\ [][Next]_vars /\ Fairness

-------------------------------------------------------------------------------
(***************************************************************************)
(* Properties                                                              *)
(***************************************************************************)

Registered(l) == \E k \in 1 .. Len(tls_locks) : tls_locks[k] = l

TypeOK ==
    /\ pc \in [Thread -> Stages]
    /\ key \in [Thread -> Lock \cup {NoLock}]
    /\ heap \subseteq Lock
    /\ tls_locks \in Seq(Lock)
    /\ master \in Thread \cup {Nobody}
    /\ owner \in [Lock -> Thread \cup {Nobody}]
    /\ i \in [Thread -> Nat \ {0}]

(***************************************************************************)
(* While a thread writes nobody reads and nobody else writes, whenever the *)
(* readers registered.                                                     *)
(***************************************************************************)
WritersExclude ==
    \A t, u \in Thread : pc[t] = "writing" /\ t # u =>
        pc[u] \notin {"reading", "writing"}

(***************************************************************************)
(* A mutex is unlocked by the thread that locked it: a reader that found   *)
(* its mutex in its specific data, and a writer whose w_unlock walks the   *)
(* list again, although readers register between the two walks when they   *)
(* can (unlocking another's mutex is undefined for pthreads).              *)
(***************************************************************************)
UnlocksItsOwn ==
    \A t \in Thread :
        /\ pc[t] = "reading" => owner[key[t]] = t
        /\ pc[t] = "writing" =>
              \A k \in 1 .. Len(tls_locks) : owner[tls_locks[k]] = t
        /\ pc[t] = "release" =>
              \A k \in i[t] .. Len(tls_locks) : owner[tls_locks[k]] = t
        /\ pc[t] \in {"push", "release"} => master = t

(***************************************************************************)
(* Nothing is held by a thread that is outside r_lock .. r_unlock and      *)
(* w_lock .. w_unlock, a thread that has ended included: the mutex it left *)
(* in the list never blocks a writer.                                      *)
(***************************************************************************)
IdleHoldsNothing ==
    \A t \in Thread : pc[t] \in {"idle", "register", "rwait", "wwait"} =>
        master # t /\ \A l \in Lock : owner[l] # t

(***************************************************************************)
(* Some thread waiting for the lock means that, later, some thread has it: *)
(* readers that register and writers that collect do not block each other  *)
(* for good.                                                               *)
(***************************************************************************)
NeverStuck ==
    (\E t \in Thread : pc[t] \in {"register", "rwait", "wwait"})
        ~> (\E t \in Thread : pc[t] \in {"reading", "writing"})

\* TLSLock implements a readers-writer lock.
RW == INSTANCE RWLock WITH
          readers <- {t \in Thread : pc[t] = "reading"},
          writer  <- IF \E t \in Thread : pc[t] = "writing"
                       THEN CHOOSE t \in Thread : pc[t] = "writing"
                       ELSE Nobody

ImplementsRWLock == RW!Spec

-------------------------------------------------------------------------------
(***************************************************************************)
(* The inductive invariant behind WritersExclude and UnlocksItsOwn.        *)
(***************************************************************************)
UsesMaster == {"push", "collect", "writing", "release"}

MasterHeld == \A t \in Thread : (pc[t] \in UsesMaster) <=> (master = t)

\* A thread's mutex is its own; between NewLock and Register it is not in the
\* list, at any other time it is.
KeysRegistered ==
    /\ \A t \in Thread : key[t] # NoLock =>
          /\ key[t] \in heap
          /\ Registered(key[t]) <=> pc[t] \notin {"register", "push"}
    /\ \A t \in Thread : pc[t] \in {"register", "push", "rwait", "reading"}
          => key[t] # NoLock
    /\ \A t, u \in Thread : key[t] = key[u] /\ key[t] # NoLock => t = u

ListDistinct ==
    /\ \A k \in 1 .. Len(tls_locks) : tls_locks[k] \in heap
    /\ \A k, m \in 1 .. Len(tls_locks) : tls_locks[k] = tls_locks[m] => k = m

Collecting == \A t \in Thread : pc[t] = "collect" =>
    \A k \in 1 .. Len(tls_locks) : k < i[t] => owner[tls_locks[k]] = t

\* A mutex that is locked is locked by a thread with a use for it.
OwnersAtWork == \A l \in Lock : \A t \in Thread : owner[l] = t =>
    \/ pc[t] = "reading" /\ key[t] = l
    \/ pc[t] \in {"collect", "writing"} /\ Registered(l)
    \/ pc[t] = "release" /\ \E k \in i[t] .. Len(tls_locks) : tls_locks[k] = l

LockInv == /\ TypeOK /\ MasterHeld /\ KeysRegistered /\ ListDistinct
           /\ Collecting /\ UnlocksItsOwn /\ OwnersAtWork

===============================================================================
