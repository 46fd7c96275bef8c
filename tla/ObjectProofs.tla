---------------------------- MODULE ObjectProofs ----------------------------
(***************************************************************************)
(* Proofs about the objects that calls are made of and that no request     *)
(* machine has inside it: the lock around the shared libcurl handles       *)
(* (TLSLock), the streams that bodies are read from and written to         *)
(* (Streams), and the metadata a reply leaves behind (MetaData).  The      *)
(* three have nothing in common and are treated one after the other.       *)
(***************************************************************************)
EXTENDS TLSLock, Streams, MetaData, SequenceTheorems, TLAPS

-------------------------------------------------------------------------------
(***************************************************************************)
(* TLSLock, for every set of threads and mutexes: LockInv is inductive,    *)
(* the safety properties follow from it, and each step of the lock is a    *)
(* step of RWLock or none.                                                 *)
(*                                                                         *)
(* The heart of the argument: the list changes only under _lock, so the    *)
(* list a writer walks twice is the same list, and a mutex occurs in it    *)
(* once.                                                                   *)
(***************************************************************************)

\* The mutexes are idle and the list is empty.
LEMMA LockInvInit == Init => LockInv
BY TLSLockAssumption
   DEF Init, LockInv, TypeOK, Stages, MasterHeld, UsesMaster, KeysRegistered,
       Registered, ListDistinct, Collecting, UnlocksItsOwn, OwnersAtWork

\* A reader that finds its mutex only moves on.
LEMMA FindLockStep == ASSUME LockInv, NEW t \in Thread, FindLock(t)
      PROVE  LockInv'
<1> USE TLSLockAssumption DEF LockInv, TypeOK, FindLock, Goto
<1>1. TypeOK' /\ MasterHeld'
  BY DEF Stages, MasterHeld, UsesMaster
<1>2. KeysRegistered' /\ ListDistinct'
  BY DEF KeysRegistered, Registered, ListDistinct
<1>3. Collecting' /\ UnlocksItsOwn'
  BY DEF Collecting, UnlocksItsOwn, MasterHeld, UsesMaster, ListDistinct,
         KeysRegistered, Registered
<1>4. OwnersAtWork'
  BY DEF OwnersAtWork, MasterHeld, UsesMaster, ListDistinct,
         KeysRegistered, Registered
<1> QED BY <1>1, <1>2, <1>3, <1>4

\* A fresh mutex is nobody's and not in the list.
LEMMA NewLockStep == ASSUME LockInv, NEW t \in Thread, NewLock(t)
      PROVE  LockInv'
<1> USE TLSLockAssumption DEF LockInv, TypeOK, NewLock, Goto
<1>1. TypeOK' /\ MasterHeld'
  BY DEF Stages, MasterHeld, UsesMaster
<1> PICK l \in Lock \ heap : heap' = heap \cup {l} /\ key' = [key EXCEPT ![t] = l]
  OBVIOUS
<1>a. l # NoLock /\ ~Registered(l) /\ \A u \in Thread : key[u] # l
  BY DEF KeysRegistered, Registered, ListDistinct
<1>2. KeysRegistered' /\ ListDistinct'
  BY <1>a DEF KeysRegistered, Registered, ListDistinct
<1>3. Collecting' /\ UnlocksItsOwn'
  BY DEF Collecting, UnlocksItsOwn, MasterHeld, UsesMaster, ListDistinct,
         KeysRegistered, Registered
<1>4. OwnersAtWork'
  BY DEF OwnersAtWork, MasterHeld, UsesMaster, ListDistinct,
         KeysRegistered, Registered
<1> QED BY <1>1, <1>2, <1>3, <1>4

\* Taking _lock to register excludes the other users of _lock.
LEMMA LockToRegisterStep == ASSUME LockInv, NEW t \in Thread, LockToRegister(t)
      PROVE  LockInv'
<1> USE TLSLockAssumption DEF LockInv, TypeOK, LockToRegister, Goto
<1>1. TypeOK' /\ MasterHeld'
  BY DEF Stages, MasterHeld, UsesMaster
<1>2. KeysRegistered' /\ ListDistinct'
  BY DEF KeysRegistered, Registered, ListDistinct
<1>3. Collecting' /\ UnlocksItsOwn'
  BY DEF Collecting, UnlocksItsOwn, MasterHeld, UsesMaster, ListDistinct,
         KeysRegistered, Registered
<1>4. OwnersAtWork'
  BY DEF OwnersAtWork, MasterHeld, UsesMaster, ListDistinct,
         KeysRegistered, Registered
<1> QED BY <1>1, <1>2, <1>3, <1>4

\* The list grows while no writer walks it.
LEMMA RegisterStep == ASSUME LockInv, NEW t \in Thread, Register(t)
      PROVE  LockInv'
<1> USE TLSLockAssumption DEF LockInv, TypeOK, Register, Goto
<1>1. TypeOK' /\ MasterHeld'
  BY DEF Stages, MasterHeld, UsesMaster, KeysRegistered
<1>2. KeysRegistered' /\ ListDistinct'
  BY DEF KeysRegistered, Registered, ListDistinct
<1>3. Collecting' /\ UnlocksItsOwn'
  BY DEF Collecting, UnlocksItsOwn, MasterHeld, UsesMaster, ListDistinct,
         KeysRegistered, Registered
<1>4. OwnersAtWork'
  BY DEF OwnersAtWork, MasterHeld, UsesMaster, ListDistinct,
         KeysRegistered, Registered
<1> QED BY <1>1, <1>2, <1>3, <1>4

\* A reader locks a mutex that nobody, so no writer, holds.
LEMMA ReadLockStep == ASSUME LockInv, NEW t \in Thread, ReadLock(t)
      PROVE  LockInv'
<1> USE TLSLockAssumption DEF LockInv, TypeOK, ReadLock, Goto
<1>1. TypeOK' /\ MasterHeld'
  BY DEF Stages, MasterHeld, UsesMaster
<1>2. KeysRegistered' /\ ListDistinct'
  BY DEF KeysRegistered, Registered, ListDistinct
<1>3. Collecting' /\ UnlocksItsOwn'
  BY DEF Collecting, UnlocksItsOwn, MasterHeld, UsesMaster, ListDistinct,
         KeysRegistered, Registered
<1>4. OwnersAtWork'
  BY DEF OwnersAtWork, MasterHeld, UsesMaster, ListDistinct,
         KeysRegistered, Registered
<1> QED BY <1>1, <1>2, <1>3, <1>4

\* A reader unlocks a mutex that is its own, so no writer's.
LEMMA ReadUnlockStep == ASSUME LockInv, NEW t \in Thread, ReadUnlock(t)
      PROVE  LockInv'
<1> USE TLSLockAssumption DEF LockInv, TypeOK, ReadUnlock, Goto
<1>1. TypeOK' /\ MasterHeld'
  BY DEF Stages, MasterHeld, UsesMaster
<1>2. KeysRegistered' /\ ListDistinct'
  BY DEF KeysRegistered, Registered, ListDistinct
<1>3. Collecting' /\ UnlocksItsOwn'
  BY DEF Collecting, UnlocksItsOwn, MasterHeld, UsesMaster, ListDistinct,
         KeysRegistered, Registered
<1>4. OwnersAtWork'
  BY DEF OwnersAtWork, MasterHeld, UsesMaster, ListDistinct,
         KeysRegistered, Registered
<1> QED BY <1>1, <1>2, <1>3, <1>4

\* Nothing is held yet.
LEMMA CallWriteLockStep == ASSUME LockInv, NEW t \in Thread, CallWriteLock(t)
      PROVE  LockInv'
<1> USE TLSLockAssumption DEF LockInv, TypeOK, CallWriteLock, Goto
<1>1. TypeOK' /\ MasterHeld'
  BY DEF Stages, MasterHeld, UsesMaster
<1>2. KeysRegistered' /\ ListDistinct'
  BY DEF KeysRegistered, Registered, ListDistinct
<1>3. Collecting' /\ UnlocksItsOwn'
  BY DEF Collecting, UnlocksItsOwn, MasterHeld, UsesMaster, ListDistinct,
         KeysRegistered, Registered
<1>4. OwnersAtWork'
  BY DEF OwnersAtWork, MasterHeld, UsesMaster, ListDistinct,
         KeysRegistered, Registered
<1> QED BY <1>1, <1>2, <1>3, <1>4

\* A writer starts its walk with no mutex but _lock.
LEMMA LockToWriteStep == ASSUME LockInv, NEW t \in Thread, LockToWrite(t)
      PROVE  LockInv'
<1> USE TLSLockAssumption DEF LockInv, TypeOK, LockToWrite, Goto
<1>1. TypeOK' /\ MasterHeld'
  BY DEF Stages, MasterHeld, UsesMaster
<1>2. KeysRegistered' /\ ListDistinct'
  BY DEF KeysRegistered, Registered, ListDistinct
<1>3. Collecting' /\ UnlocksItsOwn'
  BY DEF Collecting, UnlocksItsOwn, MasterHeld, UsesMaster, ListDistinct,
         KeysRegistered, Registered
<1>4. OwnersAtWork'
  BY DEF OwnersAtWork, MasterHeld, UsesMaster, ListDistinct,
         KeysRegistered, Registered
<1> QED BY <1>1, <1>2, <1>3, <1>4

\* The walk adds one mutex.
LEMMA CollectStep == ASSUME LockInv, NEW t \in Thread, Collect(t)
      PROVE  LockInv'
<1> USE TLSLockAssumption DEF LockInv, TypeOK, Collect, Goto
<1>1. TypeOK' /\ MasterHeld'
  BY DEF Stages, MasterHeld, UsesMaster
<1>2. KeysRegistered' /\ ListDistinct'
  BY DEF KeysRegistered, Registered, ListDistinct
<1>3. Collecting' /\ UnlocksItsOwn'
  BY DEF Collecting, UnlocksItsOwn, MasterHeld, UsesMaster, ListDistinct,
         KeysRegistered, Registered
<1>4. OwnersAtWork'
  BY DEF OwnersAtWork, MasterHeld, UsesMaster, ListDistinct,
         KeysRegistered, Registered
<1> QED BY <1>1, <1>2, <1>3, <1>4

\* A walk that is over holds every mutex of the list.
LEMMA CollectedStep == ASSUME LockInv, NEW t \in Thread, Collected(t)
      PROVE  LockInv'
<1> USE TLSLockAssumption DEF LockInv, TypeOK, Collected, Goto
<1>1. TypeOK' /\ MasterHeld'
  BY DEF Stages, MasterHeld, UsesMaster
<1>2. KeysRegistered' /\ ListDistinct'
  BY DEF KeysRegistered, Registered, ListDistinct
<1>3. Collecting' /\ UnlocksItsOwn'
  BY DEF Collecting, UnlocksItsOwn, MasterHeld, UsesMaster, ListDistinct,
         KeysRegistered, Registered
<1>4. OwnersAtWork'
  BY DEF OwnersAtWork, MasterHeld, UsesMaster, ListDistinct,
         KeysRegistered, Registered
<1> QED BY <1>1, <1>2, <1>3, <1>4

\* The second walk starts where the first one did.
LEMMA CallWriteUnlockStep == ASSUME LockInv, NEW t \in Thread, CallWriteUnlock(t)
      PROVE  LockInv'
<1> USE TLSLockAssumption DEF LockInv, TypeOK, CallWriteUnlock, Goto
<1>1. TypeOK' /\ MasterHeld'
  BY DEF Stages, MasterHeld, UsesMaster
<1>2. KeysRegistered' /\ ListDistinct'
  BY DEF KeysRegistered, Registered, ListDistinct
<1>3. Collecting' /\ UnlocksItsOwn'
  BY DEF Collecting, UnlocksItsOwn, MasterHeld, UsesMaster, ListDistinct,
         KeysRegistered, Registered
<1>4. OwnersAtWork'
  BY DEF OwnersAtWork, MasterHeld, UsesMaster, ListDistinct,
         KeysRegistered, Registered
<1> QED BY <1>1, <1>2, <1>3, <1>4

\* The second walk gives back one mutex, and the list has no other copy of it.
LEMMA ReleaseStep == ASSUME LockInv, NEW t \in Thread, Release(t)
      PROVE  LockInv'
<1> USE TLSLockAssumption DEF LockInv, TypeOK, Release, Goto
<1>1. TypeOK' /\ MasterHeld'
  BY DEF Stages, MasterHeld, UsesMaster
<1>2. KeysRegistered' /\ ListDistinct'
  BY DEF KeysRegistered, Registered, ListDistinct
<1>3. Collecting' /\ UnlocksItsOwn'
  BY DEF Collecting, UnlocksItsOwn, MasterHeld, UsesMaster, ListDistinct,
         KeysRegistered, Registered
<1>4. OwnersAtWork'
  BY DEF OwnersAtWork, MasterHeld, UsesMaster, ListDistinct,
         KeysRegistered, Registered
<1> QED BY <1>1, <1>2, <1>3, <1>4

\* A finished second walk holds nothing.
LEMMA ReleasedStep == ASSUME LockInv, NEW t \in Thread, Released(t)
      PROVE  LockInv'
<1> USE TLSLockAssumption DEF LockInv, TypeOK, Released, Goto
<1>1. TypeOK' /\ MasterHeld'
  BY DEF Stages, MasterHeld, UsesMaster
<1>2. KeysRegistered' /\ ListDistinct'
  BY DEF KeysRegistered, Registered, ListDistinct
<1>3. Collecting' /\ UnlocksItsOwn'
  BY DEF Collecting, UnlocksItsOwn, MasterHeld, UsesMaster, ListDistinct,
         KeysRegistered, Registered
<1>4. OwnersAtWork'
  BY DEF OwnersAtWork, MasterHeld, UsesMaster, ListDistinct,
         KeysRegistered, Registered
<1> QED BY <1>1, <1>2, <1>3, <1>4

\* The key is forgotten, the mutex stays registered.
LEMMA RestartStep == ASSUME LockInv, NEW t \in Thread, Restart(t)
      PROVE  LockInv'
<1> USE TLSLockAssumption DEF LockInv, TypeOK, Restart, Goto
<1>1. TypeOK' /\ MasterHeld'
  BY DEF Stages, MasterHeld, UsesMaster
<1>2. KeysRegistered' /\ ListDistinct'
  BY DEF KeysRegistered, Registered, ListDistinct
<1>3. Collecting' /\ UnlocksItsOwn'
  BY DEF Collecting, UnlocksItsOwn, MasterHeld, UsesMaster, ListDistinct,
         KeysRegistered, Registered
<1>4. OwnersAtWork'
  BY DEF OwnersAtWork, MasterHeld, UsesMaster, ListDistinct,
         KeysRegistered, Registered
<1> QED BY <1>1, <1>2, <1>3, <1>4

\* LockInv is inductive.
LEMMA LockInvNext == LockInv /\ [Next]_vars => LockInv'
<1> SUFFICES ASSUME LockInv, [Next]_vars PROVE LockInv'
  OBVIOUS
<1>1. CASE UNCHANGED vars
  BY <1>1 DEF vars, LockInv, TypeOK, MasterHeld, KeysRegistered, Registered,
              ListDistinct, Collecting, UnlocksItsOwn, OwnersAtWork
<1>2. CASE Next
  <2> PICK t \in Thread : Step(t) \/ Call(t) \/ Restart(t)
    BY <1>2 DEF Next
  <2>1. CASE Step(t)
    BY <2>1, LockToRegisterStep, RegisterStep, ReadLockStep, ReadUnlockStep,
       LockToWriteStep, CollectStep, CollectedStep, CallWriteUnlockStep,
       ReleaseStep, ReleasedStep DEF Step
  <2>2. CASE Call(t)
    BY <2>2, FindLockStep, NewLockStep, CallWriteLockStep DEF Call
  <2>3. CASE Restart(t)
    BY <2>3, RestartStep
  <2> QED BY <2>1, <2>2, <2>3
<1> QED BY <1>1, <1>2

\* The list, the keys, the owners and the walks agree in every state.
THEOREM LockInvariant == Spec => []LockInv
<1> QED BY LockInvInit, LockInvNext, PTL DEF Spec

\* Every variable keeps its type.
THEOREM LockTypes == Spec => []TypeOK
<1>1. LockInv => TypeOK
  BY DEF LockInv
<1> QED BY <1>1, LockInvariant, PTL

\* Mutexes are unlocked by their owners, so no unlock is undefined.
THEOREM UnlocksAreOwned == Spec => []UnlocksItsOwn
<1>1. LockInv => UnlocksItsOwn
  BY DEF LockInv
<1> QED BY <1>1, LockInvariant, PTL

\* While a thread writes, every reader's mutex is in the list and the
\* writer's, and _lock is the writer's.
LEMMA InvExcludes == LockInv => WritersExclude
BY DEF LockInv, TypeOK, MasterHeld, UsesMaster, KeysRegistered, Registered,
       UnlocksItsOwn, WritersExclude

\* Mutual exclusion of a writer with readers and other writers.
THEOREM Exclusion == Spec => []WritersExclude
BY InvExcludes, LockInvariant, PTL

\* A thread outside the lock holds none of its mutexes.
THEOREM IdleIsFree == Spec => []IdleHoldsNothing
<1>1. LockInv => IdleHoldsNothing
  BY DEF LockInv, MasterHeld, UsesMaster, OwnersAtWork, IdleHoldsNothing
<1> QED BY <1>1, LockInvariant, PTL

-------------------------------------------------------------------------------
(***************************************************************************)
(* Refinement.  The roles of RWLock are functions of pc, so what a role is *)
(* before and after a step is said once, for any value p of pc.            *)
(***************************************************************************)
ReadersOf(p) == {t \in Thread : p[t] = "reading"}
WriterOf(p)  == IF \E t \in Thread : p[t] = "writing"
                  THEN CHOOSE t \in Thread : p[t] = "writing"
                  ELSE Nobody

Exclusive(p) == \A t, u \in Thread : p[t] = "writing" /\ t # u =>
    p[u] \notin {"reading", "writing"}

\* A thread that writes is the writer, and there is no reader.
LEMMA TheWriter ==
    ASSUME NEW p, Exclusive(p), NEW t \in Thread, p[t] = "writing"
    PROVE  WriterOf(p) = t /\ ReadersOf(p) = {}
BY DEF Exclusive, WriterOf, ReadersOf

\* Where no thread writes there is no writer.
LEMMA NoWriter ==
    ASSUME NEW p, \A t \in Thread : p[t] # "writing"
    PROVE  WriterOf(p) = Nobody
BY DEF WriterOf

\* A step that moves no thread into or out of the lock moves no role.
LEMMA SameRoles ==
    ASSUME NEW p, NEW q, Exclusive(p), Exclusive(q),
           \A t \in Thread : /\ (p[t] = "reading") <=> (q[t] = "reading")
                             /\ (p[t] = "writing") <=> (q[t] = "writing")
    PROVE  ReadersOf(p) = ReadersOf(q) /\ WriterOf(p) = WriterOf(q)
<1>1. CASE \E t \in Thread : p[t] = "writing"
  <2> PICK t \in Thread : p[t] = "writing"
    BY <1>1
  <2> QED BY TheWriter
<1>2. CASE \A t \in Thread : p[t] # "writing"
  BY <1>2, NoWriter DEF ReadersOf
<1> QED BY <1>1, <1>2

\* Each step of the lock starts or ends one thread's turn, or is invisible.
LEMMA StepRefines == LockInv /\ LockInv' /\ [Next]_vars => [RW!Next]_(RW!lockVars)
<1> SUFFICES ASSUME LockInv, LockInv', [Next]_vars
             PROVE  [RW!Next]_(RW!lockVars)
  OBVIOUS
<1> USE TLSLockAssumption DEF LockInv, TypeOK
<1>0. Exclusive(pc) /\ Exclusive(pc')
  <2>1. WritersExclude
    BY InvExcludes
  <2>2. Exclusive(pc')
    <3> SUFFICES ASSUME NEW t \in Thread, NEW u \in Thread, t # u,
                        pc'[t] = "writing"
                 PROVE  pc'[u] \notin {"reading", "writing"}
      BY DEF Exclusive
    <3>1. pc'[u] # "writing"
      BY DEF MasterHeld, UsesMaster
    <3>2. ASSUME pc'[u] = "reading" PROVE FALSE
      <4>1. Registered(key[u])'
        BY <3>2 DEF KeysRegistered
      <4>2. PICK k \in 1 .. Len(tls_locks') : tls_locks'[k] = key'[u]
        BY <4>1 DEF Registered
      <4>3. owner'[key'[u]] = t /\ owner'[key'[u]] = u
        BY <3>2, <4>2 DEF UnlocksItsOwn
      <4> QED BY <4>3
    <3> QED BY <3>1, <3>2
  <2> QED BY <2>1, <2>2 DEF WritersExclude, Exclusive
<1> DEFINE R == ReadersOf(pc)
           W == WriterOf(pc)
<1>1. ASSUME NEW t \in Thread, ReadLock(t) PROVE RW!StartRead(t)
  <2>1. \A u \in Thread : pc[u] # "writing" /\ pc'[u] # "writing"
    BY <1>0, <1>1 DEF Exclusive, ReadLock, Goto
  <2>2. W = Nobody /\ W' = Nobody
    BY <2>1, NoWriter
  <2>3. t \notin R /\ R' = R \cup {t}
    BY <1>1 DEF ReadersOf, ReadLock, Goto
  <2> QED BY <2>2, <2>3 DEF RW!StartRead, ReadersOf, WriterOf
<1>2. ASSUME NEW t \in Thread, ReadUnlock(t) PROVE RW!EndRead(t)
  <2>1. \A u \in Thread : pc[u] # "writing" /\ pc'[u] # "writing"
    BY <1>0, <1>2 DEF Exclusive, ReadUnlock, Goto
  <2>2. W = Nobody /\ W' = Nobody
    BY <2>1, NoWriter
  <2>3. t \in R /\ R' = R \ {t}
    BY <1>2 DEF ReadersOf, ReadUnlock, Goto
  <2> QED BY <2>2, <2>3 DEF RW!EndRead, ReadersOf, WriterOf
<1>3. ASSUME NEW t \in Thread, Collected(t) PROVE RW!StartWrite(t)
  <2>1. pc'[t] = "writing"
    BY <1>3 DEF Collected, Goto
  <2>2. W' = t /\ R' = {}
    BY <1>0, <2>1, TheWriter
  <2>3. \A u \in Thread : pc[u] # "writing"
    BY <1>0, <1>3, <2>1 DEF Exclusive, Collected, Goto
  <2>4. W = Nobody
    BY <2>3, NoWriter
  <2>5. R = {}
    BY <1>3, <2>2 DEF ReadersOf, Collected, Goto
  <2> QED BY <2>2, <2>4, <2>5 DEF RW!StartWrite, ReadersOf, WriterOf
<1>4. ASSUME NEW t \in Thread, CallWriteUnlock(t) PROVE RW!EndWrite(t)
  <2>1. W = t /\ R = {}
    BY <1>0, <1>4, TheWriter DEF CallWriteUnlock
  <2>2. \A u \in Thread : pc'[u] # "writing"
    BY <1>0, <1>4 DEF Exclusive, CallWriteUnlock, Goto
  <2>3. W' = Nobody
    BY <2>2, NoWriter
  <2>4. R' = {}
    BY <1>4, <2>1 DEF ReadersOf, CallWriteUnlock, Goto
  <2> QED BY <2>1, <2>3, <2>4 DEF RW!EndWrite, ReadersOf, WriterOf
<1>5. ASSUME \/ UNCHANGED vars
             \/ \E t \in Thread :
                   \/ LockToRegister(t) \/ Register(t) \/ LockToWrite(t)
                   \/ Collect(t) \/ Release(t) \/ Released(t)
                   \/ Call(t) \/ Restart(t)
      PROVE  UNCHANGED RW!lockVars
  <2>1. \A t \in Thread : /\ (pc[t] = "reading") <=> (pc'[t] = "reading")
                          /\ (pc[t] = "writing") <=> (pc'[t] = "writing")
    BY <1>5 DEF vars, Call, LockToRegister, Register, LockToWrite, Collect,
                Release, Released, FindLock, NewLock, CallWriteLock, Restart,
                Goto
  <2>2. R' = R /\ W' = W
    BY <1>0, <2>1, SameRoles
  <2> QED BY <2>2 DEF RW!lockVars, ReadersOf, WriterOf
<1> QED BY <1>1, <1>2, <1>3, <1>4, <1>5 DEF Next, Step, RW!Next

\* TLSLock is a readers-writer lock.
THEOREM Refinement == Spec => ImplementsRWLock
<1>1. Init => RW!Init
  BY DEF Init, RW!Init
<1> QED BY <1>1, StepRefines, LockInvariant, PTL
        DEF Spec, ImplementsRWLock, RW!Spec

-------------------------------------------------------------------------------
(***************************************************************************)
(* Streams, for every set of bytes and contents of every length: what      *)
(* seeks leave behind and what calls put at the position (StreamInv); a    *)
(* string takes what it is given; an output stream is a Sink and an input  *)
(* stream a Source.                                                        *)
(*                                                                         *)
(* The heart of the argument: the bytes taken since the last seek lie from *)
(* there up to the position, whatever was written or read before it.       *)
(***************************************************************************)

(***************************************************************************)
(* What the operators on bytes return.                                     *)
(***************************************************************************)

\* The first n bytes of a piece.
LEMMA FirstBytes ==
    ASSUME NEW c \in Seq(Byte), NEW n \in 0 .. Len(c)
    PROVE  /\ SubSeq(c, 1, n) \in Seq(Byte)
           /\ Len(SubSeq(c, 1, n)) = n
           /\ \A k \in 1 .. n : SubSeq(c, 1, n)[k] = c[k]
<1>1. \A k \in 1 .. n : c[k] \in Byte
  BY ElementOfSeq
<1>2. n \in Nat
  BY LenProperties
<1> QED BY <1>1, <1>2, SubSeqProperties

\* A function on 1 .. n with bytes as values is a sequence of length n.
LEMMA BytesOf ==
    ASSUME NEW n \in Nat, NEW f \in [1 .. n -> Byte]
    PROVE  f \in Seq(Byte) /\ Len(f) = n
<1>1. f \in Seq(Byte)
  BY SeqDef
<1>2. Len(f) \in Nat /\ DOMAIN f = 1 .. Len(f)
  BY <1>1, LenProperties
<1> QED BY <1>1, <1>2

LEMMA OverlayIs ==
    ASSUME NEW s \in Seq(Byte), NEW p \in Nat, NEW c \in Seq(Byte)
    PROVE  /\ Overlay(s, p, c) \in Seq(Byte)
           /\ Len(Overlay(s, p, c)) =
                IF c # <<>> /\ Len(s) < p + Len(c) THEN p + Len(c) ELSE Len(s)
           /\ \A k \in 1 .. Len(Overlay(s, p, c)) :
                Overlay(s, p, c)[k] = IF k > p /\ k <= p + Len(c) THEN c[k - p]
                                      ELSE IF k <= Len(s) THEN s[k] ELSE 0
<1>1. Len(s) \in Nat /\ Len(c) \in Nat /\ (c = <<>> => Len(c) = 0)
  BY LenProperties, EmptySeq
<1>2. CASE c = <<>>
  BY <1>1, <1>2 DEF Overlay, Target!Overlay
<1>3. CASE c # <<>>
  <2> DEFINE n == IF Len(s) < p + Len(c) THEN p + Len(c) ELSE Len(s)
             f == [k \in 1 .. n |->
                     IF k > p /\ k <= p + Len(c) THEN c[k - p]
                     ELSE IF k <= Len(s) THEN s[k] ELSE 0]
  <2>1. Overlay(s, p, c) = f
    BY <1>3 DEF Overlay, Target!Overlay, Target!Zero
  <2>2. n \in Nat
    BY <1>1
  <2>3. \A k \in 1 .. n : (IF k > p /\ k <= p + Len(c) THEN c[k - p]
                           ELSE IF k <= Len(s) THEN s[k] ELSE 0) \in Byte
    <3> SUFFICES ASSUME NEW k \in 1 .. n
                 PROVE  (IF k > p /\ k <= p + Len(c) THEN c[k - p]
                         ELSE IF k <= Len(s) THEN s[k] ELSE 0) \in Byte
      OBVIOUS
    <3>1. CASE k > p /\ k <= p + Len(c)
      BY <1>1, <2>2, <3>1, ElementOfSeq
    <3>2. CASE ~(k > p /\ k <= p + Len(c)) /\ k <= Len(s)
      BY <1>1, <2>2, <3>2, ElementOfSeq
    <3> QED BY <3>1, <3>2, StreamAssumption
  <2>4. f \in [1 .. n -> Byte]
    BY <2>3
  <2> HIDE DEF n
  <2>5. f \in Seq(Byte) /\ Len(f) = n
    BY <2>2, <2>4, BytesOf
  <2> QED BY <1>3, <2>1, <2>5 DEF n
<1> QED BY <1>2, <1>3

\* The bytes of b behind the first n.
Behind(b, n) == IF n < Len(b) THEN SubSeq(b, n + 1, Len(b)) ELSE <<>>

LEMMA BehindIs ==
    ASSUME NEW b \in Seq(Byte), NEW n \in Nat
    PROVE  /\ Behind(b, n) \in Seq(Byte)
           /\ Len(Behind(b, n)) = IF n < Len(b) THEN Len(b) - n ELSE 0
           /\ \A k \in 1 .. Len(b) - n : Behind(b, n)[k] = b[n + k]
<1>1. Len(b) \in Nat /\ \A k \in n + 1 .. Len(b) : b[k] \in Byte
  BY LenProperties, ElementOfSeq
<1>2. CASE n < Len(b)
  <2>1. /\ SubSeq(b, n + 1, Len(b)) \in Seq(Byte)
        /\ Len(SubSeq(b, n + 1, Len(b))) = Len(b) - n
        /\ \A k \in 1 .. Len(b) - (n + 1) + 1 :
              SubSeq(b, n + 1, Len(b))[k] = b[n + 1 + k - 1]
    BY <1>1, <1>2, SubSeqProperties
  <2>2. \A k \in 1 .. Len(b) - n :
           k \in 1 .. Len(b) - (n + 1) + 1 /\ n + 1 + k - 1 = n + k
    BY <1>1
  <2>3. Behind(b, n) = SubSeq(b, n + 1, Len(b))
    BY <1>2 DEF Behind
  <2>4. \A k \in 1 .. Len(b) - n : Behind(b, n)[k] = b[n + k]
    BY <2>1, <2>2, <2>3
  <2> QED BY <1>2, <2>1, <2>3, <2>4
<1>3. CASE ~(n < Len(b))
  BY <1>1, <1>3, EmptySeq DEF Behind
<1> QED BY <1>2, <1>3

\* Bytes put somewhere behind the first n of b are put there into what is
\* behind those n.
LEMMA OverlayBehind ==
    ASSUME NEW b \in Seq(Byte), NEW n \in Nat, NEW p \in Nat,
           NEW c \in Seq(Byte)
    PROVE  Behind(Overlay(b, n + p, c), n) = Overlay(Behind(b, n), p, c)
<1> DEFINE o == Overlay(b, n + p, c)
           v == Behind(b, n)
           l == Behind(o, n)
           r == Overlay(v, p, c)
<1>1. Len(b) \in Nat /\ Len(c) \in Nat /\ (c # <<>> => Len(c) > 0)
  BY LenProperties, EmptySeq
<1>2. CASE c = <<>>
  BY <1>2 DEF Overlay, Target!Overlay
<1>3. CASE c # <<>>
  <2>1. n + p \in Nat
    OBVIOUS
  <2>2. /\ o \in Seq(Byte)
        /\ Len(o) = IF Len(b) < n + p + Len(c) THEN n + p + Len(c) ELSE Len(b)
        /\ \A k \in 1 .. Len(o) :
              o[k] = IF k > n + p /\ k <= n + p + Len(c) THEN c[k - (n + p)]
                     ELSE IF k <= Len(b) THEN b[k] ELSE 0
    BY <1>3, <2>1, OverlayIs
  <2>3. /\ v \in Seq(Byte)
        /\ Len(v) = IF n < Len(b) THEN Len(b) - n ELSE 0
        /\ \A k \in 1 .. Len(b) - n : v[k] = b[n + k]
    BY BehindIs
  <2> HIDE DEF o, v
  <2>4. /\ l \in Seq(Byte)
        /\ Len(l) = IF n < Len(o) THEN Len(o) - n ELSE 0
        /\ \A k \in 1 .. Len(o) - n : l[k] = o[n + k]
    BY <2>2, BehindIs
  <2>5. /\ r \in Seq(Byte)
        /\ Len(r) = IF Len(v) < p + Len(c) THEN p + Len(c) ELSE Len(v)
        /\ \A k \in 1 .. Len(r) :
              r[k] = IF k > p /\ k <= p + Len(c) THEN c[k - p]
                     ELSE IF k <= Len(v) THEN v[k] ELSE 0
    BY <1>3, <2>3, OverlayIs
  <2> HIDE DEF l, r
  <2>6. Len(l) = Len(r) /\ Len(l) = Len(o) - n /\ Len(l) \in Nat
    <3>1. /\ Len(o) = IF Len(b) < n + p + Len(c) THEN n + p + Len(c) ELSE Len(b)
          /\ Len(v) = IF n < Len(b) THEN Len(b) - n ELSE 0
          /\ Len(l) = IF n < Len(o) THEN Len(o) - n ELSE 0
          /\ Len(r) = IF Len(v) < p + Len(c) THEN p + Len(c) ELSE Len(v)
      BY <1>3, <2>2, <2>3, <2>4, <2>5
    <3> QED BY <1>1, <1>3, <3>1
  <2>7. ASSUME NEW k \in 1 .. Len(l) PROVE l[k] = r[k]
    <3>1. k \in Int /\ k >= 1 /\ k <= Len(l) /\ n + k \in 1 .. Len(o)
      BY <2>2, <2>6
    <3>2. l[k] = IF k > p /\ k <= p + Len(c) THEN c[k - p]
                 ELSE IF n + k <= Len(b) THEN b[n + k] ELSE 0
      <4>1. l[k] = o[n + k]
        BY <2>4, <2>6, <3>1
      <4>2. o[n + k] = IF n + k > n + p /\ n + k <= n + p + Len(c)
                         THEN c[(n + k) - (n + p)]
                         ELSE IF n + k <= Len(b) THEN b[n + k] ELSE 0
        BY <2>2, <3>1
      <4>3. /\ (n + k) - (n + p) = k - p
            /\ n + k > n + p <=> k > p
            /\ n + k <= n + p + Len(c) <=> k <= p + Len(c)
        BY <1>1, <3>1
      <4> QED BY <4>1, <4>2, <4>3
    <3>3. r[k] = IF k > p /\ k <= p + Len(c) THEN c[k - p]
                 ELSE IF k <= Len(v) THEN v[k] ELSE 0
      BY <2>5, <2>6, <3>1
    <3>4. n + k <= Len(b) <=> k <= Len(v)
      BY <1>1, <2>3, <3>1
    <3>5. k <= Len(v) => v[k] = b[n + k]
      BY <1>1, <2>3, <3>1
    <3> QED BY <3>2, <3>3, <3>4, <3>5
  <2> QED BY <2>4, <2>5, <2>6, <2>7, SeqEqual DEF l, r, o, v
<1> QED BY <1>2, <1>3

\* Asking again for as many bytes as a piece has gives the same piece.
LEMMA PieceIs ==
    ASSUME NEW s \in Seq(Byte), NEW p \in Nat, NEW n \in Nat
    PROVE  /\ Origin!Piece(s, p, n) \in Seq(Byte)
           /\ Len(Origin!Piece(s, p, n)) \in 0 .. n
           /\ Origin!Piece(s, p, Len(Origin!Piece(s, p, n)))
                = Origin!Piece(s, p, n)
<1> DEFINE e == IF p + n < Len(s) THEN p + n ELSE Len(s)
<1>1. Len(s) \in Nat /\ e \in Nat /\ e <= Len(s) /\ e <= p + n
  BY LenProperties
<1>2. Origin!Piece(s, p, n) = SubSeq(s, p + 1, e)
  BY DEF Origin!Piece
<1> HIDE DEF e
<1>3. \A k \in p + 1 .. e : s[k] \in Byte
  BY <1>1, ElementOfSeq
<1>4. /\ SubSeq(s, p + 1, e) \in Seq(Byte)
      /\ Len(SubSeq(s, p + 1, e)) = IF p + 1 <= e THEN e - p ELSE 0
  BY <1>1, <1>3, SubSeqProperties
<1>5. CASE p + 1 <= e
  <2>1. Origin!Piece(s, p, e - p) = SubSeq(s, p + 1, e)
    BY <1>1, <1>5 DEF Origin!Piece
  <2> QED BY <1>1, <1>2, <1>4, <1>5, <2>1
<1>6. CASE ~(p + 1 <= e)
  <2>1. SubSeq(s, p + 1, e) = <<>>
    BY <1>1, <1>6, SubSeqEmpty
  <2>2. Origin!Piece(s, p, 0) = SubSeq(s, p + 1, p) \/
        Origin!Piece(s, p, 0) = SubSeq(s, p + 1, Len(s))
    BY <1>1 DEF Origin!Piece
  <2>3. Origin!Piece(s, p, 0) = <<>>
    <3>1. CASE p < Len(s)
      <4>1. Origin!Piece(s, p, 0) = SubSeq(s, p + 1, p)
        BY <1>1, <3>1 DEF Origin!Piece
      <4> QED BY <4>1, SubSeqEmpty
    <3>2. CASE ~(p < Len(s))
      <4>1. Origin!Piece(s, p, 0) = SubSeq(s, p + 1, Len(s))
        BY <1>1, <3>2 DEF Origin!Piece
      <4> QED BY <1>1, <3>2, <4>1, SubSeqEmpty
    <3> QED BY <3>1, <3>2
  <2> QED BY <1>1, <1>2, <1>4, <1>6, <2>1, <2>3
<1> QED BY <1>5, <1>6

\* A buffer that starts at its first byte is its own content.
LEMMA WholeContent ==
    ASSUME buf \in Seq(Byte), base = 0
    PROVE  Content = buf
<1>1. Len(buf) \in Nat /\ (Len(buf) = 0 => buf = <<>>)
  BY LenProperties, EmptySeq
<1>2. CASE 0 < Len(buf)
  <2>1. SubSeq(buf, 1, Len(buf)) = buf
    BY SubSeqFull
  <2> QED BY <1>2, <2>1 DEF Content
<1>3. CASE ~(0 < Len(buf))
  BY <1>1, <1>3 DEF Content
<1> QED BY <1>2, <1>3

LEMMA ChunkType == \A c \in Chunks : c \in Seq(Byte)
BY SeqDef DEF Chunks, SeqUpTo

\* What it means that the bytes s are found in b behind the first f.
LEMMA FoundBehind ==
    ASSUME NEW b \in Seq(Byte), NEW s \in Seq(Byte), NEW f \in Nat,
           f + Len(s) <= Len(b)
    PROVE  SubSeq(b, f + 1, f + Len(s)) = s
             <=> \A k \in 1 .. Len(s) : b[f + k] = s[k]
<1> DEFINE l == SubSeq(b, f + 1, f + Len(s))
<1>1. Len(b) \in Nat /\ Len(s) \in Nat
  BY LenProperties
<1>2. \A k \in f + 1 .. f + Len(s) : b[k] \in Byte
  BY <1>1, ElementOfSeq
<1>3. /\ l \in Seq(Byte)
      /\ Len(l) = IF f + 1 <= f + Len(s) THEN f + Len(s) - (f + 1) + 1 ELSE 0
      /\ \A k \in 1 .. f + Len(s) - (f + 1) + 1 : l[k] = b[f + 1 + k - 1]
  BY <1>1, <1>2, SubSeqProperties
<1> HIDE DEF l
<1>4. Len(l) = Len(s) /\ \A k \in 1 .. Len(s) : l[k] = b[f + k]
  BY <1>1, <1>3
<1>5. (\A k \in 1 .. Len(s) : b[f + k] = s[k]) => l = s
  BY <1>3, <1>4, SeqEqual
<1> QED BY <1>4, <1>5 DEF l

\* A piece appended to a string stays behind what was at its end.
LEMMA AppendedIsBehind ==
    ASSUME NEW b \in Seq(Byte), NEW s \in Seq(Byte), NEW c \in Seq(Byte),
           NEW f \in Nat
    PROVE  Len(b) = f + Len(s) /\ (\A k \in 1 .. Len(s) : b[f + k] = s[k])
             => /\ f + Len(s \o c) = Len(b \o c)
                /\ \A k \in 1 .. Len(s \o c) : (b \o c)[f + k] = (s \o c)[k]
<1>1. Len(b) \in Nat /\ Len(s) \in Nat /\ Len(c) \in Nat
  BY LenProperties
<1>2. /\ Len(s \o c) = Len(s) + Len(c)
      /\ \A k \in 1 .. Len(s) + Len(c) :
            (s \o c)[k] = IF k <= Len(s) THEN s[k] ELSE c[k - Len(s)]
  BY ConcatProperties
<1>3. /\ Len(b \o c) = Len(b) + Len(c)
      /\ \A k \in 1 .. Len(b) + Len(c) :
            (b \o c)[k] = IF k <= Len(b) THEN b[k] ELSE c[k - Len(b)]
  BY ConcatProperties
<1> HAVE Len(b) = f + Len(s) /\ \A k \in 1 .. Len(s) : b[f + k] = s[k]
<1>4. ASSUME NEW k \in 1 .. Len(s) + Len(c)
      PROVE  (b \o c)[f + k] = (s \o c)[k]
  <2>1. /\ f + k \in 1 .. Len(b) + Len(c) /\ (f + k <= Len(b) <=> k <= Len(s))
        /\ f + k - Len(b) = k - Len(s) /\ (k <= Len(s) => k \in 1 .. Len(s))
    BY <1>1
  <2>2. (b \o c)[f + k] = IF f + k <= Len(b) THEN b[f + k] ELSE c[f + k - Len(b)]
    BY <1>3, <2>1
  <2> QED BY <1>2, <2>1, <2>2
<1> QED BY <1>1, <1>2, <1>3, <1>4

-------------------------------------------------------------------------------
(***************************************************************************)
(* StreamInv holds initially and every call preserves it.                  *)
(***************************************************************************)

LEMMA StreamInvInit == StreamInit => StreamInv
<1> SUFFICES ASSUME StreamInit PROVE StreamInv
  OBVIOUS
<1>1. kind \in Outputs \cup Inputs
  BY StreamAssumption DEF StreamInit
<1>2. buf \in Seq(Byte) /\ Len(buf) \in Nat
  <2>1. buf \in Seq(Byte)
    <3>1. buf \in SeqUpTo(MaxChunk)
      BY DEF StreamInit
    <3>2. PICK k \in 0 .. MaxChunk : buf \in [1 .. k -> Byte]
      BY <3>1 DEF SeqUpTo
    <3>3. k \in Nat
      BY StreamAssumption
    <3> QED BY <3>2, <3>3, BytesOf
  <2> QED BY <2>1, LenProperties
<1>3. base \in Nat /\ (kind \notin {"file", "file_in"} => base = 0)
  <2>1. base \in (IF kind \in {"file", "file_in"} THEN 0 .. MaxChunk ELSE {0})
    BY DEF StreamInit
  <2> QED BY <2>1, StreamAssumption
<1>4. /\ size \in Int
      /\ kind = "file" => size = -1
      /\ kind \in {"memory", "memory_in"} => size = Len(buf)
  <2>1. CASE kind \in {"file", "string"} /\ size = -1
    BY <2>1
  <2>2. CASE kind \in {"memory", "memory_in"} /\ size = Len(buf)
    BY <1>2, <2>2
  <2>3. CASE kind = "file_in" /\ size \in {Len(buf) - base} \cup 0 .. MaxChunk
    BY <1>2, <1>3, <2>3, StreamAssumption
  <2> QED BY <2>1, <2>2, <2>3 DEF StreamInit
<1>5. /\ pos = 0 /\ ret = 0 /\ since = <<>> /\ from = 0 /\ within = FALSE
      /\ since \in Seq(Byte) /\ Len(since) = 0
  BY EmptySeq DEF StreamInit
<1>6. StreamTypes
  <2>1. pos \in Nat /\ ret \in Int /\ from \in Nat
    BY DEF StreamInit
  <2>3. within \in BOOLEAN
    BY DEF StreamInit
  <2>2. since \in Seq(Byte)
    <3>1. <<>> \in Seq(Byte)
      BY EmptySeq
    <3> QED BY <3>1 DEF StreamInit
  <2> QED BY <1>1, <1>2, <1>3, <1>4, <2>1, <2>2, <2>3 DEF StreamTypes
<1>7. Buffered /\ PositionKept
  BY <1>2, <1>3, <1>4, <1>5 DEF Buffered, PositionKept
<1>8. StringAppends
  BY <1>2, <1>5, FoundBehind DEF StringAppends
<1> QED BY <1>6, <1>7, <1>8 DEF StreamInv

\* What a call that takes or gives n bytes leaves to show.
LEMMA HistoryType ==
    ASSUME StreamInv, NEW c \in Seq(Byte)
    PROVE  since \o c \in Seq(Byte) /\ Len(since \o c) = Len(since) + Len(c)
BY ConcatProperties DEF StreamInv, StreamTypes

LEMMA FileWriteStep == ASSUME StreamInv, NEW c \in Seq(Byte), FileWrite(c)
                       PROVE  StreamInv'
<1>1. /\ kind = "file" /\ UNCHANGED <<kind, base, size, from, within>>
      /\ StreamTypes /\ size = -1
  BY DEF FileWrite, Take, history, StreamInv, Buffered
<1>2. /\ buf' \in Seq(Byte) /\ pos' \in Nat /\ ret' \in Int
      /\ since' \in Seq(Byte)
  <2>1. CASE ret' = -1 /\ UNCHANGED <<buf, pos, history>>
    BY <1>1, <2>1 DEF StreamTypes, history
  <2>2. ASSUME NEW n \in 0 .. Len(c),
               buf' = Overlay(buf, base + pos, SubSeq(c, 1, n)),
               pos' = pos + n, ret' = n, Take(SubSeq(c, 1, n))
        PROVE  /\ buf' \in Seq(Byte) /\ pos' \in Nat /\ ret' \in Int
               /\ since' \in Seq(Byte)
    <3>1. n \in Nat /\ base + pos \in Nat /\ pos + n \in Nat
      BY <1>1, LenProperties DEF StreamTypes
    <3>2. SubSeq(c, 1, n) \in Seq(Byte)
      BY FirstBytes
    <3>3. Overlay(buf, base + pos, SubSeq(c, 1, n)) \in Seq(Byte)
      BY <1>1, <3>1, <3>2, OverlayIs DEF StreamTypes
    <3>4. since \o SubSeq(c, 1, n) \in Seq(Byte)
      BY <3>2, HistoryType
    <3> QED BY <2>2, <3>1, <3>3, <3>4 DEF Take
  <2> QED BY <2>1, <2>2 DEF FileWrite
<1> QED BY <1>1, <1>2 DEF StreamInv, StreamTypes, Buffered, PositionKept,
                          StringAppends

LEMMA MemoryWriteStep == ASSUME StreamInv, NEW c \in Seq(Byte), MemoryWrite(c)
                         PROVE  /\ StreamInv'
                                /\ \E n \in 0 .. Len(c) :
                                      /\ buf' = Overlay(buf, pos, SubSeq(c, 1, n))
                                      /\ pos' = pos + n
                                      /\ ret' = n
<1> DEFINE n == IF Len(c) > size - pos THEN size - pos ELSE Len(c)
           d == SubSeq(c, 1, n)
<1>1. /\ kind = "memory" /\ UNCHANGED <<kind, base, size, from, within>>
      /\ buf' = Overlay(buf, pos, d) /\ pos' = pos + n /\ ret' = n
      /\ since' = since \o d
  BY DEF MemoryWrite, Take
<1>2. /\ StreamTypes /\ base = 0 /\ size = Len(buf) /\ pos <= size
      /\ pos \in Nat /\ size \in Nat /\ Len(c) \in Nat
  BY <1>1, LenProperties DEF StreamInv, StreamTypes, Buffered
<1>3. n \in 0 .. Len(c) /\ n \in Nat /\ pos + n <= size
  BY <1>2
<1> HIDE DEF n
<1>4. d \in Seq(Byte) /\ Len(d) = n
  BY <1>3, FirstBytes
<1> HIDE DEF d
<1>5. /\ Overlay(buf, pos, d) \in Seq(Byte)
      /\ Len(Overlay(buf, pos, d)) = Len(buf)
  BY <1>2, <1>3, <1>4, OverlayIs DEF StreamTypes
<1>6. StreamTypes'
  BY <1>1, <1>2, <1>3, <1>4, <1>5, HistoryType DEF StreamTypes
<1>7. Buffered'
  BY <1>1, <1>2, <1>3, <1>5 DEF Buffered
<1> QED BY <1>1, <1>3, <1>6, <1>7 DEF StreamInv, PositionKept, StringAppends, d

\* A seek of a stream that is no string.
LEMMA SeekStep ==
    ASSUME StreamInv, kind # "string", UNCHANGED <<kind, buf, base, size>>,
           ret' \in Int,
           \/ UNCHANGED <<pos, history>>
           \/ /\ pos' \in Nat
              /\ kind \in {"memory", "memory_in"} => pos' <= size
              /\ Sought(pos')
    PROVE  StreamInv'
<1>1. <<>> \in Seq(Byte)
  BY EmptySeq
<1>2. StreamTypes'
  BY <1>1 DEF StreamInv, StreamTypes, Sought, history
<1> QED BY <1>2 DEF StreamInv, Buffered, PositionKept, StringAppends, history

LEMMA CStringType ==
    ASSUME NEW c \in Seq(Byte), NEW s \in CString(c)
    PROVE  s \in Seq(Byte)
<1>1. CASE \E k \in 1 .. Len(c) : c[k] = 0
  <2>1. PICK k \in 1 .. Len(c) : s = SubSeq(c, 1, k - 1)
    BY <1>1 DEF CString
  <2>2. k - 1 \in 0 .. Len(c)
    BY LenProperties
  <2> QED BY <2>1, <2>2, FirstBytes
<1>2. CASE ~\E k \in 1 .. Len(c) : c[k] = 0
  <2>1. PICK j \in Junk : s = c \o j
    BY <1>2 DEF CString
  <2>2. j \in Seq(Byte)
    <3>1. j \in Seq(Byte \ {0})
      BY StreamAssumption
    <3> QED BY <3>1, SeqMonotonic
  <2> QED BY <2>1, <2>2, ConcatProperties
<1> QED BY <1>1, <1>2

LEMMA StringWriteStep == ASSUME StreamInv, NEW c \in Seq(Byte), StringWrite(c)
                         PROVE  StreamInv'
<1>1. /\ kind = "string" /\ UNCHANGED <<kind, base, size, from>>
      /\ pos' = pos + Len(c) /\ ret' = Len(c) /\ since' = since \o c
  BY DEF StringWrite
<1>2. /\ StreamTypes /\ PositionKept /\ StringAppends
      /\ Len(c) \in Nat /\ Len(buf) \in Nat /\ Len(since) \in Nat
  BY LenProperties DEF StreamInv, StreamTypes
<1>3. since' \in Seq(Byte) /\ Len(since') = Len(since) + Len(c)
  BY <1>1, HistoryType
<1>4. PositionKept'
  BY <1>1, <1>2, <1>3 DEF PositionKept, StreamTypes
<1>5. CASE pos >= Len(buf) /\ buf' = buf \o c /\ UNCHANGED within
  <2>1. buf' \in Seq(Byte)
    BY <1>2, <1>5, ConcatProperties DEF StreamTypes
  <2>2. StreamTypes'
    BY <1>1, <1>2, <1>3, <1>5, <2>1 DEF StreamTypes
  <2>3. StringAppends'
    <3> SUFFICES ASSUME ~within
                 PROVE  /\ from + Len(since') <= Len(buf')
                        /\ SubSeq(buf', from + 1, from + Len(since')) = since'
      BY <1>1, <1>5 DEF StringAppends
    <3>1. from + Len(since) <= Len(buf) /\ pos = from + Len(since)
      BY <1>1, <1>2 DEF StringAppends, PositionKept
    <3>2. Len(buf) = from + Len(since)
      BY <1>2, <1>5, <3>1 DEF StreamTypes
    <3>3. \A k \in 1 .. Len(since) : buf[from + k] = since[k]
      BY <1>1, <1>2, <3>1, FoundBehind DEF StringAppends, StreamTypes
    <3>4. /\ from + Len(since') = Len(buf')
          /\ \A k \in 1 .. Len(since') : buf'[from + k] = since'[k]
      <4>1. buf \in Seq(Byte) /\ since \in Seq(Byte) /\ from \in Nat
        BY <1>2 DEF StreamTypes
      <4> QED BY <1>1, <1>5, <3>2, <3>3, <4>1, AppendedIsBehind
    <3> QED BY <1>2, <1>3, <2>1, <3>4, FoundBehind, LenProperties DEF StreamTypes
  <2> QED BY <1>1, <1>4, <2>2, <2>3 DEF StreamInv, Buffered
<1>6. CASE pos < Len(buf) /\ ~(pos >= Len(buf) /\ buf' = buf \o c /\ UNCHANGED within)
  <2> DEFINE n == Len(buf) - pos
             rest == IF Len(c) > n THEN SubSeq(c, n + 1, Len(c))
                     ELSE SubSeq(buf, pos + Len(c) + 1, Len(buf))
  <2>1. within' = TRUE
    BY <1>6 DEF StringWrite
  <2>2. PICK s \in CString(c) : buf' = SubSeq(buf, 1, pos) \o s \o rest
    BY <1>6 DEF StringWrite
  <2>3. pos \in 0 .. Len(buf) /\ n \in Nat /\ pos \in Nat
    BY <1>2, <1>6 DEF StreamTypes
  <2>4. SubSeq(buf, 1, pos) \in Seq(Byte) /\ s \in Seq(Byte)
    BY <1>2, <2>3, FirstBytes, CStringType DEF StreamTypes
  <2>5. rest \in Seq(Byte)
    <3>1. /\ \A k \in n + 1 .. Len(c) : c[k] \in Byte
          /\ \A k \in pos + Len(c) + 1 .. Len(buf) : buf[k] \in Byte
      BY <1>2, <2>3, ElementOfSeq DEF StreamTypes
    <3>2. SubSeq(c, n + 1, Len(c)) \in Seq(Byte)
      BY <1>2, <2>3, <3>1, SubSeqProperties
    <3>3. SubSeq(buf, pos + Len(c) + 1, Len(buf)) \in Seq(Byte)
      BY <1>2, <2>3, <3>1, SubSeqProperties
    <3> QED BY <3>2, <3>3
  <2> HIDE DEF rest
  <2>6. buf' \in Seq(Byte)
    BY <2>2, <2>4, <2>5, ConcatProperties
  <2>7. StreamTypes'
    BY <1>1, <1>2, <1>3, <2>1, <2>6 DEF StreamTypes
  <2> QED BY <1>1, <1>4, <2>1, <2>7 DEF StreamInv, Buffered, StringAppends
<1> QED BY <1>5, <1>6 DEF StringWrite

LEMMA StringSeekStep == ASSUME StreamInv, NEW p \in Nat, StringSeek(p)
                        PROVE  StreamInv'
<1>1. /\ kind = "string" /\ UNCHANGED <<kind, base, size, within>>
      /\ pos' = p /\ ret' = p /\ since' = <<>> /\ from' = p
      /\ buf' = IF p > Len(buf) THEN Overlay(buf, p - 1, <<0>>) ELSE buf
  BY DEF StringSeek, Sought
<1>2. StreamTypes /\ Len(buf) \in Nat
  BY LenProperties DEF StreamInv, StreamTypes
<1>3. since' \in Seq(Byte) /\ Len(since') = 0
  BY <1>1, EmptySeq
<1>4. buf' \in Seq(Byte) /\ p <= Len(buf')
  <2>1. CASE p > Len(buf)
    <3>1. <<0>> \in Seq(Byte) /\ Len(<<0>>) = 1 /\ <<0>> # <<>>
      BY StreamAssumption
    <3>2. p - 1 \in Nat
      BY <1>2, <2>1
    <3>3. p - 1 + 1 = p
      OBVIOUS
    <3>4. /\ Overlay(buf, p - 1, <<0>>) \in Seq(Byte)
          /\ Len(Overlay(buf, p - 1, <<0>>)) = p
      <4> DEFINE o == Overlay(buf, p - 1, <<0>>)
      <4>1. /\ o \in Seq(Byte)
            /\ Len(o) = IF <<0>> # <<>> /\ Len(buf) < p - 1 + Len(<<0>>)
                           THEN p - 1 + Len(<<0>>) ELSE Len(buf)
        BY <1>2, <3>1, <3>2, OverlayIs DEF StreamTypes
      <4> HIDE DEF o
      <4>2. Len(o) = IF Len(buf) < p THEN p ELSE Len(buf)
        BY <3>1, <3>3, <4>1
      <4> QED BY <1>2, <2>1, <4>1, <4>2 DEF o
    <3> QED BY <1>1, <2>1, <3>4
  <2>2. CASE ~(p > Len(buf))
    BY <1>1, <1>2, <2>2 DEF StreamTypes
  <2> QED BY <2>1, <2>2
<1>5. StreamTypes'
  BY <1>1, <1>2, <1>3, <1>4 DEF StreamTypes
<1>6. PositionKept'
  BY <1>1, <1>3 DEF PositionKept
<1>7. StringAppends'
  <2>1. Len(buf') \in Nat
    BY <1>4, LenProperties
  <2>2. /\ p + Len(since') <= Len(buf')
        /\ SubSeq(buf', p + 1, p + Len(since')) = since'
    BY <1>3, <1>4, <2>1, FoundBehind
  <2> QED BY <1>1, <2>2 DEF StringAppends
<1> QED BY <1>1, <1>5, <1>6, <1>7 DEF StreamInv, Buffered

\* A read of the input streams.
LEMMA InputStep ==
    ASSUME StreamInv, kind \in Inputs, UNCHANGED <<kind, buf, base, size>>,
           NEW c \in Seq(Byte), pos' = pos + Len(c), ret' = Len(c), Take(c),
           kind = "memory_in" => pos + Len(c) <= size
    PROVE  StreamInv'
<1>1. Len(c) \in Nat
  BY LenProperties
<1>2. since \o c \in Seq(Byte)
  BY HistoryType
<1>3. StreamTypes'
  BY <1>1, <1>2 DEF StreamInv, StreamTypes, Take
<1> QED BY <1>1, <1>3 DEF StreamInv, Buffered, PositionKept, StringAppends,
                          StreamTypes, Take, Inputs

LEMMA ContentType ==
    ASSUME StreamTypes
    PROVE  /\ Content = Behind(buf, base)
           /\ Content \in Seq(Byte)
           /\ base < Len(buf) => Len(Content) = Len(buf) - base
           /\ base >= Len(buf) => Len(Content) = 0
<1>1. Content = Behind(buf, base)
  BY DEF Content, Behind
<1>2. buf \in Seq(Byte) /\ base \in Nat
  BY DEF StreamTypes
<1>3. /\ Behind(buf, base) \in Seq(Byte)
      /\ Len(Behind(buf, base)) = IF base < Len(buf) THEN Len(buf) - base ELSE 0
  BY <1>2, BehindIs
<1> QED BY <1>1, <1>2, <1>3, LenProperties

\* What a read of n bytes from the file hands out.
LEMMA FileReadStep ==
    ASSUME StreamInv, NEW n \in Nat, FileRead(n)
    PROVE  /\ StreamInv'
           /\ \/ /\ UNCHANGED <<pos, history>>
              \/ \E k \in 0 .. size - pos :
                    /\ Len(Origin!Piece(Content, pos, k)) = k
                    /\ pos' = pos + k
                    /\ since' = since \o Origin!Piece(Content, pos, k)
<1> DEFINE m == IF n > size - pos THEN size - pos ELSE n
           c == Origin!Piece(Content, pos, m)
<1>1. kind = "file_in" /\ UNCHANGED <<kind, buf, base, size>> /\ StreamTypes
  BY DEF FileRead, StreamInv
<1>2. CASE ret' = -1 /\ UNCHANGED <<pos, history>>
  BY <1>1, <1>2, SeekStep
<1>3. CASE m >= 0 /\ pos' = pos + Len(c) /\ ret' = Len(c) /\ Take(c)
  <2>1. pos \in Nat /\ m \in Nat /\ m <= size - pos /\ size \in Int
    BY <1>1, <1>3 DEF StreamTypes
  <2> HIDE DEF m
  <2>2. /\ c \in Seq(Byte) /\ Len(c) \in 0 .. m
        /\ Origin!Piece(Content, pos, Len(c)) = c
    BY <1>1, <2>1, ContentType, PieceIs
  <2> HIDE DEF c
  <2>3. StreamInv'
    BY <1>1, <1>3, <2>2, InputStep DEF Inputs
  <2>4. Len(c) \in 0 .. size - pos
    BY <2>1, <2>2
  <2> QED BY <1>3, <2>2, <2>3, <2>4 DEF Take
<1> QED BY <1>2, <1>3 DEF FileRead

\* And from the copy of a buffer.
LEMMA MemoryReadStep ==
    ASSUME StreamInv, NEW n \in Nat, MemoryRead(n)
    PROVE  /\ StreamInv'
           /\ \E k \in 0 .. size - pos :
                 /\ Len(Origin!Piece(Content, pos, k)) = k
                 /\ pos' = pos + k
                 /\ since' = since \o Origin!Piece(Content, pos, k)
<1> DEFINE m == IF n > size - pos THEN size - pos ELSE n
           c == Origin!Piece(buf, pos, m)
<1>1. /\ kind = "memory_in" /\ UNCHANGED <<kind, buf, base, size>>
      /\ pos' = pos + m /\ ret' = m /\ Take(c)
  BY DEF MemoryRead
<1>2. /\ StreamTypes /\ base = 0 /\ size = Len(buf) /\ pos <= size
      /\ buf \in Seq(Byte) /\ pos \in Nat /\ size \in Nat
  BY <1>1, LenProperties DEF StreamInv, StreamTypes, Buffered
<1>3. Content = buf
  BY <1>2, WholeContent
<1>4. m \in Nat /\ m \in 0 .. size - pos /\ pos + m <= size
  BY <1>2
<1> HIDE DEF m
<1>5. c \in Seq(Byte) /\ Len(c) = m
  <2>1. c = SubSeq(buf, pos + 1, pos + m)
    BY <1>2, <1>4 DEF Origin!Piece
  <2>2. \A k \in pos + 1 .. pos + m : buf[k] \in Byte
    BY <1>2, <1>4, ElementOfSeq
  <2>3. /\ SubSeq(buf, pos + 1, pos + m) \in Seq(Byte)
        /\ Len(SubSeq(buf, pos + 1, pos + m)) =
             IF pos + 1 <= pos + m THEN pos + m - (pos + 1) + 1 ELSE 0
    BY <1>2, <1>4, <2>2, SubSeqProperties
  <2> HIDE DEF c
  <2>4. pos + m - (pos + 1) + 1 = m /\ (pos + 1 <= pos + m <=> m > 0)
    BY <1>2, <1>4
  <2> QED BY <1>4, <2>1, <2>3, <2>4
<1> HIDE DEF c
<1>6. StreamInv'
  BY <1>1, <1>4, <1>5, InputStep DEF Inputs
<1> QED BY <1>1, <1>3, <1>4, <1>5, <1>6 DEF Take, c

\* The file changes under its reader.
LEMMA ResizeStep == ASSUME StreamInv, Resize
                    PROVE  StreamInv'
<1>1. kind = "file_in" /\ UNCHANGED <<kind, base, size, pos, ret, history>>
  BY DEF Resize
<1>2. buf \in Seq(Byte)
  BY DEF StreamInv, StreamTypes
<1>3. buf' \in Seq(Byte)
  <2>1. ASSUME NEW n \in 0 .. Len(buf), buf' = SubSeq(buf, 1, n)
        PROVE  buf' \in Seq(Byte)
    BY <1>2, <2>1, FirstBytes
  <2>2. ASSUME NEW b \in Byte, buf' = Append(buf, b)
        PROVE  buf' \in Seq(Byte)
    BY <1>2, <2>2, AppendProperties
  <2> QED BY <2>1, <2>2 DEF Resize
<1>4. StreamTypes'
  BY <1>1, <1>3 DEF StreamInv, StreamTypes, history
<1> QED BY <1>1, <1>4 DEF StreamInv, Buffered, PositionKept, StringAppends,
                          history

LEMMA SeekInv == ASSUME StreamInv, NEW p \in Nat,
                        \/ FileSeek(p) \/ MemorySeek(p) \/ StringSeek(p)
                        \/ FileInputSeek(p) \/ MemoryInputSeek(p)
                 PROVE  StreamInv'
<1>1. CASE FileSeek(p)
  BY <1>1, SeekStep DEF FileSeek
<1>2. CASE MemorySeek(p)
  <2>1. /\ kind = "memory" /\ UNCHANGED <<kind, buf, base, size>>
        /\ ret' \in {-1, p} /\ (p > size \/ p <= size)
    BY <1>2 DEF MemorySeek, StreamInv, StreamTypes
  <2> QED BY <1>2, <2>1, SeekStep DEF MemorySeek
<1>3. CASE StringSeek(p)
  BY <1>3, StringSeekStep
<1>4. CASE FileInputSeek(p)
  BY <1>4, SeekStep DEF FileInputSeek
<1>5. CASE MemoryInputSeek(p)
  <2>1. /\ kind = "memory_in" /\ UNCHANGED <<kind, buf, base, size>>
        /\ ret' \in {-1, p} /\ (p > size \/ p <= size)
    BY <1>5 DEF MemoryInputSeek, StreamInv, StreamTypes
  <2> QED BY <1>5, <2>1, SeekStep DEF MemoryInputSeek
<1> QED BY <1>1, <1>2, <1>3, <1>4, <1>5

\* The bounds of the model are bounds on sets of naturals.
LEMMA BoundTypes == /\ \A n \in 0 .. MaxAsk : n \in Nat
                    /\ \A p \in 0 .. MaxLen : p \in Nat
BY StreamAssumption

LEMMA StreamInvNext == StreamInv /\ [StreamNext]_streamVars => StreamInv'
<1> SUFFICES ASSUME StreamInv, [StreamNext]_streamVars PROVE StreamInv'
  OBVIOUS
<1>1. CASE Write
  BY <1>1, ChunkType, FileWriteStep, MemoryWriteStep, StringWriteStep DEF Write
<1>2. CASE Read
  BY <1>2, BoundTypes, FileReadStep, MemoryReadStep DEF Read
<1>3. CASE Seek
  BY <1>3, BoundTypes, SeekInv DEF Seek
<1>4. CASE Resize
  BY <1>4, ResizeStep
<1>5. CASE UNCHANGED streamVars
  BY <1>5 DEF streamVars, history, StreamInv, StreamTypes, Buffered,
              PositionKept, StringAppends
<1> QED BY <1>1, <1>2, <1>3, <1>4, <1>5 DEF StreamNext

-------------------------------------------------------------------------------
(***************************************************************************)
(* A file or a buffer is a sink.                                           *)
(***************************************************************************)

LEMMA SinkFits == StreamInv => Target!Fits
<1> SUFFICES ASSUME StreamInv PROVE Target!Fits
  OBVIOUS
<1>1. CASE kind = "file"
  BY <1>1 DEF StreamInv, Buffered, Target!Fits, Target!Endless, SinkCap, IsSink
<1>2. CASE kind = "memory"
  <2>1. Content = buf
    BY <1>2, WholeContent DEF StreamInv, StreamTypes, Buffered
  <2>2. size = Len(buf) /\ pos <= size /\ Len(buf) \in Nat
    BY <1>2, LenProperties DEF StreamInv, StreamTypes, Buffered
  <2> QED BY <1>2, <2>1, <2>2
          DEF Target!Fits, SinkCap, SinkBytes, SinkAt, IsSink
<1>3. CASE ~IsSink
  <2>1. Len(<<>>) = 0
    BY EmptySeq
  <2> QED BY <1>3, <2>1 DEF Target!Fits, SinkCap, SinkBytes, SinkAt
<1> QED BY <1>1, <1>2, <1>3 DEF IsSink

LEMMA SinkInit == StreamInit => Target!Init
<1> SUFFICES ASSUME StreamInit PROVE Target!Init
  OBVIOUS
<1>1. StreamInv
  BY StreamInvInit
<1>2. Content \in Seq(Byte) /\ <<>> \in Seq(Byte)
  BY <1>1, ContentType, EmptySeq DEF StreamInv
<1>3. SinkBytes \in Seq(Byte) /\ SinkCap \in Int /\ SinkAt \in Nat
  BY <1>1, <1>2 DEF StreamInv, StreamTypes, SinkBytes, SinkCap, SinkAt
<1>4. SinkRet = 0
  BY DEF StreamInit, SinkRet
<1> QED BY <1>1, <1>3, <1>4, SinkFits DEF Target!Init

\* What a write of a file or a buffer is to the sink.
LEMMA SinkWrites ==
    ASSUME IsSink, IsSink', NEW c \in Chunks, NEW n \in 0 .. Len(c),
           Content' = Overlay(Content, pos, SubSeq(c, 1, n)),
           pos' = pos + n, ret' = n \/ (n = 0 /\ ret' = -1)
    PROVE  Target!Write
BY DEF Target!Write, SinkBytes, SinkAt, SinkRet, Overlay

LEMMA FileWriteSinks ==
    ASSUME StreamInv, NEW c \in Chunks, FileWrite(c)
    PROVE  Target!Write /\ UNCHANGED SinkCap
<1>1. kind = "file" /\ UNCHANGED <<kind, base, size>> /\ IsSink /\ IsSink'
  BY DEF FileWrite, IsSink
<1>2. buf \in Seq(Byte) /\ base \in Nat /\ pos \in Nat /\ c \in Seq(Byte)
  BY ChunkType DEF StreamInv, StreamTypes
<1>3. Content = Behind(buf, base) /\ Content' = Behind(buf', base)
  BY <1>1 DEF Content, Behind
<1>4. CASE ret' = -1 /\ UNCHANGED <<buf, pos, history>>
  <2>1. SubSeq(c, 1, 0) = <<>>
    BY SubSeqEmpty
  <2>2. Content' = Overlay(Content, pos, SubSeq(c, 1, 0))
    BY <1>3, <1>4, <2>1 DEF Overlay, Target!Overlay
  <2>3. 0 \in 0 .. Len(c) /\ pos' = pos + 0
    BY <1>2, <1>4, LenProperties
  <2>4. Target!Write
    BY <1>1, <1>4, <2>2, <2>3, SinkWrites
  <2> QED BY <1>1, <2>4 DEF SinkCap
<1>5. ASSUME NEW n \in 0 .. Len(c),
             buf' = Overlay(buf, base + pos, SubSeq(c, 1, n)),
             pos' = pos + n, ret' = n
      PROVE  Target!Write
  <2>1. SubSeq(c, 1, n) \in Seq(Byte)
    BY <1>2, FirstBytes
  <2>2. Content' = Overlay(Content, pos, SubSeq(c, 1, n))
    BY <1>2, <1>3, <1>5, <2>1, OverlayBehind
  <2> QED BY <1>1, <1>5, <2>2, SinkWrites
<1> QED BY <1>1, <1>4, <1>5 DEF FileWrite, SinkCap

LEMMA MemoryWriteSinks ==
    ASSUME StreamInv, NEW c \in Chunks, MemoryWrite(c)
    PROVE  Target!Write /\ UNCHANGED SinkCap
<1>1. kind = "memory" /\ UNCHANGED <<kind, base, size>> /\ IsSink /\ IsSink'
  BY DEF MemoryWrite, IsSink
<1>2. PICK n \in 0 .. Len(c) :
         /\ buf' = Overlay(buf, pos, SubSeq(c, 1, n))
         /\ pos' = pos + n
         /\ ret' = n
  BY ChunkType, MemoryWriteStep
<1>3. /\ buf \in Seq(Byte) /\ base = 0 /\ pos \in Nat /\ c \in Seq(Byte)
  BY <1>1, ChunkType DEF StreamInv, StreamTypes, Buffered
<1>4. SubSeq(c, 1, n) \in Seq(Byte)
  BY <1>3, FirstBytes
<1>5. Content = Behind(buf, 0) /\ Content' = Behind(buf', 0)
  BY <1>1, <1>3 DEF Content, Behind
<1>6. Content' = Overlay(Content, pos, SubSeq(c, 1, n))
  <2>1. base \in Nat /\ buf \in Seq(Byte) /\ pos \in Nat
    BY <1>3
  <2>2. Behind(Overlay(buf, base + pos, SubSeq(c, 1, n)), base)
          = Overlay(Behind(buf, base), pos, SubSeq(c, 1, n))
    BY <1>4, <2>1, OverlayBehind
  <2>3. base = 0 /\ base + pos = pos
    BY <1>3
  <2> QED BY <1>2, <1>5, <2>2, <2>3
<1> QED BY <1>1, <1>2, <1>6, SinkWrites DEF SinkCap

LEMMA SeekSinks ==
    ASSUME StreamInv, NEW p \in Nat, FileSeek(p) \/ MemorySeek(p)
    PROVE  Target!Seek /\ UNCHANGED SinkCap
<1>1. UNCHANGED <<kind, buf, base, size>> /\ IsSink /\ IsSink'
  BY DEF FileSeek, MemorySeek, IsSink
<1>2. UNCHANGED SinkBytes /\ UNCHANGED SinkCap
  BY <1>1 DEF SinkBytes, SinkCap, Content
<1>3. \/ pos' \in Nat /\ ret' \in {0, pos'}
      \/ ret' = -1 /\ UNCHANGED pos
  BY DEF FileSeek, MemorySeek, history
<1> QED BY <1>1, <1>2, <1>3 DEF Target!Seek, SinkAt, SinkRet

\* The other streams are no sinks.
LEMMA NoSink == ASSUME ~IsSink, kind' = kind
                PROVE  UNCHANGED Target!sinkVars
<1>1. ~IsSink'
  BY DEF IsSink
<1> QED BY <1>1 DEF Target!sinkVars, SinkBytes, SinkCap, SinkAt, SinkRet

LEMMA KindStays == ASSUME [StreamNext]_streamVars
                   PROVE  kind' = kind
BY DEF StreamNext, streamVars, Write, Read, Seek, Resize, FileWrite,
       MemoryWrite, StringWrite, FileRead, MemoryRead, FileSeek, MemorySeek,
       StringSeek, FileInputSeek, MemoryInputSeek

LEMMA SinkStep == ASSUME StreamInv, Target!Fits', [StreamNext]_streamVars
                  PROVE  [Target!Next]_(Target!sinkVars)
<1>1. CASE ~IsSink
  BY <1>1, KindStays, NoSink
<1>2. CASE IsSink /\ Write
  <2>1. PICK c \in Chunks : FileWrite(c) \/ MemoryWrite(c)
    BY <1>2 DEF Write, IsSink, StringWrite
  <2> QED BY <2>1, FileWriteSinks, MemoryWriteSinks DEF Target!Next
<1>3. CASE IsSink /\ Seek
  <2>1. PICK p \in 0 .. MaxLen : FileSeek(p) \/ MemorySeek(p)
    BY <1>3 DEF Seek, IsSink, StringSeek, FileInputSeek, MemoryInputSeek
  <2> QED BY <2>1, BoundTypes, SeekSinks DEF Target!Next
<1>4. CASE IsSink /\ (Read \/ Resize)
  BY <1>4 DEF IsSink, Read, FileRead, MemoryRead, Resize
<1>5. CASE UNCHANGED streamVars
  BY <1>5 DEF streamVars, history, Target!sinkVars, SinkBytes, SinkCap,
              SinkAt, SinkRet, IsSink, Content
<1> QED BY <1>1, <1>2, <1>3, <1>4, <1>5 DEF StreamNext

-------------------------------------------------------------------------------
(***************************************************************************)
(* A file or a copy of a buffer is a source.                               *)
(***************************************************************************)

LEMMA SourceInit == StreamInit => Origin!Init
<1> SUFFICES ASSUME StreamInit PROVE Origin!Init
  OBVIOUS
<1>1. SourceSize \in Int
  <2>1. size \in Int
    BY StreamInvInit DEF StreamInv, StreamTypes
  <2> QED BY <2>1 DEF SourceSize
<1>2. SourceAt = 0 /\ SourceGiven = <<>>
  BY DEF StreamInit, SourceAt, SourceGiven
<1> QED BY <1>1, <1>2 DEF Origin!Init

\* What a read of a file or a buffer is to the source.
LEMMA SourceReads ==
    ASSUME IsSource, IsSource', UNCHANGED <<buf, base, size>>,
           NEW k \in 0 .. size - pos,
           Len(Origin!Piece(Content, pos, k)) = k,
           pos' = pos + k,
           since' = since \o Origin!Piece(Content, pos, k)
    PROVE  Origin!Read
<1>1. /\ SourceBytes = Content /\ SourceSize = size /\ SourceAt = pos
      /\ SourceGiven = since /\ SourceAt' = pos' /\ SourceGiven' = since'
      /\ UNCHANGED SourceBytes /\ UNCHANGED SourceSize
  BY DEF SourceBytes, SourceSize, SourceAt, SourceGiven, Content
<1> QED BY <1>1 DEF Origin!Read

\* A call that moves nothing: only the content may differ afterwards.
LEMMA SourceChanges ==
    ASSUME kind' = kind, UNCHANGED <<size, pos, since>>
    PROVE  Origin!Change
BY DEF Origin!Change, SourceSize, SourceAt, SourceGiven, IsSource

LEMMA SourceSeeks ==
    ASSUME IsSource, NEW p \in Nat, UNCHANGED <<kind, buf, base, size>>,
           pos' = p, Sought(p)
    PROVE  Origin!Seek
<1>1. IsSource'
  BY DEF IsSource
<1>2. SourceAt' = p /\ SourceGiven' = <<>>
  BY <1>1 DEF SourceAt, SourceGiven, Sought
<1>3. UNCHANGED SourceBytes /\ UNCHANGED SourceSize
  BY DEF SourceBytes, SourceSize, Content, IsSource
<1> QED BY <1>2, <1>3 DEF Origin!Seek

LEMMA NoSource == ASSUME ~IsSource, kind' = kind
                  PROVE  UNCHANGED Origin!sourceVars
<1>1. ~IsSource'
  BY DEF IsSource
<1> QED BY <1>1 DEF Origin!sourceVars, SourceBytes, SourceSize, SourceAt,
                    SourceGiven

LEMMA SourceStep == ASSUME StreamInv, [StreamNext]_streamVars
                    PROVE  [Origin!Next]_(Origin!sourceVars)
<1>0. kind' = kind
  BY KindStays
<1>1. CASE ~IsSource
  BY <1>0, <1>1, NoSource
<1>2. CASE IsSource /\ Read
  <2>1. PICK n \in 0 .. MaxAsk : FileRead(n) \/ MemoryRead(n)
    BY <1>2 DEF Read
  <2>2. n \in Nat /\ IsSource' /\ UNCHANGED <<kind, buf, base, size>>
    BY <1>0, <1>2, <2>1, BoundTypes DEF IsSource, FileRead, MemoryRead
  <2>3. CASE UNCHANGED <<pos, history>>
    BY <2>2, <2>3, SourceChanges DEF history, Origin!Next
  <2>4. CASE \E k \in 0 .. size - pos :
                /\ Len(Origin!Piece(Content, pos, k)) = k
                /\ pos' = pos + k
                /\ since' = since \o Origin!Piece(Content, pos, k)
    BY <1>2, <2>2, <2>4, SourceReads DEF Origin!Next
  <2> QED BY <2>1, <2>2, <2>3, <2>4, FileReadStep, MemoryReadStep
<1>3. CASE IsSource /\ Seek
  <2>1. PICK p \in 0 .. MaxLen : FileInputSeek(p) \/ MemoryInputSeek(p)
    BY <1>3 DEF Seek, IsSource, Inputs, FileSeek, MemorySeek, StringSeek
  <2>2. p \in Nat /\ UNCHANGED <<kind, buf, base, size>>
    BY <2>1, BoundTypes DEF FileInputSeek, MemoryInputSeek
  <2>3. CASE pos' = p /\ Sought(p)
    BY <1>3, <2>2, <2>3, SourceSeeks DEF Origin!Next
  <2>4. CASE UNCHANGED <<pos, history>>
    BY <2>2, <2>4, SourceChanges DEF history, Origin!Next
  <2> QED BY <2>1, <2>3, <2>4 DEF FileInputSeek, MemoryInputSeek
<1>4. CASE IsSource /\ Resize
  BY <1>0, <1>4, SourceChanges DEF Resize, history, Origin!Next
<1>5. CASE IsSource /\ Write
  BY <1>5 DEF IsSource, Inputs, Write, FileWrite, MemoryWrite, StringWrite
<1>6. CASE UNCHANGED streamVars
  BY <1>6, SourceChanges DEF streamVars, history, Origin!Next
<1> QED BY <1>1, <1>2, <1>3, <1>4, <1>5, <1>6 DEF StreamNext

-------------------------------------------------------------------------------
\* In every state a position lies within its bounds, and the bytes taken or given
\* since the last seek are the ones from where it went up to the position.
THEOREM StreamInvariant == StreamSpec => []StreamInv
<1> QED BY StreamInvInit, StreamInvNext, PTL DEF StreamSpec

\* The bytes written to a string since the last seek lie where it went, unless
\* a write started below the end.
THEOREM StringsTakeAll == StreamSpec => []StringAppends
<1>1. StreamInv => StringAppends
  BY DEF StreamInv
<1> QED BY <1>1, StreamInvariant, PTL

\* Files and buffers are sinks, for every sequence of calls.
THEOREM StreamsAreSinks == StreamSpec => ImplementsSink
<1>1. StreamInv /\ Target!Fits' /\ [StreamNext]_streamVars
         => [Target!Next]_(Target!sinkVars)
  BY SinkStep
<1> QED BY <1>1, SinkInit, SinkFits, StreamInvariant, PTL
        DEF StreamSpec, ImplementsSink, Target!Spec

\* And those that are read are sources.
THEOREM StreamsAreSources == StreamSpec => ImplementsSource
<1>1. StreamInv /\ [StreamNext]_streamVars => [Origin!Next]_(Origin!sourceVars)
  BY SourceStep
<1> QED BY <1>1, SourceInit, StreamInvariant, PTL
        DEF StreamSpec, ImplementsSource, Origin!Spec

-------------------------------------------------------------------------------
(***************************************************************************)
(* MetaData, for every set of objects, texts and replies: each string has  *)
(* one owner, an object tells what it was told, and calls on one object do *)
(* not show in another (MetaInv).                                          *)
(*                                                                         *)
(* The heart of the argument: deleting the strings of one object leaves    *)
(* those of the others, and cells that new returns were free, so nobody    *)
(* points to them.                                                         *)
(***************************************************************************)

(***************************************************************************)
(* Pointers p, memory m and the cells K of restore strings, of objects     *)
(* that are and of objects that were, before, within and after a call.     *)
(***************************************************************************)

At(p, m, o, f) == IF p[o][f] = NULL THEN Absent ELSE m[p[o][f]]

Owned(p, m, K) ==
    /\ p \in [Obj -> [Texts -> Cell \cup {NULL}]]
    /\ m \in [Cell -> Text \cup {Absent}]
    /\ \A o, q \in Obj : \A f, g \in Texts :
          p[o][f] # NULL /\ p[o][f] = p[q][g] => o = q /\ f = g
    /\ \A o \in Obj : \A f \in Texts :
          p[o][f] # NULL => m[p[o][f]] # Absent /\ p[o][f] \notin K
    /\ \A c \in Cell : m[c] # Absent =>
          c \in K \/ \E o \in Obj : \E f \in Texts : p[o][f] = c
    /\ K \subseteq Cell /\ \A c \in K : m[c] # Absent

\* No text is Absent, and no cell is NULL.
LEMMA TextIsThere == Absent \notin Text /\ NULL \notin Cell
BY MetaAssumption DEF Text, NULL

\* What OneOwner says of the pointers p and the memory m.
OneOwnerOf(p, m, K) ==
    LET Named == {x \in Obj \X Texts : p[x[1]][x[2]] # NULL}
        Held == {p[x[1]][x[2]] : x \in Named}
    IN  /\ \A x, y \in Named : p[x[1]][x[2]] = p[y[1]][y[2]] => x = y
        /\ Held \cap K = {}
        /\ Held \cup K = {c \in Cell : m[c] # Absent}

LEMMA OwnedIsOneOwner ==
    ASSUME NEW p \in [Obj -> [Texts -> Cell \cup {NULL}]],
           NEW m \in [Cell -> Text \cup {Absent}], NEW K
    PROVE  OneOwnerOf(p, m, K) <=> Owned(p, m, K)
<1> DEFINE Named == {x \in Obj \X Texts : p[x[1]][x[2]] # NULL}
           Held == {p[x[1]][x[2]] : x \in Named}
           Live == {c \in Cell : m[c] # Absent}
<1>1. \A o \in Obj : \A f \in Texts : p[o][f] # NULL =>
         <<o, f>> \in Named /\ p[o][f] \in Cell /\ p[o][f] \in Held
  OBVIOUS
<1>2. \A x \in Named : \E o \in Obj : \E f \in Texts :
         x = <<o, f>> /\ p[o][f] = p[x[1]][x[2]] /\ p[o][f] # NULL
  OBVIOUS
<1>3. \A c \in Held : \E o \in Obj : \E f \in Texts :
         p[o][f] = c /\ p[o][f] # NULL
  <2> SUFFICES ASSUME NEW c \in Held
               PROVE  \E o \in Obj : \E f \in Texts :
                         p[o][f] = c /\ p[o][f] # NULL
    OBVIOUS
  <2>1. PICK x \in Named : c = p[x[1]][x[2]]
    OBVIOUS
  <2> QED BY <1>2, <2>1
<1>4. ASSUME OneOwnerOf(p, m, K) PROVE Owned(p, m, K)
  <2>1. /\ \A x, y \in Named : p[x[1]][x[2]] = p[y[1]][y[2]] => x = y
        /\ Held \cap K = {}
        /\ Held \cup K = Live
    BY <1>4 DEF OneOwnerOf
  <2>2. ASSUME NEW o \in Obj, NEW q \in Obj, NEW f \in Texts, NEW g \in Texts,
               p[o][f] # NULL, p[o][f] = p[q][g]
        PROVE  o = q /\ f = g
    <3>1. <<o, f>> \in Named /\ <<q, g>> \in Named
      BY <1>1, <2>2
    <3>2. <<o, f>> = <<q, g>>
      BY <2>1, <2>2, <3>1
    <3> QED BY <3>2
  <2> HIDE DEF Held
  <2>3. ASSUME NEW o \in Obj, NEW f \in Texts, p[o][f] # NULL
        PROVE  m[p[o][f]] # Absent /\ p[o][f] \notin K
    BY <1>1, <2>1, <2>3
  <2>4. ASSUME NEW c \in Cell, m[c] # Absent, c \notin K
        PROVE  \E o \in Obj : \E f \in Texts : p[o][f] = c
    BY <1>3, <2>1, <2>4
  <2>5. K \subseteq Cell /\ \A c \in K : m[c] # Absent
    BY <2>1
  <2> QED BY <2>2, <2>3, <2>4, <2>5 DEF Owned
<1>5. ASSUME Owned(p, m, K) PROVE OneOwnerOf(p, m, K)
  <2>1. ASSUME NEW x \in Named, NEW y \in Named,
               p[x[1]][x[2]] = p[y[1]][y[2]]
        PROVE  x = y
    <3>1. PICK o \in Obj, f \in Texts :
             x = <<o, f>> /\ p[o][f] = p[x[1]][x[2]] /\ p[o][f] # NULL
      BY <1>2
    <3>2. PICK q \in Obj, g \in Texts :
             y = <<q, g>> /\ p[q][g] = p[y[1]][y[2]]
      BY <1>2
    <3>3. o = q /\ f = g
      BY <1>5, <2>1, <3>1, <3>2 DEF Owned
    <3> QED BY <3>1, <3>2, <3>3
  <2>2. \A c \in Held : c \in Cell /\ m[c] # Absent /\ c \notin K
    <3> HIDE DEF Held
    <3> QED BY <1>1, <1>3, <1>5 DEF Owned
  <2>3. \A c \in Live : c \in K \/ c \in Held
    <3> SUFFICES ASSUME NEW c \in Cell, m[c] # Absent, c \notin K
                 PROVE  c \in Held
      OBVIOUS
    <3>1. PICK o \in Obj, f \in Texts : p[o][f] = c
      BY <1>5 DEF Owned
    <3> QED BY <1>1, <3>1, TextIsThere
  <2>4. K \subseteq Live
    BY <1>5 DEF Owned
  <2>5. Held \cap K = {} /\ Held \cup K = Live
    <3> HIDE DEF Held, Live
    <3>1. Held \subseteq Live
      BY <2>2 DEF Live
    <3> QED BY <2>2, <2>3, <2>4, <3>1
  <2> QED BY <2>1, <2>5 DEF OneOwnerOf
<1> QED BY <1>4, <1>5

\* Memory after the strings of o are deleted.
FreedOf(p, m, o) ==
    [c \in Cell |-> IF c \in {p[o][f] : f \in Texts} \ {NULL} THEN Absent
                    ELSE m[c]]

\* The pointers when d has none, when s hands its own to d, and when d has at.
Cleared(p, d) == [p EXCEPT ![d] = NoTexts]
Moved(p, d, s) == [p EXCEPT ![d] = p[s], ![s] = NoTexts]
Pointed(p, d, at) == [p EXCEPT ![d] = at]

\* What is left of memory when the strings of d are deleted: those of others.
LEMMA FreeingKeeps ==
    ASSUME NEW p, NEW m, NEW K, Owned(p, m, K), NEW d \in Obj
    PROVE  /\ FreedOf(p, m, d) \in [Cell -> Text \cup {Absent}]
           /\ \A o \in Obj : \A f \in Texts : o # d /\ p[o][f] # NULL =>
                 FreedOf(p, m, d)[p[o][f]] = m[p[o][f]]
           /\ \A c \in Cell : FreedOf(p, m, d)[c] # Absent =>
                 c \in K \/ \E o \in Obj \ {d} : \E f \in Texts : p[o][f] = c
           /\ \A c \in K : FreedOf(p, m, d)[c] # Absent
<1> DEFINE n == FreedOf(p, m, d)
<1>1. n \in [Cell -> Text \cup {Absent}]
  BY DEF Owned, FreedOf
<1>2. \A c \in Cell : n[c] = IF \E f \in Texts : p[d][f] = c THEN Absent
                             ELSE m[c]
  BY TextIsThere DEF FreedOf
<1> HIDE DEF n
<1>3. ASSUME NEW o \in Obj, NEW f \in Texts, o # d, p[o][f] # NULL
      PROVE  n[p[o][f]] = m[p[o][f]]
  <2>1. p[o][f] \in Cell
    BY <1>3 DEF Owned
  <2>2. ~\E g \in Texts : p[d][g] = p[o][f]
    BY <1>3 DEF Owned
  <2> QED BY <1>2, <2>1, <2>2
<1>4. ASSUME NEW c \in Cell, n[c] # Absent, c \notin K
      PROVE  \E o \in Obj \ {d} : \E f \in Texts : p[o][f] = c
  <2>1. m[c] # Absent /\ ~\E f \in Texts : p[d][f] = c
    BY <1>2, <1>4
  <2>2. PICK o \in Obj, f \in Texts : p[o][f] = c
    BY <1>4, <2>1 DEF Owned
  <2> QED BY <2>1, <2>2
<1>5. ASSUME NEW c \in K PROVE n[c] # Absent
  <2>1. c \in Cell /\ m[c] # Absent
    BY DEF Owned
  <2>2. ~\E f \in Texts : p[d][f] = c
    BY <2>1, TextIsThere DEF Owned
  <2> QED BY <1>2, <2>1, <2>2
<1> QED BY <1>1, <1>3, <1>4, <1>5 DEF n

\* clear(): d has no string any more, the others have theirs.
LEMMA Freeing ==
    ASSUME NEW p, NEW m, NEW K, Owned(p, m, K), NEW d \in Obj
    PROVE  LET p2 == Cleared(p, d)
               m2 == FreedOf(p, m, d)
           IN  /\ Owned(p2, m2, K)
               /\ \A f \in Texts : At(p2, m2, d, f) = Absent
               /\ \A o \in Obj \ {d} : \A f \in Texts :
                     At(p2, m2, o, f) = At(p, m, o, f)
<1> DEFINE p2 == Cleared(p, d)
           m2 == FreedOf(p, m, d)
<1>1. p2 \in [Obj -> [Texts -> Cell \cup {NULL}]]
  BY DEF Owned, NoTexts, Cleared
<1>2. /\ \A o \in Obj \ {d} : p2[o] = p[o]
      /\ \A f \in Texts : p2[d][f] = NULL
  BY DEF Owned, NoTexts, Cleared
<1>3. /\ m2 \in [Cell -> Text \cup {Absent}]
      /\ \A o \in Obj : \A f \in Texts : o # d /\ p[o][f] # NULL =>
            m2[p[o][f]] = m[p[o][f]]
      /\ \A c \in Cell : m2[c] # Absent =>
            c \in K \/ \E o \in Obj \ {d} : \E f \in Texts : p[o][f] = c
      /\ \A c \in K : m2[c] # Absent
  BY FreeingKeeps
<1> HIDE DEF p2, m2
<1>4. Owned(p2, m2, K)
  <2>1. ASSUME NEW o \in Obj, NEW q \in Obj, NEW f \in Texts, NEW g \in Texts,
               p2[o][f] # NULL, p2[o][f] = p2[q][g]
        PROVE  o = q /\ f = g
    BY <1>2, <2>1 DEF Owned
  <2>2. ASSUME NEW o \in Obj, NEW f \in Texts, p2[o][f] # NULL
        PROVE  m2[p2[o][f]] # Absent /\ p2[o][f] \notin K
    BY <1>2, <1>3, <2>2 DEF Owned
  <2>3. ASSUME NEW c \in Cell, m2[c] # Absent, c \notin K
        PROVE  \E o \in Obj : \E f \in Texts : p2[o][f] = c
    BY <1>2, <1>3, <2>3
  <2>4. K \subseteq Cell
    BY DEF Owned
  <2> QED BY <1>1, <1>3, <2>1, <2>2, <2>3, <2>4 DEF Owned
<1>5. \A f \in Texts : At(p2, m2, d, f) = Absent
  BY <1>2 DEF At
<1>6. \A o \in Obj \ {d} : \A f \in Texts : At(p2, m2, o, f) = At(p, m, o, f)
  BY <1>2, <1>3 DEF At
<1> QED BY <1>4, <1>5, <1>6 DEF p2, m2

\* move_from(): d has what s had, s has nothing, the others have theirs.
LEMMA Moving ==
    ASSUME NEW p, NEW m, NEW K, Owned(p, m, K), NEW d \in Obj, NEW s \in Obj, d # s
    PROVE  LET p2 == Moved(p, d, s)
               m2 == FreedOf(p, m, d)
           IN  /\ Owned(p2, m2, K)
               /\ \A f \in Texts : At(p2, m2, d, f) = At(p, m, s, f)
               /\ \A f \in Texts : At(p2, m2, s, f) = Absent
               /\ \A o \in Obj \ {d, s} : \A f \in Texts :
                     At(p2, m2, o, f) = At(p, m, o, f)
<1> DEFINE p2 == Moved(p, d, s)
           m2 == FreedOf(p, m, d)
<1>1. p2 \in [Obj -> [Texts -> Cell \cup {NULL}]]
  BY DEF Owned, NoTexts, Moved
<1>2. /\ \A o \in Obj \ {d, s} : p2[o] = p[o]
      /\ p2[d] = p[s]
      /\ \A f \in Texts : p2[s][f] = NULL
  BY DEF Owned, NoTexts, Moved
<1>3. /\ m2 \in [Cell -> Text \cup {Absent}]
      /\ \A o \in Obj : \A f \in Texts : o # d /\ p[o][f] # NULL =>
            m2[p[o][f]] = m[p[o][f]]
      /\ \A c \in Cell : m2[c] # Absent =>
            c \in K \/ \E o \in Obj \ {d} : \E f \in Texts : p[o][f] = c
      /\ \A c \in K : m2[c] # Absent
  BY FreeingKeeps
<1> HIDE DEF p2, m2
<1>4. Owned(p2, m2, K)
  <2>1. ASSUME NEW o \in Obj, NEW q \in Obj, NEW f \in Texts, NEW g \in Texts,
               p2[o][f] # NULL, p2[o][f] = p2[q][g]
        PROVE  o = q /\ f = g
    <3>1. o # s /\ q # s
      BY <1>2, <2>1
    <3>2. PICK x \in Obj, y \in Obj :
             /\ x = (IF o = d THEN s ELSE o) /\ y = (IF q = d THEN s ELSE q)
             /\ p2[o] = p[x] /\ p2[q] = p[y]
      BY <1>2, <3>1
    <3>3. x = y /\ f = g
      BY <2>1, <3>2 DEF Owned
    <3> QED BY <3>1, <3>2, <3>3
  <2>2. ASSUME NEW o \in Obj, NEW f \in Texts, p2[o][f] # NULL
        PROVE  m2[p2[o][f]] # Absent /\ p2[o][f] \notin K
    <3>1. o # s
      BY <1>2, <2>2
    <3>2. PICK x \in Obj \ {d} : p2[o] = p[x]
      BY <1>2, <3>1
    <3>3. /\ m[p[x][f]] # Absent /\ p[x][f] \notin K
          /\ m2[p[x][f]] = m[p[x][f]]
      BY <1>3, <2>2, <3>2 DEF Owned
    <3> QED BY <3>2, <3>3
  <2>3. ASSUME NEW c \in Cell, m2[c] # Absent, c \notin K
        PROVE  \E o \in Obj : \E f \in Texts : p2[o][f] = c
    <3>1. PICK o \in Obj \ {d}, f \in Texts : p[o][f] = c
      BY <1>3, <2>3
    <3> QED BY <1>2, <3>1
  <2>4. K \subseteq Cell
    BY DEF Owned
  <2> QED BY <1>1, <1>3, <2>1, <2>2, <2>3, <2>4 DEF Owned
<1>5. /\ \A f \in Texts : At(p2, m2, d, f) = At(p, m, s, f)
      /\ \A f \in Texts : At(p2, m2, s, f) = Absent
  BY <1>2, <1>3 DEF At
<1>6. \A o \in Obj \ {d, s} : \A f \in Texts :
         At(p2, m2, o, f) = At(p, m, o, f)
  BY <1>2, <1>3 DEF At
<1> QED BY <1>4, <1>5, <1>6 DEF p2, m2

\* Strings w for texts of d, overwritten where there is one, else made where
\* memory is free: d has these, and otherwise everyone has what they had.
LEMMA Storing ==
    ASSUME NEW p, NEW m, NEW K, Owned(p, m, K), NEW d \in Obj,
           NEW w, DOMAIN w \subseteq Texts, \A f \in DOMAIN w : w[f] \in Text,
           NEW g \in New(m, {f \in DOMAIN w : p[d][f] = NULL})
    PROVE  LET at == Over(g, p[d])
               p2 == Pointed(p, d, at)
               m2 == Filled(m, at, w)
           IN  /\ Owned(p2, m2, K)
               /\ \A f \in Texts : At(p2, m2, d, f) =
                     IF f \in DOMAIN w THEN w[f] ELSE At(p, m, d, f)
               /\ \A o \in Obj \ {d} : \A f \in Texts :
                     At(p2, m2, o, f) = At(p, m, o, f)
<1> DEFINE made == {f \in DOMAIN w : p[d][f] = NULL}
           at == Over(g, p[d])
           p2 == Pointed(p, d, at)
           m2 == Filled(m, at, w)
<1>1. /\ g \in [made -> {c \in Cell : m[c] = Absent}]
      /\ \A f, h \in made : g[f] = g[h] => f = h
  BY DEF New, Injection, IsInjective
<1>2. /\ at \in [Texts -> Cell \cup {NULL}]
      /\ \A f \in Texts : at[f] = IF f \in made THEN g[f] ELSE p[d][f]
  <2>1. p[d] \in [Texts -> Cell \cup {NULL}] /\ made \subseteq Texts
    BY DEF Owned
  <2> QED BY <1>1, <2>1 DEF Over
<1>3. \A f \in DOMAIN w : at[f] \in Cell
  BY <1>1, <1>2 DEF Owned
<1>14. \A f \in Texts : at[f] # NULL => at[f] \notin K
  BY <1>1, <1>2 DEF Owned
<1>4. \A f, h \in Texts : at[f] # NULL /\ at[f] = at[h] => f = h
  <2> SUFFICES ASSUME NEW f \in Texts, NEW h \in Texts,
                      at[f] # NULL, at[f] = at[h]
               PROVE  f = h
    OBVIOUS
  <2>1. ASSUME NEW x \in Texts, NEW y \in Texts, x \in made, y \notin made,
               at[x] # NULL
        PROVE  at[x] # at[y]
    <3>1. m[at[x]] = Absent
      BY <1>1, <1>2, <2>1
    <3>2. at[y] # NULL => m[at[y]] # Absent
      BY <1>2, <2>1 DEF Owned
    <3> QED BY <2>1, <3>1, <3>2
  <2>2. CASE f \in made /\ h \in made
    BY <1>1, <1>2, <2>2
  <2>3. CASE f \notin made /\ h \notin made
    BY <1>2, <2>3 DEF Owned
  <2> QED BY <2>1, <2>2, <2>3
\* No other object points to where d's strings are.
<1>5. \A o \in Obj \ {d} : \A f, h \in Texts :
         p[o][h] # NULL => at[f] # p[o][h]
  <2> SUFFICES ASSUME NEW o \in Obj \ {d}, NEW f \in Texts, NEW h \in Texts,
                      p[o][h] # NULL
               PROVE  at[f] # p[o][h]
    OBVIOUS
  <2>1. m[p[o][h]] # Absent
    BY DEF Owned
  <2>2. CASE f \in made
    BY <1>1, <1>2, <2>1, <2>2
  <2>3. CASE f \notin made
    BY <1>2, <2>3 DEF Owned
  <2> QED BY <2>2, <2>3
<1>6. /\ \A o \in Obj \ {d} : p2[o] = p[o]
      /\ p2[d] = at
      /\ p2 \in [Obj -> [Texts -> Cell \cup {NULL}]]
  BY <1>2 DEF Owned, Pointed
<1> HIDE DEF made, at, p2
<1>7. \A f \in DOMAIN w : m2[at[f]] = w[f]
  <2> SUFFICES ASSUME NEW f \in DOMAIN w PROVE m2[at[f]] = w[f]
    OBVIOUS
  <2>1. at[f] \in Cell /\ at[f] # NULL
    BY <1>3, TextIsThere
  <2>2. \A h \in DOMAIN w : at[h] = at[f] => h = f
    BY <1>4, <2>1
  <2>3. (CHOOSE h \in DOMAIN w : at[h] = at[f]) = f
    BY <2>2
  <2> QED BY <2>1, <2>3 DEF Filled
<1>8. \A c \in Cell : (\A f \in DOMAIN w : at[f] # c) => m2[c] = m[c]
  BY DEF Filled
<1>9. m2 \in [Cell -> Text \cup {Absent}]
  <2>1. \A c \in Cell : m2[c] \in Text \cup {Absent}
    <3> SUFFICES ASSUME NEW c \in Cell PROVE m2[c] \in Text \cup {Absent}
      OBVIOUS
    <3>1. CASE \E f \in DOMAIN w : at[f] = c
      BY <1>7, <3>1
    <3>2. CASE \A f \in DOMAIN w : at[f] # c
      BY <1>8, <3>2 DEF Owned
    <3> QED BY <3>1, <3>2
  <2>2. m2 = [c \in Cell |-> m2[c]]
    BY DEF Filled
  <2> HIDE DEF m2
  <2> QED BY <2>1, <2>2
<1> HIDE DEF m2
<1>10. \A f \in Texts : At(p2, m2, d, f) =
          IF f \in DOMAIN w THEN w[f] ELSE At(p, m, d, f)
  <2> SUFFICES ASSUME NEW f \in Texts
               PROVE  At(p2, m2, d, f) =
                        IF f \in DOMAIN w THEN w[f] ELSE At(p, m, d, f)
    OBVIOUS
  <2>1. CASE f \in DOMAIN w
    <3>1. at[f] # NULL
      BY <1>3, <2>1, TextIsThere
    <3> QED BY <1>6, <1>7, <2>1, <3>1 DEF At
  <2>2. CASE f \notin DOMAIN w
    <3>1. at[f] = p[d][f]
      BY <1>2, <2>2 DEF made
    <3>2. at[f] # NULL => at[f] \in Cell /\ m2[at[f]] = m[at[f]]
      BY <1>2, <1>4, <1>8, <2>2
    <3> QED BY <1>6, <2>2, <3>1, <3>2 DEF At
  <2> QED BY <2>1, <2>2
<1>11. \A o \in Obj \ {d} : \A h \in Texts :
          p[o][h] # NULL => m2[p[o][h]] = m[p[o][h]]
  BY <1>5, <1>8 DEF Owned
<1>12. Owned(p2, m2, K)
  <2>1. ASSUME NEW o \in Obj, NEW q \in Obj, NEW f \in Texts, NEW h \in Texts,
               p2[o][f] # NULL, p2[o][f] = p2[q][h]
        PROVE  o = q /\ f = h
    <3>1. CASE o = d /\ q = d
      BY <1>4, <1>6, <2>1, <3>1
    <3>2. CASE o # d /\ q # d
      BY <1>6, <2>1, <3>2 DEF Owned
    <3>3. CASE o = d /\ q # d
      BY <1>5, <1>6, <2>1, <3>3
    <3>4. CASE o # d /\ q = d
      BY <1>5, <1>6, <2>1, <3>4
    <3> QED BY <3>1, <3>2, <3>3, <3>4
  <2>2. ASSUME NEW o \in Obj, NEW f \in Texts, p2[o][f] # NULL
        PROVE  m2[p2[o][f]] # Absent /\ p2[o][f] \notin K
    <3>1. CASE o # d
      BY <1>6, <1>11, <2>2, <3>1 DEF Owned
    <3>2. CASE o = d /\ f \in DOMAIN w
      BY <1>6, <1>7, <1>14, <2>2, <3>2, TextIsThere
    <3>3. CASE o = d /\ f \notin DOMAIN w
      <4>1. at[f] = p[d][f]
        BY <1>2, <3>3 DEF made
      <4>2. m2[at[f]] = m[at[f]]
        BY <1>2, <1>4, <1>6, <1>8, <2>2, <3>3
      <4> QED BY <1>6, <2>2, <3>3, <4>1, <4>2 DEF Owned
    <3> QED BY <3>1, <3>2, <3>3
  <2>3. ASSUME NEW c \in Cell, m2[c] # Absent, c \notin K
        PROVE  \E o \in Obj : \E f \in Texts : p2[o][f] = c
    <3>1. CASE \E f \in DOMAIN w : at[f] = c
      BY <1>6, <3>1
    <3>2. CASE \A f \in DOMAIN w : at[f] # c
      <4>1. PICK o \in Obj, f \in Texts : p[o][f] = c
        BY <1>8, <2>3, <3>2 DEF Owned
      <4>2. CASE o # d
        BY <1>6, <4>1, <4>2
      <4>3. CASE o = d
        <5>1. f \notin made
          BY <4>1, <4>3, TextIsThere DEF made
        <5> QED BY <1>2, <1>6, <4>1, <4>3, <5>1
      <4> QED BY <4>2, <4>3
    <3> QED BY <3>1, <3>2
  <2>4. K \subseteq Cell /\ \A c \in K : m2[c] # Absent
    <3>1. \A c \in K : c \in Cell /\ m[c] # Absent
      BY DEF Owned
    <3>2. \A c \in K : \A f \in DOMAIN w : at[f] # c
      BY <1>3, <1>14, TextIsThere
    <3> QED BY <1>8, <3>1, <3>2
  <2> QED BY <1>6, <1>9, <2>1, <2>2, <2>3, <2>4 DEF Owned
<1>13. \A o \in Obj \ {d} : \A f \in Texts : At(p2, m2, o, f) = At(p, m, o, f)
  BY <1>6, <1>11 DEF At
<1> QED BY <1>10, <1>12, <1>13 DEF at, p2, m2

\* Memory when the restore string v is in c.
Put(m, c, v) == [m EXCEPT ![c] = v]

\* A restore string put where one is or where memory is free: everyone has the
\* texts they had.
LEMMA Restoring ==
    ASSUME NEW p, NEW m, NEW K, Owned(p, m, K),
           NEW c \in Cell, c \in K \/ m[c] = Absent, NEW v \in Text
    PROVE  /\ Owned(p, Put(m, c, v), K \cup {c})
           /\ \A o \in Obj : \A f \in Texts :
                 At(p, Put(m, c, v), o, f) = At(p, m, o, f)
<1> DEFINE m2 == Put(m, c, v)
<1>1. /\ m2 \in [Cell -> Text \cup {Absent}]
      /\ m2[c] = v /\ v # Absent
      /\ \A a \in Cell \ {c} : m2[a] = m[a]
  BY TextIsThere DEF Owned, Put
<1> HIDE DEF m2
<1>2. \A o \in Obj : \A f \in Texts :
         p[o][f] # NULL => p[o][f] \in Cell /\ p[o][f] # c
  BY DEF Owned
<1>3. Owned(p, m2, K \cup {c})
  <2>1. ASSUME NEW o \in Obj, NEW f \in Texts, p[o][f] # NULL
        PROVE  m2[p[o][f]] # Absent /\ p[o][f] \notin K \cup {c}
    BY <1>1, <1>2, <2>1 DEF Owned
  <2>2. ASSUME NEW a \in Cell, m2[a] # Absent, a \notin K \cup {c}
        PROVE  \E o \in Obj : \E f \in Texts : p[o][f] = a
    BY <1>1, <2>2 DEF Owned
  <2>3. K \cup {c} \subseteq Cell /\ \A a \in K \cup {c} : m2[a] # Absent
    BY <1>1 DEF Owned
  <2> QED BY <1>1, <2>1, <2>2, <2>3 DEF Owned
<1>4. \A o \in Obj : \A f \in Texts : At(p, m2, o, f) = At(p, m, o, f)
  BY <1>1, <1>2 DEF At
<1> QED BY <1>3, <1>4 DEF m2

-------------------------------------------------------------------------------
(***************************************************************************)
(* The invariant, object by object.                                        *)
(***************************************************************************)

TextsOf(p, m, o) == [f \in Texts |-> At(p, m, o, f)]

\* What the reply h says to an object that has been told nothing else.
Said(h) ==
    LET texts == Over(Only(h, Texts), NoTexts)
    IN  << texts, NumbersOf(NoNumbers, texts["content-range"], h),
           Over(Only(h, Keys), NoUser) >>

Right(t, texts, n, u) == ~t.used => <<texts, n, u>> = Said(t.reply)

LEMMA TellsIs == \A o : Tells(o) = <<TextsOf(ptr, strings, o), num[o], user[o]>>
BY DEF Tells, TextsOf, StringAt, At

\* The cells with restore strings, when r are the pointers and l what is lost.
Kept(r, l) == ({r[o] : o \in Obj} \ {NULL}) \cup l

\* Each of them is of one object, or lost.
KeptOnce(r, l) ==
    /\ \A o, q \in Obj : r[o] = r[q] => o = q \/ r[o] = NULL
    /\ ({r[o] : o \in Obj} \ {NULL}) \cap l = {}

Whole(p, m, r, l) == Owned(p, m, Kept(r, l)) /\ KeptOnce(r, l)

\* The destructor of o drops its pointer to the restore string.
LEMMA Dropping ==
    ASSUME NEW r \in [Obj -> Cell \cup {NULL}], NEW l, KeptOnce(r, l),
           NEW o \in Obj
    PROVE  LET r2 == [r EXCEPT ![o] = NULL]
               l2 == l \cup ({r[o]} \ {NULL})
           IN  Kept(r2, l2) = Kept(r, l) /\ KeptOnce(r2, l2)
<1> DEFINE r2 == [r EXCEPT ![o] = NULL]
           l2 == l \cup ({r[o]} \ {NULL})
<1>1. r2[o] = NULL /\ \A q \in Obj \ {o} : r2[q] = r[q]
  OBVIOUS
<1> HIDE DEF r2
<1>2. \A a : a \in {r2[q] : q \in Obj} \ {NULL} <=>
             a # NULL /\ \E q \in Obj \ {o} : a = r[q]
  BY <1>1
<1>3. Kept(r2, l2) = Kept(r, l)
  BY <1>2 DEF Kept
<1>4. KeptOnce(r2, l2)
  BY <1>1, <1>2 DEF KeptOnce
<1> QED BY <1>3, <1>4 DEF r2

\* A reply's restore string is put where o has one or where nobody has.
LEMMA Keeping ==
    ASSUME NEW r \in [Obj -> Cell \cup {NULL}], NEW l, KeptOnce(r, l),
           NEW o \in Obj, NEW c \in Cell,
           r[o] = c \/ (r[o] = NULL /\ c \notin Kept(r, l))
    PROVE  LET r2 == [r EXCEPT ![o] = c]
           IN  Kept(r2, l) = Kept(r, l) \cup {c} /\ KeptOnce(r2, l)
<1> DEFINE r2 == [r EXCEPT ![o] = c]
<1>1. r2[o] = c /\ c # NULL /\ \A q \in Obj \ {o} : r2[q] = r[q]
  BY TextIsThere
<1>2. \A q \in Obj \ {o} : r[q] # c
  <2>1. CASE r[o] = c
    BY <1>1, <2>1 DEF KeptOnce
  <2>2. CASE c \notin Kept(r, l)
    BY <1>1, <2>2 DEF Kept
  <2> QED BY <2>1, <2>2
<1>3. c \notin l
  BY <1>1 DEF Kept, KeptOnce
<1> HIDE DEF r2
<1>4. \A a : a \in {r2[q] : q \in Obj} \ {NULL} <=>
             a = c \/ (a # NULL /\ \E q \in Obj : a = r[q])
  <2>1. r[o] = c \/ r[o] = NULL
    OBVIOUS
  <2> QED BY <1>1, <2>1
<1>5. Kept(r2, l) = Kept(r, l) \cup {c}
  BY <1>4 DEF Kept
<1>6. KeptOnce(r2, l)
  <2>1. \A q, x \in Obj : r2[q] = r2[x] => q = x \/ r2[q] = NULL
    BY <1>1, <1>2 DEF KeptOnce
  <2>2. ({r2[q] : q \in Obj} \ {NULL}) \cap l = {}
    BY <1>3, <1>4 DEF KeptOnce
  <2> QED BY <2>1, <2>2 DEF KeptOnce
<1> QED BY <1>5, <1>6 DEF r2

LEMMA InvariantIs ==
    MetaInv <=> /\ MetaTypes
                /\ NothingLeft
                /\ Whole(ptr, strings, restore, lost)
                /\ \A o \in Obj : Right(told[o], TextsOf(ptr, strings, o),
                                        num[o], user[o])
<1>1. OneOwner <=> /\ OneOwnerOf(ptr, strings, Kept(restore, lost))
                   /\ KeptOnce(restore, lost)
  <2> DEFINE Named == {p \in Obj \X Texts : ptr[p[1]][p[2]] # NULL}
             Held == {ptr[p[1]][p[2]] : p \in Named}
             Restores == {restore[o] : o \in Obj} \ {NULL}
             Live == {c \in Cell : strings[c] # Absent}
             Once == \A p, q \in Named :
                        ptr[p[1]][p[2]] = ptr[q[1]][q[2]] => p = q
             Apart == \A o, q \in Obj :
                        restore[o] = restore[q] => o = q \/ restore[o] = NULL
  <2>1. OneOwner <=> /\ Once /\ Apart
                     /\ Held \cap (Restores \cup lost) = {}
                     /\ Restores \cap lost = {}
                     /\ Held \cup Restores \cup lost = Live
    BY DEF OneOwner
  <2>2. OneOwnerOf(ptr, strings, Kept(restore, lost)) <=>
           /\ Once
           /\ Held \cap (Restores \cup lost) = {}
           /\ Held \cup (Restores \cup lost) = Live
    BY DEF OneOwnerOf, Kept
  <2>3. KeptOnce(restore, lost) <=> Apart /\ Restores \cap lost = {}
    BY DEF KeptOnce
  <2>4. Held \cup (Restores \cup lost) = Held \cup Restores \cup lost
    OBVIOUS
  <2> HIDE DEF Held, Restores, Live, Once, Apart
  <2> QED BY <2>1, <2>2, <2>3, <2>4
<1>2. MetaTypes => (OneOwnerOf(ptr, strings, Kept(restore, lost)) <=>
                    Owned(ptr, strings, Kept(restore, lost)))
  BY OwnedIsOneOwner DEF MetaTypes
<1>3. SeesReply <=> \A o \in Obj : Right(told[o], TextsOf(ptr, strings, o),
                                        num[o], user[o])
  BY TellsIs DEF SeesReply, Right, Said
<1> QED BY <1>1, <1>2, <1>3 DEF MetaInv, Whole

\* Told nothing, an object tells nothing.
LEMMA SaidNothing == Said(NoReply) = <<NoTexts, NoNumbers, NoUser>>
<1>1. Over(Only(NoReply, Texts), NoTexts) = NoTexts
  BY DEF Over, Only, NoReply, NoTexts
<1>2. Over(Only(NoReply, Keys), NoUser) = NoUser
  BY DEF Over, Only, NoReply, NoUser
<1>3. NoTexts["content-range"] = Absent
  BY MetaAssumption DEF NoTexts, NULL
<1>4. NumbersOf(NoNumbers, Absent, NoReply) = NoNumbers
  BY DEF NumbersOf, NoNumbers, NoReply
<1> QED BY <1>1, <1>2, <1>3, <1>4 DEF Said

Others(S) == \A q \in Obj \ S : Tells(q)' = Tells(q)

\* The types but of pointers and memory, which Owned has.
RestTyped ==
    /\ alive \subseteq Obj
    /\ DOMAIN num = Obj
    /\ user \in [Obj -> [Keys -> Text \cup {Absent}]]
    /\ restore \in [Obj -> Cell \cup {NULL}]
    /\ lost \subseteq Cell
    /\ told \in [Obj -> [used : BOOLEAN, reply : Headers \cup {NoReply}]]

\* What a call on the objects S has to show.
LEMMA CallKeeps ==
    ASSUME MetaInv, NEW S \in SUBSET Obj,
           RestTyped', NothingLeft', Whole(ptr', strings', restore', lost'),
           \A q \in Obj \ S :
              /\ \A f \in Texts : At(ptr', strings', q, f) = At(ptr, strings, q, f)
              /\ num'[q] = num[q] /\ user'[q] = user[q] /\ told'[q] = told[q],
           \A q \in S : Right(told'[q], TextsOf(ptr', strings', q),
                             num'[q], user'[q])
    PROVE  MetaInv' /\ Others(S)
<1>1. MetaTypes'
  BY DEF MetaTypes, RestTyped, Whole, Owned
<1>2. \A q \in Obj \ S :
         TextsOf(ptr', strings', q) = TextsOf(ptr, strings, q)
  BY DEF TextsOf
<1>3. \A q \in Obj : Right(told'[q], TextsOf(ptr', strings', q),
                          num'[q], user'[q])
  BY <1>2, InvariantIs
<1>4. (/\ MetaTypes
       /\ NothingLeft
       /\ Whole(ptr, strings, restore, lost)
       /\ \A o \in Obj : Right(told[o], TextsOf(ptr, strings, o),
                               num[o], user[o]))' => MetaInv'
  BY InvariantIs, PTL
<1>5. Others(S)
  BY <1>2 DEF Others, Tells, TextsOf, StringAt, At
<1> QED BY <1>1, <1>3, <1>4, <1>5

LEMMA InitiallyNothing == MetaInit => MetaInv
<1> SUFFICES ASSUME MetaInit PROVE MetaInv
  OBVIOUS
<1>1. MetaTypes /\ NothingLeft
  BY DEF MetaInit, MetaTypes, NothingLeft, NoTexts, NoUser, Fresh
<1>2. Whole(ptr, strings, restore, lost)
  <2>1. Kept(restore, lost) = {} /\ KeptOnce(restore, lost)
    BY DEF MetaInit, Kept, KeptOnce
  <2>2. Owned(ptr, strings, {})
    BY <1>1 DEF MetaInit, Owned, NoTexts, MetaTypes
  <2> QED BY <2>1, <2>2 DEF Whole
<1>3. \A o \in Obj : Right(told[o], TextsOf(ptr, strings, o), num[o], user[o])
  <2> SUFFICES ASSUME NEW o \in Obj
               PROVE  Right(told[o], TextsOf(ptr, strings, o), num[o], user[o])
    OBVIOUS
  <2>1. TextsOf(ptr, strings, o) = NoTexts
    BY DEF MetaInit, TextsOf, At, NoTexts, NULL
  <2> QED BY <2>1, SaidNothing DEF MetaInit, Right, Fresh
<1> QED BY <1>1, <1>2, <1>3, InvariantIs

-------------------------------------------------------------------------------
(***************************************************************************)
(* Call by call.                                                           *)
(***************************************************************************)

LEMMA ConstructKeeps ==
    ASSUME MetaInv, NEW o \in Obj, Construct(o)
    PROVE  MetaInv' /\ Others({o})
<1>1. MetaTypes /\ NothingLeft /\ Whole(ptr, strings, restore, lost)
  BY InvariantIs DEF Construct
<1>2. ptr[o] = NoTexts /\ restore[o] = NULL
  BY <1>1 DEF NothingLeft, Construct
<1>3. ptr' = ptr /\ restore' = restore
  BY <1>1, <1>2 DEF MetaTypes, Construct
<1>4. Whole(ptr', strings', restore', lost')
  BY <1>1, <1>3 DEF Construct
<1>5. RestTyped'
  BY <1>1 DEF MetaTypes, RestTyped, NoUser, Fresh, Construct
<1>6. NothingLeft'
  BY <1>1, <1>3 DEF NothingLeft, Construct
<1>7. Right(told'[o], TextsOf(ptr', strings', o), num'[o], user'[o])
  <2>1. TextsOf(ptr', strings', o) = NoTexts
    BY <1>2, <1>3 DEF TextsOf, At, NoTexts, NULL, Construct
  <2>2. told'[o] = Fresh /\ num'[o] = NoNumbers /\ user'[o] = NoUser
    BY <1>1 DEF MetaTypes, Construct
  <2> QED BY <2>1, <2>2, SaidNothing DEF Right, Fresh
<1>8. \A q \in Obj \ {o} :
         /\ \A f \in Texts : At(ptr', strings', q, f) = At(ptr, strings, q, f)
         /\ num'[q] = num[q] /\ user'[q] = user[q] /\ told'[q] = told[q]
  BY <1>1, <1>3 DEF MetaTypes, Construct
<1> QED BY <1>4, <1>5, <1>6, <1>7, <1>8, CallKeeps

LEMMA FreedIs == \A o : Freed(o) = FreedOf(ptr, strings, o)
BY DEF Freed, FreedOf, CellsOf

LEMMA ClearKeeps ==
    ASSUME MetaInv, NEW o \in Obj, clear(o)
    PROVE  MetaInv' /\ Others({o})
<1>1. MetaTypes /\ NothingLeft /\ Whole(ptr, strings, restore, lost)
  BY InvariantIs DEF clear
<1>2. /\ Whole(ptr', strings', restore', lost')
      /\ \A q \in Obj \ {o} : \A f \in Texts :
            At(ptr', strings', q, f) = At(ptr, strings, q, f)
  <2>1. /\ ptr' = Cleared(ptr, o) /\ strings' = FreedOf(ptr, strings, o)
        /\ restore' = restore /\ lost' = lost
    BY FreedIs DEF Cleared, clear
  <2> QED BY <1>1, <2>1, Freeing DEF Whole
<1>3. RestTyped'
  BY <1>1 DEF MetaTypes, RestTyped, Used, NoReply, clear
<1>4. NothingLeft'
  BY <1>1 DEF NothingLeft, MetaTypes, clear
<1>5. Right(told'[o], TextsOf(ptr', strings', o), num'[o], user'[o])
  BY <1>1 DEF MetaTypes, Right, Used, clear
<1>6. \A q \in Obj \ {o} :
         num'[q] = num[q] /\ user'[q] = user[q] /\ told'[q] = told[q]
  BY <1>1 DEF MetaTypes, clear
<1> QED BY <1>2, <1>3, <1>4, <1>5, <1>6, CallKeeps

LEMMA DestroyKeeps ==
    ASSUME MetaInv, NEW o \in Obj, Destroy(o)
    PROVE  MetaInv' /\ Others({o})
<1>1. MetaTypes /\ NothingLeft /\ Whole(ptr, strings, restore, lost)
  BY InvariantIs DEF Destroy
<1>2. /\ Whole(ptr', strings', restore', lost')
      /\ \A f \in Texts : At(ptr', strings', o, f) = Absent
      /\ \A q \in Obj \ {o} : \A f \in Texts :
            At(ptr', strings', q, f) = At(ptr, strings, q, f)
  <2>1. ptr' = Cleared(ptr, o) /\ strings' = FreedOf(ptr, strings, o)
    BY FreedIs DEF Cleared, Destroy
  <2>2. /\ Kept(restore', lost') = Kept(restore, lost)
        /\ KeptOnce(restore', lost')
    <3> DEFINE r2 == [restore EXCEPT ![o] = NULL]
               l2 == lost \cup ({restore[o]} \ {NULL})
    <3>1. Kept(r2, l2) = Kept(restore, lost) /\ KeptOnce(r2, l2)
      BY <1>1, Dropping DEF MetaTypes, Whole
    <3>2. restore' = r2 /\ lost' = l2
      BY DEF Destroy
    <3> HIDE DEF r2, l2
    <3> QED BY <3>1, <3>2
  <2> QED BY <1>1, <2>1, <2>2, Freeing DEF Whole
<1>3. RestTyped'
  BY <1>1 DEF MetaTypes, RestTyped, NoUser, Fresh, NoReply, Destroy
<1>4. NothingLeft'
  BY <1>1 DEF NothingLeft, MetaTypes, Destroy
<1>5. Right(told'[o], TextsOf(ptr', strings', o), num'[o], user'[o])
  <2>1. TextsOf(ptr', strings', o) = NoTexts
    BY <1>2 DEF TextsOf, NoTexts, NULL, Destroy
  <2>2. told'[o] = Fresh /\ num'[o] = NoNumbers /\ user'[o] = NoUser
    BY <1>1 DEF MetaTypes, Destroy
  <2> QED BY <2>1, <2>2, SaidNothing DEF Right, Fresh
<1>6. \A q \in Obj \ {o} :
         num'[q] = num[q] /\ user'[q] = user[q] /\ told'[q] = told[q]
  BY <1>1 DEF MetaTypes, Destroy
<1> QED BY <1>2, <1>3, <1>4, <1>5, <1>6, CallKeeps

LEMMA MoveKeeps ==
    ASSUME MetaInv, NEW d \in Obj, NEW s \in Obj, move_from(d, s)
    PROVE  MetaInv' /\ Others({d, s})
<1>1. MetaTypes /\ NothingLeft /\ Whole(ptr, strings, restore, lost) /\ d # s
  BY InvariantIs DEF move_from
<1>2. /\ Whole(ptr', strings', restore', lost')
      /\ \A f \in Texts : At(ptr', strings', d, f) = At(ptr, strings, s, f)
      /\ \A q \in Obj \ {d, s} : \A f \in Texts :
            At(ptr', strings', q, f) = At(ptr, strings, q, f)
  <2>1. /\ ptr' = Moved(ptr, d, s) /\ strings' = FreedOf(ptr, strings, d)
        /\ restore' = restore /\ lost' = lost
    BY FreedIs DEF Moved, move_from
  <2> QED BY <1>1, <2>1, Moving DEF Whole
<1>3. RestTyped'
  BY <1>1 DEF MetaTypes, RestTyped, Used, NoReply, NoUser, move_from
<1>4. NothingLeft'
  BY <1>1 DEF NothingLeft, MetaTypes, move_from
<1>5. Right(told'[d], TextsOf(ptr', strings', d), num'[d], user'[d])
  <2>1. TextsOf(ptr', strings', d) = TextsOf(ptr, strings, s)
    BY <1>2 DEF TextsOf, move_from
  <2>2. told'[d] = told[s] /\ num'[d] = num[s] /\ user'[d] = user[s]
    BY <1>1 DEF MetaTypes, move_from
  <2> QED BY <2>1, <2>2, InvariantIs
<1>6. Right(told'[s], TextsOf(ptr', strings', s), num'[s], user'[s])
  BY <1>1 DEF MetaTypes, Right, Used, move_from
<1>7. \A q \in Obj \ {d, s} :
         num'[q] = num[q] /\ user'[q] = user[q] /\ told'[q] = told[q]
  BY <1>1 DEF MetaTypes, move_from
<1>8. \A q \in {d, s} : Right(told'[q], TextsOf(ptr', strings', q),
                             num'[q], user'[q])
  BY <1>5, <1>6 DEF move_from
<1> QED BY <1>2, <1>3, <1>4, <1>7, <1>8, CallKeeps

LEMMA CopyKeeps ==
    ASSUME MetaInv, NEW d \in Obj, NEW s \in Obj, copy_from(d, s)
    PROVE  MetaInv' /\ Others({d})
<1> DEFINE p == Cleared(ptr, d)
           m == FreedOf(ptr, strings, d)
           w == [f \in {f \in Texts : ptr[s][f] # NULL} |-> strings[ptr[s][f]]]
<1>1. MetaTypes /\ NothingLeft /\ Whole(ptr, strings, restore, lost) /\ d # s
  BY InvariantIs DEF copy_from
<1>2. /\ Owned(p, m, Kept(restore, lost))
      /\ \A f \in Texts : At(p, m, d, f) = Absent
      /\ \A q \in Obj \ {d} : \A f \in Texts :
            At(p, m, q, f) = At(ptr, strings, q, f)
  BY <1>1, Freeing DEF Whole
<1>3. p[d] = NoTexts
  BY <1>1 DEF MetaTypes, Cleared
<1>4. PICK g \in New(m, DOMAIN w) :
         /\ ptr' = [ptr EXCEPT ![d] = Over(g, NoTexts)]
         /\ strings' = Filled(m, Over(g, NoTexts), w)
  BY FreedIs DEF copy_from
<1>5. /\ ptr' = Pointed(p, d, Over(g, p[d]))
      /\ strings' = Filled(m, Over(g, p[d]), w)
  BY <1>1, <1>3, <1>4 DEF MetaTypes, Cleared, Pointed
<1>6. DOMAIN w \subseteq Texts /\ \A f \in DOMAIN w : w[f] \in Text
  BY <1>1 DEF Whole, Owned
<1>7. \A f \in Texts : At(ptr, strings, s, f) =
         IF f \in DOMAIN w THEN w[f] ELSE Absent
  BY DEF At
<1>8. {f \in DOMAIN w : p[d][f] = NULL} = DOMAIN w
  BY <1>3 DEF NoTexts
<1> HIDE DEF p, m, w
<1>9. /\ Whole(ptr', strings', restore', lost')
      /\ \A f \in Texts : At(ptr', strings', d, f) =
            IF f \in DOMAIN w THEN w[f] ELSE At(p, m, d, f)
      /\ \A q \in Obj \ {d} : \A f \in Texts :
            At(ptr', strings', q, f) = At(p, m, q, f)
  <2>1. restore' = restore /\ lost' = lost
    BY DEF copy_from
  <2> QED BY <1>1, <1>2, <1>5, <1>6, <1>8, <2>1, Storing DEF Whole
<1>10. TextsOf(ptr', strings', d) = TextsOf(ptr, strings, s)
  BY <1>2, <1>7, <1>9 DEF TextsOf
<1>11. RestTyped'
  BY <1>1 DEF MetaTypes, RestTyped, copy_from
<1>12. NothingLeft'
  BY <1>1, <1>4 DEF NothingLeft, MetaTypes, copy_from
<1>13. Right(told'[d], TextsOf(ptr', strings', d), num'[d], user'[d])
  <2>1. told'[d] = told[s] /\ num'[d] = num[s] /\ user'[d] = user[s]
    BY <1>1 DEF MetaTypes, copy_from
  <2> QED BY <1>10, <2>1, InvariantIs
<1>14. \A q \in Obj \ {d} :
          num'[q] = num[q] /\ user'[q] = user[q] /\ told'[q] = told[q]
  BY <1>1 DEF MetaTypes, copy_from
<1> QED BY <1>2, <1>9, <1>11, <1>12, <1>13, <1>14, CallKeeps

\* set() of the strings in h: they are o's texts, and otherwise everyone has
\* what they had.
LEMMA SetStores ==
    ASSUME MetaInv, NEW o \in Obj, NEW h, \A n \in DOMAIN h : h[n] \in Text,
           SetStrings(o, h), lost' = lost
    PROVE  /\ Whole(ptr', strings', restore', lost')
           /\ \A f \in Texts : At(ptr', strings', o, f) =
                 IF f \in DOMAIN h THEN h[f] ELSE At(ptr, strings, o, f)
           /\ \A q \in Obj \ {o} : ptr'[q] = ptr[q] /\ restore'[q] = restore[q]
           /\ \A q \in Obj \ {o} : \A f \in Texts :
                 At(ptr', strings', q, f) = At(ptr, strings, q, f)
           /\ restore' \in [Obj -> Cell \cup {NULL}]
<1> DEFINE w == Only(h, Texts)
           K == Kept(restore, lost)
<1>1. MetaTypes /\ Owned(ptr, strings, K) /\ KeptOnce(restore, lost)
  BY InvariantIs DEF Whole
<1>2. PICK g \in New(strings, {f \in DOMAIN w : ptr[o][f] = NULL}) :
         /\ ptr' = [ptr EXCEPT ![o] = Over(g, ptr[o])]
         /\ SetRestore(o, h, Filled(strings, Over(g, ptr[o]), w))
  BY DEF SetStrings
<1> DEFINE m == Filled(strings, Over(g, ptr[o]), w)
<1>3. /\ DOMAIN w \subseteq Texts /\ \A f \in DOMAIN w : w[f] \in Text
      /\ \A f \in Texts : f \in DOMAIN w <=> f \in DOMAIN h
      /\ \A f \in DOMAIN w : w[f] = h[f]
  BY DEF Only
<1>4. \A q \in Obj \ {o} : ptr'[q] = ptr[q]
  BY <1>1, <1>2 DEF MetaTypes
<1>5. ptr' = Pointed(ptr, o, Over(g, ptr[o]))
  BY <1>2 DEF Pointed
<1> HIDE DEF w, K
<1>6. /\ Owned(ptr', m, K)
      /\ \A f \in Texts : At(ptr', m, o, f) =
            IF f \in DOMAIN w THEN w[f] ELSE At(ptr, strings, o, f)
      /\ \A q \in Obj \ {o} : \A f \in Texts :
            At(ptr', m, q, f) = At(ptr, strings, q, f)
  BY <1>1, <1>3, <1>5, Storing
<1> HIDE DEF m
<1>7. SetRestore(o, h, m)
  BY <1>2 DEF m
<1>8. /\ Whole(ptr', strings', restore', lost')
      /\ \A q \in Obj : \A f \in Texts :
            At(ptr', strings', q, f) = At(ptr', m, q, f)
      /\ \A q \in Obj \ {o} : restore'[q] = restore[q]
      /\ restore' \in [Obj -> Cell \cup {NULL}]
  <2>1. CASE strings' = m /\ UNCHANGED restore
    BY <1>1, <1>6, <2>1 DEF MetaTypes, Whole, K
  <2>2. CASE /\ "restore" \in DOMAIN h
             /\ \E c \in Cell :
                   /\ restore[o] = c \/ (restore[o] = NULL /\ m[c] = Absent)
                   /\ restore' = [restore EXCEPT ![o] = c]
                   /\ strings' = [m EXCEPT ![c] = h["restore"]]
    <3>1. PICK c \in Cell :
             /\ restore[o] = c \/ (restore[o] = NULL /\ m[c] = Absent)
             /\ restore' = [restore EXCEPT ![o] = c]
             /\ strings' = Put(m, c, h["restore"])
      BY <2>2 DEF Put
    <3>2. restore \in [Obj -> Cell \cup {NULL}]
      BY <1>1 DEF MetaTypes
    <3> DEFINE v == h["restore"]
    <3>3. v \in Text
      BY <2>2
    <3>4. restore[o] = c => c \in K
      BY TextIsThere DEF K, Kept
    <3>5. m[c] = Absent => c \notin K
      BY <1>6 DEF Owned
    <3>6. c \in K \/ m[c] = Absent
      BY <3>1, <3>4
    <3>7. strings' = Put(m, c, v)
      BY <3>1
    <3> HIDE DEF v
    <3>8. /\ Owned(ptr', Put(m, c, v), K \cup {c})
          /\ \A q \in Obj : \A f \in Texts :
                At(ptr', Put(m, c, v), q, f) = At(ptr', m, q, f)
      BY <1>6, <3>3, <3>6, Restoring
    <3>9. restore[o] = c \/ (restore[o] = NULL /\ c \notin Kept(restore, lost))
      BY <3>1, <3>5 DEF K
    <3>10. Kept(restore', lost) = K \cup {c} /\ KeptOnce(restore', lost)
      <4> DEFINE r2 == [restore EXCEPT ![o] = c]
      <4>1. Kept(r2, lost) = Kept(restore, lost) \cup {c} /\ KeptOnce(r2, lost)
        BY <1>1, <3>2, <3>9, Keeping
      <4> HIDE DEF r2
      <4>2. restore' = r2
        BY <3>1 DEF r2
      <4> QED BY <4>1, <4>2 DEF K
    <3> QED BY <3>1, <3>2, <3>7, <3>8, <3>10 DEF Whole
  <2> QED BY <1>7, <2>1, <2>2 DEF SetRestore
<1> QED BY <1>3, <1>4, <1>6, <1>8

LEMMA SetKeeps ==
    ASSUME MetaInv, NEW o \in Obj, SetByCaller(o)
    PROVE  MetaInv' /\ Others({o})
<1>1. MetaTypes /\ NothingLeft /\ Whole(ptr, strings, restore, lost)
  BY InvariantIs
<1>2. /\ Whole(ptr', strings', restore', lost')
      /\ \A q \in Obj \ {o} : /\ ptr'[q] = ptr[q] /\ restore'[q] = restore[q]
                               /\ user'[q] = user[q]
      /\ \A q \in Obj \ {o} : \A f \in Texts :
            At(ptr', strings', q, f) = At(ptr, strings, q, f)
      /\ user' \in [Obj -> [Keys -> Text \cup {Absent}]]
      /\ restore' \in [Obj -> Cell \cup {NULL}]
  <2>3. lost' = lost
    BY DEF SetByCaller
  <2>1. CASE /\ \E f \in Settable, v \in Values : SetStrings(o, [g \in {f} |-> v])
             /\ UNCHANGED user
    <3>1. PICK f \in Settable, v \in Values : SetStrings(o, [g \in {f} |-> v])
      BY <2>1
    <3> DEFINE w == [g \in {f} |-> v]
    <3>2. \A g \in DOMAIN w : w[g] \in Text
      BY DEF Text
    <3>3. SetStrings(o, w)
      BY <3>1
    <3> HIDE DEF w
    <3> QED BY <1>1, <2>1, <2>3, <3>2, <3>3, SetStores DEF MetaTypes
  <2>2. CASE /\ \E k \in Keys, v \in Values : user' = [user EXCEPT ![o][k] = v]
             /\ UNCHANGED <<ptr, strings, restore>>
    <3>1. Values \subseteq Text
      BY DEF Text
    <3>2. PICK k \in Keys, v \in Values : user' = [user EXCEPT ![o][k] = v]
      BY <2>2
    <3> QED BY <1>1, <2>2, <2>3, <3>1, <3>2 DEF MetaTypes
  <2> QED BY <2>1, <2>2 DEF SetByCaller
<1>3. RestTyped'
  BY <1>1, <1>2 DEF MetaTypes, RestTyped, Used, NoReply, SetByCaller
<1>4. NothingLeft'
  BY <1>1, <1>2 DEF NothingLeft, MetaTypes, SetByCaller
<1>5. Right(told'[o], TextsOf(ptr', strings', o), num'[o], user'[o])
  BY <1>1 DEF MetaTypes, Right, Used, SetByCaller
<1>6. \A q \in Obj \ {o} :
         num'[q] = num[q] /\ user'[q] = user[q] /\ told'[q] = told[q]
  BY <1>1, <1>2 DEF MetaTypes, SetByCaller
<1> QED BY <1>2, <1>3, <1>4, <1>5, <1>6, CallKeeps

LEMMA HeaderKeeps ==
    ASSUME MetaInv, NEW o \in Obj, NEW h \in Headers, set_by_header(o, h)
    PROVE  MetaInv' /\ Others({o})
<1> DEFINE w == Only(h, Texts)
           range == StringAt(o, "content-range")
<1>1. MetaTypes /\ NothingLeft /\ Whole(ptr, strings, restore, lost)
  BY InvariantIs
<1>2. \A n \in DOMAIN h : h[n] \in Text
  BY DEF Text
<1>3. /\ \A f \in Texts : f \in DOMAIN w <=> f \in DOMAIN h
      /\ \A f \in DOMAIN w : w[f] = h[f] /\ f \in Texts
  BY DEF Only
<1>4. SetStrings(o, h) /\ lost' = lost
  BY DEF set_by_header
<1> HIDE DEF w
<1>5. /\ Whole(ptr', strings', restore', lost')
      /\ \A f \in Texts : At(ptr', strings', o, f) =
            IF f \in DOMAIN h THEN h[f] ELSE At(ptr, strings, o, f)
      /\ \A q \in Obj \ {o} : ptr'[q] = ptr[q] /\ restore'[q] = restore[q]
      /\ restore' \in [Obj -> Cell \cup {NULL}]
      /\ \A q \in Obj \ {o} : \A f \in Texts :
            At(ptr', strings', q, f) = At(ptr, strings, q, f)
  BY <1>2, <1>4, SetStores
<1>6. num' = [num EXCEPT ![o] = NumbersOf(num[o], range', h)]
  BY DEF set_by_header
<1>7. user' = [user EXCEPT ![o] = Over(Only(h, Keys), user[o])]
  BY DEF set_by_header
<1>8. Over(Only(h, Keys), user[o]) \in [Keys -> Text \cup {Absent}]
  BY <1>1, <1>2 DEF MetaTypes, Over, Only
<1>9. RestTyped'
  <2>1. /\ alive' \subseteq Obj
        /\ DOMAIN num' = Obj
        /\ user' \in [Obj -> [Keys -> Text \cup {Absent}]]
    BY <1>1, <1>6, <1>7, <1>8 DEF MetaTypes, set_by_header
  <2>2. restore' \in [Obj -> Cell \cup {NULL}] /\ lost' \subseteq Cell
    BY <1>1, <1>4, <1>5 DEF MetaTypes
  <2>3. told' \in [Obj -> [used : BOOLEAN, reply : Headers \cup {NoReply}]]
    BY <1>1 DEF MetaTypes, set_by_header, Used
  <2> QED BY <2>1, <2>2, <2>3 DEF RestTyped
<1>10. NothingLeft'
  BY <1>1, <1>5 DEF NothingLeft, MetaTypes, set_by_header
<1>11. Right(told'[o], TextsOf(ptr', strings', o), num'[o], user'[o])
  <2>1. CASE told[o] # Fresh
    BY <1>1, <2>1 DEF MetaTypes, Right, Used, set_by_header
  <2>2. CASE told[o] = Fresh
    <3>1. told'[o] = [used |-> FALSE, reply |-> h]
      BY <1>1, <2>2 DEF MetaTypes, set_by_header
    <3>2. /\ TextsOf(ptr, strings, o) = NoTexts
          /\ num[o] = NoNumbers /\ user[o] = NoUser
      <4>1. Right(Fresh, TextsOf(ptr, strings, o), num[o], user[o])
        BY <2>2, InvariantIs
      <4> QED BY <4>1, SaidNothing DEF Right, Fresh
    <3>3. \A f \in Texts : At(ptr, strings, o, f) = Absent
      BY <3>2 DEF TextsOf, NoTexts, NULL
    <3>4. TextsOf(ptr', strings', o) = Over(w, NoTexts)
      BY <1>3, <1>5, <3>3 DEF TextsOf, Over, NoTexts, NULL
    <3>5. range' = Over(w, NoTexts)["content-range"]
      <4>1. range' = TextsOf(ptr', strings', o)["content-range"]
        BY MetaAssumption DEF TextsOf, At, StringAt
      <4> QED BY <3>4, <4>1
    <3>6. /\ num'[o] = NumbersOf(NoNumbers, range', h)
          /\ user'[o] = Over(Only(h, Keys), NoUser)
      BY <1>1, <1>6, <1>7, <3>2 DEF MetaTypes
    <3> HIDE DEF range
    <3> QED BY <3>1, <3>4, <3>5, <3>6 DEF Right, Said, w
  <2> QED BY <2>1, <2>2
<1>12. \A q \in Obj \ {o} :
          num'[q] = num[q] /\ user'[q] = user[q] /\ told'[q] = told[q]
  BY <1>1, <1>6, <1>7 DEF MetaTypes, set_by_header
<1> QED BY <1>5, <1>9, <1>10, <1>11, <1>12, CallKeeps

\* The objects of StandAlone that a step may change.
Touched(o) == \/ CallOn(o)
              \/ \E s \in Obj : copy_from(o, s) \/ move_from(o, s) \/ move_from(s, o)

LEMMA StepKeeps ==
    ASSUME MetaInv, MetaNext
    PROVE  MetaInv' /\ \A o \in Obj : Tells(o)' = Tells(o) \/ Touched(o)
<1>1. ASSUME NEW o \in Obj, CallOn(o)
      PROVE  MetaInv' /\ \A q \in Obj : Tells(q)' = Tells(q) \/ Touched(q)
  <2>1. MetaInv' /\ Others({o})
    <3>1. CASE Construct(o)
      BY <3>1, ConstructKeeps
    <3>2. CASE SetByCaller(o)
      BY <3>2, SetKeeps
    <3>3. CASE clear(o)
      BY <3>3, ClearKeeps
    <3>4. CASE Destroy(o)
      BY <3>4, DestroyKeeps
    <3>5. CASE \E h \in Headers : set_by_header(o, h)
      BY <3>5, HeaderKeeps
    <3> QED BY <1>1, <3>1, <3>2, <3>3, <3>4, <3>5 DEF CallOn
  <2>2. Touched(o)
    BY <1>1 DEF Touched
  <2> QED BY <2>1, <2>2 DEF Others
<1>2. ASSUME NEW d \in Obj, NEW s \in Obj, copy_from(d, s)
      PROVE  MetaInv' /\ \A q \in Obj : Tells(q)' = Tells(q) \/ Touched(q)
  <2>1. MetaInv' /\ Others({d})
    BY <1>2, CopyKeeps
  <2>2. Touched(d)
    BY <1>2 DEF Touched
  <2> QED BY <2>1, <2>2 DEF Others
<1>3. ASSUME NEW d \in Obj, NEW s \in Obj, move_from(d, s)
      PROVE  MetaInv' /\ \A q \in Obj : Tells(q)' = Tells(q) \/ Touched(q)
  <2>1. MetaInv' /\ Others({d, s})
    BY <1>3, MoveKeeps
  <2>2. Touched(d) /\ Touched(s)
    BY <1>3 DEF Touched
  <2> QED BY <2>1, <2>2 DEF Others
<1> QED BY <1>1, <1>2, <1>3 DEF MetaNext

LEMMA StutterKeeps ==
    ASSUME MetaInv, UNCHANGED metaVars
    PROVE  MetaInv' /\ \A o \in Obj : Tells(o)' = Tells(o)
<1>1. MetaTypes' /\ NothingLeft' /\ SeesReply'
  BY DEF metaVars, MetaInv, MetaTypes, NothingLeft, SeesReply, Tells, StringAt
<1>2. OneOwner'
  BY DEF metaVars, MetaInv, OneOwner
<1> QED BY <1>1, <1>2 DEF MetaInv, metaVars, Tells, StringAt

(***************************************************************************)
(* The pointers of all objects and memory are consistent, every string is  *)
(* owned by one object or is the restore string of one that was destroyed, *)
(* and every object says what it was told, in every state: MetaInv is      *)
(* inductive.                                                              *)
(***************************************************************************)
THEOREM MetaInvariant == MetaSpec => []MetaInv
<1>1. MetaInit => MetaInv
  BY InitiallyNothing
<1>2. MetaInv /\ [MetaNext]_metaVars => MetaInv'
  BY StepKeeps, StutterKeeps
<1> QED BY <1>1, <1>2, PTL DEF MetaSpec

(***************************************************************************)
(* Whatever calls are made in whatever order, on any number of objects and *)
(* texts, no string is freed twice, used after it is freed or shared, and  *)
(* the only strings left behind are the restore strings of objects that    *)
(* were destroyed (object_meta_data.h:41-70, :87-89, :301).                *)
(***************************************************************************)
THEOREM StringsHaveOneOwner == MetaSpec => []OneOwner
BY MetaInvariant, PTL DEF MetaInv

(***************************************************************************)
(* An object set from one reply alone, or copied or moved from such an     *)
(* object, tells that reply (client.cpp:262, :468).                        *)
(***************************************************************************)
THEOREM ReplyIsSeen == MetaSpec => []SeesReply
BY MetaInvariant, PTL DEF MetaInv

(***************************************************************************)
(* What an object tells changes by calls on that object alone.             *)
(***************************************************************************)
THEOREM ObjectsStandAlone == MetaSpec => StandAlone
<1>1. MetaInv /\ [MetaNext]_metaVars =>
         [\A o \in Obj :
            \/ Tells(o)' = Tells(o)
            \/ CallOn(o)
            \/ \E s \in Obj :
                  copy_from(o, s) \/ move_from(o, s) \/ move_from(s, o)]_metaVars
  BY StepKeeps DEF Touched
<1> QED BY <1>1, MetaInvariant, PTL DEF MetaSpec, StandAlone

===============================================================================
