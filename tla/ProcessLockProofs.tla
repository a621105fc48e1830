-------------------------- MODULE ProcessLockProofs --------------------------
(***************************************************************************)
(* Proofs about the process lock, for any set of processes, any            *)
(* permissions of the lock files and with or without crashes.              *)
(***************************************************************************)
EXTENDS ProcessLock, TLAPS

\* One process moves: what that means for the places of all.
LEMMA GotoMoves ==
  ASSUME TypeOK, NEW p \in Process, NEW from, NEW to, Goto(p, from, to)
  PROVE  /\ pc[p] = from /\ pc'[p] = to
         /\ \A q \in Process \ {p} : pc'[q] = pc[q]
         /\ DOMAIN pc' = Process
BY DEF Goto, TypeOK

\* The strengthened invariant holds in every reachable state.
LEMMA InitInv == Init => IInv
BY DEF Init, IInv, TypeOK, HeldInv, FlockInv, File

\* The steps of start.
LEMMA StartInv ==
  ASSUME IInv, NEW p \in Process, Try(p) \/ RequestMaster(p) \/ OpenDevice(p)
  PROVE  IInv'
<1> USE OpensAssumption DEF IInv
<1>1. CASE TryPrimary(p)
  <2>1. CASE /\ p \in Opens["primary"] /\ ~Locked("primary")
             /\ Goto(p, "idle", "request")
             /\ lock' = [lock EXCEPT ![p] = "primary"]
    <3>1. TypeOK'
      BY <1>1, <2>1, GotoMoves DEF TryPrimary, TypeOK, File, Goto
    <3>2. HeldInv'
      BY <1>1, <2>1, GotoMoves DEF TryPrimary, TypeOK, HeldInv, File
    <3>3. FlockInv'
      BY <2>1 DEF TypeOK, FlockInv, Locked, File
    <3> QED BY <3>1, <3>2, <3>3
  <2>2. CASE /\ p \notin Opens["primary"]
             /\ Goto(p, "idle", "fallback")
             /\ UNCHANGED lock
    <3>1. TypeOK'
      BY <1>1, <2>2, GotoMoves DEF TryPrimary, TypeOK, File, Goto
    <3>2. HeldInv'
      BY <1>1, <2>2, GotoMoves DEF TryPrimary, TypeOK, HeldInv, File
    <3>3. FlockInv'
      BY <2>2 DEF FlockInv
    <3> QED BY <3>1, <3>2, <3>3
  <2> QED BY <1>1, <2>1, <2>2 DEF TryPrimary
<1>2. CASE TryFallback(p)
  <2>1. CASE /\ p \in Opens["fallback"] /\ ~Locked("fallback")
             /\ Goto(p, "fallback", "request")
             /\ lock' = [lock EXCEPT ![p] = "fallback"]
    <3>1. TypeOK'
      BY <1>2, <2>1, GotoMoves DEF TryFallback, TypeOK, File, Goto
    <3>2. HeldInv'
      BY <1>2, <2>1, GotoMoves DEF TryFallback, TypeOK, HeldInv, File
    <3>3. FlockInv'
      BY <2>1 DEF TypeOK, FlockInv, Locked, File
    <3> QED BY <3>1, <3>2, <3>3
  <2>2. CASE Goto(p, "fallback", "idle") /\ UNCHANGED lock
    <3>1. TypeOK'
      BY <1>2, <2>2, GotoMoves DEF TryFallback, TypeOK, File, Goto
    <3>2. HeldInv'
      BY <1>2, <2>2, GotoMoves DEF TryFallback, TypeOK, HeldInv, File
    <3>3. FlockInv'
      BY <2>2 DEF FlockInv
    <3> QED BY <3>1, <3>2, <3>3
  <2> QED BY <1>2, <2>1, <2>2 DEF TryFallback
<1>3. CASE RequestMaster(p)
  <2>1. TypeOK'
    BY <1>3, GotoMoves DEF RequestMaster, TypeOK, HeldInv, Goto
  <2>2. HeldInv'
    BY <1>3, GotoMoves DEF RequestMaster, TypeOK, HeldInv
  <2>3. FlockInv'
    BY <1>3 DEF RequestMaster, FlockInv
  <2> QED BY <2>1, <2>2, <2>3
<1>4. CASE OpenDevice(p)
  <2>1. TypeOK'
    BY <1>4, GotoMoves DEF OpenDevice, TypeOK, HeldInv, Goto
  <2>2. HeldInv'
    BY <1>4, GotoMoves DEF OpenDevice, TypeOK, HeldInv
  <2>3. FlockInv'
    BY <1>4 DEF OpenDevice, FlockInv
  <2> QED BY <2>1, <2>2, <2>3
<1> QED BY <1>1, <1>2, <1>3, <1>4 DEF Try

\* The steps of stop and of a start that fails.
LEMMA ReleaseInv ==
  ASSUME IInv, NEW p \in Process, BeginRelease(p) \/ Release(p)
  PROVE  IInv'
<1> USE DEF IInv
<1>1. CASE BeginRelease(p)
  <2>1. TypeOK'
    BY <1>1, GotoMoves DEF BeginRelease, TypeOK, HeldInv, Goto
  <2>2. HeldInv' /\ FlockInv'
    BY <1>1, GotoMoves DEF BeginRelease, TypeOK, HeldInv, FlockInv
  <2> QED BY <2>1, <2>2
<1>2. CASE ReleaseMaster(p)
  <2>1. TypeOK'
    BY <1>2, GotoMoves DEF ReleaseMaster, TypeOK, HeldInv, Goto
  <2>2. HeldInv' /\ FlockInv'
    BY <1>2, GotoMoves DEF ReleaseMaster, TypeOK, HeldInv, FlockInv
  <2> QED BY <2>1, <2>2
<1>3. CASE CloseDevice(p)
  <2>1. TypeOK'
    BY <1>3, GotoMoves DEF CloseDevice, TypeOK, HeldInv, Goto
  <2>2. HeldInv' /\ FlockInv'
    BY <1>3, GotoMoves DEF CloseDevice, TypeOK, HeldInv, FlockInv
  <2> QED BY <2>1, <2>2
<1>4. CASE ReleaseLock(p)
  <2>1. TypeOK'
    BY <1>4, GotoMoves DEF ReleaseLock, TypeOK, File, Goto
  <2>2. HeldInv'
    BY <1>4, GotoMoves DEF ReleaseLock, TypeOK, HeldInv, File
  <2>3. FlockInv'
    BY <1>4 DEF ReleaseLock, TypeOK, FlockInv, File
  <2> QED BY <2>1, <2>2, <2>3
<1> QED BY <1>1, <1>2, <1>3, <1>4 DEF Release

\* The death of a process and what the kernel does then.
LEMMA CrashInv ==
  ASSUME IInv, NEW p \in Process, Die(p) \/ Reap(p)
  PROVE  IInv'
<1> USE DEF IInv
<1>1. CASE Die(p)
  <2>1. TypeOK' /\ FlockInv'
    BY <1>1 DEF Die, TypeOK, FlockInv
  <2>2. HeldInv'
    BY <1>1 DEF Die, TypeOK, HeldInv
  <2> QED BY <2>1, <2>2
<1>2. CASE Reap(p)
  <2>1. TypeOK'
    BY <1>2 DEF Reap, TypeOK, File
  <2>2. HeldInv'
    BY <1>2 DEF Reap, TypeOK, HeldInv, File
  <2>3. FlockInv'
    BY <1>2 DEF Reap, TypeOK, FlockInv, File
  <2> QED BY <2>1, <2>2, <2>3
<1> QED BY <1>1, <1>2

LEMMA StutterInv == ASSUME IInv, UNCHANGED vars PROVE IInv'
BY DEF IInv, TypeOK, HeldInv, FlockInv, vars

\* The inductive invariant of the lock protocol.
THEOREM Invariance == Spec => []IInv
<1>1. IInv /\ [Next]_vars => IInv'
  BY StartInv, ReleaseInv, CrashInv, StutterInv DEF Next
<1> QED BY InitInv, <1>1, PTL DEF Spec

-----------------------------------------------------------------------------
\* Every variable keeps its type.
THEOREM TypeCorrect == Spec => []TypeOK
<1>1. IInv => TypeOK
  BY DEF IInv
<1> QED BY Invariance, <1>1, PTL

\* Being led to the same lock file makes the lock exclusive.
LEMMA SameFileIsExclusive == IInv => LockExclusive
<1> SUFFICES ASSUME IInv, NEW p \in Process, NEW q \in Process, SameFile(p, q),
                    lock[p] # "none", lock[q] # "none"
             PROVE  p = q
  BY DEF LockExclusive
<1>1. lock[p] = lock[q]
  BY DEF IInv, TypeOK, HeldInv, SameFile, File
<1> QED BY <1>1 DEF IInv, FlockInv

\* Of the processes led to the same lock file, one at a time is past it.
THEOREM LockAdmitsOne == Spec => []LockExclusive
BY Invariance, SameFileIsExclusive, PTL

\* Nobody uses the master or its device without the lock.
THEOREM LockCoversUse == Spec => []UsedUnderLock
<1>1. IInv => UsedUnderLock
  BY DEF IInv, TypeOK, HeldInv, UsedUnderLock
<1> QED BY Invariance, <1>1, PTL

\* A process past the lock is not refused the master because of a live one that
\* was led to the same lock file.
THEOREM MasterIsFree == Spec => []FreeBehindLock
<1>1. IInv => FreeBehindLock
  <2> SUFFICES ASSUME IInv, NEW p \in Process, NEW q \in owners,
                      SameFile(p, q), pc[p] = "request", pc[q] # "dead"
               PROVE  FALSE
    BY DEF FreeBehindLock, IInv, TypeOK
  <2>1. q \in Process /\ lock[p] # "none"
    BY DEF IInv, TypeOK, HeldInv
  <2>2. pc[q] \in {"open", "running", "releaseMaster"}
    BY <2>1 DEF IInv, HeldInv
  <2>3. lock[q] # "none"
    BY <2>1, <2>2 DEF IInv, HeldInv
  <2> QED BY SameFileIsExclusive, <2>1, <2>2, <2>3 DEF LockExclusive, IInv, HeldInv,
        FlockInv, SameFile
<1> QED BY Invariance, <1>1, PTL

\* The lock admits one, covers all use of the master, and behind it the master
\* is free.
THEOREM LockCoversMaster == Spec => []LockCovers
BY LockAdmitsOne, LockCoversUse, MasterIsFree, PTL DEF LockCovers
=============================================================================
