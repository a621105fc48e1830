------------------------ MODULE SnapshotBufferProofs ------------------------
(***************************************************************************)
(* The triple buffer is correct for every frame size, every number of      *)
(* publications and with or without spurious compare-exchange failures:    *)
(* IInv is inductive, the safety properties follow from it, and every step *)
(* is a step of the abstract register or leaves it alone.                  *)
(***************************************************************************)
EXTENDS SnapshotBuffer, TLAPS

\* SnapshotBuffer starts in a state of the inductive invariant: three different
\* slots, all with the initial frame.
LEMMA InitIInv == Init => IInv
  BY DEF Init, IInv, TypeOK, SlotOwnership, SlotContents, ObservedKnown,
         ReturnedKnown, Whole, PackState, Slot, MaxAttempts

\* Entering publish touches nothing the consumer can see.
LEMMA PublishBeginIInv == IInv /\ PublishBegin => IInv'
  BY DEF IInv, TypeOK, SlotOwnership, SlotContents, ObservedKnown,
         ReturnedKnown, PublishBegin, rvars

\* Copying a word writes only the producer's own slot.
LEMMA FillWordIInv == ASSUME NEW p \in Part, IInv, FillWord(p) PROVE IInv'
<1> USE DEF IInv, FillWord, rvars
<1>1. TypeOK'
  BY DEF TypeOK, Slot
<1>2. SlotOwnership'
  BY DEF SlotOwnership
<1>3. SlotContents'
  <2>1. slots'[reading'] = slots[reading]
    BY DEF TypeOK, SlotOwnership
  <2>2. slots'[latest'.index] = slots[latest.index]
    BY DEF TypeOK, SlotOwnership
  <2>3. ASSUME NEW q \in Part \ wtodo'
        PROVE  slots'[writing][q] = writeVersion + 1
    BY DEF TypeOK, SlotContents
  <2> QED
    BY <2>1, <2>2, <2>3 DEF SlotContents
<1>4. ObservedKnown'
  BY DEF ObservedKnown
<1>5. ReturnedKnown'
  BY DEF ReturnedKnown
<1> QED
  BY <1>1, <1>2, <1>3, <1>4, <1>5

\* The exchange publishes a slot that holds the whole frame and takes back the
\* slot that was in latest_, which nobody reads.
LEMMA ExchangeIInv == IInv /\ Exchange => IInv'
<1> SUFFICES ASSUME IInv, Exchange PROVE IInv'
  OBVIOUS
<1> USE DEF IInv, Exchange, rvars, PackState
<1>1. TypeOK'
  BY DEF TypeOK
<1>2. SlotOwnership'
  BY DEF SlotOwnership, TypeOK
<1>3. SlotContents'
  <2>1. slots[writing] = Whole(writeVersion + 1)
    BY DEF TypeOK, SlotContents, Whole
  <2> QED
    BY <2>1 DEF SlotContents, TypeOK
<1>4. ObservedKnown'
  BY DEF ObservedKnown, SlotContents, TypeOK, MaxAttempts
<1>5. ReturnedKnown'
  BY DEF ReturnedKnown, SlotContents, TypeOK
<1> QED
  BY <1>1, <1>2, <1>3, <1>4, <1>5

\* Entering readInto.
LEMMA ReadBeginIInv == IInv /\ ReadBegin => IInv'
  BY DEF IInv, TypeOK, SlotOwnership, SlotContents, ObservedKnown,
         ReturnedKnown, ReadBegin, wvars, MaxAttempts

\* Loading latest_: either the consumer already holds the current frame, or it
\* observed a newer one.
LEMMA LoadIInv == IInv /\ Load => IInv'
<1> SUFFICES ASSUME IInv, Load PROVE IInv'
  OBVIOUS
<1> USE DEF IInv, Load, wvars
<1>1. TypeOK'
  BY DEF TypeOK
<1>2. SlotOwnership' /\ SlotContents'
  BY DEF SlotOwnership, SlotContents
<1>3. ObservedKnown'
  BY DEF ObservedKnown, SlotContents, ReturnedKnown, TypeOK, MaxAttempts
<1>4. ReturnedKnown'
  BY DEF ReturnedKnown, TypeOK
<1> QED
  BY <1>1, <1>2, <1>3, <1>4

\* A successful compare-exchange swaps the consumer's slot for the latest.
LEMMA CasSucceedsIInv == IInv /\ CasSucceeds => IInv'
<1> SUFFICES ASSUME IInv, CasSucceeds PROVE IInv'
  OBVIOUS
<1> USE DEF IInv, CasSucceeds, wvars, PackState
<1>1. TypeOK'
  BY DEF TypeOK
<1>2. SlotOwnership'
  BY DEF SlotOwnership, TypeOK
<1>3. SlotContents'
  BY DEF SlotContents, ObservedKnown, TypeOK
<1>4. ObservedKnown'
  BY DEF ObservedKnown, TypeOK
<1>5. ReturnedKnown'
  BY DEF ReturnedKnown, ObservedKnown, TypeOK
<1> QED
  BY <1>1, <1>2, <1>3, <1>4, <1>5

\* A failed compare-exchange costs an attempt; a genuine failure means that the
\* producer published since the load.
LEMMA CasFailsIInv == IInv /\ CasFails => IInv'
<1> SUFFICES ASSUME IInv, CasFails PROVE IInv'
  OBVIOUS
<1> USE DEF IInv, CasFails, wvars
<1>1. TypeOK'
  BY DEF TypeOK, ObservedKnown, MaxAttempts
<1>2. SlotOwnership' /\ SlotContents'
  BY DEF SlotOwnership, SlotContents
<1>3. ObservedKnown'
  <2>1. ~WeakCasFails => latest.version >= started + attempt + 1
    BY DEF ObservedKnown, TypeOK, MaxAttempts
  <2> QED
    BY <2>1 DEF ObservedKnown, TypeOK, MaxAttempts
<1>4. ReturnedKnown'
  BY DEF ReturnedKnown, ObservedKnown, TypeOK, MaxAttempts
<1> QED
  BY <1>1, <1>2, <1>3, <1>4

\* Copying a word out reads only the consumer's own slot.
LEMMA CopyWordIInv == ASSUME NEW p \in Part, IInv, CopyWord(p) PROVE IInv'
<1> USE DEF IInv, CopyWord, wvars
<1>1. TypeOK'
  BY DEF TypeOK
<1>2. SlotOwnership' /\ SlotContents' /\ ObservedKnown'
  BY DEF SlotOwnership, SlotContents, ObservedKnown
<1>3. ReturnedKnown'
  <2>1. slots[reading][p] = readVersion
    BY DEF SlotContents, Whole
  <2>2. ASSUME NEW q \in Part \ rtodo'
        PROVE  out'[q] = readVersion
    BY <2>1 DEF ReturnedKnown, TypeOK
  <2> QED
    BY <2>2 DEF ReturnedKnown
<1> QED
  BY <1>1, <1>2, <1>3

\* readInto returns a whole frame, the one the consumer's slot holds.
LEMMA ReturnWhole == IInv /\ Return => returned' = Whole(readVersion)
  BY DEF IInv, TypeOK, ReturnedKnown, Return, Whole

\* Returning keeps the invariant.
LEMMA ReturnIInv == IInv /\ Return => IInv'
<1> SUFFICES ASSUME IInv, Return PROVE IInv'
  OBVIOUS
<1>1. returned' = Whole(readVersion)
  BY ReturnWhole
<1> USE DEF IInv, Return, wvars
<1>2. TypeOK'
  BY DEF TypeOK
<1>3. SlotOwnership' /\ SlotContents' /\ ObservedKnown'
  BY DEF SlotOwnership, SlotContents, ObservedKnown
<1>4. ReturnedKnown'
  BY <1>1 DEF ReturnedKnown, Whole, TypeOK
<1> QED
  BY <1>2, <1>3, <1>4

\* Every step keeps the invariant.
LEMMA NextIInv == IInv /\ [Next]_vars => IInv'
<1> SUFFICES ASSUME IInv, [Next]_vars PROVE IInv'
  OBVIOUS
<1>1. CASE PublishBegin
  BY <1>1, PublishBeginIInv
<1>2. ASSUME NEW p \in Part, FillWord(p) PROVE IInv'
  BY <1>2, FillWordIInv
<1>3. CASE Exchange
  BY <1>3, ExchangeIInv
<1>4. CASE ReadBegin
  BY <1>4, ReadBeginIInv
<1>5. CASE Load
  BY <1>5, LoadIInv
<1>6. CASE CasSucceeds
  BY <1>6, CasSucceedsIInv
<1>7. CASE CasFails
  BY <1>7, CasFailsIInv
<1>8. ASSUME NEW p \in Part, CopyWord(p) PROVE IInv'
  BY <1>8, CopyWordIInv
<1>9. CASE Return
  BY <1>9, ReturnIInv
<1>10. CASE UNCHANGED vars
  BY <1>10 DEF vars, wvars, rvars, IInv, TypeOK, SlotOwnership, SlotContents,
               ObservedKnown, ReturnedKnown
<1> QED
  BY <1>1, <1>2, <1>3, <1>4, <1>5, <1>6, <1>7, <1>8, <1>9, <1>10
  DEF Next, Producer, Consumer, ReadStep

\* The inductive invariant holds in every reachable state.
THEOREM Invariance == Spec => []IInv
  BY InitIInv, NextIInv, PTL DEF Spec

-----------------------------------------------------------------------------
\* Every variable keeps its type; in particular readInto makes at most three
\* attempts.
THEOREM TypeCorrect == Spec => []TypeOK
<1>1. IInv => TypeOK
  BY DEF IInv
<1> QED
  BY Invariance, <1>1, PTL

\* The slot being filled, the slot being copied out and the slot in latest_ are
\* always three different slots, so the unsynchronised copies never race.
THEOREM OwnershipHolds == Spec => []SlotOwnership
<1>1. IInv => SlotOwnership
  BY DEF IInv
<1> QED
  BY Invariance, <1>1, PTL

\* No call of readInto returns words of two publications.
THEOREM FramesAreWhole == Spec => []NoTornFrame
<1>1. IInv => NoTornFrame
  BY DEF IInv, ReturnedKnown, NoTornFrame
<1> QED
  BY Invariance, <1>1, PTL

\* A read that did not exhaust its attempts is at least as new as the frame that
\* was current when it was entered.
THEOREM FreshReads == Spec => []FreshUnlessGaveUp
<1>1. IInv => FreshUnlessGaveUp
  BY DEF IInv, ReturnedKnown, FreshUnlessGaveUp
<1> QED
  BY Invariance, <1>1, PTL

\* With a strong compare-exchange only three publications within one read make
\* it give up.
THEOREM OverrunOnly == Spec => []GaveUpOnlyWhenOverrun
<1>1. IInv => GaveUpOnlyWhenOverrun
  BY DEF IInv, ObservedKnown, GaveUpOnlyWhenOverrun
<1> QED
  BY Invariance, <1>1, PTL

\* Consecutive reads never go back to an older frame.
THEOREM ReadsAreMonotone == Spec => NeverBackwards
<1>1. IInv /\ [Next]_vars
        => [\A p, q \in Part : returned'[p] >= returned[q]]_returned
  <2> SUFFICES ASSUME IInv, Next, returned' # returned
               PROVE  \A p, q \in Part : returned'[p] >= returned[q]
    BY DEF vars, rvars
  <2>1. Return
    BY DEF Next, Producer, Consumer, ReadStep, PublishBegin, FillWord,
           Exchange, ReadBegin, Load, CasSucceeds, CasFails, CopyWord, rvars
  <2>2. returned' = Whole(readVersion)
    BY <2>1, ReturnWhole
  <2> QED
    BY <2>2 DEF IInv, TypeOK, ReturnedKnown, Whole
<1> QED
  BY Invariance, <1>1, PTL DEF Spec, NeverBackwards

-----------------------------------------------------------------------------
\* The initial state of the buffer is the initial state of the register.
LEMMA RegisterInit == Init => Register!Init
  BY DEF Init, Register!Init, Whole, Register!Whole, PackState

\* Every step of the buffer is a step of the register or leaves it alone: the
\* exchange publishes, entering readInto begins a read, and returning from it
\* ends the read with a current frame or, after three failures, the previous.
LEMMA RegisterNext == IInv /\ [Next]_vars => [Register!Next]_Register!vars
<1> SUFFICES ASSUME IInv, [Next]_vars
             PROVE  [Register!Next]_Register!vars
  OBVIOUS
<1> USE DEF Register!vars
<1>1. CASE PublishBegin
  BY <1>1 DEF PublishBegin, rvars
<1>2. ASSUME NEW p \in Part, FillWord(p)
      PROVE  [Register!Next]_Register!vars
  BY <1>2 DEF FillWord, rvars
<1>3. CASE Exchange
  <2>1. Register!Publish
    BY <1>3 DEF Exchange, Register!Publish, IInv, TypeOK, SlotContents, rvars,
                PackState
  <2> QED
    BY <2>1 DEF Register!Next
<1>4. CASE ReadBegin
  <2>1. Register!BeginRead
    BY <1>4 DEF ReadBegin, Register!BeginRead
  <2> QED
    BY <2>1 DEF Register!Next
<1>5. CASE Load
  BY <1>5 DEF Load
<1>6. CASE CasSucceeds
  BY <1>6 DEF CasSucceeds, PackState, IInv, TypeOK
<1>7. CASE CasFails
  BY <1>7 DEF CasFails
<1>8. ASSUME NEW p \in Part, CopyWord(p)
      PROVE  [Register!Next]_Register!vars
  BY <1>8 DEF CopyWord
<1>9. CASE Return
  <2>1. returned' = Whole(readVersion)
    BY <1>9, ReturnWhole
  <2>2. CASE readVersion >= started
    <3>1. readVersion \in started .. latest.version
      BY <2>2 DEF IInv, TypeOK, SlotContents
    <3>2. Register!ReadCurrent
      BY <1>9, <2>1, <3>1
      DEF Return, Register!ReadCurrent, Register!Whole, Whole
    <3> QED
      BY <3>2 DEF Register!Next
  <2>3. CASE returned = Whole(readVersion)
    <3>1. Register!ReadPrevious
      BY <1>9, <2>1, <2>3 DEF Return, Register!ReadPrevious
    <3> QED
      BY <3>1 DEF Register!Next
  <2> QED
    BY <1>9, <2>2, <2>3 DEF IInv, ReturnedKnown, Return
<1>10. CASE UNCHANGED vars
  BY <1>10 DEF vars, rvars
<1> QED
  BY <1>1, <1>2, <1>3, <1>4, <1>5, <1>6, <1>7, <1>8, <1>9, <1>10
  DEF Next, Producer, Consumer, ReadStep

\* The triple buffer implements the abstract frame register.
THEOREM ImplementsRegister == Spec => RegisterSpec
  BY Invariance, RegisterInit, RegisterNext, PTL
  DEF Spec, RegisterSpec, Register!Spec
=============================================================================
