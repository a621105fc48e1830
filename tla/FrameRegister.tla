--------------------------- MODULE FrameRegister ---------------------------
(***************************************************************************)
(* What a SnapshotBuffer promises its one producer and its one consumer:   *)
(* a register that holds the last published frame.  A read returns either  *)
(* a whole frame that was current at some moment of that read, or, when    *)
(* the consumer loses its races with the producer, the whole frame it      *)
(* returned the time before.  Frames are numbered in publication order;    *)
(* frame 0 is the initial value.                                           *)
(***************************************************************************)
EXTENDS Naturals

CONSTANT Part        \* the words a frame is made of

VARIABLES published,  \* number of the last published frame
          reading,    \* TRUE while a read is in progress
          floor,      \* the frame that was current when that read started
          returned    \* the frame the last completed read returned

vars == <<published, reading, floor, returned>>

\* The frame whose every word belongs to publication n.
Whole(n) == [p \in Part |-> n]

Init ==
  /\ published = 0
  /\ reading = FALSE
  /\ floor = 0
  /\ returned = Whole(0)

Publish ==
  /\ published' = published + 1
  /\ UNCHANGED <<reading, floor, returned>>

BeginRead ==
  /\ ~reading
  /\ reading' = TRUE
  /\ floor' = published
  /\ UNCHANGED <<published, returned>>

ReadCurrent ==
  /\ reading
  /\ reading' = FALSE
  /\ \E n \in floor .. published : returned' = Whole(n)
  /\ UNCHANGED <<published, floor>>

ReadPrevious ==
  /\ reading
  /\ reading' = FALSE
  /\ UNCHANGED <<published, floor, returned>>

Next == Publish \/ BeginRead \/ ReadCurrent \/ ReadPrevious

Spec == Init /\ [][Next]_vars
=============================================================================
