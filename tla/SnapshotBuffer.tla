--------------------------- MODULE SnapshotBuffer ---------------------------
(***************************************************************************)
(* The triple buffer that carries every target frame from the application  *)
(* to a backend thread and every actual frame back (SnapshotBuffer<T>).    *)
(* One producer calls publish, one consumer calls readInto; neither takes  *)
(* a lock.  Copying a frame into or out of a slot is not atomic: it is one *)
(* step per word (Part), so a slot shared by both threads shows up as a    *)
(* frame with words of two publications.                                   *)
(*                                                                         *)
(* A frame is represented by its publication number: word p of frame n is  *)
(* n.  writing, writeVersion and what publish does to them after the       *)
(* exchange are private to the producer, so that part of publish is one    *)
(* step with the exchange; the same holds for reading and readVersion and  *)
(* the consumer's successful compare-exchange.  latest is a single atomic  *)
(* location accessed with acquire/release order, hence one step per        *)
(* access.                                                                 *)
(***************************************************************************)
EXTENDS Naturals

CONSTANTS Part,        \* the words of a frame
          MaxVersion,  \* bound on the number of publications
          WeakCasFails \* may compare_exchange_weak fail spuriously (LL/SC)?

ASSUME PartAssumption == Part # {}
ASSUME MaxVersionAssumption == MaxVersion \in Nat
ASSUME WeakCasFailsAssumption == WeakCasFails \in BOOLEAN

Slot == 0 .. 2
MaxAttempts == 3

VARIABLES slots,        \* buffers_: per slot, per word, the frame it is from
          latest,       \* latest_: packed version and slot index
          writing, writeVersion,  \* writing_, writeVersion_
          reading, readVersion,   \* reading_, readVersion_
          wpc, wtodo,   \* producer: where in publish; words still to copy
          rpc, rtodo,   \* consumer: where in readInto; words still to copy
          attempt, observed,      \* locals of readInto
          out,          \* readInto's out parameter
          started,      \* history: latest version when the read started
          returned      \* history: what the last completed read returned

wvars == <<writing, writeVersion, wpc, wtodo>>
rvars == <<reading, readVersion, rpc, rtodo, attempt, observed, out, started,
           returned>>
vars == <<slots, latest, wvars, rvars>>

PackState(version, index) == [version |-> version, index |-> index]

Whole(n) == [p \in Part |-> n]

Init ==
  /\ slots = [s \in Slot |-> Whole(0)]
  /\ latest = PackState(0, 0)
  /\ writing = 1 /\ writeVersion = 0
  /\ reading = 2 /\ readVersion = 0
  /\ wpc = "idle" /\ wtodo = {}
  /\ rpc = "idle" /\ rtodo = {}
  /\ attempt = 0 /\ observed = PackState(0, 0)
  /\ out = Whole(0)
  /\ started = 0
  /\ returned = Whole(0)

-----------------------------------------------------------------------------
(* Faulty variants of the actions below, for mutation testing: each is the *)
(* action with one mistake, and one property of this module rejects it.    *)

\* Relaxed order: the slot becomes current before all its words are there.
Exchange_Relaxed ==
  /\ wpc = "fill"
  /\ latest' = PackState(writeVersion + 1, writing)
  /\ writeVersion' = writeVersion + 1
  /\ writing' = latest.index
  /\ wpc' = "idle" /\ wtodo' = {}
  /\ UNCHANGED <<slots, rvars>>

\* Load with another test for "nothing newer than the slot I hold".
LoadUnless(nothingNewer) ==
  /\ rpc = "load"
  /\ observed' = latest
  /\ IF nothingNewer
       THEN rpc' = "copy" /\ rtodo' = Part
       ELSE rpc' = "cas" /\ UNCHANGED rtodo
  /\ UNCHANGED <<slots, latest, wvars, reading, readVersion, attempt, out,
                 started, returned>>

Load_TestsOldValue == LoadUnless(observed.version = readVersion)
Load_OffByOne == LoadUnless(latest.version <= readVersion + 1)

\* A plain store instead of the compare-exchange.
CasSucceeds_NoCompare ==
  /\ rpc = "cas"
  /\ latest' = PackState(observed.version, reading)
  /\ reading' = observed.index
  /\ readVersion' = observed.version
  /\ rpc' = "copy"
  /\ rtodo' = Part
  /\ UNCHANGED <<slots, wvars, attempt, observed, out, started, returned>>

\* One attempt too many.
CasFails_OffByOne ==
  /\ rpc = "cas"
  /\ latest # observed \/ WeakCasFails
  /\ attempt' = attempt + 1
  /\ IF attempt < MaxAttempts
       THEN rpc' = "load" /\ UNCHANGED rtodo
       ELSE rpc' = "copy" /\ rtodo' = Part
  /\ UNCHANGED <<slots, latest, wvars, reading, readVersion, observed, out,
                 started, returned>>

-----------------------------------------------------------------------------
(* The producer *)

\* The caller enters publish.
PublishBegin ==
  /\ wpc = "idle"
  /\ writeVersion < MaxVersion
  /\ wpc' = "fill"
  /\ wtodo' = Part
  /\ UNCHANGED <<slots, latest, writing, writeVersion, rvars>>

\* buffers_[writing_] = value, one word of it.
FillWord(p) ==
  /\ wpc = "fill"
  /\ p \in wtodo
  /\ slots' = [slots EXCEPT ![writing][p] = writeVersion + 1]
  /\ wtodo' = wtodo \ {p}
  /\ UNCHANGED <<latest, writing, writeVersion, wpc, rvars>>

\* The exchange makes the slot current and takes the previous one in return.
Exchange ==
  /\ wpc = "fill"
  /\ wtodo = {}
  /\ latest' = PackState(writeVersion + 1, writing)
  /\ writeVersion' = writeVersion + 1
  /\ writing' = latest.index
  /\ wpc' = "idle"
  /\ UNCHANGED <<slots, wtodo, rvars>>

Producer == PublishBegin \/ (\E p \in Part : FillWord(p)) \/ Exchange

-----------------------------------------------------------------------------
(* The consumer *)

\* The caller enters readInto.
ReadBegin ==
  /\ rpc = "idle"
  /\ rpc' = "load"
  /\ attempt' = 0
  /\ started' = latest.version
  /\ UNCHANGED <<slots, latest, wvars, reading, readVersion, rtodo, observed,
                 out, returned>>

\* latest_.load: nothing newer ends the loop and the held slot is copied.
Load ==
  /\ rpc = "load"
  /\ observed' = latest
  /\ IF latest.version = readVersion
       THEN rpc' = "copy" /\ rtodo' = Part
       ELSE rpc' = "cas" /\ UNCHANGED rtodo
  /\ UNCHANGED <<slots, latest, wvars, reading, readVersion, attempt, out,
                 started, returned>>

\* The compare-exchange succeeds: the consumer gives its slot for the latest.
CasSucceeds ==
  /\ rpc = "cas"
  /\ latest = observed
  /\ latest' = PackState(observed.version, reading)
  /\ reading' = observed.index
  /\ readVersion' = observed.version
  /\ rpc' = "copy"
  /\ rtodo' = Part
  /\ UNCHANGED <<slots, wvars, attempt, observed, out, started, returned>>

\* It fails, because latest changed or spuriously; three failures give up.
CasFails ==
  /\ rpc = "cas"
  /\ latest # observed \/ WeakCasFails
  /\ attempt' = attempt + 1
  /\ IF attempt + 1 < MaxAttempts
       THEN rpc' = "load" /\ UNCHANGED rtodo
       ELSE rpc' = "copy" /\ rtodo' = Part
  /\ UNCHANGED <<slots, latest, wvars, reading, readVersion, observed, out,
                 started, returned>>

\* out = buffers_[reading_], one word of it.
CopyWord(p) ==
  /\ rpc = "copy"
  /\ p \in rtodo
  /\ out' = [out EXCEPT ![p] = slots[reading][p]]
  /\ rtodo' = rtodo \ {p}
  /\ UNCHANGED <<slots, latest, wvars, reading, readVersion, rpc, attempt,
                 observed, started, returned>>

\* readInto returns to its caller.
Return ==
  /\ rpc = "copy"
  /\ rtodo = {}
  /\ returned' = out
  /\ rpc' = "idle"
  /\ UNCHANGED <<slots, latest, wvars, reading, readVersion, rtodo, attempt,
                 observed, out, started>>

ReadStep ==
  \/ Load
  \/ CasSucceeds
  \/ CasFails
  \/ \E p \in Part : CopyWord(p)
  \/ Return

Consumer == ReadBegin \/ ReadStep

Next == Producer \/ Consumer

Spec == Init /\ [][Next]_vars

\* The consumer reads again and again (the backend thread reads once per cycle,
\* the application polls), and a compare-exchange that is infinitely often
\* possible does not fail spuriously for ever.  Nothing is assumed of the
\* producer, which may stop anywhere.
FairSpec == Spec /\ WF_vars(Consumer) /\ SF_vars(CasSucceeds)

-----------------------------------------------------------------------------
TypeOK ==
  /\ slots \in [Slot -> [Part -> Nat]]
  /\ latest \in [version : Nat, index : Slot]
  /\ writing \in Slot /\ reading \in Slot
  /\ writeVersion \in Nat /\ readVersion \in Nat
  /\ wpc \in {"idle", "fill"} /\ wtodo \in SUBSET Part
  /\ rpc \in {"idle", "load", "cas", "copy"} /\ rtodo \in SUBSET Part
  /\ attempt \in 0 .. MaxAttempts
  /\ observed \in [version : Nat, index : Slot]
  /\ out \in [Part -> Nat] /\ returned \in [Part -> Nat]
  /\ started \in Nat

\* The producer's slot, the consumer's slot and the slot in latest_ are three
\* different slots at every moment: no slot is written while it can be read.
SlotOwnership ==
  /\ writing # reading
  /\ writing # latest.index
  /\ reading # latest.index

\* No read returns a torn frame: its words are of one publication.
NoTornFrame == \A p, q \in Part : returned[p] = returned[q]

\* A read that did not lose all its attempts returns a frame at least as new
\* as the one that was current when readInto was entered.
FreshUnlessGaveUp ==
  rpc = "copy" => readVersion >= started \/ attempt = MaxAttempts

\* Without spurious failures a read gives up only if the producer published
\* three times while it was running.
GaveUpOnlyWhenOverrun ==
  (~WeakCasFails /\ rpc = "copy" /\ attempt = MaxAttempts)
     => latest.version >= started + MaxAttempts

\* Frames never run backwards: a read never returns an older frame than the
\* read before it.
NeverBackwards == [][\A p, q \in Part : returned'[p] >= returned[q]]_returned

\* readInto is wait-free: whatever the producer does, it returns.
ReadReturns == rpc # "idle" ~> rpc = "idle"

\* Every publication is eventually superseded at the consumer: it returns
\* that frame or a newer one.
EventuallySeen ==
  \A n \in 1 .. MaxVersion :
    latest.version >= n ~> \A p \in Part : returned[p] >= n

-----------------------------------------------------------------------------
(* The inductive invariant behind the safety properties. *)

\* What the slots hold: the consumer's slot the frame it last took, the slot in
\* latest_ the last publication unless the consumer already took it, and the
\* producer's slot the words copied so far of the frame being published.
SlotContents ==
  /\ latest.version = writeVersion
  /\ readVersion <= latest.version
  /\ slots[reading] = Whole(readVersion)
  /\ latest.version # readVersion => slots[latest.index] = Whole(latest.version)
  /\ wpc = "fill" =>
       \A p \in Part \ wtodo : slots[writing][p] = writeVersion + 1

\* What the consumer knows between its load and its compare-exchange: the value
\* it observed is still the current one unless the version moved on.
ObservedKnown ==
  /\ rpc \in {"load", "cas"} => attempt < MaxAttempts
  /\ rpc = "cas" =>
       /\ readVersion < observed.version
       /\ started <= observed.version
       /\ observed.version <= latest.version
       /\ observed.version = latest.version => observed = latest
  /\ ~WeakCasFails =>
       /\ rpc = "load" => latest.version >= started + attempt
       /\ rpc = "cas" => observed.version >= started + attempt
       /\ rpc = "copy" => latest.version >= started + attempt

\* What has been, and is being, returned.
ReturnedKnown ==
  /\ started <= latest.version
  /\ \A p, q \in Part : returned[p] = returned[q]
  /\ \A p \in Part : returned[p] <= readVersion
  /\ rpc # "copy" => returned = Whole(readVersion)
  /\ rpc = "copy" =>
       /\ \A p \in Part \ rtodo : out[p] = readVersion
       /\ \/ readVersion >= started
          \/ attempt = MaxAttempts /\ returned = Whole(readVersion)

\* Every reachable state, and nothing but the facts a step needs.
IInv ==
  /\ TypeOK
  /\ SlotOwnership
  /\ SlotContents
  /\ ObservedKnown
  /\ ReturnedKnown

-----------------------------------------------------------------------------
\* What readInto and publish implement.
Register == INSTANCE FrameRegister WITH
  published <- latest.version,
  reading <- rpc # "idle",
  floor <- started

RegisterSpec == Register!Spec
=============================================================================
