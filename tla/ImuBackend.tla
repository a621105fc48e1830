------------------------------ MODULE ImuBackend ------------------------------
(***************************************************************************)
(* The RS232 IMU backend: start opens the serial port and spawns a thread  *)
(* that cuts the byte stream of the device into frames and publishes those *)
(* that check out; stop joins it.  The stream is cut at arbitrary places,  *)
(* begins in the middle of a frame, may contain the header inside a frame, *)
(* and a few of its bytes are lost, changed or inserted.                   *)
(*                                                                         *)
(* Frames are shorter than the real ones (Size instead of 50 and 82 bytes) *)
(* and bytes narrower (Base instead of 256), in the same layout.  What the *)
(* decoder of YESENSE, third-party code, makes of a chunk is free.         *)
(***************************************************************************)
EXTENDS Integers, Sequences, FiniteSetsExt

CONSTANTS Base,           \* bytes are 0 .. Base - 1
          Size,           \* type -> bytes of a frame
          Header,         \* type -> <<header0, header1>>
          DataId,         \* the byte that says an XSENS frame holds what we want
          Crc(_),         \* checksum of HIPNUC
          Payloads,       \* what the device measures
          ChunkMax,       \* most bytes of a read, 512 in the code
          MaxFaults,      \* bytes lost, changed or inserted
          MaxStarts       \* calls of start

ASSUME ByteAssumption == Base \in Nat \ {0} /\ ChunkMax \in Nat \ {0}
ASSUME BoundAssumption == MaxFaults \in Nat /\ MaxStarts \in Nat
\* A frame is longer than its header of two bytes.
ASSUME FrameAssumption ==
  \A t \in {"XSENS", "HIPNUC"} :
    Size[t] \in Nat /\ Size[t] > 2 /\ Header[t] = <<Header[t][1], Header[t][2]>>

VARIABLES type,           \* type_, "none" before the first start
          running, stopFlag, open, \* running_, stop_, serialFd_ >= 0
          thread,         \* "none", "loop", "chunk", "closing" or "ended"
          app,            \* "idle", "stopping" while stop joins
          chunk,          \* bytes of this read so far
          frameIndex, frame, \* locals of readLoop
          latest,         \* the last sample published, <<>> is all zeros
          fresh,          \* the last byte completed a frame that was published
          sent, pos,      \* the frame the device sends, bytes of it sent
          tail,           \* the last bytes received, at most a frame of them
          faults, starts

device == <<sent, pos, tail, faults>>
vars == <<type, running, stopFlag, open, thread, app, chunk, frameIndex, frame,
          latest, fresh, device, starts>>

ByteTypes == {"XSENS", "HIPNUC"}

Bytes == 0 .. Base - 1

-----------------------------------------------------------------------------
(* Frames *)

\* Sum of the bytes after header0, negated when it exceeds a byte.
XsensChecksum(f) ==
  LET sum == MapThenSumSet(LAMBDA k : f[k], 2 .. Len(f) - 1)
  IN (IF sum >= Base THEN -sum ELSE sum) % Base

ValidXsens(f) == f[3] = DataId /\ XsensChecksum(f) = f[Len(f)]

ValidHiPNUC(f) == Crc(<<f[1], f[2]>> \o SubSeq(f, 4, Len(f))) = f[3]

\* The measured values; the scale to radians and m/s^2 is left out.
DecodeXsens(f) == SubSeq(f, 4, Len(f) - 1)

DecodeHiPNUC(f) == SubSeq(f, 4, Len(f))

Valid(t, f) == IF t = "XSENS" THEN ValidXsens(f) ELSE ValidHiPNUC(f)

Decode(t, f) == IF t = "XSENS" THEN DecodeXsens(f) ELSE DecodeHiPNUC(f)

Headed(t, f) == Len(f) = Size[t] /\ <<f[1], f[2]>> = Header[t]

\* What a device of this type may send.
Frames(t) ==
  {f \in {IF t = "XSENS" THEN Header[t] \o <<DataId>> \o p \o <<c>>
          ELSE Header[t] \o <<c>> \o p : p \in Payloads, c \in Bytes} : Valid(t, f)}

\* yesenseOutputToImu: groups the output lacks are zero.
YesenseToImu(content) ==
  [g \in {"rpy", "gyr", "acc"} |-> IF g \in content THEN "measured" ELSE "zero"]

-----------------------------------------------------------------------------
(* Start and stop *)

\* The type is known.
ProtocolForType(t) == t \in ByteTypes \cup {"YESENSE"}

Init ==
  /\ type = "none" /\ running = FALSE /\ stopFlag = TRUE /\ open = FALSE
  /\ thread = "none" /\ app = "idle" /\ chunk = 0
  /\ frameIndex = 0 /\ frame = <<>> /\ latest = <<>> /\ fresh = FALSE
  /\ sent = <<>> /\ pos = 0 /\ tail = <<>> /\ faults = 0 /\ starts = 0

\* A refused call and one while the thread runs change nothing.
Start(t, opens) ==
  /\ app = "idle" /\ starts < MaxStarts
  /\ starts' = starts + 1
  /\ UNCHANGED <<app, faults>>
  /\ IF ProtocolForType(t) /\ ~running /\ opens
     THEN /\ type' = t /\ open' = TRUE
          /\ latest' = <<>> /\ fresh' = FALSE
          /\ stopFlag' = FALSE /\ running' = TRUE
          /\ thread' = "loop" /\ chunk' = 0 /\ frameIndex' = 0 /\ frame' = <<>>
          /\ IF t \in ByteTypes THEN sent' \in Frames(t) /\ pos' \in 0 .. Size[t] - 1
             ELSE UNCHANGED <<sent, pos>>
          /\ tail' = <<>>
     ELSE UNCHANGED <<type, running, stopFlag, open, thread, chunk, frameIndex, frame,
                      latest, fresh, sent, pos, tail>>

\* serialFd_ while the thread runs is the descriptor it reads and closes.
StopRequest ==
  /\ app = "idle"
  /\ stopFlag' = TRUE /\ app' = "stopping"
  /\ UNCHANGED <<type, running, open, thread, chunk, frameIndex, frame, latest, fresh,
                 device, starts>>

StopReturn ==
  /\ app = "stopping" /\ thread \in {"none", "ended"}
  /\ app' = "idle" /\ running' = FALSE /\ thread' = "none"
  /\ UNCHANGED <<type, stopFlag, open, chunk, frameIndex, frame, latest, fresh, device, starts>>

-----------------------------------------------------------------------------
(* The reading thread *)

\* A read that returns nothing, or an error, changes nothing.
ReadLoop ==
  /\ thread = "loop"
  /\ thread' = IF stopFlag THEN "closing" ELSE "chunk"
  /\ chunk' = 0
  /\ UNCHANGED <<type, running, stopFlag, open, app, frameIndex, frame, latest, fresh,
                 device, starts>>

ReadLoopEnds ==
  /\ \/ thread = "closing" /\ open /\ open' = FALSE /\ UNCHANGED <<running, thread>>
     \/ /\ thread = "closing" /\ ~open
        /\ running' = FALSE /\ thread' = "ended" /\ UNCHANGED open
  /\ UNCHANGED <<type, stopFlag, app, chunk, frameIndex, frame, latest, fresh, device, starts>>

\* The device goes on with its frame, then with the next one.
Emit ==
  IF pos + 1 < Size[type] THEN pos' = pos + 1 /\ UNCHANGED sent
  ELSE pos' = 0 /\ sent' \in Frames(type)

\* Faults of the line: the byte is changed, or one more is inserted.
Receive(byte) ==
  \/ byte = sent[pos + 1] /\ Emit /\ UNCHANGED faults
  \/ faults < MaxFaults /\ faults' = faults + 1 /\ (Emit \/ UNCHANGED <<sent, pos>>)

Hunt(byte) ==
  /\ frameIndex = 0
  /\ IF byte = Header[type][1] THEN frameIndex' = 1 /\ frame' = <<byte>>
     ELSE UNCHANGED <<frameIndex, frame>>
  /\ fresh' = FALSE /\ UNCHANGED latest

\* Bug: a second header0 is not taken for the first one.
SecondByte_Drops(byte) ==
  /\ frameIndex = 1
  /\ IF byte = Header[type][2] THEN frameIndex' = 2 /\ frame' = Append(frame, byte)
     ELSE frameIndex' = 0 /\ frame' = <<>>
  /\ fresh' = FALSE /\ UNCHANGED latest

\* A second header0 may be the first one.
SecondByte(byte) ==
  /\ frameIndex = 1
  /\ IF byte = Header[type][2] THEN frameIndex' = 2 /\ frame' = Append(frame, byte)
     ELSE IF byte = Header[type][1] THEN UNCHANGED <<frameIndex, frame>>
     ELSE frameIndex' = 0 /\ frame' = <<>>
  /\ fresh' = FALSE /\ UNCHANGED latest

\* Bug: a frame that does not check out is published.
FrameByte_Unchecked(byte) ==
  /\ frameIndex >= 2
  /\ IF frameIndex + 1 < Size[type]
     THEN /\ frameIndex' = frameIndex + 1 /\ frame' = Append(frame, byte)
          /\ fresh' = FALSE /\ UNCHANGED latest
     ELSE /\ frameIndex' = 0 /\ frame' = <<>>
          /\ fresh' = TRUE /\ latest' = Decode(type, Append(frame, byte))

\* Bug: the index is not reset after a frame that does not check out.
FrameByte_NoReset(byte) ==
  /\ frameIndex >= 2
  /\ LET f == Append(frame, byte) IN
     IF frameIndex + 1 # Size[type]
     THEN /\ frameIndex' = frameIndex + 1 /\ frame' = f
          /\ fresh' = FALSE /\ UNCHANGED latest
     ELSE IF Valid(type, f)
          THEN frameIndex' = 0 /\ frame' = <<>> /\ fresh' = TRUE /\ latest' = Decode(type, f)
          ELSE frameIndex' = frameIndex /\ frame' = f /\ fresh' = FALSE /\ UNCHANGED latest

\* A full frame is decoded; good or bad, the next byte is hunted for.
FrameByte(byte) ==
  /\ frameIndex >= 2
  /\ LET f == Append(frame, byte)
         full == frameIndex + 1 = Size[type]
     IN
     /\ frameIndex' = IF full THEN 0 ELSE frameIndex + 1
     /\ frame' = IF full THEN <<>> ELSE f
     /\ fresh' = (full /\ Valid(type, f))
     /\ latest' = IF fresh' THEN Decode(type, f) ELSE latest

\* A byte of the chunk; the stop flag is read between chunks only.
ReadByte ==
  /\ thread = "chunk" /\ type \in ByteTypes
  /\ \E byte \in Bytes :
       /\ Receive(byte)
       /\ Hunt(byte) \/ SecondByte(byte) \/ FrameByte(byte)
       /\ tail' = IF Len(tail) < Size[type] THEN Append(tail, byte) ELSE Append(Tail(tail), byte)
  /\ chunk' = chunk + 1
  /\ thread' \in IF chunk + 1 < ChunkMax THEN {"chunk", "loop"} ELSE {"loop"}
  /\ UNCHANGED <<type, running, stopFlag, open, app, starts>>

\* The decoder makes at most one sample of a chunk.
FeedYesense ==
  /\ thread = "chunk" /\ type = "YESENSE"
  /\ thread' = "loop"
  /\ \/ \E content \in SUBSET {"rpy", "gyr", "acc"} : latest' = YesenseToImu(content)
     \/ UNCHANGED latest
  /\ UNCHANGED <<type, running, stopFlag, open, app, chunk, frameIndex, frame, fresh, device, starts>>

\* A byte is lost on the line.
Lose ==
  /\ thread \in {"loop", "chunk"} /\ type \in ByteTypes
  /\ faults < MaxFaults /\ faults' = faults + 1
  /\ Emit /\ fresh' = FALSE
  /\ UNCHANGED <<type, running, stopFlag, open, thread, app, chunk, frameIndex, frame,
                 latest, tail, starts>>

Thread == ReadLoop \/ ReadLoopEnds \/ ReadByte \/ FeedYesense

App ==
  \/ \E t \in ByteTypes \cup {"YESENSE", "other"}, opens \in BOOLEAN : Start(t, opens)
  \/ StopRequest \/ StopReturn

Next == Thread \/ App \/ Lose

\* The thread and a stop that waits for it are scheduled; the device keeps
\* sending.
Fairness == WF_vars(Thread) /\ WF_vars(StopReturn)

Spec == Init /\ [][Next]_vars /\ Fairness

-----------------------------------------------------------------------------
(* Properties *)

\* Everything has its type, and the parser is never beyond a frame.
TypeOK ==
  /\ type \in ByteTypes \cup {"YESENSE", "none"}
  /\ running \in BOOLEAN /\ stopFlag \in BOOLEAN /\ open \in BOOLEAN /\ fresh \in BOOLEAN
  /\ thread \in {"none", "loop", "chunk", "closing", "ended"}
  /\ app \in {"idle", "stopping"}
  /\ chunk \in 0 .. ChunkMax /\ pos \in Nat /\ faults \in 0 .. MaxFaults /\ starts \in 0 .. MaxStarts
  /\ frameIndex = Len(frame)
  /\ type \in ByteTypes => frameIndex < Size[type]

\* A sample is published only of a frame that was received byte for byte,
\* headed and valid, whatever was lost, changed or inserted before; and the
\* port is open as long as the thread reads it.
FramesFaithful ==
  /\ fresh /\ type \in ByteTypes =>
       Headed(type, tail) /\ Valid(type, tail) /\ latest = Decode(type, tail)
  /\ thread \in {"loop", "chunk"} => open /\ running

Embedded(t, f) == \E k \in 2 .. Len(f) - 1 : <<f[k], f[k + 1]>> = Header[t]

\* When the line makes no more faults and a frame without a header inside is
\* sent again and again, there is a time from which no frame is missed.  A
\* device whose every frame holds a header at one place could keep the reader
\* out of step.
Resyncs ==
  <>[](thread \in {"loop", "chunk"} /\ type \in ByteTypes) 
      /\ []<>(type \in ByteTypes /\ ~Embedded(type, sent))
    => <>[](pos = 0 => fresh)

\* stop returns, although it waits for the thread.
StopReturns == (app = "stopping") ~> (app = "idle" /\ thread = "none" /\ ~open /\ ~running)

Responsive == Resyncs /\ StopReturns
=============================================================================
