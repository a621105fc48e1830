--------------------------- MODULE ImuBackendProofs ---------------------------
(***************************************************************************)
(* Proofs about the IMU backend: for every length of frames, width of      *)
(* bytes, header, checksum, chunk size and number of faults of the line.   *)
(***************************************************************************)
EXTENDS ImuBackend, TLAPS

\* The bytes of f are the last ones of t.
IsSuffix(f, t) ==
  /\ Len(f) <= Len(t)
  /\ \A k \in 1 .. Len(f) : t[Len(t) - Len(f) + k] = f[k]

\* The frame begun is what was received last, and begins with the header.
ParserInv ==
  type \in ByteTypes =>
    /\ tail \in Seq(Bytes) /\ frame \in Seq(Bytes)
    /\ Len(tail) <= Size[type]
    /\ IsSuffix(frame, tail)
    /\ Len(frame) >= 1 => frame[1] = Header[type][1]
    /\ Len(frame) >= 2 => frame[2] = Header[type][2]

\* The thread runs, and reads, between start and stop only.
ThreadInv ==
  /\ thread = "chunk" => chunk < ChunkMax
  /\ thread \in {"loop", "chunk"} => type # "none"
  /\ type = "none" => frameIndex = 0

IInv == TypeOK /\ FramesFaithful /\ ParserInv /\ ThreadInv

-----------------------------------------------------------------------------
(* Sequences of bytes *)

\* The last n bytes received, after one more.
Received(t, b, n) == IF Len(t) < n THEN Append(t, b) ELSE Append(Tail(t), b)

\* What is a suffix of the bytes received stays one when a byte is added to both.
LEMMA SuffixGrows ==
  ASSUME NEW B, NEW t \in Seq(B), NEW f \in Seq(B), NEW b \in B, NEW n \in Nat,
         n > 0, Len(t) <= n, Len(f) < n, IsSuffix(f, t)
  PROVE  /\ Received(t, b, n) \in Seq(B) /\ Len(Received(t, b, n)) <= n
         /\ IsSuffix(Append(f, b), Received(t, b, n))
<1> DEFINE u == Received(t, b, n)
           g == Append(f, b)
<1>1. g \in Seq(B) /\ Len(g) = Len(f) + 1 /\ g[Len(g)] = b
      /\ \A k \in 1 .. Len(f) : g[k] = f[k]
  OBVIOUS
<1>2. CASE Len(t) < n
  <2>1. u = Append(t, b)
    BY <1>2 DEF Received
  <2>2. u \in Seq(B) /\ Len(u) = Len(t) + 1 /\ u[Len(u)] = b
        /\ \A k \in 1 .. Len(t) : u[k] = t[k]
    BY <2>1
  <2> HIDE DEF u, g
  <2>3. ASSUME NEW k \in 1 .. Len(g) PROVE u[Len(u) - Len(g) + k] = g[k]
    <3>1. CASE k = Len(g)
      BY <1>1, <2>2, <3>1
    <3>2. CASE k \in 1 .. Len(f)
      <4>1. Len(u) - Len(g) + k = Len(t) - Len(f) + k /\ Len(t) - Len(f) + k \in 1 .. Len(t)
        BY <1>1, <2>2, <3>2 DEF IsSuffix
      <4> QED BY <1>1, <2>2, <3>2, <4>1 DEF IsSuffix
    <3> QED BY <1>1, <3>1, <3>2
  <2>4. Len(g) <= Len(u)
    BY <1>1, <2>2 DEF IsSuffix
  <2>5. u \in Seq(B) /\ Len(u) <= n /\ IsSuffix(g, u)
    BY <1>2, <2>2, <2>3, <2>4 DEF IsSuffix
  <2> QED BY <2>5 DEF u, g
<1>3. CASE Len(t) = n
  <2>1. u = Append(Tail(t), b) /\ t # <<>>
    BY <1>3 DEF Received
  <2>2. Tail(t) \in Seq(B) /\ Len(Tail(t)) = n - 1 /\ \A k \in 1 .. n - 1 : Tail(t)[k] = t[k + 1]
    BY <1>3, <2>1
  <2>3. u \in Seq(B) /\ Len(u) = n /\ u[n] = b /\ \A k \in 1 .. n - 1 : u[k] = t[k + 1]
    BY <2>1, <2>2
  <2> HIDE DEF u, g
  <2>4. ASSUME NEW k \in 1 .. Len(g) PROVE u[Len(u) - Len(g) + k] = g[k]
    <3>1. CASE k = Len(g)
      BY <1>1, <2>3, <3>1
    <3>2. CASE k \in 1 .. Len(f)
      <4>1. /\ Len(u) - Len(g) + k \in 1 .. n - 1
            /\ Len(u) - Len(g) + k + 1 = Len(t) - Len(f) + k
        BY <1>1, <1>3, <2>3, <3>2
      <4> QED BY <1>1, <2>3, <3>2, <4>1 DEF IsSuffix
    <3> QED BY <1>1, <3>1, <3>2
  <2>5. u \in Seq(B) /\ Len(u) <= n /\ IsSuffix(g, u)
    BY <1>1, <2>3, <2>4 DEF IsSuffix
  <2> QED BY <2>5 DEF u, g
<1> QED BY <1>2, <1>3

\* A suffix as long as the whole is the whole.
LEMMA WholeSuffix ==
  ASSUME NEW B, NEW t \in Seq(B), NEW f \in Seq(B), IsSuffix(f, t), Len(t) <= Len(f)
  PROVE  t = f
<1>1. Len(t) = Len(f)
  BY DEF IsSuffix
<1>2. \A k \in 1 .. Len(f) : t[k] = f[k]
  BY <1>1 DEF IsSuffix
<1> QED BY <1>1, <1>2

\* The empty frame, and one of the last byte, are suffixes.
LEMMA ShortSuffixes ==
  ASSUME NEW B, NEW t \in Seq(B), NEW b \in B, NEW n \in Nat, n > 0, Len(t) <= n
  PROVE  /\ <<>> \in Seq(B) /\ <<b>> \in Seq(B)
         /\ IsSuffix(<<>>, t) /\ IsSuffix(<<>>, Received(t, b, n))
         /\ IsSuffix(<<b>>, Received(t, b, n))
<1>1. <<>> \in Seq(B) /\ IsSuffix(<<>>, t)
  BY DEF IsSuffix
<1>2. Received(t, b, n) \in Seq(B) /\ IsSuffix(Append(<<>>, b), Received(t, b, n))
  BY <1>1, SuffixGrows
<1>3. Append(<<>>, b) = <<b>>
  OBVIOUS
<1>4. IsSuffix(<<>>, Received(t, b, n))
  BY <1>2 DEF IsSuffix
<1> QED BY <1>1, <1>2, <1>3, <1>4

-----------------------------------------------------------------------------
(* Every step keeps the invariant *)

LEMMA InitInv == Init => IInv
<1> SUFFICES ASSUME Init PROVE IInv
  OBVIOUS
<1>1. 0 \in 0 .. ChunkMax /\ 0 \in 0 .. MaxFaults /\ 0 \in 0 .. MaxStarts
  BY ByteAssumption, BoundAssumption
<1>2. TypeOK
  BY <1>1 DEF Init, TypeOK, ByteTypes
<1>3. FramesFaithful /\ ParserInv /\ ThreadInv
  BY DEF Init, FramesFaithful, ParserInv, ThreadInv, ByteTypes
<1> QED BY <1>2, <1>3 DEF IInv

\* What all steps that leave the parser alone have in common.
LEMMA ParserRests ==
  ASSUME IInv, UNCHANGED <<type, frameIndex, frame, tail>>
  PROVE  /\ ParserInv'
         /\ frameIndex' = Len(frame') /\ (type' \in ByteTypes => frameIndex' < Size[type'])
BY DEF IInv, ParserInv, IsSuffix, TypeOK

\* start begins with no byte read.
LEMMA StartKeeps ==
  ASSUME IInv, NEW t, NEW opens, Start(t, opens)
  PROVE  IInv'
<1> USE DEF IInv
<1>1. UNCHANGED <<app, faults>> /\ starts' = starts + 1 /\ starts' \in 0 .. MaxStarts
  BY BoundAssumption DEF Start, TypeOK
<1>2. CASE ProtocolForType(t) /\ ~running /\ opens
  <2>1. /\ type' = t /\ t \in ByteTypes \cup {"YESENSE"} /\ open' = TRUE /\ fresh' = FALSE
        /\ stopFlag' = FALSE /\ running' = TRUE /\ thread' = "loop" /\ chunk' = 0
        /\ frameIndex' = 0 /\ frame' = <<>> /\ tail' = <<>>
    BY <1>2 DEF Start, ProtocolForType
  <2>2. pos' \in Nat
    BY <1>2, FrameAssumption DEF Start, ByteTypes, TypeOK
  <2>3. type' \in ByteTypes => Size[type'] \in Nat /\ Size[type'] > 2
    BY FrameAssumption DEF ByteTypes
  <2>4. TypeOK'
    <3>1. chunk' \in 0 .. ChunkMax /\ frameIndex' = Len(frame')
      BY <2>1, ByteAssumption
    <3>2. type' \in ByteTypes => frameIndex' < Size[type']
      BY <2>1, <2>3
    <3>3. app' \in {"idle", "stopping"} /\ faults' \in 0 .. MaxFaults
      BY <1>1 DEF TypeOK
    <3> QED BY <1>1, <2>1, <2>2, <3>1, <3>2, <3>3 DEF TypeOK
  <2>5. ParserInv'
    <3>1. <<>> \in Seq(Bytes) /\ Len(<<>>) = 0 /\ IsSuffix(<<>>, <<>>)
      BY DEF IsSuffix
    <3> QED BY <2>1, <2>3, <3>1 DEF ParserInv
  <2>6. FramesFaithful' /\ ThreadInv'
    BY <2>1 DEF FramesFaithful, ThreadInv, ByteTypes
  <2> QED BY <2>4, <2>5, <2>6
<1>3. CASE ~(ProtocolForType(t) /\ ~running /\ opens)
  <2>1. UNCHANGED <<type, running, stopFlag, open, thread, chunk, frameIndex, frame,
                    latest, fresh, sent, pos, tail>>
    BY <1>3 DEF Start
  <2>2. TypeOK' /\ ParserInv'
    BY <1>1, <2>1, ParserRests DEF TypeOK
  <2>3. FramesFaithful' /\ ThreadInv'
    BY <2>1 DEF FramesFaithful, ThreadInv
  <2> QED BY <2>2, <2>3
<1> QED BY <1>2, <1>3

\* stop, the ends of the loop and of a chunk, and another decoder.
LEMMA RestKeeps ==
  ASSUME IInv, StopRequest \/ StopReturn \/ ReadLoop \/ ReadLoopEnds \/ FeedYesense \/ UNCHANGED vars
  PROVE  IInv'
<1> USE DEF IInv
<1>1. /\ UNCHANGED <<type, frameIndex, frame, fresh, tail, pos, faults, starts>>
      /\ type \in ByteTypes => latest' = latest
  BY DEF StopRequest, StopReturn, ReadLoop, ReadLoopEnds, FeedYesense, vars, device, ByteTypes
<1>2. /\ running' \in BOOLEAN /\ stopFlag' \in BOOLEAN /\ open' \in BOOLEAN
      /\ thread' \in {"none", "loop", "chunk", "closing", "ended"}
      /\ app' \in {"idle", "stopping"}
  BY DEF StopRequest, StopReturn, ReadLoop, ReadLoopEnds, FeedYesense, vars, TypeOK
<1>3. /\ chunk' \in 0 .. ChunkMax /\ (thread' = "chunk" => chunk' < ChunkMax)
      /\ thread' \in {"loop", "chunk"} => type # "none" /\ open' /\ running'
  BY ByteAssumption
     DEF StopRequest, StopReturn, ReadLoop, ReadLoopEnds, FeedYesense, vars, TypeOK, ThreadInv,
         FramesFaithful
<1>4. TypeOK' /\ ParserInv'
  BY <1>1, <1>2, <1>3, ParserRests DEF TypeOK
<1>5. FramesFaithful' /\ ThreadInv'
  BY <1>1, <1>3 DEF FramesFaithful, ThreadInv
<1> QED BY <1>4, <1>5

\* The device goes on within a frame or with a new one.
LEMMA EmitCounts ==
  ASSUME IInv, type \in ByteTypes, Emit
  PROVE  pos' \in Nat
BY DEF IInv, TypeOK, Emit

\* A byte lost on the line never reaches the parser.
LEMMA LoseKeeps ==
  ASSUME IInv, Lose
  PROVE  IInv'
<1> USE DEF IInv
<1>1. /\ fresh' = FALSE /\ type \in ByteTypes /\ faults' = faults + 1 /\ faults < MaxFaults
      /\ UNCHANGED <<type, running, stopFlag, open, thread, app, chunk, frameIndex, frame,
                     latest, tail, starts>>
  BY DEF Lose
<1>2. pos' \in Nat
  BY <1>1, EmitCounts DEF Lose
<1>3. faults' \in 0 .. MaxFaults
  BY <1>1, BoundAssumption DEF TypeOK
<1>4. TypeOK' /\ ParserInv'
  BY <1>1, <1>2, <1>3, ParserRests DEF TypeOK
<1>5. FramesFaithful' /\ ThreadInv'
  BY <1>1 DEF FramesFaithful, ThreadInv
<1> QED BY <1>4, <1>5

\* The parser: what it does of a byte, and what it holds then.
LEMMA ParserStep ==
  ASSUME IInv, type \in ByteTypes, NEW byte \in Bytes,
         Hunt(byte) \/ SecondByte(byte) \/ FrameByte(byte),
         tail' = Received(tail, byte, Size[type]), type' = type
  PROVE  /\ ParserInv'
         /\ frameIndex' = Len(frame') /\ frameIndex' < Size[type] /\ fresh' \in BOOLEAN
         /\ fresh' => Headed(type, tail') /\ Valid(type, tail') /\ latest' = Decode(type, tail')
<1> DEFINE n == Size[type]
<1>1. n \in Nat /\ n > 2 /\ Header[type] = <<Header[type][1], Header[type][2]>>
  BY FrameAssumption DEF ByteTypes
<1>2. /\ tail \in Seq(Bytes) /\ frame \in Seq(Bytes) /\ Len(tail) <= n /\ IsSuffix(frame, tail)
      /\ Len(frame) >= 1 => frame[1] = Header[type][1]
      /\ Len(frame) >= 2 => frame[2] = Header[type][2]
      /\ frameIndex = Len(frame) /\ frameIndex < n
  BY DEF IInv, ParserInv, TypeOK
<1>3. tail' = Received(tail, byte, n)
  OBVIOUS
<1> HIDE DEF n
<1>4. /\ tail' \in Seq(Bytes) /\ Len(tail') <= n
      /\ IsSuffix(Append(frame, byte), tail')
  BY <1>1, <1>2, <1>3, SuffixGrows
<1>5. /\ <<>> \in Seq(Bytes) /\ <<byte>> \in Seq(Bytes)
      /\ IsSuffix(<<>>, tail') /\ IsSuffix(<<byte>>, tail')
  BY <1>1, <1>2, <1>3, ShortSuffixes
<1>6. /\ Append(frame, byte) \in Seq(Bytes) /\ Len(Append(frame, byte)) = Len(frame) + 1
      /\ Append(frame, byte)[Len(frame) + 1] = byte
      /\ \A k \in 1 .. Len(frame) : Append(frame, byte)[k] = frame[k]
  BY <1>2
<1>7. Len(<<>>) = 0 /\ Len(<<byte>>) = 1 /\ <<byte>>[1] = byte
  OBVIOUS
<1> DEFINE Parsed(f) ==
             /\ f \in Seq(Bytes) /\ IsSuffix(f, tail') /\ Len(f) < n
             /\ Len(f) >= 1 => f[1] = Header[type][1]
             /\ Len(f) >= 2 => f[2] = Header[type][2]
<1>8. Parsed(<<>>)
  BY <1>1, <1>5, <1>7
<1>9. byte = Header[type][1] => Parsed(<<byte>>)
  BY <1>1, <1>5, <1>7
<1>10. CASE Hunt(byte)
  <2>1. CASE byte = Header[type][1]
    <3>1. frameIndex' = 1 /\ frame' = <<byte>> /\ fresh' = FALSE
      BY <1>10, <2>1 DEF Hunt
    <3> QED BY <1>1, <1>4, <1>7, <1>9, <2>1, <3>1 DEF ParserInv, n
  <2>2. CASE byte # Header[type][1]
    <3>1. frameIndex' = 0 /\ frame' = frame /\ fresh' = FALSE /\ frameIndex = 0
      BY <1>10, <2>2 DEF Hunt
    <3>2. frame = <<>>
      <4>1. Len(frame) <= Len(<<>>) /\ IsSuffix(<<>>, frame)
        BY <1>2, <1>7, <3>1 DEF IsSuffix
      <4> QED BY <1>2, <1>5, <4>1, WholeSuffix
    <3> QED BY <1>1, <1>4, <1>7, <1>8, <3>1, <3>2 DEF ParserInv, n
  <2> QED BY <2>1, <2>2
<1>11. CASE SecondByte(byte)
  <2>1. frameIndex = 1 /\ fresh' = FALSE
    BY <1>11 DEF SecondByte
  <2>2. CASE byte = Header[type][2]
    <3>1. frameIndex' = 2 /\ frame' = Append(frame, byte)
      BY <1>11, <2>2 DEF SecondByte
    <3> DEFINE f == Append(frame, byte)
    <3>2. Parsed(f) /\ Len(f) = 2
      BY <1>1, <1>2, <1>4, <1>6, <2>1, <2>2
    <3>3. frame' = f
      BY <3>1
    <3> HIDE DEF f
    <3> QED BY <1>1, <1>4, <2>1, <3>1, <3>2, <3>3 DEF ParserInv, n
  <2>3. CASE byte # Header[type][2] /\ byte = Header[type][1]
    <3>1. frameIndex' = 1 /\ frame' = frame
      BY <1>11, <2>1, <2>3 DEF SecondByte
    <3>2. frame = <<byte>>
      <4>1. Len(frame) <= Len(<<byte>>) /\ IsSuffix(<<byte>>, frame)
        BY <1>2, <1>7, <2>1, <2>3 DEF IsSuffix
      <4> QED BY <1>2, <1>5, <4>1, WholeSuffix
    <3> QED BY <1>1, <1>4, <1>7, <1>9, <2>1, <2>3, <3>1, <3>2 DEF ParserInv, n
  <2>4. CASE byte # Header[type][2] /\ byte # Header[type][1]
    <3>1. frameIndex' = 0 /\ frame' = <<>>
      BY <1>11, <2>4 DEF SecondByte
    <3> QED BY <1>1, <1>4, <1>7, <1>8, <2>1, <3>1 DEF ParserInv, n
  <2> QED BY <2>2, <2>3, <2>4
<1>12. CASE FrameByte(byte)
  <2> DEFINE f == Append(frame, byte)
  <2>1. frameIndex >= 2
    BY <1>12 DEF FrameByte
  <2>2. f[1] = Header[type][1] /\ f[2] = Header[type][2]
    BY <1>2, <1>6, <2>1
  <2>3. CASE frameIndex + 1 = n
    <3>0. fresh' = (frameIndex + 1 = Size[type] /\ Valid(type, f))
      BY <1>12, Zenon DEF FrameByte
    <3>1. /\ frameIndex' = 0 /\ frame' = <<>> /\ (fresh' => Valid(type, f))
          /\ latest' = IF fresh' THEN Decode(type, f) ELSE latest
      BY <1>12, <2>3, <3>0 DEF FrameByte, n
    <3>2. tail' = f /\ Len(f) = n
      BY <1>2, <1>4, <1>6, <2>3, WholeSuffix
    <3>3. Headed(type, tail')
      BY <1>1, <2>2, <3>2 DEF Headed, n
    <3>4. fresh' \in BOOLEAN
      BY <1>12 DEF FrameByte
    <3> QED BY <1>1, <1>4, <1>7, <1>8, <3>1, <3>2, <3>3, <3>4 DEF ParserInv, n
  <2>4. CASE frameIndex + 1 # n
    <3>1. /\ frameIndex' = frameIndex + 1 /\ frame' = f /\ fresh' = FALSE
      BY <1>12, <2>4 DEF FrameByte, n
    <3>2. Parsed(f)
      BY <1>1, <1>2, <1>4, <1>6, <2>1, <2>2, <2>4
    <3> QED BY <1>1, <1>2, <1>4, <1>6, <3>1, <3>2 DEF ParserInv, n
  <2> QED BY <2>3, <2>4
<1> QED BY <1>10, <1>11, <1>12

\* A byte of the chunk.
LEMMA ReadByteKeeps ==
  ASSUME IInv, ReadByte
  PROVE  IInv'
<1> USE DEF IInv
<1>1. PICK byte \in Bytes :
        /\ Receive(byte)
        /\ Hunt(byte) \/ SecondByte(byte) \/ FrameByte(byte)
        /\ tail' = Received(tail, byte, Size[type])
  BY DEF ReadByte, Received
<1>2. /\ thread = "chunk" /\ type \in ByteTypes /\ chunk' = chunk + 1
      /\ UNCHANGED <<type, running, stopFlag, open, app, starts>>
      /\ thread' = "loop" \/ (thread' = "chunk" /\ chunk + 1 < ChunkMax)
  BY DEF ReadByte
<1>3. chunk' \in 0 .. ChunkMax /\ (thread' = "chunk" => chunk' < ChunkMax)
  BY <1>2, ByteAssumption DEF ThreadInv, TypeOK
<1>4. pos' \in Nat /\ faults' \in 0 .. MaxFaults
  BY <1>1, <1>2, EmitCounts, BoundAssumption DEF Receive, TypeOK
<1>5. /\ ParserInv'
      /\ frameIndex' = Len(frame') /\ frameIndex' < Size[type] /\ fresh' \in BOOLEAN
      /\ fresh' => Headed(type, tail') /\ Valid(type, tail') /\ latest' = Decode(type, tail')
  BY <1>1, <1>2, ParserStep
<1>6. TypeOK'
  BY <1>2, <1>3, <1>4, <1>5 DEF TypeOK
<1>7. FramesFaithful'
  BY <1>2, <1>5 DEF FramesFaithful
<1>8. ThreadInv'
  BY <1>2, <1>3 DEF ThreadInv, ByteTypes
<1> QED BY <1>5, <1>6, <1>7, <1>8

-----------------------------------------------------------------------------
(* Theorems *)

\* The invariant holds in every reachable state.
THEOREM Invariance == Spec => []IInv
<1>1. IInv /\ [Next]_vars => IInv'
  BY StartKeeps, RestKeeps, LoseKeeps, ReadByteKeeps DEF Next, Thread, App
<1> QED BY <1>1, InitInv, PTL DEF Spec

\* Type correctness: the parser never runs beyond a frame.
THEOREM TypeCorrect == Spec => []TypeOK
<1>1. IInv => TypeOK
  BY DEF IInv
<1> QED BY <1>1, Invariance, PTL

\* What is published was received byte for byte, headed and valid, whatever
\* the line did; and the thread reads an open port.
THEOREM SamplesAreFaithful == Spec => []FramesFaithful
<1>1. IInv => FramesFaithful
  BY DEF IInv
<1> QED BY <1>1, Invariance, PTL
=============================================================================
