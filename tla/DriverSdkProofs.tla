--------------------------- MODULE DriverSdkProofs ---------------------------
(***************************************************************************)
(* Proofs about the facade: for every set of configuration files, tables   *)
(* and requests, every number of calls and of backends.                    *)
(***************************************************************************)
EXTENDS DriverSdk, FiniteSetTheorems, SequenceTheorems, WellFoundedInduction, TLAPS

-----------------------------------------------------------------------------
(* Induction over the natural numbers, for sets in place of predicates *)

\* A set that has 0 and the successor of each of its numbers has them all.
LEMMA Induction ==
  ASSUME NEW S, 0 \in S, \A n \in Nat : n \in S => n + 1 \in S
  PROVE  Nat \subseteq S
<1> DEFINE Less == {r \in Nat \X Nat : r[1] < r[2]}
           T == Nat \ S
<1>1. IsWellFoundedOn(Less, Nat)
  BY NatLessThanWellFounded DEF OpToRel
<1>2. T \subseteq Nat
  OBVIOUS
<1> HIDE DEF T, Less
<1>3. SUFFICES ASSUME T # {} PROVE FALSE
  BY DEF T
<1>4. PICK x \in T : \A y \in T : ~(<<y, x>> \in Less)
  BY <1>1, <1>2, <1>3, WFMin
<1>5. x \in Nat /\ x # 0 /\ x - 1 \in Nat /\ x - 1 + 1 = x
  BY <1>4 DEF T
<1>6. <<x - 1, x>> \in Less
  BY <1>5 DEF Less
<1>7. x - 1 \in S
  BY <1>4, <1>5, <1>6 DEF T
<1>8. x \in S
  BY <1>5, <1>7
<1> QED BY <1>4, <1>8 DEF T

\* A set of the numbers up to m is reached one by one.
LEMMA InductionUpTo ==
  ASSUME NEW S, NEW m \in Nat, 0 \in S,
         \A n \in 0 .. m : n \in S /\ n < m => n + 1 \in S
  PROVE  \A n \in 0 .. m : n \in S
<1> DEFINE T == {n \in Nat : n <= m => n \in S}
<1>1. 0 \in T
  OBVIOUS
<1>2. \A n \in Nat : n \in T => n + 1 \in T
  OBVIOUS
<1>3. Nat \subseteq T
  <2> HIDE DEF T
  <2> QED BY <1>1, <1>2, Induction
<1> QED BY <1>3

\* A finite set of integers has a largest element.
LEMMA MaxOf ==
  ASSUME NEW S, IsFiniteSet(S), S \subseteq Int, S # {}
  PROVE  Max(S) \in S /\ \A x \in S : x <= Max(S)
<1>1. PICK n \in Nat : ExistsSurjection(1 .. n, S)
  BY FS_NatSurjection
<1>2. PICK f : f \in Surjection(1 .. n, S)
  BY <1>1 DEF ExistsSurjection
<1>3. /\ \A k \in 1 .. n : f[k] \in S /\ f[k] \in Int
      /\ \A x \in S : \E k \in 1 .. n : f[k] = x
  BY <1>2 DEF Surjection
<1> DEFINE T == {m \in 0 .. n : m = 0 \/ \E k \in 1 .. m : \A j \in 1 .. m : f[j] <= f[k]}
<1>4. 0 \in T
  OBVIOUS
<1>5. ASSUME NEW m \in 0 .. n, m \in T, m < n PROVE m + 1 \in T
  <2>1. CASE m = 0
    BY <2>1, <1>3, <1>5
  <2>2. CASE m # 0
    <3>1. PICK k \in 1 .. m : \A j \in 1 .. m : f[j] <= f[k]
      BY <1>5, <2>2
    <3>2. CASE f[m + 1] <= f[k]
      <4>1. \A j \in 1 .. m + 1 : f[j] <= f[k]
        BY <3>1, <3>2, <1>5
      <4> QED BY <4>1, <1>5
    <3>3. CASE ~(f[m + 1] <= f[k])
      <4>1. \A j \in 1 .. m + 1 : f[j] <= f[m + 1]
        BY <3>1, <3>3, <1>3, <1>5
      <4> QED BY <4>1, <1>5
    <3> QED BY <3>2, <3>3
  <2> QED BY <2>1, <2>2
<1>6. n \in T
  <2> HIDE DEF T
  <2> QED BY <1>4, <1>5, InductionUpTo
<1>7. \E x \in S : \A y \in S : x >= y
  <2>1. n # 0
    <3>1. PICK x \in S : TRUE
      OBVIOUS
    <3> QED BY <1>3, <3>1
  <2>2. PICK k \in 1 .. n : \A j \in 1 .. n : f[j] <= f[k]
    BY <1>6, <2>1
  <2> QED BY <1>3, <2>2
<1>8. Max(S) \in S /\ \A y \in S : Max(S) >= y
  BY <1>7 DEF Max
<1> QED BY <1>8

\* A set of positive numbers that is not empty has a smallest element.
LEMMA MinOf ==
  ASSUME NEW S, NEW n \in Nat, S \subseteq 1 .. n, NEW x \in S
  PROVE  Min(S) \in S /\ \A y \in S : Min(S) <= y
<1> DEFINE Less == {r \in Nat \X Nat : r[1] < r[2]}
<1>1. IsWellFoundedOn(Less, Nat)
  BY NatLessThanWellFounded DEF OpToRel
<1> HIDE DEF Less
<1>2. PICK m \in S : \A y \in S : ~(<<y, m>> \in Less)
  <2>1. S \subseteq Nat /\ S # {}
    OBVIOUS
  <2> QED BY <1>1, <2>1, WFMin
<1>3. ASSUME NEW y \in S PROVE m <= y
  <2>1. y \in Nat /\ m \in Nat /\ <<y, m>> \notin Less
    BY <1>2
  <2>2. y < m => <<y, m>> \in Less
    BY <2>1 DEF Less
  <2> QED BY <2>1, <2>2
<1> QED BY <1>3 DEF Min

\* The values of a function on a finite set are finitely many.
LEMMA ImageFinite ==
  ASSUME NEW f, IsFiniteSet(DOMAIN f)
  PROVE  IsFiniteSet({f[x] : x \in DOMAIN f})
<1> DEFINE T == {f[x] : x \in DOMAIN f}
           g == [x \in DOMAIN f |-> f[x]]
<1>1. g \in Surjection(DOMAIN f, T)
  BY DEF Surjection
<1> HIDE DEF g
<1> QED BY <1>1, FS_Surjection

-----------------------------------------------------------------------------
(* What loadConfig makes of a document *)

IsMotor(m, parameters) ==
  /\ m = [alias |-> m.alias, bus |-> m.bus, master |-> m.master, type |-> m.type,
          id |-> m.id, parameters |-> m.parameters]
  /\ m.alias \in DOMAIN parameters /\ m.parameters = parameters[m.alias]

IsMotors(motors, parameters) ==
  /\ \E n \in Nat : DOMAIN motors = 1 .. n
  /\ motors = [i \in DOMAIN motors |-> motors[i]]
  /\ \A i \in DOMAIN motors : IsMotor(motors[i], parameters)
  /\ \A i, j \in DOMAIN motors : motors[i].alias = motors[j].alias => i = j

\* Upsert keeps aliases apart and, in place or at the end, adds the motor.
LEMMA UpsertKeeps ==
  ASSUME NEW motors, NEW parameters, NEW m, IsMotors(motors, parameters), IsMotor(m, parameters)
  PROVE  IsMotors(Upsert(motors, m), parameters)
<1>1. PICK n \in Nat : DOMAIN motors = 1 .. n
  BY DEF IsMotors
<1>2. CASE \E i \in DOMAIN motors : motors[i].alias = m.alias
  <2> DEFINE t == [i \in DOMAIN motors |-> IF motors[i].alias = m.alias THEN m ELSE motors[i]]
  <2>1. Upsert(motors, m) = t
    BY <1>2 DEF Upsert
  <2>2. DOMAIN t = DOMAIN motors /\ t = [i \in DOMAIN t |-> t[i]]
    OBVIOUS
  <2>3. \A i \in DOMAIN motors : t[i] = (IF motors[i].alias = m.alias THEN m ELSE motors[i])
    OBVIOUS
  <2>4. \A i \in DOMAIN motors : t[i].alias = motors[i].alias
    BY <2>3
  <2> HIDE DEF t
  <2>5. \A i \in DOMAIN motors : IsMotor(t[i], parameters)
    BY <2>3 DEF IsMotors
  <2> QED BY <1>1, <2>1, <2>2, <2>4, <2>5 DEF IsMotors
<1>3. CASE ~(\E i \in DOMAIN motors : motors[i].alias = m.alias)
  <2> DEFINE t == Append(motors, m)
  <2>1. Upsert(motors, m) = t
    BY <1>3 DEF Upsert
  <2> DEFINE T == {motors[i] : i \in DOMAIN motors} \cup {m}
  <2>2. motors \in Seq(T) /\ m \in T /\ Len(motors) = n
    <3>1. motors = [i \in 1 .. n |-> motors[i]] /\ \A i \in 1 .. n : motors[i] \in T
      BY <1>1 DEF IsMotors
    <3> HIDE DEF T
    <3>2. motors \in Seq(T)
      BY <3>1
    <3>3. Len(motors) = n
      BY <1>1, <3>2
    <3> QED BY <3>2, <3>3 DEF T
  <2>3. /\ DOMAIN t = 1 .. n + 1 /\ t = [i \in DOMAIN t |-> t[i]]
        /\ \A i \in 1 .. n : t[i] = motors[i]
        /\ t[n + 1] = m
    <3> HIDE DEF T
    <3>1. t \in Seq(T) /\ Len(t) = n + 1
      BY <2>2, AppendProperties
    <3>2. (\A i \in 1 .. n : t[i] = motors[i]) /\ t[n + 1] = m
      BY <2>2, AppendProperties
    <3> HIDE DEF t
    <3>3. t \in [1 .. Len(t) -> T]
      BY <3>1, LenProperties
    <3>4. DOMAIN t = 1 .. n + 1 /\ t = [i \in DOMAIN t |-> t[i]]
      BY <3>1, <3>3
    <3> QED BY <3>2, <3>4
  <2> HIDE DEF t
  <2>4. \A i \in 1 .. n + 1 : IsMotor(t[i], parameters)
    BY <1>1, <2>3 DEF IsMotors
  <2>5. \A i, j \in 1 .. n + 1 : t[i].alias = t[j].alias => i = j
    BY <1>1, <1>3, <2>3 DEF IsMotors
  <2>6. n + 1 \in Nat
    OBVIOUS
  <2> QED BY <2>1, <2>3, <2>4, <2>5, <2>6 DEF IsMotors
<1> QED BY <1>2, <1>3

\* The configuration after no placement, and after one more.
LEMMA LoadingSteps ==
  ASSUME NEW d, Len(Placements(d)) \in Nat
  PROVE  LET N == Len(Placements(d)) IN
         /\ DOMAIN Loading(d) = 0 .. N
         /\ Loading(d)[0] = [ok |-> TRUE, total |-> TotalMotorCount(d), motors |-> <<>>, imu |-> FALSE]
         /\ \A n \in 1 .. N : Loading(d)[n] = Place(d, Loading(d)[n - 1], Placements(d)[n])
<1> DEFINE N == Len(Placements(d))
           empty == [ok |-> TRUE, total |-> TotalMotorCount(d), motors |-> <<>>, imu |-> FALSE]
           Step(g, n) == IF n = 0 THEN empty ELSE Place(d, g[n - 1], Placements(d)[n])
           Upto(m) == \E g : g = [n \in 0 .. m |-> Step(g, n)]
<1> HIDE DEF N, empty
<1>1. N \in Nat
  BY DEF N
<1>2. Upto(0)
  <2> DEFINE h == [n \in 0 .. 0 |-> empty]
  <2>1. h = [n \in 0 .. 0 |-> Step(h, n)]
    OBVIOUS
  <2> QED BY <2>1
<1>3. ASSUME NEW m \in Nat, Upto(m) PROVE Upto(m + 1)
  <2>1. PICK g : g = [n \in 0 .. m |-> Step(g, n)]
    BY <1>3
  <2> DEFINE h == [n \in 0 .. m + 1 |-> IF n <= m THEN g[n] ELSE Place(d, g[m], Placements(d)[m + 1])]
  <2>2. \A n \in 0 .. m + 1 : h[n] = Step(h, n)
    <3> SUFFICES ASSUME NEW n \in 0 .. m + 1 PROVE h[n] = Step(h, n)
      OBVIOUS
    <3>1. CASE n = 0
      <4>1. h[0] = g[0] /\ g[0] = empty
        BY <2>1
      <4> QED BY <3>1, <4>1
    <3>2. CASE n # 0 /\ n <= m
      <4>1. h[n] = g[n] /\ h[n - 1] = g[n - 1]
        BY <3>2
      <4>2. g[n] = Place(d, g[n - 1], Placements(d)[n])
        BY <2>1, <3>2
      <4> QED BY <3>2, <4>1, <4>2
    <3>3. CASE n = m + 1
      <4>1. h[n - 1] = g[m] /\ h[n] = Place(d, g[m], Placements(d)[n]) /\ n # 0
        BY <3>3
      <4> QED BY <4>1
    <3> QED BY <3>1, <3>2, <3>3
  <2>3. h = [n \in 0 .. m + 1 |-> h[n]]
    OBVIOUS
  <2> HIDE DEF h
  <2>4. h = [n \in 0 .. m + 1 |-> Step(h, n)]
    BY <2>2, <2>3
  <2> QED BY <2>4
<1>4. Upto(N)
  <2> DEFINE S == {m \in Nat : Upto(m)}
  <2>1. 0 \in S
    BY <1>2
  <2>2. \A n \in Nat : n \in S => n + 1 \in S
    <3> HIDE DEF Upto
    <3> QED BY <1>3
  <2>3. Nat \subseteq S
    <3> HIDE DEF S
    <3> QED BY <2>1, <2>2, Induction
  <2> QED BY <1>1, <2>3
<1>5. Loading(d) = CHOOSE g : g = [n \in 0 .. N |-> Step(g, n)]
  BY DEF Loading, N, empty
<1>6. Loading(d) = [n \in 0 .. N |-> Step(Loading(d), n)]
  BY <1>4, <1>5
<1>7. DOMAIN Loading(d) = 0 .. N /\ \A n \in 0 .. N : Loading(d)[n] = Step(Loading(d), n)
  BY <1>6
<1>8. 0 \in 0 .. N /\ Loading(d)[0] = empty
  BY <1>1, <1>7
<1>9. \A n \in 1 .. N : n \in 0 .. N /\ n # 0
  BY <1>1
<1> QED BY <1>7, <1>8, <1>9 DEF N, empty

\* A motor that is placed has parameters, and on CAN an identifier.
IsPlacement(p, parameters) ==
  \/ p.skipped \/ p.wrong
  \/ p.entry.alias \in DOMAIN parameters /\ p.bus \in {"can", "ecat"}

\* The placements of a document, one section after the other.
LEMMA PlacementsOf ==
  ASSUME NEW d, IsDocument(d)
  PROVE  /\ Len(Placements(d)) \in Nat
         /\ \A n \in 1 .. Len(Placements(d)) : IsPlacement(Placements(d)[n], ParameterMap(d))
<1> DEFINE Fits(p) == IsPlacement(p, ParameterMap(d))
           S == {CanSlaves(d)[k] : k \in DOMAIN d.canSlaves}
                \cup {EcatSlaves(d)[k] : k \in DOMAIN d.ecatSlaves}
                \cup {ExplicitPlacements(d)[k] : k \in DOMAIN d.motors}
<1>1. \A p \in S : Fits(p)
  <2>1. \A k \in DOMAIN d.canSlaves : Fits(CanSlaves(d)[k])
    BY DEF CanSlaves, Placement, IsPlacement
  <2>2. \A k \in DOMAIN d.ecatSlaves : Fits(EcatSlaves(d)[k])
    BY DEF EcatSlaves, Placement, IsPlacement
  <2>3. \A k \in DOMAIN d.motors : Fits(ExplicitPlacements(d)[k])
    BY DEF ExplicitPlacements, Placement, IsPlacement
  <2> QED BY <2>1, <2>2, <2>3
<1>2. CanSlaves(d) \in Seq(S)
  <2>1. PICK n \in Nat : DOMAIN d.canSlaves = 1 .. n
    BY LenProperties DEF IsDocument, IsSection
  <2>2. CanSlaves(d) = [k \in 1 .. n |-> CanSlaves(d)[k]] /\ \A k \in 1 .. n : CanSlaves(d)[k] \in S
    BY <2>1 DEF CanSlaves
  <2> HIDE DEF S
  <2> QED BY <2>2
<1>3. EcatSlaves(d) \in Seq(S)
  <2>1. PICK n \in Nat : DOMAIN d.ecatSlaves = 1 .. n
    BY LenProperties DEF IsDocument, IsSection
  <2>2. EcatSlaves(d) = [k \in 1 .. n |-> EcatSlaves(d)[k]] /\ \A k \in 1 .. n : EcatSlaves(d)[k] \in S
    BY <2>1 DEF EcatSlaves
  <2> HIDE DEF S
  <2> QED BY <2>2
<1>4. ExplicitPlacements(d) \in Seq(S)
  <2>1. PICK n \in Nat : DOMAIN d.motors = 1 .. n
    BY LenProperties DEF IsDocument, IsSection
  <2>2. ExplicitPlacements(d) = [k \in 1 .. n |-> ExplicitPlacements(d)[k]] /\ \A k \in 1 .. n : ExplicitPlacements(d)[k] \in S
    BY <2>1 DEF ExplicitPlacements
  <2> HIDE DEF S
  <2> QED BY <2>2
<1> HIDE DEF S, Fits
<1>5. Placements(d) \in Seq(S)
  BY <1>2, <1>3, <1>4, ConcatProperties DEF Placements
<1>6. Len(Placements(d)) \in Nat /\ \A n \in 1 .. Len(Placements(d)) : Placements(d)[n] \in S
  BY <1>5, LenProperties, ElementOfSeq
<1> QED BY <1>1, <1>6 DEF Fits

\* A configuration as it is built up: the motors so far, or none after an error.
IsLoaded(c, d) ==
  /\ c = [ok |-> c.ok, total |-> c.total, motors |-> c.motors, imu |-> c.imu]
  /\ c.ok \in BOOLEAN /\ c.imu = FALSE
  /\ c.ok => c.total = TotalMotorCount(d)
  /\ IsMotors(c.motors, ParameterMap(d))

LEMMA NoMotors == ASSUME NEW parameters PROVE IsMotors(<<>>, parameters)
<1>1. DOMAIN <<>> = 1 .. 0 /\ 0 \in Nat
  OBVIOUS
<1>2. \A i \in DOMAIN <<>> : FALSE
  BY <1>1
<1>3. <<>> = [i \in DOMAIN <<>> |-> <<>>[i]]
  BY <1>1
<1> QED BY <1>1, <1>2, <1>3 DEF IsMotors

\* One placement keeps the configuration in shape.
LEMMA PlaceKeeps ==
  ASSUME NEW d, NEW c, IsLoaded(c, d), NEW p, IsPlacement(p, ParameterMap(d))
  PROVE  IsLoaded(Place(d, c, p), d)
<1>1. CASE ~c.ok \/ p.skipped
  BY <1>1 DEF Place
<1>2. CASE ~(~c.ok \/ p.skipped) /\ p.wrong
  BY <1>2, NoMotors DEF Place, IsLoaded, Failed
<1>3. CASE ~(~c.ok \/ p.skipped) /\ ~p.wrong
  <2> DEFINE m == MotorOf(d, p)
             e == [c EXCEPT !.motors = Upsert(c.motors, m)]
  <2>1. Place(d, c, p) = e
    BY <1>3 DEF Place
  <2>2. IsMotor(m, ParameterMap(d))
    BY <1>3 DEF IsPlacement, MotorOf, IsMotor
  <2> HIDE DEF m
  <2>3. IsMotors(Upsert(c.motors, m), ParameterMap(d))
    BY <2>2, UpsertKeeps DEF IsLoaded
  <2>4. /\ e = [ok |-> e.ok, total |-> e.total, motors |-> e.motors, imu |-> e.imu]
        /\ e.ok = c.ok /\ e.total = c.total /\ e.imu = c.imu /\ e.motors = Upsert(c.motors, m)
    BY DEF IsLoaded
  <2> HIDE DEF e
  <2> QED BY <2>1, <2>3, <2>4 DEF IsLoaded
<1> QED BY <1>1, <1>2, <1>3

\* So does reading all of the document.
LEMMA LoadingKeeps ==
  ASSUME NEW d, IsDocument(d)
  PROVE  IsLoaded(Loading(d)[Len(Placements(d))], d)
<1> DEFINE N == Len(Placements(d))
           S == {n \in 0 .. N : IsLoaded(Loading(d)[n], d)}
<1>1. N \in Nat /\ \A n \in 1 .. N : IsPlacement(Placements(d)[n], ParameterMap(d))
  BY PlacementsOf
<1>2. /\ Loading(d)[0] = [ok |-> TRUE, total |-> TotalMotorCount(d), motors |-> <<>>, imu |-> FALSE]
      /\ \A n \in 1 .. N : Loading(d)[n] = Place(d, Loading(d)[n - 1], Placements(d)[n])
  BY <1>1, LoadingSteps
<1> HIDE DEF N
<1>3. 0 \in S
  <2> DEFINE e == Loading(d)[0]
  <2>1. e.ok = TRUE /\ e.total = TotalMotorCount(d) /\ e.motors = <<>> /\ e.imu = FALSE
    BY <1>2
  <2>2. e = [ok |-> e.ok, total |-> e.total, motors |-> e.motors, imu |-> e.imu]
    BY <1>2
  <2>3. IsMotors(e.motors, ParameterMap(d))
    BY <2>1, NoMotors
  <2> HIDE DEF e
  <2>4. IsLoaded(e, d)
    BY <2>1, <2>2, <2>3 DEF IsLoaded
  <2> QED BY <1>1, <2>4 DEF e
<1>4. ASSUME NEW n \in 0 .. N, n \in S, n < N PROVE n + 1 \in S
  <2>1. n + 1 \in 1 .. N /\ n + 1 \in 0 .. N /\ (n + 1) - 1 = n
    BY <1>1, <1>4
  <2>2. Loading(d)[n + 1] = Place(d, Loading(d)[n], Placements(d)[n + 1])
    BY <1>2, <2>1
  <2>3. IsLoaded(Place(d, Loading(d)[n], Placements(d)[n + 1]), d)
    BY <1>1, <1>4, <2>1, PlaceKeeps
  <2> QED BY <2>1, <2>2, <2>3
<1>5. N \in S
  <2> HIDE DEF S
  <2> QED BY <1>1, <1>3, <1>4, InductionUpTo
<1> QED BY <1>5 DEF N

\* Finitely many aliases have parameters, all of them above zero.
LEMMA Aliases ==
  ASSUME NEW d, IsDocument(d)
  PROVE  /\ IsFiniteSet(DOMAIN ParameterMap(d))
         /\ \A a \in DOMAIN ParameterMap(d) : a \in Int /\ a > 0 /\ a <= TotalMotorCount(d)
         /\ TotalMotorCount(d) \in Nat
<1> DEFINE D == DOMAIN ParameterMap(d)
           f == [i \in DOMAIN d.motors |-> d.motors[i].alias]
<1>1. PICK n \in Nat : DOMAIN d.motors = 1 .. n
  BY LenProperties DEF IsDocument, IsSection
<1>2. D = {d.motors[i].alias : i \in {j \in DOMAIN d.motors : d.motors[j].alias > 0}}
  BY DEF ParameterMap
<1>3. \A a \in D : a \in Int /\ a > 0
  BY <1>2 DEF IsDocument
<1>4. IsFiniteSet(D)
  <2>1. IsFiniteSet(DOMAIN f)
    BY <1>1, FS_Interval
  <2>2. D \subseteq {f[i] : i \in DOMAIN f}
    BY <1>2
  <2>3. IsFiniteSet({f[i] : i \in DOMAIN f})
    <3> HIDE DEF f
    <3> QED BY <2>1, ImageFinite
  <2> HIDE DEF D, f
  <2> QED BY <2>2, <2>3, FS_Subset
<1> HIDE DEF D
<1>5. IsFiniteSet({0} \cup D)
  BY <1>4, FS_Singleton, FS_Union
<1>6. {0} \cup D \subseteq Int /\ {0} \cup D # {} /\ \A a \in {0} \cup D : a >= 0
  BY <1>3
<1>7. /\ TotalMotorCount(d) \in {0} \cup D
      /\ \A a \in {0} \cup D : a <= TotalMotorCount(d)
  BY <1>5, <1>6, MaxOf DEF TotalMotorCount, D
<1>8. TotalMotorCount(d) \in Nat
  BY <1>6, <1>7
<1> QED BY <1>3, <1>4, <1>7, <1>8 DEF D

\* A document that is read yields motors told apart by their aliases, each in
\* range and with the parameters of its alias; fromConfig's own check of the
\* range never fails on what loadConfig returns.
THEOREM LoadedMotors ==
  ASSUME NEW d, IsDocument(d), LoadConfig(d).ok
  PROVE  LET c == LoadConfig(d) IN
         /\ c = [ok |-> TRUE, total |-> TotalMotorCount(d), motors |-> c.motors, imu |-> d.imu]
         /\ IsMotors(c.motors, ParameterMap(d))
         /\ AliasesInRange(c)
<1> DEFINE all == Loading(d)[Len(Placements(d))]
           c == LoadConfig(d)
<1>1. IsLoaded(all, d)
  BY LoadingKeeps
<1>2. c = IF d.loads /\ all.ok THEN [all EXCEPT !.imu = d.imu] ELSE Failed
  BY DEF LoadConfig
<1> HIDE DEF all
<1>3. all.ok /\ c = [all EXCEPT !.imu = d.imu]
  BY <1>2 DEF Failed
<1>4. c = [ok |-> TRUE, total |-> TotalMotorCount(d), motors |-> all.motors, imu |-> d.imu]
  BY <1>1, <1>3 DEF IsLoaded
<1>5. c.motors = all.motors /\ c.total = TotalMotorCount(d)
  BY <1>4
<1> HIDE DEF c
<1>6. IsMotors(c.motors, ParameterMap(d))
  BY <1>1, <1>5 DEF IsLoaded
<1>7. AliasesInRange(c)
  <2>1. \A i \in DOMAIN c.motors : c.motors[i].alias \in DOMAIN ParameterMap(d)
    BY <1>6 DEF IsMotors, IsMotor
  <2>2. /\ TotalMotorCount(d) \in Nat
        /\ \A a \in DOMAIN ParameterMap(d) : a \in Int /\ a > 0 /\ a <= TotalMotorCount(d)
    BY Aliases
  <2>3. \A i \in DOMAIN c.motors : c.motors[i].alias \in 1 .. TotalMotorCount(d)
    BY <2>1, <2>2
  <2> QED BY <1>5, <2>3 DEF AliasesInRange
<1> QED BY <1>4, <1>5, <1>6, <1>7 DEF c

-----------------------------------------------------------------------------
(* Motors and backends of the registry *)

\* Motors of one backend share bus and master, and the number of a motor's
\* backend is one of those there are.
LEMMA BackendsOf ==
  ASSUME NEW motors, NEW n \in Nat, DOMAIN motors = 1 .. n
  PROVE  /\ \A i \in 1 .. n : /\ BackendIndex(motors, i) \in Nat
                              /\ 1 <= BackendIndex(motors, i)
                              /\ BackendIndex(motors, i) <= Cardinality({BackendIndex(motors, j) : j \in 1 .. n})
         /\ \A i, j \in 1 .. n : BackendIndex(motors, i) = BackendIndex(motors, j) =>
              SameBackend(motors[i], motors[j])
<1> DEFINE Same(i, j) == SameBackend(motors[i], motors[j])
           First(k) == \A j \in 1 .. k - 1 : ~Same(j, k)
           Firsts(k) == {j \in 1 .. k : First(j)}
           Leader(i) == Min({j \in DOMAIN motors : Same(j, i)})
           B == {BackendIndex(motors, j) : j \in 1 .. n}
<1>1. \A i, j, k \in 1 .. n : Same(i, i) /\ (Same(i, j) => Same(j, i)) /\ (Same(i, j) /\ Same(j, k) => Same(i, k))
  BY DEF SameBackend
<1>2. \A i \in 1 .. n : BackendIndex(motors, i) = Cardinality(Firsts(Leader(i)))
  BY DEF BackendIndex
<1> HIDE DEF Same
<1>3. ASSUME NEW i \in 1 .. n
      PROVE  Leader(i) \in 1 .. n /\ Same(Leader(i), i) /\ First(Leader(i))
  <2> DEFINE S == {j \in DOMAIN motors : Same(j, i)}
  <2>1. i \in S /\ S \subseteq 1 .. n
    BY <1>1
  <2>2. Leader(i) \in S /\ \A j \in S : Leader(i) <= j
    <3> HIDE DEF S
    <3>1. Min(S) \in S /\ \A j \in S : Min(S) <= j
      BY <2>1, MinOf
    <3> QED BY <3>1 DEF S
  <2>3. First(Leader(i))
    <3> SUFFICES ASSUME NEW j \in 1 .. Leader(i) - 1, Same(j, Leader(i)) PROVE FALSE
      OBVIOUS
    <3> HIDE DEF Leader
    <3>1. j \in 1 .. n /\ j < Leader(i) /\ Leader(i) \in 1 .. n /\ Same(Leader(i), i)
      BY <2>1, <2>2
    <3>2. j \in S
      BY <1>1, <3>1
    <3> QED BY <2>2, <3>1, <3>2
  <2> QED BY <2>1, <2>2, <2>3
<1>4. \A k \in 1 .. n : IsFiniteSet(Firsts(k)) /\ Cardinality(Firsts(k)) \in Nat
  <2> SUFFICES ASSUME NEW k \in 1 .. n PROVE IsFiniteSet(Firsts(k)) /\ Cardinality(Firsts(k)) \in Nat
    OBVIOUS
  <2>1. IsFiniteSet(1 .. k) /\ Firsts(k) \in SUBSET (1 .. k)
    BY FS_Interval
  <2> HIDE DEF Firsts
  <2> QED BY <2>1, FS_Subset, FS_CardinalityType
<1>5. ASSUME NEW p \in 1 .. n, NEW q \in 1 .. n, p < q, First(q)
      PROVE  Cardinality(Firsts(p)) < Cardinality(Firsts(q))
  <2>1. Firsts(p) \in SUBSET Firsts(q) /\ q \in Firsts(q) /\ q \notin Firsts(p)
    BY <1>5
  <2>2. IsFiniteSet(Firsts(q)) /\ Cardinality(Firsts(q)) \in Nat /\ Cardinality(Firsts(p)) \in Nat
    BY <1>4
  <2> HIDE DEF Firsts
  <2>3. /\ Cardinality(Firsts(p)) <= Cardinality(Firsts(q))
        /\ Cardinality(Firsts(q)) # Cardinality(Firsts(p))
    BY <2>1, <2>2, FS_Subset
  <2> QED BY <2>2, <2>3
<1>6. \A p, q \in 1 .. n : First(p) /\ First(q) /\ Cardinality(Firsts(p)) = Cardinality(Firsts(q)) => p = q
  <2> SUFFICES ASSUME NEW p \in 1 .. n, NEW q \in 1 .. n, First(p), First(q), p # q,
                      Cardinality(Firsts(p)) = Cardinality(Firsts(q))
               PROVE  FALSE
    OBVIOUS
  <2>1. Cardinality(Firsts(p)) \in Nat /\ Cardinality(Firsts(q)) \in Nat
    BY <1>4
  <2>2. p < q \/ q < p
    OBVIOUS
  <2> HIDE DEF Firsts, First
  <2> QED BY <1>5, <2>1, <2>2
<1> HIDE DEF Leader
<1>7. \A i, j \in 1 .. n : BackendIndex(motors, i) = BackendIndex(motors, j) => Same(i, j)
  <2> SUFFICES ASSUME NEW i \in 1 .. n, NEW j \in 1 .. n, BackendIndex(motors, i) = BackendIndex(motors, j)
               PROVE  Same(i, j)
    OBVIOUS
  <2>1. /\ Leader(i) \in 1 .. n /\ Same(Leader(i), i) /\ First(Leader(i))
        /\ Leader(j) \in 1 .. n /\ Same(Leader(j), j) /\ First(Leader(j))
    BY <1>3
  <2>2. Cardinality(Firsts(Leader(i))) = Cardinality(Firsts(Leader(j)))
    BY <1>2
  <2> HIDE DEF Firsts, First
  <2>3. Leader(i) = Leader(j)
    BY <1>6, <2>1, <2>2
  <2> QED BY <1>1, <2>1, <2>3
<1>8. \A k \in 1 .. n : First(k) => BackendIndex(motors, k) = Cardinality(Firsts(k))
  <2> SUFFICES ASSUME NEW k \in 1 .. n, First(k) PROVE Leader(k) = k
    BY <1>2
  <2>1. Leader(k) \in 1 .. n /\ Same(Leader(k), k) /\ First(Leader(k))
    BY <1>3
  <2>2. ~(Leader(k) < k)
    BY <2>1
  <2>3. ~(k < Leader(k))
    BY <1>1, <2>1
  <2> QED BY <2>1, <2>2, <2>3
<1>9. IsFiniteSet(Firsts(n)) /\ IsFiniteSet(B) /\ Cardinality(B) \in Nat
      /\ Cardinality(Firsts(n)) \in Nat /\ Cardinality(Firsts(n)) <= Cardinality(B)
  <2>1. IsFiniteSet(1 .. n) /\ Firsts(n) \in SUBSET (1 .. n)
    BY FS_Interval
  <2>2. IsFiniteSet(B)
    <3> DEFINE b == [j \in 1 .. n |-> BackendIndex(motors, j)]
    <3>1. DOMAIN b = 1 .. n /\ B = {b[j] : j \in DOMAIN b}
      OBVIOUS
    <3> HIDE DEF b, B
    <3> QED BY <2>1, <3>1, ImageFinite
  <2>3. IsFiniteSet(Firsts(n)) /\ Cardinality(Firsts(n)) \in Nat
    <3> HIDE DEF Firsts
    <3> QED BY <2>1, FS_Subset, FS_CardinalityType
  <2> DEFINE f == [k \in Firsts(n) |-> BackendIndex(motors, k)]
  <2>4. f \in [Firsts(n) -> B]
    OBVIOUS
  <2>5. \A p, q \in Firsts(n) : f[p] = f[q] => p = q
    <3> SUFFICES ASSUME NEW p \in Firsts(n), NEW q \in Firsts(n), f[p] = f[q] PROVE p = q
      OBVIOUS
    <3>1. p \in 1 .. n /\ q \in 1 .. n /\ First(p) /\ First(q)
      OBVIOUS
    <3>2. BackendIndex(motors, p) = BackendIndex(motors, q)
      OBVIOUS
    <3> HIDE DEF Firsts, First
    <3> QED BY <1>6, <1>8, <3>1, <3>2
  <2> HIDE DEF f, Firsts, B
  <2>6. f \in Injection(Firsts(n), B)
    BY <2>4, <2>5 DEF Injection, IsInjective
  <2> QED BY <2>2, <2>3, <2>6, FS_Injection, FS_CardinalityType
<1>10. ASSUME NEW i \in 1 .. n
       PROVE  /\ BackendIndex(motors, i) \in Nat
              /\ 1 <= BackendIndex(motors, i)
              /\ BackendIndex(motors, i) <= Cardinality(B)
  <2> DEFINE k == Leader(i)
  <2>1. k \in 1 .. n /\ First(k) /\ BackendIndex(motors, i) = Cardinality(Firsts(k))
    BY <1>2, <1>3
  <2> HIDE DEF k
  <2>2. k \in Firsts(k) /\ Firsts(k) \in SUBSET Firsts(n)
    BY <2>1
  <2>3. IsFiniteSet(Firsts(k)) /\ Cardinality(Firsts(k)) \in Nat
    BY <1>4, <2>1
  <2> HIDE DEF Firsts, First, B
  <2>4. Cardinality(Firsts(k)) # 0
    BY <2>2, <2>3, FS_EmptySet
  <2>5. Cardinality(Firsts(k)) <= Cardinality(Firsts(n))
    BY <1>9, <2>2, FS_Subset
  <2> QED BY <1>9, <2>1, <2>3, <2>4, <2>5
<1> QED BY <1>7, <1>10 DEF Same

-----------------------------------------------------------------------------
(* The invariant of the facade *)

IsBackend(r) ==
  r = [bus |-> r.bus, state |-> r.state, modes |-> r.modes, target |-> r.target,
       taken |-> r.taken, valid |-> r.valid, stale |-> r.stale]

IsBackends(s) ==
  /\ \E n \in Nat : DOMAIN s = 1 .. n
  /\ s = [b \in DOMAIN s |-> s[b]]
  /\ \A b \in DOMAIN s : IsBackend(s[b]) /\ s[b].state \in {"created", "running", "stopped"}

IsConfig(c) ==
  /\ c = [ok |-> c.ok, total |-> c.total, motors |-> c.motors, imu |-> c.imu]
  /\ c.imu \in BOOLEAN
  /\ IsFiniteSet(DOMAIN c.motors)
  /\ \A i \in DOMAIN c.motors : "alias" \in DOMAIN c.motors[i]

\* Where the operation in progress is says which backends and IMU there are.
ShapeInv ==
  /\ IsBackends(backends)
  /\ IsConfig(config)
  /\ IsFiniteSet(DOMAIN registry)
  /\ imu \/ pc = "imu" => registry = FromConfig(config)

TooLarge == \E i \in DOMAIN registry : registry[i].index >= MaxMotors

PhaseInv ==
  /\ initialized => pc \in {"idle", "stopping", "publish"}
  /\ pc = "publish" => initialized
  /\ pc \in {"load", "imu"} => ~imu
  /\ pc \in {"load", "imu", "create"} => DOMAIN backends = {}
  /\ pc \in {"create", "start", "publish"} => imu = config.imu
  /\ initialized /\ pc = "idle" => imu = config.imu
  /\ pc = "idle" /\ imu => initialized \/ TooLarge

StateInv ==
  /\ pc = "start" => \A b \in DOMAIN backends : b < next => backends[b].state = "running"
  /\ initialized /\ pc \in {"idle", "publish"} =>
       \A b \in DOMAIN backends : backends[b].state = "running"
  /\ ~initialized /\ pc = "idle" =>
       \A b \in DOMAIN backends : backends[b].state # "running"

\* The backends from index k on hold the frame of call n.
Hold(k, n) == \A b \in DOMAIN backends : b >= k => backends[b].target.sequence = n

TargetInv ==
  /\ pc = "start" => Hold(1, 0)
  /\ initialized /\ pc = "idle" => Hold(1, 0) \/ Hold(1, sequence)
  /\ pc = "publish" =>
       /\ frame.sequence = sequence
       /\ \A b \in DOMAIN backends : b < next => backends[b].target.sequence = sequence
       /\ Hold(next, 0) \/ Hold(next, sequence - 1)

IInv == TypeOK /\ ShapeInv /\ PhaseInv /\ StateInv /\ TargetInv

-----------------------------------------------------------------------------
(* Sequences of backends *)

\* The length of a function on 1 .. n is n.
LEMMA LengthOf ==
  ASSUME NEW s, NEW n \in Nat, DOMAIN s = 1 .. n, s = [b \in DOMAIN s |-> s[b]]
  PROVE  Len(s) = n
<1>1. s \in Seq({s[b] : b \in DOMAIN s})
  BY SMT
<1> QED BY <1>1, SMT

\* A well-formed list of backends has a length, which bounds its indexes.
LEMMA Length ==
  ASSUME NEW s, IsBackends(s)
  PROVE  Len(s) \in Nat /\ DOMAIN s = 1 .. Len(s)
<1>1. PICK n \in Nat : DOMAIN s = 1 .. n
  BY DEF IsBackends
<1>2. Len(s) = n
  BY <1>1, LengthOf DEF IsBackends
<1> QED BY <1>1, <1>2

\* Replacing one backend by another leaves the rest and the length.
LEMMA Replace ==
  ASSUME NEW s, IsBackends(s), NEW k \in DOMAIN s, NEW r, IsBackend(r),
         r.state \in {"created", "running", "stopped"},
         NEW t, DOMAIN t = DOMAIN s, t = [b \in DOMAIN t |-> t[b]],
         t[k] = r, \A j \in DOMAIN s : j # k => t[j] = s[j]
  PROVE  IsBackends(t) /\ Len(t) = Len(s)
<1>1. /\ DOMAIN t = DOMAIN s /\ t = [b \in DOMAIN t |-> t[b]]
      /\ t[k] = r /\ \A j \in DOMAIN s : j # k => t[j] = s[j]
  OBVIOUS
<1>2. PICK n \in Nat : DOMAIN s = 1 .. n
  BY DEF IsBackends
<1>3. \A b \in DOMAIN t : IsBackend(t[b]) /\ t[b].state \in {"created", "running", "stopped"}
  BY <1>1 DEF IsBackends
<1>4. IsBackends(t)
  BY <1>1, <1>2, <1>3 DEF IsBackends
<1>5. Len(t) = n /\ Len(s) = n
  BY <1>1, <1>2, LengthOf DEF IsBackends
<1> QED BY <1>1, <1>4, <1>5

\* Setting a field keeps the others.
Same(r, q) == IsBackend(q) /\ q.bus = r.bus /\ q.modes = r.modes

LEMMA SetState ==
  ASSUME NEW r, IsBackend(r), NEW v, NEW q, q = [r EXCEPT !.state = v]
  PROVE  Same(r, q) /\ q.state = v /\ q.target = r.target
BY DEF IsBackend, Same

LEMMA SetTarget ==
  ASSUME NEW r, IsBackend(r), NEW v, NEW q, q = [r EXCEPT !.target = v]
  PROVE  Same(r, q) /\ q.state = r.state /\ q.target = v
BY DEF IsBackend, Same

LEMMA SetTaken ==
  ASSUME NEW r, IsBackend(r), NEW v, NEW q, q = [r EXCEPT !.taken = v]
  PROVE  Same(r, q) /\ q.state = r.state /\ q.target = r.target
BY DEF IsBackend, Same

\* A step deals with one backend, k.
ReplacesOne(k, r) ==
  /\ k \in DOMAIN backends /\ backends' = [backends EXCEPT ![k] = r]
  /\ Same(backends[k], r)

LEMMA StopBackendReplaces ==
  ASSUME IsBackends(backends), next \in DOMAIN backends, StopBackend
  PROVE  \E r : ReplacesOne(next, r) /\ r.state = "stopped"
<1> DEFINE r == [backends[next] EXCEPT !.state = "stopped"]
<1>1. backends' = [backends EXCEPT ![next] = r]
  BY DEF StopBackend
<1>2. IsBackend(backends[next])
  BY DEF IsBackends
<1>3. Same(backends[next], r) /\ r.state = "stopped"
  BY <1>2, SetState
<1> HIDE DEF r
<1> QED BY <1>1, <1>3 DEF ReplacesOne

LEMMA StartBackendReplaces ==
  ASSUME IsBackends(backends), next \in DOMAIN backends, StartBackend
  PROVE  \E r : /\ ReplacesOne(next, r)
                /\ r.state = "running" /\ r.target = backends[next].target
<1> DEFINE r == [backends[next] EXCEPT !.state = "running"]
<1>1. backends' = [backends EXCEPT ![next] = r]
  BY DEF StartBackend
<1>2. IsBackend(backends[next])
  BY DEF IsBackends
<1>3. Same(backends[next], r) /\ r.state = "running" /\ r.target = backends[next].target
  BY <1>2, SetState
<1> HIDE DEF r
<1> QED BY <1>1, <1>3 DEF ReplacesOne

LEMMA PublishToReplaces ==
  ASSUME IsBackends(backends), next \in DOMAIN backends, PublishTo
  PROVE  \E r : ReplacesOne(next, r) /\ r.state = backends[next].state /\ r.target = frame
<1> DEFINE r == [backends[next] EXCEPT !.target = frame]
<1>1. backends' = [backends EXCEPT ![next] = r]
  BY DEF PublishTo
<1>2. IsBackend(backends[next])
  BY DEF IsBackends
<1>3. Same(backends[next], r) /\ r.state = backends[next].state /\ r.target = frame
  BY <1>2, SetTarget
<1> HIDE DEF r
<1> QED BY <1>1, <1>3 DEF ReplacesOne

LEMMA BackendReplaces ==
  ASSUME IsBackends(backends), NEW k \in DOMAIN backends, TakeTarget(k) \/ PublishActuals(k)
  PROVE  \E r : /\ ReplacesOne(k, r)
                /\ r.state = backends[k].state /\ r.target = backends[k].target
<1>1. IsBackend(backends[k])
  BY DEF IsBackends
<1>2. CASE TakeTarget(k)
  <2> DEFINE r == [backends[k] EXCEPT !.taken = backends[k].target.sequence]
  <2>1. backends' = [backends EXCEPT ![k] = r]
    BY <1>2 DEF TakeTarget
  <2>2. Same(backends[k], r) /\ r.state = backends[k].state /\ r.target = backends[k].target
    BY <1>1, SetTaken
  <2> HIDE DEF r
  <2> QED BY <2>1, <2>2 DEF ReplacesOne
<1>3. CASE PublishActuals(k)
  <2>1. PICK lost \in SUBSET OwnMotors(k) :
          backends' = [backends EXCEPT ![k] = [@ EXCEPT
            !.stale = lost,
            !.valid = IF backends[k].bus = "ecat" THEN OwnMotors(k) \ lost ELSE OwnMotors(k)]]
    BY <1>3 DEF PublishActuals
  <2> DEFINE valid == IF backends[k].bus = "ecat" THEN OwnMotors(k) \ lost ELSE OwnMotors(k)
             r == [backends[k] EXCEPT !.stale = lost, !.valid = valid]
  <2>2. backends' = [backends EXCEPT ![k] = r]
    BY <2>1
  <2> HIDE DEF valid
  <2>3. Same(backends[k], r) /\ r.state = backends[k].state /\ r.target = backends[k].target
    <3> DEFINE o == backends[k]
    <3>1. IsBackend(o)
      BY <1>1
    <3> HIDE DEF o
    <3>2. ASSUME NEW q, q = [o EXCEPT !.stale = lost, !.valid = valid]
          PROVE  Same(o, q) /\ q.state = o.state /\ q.target = o.target
      BY <3>1, <3>2 DEF IsBackend, Same
    <3> QED BY <3>2 DEF o
  <2> HIDE DEF r
  <2> QED BY <2>2, <2>3 DEF ReplacesOne
<1> QED BY <1>2, <1>3

\* Its step leaves the list, and the other backends, as they are.
LEMMA Replaced ==
  ASSUME IsBackends(backends), NEW k, NEW r, ReplacesOne(k, r),
         r.state \in {"created", "running", "stopped"}
  PROVE  /\ IsBackends(backends') /\ Len(backends') = Len(backends)
         /\ DOMAIN backends' = DOMAIN backends /\ backends'[k] = r
         /\ \A j \in DOMAIN backends : j # k => backends'[j] = backends[j]
         /\ \A j \in DOMAIN backends : Same(backends[j], backends'[j])
<1>1. /\ k \in DOMAIN backends /\ IsBackend(r)
      /\ backends' = [backends EXCEPT ![k] = r]
  BY DEF ReplacesOne, Same
<1> DEFINE t == backends'
<1>2. /\ DOMAIN t = DOMAIN backends /\ t = [b \in DOMAIN t |-> t[b]]
      /\ t[k] = r /\ \A j \in DOMAIN backends : j # k => t[j] = backends[j]
  BY <1>1
<1> HIDE DEF t
<1>3. IsBackends(t) /\ Len(t) = Len(backends)
  BY <1>1, <1>2, Replace
<1>4. \A j \in DOMAIN backends : Same(backends[j], t[j])
  BY <1>2 DEF ReplacesOne, Same, IsBackends
<1> QED BY <1>2, <1>3, <1>4 DEF t

-----------------------------------------------------------------------------
(* Configurations *)

\* A file that was read gives a configuration.
LEMMA Loaded ==
  ASSUME NEW d \in Documents
  PROVE  IsConfig(LoadConfig(d))
<1>1. IsDocument(d)
  BY DocumentsAssumption
<1>2. CASE LoadConfig(d).ok
  <2> DEFINE c == LoadConfig(d)
  <2>1. /\ c = [ok |-> TRUE, total |-> TotalMotorCount(d), motors |-> c.motors, imu |-> d.imu]
        /\ IsMotors(c.motors, ParameterMap(d))
    BY <1>1, <1>2, LoadedMotors
  <2> HIDE DEF c
  <2>2. PICK n \in Nat : DOMAIN c.motors = 1 .. n
    BY <2>1 DEF IsMotors
  <2>3. \A i \in DOMAIN c.motors : "alias" \in DOMAIN c.motors[i]
    <3> SUFFICES ASSUME NEW i \in DOMAIN c.motors PROVE "alias" \in DOMAIN c.motors[i]
      OBVIOUS
    <3> DEFINE m == c.motors[i]
    <3>1. IsMotor(m, ParameterMap(d))
      BY <2>1 DEF IsMotors
    <3> HIDE DEF m
    <3>2. "alias" \in DOMAIN m
      BY <3>1 DEF IsMotor
    <3> QED BY <3>2 DEF m
  <2>4. c.imu \in BOOLEAN /\ c.ok = TRUE /\ c.total = TotalMotorCount(d)
    BY <1>1, <2>1 DEF IsDocument
  <2>5. c = [ok |-> c.ok, total |-> c.total, motors |-> c.motors, imu |-> c.imu]
    BY <2>1, <2>4
  <2>6. IsFiniteSet(DOMAIN c.motors)
    BY <2>2, FS_Interval
  <2>7. IsConfig(c)
    BY <2>3, <2>4, <2>5, <2>6 DEF IsConfig
  <2> QED BY <2>7 DEF c
<1>3. CASE ~LoadConfig(d).ok
  <2> DEFINE all == Loading(d)[Len(Placements(d))]
  <2>1. IsLoaded(all, d)
    BY <1>1, LoadingKeeps
  <2>2. LoadConfig(d) = IF d.loads /\ all.ok THEN [all EXCEPT !.imu = d.imu] ELSE Failed
    BY DEF LoadConfig
  <2> HIDE DEF all
  <2>3. LoadConfig(d) = Failed
    BY <1>3, <2>1, <2>2 DEF IsLoaded
  <2>4. Failed = [ok |-> FALSE, total |-> 0, motors |-> <<>>, imu |-> FALSE]
    BY DEF Failed
  <2>5. DOMAIN Failed.motors = {} /\ Failed.imu = FALSE
    BY <2>4
  <2> QED BY <2>3, <2>4, <2>5, FS_EmptySet DEF IsConfig
<1> QED BY <1>2, <1>3

\* The registry has the motors of its configuration.
LEMMA RegistryMotors ==
  ASSUME NEW c, IsConfig(c)
  PROVE  DOMAIN FromConfig(c) = DOMAIN c.motors
BY DEF FromConfig

\* The number of backends and that of the ones made are numbers.
LEMMA Counts ==
  ASSUME NEW S, IsFiniteSet(DOMAIN registry)
  PROVE  /\ BackendCount(registry) \in Nat
         /\ LET made == {b \in 1 .. BackendCount(registry) : b \in S} IN
            /\ Cardinality(made) \in Nat
            /\ Cardinality(made) # BackendCount(registry) => \E b \in 1 .. BackendCount(registry) : b \notin S
<1> DEFINE n == BackendCount(registry)
           made == {b \in 1 .. n : b \in S}
<1>1. n \in Nat
  <2>1. IsFiniteSet({registry[i].backend : i \in DOMAIN registry})
    <3> DEFINE T == {registry[i].backend : i \in DOMAIN registry}
               f == [i \in DOMAIN registry |-> registry[i].backend]
    <3>1. f \in Surjection(DOMAIN registry, T)
      BY DEF Surjection
    <3> HIDE DEF f
    <3> QED BY <3>1, FS_Surjection
  <2> QED BY <2>1, FS_CardinalityType DEF BackendCount
<1>2. IsFiniteSet(1 .. n) /\ Cardinality(1 .. n) = n
  BY <1>1, FS_Interval
<1>3. Cardinality(made) \in Nat
  BY <1>2, FS_Subset, FS_CardinalityType
<1>4. ASSUME \A b \in 1 .. n : b \in S PROVE Cardinality(made) = n
  <2>1. made = 1 .. n
    BY <1>4
  <2> QED BY <1>2, <2>1
<1> QED BY <1>1, <1>3, <1>4

-----------------------------------------------------------------------------
(* Every step keeps the invariant *)

\* The initial state has no backend.
LEMMA InitInv == Init => IInv
<1> SUFFICES ASSUME Init PROVE IInv
  OBVIOUS
<1>1. backends = <<>> /\ Len(backends) = 0 /\ DOMAIN backends = {}
  BY DEF Init
<1>2. TypeOK
  <2>1. 0 \in 0 .. MaxSequence /\ 0 \in 0 .. MaxInits
    BY MaxSequenceAssumption, MaxInitsAssumption
  <2>2. next \in 1 .. Len(backends) + 1
    BY <1>1 DEF Init
  <2>3. /\ pc \in Places /\ then \in {"load", "throw"} /\ doc \in Documents
        /\ imu \in BOOLEAN /\ initialized \in BOOLEAN
        /\ result \in {"none", "ok", "thrown"}
    BY DEF Init, Places
  <2>4. sequence = 0 /\ inits = 0
    BY DEF Init
  <2> QED BY <1>1, <2>1, <2>2, <2>3, <2>4 DEF TypeOK
<1>3. ShapeInv
  <2>1. IsBackends(backends)
    <3>1. DOMAIN backends = 1 .. 0 /\ 0 \in Nat
      BY <1>1
    <3> QED BY <1>1, <3>1 DEF IsBackends
  <2>2. IsConfig(config)
    <3>1. config = [ok |-> TRUE, total |-> 0, motors |-> <<>>, imu |-> FALSE]
      BY DEF Init, Failed
    <3>2. DOMAIN config.motors = {} /\ config.imu = FALSE
      BY <3>1
    <3>3. config = [ok |-> config.ok, total |-> config.total,
                    motors |-> config.motors, imu |-> config.imu]
      BY <3>1
    <3> QED BY <3>2, <3>3, FS_EmptySet DEF IsConfig
  <2>3. IsFiniteSet(DOMAIN registry)
    BY FS_EmptySet DEF Init
  <2> QED BY <2>1, <2>2, <2>3 DEF Init, ShapeInv
<1>4. PhaseInv /\ StateInv /\ TargetInv
  BY <1>1 DEF Init, PhaseInv, StateInv, TargetInv
<1> QED BY <1>2, <1>3, <1>4 DEF IInv

\* init forgets nothing before stop is through.
LEMMA InitBeginKeeps == IInv /\ InitBegin => IInv'
<1> SUFFICES ASSUME IInv, InitBegin PROVE IInv'
  OBVIOUS
<1> USE DEF IInv, InitBegin, StopAll, Goto, tables
<1>1. Len(backends) \in Nat
  BY Length DEF ShapeInv
<1>2. TypeOK'
  BY <1>1, MaxInitsAssumption DEF TypeOK, Places
<1>3. ShapeInv'
  BY DEF ShapeInv
<1>4. PhaseInv' /\ StateInv' /\ TargetInv'
  BY DEF TypeOK, PhaseInv, StateInv, TargetInv
<1> QED BY <1>2, <1>3, <1>4

\* One more backend is stopped.
LEMMA StopBackendKeeps == IInv /\ StopBackend => IInv'
<1> SUFFICES ASSUME IInv, StopBackend PROVE IInv'
  OBVIOUS
<1> USE DEF IInv, StopBackend, tables
<1>1. /\ Len(backends) \in Nat /\ DOMAIN backends = 1 .. Len(backends)
      /\ next \in DOMAIN backends
  BY Length DEF ShapeInv, TypeOK
<1>2. /\ IsBackends(backends') /\ DOMAIN backends' = DOMAIN backends
      /\ Len(backends') = Len(backends)
  BY <1>1, StopBackendReplaces, Replaced DEF ShapeInv
<1>3. TypeOK'
  BY <1>1, <1>2 DEF TypeOK, IsBackends
<1>4. ShapeInv'
  BY <1>2 DEF ShapeInv
<1>5. PhaseInv' /\ StateInv' /\ TargetInv'
  BY <1>2 DEF PhaseInv, StateInv, TargetInv
<1> QED BY <1>3, <1>4, <1>5

\* Nothing is left when stop is through.
LEMMA StopRestKeeps == IInv /\ StopRest => IInv'
<1> SUFFICES ASSUME IInv, StopRest PROVE IInv'
  OBVIOUS
<1> USE DEF IInv, StopRest, Throw, Goto, tables
<1>1. backends' = <<>> /\ Len(backends') = 0 /\ DOMAIN backends' = {}
  OBVIOUS
<1>2. TypeOK'
  <2>1. (next \in 1 .. Len(backends) + 1)'
    BY <1>1
  <2>2. /\ pc' \in Places /\ imu' \in BOOLEAN /\ initialized' \in BOOLEAN
        /\ result' \in {"none", "ok", "thrown"}
    BY DEF TypeOK, Places
  <2>3. UNCHANGED <<then, doc, sequence, inits>>
    OBVIOUS
  <2> QED BY <1>1, <2>1, <2>2, <2>3 DEF TypeOK
<1>3. ShapeInv'
  <2>1. IsBackends(backends')
    <3>1. DOMAIN backends' = 1 .. 0 /\ 0 \in Nat
      BY <1>1
    <3> QED BY <1>1, <3>1 DEF IsBackends
  <2>2. imu' = FALSE /\ config' = config /\ registry' = registry
    OBVIOUS
  <2> QED BY <2>1, <2>2 DEF ShapeInv
<1>4. PhaseInv' /\ StateInv' /\ TargetInv'
  BY <1>1 DEF TypeOK, PhaseInv, StateInv, TargetInv
<1> QED BY <1>2, <1>3, <1>4

\* Reading a configuration starts from nothing and replaces the tables.
LEMMA LoadKeeps == IInv /\ Load => IInv'
<1> SUFFICES ASSUME IInv, Load PROVE IInv'
  OBVIOUS
<1> USE DEF IInv
<1>1. /\ pc = "load" /\ DOMAIN backends = {} /\ imu = FALSE /\ initialized = FALSE
      /\ UNCHANGED <<then, doc, imu, backends, sequence, frame, initialized, inits>>
  BY DEF Load, PhaseInv, TypeOK
<1>2. pc' \in {"imu", "idle"} /\ next' = 1 /\ result' \in {"none", "ok", "thrown"}
  BY DEF Load, Throw, Goto, TypeOK
<1>3. IsConfig(config') /\ IsFiniteSet(DOMAIN registry')
  <2>1. IsConfig(LoadConfig(doc))
    BY Loaded DEF TypeOK
  <2>2. CASE UNCHANGED <<config, registry>>
    BY <2>2 DEF ShapeInv
  <2>3. CASE config' = LoadConfig(doc) /\ UNCHANGED registry
    BY <2>1, <2>3 DEF ShapeInv
  <2>4. CASE config' = LoadConfig(doc) /\ registry' = FromConfig(LoadConfig(doc))
    BY <2>1, <2>4, RegistryMotors DEF IsConfig
  <2>5. \/ UNCHANGED <<config, registry>>
        \/ config' = LoadConfig(doc) /\ UNCHANGED registry
        \/ config' = LoadConfig(doc) /\ registry' = FromConfig(LoadConfig(doc))
    BY DEF Load, tables
  <2> QED BY <2>2, <2>3, <2>4, <2>5
<1>4. TypeOK'
  <2>1. Len(backends) \in Nat
    BY Length DEF ShapeInv
  <2> QED BY <1>1, <1>2, <2>1 DEF TypeOK, Places
<1>5. ShapeInv'
  <2>1. pc' = "imu" => registry' = FromConfig(config')
    BY DEF Load, Throw, Goto
  <2> QED BY <1>1, <1>3, <2>1 DEF ShapeInv
<1>6. PhaseInv' /\ StateInv' /\ TargetInv'
  BY <1>1, <1>2 DEF PhaseInv, StateInv, TargetInv
<1> QED BY <1>4, <1>5, <1>6

\* The IMU runs if the configuration has one, or init is undone.
LEMMA StartImuKeeps == IInv /\ StartImu => IInv'
<1> SUFFICES ASSUME IInv, StartImu PROVE IInv'
  OBVIOUS
<1> USE DEF IInv
<1>1. /\ pc = "imu" /\ DOMAIN backends = {} /\ imu = FALSE /\ initialized = FALSE
      /\ UNCHANGED <<doc, tables, backends, sequence, frame, initialized, inits, result>>
  BY DEF StartImu, PhaseInv, TypeOK
<1>2. /\ next' = 1 /\ then' \in {"load", "throw"} /\ imu' \in BOOLEAN
      /\ pc' \in {"create", "stopping"}
      /\ pc' = "create" => imu' = config.imu
  BY <1>1 DEF StartImu, StopAll, Goto, TypeOK, ShapeInv, IsConfig
<1>3. TypeOK'
  <2>1. Len(backends) \in Nat
    BY Length DEF ShapeInv
  <2> QED BY <1>1, <1>2, <2>1 DEF TypeOK, Places
<1>4. ShapeInv'
  <2>1. registry = FromConfig(config)
    BY <1>1 DEF ShapeInv
  <2> QED BY <1>1, <1>2, <2>1 DEF ShapeInv, tables
<1>5. PhaseInv' /\ StateInv' /\ TargetInv'
  BY <1>1, <1>2 DEF PhaseInv, StateInv, TargetInv, tables
<1> QED BY <1>3, <1>4, <1>5

\* The backends made have no frame yet; one that cannot be made leaves the
\* session absent.
LEMMA CreateBackendsKeeps == IInv /\ CreateBackends => IInv'
<1> SUFFICES ASSUME IInv, CreateBackends PROVE IInv'
  OBVIOUS
<1> USE DEF IInv
<1> DEFINE TooBig(b) == \E i \in MotorsOf(registry, b) : registry[i].index >= MaxMotors
           made == {b \in 1 .. BackendCount(registry) : \A c \in 1 .. b : ~TooBig(c)}
           n == Cardinality(made)
<1>1. /\ pc = "create" /\ initialized = FALSE /\ imu = config.imu
      /\ UNCHANGED <<then, doc, tables, imu, sequence, frame, initialized, inits>>
      /\ backends' = [b \in 1 .. n |-> Created(b)]
      /\ next' = 1 /\ pc' \in {"start", "idle"} /\ result' \in {"none", "ok", "thrown"}
      /\ pc' = "idle" => n # BackendCount(registry)
  BY DEF CreateBackends, Throw, Goto, PhaseInv, TypeOK
<1>2. /\ n \in Nat
      /\ n # BackendCount(registry) => \E b \in 1 .. BackendCount(registry) :
           ~(\A c \in 1 .. b : ~TooBig(c))
  <2> DEFINE S == {b \in 1 .. BackendCount(registry) : \A c \in 1 .. b : ~TooBig(c)}
  <2>1. made = {b \in 1 .. BackendCount(registry) : b \in S}
    OBVIOUS
  <2>2. IsFiniteSet(DOMAIN registry)
    BY DEF ShapeInv
  <2>3. \A b \in 1 .. BackendCount(registry) : b \notin S => ~(\A c \in 1 .. b : ~TooBig(c))
    OBVIOUS
  <2> HIDE DEF S, TooBig, IInv
  <2> QED BY <2>1, <2>2, <2>3, Counts
<1>3. pc' = "idle" => TooLarge
  BY <1>1, <1>2 DEF TooLarge, MotorsOf
<1> HIDE DEF n
<1>4. \A b \in 1 .. n : /\ IsBackend(Created(b)) /\ Created(b).state = "created"
                         /\ Created(b).target.sequence = 0
  BY DEF Created, IsBackend, NoFrame
<1>5. /\ DOMAIN backends' = 1 .. n
      /\ \A b \in 1 .. n : backends'[b] = Created(b)
      /\ backends' = [b \in DOMAIN backends' |-> backends'[b]]
  BY <1>1
<1>6. IsBackends(backends') /\ Len(backends') = n
  BY <1>2, <1>4, <1>5, LengthOf DEF IsBackends
<1>7. TypeOK'
  BY <1>1, <1>2, <1>4, <1>5, <1>6 DEF TypeOK, Places
<1>8. ShapeInv'
  BY <1>1, <1>6 DEF ShapeInv, tables
<1>9. PhaseInv'
  BY <1>1, <1>3 DEF PhaseInv, TooLarge, tables
<1>10. StateInv' /\ TargetInv'
  BY <1>1, <1>2, <1>4, <1>5 DEF StateInv, TargetInv, Hold
<1> QED BY <1>7, <1>8, <1>9, <1>10

\* Backends are started in order, and start changes no frame.
LEMMA StartBackendKeeps == IInv /\ StartBackend => IInv'
<1> SUFFICES ASSUME IInv, StartBackend PROVE IInv'
  OBVIOUS
<1> USE DEF IInv
<1>1. /\ Len(backends) \in Nat /\ DOMAIN backends = 1 .. Len(backends)
      /\ next \in DOMAIN backends
  BY Length DEF ShapeInv, TypeOK, StartBackend
<1>2. PICK r : /\ ReplacesOne(next, r)
               /\ r.state = "running" /\ r.target = backends[next].target
  BY <1>1, StartBackendReplaces DEF ShapeInv
<1>3. /\ DOMAIN backends' = DOMAIN backends
      /\ backends'[next] = r
      /\ \A j \in DOMAIN backends : j # next => backends'[j] = backends[j]
  BY <1>2, Replaced DEF ShapeInv
<1>4. IsBackends(backends') /\ Len(backends') = Len(backends)
  BY <1>2, Replaced DEF ShapeInv
<1>5. TypeOK'
  BY <1>1, <1>3, <1>4 DEF TypeOK, IsBackends, StartBackend, tables
<1>6. ShapeInv'
  BY <1>4 DEF ShapeInv, StartBackend, tables
<1>7. PhaseInv'
  BY <1>3 DEF PhaseInv, StartBackend, tables, TooLarge
<1>8. StateInv'
  BY <1>1, <1>2, <1>3 DEF StateInv, PhaseInv, StartBackend
<1>9. TargetInv'
  BY <1>1, <1>2, <1>3 DEF TargetInv, PhaseInv, Hold, StartBackend
<1> QED BY <1>5, <1>6, <1>7, <1>8, <1>9

\* A failed start stops everything.
LEMMA StartFailsKeeps == IInv /\ StartFails => IInv'
<1> SUFFICES ASSUME IInv, StartFails PROVE IInv'
  OBVIOUS
<1> USE DEF IInv, StartFails, StopAll, Goto, tables
<1>1. Len(backends) \in Nat
  BY Length DEF ShapeInv
<1>2. TypeOK'
  BY <1>1 DEF TypeOK, Places
<1>3. ShapeInv'
  BY DEF ShapeInv
<1>4. PhaseInv' /\ StateInv' /\ TargetInv'
  BY DEF PhaseInv, StateInv, TargetInv
<1> QED BY <1>2, <1>3, <1>4

\* A session begins when all backends run and none has a frame.
LEMMA InitReturnsKeeps == IInv /\ InitReturns => IInv'
<1> SUFFICES ASSUME IInv, InitReturns PROVE IInv'
  OBVIOUS
<1> USE DEF IInv, InitReturns, Goto, tables
<1>1. Len(backends) \in Nat /\ DOMAIN backends = 1 .. Len(backends)
  BY Length DEF ShapeInv
<1>2. TypeOK'
  BY <1>1 DEF TypeOK, Places
<1>3. ShapeInv'
  BY DEF ShapeInv
<1>4. PhaseInv'
  BY DEF PhaseInv
<1>5. StateInv' /\ TargetInv'
  BY <1>1 DEF StateInv, TargetInv, Hold, TypeOK
<1> QED BY <1>2, <1>3, <1>4, <1>5

\* The tables, and a step that changes nothing.
LEMMA TablesKeep == IInv /\ (SetMode \/ SetMaxCurrents \/ UNCHANGED vars) => IInv'
<1> SUFFICES ASSUME IInv, SetMode \/ SetMaxCurrents \/ UNCHANGED vars PROVE IInv'
  OBVIOUS
<1>1. UNCHANGED <<pc, next, then, doc, config, registry, imu, backends, sequence,
                  frame, initialized, inits, result>>
  BY DEF SetMode, SetMaxCurrents, vars, tables
<1>2. TypeOK' /\ ShapeInv'
  BY <1>1 DEF IInv, TypeOK, ShapeInv
<1>3. PhaseInv' /\ StateInv' /\ TargetInv'
  BY <1>1 DEF IInv, PhaseInv, StateInv, TargetInv, Hold, TooLarge
<1> QED BY <1>2, <1>3 DEF IInv

\* An index in the frames depends on the alias only.
LEMMA IndexOf ==
  ASSUME NEW c, NEW i \in DOMAIN c.motors
  PROVE  FromConfig(c)[i].index = c.motors[i].alias - 1
BY DEF FromConfig

\* A bias moves no motor to another index.
LEMMA SetCountBiasKeeps == IInv /\ SetCountBias => IInv'
<1> SUFFICES ASSUME IInv, SetCountBias PROVE IInv'
  OBVIOUS
<1> USE DEF IInv
<1>1. /\ pc = "idle" /\ initialized = FALSE /\ registry' = FromConfig(config')
      /\ UNCHANGED <<pc, next, then, doc, modes, currents, imu, backends, sequence,
                     frame, initialized, inits, result>>
  BY DEF SetCountBias, TypeOK
<1>2. PICK bias \in BiasTables :
        config' = [config EXCEPT !.motors =
          [i \in DOMAIN @ |-> [@[i] EXCEPT !.parameters.countBias = bias[config.motors[i].alias]]]]
  BY DEF SetCountBias
<1> DEFINE Biased(i) ==
             [config.motors[i] EXCEPT !.parameters.countBias = bias[config.motors[i].alias]]
<1>3. IsConfig(config)
  BY DEF ShapeInv
<1>4. /\ config' = [ok |-> config'.ok, total |-> config'.total,
                    motors |-> config'.motors, imu |-> config'.imu]
      /\ config'.imu = config.imu
      /\ config'.motors = [i \in DOMAIN config.motors |-> Biased(i)]
  BY <1>2, <1>3 DEF IsConfig
<1>5. \A i \in DOMAIN config.motors :
        /\ config'.motors[i] = Biased(i)
        /\ DOMAIN Biased(i) = DOMAIN config.motors[i]
        /\ Biased(i).alias = config.motors[i].alias
  BY <1>3, <1>4 DEF IsConfig
<1> HIDE DEF Biased
<1>6. IsConfig(config')
  <2>1. DOMAIN config'.motors = DOMAIN config.motors
    BY <1>4
  <2> QED BY <1>3, <1>4, <1>5, <2>1 DEF IsConfig
<1>7. \A i \in DOMAIN config.motors : FromConfig(config')[i].index = FromConfig(config)[i].index
  <2> SUFFICES ASSUME NEW i \in DOMAIN config.motors
               PROVE  FromConfig(config')[i].index = FromConfig(config)[i].index
    OBVIOUS
  <2>1. i \in DOMAIN config'.motors
    BY <1>4
  <2>2. FromConfig(config)[i].index = config.motors[i].alias - 1
    BY IndexOf
  <2>3. FromConfig(config')[i].index = config'.motors[i].alias - 1
    BY <2>1, IndexOf
  <2> QED BY <1>5, <2>2, <2>3
<1>8. DOMAIN registry' = DOMAIN config.motors
  BY <1>1, <1>4, <1>6, RegistryMotors
<1>9. TypeOK' /\ StateInv' /\ TargetInv'
  BY <1>1 DEF TypeOK, StateInv, TargetInv
<1>10. ShapeInv'
  BY <1>1, <1>3, <1>6, <1>8 DEF ShapeInv, IsConfig
<1>11. PhaseInv'
  <2>1. imu /\ TooLarge => TooLarge'
    BY <1>1, <1>3, <1>7, <1>8, RegistryMotors DEF TooLarge, ShapeInv
  <2> QED BY <1>1, <1>4, <2>1 DEF PhaseInv
<1> QED BY <1>9, <1>10, <1>11

\* A new frame makes the frames the backends hold those of the call before.
LEMMA SetTargetsKeeps == IInv /\ SetTargets => IInv'
<1> SUFFICES ASSUME IInv, SetTargets PROVE IInv'
  OBVIOUS
<1> USE DEF IInv
<1>1. /\ pc = "idle" /\ initialized /\ sequence < MaxSequence
      /\ sequence' = sequence + 1 /\ frame'.sequence = sequence'
      /\ pc' = "publish" /\ next' = 1
      /\ UNCHANGED <<then, doc, tables, imu, backends, initialized, inits, result>>
  BY DEF SetTargets, Goto
<1>2. Len(backends) \in Nat /\ DOMAIN backends = 1 .. Len(backends)
  BY Length DEF ShapeInv
<1>3. TypeOK'
  BY <1>1, <1>2, MaxSequenceAssumption DEF TypeOK, Places
<1>4. ShapeInv'
  BY <1>1 DEF ShapeInv, tables
<1>5. PhaseInv' /\ StateInv'
  BY <1>1 DEF PhaseInv, StateInv, tables
<1>6. TargetInv'
  BY <1>1, <1>2 DEF TargetInv, Hold, TypeOK
<1> QED BY <1>3, <1>4, <1>5, <1>6

\* One more backend has the new frame.
LEMMA PublishToKeeps == IInv /\ PublishTo => IInv'
<1> SUFFICES ASSUME IInv, PublishTo PROVE IInv'
  OBVIOUS
<1> USE DEF IInv
<1>1. /\ Len(backends) \in Nat /\ DOMAIN backends = 1 .. Len(backends)
      /\ next \in DOMAIN backends
  BY Length DEF ShapeInv, TypeOK, PublishTo
<1>2. PICK r : ReplacesOne(next, r) /\ r.state = backends[next].state /\ r.target = frame
  BY <1>1, PublishToReplaces DEF ShapeInv
<1>3. /\ IsBackends(backends') /\ DOMAIN backends' = DOMAIN backends
      /\ backends'[next] = r
      /\ \A j \in DOMAIN backends : j # next => backends'[j] = backends[j]
      /\ Len(backends') = Len(backends)
  BY <1>1, <1>2, Replaced DEF ShapeInv, IsBackends
<1>4. IsBackends(backends') /\ Len(backends') = Len(backends)
  BY <1>3
<1>5. TypeOK'
  BY <1>1, <1>3, <1>4 DEF TypeOK, IsBackends, PublishTo, tables
<1>6. ShapeInv'
  BY <1>4 DEF ShapeInv, PublishTo, tables
<1>7. PhaseInv'
  BY <1>3 DEF PhaseInv, PublishTo, tables, TooLarge
<1>8. StateInv'
  BY <1>1, <1>2, <1>3 DEF StateInv, PhaseInv, PublishTo
<1>9. TargetInv'
  BY <1>1, <1>2, <1>3 DEF TargetInv, PhaseInv, Hold, PublishTo
<1> QED BY <1>5, <1>6, <1>7, <1>8, <1>9

\* The call returns when all backends have its frame.
LEMMA SetTargetsReturnsKeeps == IInv /\ SetTargetsReturns => IInv'
<1> SUFFICES ASSUME IInv, SetTargetsReturns PROVE IInv'
  OBVIOUS
<1> USE DEF IInv, SetTargetsReturns, Goto, tables
<1>1. Len(backends) \in Nat /\ DOMAIN backends = 1 .. Len(backends)
  BY Length DEF ShapeInv
<1>2. TypeOK'
  BY <1>1 DEF TypeOK, Places
<1>3. ShapeInv'
  BY DEF ShapeInv
<1>4. PhaseInv' /\ StateInv'
  BY DEF PhaseInv, StateInv
<1>5. TargetInv'
  BY <1>1 DEF TargetInv, PhaseInv, Hold, TypeOK
<1> QED BY <1>2, <1>3, <1>4, <1>5

\* The threads of a backend change neither its state nor its frame.
LEMMA BackendKeeps == IInv /\ Backend => IInv'
<1> SUFFICES ASSUME IInv, NEW k \in DOMAIN backends, TakeTarget(k) \/ PublishActuals(k)
             PROVE  IInv'
  BY DEF Backend
<1> USE DEF IInv
<1>1. Len(backends) \in Nat /\ DOMAIN backends = 1 .. Len(backends)
  BY Length DEF ShapeInv
<1>2. UNCHANGED <<pc, next, then, doc, tables, imu, sequence, frame, initialized, inits, result>>
  BY DEF TakeTarget, PublishActuals
<1>3. PICK r : /\ ReplacesOne(k, r)
               /\ r.state = backends[k].state /\ r.target = backends[k].target
  BY BackendReplaces DEF ShapeInv
<1>4. /\ IsBackends(backends') /\ DOMAIN backends' = DOMAIN backends
      /\ backends'[k] = r
      /\ \A j \in DOMAIN backends : j # k => backends'[j] = backends[j]
      /\ Len(backends') = Len(backends)
  BY <1>3, Replaced DEF ShapeInv, IsBackends
<1>5. backends'[k].state = backends[k].state /\ backends'[k].target = backends[k].target
  BY <1>3, <1>4
<1>6. IsBackends(backends') /\ Len(backends') = Len(backends)
  BY <1>4
<1>7. TypeOK'
  BY <1>2, <1>4, <1>6 DEF TypeOK, IsBackends, tables
<1>8. ShapeInv'
  BY <1>2, <1>6 DEF ShapeInv, tables
<1>9. PhaseInv' /\ StateInv'
  BY <1>2, <1>4, <1>5 DEF PhaseInv, StateInv, TooLarge, tables
<1>10. TargetInv'
  BY <1>1, <1>2, <1>4, <1>5 DEF TargetInv, Hold
<1> QED BY <1>7, <1>8, <1>9, <1>10

-----------------------------------------------------------------------------
(* Theorems *)

\* The invariant holds in every reachable state.
THEOREM Invariance == Spec => []IInv
<1>1. IInv /\ [Next]_vars => IInv'
  BY InitBeginKeeps, StopBackendKeeps, StopRestKeeps, LoadKeeps, StartImuKeeps,
     CreateBackendsKeeps, StartBackendKeeps, StartFailsKeeps, InitReturnsKeeps,
     TablesKeep, SetCountBiasKeeps, SetTargetsKeeps, PublishToKeeps,
     SetTargetsReturnsKeeps, BackendKeeps DEF Next, Application
<1> QED BY <1>1, InitInv, PTL DEF Spec

\* Type correctness: whatever the operations do, and in whatever order, the
\* index of the backend under work stays within the list.
THEOREM TypeCorrect == Spec => []TypeOK
<1>1. IInv => TypeOK
  BY DEF IInv
<1> QED BY <1>1, Invariance, PTL

\* init leaves all backends and the IMU running, or no backend at all; only a
\* motor too large for a frame leaves the IMU thread behind.
THEOREM SessionCompleteOrAbsent == Spec => []AllOrNothing
<1>1. IInv => AllOrNothing
  BY DEF IInv, AllOrNothing, Running, TooLarge, PhaseInv, StateInv
<1> QED BY <1>1, Invariance, PTL

\* setMotorTarget leaves all backends with the frame of one call, for any
\* number of backends.
THEOREM BackendsAgree == Spec => []OneCommandForAll
<1>1. ASSUME IInv, initialized, pc # "stopping", NEW a \in DOMAIN backends, NEW b \in DOMAIN backends
      PROVE  LET s == backends[a].target.sequence
                 t == backends[b].target.sequence
             IN s = t \/ (pc = "publish" /\ {s, t} \subseteq {0, sequence - 1, sequence})
  <2>1. pc \in {"idle", "publish"}
    BY <1>1 DEF IInv, PhaseInv
  <2>2. a \in Nat /\ b \in Nat /\ next \in Nat /\ a >= 1 /\ b >= 1
    BY <1>1, Length DEF IInv, ShapeInv, TypeOK
  <2>3. CASE pc = "idle"
    BY <1>1, <2>2, <2>3 DEF IInv, TargetInv, Hold
  <2>4. CASE pc = "publish"
    BY <1>1, <2>2, <2>4 DEF IInv, TargetInv, Hold
  <2> QED BY <2>1, <2>3, <2>4
<1>2. IInv => OneCommandForAll
  BY <1>1 DEF OneCommandForAll
<1> QED BY <1>2, Invariance, PTL

-----------------------------------------------------------------------------
(* Arithmetic of the conversions *)

\* A quotient is between its neighbours.
LEMMA Quotient ==
  ASSUME NEW a \in Int, NEW b \in Nat \ {0}
  PROVE  a \div b \in Int /\ b * (a \div b) <= a /\ a < b * (a \div b) + b
OBVIOUS

\* Multiples of b that are less than one multiple apart are in order.
LEMMA Larger ==
  ASSUME NEW x \in Int, NEW y \in Int, NEW b \in Nat \ {0}, b * x < b * y + b
  PROVE  x <= y
<1> SUFFICES ASSUME ~(x <= y) PROVE FALSE
  OBVIOUS
<1>1. PICK k \in Nat : x = y + 1 + k
  <2>1. x - y - 1 \in Nat /\ x = y + 1 + (x - y - 1)
    OBVIOUS
  <2> QED BY <2>1
<1>2. b * k >= 0
  OBVIOUS
<1>3. b * x = b * y + b + b * k
  BY <1>1
<1> QED BY <1>2, <1>3

\* A product of numbers of the same sign is not negative.
LEMMA SameSign ==
  ASSUME NEW x \in Int, NEW y \in Int, (x >= 0 /\ y >= 0) \/ (x <= 0 /\ y <= 0)
  PROVE  x * y >= 0
OBVIOUS

\* A number of 16 bits is left as it is by the cast.
LEMMA Wraps == ASSUME NEW v \in Int, -32768 <= v, v <= 32767 PROVE Int16(v) = v
<1>1. 65536 \div 2 = 32768
  OBVIOUS
<1>2. v + 32768 >= 0 /\ v + 32768 < 65536
  OBVIOUS
<1>3. ASSUME NEW u \in Int, u >= 0, u < 65536 PROVE u % 65536 = u
  BY <1>3
<1>4. (v + 32768) % 65536 = v + 32768
  BY <1>2, <1>3
<1> QED BY <1>1, <1>4 DEF Int16, Wrap

\* What clamping returns.
LEMMA Clamps ==
  ASSUME NEW v \in Int, NEW l \in Int, NEW h \in Int, l <= h
  PROVE  Clamp(v, l, h) \in l .. h /\ (v \in l .. h => Clamp(v, l, h) = v)
BY DEF Clamp

\* Rounding is off by half the divisor at most, and exact on multiples.
LEMMA Rounds ==
  ASSUME NEW a \in Int, NEW b \in Nat \ {0}
  PROVE  /\ Round(a, b) \in Int
         /\ 2 * (b * Round(a, b) - a) <= b /\ 2 * (a - b * Round(a, b)) <= b
<1> DEFINE h == b \div 2
<1>1. h \in Nat /\ 2 * h <= b /\ b <= 2 * h + 1 /\ h < b
  OBVIOUS
<1> HIDE DEF h
<1>2. CASE a >= 0
  <2> DEFINE q == (a + h) \div b
  <2>1. q \in Int /\ b * q <= a + h /\ a + h < b * q + b
    BY <1>1, Quotient
  <2>2. Round(a, b) = q
    BY <1>2 DEF Round, h
  <2> HIDE DEF q
  <2>3. DEFINE X == b * q
  <2>4. X \in Int
    BY <2>1
  <2> HIDE DEF X
  <2> QED BY <1>1, <2>1, <2>2, <2>4 DEF X
<1>3. CASE ~(a >= 0)
  <2> DEFINE q == (h - a) \div b
  <2>1. q \in Int /\ b * q <= h - a /\ h - a < b * q + b
    BY <1>1, Quotient
  <2>2. Round(a, b) = -q
    BY <1>3 DEF Round, h
  <2> HIDE DEF q
  <2>3. b * (-q) = -(b * q) /\ b * q \in Int
    BY <2>1
  <2> QED BY <1>1, <2>1, <2>2, <2>3
<1> QED BY <1>2, <1>3

\* Multiples are divided without rest.
LEMMA RoundsMultiples ==
  ASSUME NEW x \in Int, NEW b \in Nat \ {0}
  PROVE  Round(b * x, b) = x
<1> DEFINE r == Round(b * x, b)
<1>1. b * x \in Int
  OBVIOUS
<1>2. r \in Int /\ 2 * (b * r - b * x) <= b /\ 2 * (b * x - b * r) <= b
  BY <1>1, Rounds
<1> HIDE DEF r
<1>3. b * r \in Int /\ b * r < b * x + b /\ b * x < b * r + b
  BY <1>1, <1>2
<1>4. r <= x /\ x <= r
  BY <1>2, <1>3, Larger
<1> QED BY <1>2, <1>4 DEF r

\* Multiplying by a natural number keeps the order.
LEMMA Monotone ==
  ASSUME NEW x \in Int, NEW y \in Int, NEW b \in Nat, x <= y
  PROVE  x * b <= y * b
<1>1. PICK k \in Nat : y = x + k
  <2>1. y - x \in Nat /\ y = x + (y - x)
    OBVIOUS
  <2> QED BY <2>1
<1>2. k * b >= 0 /\ y * b = x * b + k * b
  BY <1>1
<1>3. x * b \in Int /\ y * b \in Int /\ k * b \in Int
  OBVIOUS
<1> QED BY <1>2, <1>3

\* A position sent to an EtherCAT drive and read back is the same.
LEMMA PositionReadBack ==
  ASSUME NEW p, IsParameters(p), ReadsBack(p), NEW x \in Int
  PROVE  CountsToRad(RadToCounts(x, p), p) = x
<1> DEFINE r == p.encoderResolution
           s == p.polarity
           b == p.countBias
<1>1. r \in Nat \ {0} /\ s \in {-1, 1} /\ b \in Int
  BY DEF IsParameters, ReadsBack
<1>2. CountsToRad(RadToCounts(x, p), p) = Round(s * ((s * x * r + b) - b), r)
  BY <1>1 DEF CountsToRad, RadToCounts
<1> HIDE DEF r, s, b
<1>3. s * ((s * x * r + b) - b) = r * x
  <2>1. CASE s = 1
    BY <1>1, <2>1
  <2>2. CASE s = -1
    BY <1>1, <2>2
  <2> QED BY <1>1, <2>1, <2>2
<1> QED BY <1>1, <1>2, <1>3, RoundsMultiples

\* What is left of a number in 16 bits is no larger than the number.
LEMMA WrapShrinks == ASSUME NEW v \in Int PROVE Int16(v) \in Int /\ Abs(Int16(v)) <= Abs(v)
<1>1. CASE -32768 <= v /\ v <= 32767
  BY <1>1, Wraps DEF Abs
<1>2. CASE ~(-32768 <= v /\ v <= 32767)
  <2>1. 65536 \div 2 = 32768
    OBVIOUS
  <2>2. ASSUME NEW u \in Int PROVE u % 65536 \in Int /\ 0 <= u % 65536 /\ u % 65536 < 65536
    OBVIOUS
  <2> DEFINE w == (v + 32768) % 65536
  <2>3. w \in Int /\ 0 <= w /\ w < 65536
    BY <2>2
  <2>4. Int16(v) = w - 32768
    BY <2>1 DEF Int16, Wrap
  <2> HIDE DEF w
  <2>5. Int16(v) \in Int /\ -32768 <= Int16(v) /\ Int16(v) <= 32767
    BY <2>3, <2>4
  <2> QED BY <1>2, <2>5 DEF Abs
<1> QED BY <1>1, <1>2

\* Torques are numbers, and limited ones limited twice are the same.
LEMMA TorqueClamps ==
  ASSUME NEW p, IsParameters(p), NEW tor \in Int
  PROVE  /\ ClampTorque(tor, p) \in Int
         /\ p.maximumTorque >= 0 =>
              /\ -p.maximumTorque <= ClampTorque(tor, p) /\ ClampTorque(tor, p) <= p.maximumTorque
              /\ tor >= 0 => ClampTorque(tor, p) >= 0
              /\ tor <= 0 => ClampTorque(tor, p) <= 0
              /\ ClampTorque(ClampTorque(tor, p), p) = ClampTorque(tor, p)
BY DEF ClampTorque, Clamp, IsParameters

\* In mode 10 the torque of any motor is within its current.
LEMMA TorqueBounded ==
  ASSUME NEW p, IsParameters(p), NEW t, t.tor \in Int, t.maxCurrent \in Nat, t.mode = 10
  PROVE  Abs(PackedTorque(t, p)) <= t.maxCurrent
<1> DEFINE c == ClampTorque(t.tor, p)
           m == t.maxCurrent
           l == Clamp(p.polarity * c * p.torqueGain, -m, m)
<1>1. p.polarity \in Int /\ c \in Int /\ p.torqueGain \in Int
  BY TorqueClamps DEF IsParameters
<1>2. p.polarity * c * p.torqueGain \in Int
  BY <1>1
<1>3. l \in Int /\ Abs(l) <= m
  BY <1>2 DEF Clamp, Abs
<1>4. PackedTorque(t, p) = Int16(l)
  BY DEF PackedTorque, TorqueToRawLimited
<1> HIDE DEF l, m
<1>5. Int16(l) \in Int /\ Abs(Int16(l)) <= Abs(l)
  BY <1>3, WrapShrinks
<1>6. Abs(l) \in Int /\ Abs(Int16(l)) \in Int
  BY <1>3, <1>5 DEF Abs
<1>7. m \in Nat
  BY DEF m
<1> QED BY <1>3, <1>4, <1>5, <1>6, <1>7 DEF m

\* The torque an EtherCAT drive is sent points the requested way as long as it
\* fits its field.
LEMMA TorqueDirected ==
  ASSUME NEW p, IsParameters(p), NEW tor \in Int, NEW t, t.tor = ClampTorque(tor, p),
         t.maxCurrent \in Nat, KeepsDirection(p, t.mode, t.maxCurrent)
  PROVE  PackedTorque(t, p) * p.polarity * tor >= 0
<1> DEFINE M == p.maximumTorque
           g == p.torqueGain
           s == p.polarity
           c == ClampTorque(tor, p)
           m == t.maxCurrent
           raw == s * c * g
           q == PackedTorque(t, p)
<1>1. /\ M \in Nat /\ g \in Nat /\ s \in {-1, 1} /\ m \in Nat
      /\ (t.mode = 10 /\ m <= 32767) \/ M * g <= 32767
  BY DEF IsParameters, KeepsDirection
<1>2. /\ c \in Int /\ -M <= c /\ c <= M
      /\ (tor >= 0 => c >= 0) /\ (tor <= 0 => c <= 0)
      /\ ClampTorque(c, p) = c
  BY <1>1, TorqueClamps
<1> HIDE DEF c
<1>3. q = CASE t.mode = 8 -> 0
            [] t.mode = 10 -> Int16(Clamp(raw, -m, m))
            [] OTHER -> Int16(raw)
  BY <1>2 DEF PackedTorque, TorqueToRawLimited, TorqueToRaw, c
<1> HIDE DEF M, g, s, q, m
<1>4. /\ c * g \in Int /\ M * g \in Int /\ -(M * g) <= c * g /\ c * g <= M * g
      /\ (tor >= 0 => c * g >= 0) /\ (tor <= 0 => c * g <= 0)
  <2>1. c * g <= M * g /\ (-M) * g <= c * g
    BY <1>1, <1>2, Monotone
  <2>2. (-M) * g = -(M * g) /\ M * g \in Int /\ c * g \in Int
    BY <1>1, <1>2
  <2>3. (tor >= 0 => c * g >= 0) /\ (tor <= 0 => c * g <= 0)
    <3>1. (0 <= c => 0 * g <= c * g) /\ (c <= 0 => c * g <= 0 * g) /\ 0 * g = 0
      BY <1>1, <1>2, Monotone
    <3> QED BY <1>2, <3>1, <2>2
  <2> QED BY <1>1, <2>1, <2>2, <2>3
<1>5. /\ raw \in Int /\ -(M * g) <= raw /\ raw <= M * g
      /\ \/ raw >= 0 /\ s * tor >= 0
         \/ raw <= 0 /\ s * tor <= 0
  <2>1. CASE s = 1
    <3>1. raw = c * g /\ s * tor = tor
      BY <1>1, <1>2, <2>1
    <3> QED BY <1>4, <3>1
  <2>2. CASE s = -1
    <3>1. raw = -(c * g) /\ s * tor = -tor
      BY <1>1, <1>2, <2>2
    <3> QED BY <1>4, <3>1
  <2> QED BY <1>1, <2>1, <2>2
<1> HIDE DEF raw
<1>6. /\ q \in Int
      /\ \/ q >= 0 /\ s * tor >= 0
         \/ q <= 0 /\ s * tor <= 0
  <2>1. CASE t.mode = 8
    BY <1>1, <1>3, <1>5, <2>1
  <2>2. CASE t.mode = 10
    <3> DEFINE l == Clamp(raw, -m, m)
    <3>1. /\ l \in Int /\ -32767 <= l /\ l <= 32767
          /\ (raw >= 0 => l >= 0) /\ (raw <= 0 => l <= 0)
      <4>1. /\ l \in Int /\ -m <= l /\ l <= m
            /\ (raw >= 0 => 0 <= l /\ l <= raw) /\ (raw <= 0 => raw <= l /\ l <= 0)
        BY <1>1, <1>5 DEF Clamp
      <4> HIDE DEF l
      <4> QED BY <1>1, <1>4, <1>5, <4>1
    <3>2. q = Int16(l)
      BY <1>3, <2>2
    <3> HIDE DEF l
    <3>3. q = l
      BY <3>1, <3>2, Wraps
    <3> QED BY <1>5, <3>1, <3>3
  <2>3. CASE t.mode # 8 /\ t.mode # 10
    <3>1. q = Int16(raw)
      BY <1>3, <2>3
    <3>2. q = raw
      BY <1>1, <1>4, <1>5, <2>3, <3>1, Wraps
    <3> QED BY <1>5, <2>3, <3>2
  <2> QED BY <2>1, <2>2, <2>3
<1>7. s * tor \in Int /\ q * s * tor = q * (s * tor)
  BY <1>1, <1>6
<1>8. q * (s * tor) >= 0
  BY <1>6, <1>7, SameSign
<1> QED BY <1>6, <1>7, <1>8 DEF q, s

\* A field of n levels carries a number of 0 .. b to within half a level and
\* half a unit.
LEMMA Level ==
  ASSUME NEW b \in Nat \ {0}, NEW n \in Nat \ {0}, NEW w \in Int, 0 <= w, w <= b
  PROVE  LET u == Round(w * n, b)
             r == Round(u * b, n) IN
         /\ u \in Int /\ u <= n
         /\ r \in Int
         /\ 2 * (n * r - n * w) <= n + b /\ 2 * (n * w - n * r) <= n + b
<1> DEFINE u == Round(w * n, b)
           r == Round(u * b, n)
<1>1. w * n \in Int /\ w * n = n * w /\ w * n <= b * n
  BY Monotone
<1>2. u \in Int /\ 2 * (b * u - w * n) <= b /\ 2 * (w * n - b * u) <= b
  BY <1>1, Rounds
<1> HIDE DEF u
<1>3. b * u \in Int /\ u * b = b * u
  BY <1>2
<1>4. u <= n
  <2>1. b * n \in Int
    OBVIOUS
  <2>2. b * u < b * n + b
    BY <1>1, <1>2, <1>3, <2>1
  <2> QED BY <1>2, <2>2, Larger
<1>5. r \in Int /\ 2 * (n * r - u * b) <= n /\ 2 * (u * b - n * r) <= n
  BY <1>3, Rounds
<1> HIDE DEF r
<1>6. n * r \in Int
  BY <1>5
<1>7. 2 * (n * r - n * w) <= n + b /\ 2 * (n * w - n * r) <= n + b
  BY <1>1, <1>2, <1>3, <1>5, <1>6
<1> QED BY <1>2, <1>4, <1>5, <1>7 DEF u, r

\* The same for a field of an MIT frame.
LEMMA FieldCarries ==
  ASSUME NEW l \in Nat \ {0}, NEW n \in Nat \ {0}, NEW v \in Int
  PROVE  LET c == Clamp(v, -l, l)
             r == UintToFloat(FloatToUint(v, -l, l, n), -l, l, n) IN
         /\ c \in Int /\ r \in Int
         /\ 2 * (n * (r - c)) <= n + 2 * l /\ 2 * (n * (c - r)) <= n + 2 * l
<1> DEFINE c == Clamp(v, -l, l)
           w == c + l
           b == 2 * l
           u == Round(w * n, b)
           r == Round(u * b, n)
<1>1. c \in Int /\ -l <= c /\ c <= l
  BY DEF Clamp
<1>2. w \in Int /\ 0 <= w /\ w <= b /\ b \in Nat \ {0}
  BY <1>1
<1>3. c - (-l) = w /\ l - (-l) = b
  BY <1>1
<1>4. FloatToUint(v, -l, l, n) = u
  BY <1>3 DEF FloatToUint
<1> HIDE DEF c, w, b
<1>5. /\ u \in Int /\ u <= n /\ r \in Int
      /\ 2 * (n * r - n * w) <= n + b /\ 2 * (n * w - n * r) <= n + b
  BY <1>2, Level
<1> HIDE DEF u
<1>6. UintToFloat(u, -l, l, n) = r + (-l)
  <2>1. ~(u > n)
    BY <1>5
  <2> QED BY <1>3, <2>1 DEF UintToFloat
<1> HIDE DEF r
<1> DEFINE d == r + (-l)
<1>7. d \in Int /\ d - c = r - w /\ c - d = w - r
  BY <1>1, <1>2, <1>5 DEF w
<1>8. /\ n * (d - c) = n * r - n * w
      /\ n * (c - d) = n * w - n * r
  <2>1. n * (r - w) = n * r - n * w /\ n * (w - r) = n * w - n * r
    BY <1>2, <1>5
  <2> QED BY <1>7, <2>1
<1>9. 2 * (n * (d - c)) <= n + b /\ 2 * (n * (c - d)) <= n + b
  BY <1>5, <1>8
<1>10. UintToFloat(FloatToUint(v, -l, l, n), -l, l, n) = d
  BY <1>4, <1>6
<1> QED BY <1>1, <1>7, <1>9, <1>10 DEF b, c

\* Half a step of a field of 12 bits is less than a step of its scale.
LEMMA TwelveBits ==
  ASSUME NEW l \in Nat \ {0}, NEW v \in Int
  PROVE  LET c == Clamp(v, -l, l)
             r == UintToFloat(FloatToUint(v, -l, l, 4095), -l, l, 4095) IN
         /\ c \in Int /\ Abs(r - c) <= (2 * l) \div 4095
<1> DEFINE c == Clamp(v, -l, l)
           r == UintToFloat(FloatToUint(v, -l, l, 4095), -l, l, 4095)
           q == (2 * l) \div 4095
<1>1. /\ c \in Int /\ r \in Int
      /\ 2 * (4095 * (r - c)) <= 4095 + 2 * l /\ 2 * (4095 * (c - r)) <= 4095 + 2 * l
  BY FieldCarries
<1> HIDE DEF c, r
<1>2. q \in Int /\ q >= 0 /\ 2 * l < 4095 * q + 4095
  OBVIOUS
<1> HIDE DEF q
<1>3. r - c <= q /\ c - r <= q
  BY <1>1, <1>2
<1> QED BY <1>1, <1>2, <1>3 DEF Abs, c, r, q

\* The fields of an MIT frame for a target whose torque is within the motor's
\* limit, or that gets none.
LEMMA MitCarries ==
  ASSUME NEW p, p.maximumTorque \in Int, NEW t, t.pos \in Int, t.vel \in Int, t.tor \in Int,
         p.maximumTorque >= 0 => -p.maximumTorque <= t.tor /\ t.tor <= p.maximumTorque
  PROVE  MitCarried(t, p)
<1> DEFINE limit == PositiveTorqueLimit(p)
           f == PackMit(t, p)
           read == ParseMit(f, p)
<1>1. /\ f.pos = FloatToUint(t.pos, -PMax, PMax, 65535)
      /\ f.vel = FloatToUint(t.vel, -VMax, VMax, 4095)
      /\ f.tor = FloatToUint(t.tor, -limit, limit, 4095)
  BY DEF PackMit
<1>2. /\ read.pos = UintToFloat(f.pos, -PMax, PMax, 65535)
      /\ read.vel = UintToFloat(f.vel, -VMax, VMax, 4095)
      /\ read.tor = UintToFloat(f.tor, -limit, limit, 4095)
  BY DEF ParseMit
<1>3. limit \in Nat \ {0} /\ (p.maximumTorque >= 0 => -limit <= t.tor /\ t.tor <= limit)
  BY DEF PositiveTorqueLimit
<1>4. PMax \in Nat \ {0} /\ PMax = 12566 /\ VMax \in Nat \ {0}
  BY DEF PMax, VMax
<1> HIDE DEF limit, f, read
<1>5. Abs(read.pos - Clamp(t.pos, -PMax, PMax)) <= 1
  <2> DEFINE c == Clamp(t.pos, -PMax, PMax)
             r == UintToFloat(FloatToUint(t.pos, -PMax, PMax, 65535), -PMax, PMax, 65535)
  <2>1. /\ c \in Int /\ r \in Int
        /\ 2 * (65535 * (r - c)) <= 65535 + 2 * PMax /\ 2 * (65535 * (c - r)) <= 65535 + 2 * PMax
    BY <1>4, FieldCarries
  <2>2. read.pos = r
    BY <1>1, <1>2
  <2> HIDE DEF c, r
  <2>3. r - c <= 1 /\ c - r <= 1
    BY <1>4, <2>1
  <2>4. Abs(r - c) <= 1
    BY <2>1, <2>3 DEF Abs
  <2> QED BY <2>2, <2>4 DEF c
<1>6. Abs(read.vel - Clamp(t.vel, -VMax, VMax)) <= (2 * VMax) \div 4095
  <2> DEFINE r == UintToFloat(FloatToUint(t.vel, -VMax, VMax, 4095), -VMax, VMax, 4095)
  <2>1. Abs(r - Clamp(t.vel, -VMax, VMax)) <= (2 * VMax) \div 4095
    BY <1>4, TwelveBits
  <2>2. read.vel = r
    BY <1>1, <1>2
  <2> QED BY <2>1, <2>2
<1>7. ASSUME p.maximumTorque >= 0 PROVE Abs(read.tor - t.tor) <= (2 * limit) \div 4095
  <2>1. Clamp(t.tor, -limit, limit) = t.tor
    BY <1>3, <1>7 DEF Clamp
  <2> DEFINE r == UintToFloat(FloatToUint(t.tor, -limit, limit, 4095), -limit, limit, 4095)
  <2>2. Abs(r - Clamp(t.tor, -limit, limit)) <= (2 * limit) \div 4095
    BY <1>3, TwelveBits
  <2>3. read.tor = r
    BY <1>1, <1>2
  <2> QED BY <2>1, <2>2, <2>3
<1> QED BY <1>5, <1>6, <1>7 DEF MitCarried, limit, f, read

-----------------------------------------------------------------------------
(* What a session rests on *)

\* The registry of a configuration that was read.
LEMMA RegistryOf ==
  ASSUME NEW d \in Documents, LoadConfig(d).ok
  PROVE  LET c == LoadConfig(d)
             g == FromConfig(c) IN
         /\ c.total \in Nat
         /\ \E n \in Nat : DOMAIN g = 1 .. n
         /\ g = [i \in DOMAIN g |-> g[i]]
         /\ \A i \in DOMAIN g : /\ g[i].index \in 0 .. c.total - 1
                                /\ g[i].alias \in DOMAIN ParameterMap(d)
                                /\ g[i].parameters = ParameterMap(d)[g[i].alias]
                                /\ g[i].backend \in 1 .. BackendCount(g)
         /\ \A i, j \in DOMAIN g : g[i].index = g[j].index => i = j
         /\ \A i, j \in DOMAIN g : g[i].backend = g[j].backend => g[i].bus = g[j].bus
<1> DEFINE c == LoadConfig(d)
           g == FromConfig(c)
<1>1. IsDocument(d)
  BY DocumentsAssumption
<1>2. /\ c = [ok |-> TRUE, total |-> TotalMotorCount(d), motors |-> c.motors, imu |-> d.imu]
      /\ IsMotors(c.motors, ParameterMap(d)) /\ AliasesInRange(c)
  BY <1>1, LoadedMotors
<1> HIDE DEF c
<1>3. c.total \in Nat
  <2>1. c.total = TotalMotorCount(d)
    BY <1>2
  <2> QED BY <1>1, <2>1, Aliases
<1>4. PICK n \in Nat : DOMAIN c.motors = 1 .. n
  BY <1>2 DEF IsMotors
<1>5. /\ DOMAIN g = 1 .. n /\ g = [i \in DOMAIN g |-> g[i]]
      /\ \A i \in 1 .. n : /\ g[i].alias = c.motors[i].alias
                           /\ g[i].index = c.motors[i].alias - 1
                           /\ g[i].bus = c.motors[i].bus
                           /\ g[i].parameters = c.motors[i].parameters
                           /\ g[i].backend = BackendIndex(c.motors, i)
  BY <1>4 DEF FromConfig
<1> HIDE DEF g
<1>6. \A i \in 1 .. n : c.motors[i].alias \in 1 .. c.total
  BY <1>2, <1>4 DEF AliasesInRange
<1>7. \A i \in 1 .. n : /\ g[i].alias \in DOMAIN ParameterMap(d)
                        /\ g[i].parameters = ParameterMap(d)[g[i].alias]
  <2>1. \A i \in 1 .. n : IsMotor(c.motors[i], ParameterMap(d))
    BY <1>2, <1>4 DEF IsMotors
  <2>2. \A i \in 1 .. n : /\ c.motors[i].alias \in DOMAIN ParameterMap(d)
                          /\ c.motors[i].parameters = ParameterMap(d)[c.motors[i].alias]
    BY <2>1 DEF IsMotor
  <2> QED BY <1>5, <2>2
<1>8. \A i, j \in 1 .. n : c.motors[i].alias = c.motors[j].alias => i = j
  BY <1>2, <1>4 DEF IsMotors
<1>9. /\ \A i \in 1 .. n : g[i].backend \in 1 .. BackendCount(g)
      /\ \A i, j \in 1 .. n : g[i].backend = g[j].backend => g[i].bus = g[j].bus
  <2> DEFINE B == {BackendIndex(c.motors, j) : j \in 1 .. n}
  <2>1. /\ \A i \in 1 .. n : /\ BackendIndex(c.motors, i) \in Nat
                             /\ 1 <= BackendIndex(c.motors, i)
                             /\ BackendIndex(c.motors, i) <= Cardinality(B)
        /\ \A i, j \in 1 .. n : BackendIndex(c.motors, i) = BackendIndex(c.motors, j) =>
             SameBackend(c.motors[i], c.motors[j])
    BY <1>4, BackendsOf
  <2>2. {g[i].backend : i \in DOMAIN g} = B
    BY <1>5
  <2>3. BackendCount(g) = Cardinality(B)
    BY <2>2 DEF BackendCount
  <2>4. IsFiniteSet(B)
    <3> DEFINE f == [j \in 1 .. n |-> BackendIndex(c.motors, j)]
    <3>1. DOMAIN f = 1 .. n /\ B = {f[j] : j \in DOMAIN f} /\ IsFiniteSet(1 .. n)
      BY FS_Interval
    <3> HIDE DEF f, B
    <3> QED BY <3>1, ImageFinite
  <2> HIDE DEF B
  <2>5. Cardinality(B) \in Nat
    BY <2>4, FS_CardinalityType
  <2>6. \A i \in 1 .. n : g[i].backend \in 1 .. BackendCount(g)
    BY <1>5, <2>1, <2>3, <2>5
  <2>7. \A i, j \in 1 .. n : g[i].backend = g[j].backend => g[i].bus = g[j].bus
    BY <1>5, <2>1 DEF SameBackend
  <2> QED BY <2>6, <2>7
<1>10. \A i \in 1 .. n : g[i].index \in 0 .. c.total - 1
  BY <1>3, <1>5, <1>6
<1>11. \A i, j \in 1 .. n : g[i].index = g[j].index => i = j
  BY <1>3, <1>5, <1>6, <1>8
<1> QED BY <1>3, <1>5, <1>7, <1>9, <1>10, <1>11 DEF c, g

\* init has read its configuration; it has made the backends as well.
Configured == pc \in {"imu", "create", "start", "publish"} \/ (initialized /\ pc = "idle")
Made == pc \in {"start", "publish"} \/ (initialized /\ pc = "idle")

\* From then on the tables are those of the document, whatever earlier calls
\* of init and of the setters left in them.
ConfigInv == Configured =>
  /\ LoadConfig(doc).ok /\ config = LoadConfig(doc) /\ registry = FromConfig(config)
  /\ Len(modes) = config.total /\ Len(currents) = config.total

\* There is a backend for each that the registry names, which was made with
\* the modes of the tables.
MadeInv == Made =>
  /\ DOMAIN backends = 1 .. BackendCount(registry)
  /\ \A i \in DOMAIN registry : registry[i].index < MaxMotors
  /\ \A b \in DOMAIN backends : backends[b].bus = BusOf(registry, b) /\ backends[b].modes = modes

\* A backend that started has motors it can drive.
StartInv ==
  /\ pc = "start" => \A b \in DOMAIN backends : b < next => Startable(b)
  /\ initialized /\ pc \in {"idle", "publish"} => \A b \in DOMAIN backends : Startable(b)

SInv == ConfigInv /\ MadeInv /\ StartInv

\* Init and steps after which there is no session in the making.
LEMMA NoSession == (~Configured => SInv) /\ (~Configured' => SInv')
BY DEF SInv, ConfigInv, MadeInv, StartInv, Configured, Made

\* Steps that leave the tables and what the backends were made with.
LEMMA TablesStay ==
  ASSUME SInv, UNCHANGED <<doc, tables>>, DOMAIN backends' = DOMAIN backends,
         \A b \in DOMAIN backends : backends'[b].bus = backends[b].bus /\ backends'[b].modes = backends[b].modes,
         Configured' => Configured, Made' => Made
  PROVE  ConfigInv' /\ MadeInv'
BY DEF SInv, ConfigInv, MadeInv, tables

\* Which backends can start is a matter of the registry.
LEMMA StartableStays ==
  ASSUME UNCHANGED registry, NEW b
  PROVE  Startable(b)' <=> Startable(b)
BY DEF Startable, MotorsOf

\* init throws unless the tables fit the configuration it read.
LEMMA LoadSession == IInv /\ SInv /\ Load => SInv'
<1> SUFFICES ASSUME IInv, SInv, Load PROVE SInv'
  OBVIOUS
<1>1. pc = "load" /\ initialized = FALSE /\ initialized' = FALSE /\ doc' = doc
  BY DEF Load, IInv, PhaseInv, TypeOK
<1>2. pc' \in {"imu", "idle"}
  BY DEF Load, Throw, Goto
<1>3. pc' = "imu" => /\ LoadConfig(doc).ok /\ config' = LoadConfig(doc)
                     /\ registry' = FromConfig(LoadConfig(doc))
                     /\ TablesFit(LoadConfig(doc).total)
  BY DEF Load, Throw, Goto
<1>4. pc' = "imu" => ConfigInv'
  BY <1>1, <1>3 DEF ConfigInv, TablesFit
<1>5. pc' = "idle" => ~Configured'
  BY <1>1 DEF Configured
<1>6. pc' = "imu" => MadeInv' /\ StartInv'
  BY <1>1 DEF MadeInv, StartInv, Made
<1> QED BY <1>2, <1>4, <1>5, <1>6, NoSession DEF SInv

\* The IMU changes no table.
LEMMA StartImuSession == IInv /\ SInv /\ StartImu => SInv'
<1> SUFFICES ASSUME IInv, SInv, StartImu PROVE SInv'
  OBVIOUS
<1>1. /\ pc = "imu" /\ initialized = FALSE /\ initialized' = FALSE
      /\ UNCHANGED <<doc, tables, backends>> /\ pc' \in {"create", "stopping"}
  BY DEF StartImu, StopAll, Goto, IInv, PhaseInv, TypeOK
<1>2. ConfigInv' /\ MadeInv'
  BY <1>1, TablesStay DEF Configured, Made
<1>3. StartInv'
  BY <1>1 DEF StartInv
<1> QED BY <1>2, <1>3 DEF SInv

\* All backends are made from the registry, or init throws.
LEMMA CreateBackendsSession == IInv /\ SInv /\ CreateBackends => SInv'
<1> SUFFICES ASSUME IInv, SInv, CreateBackends PROVE SInv'
  OBVIOUS
<1> DEFINE TooBig(b) == \E i \in MotorsOf(registry, b) : registry[i].index >= MaxMotors
           made == {b \in 1 .. BackendCount(registry) : \A c \in 1 .. b : ~TooBig(c)}
           n == Cardinality(made)
<1>1. /\ pc = "create" /\ initialized = FALSE /\ initialized' = FALSE
      /\ UNCHANGED <<doc, tables>>
      /\ backends' = [b \in 1 .. n |-> Created(b)]
      /\ next' = 1 /\ pc' \in {"start", "idle"}
      /\ pc' = "start" => n = BackendCount(registry)
  BY DEF CreateBackends, Throw, Goto, IInv, PhaseInv, TypeOK
<1>2. CASE pc' = "idle"
  <2>1. ~Configured'
    BY <1>1, <1>2 DEF Configured
  <2> QED BY <2>1, NoSession
<1>3. CASE pc' = "start"
  <2>1. /\ LoadConfig(doc).ok /\ config = LoadConfig(doc) /\ registry = FromConfig(config)
        /\ Len(modes) = config.total /\ Len(currents) = config.total
    BY <1>1 DEF SInv, ConfigInv, Configured
  <2>2. doc \in Documents
    BY DEF IInv, TypeOK
  <2>3. \A i \in DOMAIN registry : /\ registry[i].index \in Int
                                   /\ registry[i].backend \in 1 .. BackendCount(registry)
    <3>1. \A i \in DOMAIN registry : /\ registry[i].index \in 0 .. config.total - 1
                                     /\ registry[i].backend \in 1 .. BackendCount(registry)
      BY <2>1, <2>2, RegistryOf
    <3> QED BY <3>1
  <2>4. BackendCount(registry) \in Nat
    <3>1. IsFiniteSet(DOMAIN registry)
      BY DEF IInv, ShapeInv
    <3> QED BY <3>1, Counts
  <2>5. made = 1 .. BackendCount(registry)
    <3>1. IsFiniteSet(1 .. BackendCount(registry)) /\ Cardinality(1 .. BackendCount(registry)) = BackendCount(registry)
      BY <2>4, FS_Interval
    <3>2. made \in SUBSET (1 .. BackendCount(registry))
      OBVIOUS
    <3>3. Cardinality(made) = BackendCount(registry)
      BY <1>1, <1>3
    <3> HIDE DEF made
    <3> QED BY <3>1, <3>2, <3>3, FS_Subset
  <2>6. \A i \in DOMAIN registry : registry[i].index < MaxMotors
    <3> SUFFICES ASSUME NEW i \in DOMAIN registry PROVE registry[i].index < MaxMotors
      OBVIOUS
    <3> DEFINE b == registry[i].backend
    <3>1. b \in 1 .. BackendCount(registry) /\ registry[i].index \in Int
      BY <2>3
    <3>2. i \in MotorsOf(registry, b)
      BY DEF MotorsOf
    <3>3. ~TooBig(b)
      <4> HIDE DEF TooBig, b
      <4>1. b \in made /\ b \in 1 .. b
        BY <2>5, <3>1
      <4> HIDE DEF n
      <4> QED BY <4>1
    <3>4. ~(registry[i].index >= MaxMotors)
      BY <3>2, <3>3
    <3> QED BY <3>1, <3>4, MaxMotorsAssumption
  <2> HIDE DEF n
  <2>7. DOMAIN backends' = 1 .. BackendCount(registry)
    BY <1>1, <1>3
  <2>8. \A b \in DOMAIN backends' : backends'[b].bus = BusOf(registry, b) /\ backends'[b].modes = modes
    BY <1>1 DEF Created
  <2>9. ConfigInv'
    BY <1>1, <2>1 DEF ConfigInv, tables
  <2>10. MadeInv'
    BY <1>1, <2>6, <2>7, <2>8 DEF MadeInv, tables
  <2>11. StartInv'
    <3>1. \A b \in DOMAIN backends' : ~(b < next')
      BY <1>1, <2>4, <2>7
    <3> QED BY <1>1, <1>3, <3>1 DEF StartInv
  <2> QED BY <2>9, <2>10, <2>11 DEF SInv
<1> QED BY <1>1, <1>2, <1>3

\* Steps that deal with one backend keep what it was made with.
LEMMA OneBackendSession ==
  ASSUME IInv, SInv, NEW k, NEW r, ReplacesOne(k, r), r.state \in {"created", "running", "stopped"},
         UNCHANGED <<pc, doc, tables, initialized>>,
         next' = next \/ (next' = next + 1 /\ (pc = "start" => Startable(next)))
  PROVE  SInv'
<1>1. /\ DOMAIN backends' = DOMAIN backends
      /\ \A j \in DOMAIN backends : Same(backends[j], backends'[j])
  BY Replaced DEF IInv, ShapeInv
<1>2. ConfigInv' /\ MadeInv'
  BY <1>1, TablesStay DEF Configured, Made, Same
<1>3. StartInv'
  <2>1. UNCHANGED registry
    BY DEF tables
  <2>2. \A b : Startable(b)' <=> Startable(b)
    BY <2>1, StartableStays
  <2>3. next \in Nat /\ DOMAIN backends \subseteq Nat
    BY Length DEF IInv, TypeOK, ShapeInv
  <2>4. \A b \in DOMAIN backends : b < next' => b < next \/ (b = next /\ next' = next + 1)
    BY <2>3
  <2>5. \A b \in DOMAIN backends : b < next' /\ pc = "start" => Startable(b)
    BY <2>4 DEF SInv, StartInv
  <2>6. initialized /\ pc \in {"idle", "publish"} => \A b \in DOMAIN backends : Startable(b)
    BY DEF SInv, StartInv
  <2> QED BY <1>1, <2>2, <2>5, <2>6 DEF StartInv
<1> QED BY <1>2, <1>3 DEF SInv

\* Starting and publishing, and what the threads do.
LEMMA BackendStepsSession == IInv /\ SInv /\ (StartBackend \/ PublishTo \/ Backend) => SInv'
<1> SUFFICES ASSUME IInv, SInv, StartBackend \/ PublishTo \/ Backend PROVE SInv'
  OBVIOUS
<1>1. IsBackends(backends) /\ Len(backends) \in Nat /\ DOMAIN backends = 1 .. Len(backends)
  BY Length DEF IInv, ShapeInv
<1>2. \A k \in DOMAIN backends : backends[k].state \in {"created", "running", "stopped"}
  BY <1>1 DEF IsBackends
<1>3. CASE StartBackend
  <2>1. next \in DOMAIN backends
    BY <1>1, <1>3 DEF StartBackend, IInv, TypeOK
  <2>2. PICK r : ReplacesOne(next, r) /\ r.state = "running"
    BY <1>1, <1>3, <2>1, StartBackendReplaces
  <2>3. /\ UNCHANGED <<pc, doc, tables, initialized>>
        /\ next' = next + 1 /\ Startable(next)
    BY <1>3 DEF StartBackend
  <2> QED BY <2>2, <2>3, OneBackendSession
<1>4. CASE PublishTo
  <2>1. next \in DOMAIN backends
    BY <1>1, <1>4 DEF PublishTo, IInv, TypeOK
  <2>2. PICK r : ReplacesOne(next, r) /\ r.state = backends[next].state
    BY <1>1, <1>4, <2>1, PublishToReplaces
  <2>3. UNCHANGED <<pc, doc, tables, initialized>> /\ next' = next + 1 /\ pc = "publish"
    BY <1>4 DEF PublishTo
  <2> QED BY <1>2, <2>1, <2>2, <2>3, OneBackendSession
<1>5. CASE Backend
  <2>1. PICK k \in DOMAIN backends : TakeTarget(k) \/ PublishActuals(k)
    BY <1>5 DEF Backend
  <2>2. PICK r : ReplacesOne(k, r) /\ r.state = backends[k].state
    BY <1>1, <2>1, BackendReplaces
  <2>3. UNCHANGED <<pc, next, doc, tables, initialized>>
    BY <2>1 DEF TakeTarget, PublishActuals
  <2> QED BY <1>2, <2>2, <2>3, OneBackendSession
<1> QED BY <1>3, <1>4, <1>5

\* init and setMotorTarget return to a session.
LEMMA ReturnsSession == IInv /\ SInv /\ (InitReturns \/ SetTargets \/ SetTargetsReturns) => SInv'
<1> SUFFICES ASSUME IInv, SInv, InitReturns \/ SetTargets \/ SetTargetsReturns PROVE SInv'
  OBVIOUS
<1>1. UNCHANGED <<doc, tables, backends>> /\ initialized' /\ pc' \in {"idle", "publish"}
      /\ Made /\ Configured
  BY DEF InitReturns, SetTargets, SetTargetsReturns, Goto, Made, Configured, IInv, PhaseInv
<1>2. ConfigInv' /\ MadeInv'
  BY <1>1, TablesStay
<1>3. \A b \in DOMAIN backends : Startable(b)
  <2>1. CASE InitReturns
    <3>1. DOMAIN backends = 1 .. Len(backends) /\ next \in Nat /\ Len(backends) \in Nat
      BY Length DEF IInv, ShapeInv, TypeOK
    <3>2. pc = "start" /\ \A b \in DOMAIN backends : b < next
      BY <2>1, <3>1 DEF InitReturns
    <3> QED BY <3>2 DEF SInv, StartInv
  <2>2. CASE SetTargets \/ SetTargetsReturns
    BY <2>2 DEF SInv, StartInv, SetTargets, SetTargetsReturns, IInv, PhaseInv
  <2> QED BY <2>1, <2>2
<1>4. StartInv'
  <2>1. UNCHANGED registry
    BY <1>1 DEF tables
  <2>2. \A b : Startable(b)' <=> Startable(b)
    BY <2>1, StartableStays
  <2> QED BY <1>1, <1>3, <2>2 DEF StartInv
<1> QED BY <1>2, <1>4 DEF SInv

\* The other steps: without a session, or away from one.
LEMMA OtherStepsSession ==
  SInv /\ (InitBegin \/ StopBackend \/ StopRest \/ StartFails \/ SetMode \/ SetMaxCurrents \/ SetCountBias) => SInv'
<1> SUFFICES ASSUME InitBegin \/ StopBackend \/ StopRest \/ StartFails \/ SetMode \/ SetMaxCurrents \/ SetCountBias
             PROVE  ~Configured'
  BY NoSession
<1> QED BY DEF InitBegin, StopBackend, StopRest, StartFails, SetMode, SetMaxCurrents, SetCountBias,
               StopAll, Throw, Goto, Configured

LEMMA SessionNext == IInv /\ SInv /\ [Next]_vars => SInv'
<1> SUFFICES ASSUME IInv, SInv, [Next]_vars PROVE SInv'
  OBVIOUS
<1>1. CASE UNCHANGED vars
  <2>1. UNCHANGED <<pc, next, doc, tables, initialized, backends>>
    BY <1>1 DEF vars
  <2>2. ConfigInv' /\ MadeInv'
    BY <2>1, TablesStay DEF Configured, Made
  <2>3. \A b : Startable(b)' <=> Startable(b)
    BY <2>1, StartableStays DEF tables
  <2>4. StartInv'
    BY <2>1, <2>3 DEF StartInv, SInv
  <2> QED BY <2>2, <2>4 DEF SInv
<1> QED BY <1>1, LoadSession, StartImuSession, CreateBackendsSession, BackendStepsSession,
           ReturnsSession, OtherStepsSession DEF Next, Application

THEOREM SessionInvariance == Spec => []SInv
<1>1. Init => SInv
  <2>1. Init => ~Configured
    BY DEF Init, Configured
  <2> QED BY <2>1, NoSession
<1> QED BY <1>1, Invariance, SessionNext, PTL DEF Spec

\* The process data of a drive that can be started has the layout of its mode.
LEMMA BindingOf ==
  ASSUME NEW m, NEW table, m.type = "MT_Device"
  PROVE  LET profile == RxProfileForMode(table[m.index + 1]) IN
         Binding(m, table).rx = profile /\ Binding(m, table).size > 0
<1> DEFINE profile == RxProfileForMode(table[m.index + 1])
<1>1. Binding(m, table) = [position |-> SlavePosition(m), rx |-> profile, size |-> RxPdoSize(profile)]
  BY DEF Binding
<1>2. RxPdoSize(profile) \in {16, 22}
  BY DEF RxPdoSize
<1> HIDE DEF profile
<1> QED BY <1>1, <1>2 DEF profile

\* Each motor of the registry is counted once at most.
LEMMA ActualsOf ==
  ASSUME NEW n \in Nat, DOMAIN registry = 1 .. n
  PROVE  -GetActuals \in 0 .. n
<1> DEFINE Missing(b, i) == \/ registry[i].index \notin backends[b].valid
                            \/ registry[i].index \in backends[b].stale
           P == {r \in (DOMAIN backends) \X (DOMAIN registry) :
                   r[2] \in MotorsOf(registry, r[1]) /\ Missing(r[1], r[2])}
           f == [r \in P |-> r[2]]
<1>1. GetActuals = -Cardinality(P)
  BY DEF GetActuals
<1>2. \A r \in P : /\ r = <<r[1], r[2]>> /\ r[2] \in 1 .. n
                   /\ registry[r[2]].backend = r[1]
  BY DEF MotorsOf
<1>3. IsFiniteSet(1 .. n) /\ Cardinality(1 .. n) = n
  BY FS_Interval
<1> HIDE DEF P
<1>4. f \in [P -> 1 .. n] /\ \A r \in P : f[r] = r[2]
  BY <1>2
<1> HIDE DEF f
<1>5. \A q, r \in P : f[q] = f[r] => q = r
  BY <1>2, <1>4
<1>6. f \in Injection(P, 1 .. n)
  BY <1>4, <1>5 DEF Injection, IsInjective
<1>7. IsFiniteSet(P) /\ Cardinality(P) <= n
  BY <1>3, <1>6, FS_Injection
<1>8. Cardinality(P) \in Nat
  BY <1>7, FS_CardinalityType
<1> QED BY <1>1, <1>7, <1>8

\* Whatever configurations and tables came before, a session can look up every
\* motor: tables, frames, backends and process data fit the configuration.
THEOREM SessionTablesFit == Spec => []SessionConsistent
<1>1. ASSUME IInv, SInv, initialized, pc \in {"idle", "publish"}
      PROVE  /\ Len(modes) = config.total /\ Len(currents) = config.total
             /\ \A i, j \in DOMAIN registry :
                  registry[i].index = registry[j].index => i = j
             /\ \A i \in DOMAIN registry :
                  /\ registry[i].index \in 0 .. Min({config.total, MaxMotors}) - 1
                  /\ registry[i].backend \in DOMAIN backends
                  /\ backends[registry[i].backend].bus = registry[i].bus
                  /\ registry[i].parameters = ParameterMap(doc)[registry[i].alias]
             /\ \A i \in DOMAIN registry : registry[i].bus = "ecat" =>
                  LET binding == Binding(registry[i], backends[registry[i].backend].modes) IN
                  /\ binding.rx = RxProfileForMode(modes[registry[i].index + 1])
                  /\ binding.size > 0
             /\ -GetActuals \in 0 .. Len(registry)
  <2>1. /\ LoadConfig(doc).ok /\ config = LoadConfig(doc) /\ registry = FromConfig(config)
        /\ Len(modes) = config.total /\ Len(currents) = config.total
    BY <1>1 DEF SInv, ConfigInv, Configured
  <2>2. doc \in Documents
    BY <1>1 DEF IInv, TypeOK
  <2>3. /\ config.total \in Nat
        /\ \E n \in Nat : DOMAIN registry = 1 .. n
        /\ registry = [i \in DOMAIN registry |-> registry[i]]
        /\ \A i \in DOMAIN registry :
             /\ registry[i].index \in 0 .. config.total - 1
             /\ registry[i].parameters = ParameterMap(doc)[registry[i].alias]
             /\ registry[i].backend \in 1 .. BackendCount(registry)
        /\ \A i, j \in DOMAIN registry : registry[i].index = registry[j].index => i = j
        /\ \A i, j \in DOMAIN registry : registry[i].backend = registry[j].backend => registry[i].bus = registry[j].bus
    BY <2>1, <2>2, RegistryOf
  <2>4. /\ DOMAIN backends = 1 .. BackendCount(registry)
        /\ \A i \in DOMAIN registry : registry[i].index < MaxMotors
        /\ \A b \in DOMAIN backends : backends[b].bus = BusOf(registry, b) /\ backends[b].modes = modes
    BY <1>1 DEF SInv, MadeInv, Made
  <2>5. \A b \in DOMAIN backends : Startable(b)
    BY <1>1 DEF SInv, StartInv
  <2>6. ASSUME NEW i \in DOMAIN registry
        PROVE  /\ registry[i].index \in 0 .. Min({config.total, MaxMotors}) - 1
               /\ registry[i].backend \in DOMAIN backends
               /\ backends[registry[i].backend].bus = registry[i].bus
               /\ registry[i].bus = "ecat" =>
                    LET binding == Binding(registry[i], backends[registry[i].backend].modes) IN
                    /\ binding.rx = RxProfileForMode(modes[registry[i].index + 1])
                    /\ binding.size > 0
    <3> DEFINE b == registry[i].backend
    <3>1. b \in DOMAIN backends
      BY <2>3, <2>4
    <3>2. i \in MotorsOf(registry, b)
      BY DEF MotorsOf
    <3>3. registry[i].index \in 0 .. Min({config.total, MaxMotors}) - 1
      <4>1. Min({config.total, MaxMotors}) \in {config.total, MaxMotors}
        <5>1. \E x \in {config.total, MaxMotors} : \A y \in {config.total, MaxMotors} : x <= y
          BY <2>3, MaxMotorsAssumption
        <5> QED BY <5>1 DEF Min
      <4> QED BY <2>3, <2>4, <4>1, MaxMotorsAssumption
    <3>4. backends[b].bus = registry[i].bus
      <4> DEFINE j == CHOOSE k \in MotorsOf(registry, b) : TRUE
      <4>1. j \in MotorsOf(registry, b)
        BY <3>2
      <4>2. BusOf(registry, b) = registry[j].bus
        BY DEF BusOf
      <4> HIDE DEF j
      <4>3. j \in DOMAIN registry /\ registry[j].backend = b
        BY <4>1 DEF MotorsOf
      <4> QED BY <2>3, <2>4, <3>1, <4>2, <4>3
    <3>5. ASSUME registry[i].bus = "ecat"
          PROVE  LET binding == Binding(registry[i], backends[b].modes) IN
                 /\ binding.rx = RxProfileForMode(modes[registry[i].index + 1])
                 /\ binding.size > 0
      <4>1. registry[i].type = "MT_Device"
        BY <2>5, <3>1, <3>2, <3>5 DEF Startable
      <4>2. backends[b].modes = modes
        BY <2>4, <3>1
      <4> QED BY <4>1, <4>2, BindingOf
    <3> QED BY <3>1, <3>3, <3>4, <3>5
  <2>7. -GetActuals \in 0 .. Len(registry)
    <3>1. PICK n \in Nat : DOMAIN registry = 1 .. n
      BY <2>3
    <3>2. Len(registry) = n
      BY <2>3, <3>1, LengthOf
    <3> QED BY <3>1, <3>2, ActualsOf
  <2> QED BY <2>1, <2>3, <2>6, <2>7
<1>2. IInv /\ SInv => SessionConsistent
  BY <1>1 DEF SessionConsistent
<1> QED BY <1>2, Invariance, SessionInvariance, PTL

-----------------------------------------------------------------------------
(* What a drive is sent *)

\* A frame that was made of an application's requests with the tables of the
\* session.
IsCommand(f) ==
  \E data \in [1 .. config.total -> Requests] :
    f.asked = data /\ f.can = ConvertCan(data) /\ f.ecat = ConvertEcat(data)

\* The frame handed round in a session is one, and so are those the backends
\* hold, if they hold any.
CommandInv ==
  /\ currents \in Seq(Nat)
  /\ initialized /\ pc \in {"idle", "publish"} =>
       /\ pc = "publish" => IsCommand(frame)
       /\ \A b \in DOMAIN backends :
            backends[b].target.sequence > 0 => IsCommand(backends[b].target)

\* What makes a frame a command is a matter of the tables.
LEMMA CommandStays ==
  ASSUME UNCHANGED tables, NEW f
  PROVE  IsCommand(f)' <=> IsCommand(f)
BY DEF IsCommand, ConvertCan, ConvertEcat, tables

\* A table that is filled up holds currents.
LEMMA LoadCurrents == IInv /\ Load /\ currents \in Seq(Nat) => currents' \in Seq(Nat)
<1> SUFFICES ASSUME IInv, Load, currents \in Seq(Nat) PROVE currents' \in Seq(Nat)
  OBVIOUS
<1> DEFINE loaded == LoadConfig(doc)
<1>1. \/ currents' = currents
      \/ loaded.ok /\ currents' = EnsureTable(currents, 1000, loaded.total)
  BY DEF Load, tables
<1>2. loaded.ok => loaded.total \in Nat
  BY RegistryOf DEF IInv, TypeOK
<1> HIDE DEF loaded
<1>3. loaded.ok => EnsureTable(currents, 1000, loaded.total) \in Seq(Nat)
  <2> SUFFICES ASSUME loaded.total \in Nat PROVE EnsureTable(currents, 1000, loaded.total) \in Seq(Nat)
    BY <1>2
  <2>1. [i \in 1 .. loaded.total |-> 1000] \in Seq(Nat)
    OBVIOUS
  <2> QED BY <2>1 DEF EnsureTable
<1> QED BY <1>1, <1>3

\* Steps that publish nothing, outside a session.
LEMMA QuietCommand ==
  IInv /\ CommandInv /\
  (InitBegin \/ StopBackend \/ StopRest \/ Load \/ StartImu \/ CreateBackends
   \/ StartBackend \/ StartFails \/ SetMode \/ SetMaxCurrents \/ SetCountBias) => CommandInv'
<1> SUFFICES ASSUME IInv, CommandInv,
                    InitBegin \/ StopBackend \/ StopRest \/ Load \/ StartImu \/ CreateBackends
                    \/ StartBackend \/ StartFails \/ SetMode \/ SetMaxCurrents \/ SetCountBias
             PROVE  CommandInv'
  OBVIOUS
<1>1. ~(initialized' /\ pc' \in {"idle", "publish"})
  <2>1. CASE InitBegin \/ StopBackend \/ StopRest \/ StartFails
    BY <2>1 DEF InitBegin, StopBackend, StopRest, StartFails, StopAll, Throw, Goto
  <2>2. CASE SetMode \/ SetMaxCurrents \/ SetCountBias
    BY <2>2 DEF SetMode, SetMaxCurrents, SetCountBias
  <2>3. CASE Load \/ StartImu \/ CreateBackends \/ StartBackend
    <3>1. ~initialized
      BY <2>3 DEF Load, StartImu, CreateBackends, StartBackend, IInv, PhaseInv
    <3>2. initialized' = initialized
      BY <2>3 DEF Load, StartImu, CreateBackends, StartBackend
    <3> QED BY <3>1, <3>2
  <2> QED BY <2>1, <2>2, <2>3
<1>2. currents' \in Seq(Nat)
  <2>1. CASE Load
    BY <2>1, LoadCurrents DEF CommandInv
  <2>2. CASE SetMaxCurrents
    BY <2>2, CurrentTablesAssumption DEF SetMaxCurrents
  <2>3. CASE \/ InitBegin \/ StopBackend \/ StopRest \/ StartImu \/ CreateBackends
             \/ StartBackend \/ StartFails \/ SetMode \/ SetCountBias
    <3>1. currents' = currents
      BY <2>3 DEF InitBegin, StopBackend, StopRest, StartImu, CreateBackends, StartBackend,
                  StartFails, SetMode, SetCountBias, tables
    <3> QED BY <3>1 DEF CommandInv
  <2> QED BY <2>1, <2>2, <2>3
<1> QED BY <1>1, <1>2 DEF CommandInv

\* A session begins without a frame, and setMotorTarget makes one.
LEMMA SetTargetsCommand == IInv /\ CommandInv /\ (InitReturns \/ SetTargets \/ SetTargetsReturns) => CommandInv'
<1> SUFFICES ASSUME IInv, CommandInv, InitReturns \/ SetTargets \/ SetTargetsReturns PROVE CommandInv'
  OBVIOUS
<1>1. UNCHANGED <<tables, backends>> /\ currents' = currents
  BY DEF InitReturns, SetTargets, SetTargetsReturns, tables
<1>2. \A f : IsCommand(f)' <=> IsCommand(f)
  BY <1>1, CommandStays
<1>3. \A b \in DOMAIN backends : backends[b].target.sequence > 0 => IsCommand(backends[b].target)
  <2>1. CASE InitReturns
    <3>1. \A b \in DOMAIN backends : b >= 1
      BY Length DEF IInv, ShapeInv
    <3>2. \A b \in DOMAIN backends : backends[b].target.sequence = 0
      BY <2>1, <3>1 DEF InitReturns, IInv, TargetInv, Hold
    <3> QED BY <3>2
  <2>2. CASE SetTargets \/ SetTargetsReturns
    BY <2>2 DEF CommandInv, SetTargets, SetTargetsReturns, IInv, PhaseInv
  <2> QED BY <2>1, <2>2
<1>4. pc' = "publish" => IsCommand(frame')
  <2>1. CASE SetTargets
    BY <2>1 DEF SetTargets, IsCommand
  <2>2. CASE InitReturns \/ SetTargetsReturns
    BY <2>2 DEF InitReturns, SetTargetsReturns, Goto
  <2> QED BY <2>1, <2>2
<1>5. pc' = "publish" => IsCommand(frame)'
  <2>1. IsCommand(frame)' <=> IsCommand(frame')
    BY <1>1 DEF IsCommand, ConvertCan, ConvertEcat, tables
  <2> QED BY <1>4, <2>1
<1>6. \A b \in DOMAIN backends' : (backends[b].target.sequence > 0 => IsCommand(backends[b].target))'
  <2> SUFFICES ASSUME NEW b \in DOMAIN backends', backends'[b].target.sequence > 0
               PROVE  IsCommand(backends[b].target)'
    OBVIOUS
  <2>1. IsCommand(backends[b].target)' <=> IsCommand(backends[b].target)
    BY <1>1 DEF IsCommand, ConvertCan, ConvertEcat, tables
  <2> QED BY <1>1, <1>3, <2>1
<1> QED BY <1>1, <1>5, <1>6 DEF CommandInv

\* A step of one backend that leaves it its frame, or hands it the one being
\* published.
LEMMA OneBackendCommand ==
  ASSUME IInv, CommandInv, NEW k, NEW r, ReplacesOne(k, r),
         r.state \in {"created", "running", "stopped"},
         r.target = backends[k].target \/ (pc = "publish" /\ r.target = frame),
         UNCHANGED <<pc, tables, initialized, frame>>
  PROVE  CommandInv'
<1>1. /\ k \in DOMAIN backends /\ DOMAIN backends' = DOMAIN backends /\ backends'[k] = r
      /\ \A j \in DOMAIN backends : j # k => backends'[j] = backends[j]
  BY Replaced DEF IInv, ShapeInv, ReplacesOne
<1>2. currents' \in Seq(Nat)
  BY DEF CommandInv, tables
<1>3. SUFFICES ASSUME initialized, pc \in {"idle", "publish"}
               PROVE  /\ (pc = "publish" => IsCommand(frame))'
                      /\ \A b \in DOMAIN backends' :
                           (backends[b].target.sequence > 0 => IsCommand(backends[b].target))'
  BY <1>2 DEF CommandInv
<1>4. pc = "publish" => IsCommand(frame)
  BY <1>3 DEF CommandInv
<1>5. (pc = "publish" => IsCommand(frame))'
  <2>1. IsCommand(frame)' <=> IsCommand(frame)
    BY DEF IsCommand, ConvertCan, ConvertEcat, tables
  <2> QED BY <1>4, <2>1
<1>6. ASSUME NEW b \in DOMAIN backends', backends'[b].target.sequence > 0
      PROVE  IsCommand(backends[b].target)'
  <2>1. IsCommand(backends'[b].target)
    <3>1. CASE backends'[b].target = backends[b].target
      BY <1>1, <1>3, <1>6, <3>1 DEF CommandInv
    <3>2. CASE pc = "publish" /\ backends'[b].target = frame
      BY <1>4, <3>2
    <3>3. \/ backends'[b].target = backends[b].target
          \/ pc = "publish" /\ backends'[b].target = frame
      BY <1>1, <1>6
    <3> QED BY <3>1, <3>2, <3>3
  <2>2. IsCommand(backends[b].target)' <=> IsCommand(backends'[b].target)
    BY DEF IsCommand, ConvertCan, ConvertEcat, tables
  <2> QED BY <2>1, <2>2
<1> QED BY <1>5, <1>6

\* setMotorTarget's loop and the threads of the backends.
LEMMA BackendCommand == IInv /\ CommandInv /\ (PublishTo \/ Backend) => CommandInv'
<1> SUFFICES ASSUME IInv, CommandInv, PublishTo \/ Backend PROVE CommandInv'
  OBVIOUS
<1>1. IsBackends(backends) /\ Len(backends) \in Nat /\ DOMAIN backends = 1 .. Len(backends)
  BY Length DEF IInv, ShapeInv
<1>2. \A k \in DOMAIN backends : backends[k].state \in {"created", "running", "stopped"}
  BY <1>1 DEF IsBackends
<1>3. CASE PublishTo
  <2>1. next \in DOMAIN backends
    BY <1>1, <1>3 DEF PublishTo, IInv, TypeOK
  <2>2. PICK r : ReplacesOne(next, r) /\ r.state = backends[next].state /\ r.target = frame
    BY <1>1, <1>3, <2>1, PublishToReplaces
  <2>3. UNCHANGED <<pc, tables, initialized, frame>> /\ pc = "publish"
    BY <1>3 DEF PublishTo
  <2> QED BY <1>2, <2>1, <2>2, <2>3, OneBackendCommand
<1>4. CASE Backend
  <2>1. PICK k \in DOMAIN backends : TakeTarget(k) \/ PublishActuals(k)
    BY <1>4 DEF Backend
  <2>2. PICK r : /\ ReplacesOne(k, r)
                 /\ r.state = backends[k].state /\ r.target = backends[k].target
    BY <1>1, <2>1, BackendReplaces
  <2>3. UNCHANGED <<pc, tables, initialized, frame>>
    BY <2>1 DEF TakeTarget, PublishActuals
  <2> QED BY <1>2, <2>2, <2>3, OneBackendCommand
<1> QED BY <1>3, <1>4

LEMMA CommandNext == IInv /\ CommandInv /\ [Next]_vars => CommandInv'
<1> SUFFICES ASSUME IInv, CommandInv, [Next]_vars PROVE CommandInv'
  OBVIOUS
<1>1. CASE UNCHANGED vars
  <2>1. UNCHANGED <<pc, tables, initialized, frame, backends>> /\ currents' = currents
    BY <1>1 DEF vars, tables
  <2>2. IsCommand(frame)' <=> IsCommand(frame)
    BY <2>1 DEF IsCommand, ConvertCan, ConvertEcat, tables
  <2>3. ASSUME NEW b \in DOMAIN backends
        PROVE  IsCommand(backends[b].target)' <=> IsCommand(backends[b].target)
    BY <2>1 DEF IsCommand, ConvertCan, ConvertEcat, tables
  <2> QED BY <2>1, <2>2, <2>3 DEF CommandInv
<1> QED BY <1>1, QuietCommand, SetTargetsCommand, BackendCommand DEF Next, Application

THEOREM CommandInvariance == Spec => []CommandInv
<1>1. Init => CommandInv
  <2>1. <<>> \in Seq(Nat)
    OBVIOUS
  <2> QED BY <2>1 DEF Init, CommandInv
<1> QED BY <1>1, Invariance, CommandNext, PTL DEF Spec

\* The parameters of an alias are those of one of its entries.
LEMMA NumbersMap ==
  ASSUME NEW d, IsDocument(d), \A k \in DOMAIN d.motors : IsParameters(d.motors[k].parameters),
         NEW a \in DOMAIN ParameterMap(d)
  PROVE  IsParameters(ParameterMap(d)[a])
<1> DEFINE Last(i) == d.motors[i].alias = a /\ \A j \in DOMAIN d.motors : d.motors[j].alias = a => j <= i
           S == {i \in DOMAIN d.motors : d.motors[i].alias = a}
           k == CHOOSE i \in DOMAIN d.motors : Last(i)
<1>1. ParameterMap(d)[a] = d.motors[k].parameters /\ \E i \in DOMAIN d.motors : d.motors[i].alias = a
  BY DEF ParameterMap
<1>2. PICK n \in Nat : DOMAIN d.motors = 1 .. n
  BY LenProperties DEF IsDocument, IsSection
<1>3. \E i \in DOMAIN d.motors : Last(i)
  <2>1. S \in SUBSET (1 .. n) /\ S # {} /\ S \subseteq Int
    BY <1>1, <1>2
  <2>2. IsFiniteSet(S)
    <3> HIDE DEF S
    <3>1. IsFiniteSet(1 .. n)
      BY FS_Interval
    <3> QED BY <2>1, <3>1, FS_Subset
  <2>3. Max(S) \in S /\ \A i \in S : i <= Max(S)
    <3> HIDE DEF S
    <3> QED BY <2>1, <2>2, MaxOf
  <2> QED BY <2>3
<1>4. k \in DOMAIN d.motors
  <2> HIDE DEF Last
  <2> QED BY <1>3
<1> QED BY <1>1, <1>4

\* The frames of a motor of the session were made from a request for it with
\* its own parameters.
LEMMA MotorCommand ==
  ASSUME IInv, SInv, CommandInv, initialized, pc # "stopping",
         NEW b \in DOMAIN backends, backends[b].target.sequence > 0,
         NEW i \in MotorsOf(registry, b)
  PROVE  LET m == registry[i]
             x == m.index
             p == m.parameters
             f == backends[b].target IN
         /\ IsParameters(p)
         /\ f.asked[x + 1] \in Requests
         /\ currents[x + 1] \in Nat
         /\ m.bus = backends[b].bus
         /\ m.bus = "can" => f.can[x] = LimitTarget(ToCanTarget(f.asked[x + 1], p), p)
         /\ m.bus = "ecat" =>
              f.ecat[x] = PackForRealtime(ToEthercatTarget(f.asked[x + 1], p, modes[x + 1], currents[x + 1]),
                                          p, RxProfileForMode(modes[x + 1]))
<1> DEFINE m == registry[i]
           x == m.index
           p == m.parameters
           f == backends[b].target
<1>1. pc \in {"idle", "publish"}
  BY DEF IInv, PhaseInv
<1>2. /\ LoadConfig(doc).ok /\ config = LoadConfig(doc) /\ registry = FromConfig(config)
      /\ Len(currents) = config.total
  BY <1>1 DEF SInv, ConfigInv, Configured
<1>3. /\ doc \in Documents /\ IsDocument(doc)
      /\ \A k \in DOMAIN doc.motors : IsParameters(doc.motors[k].parameters)
  BY DocumentsAssumption DEF IInv, TypeOK
<1>4. /\ config.total \in Nat
      /\ \A j \in DOMAIN registry :
           /\ registry[j].index \in 0 .. config.total - 1
           /\ registry[j].alias \in DOMAIN ParameterMap(doc)
           /\ registry[j].parameters = ParameterMap(doc)[registry[j].alias]
      /\ \A j, k \in DOMAIN registry : registry[j].index = registry[k].index => j = k
      /\ \A j, k \in DOMAIN registry : registry[j].backend = registry[k].backend => registry[j].bus = registry[k].bus
  BY <1>2, <1>3, RegistryOf
<1>5. i \in DOMAIN registry /\ m.backend = b
  BY DEF MotorsOf
<1>6. IsParameters(p)
  <2>1. m.alias \in DOMAIN ParameterMap(doc) /\ p = ParameterMap(doc)[m.alias]
    BY <1>4, <1>5
  <2> HIDE DEF m, p
  <2> QED BY <1>3, <2>1, NumbersMap
<1>7. PICK data \in [1 .. config.total -> Requests] :
        f.asked = data /\ f.can = ConvertCan(data) /\ f.ecat = ConvertEcat(data)
  BY <1>1 DEF CommandInv, IsCommand
<1>8. x \in Int /\ x + 1 \in 1 .. config.total
  BY <1>4, <1>5
<1>9. data[x + 1] \in Requests /\ f.asked[x + 1] = data[x + 1]
  BY <1>7, <1>8
<1>10. currents[x + 1] \in Nat
  BY <1>2, <1>8, ElementOfSeq DEF CommandInv
<1>11. m.bus = backends[b].bus
  <2> DEFINE j == CHOOSE k \in MotorsOf(registry, b) : TRUE
  <2>1. j \in MotorsOf(registry, b)
    OBVIOUS
  <2>2. backends[b].bus = registry[j].bus
    BY <1>1 DEF SInv, MadeInv, Made, BusOf
  <2> HIDE DEF j
  <2> QED BY <1>4, <1>5, <2>1, <2>2 DEF MotorsOf
<1>12. (CHOOSE k \in DOMAIN registry : registry[k].index = x) = i
  <2> DEFINE k == CHOOSE j \in DOMAIN registry : registry[j].index = x
  <2>1. k \in DOMAIN registry /\ registry[k].index = x
    BY <1>5
  <2> HIDE DEF k
  <2>2. k = i
    BY <1>4, <1>5, <2>1
  <2> QED BY <2>2 DEF k
<1>13. m.bus = "can" => ConvertCan(data)[x] = LimitTarget(ToCanTarget(data[x + 1], p), p)
  BY <1>5, <1>12 DEF ConvertCan
<1>14. m.bus = "ecat" =>
         ConvertEcat(data)[x] =
           PackForRealtime(ToEthercatTarget(data[x + 1], p, modes[x + 1], currents[x + 1]),
                           p, RxProfileForMode(modes[x + 1]))
  BY <1>5, <1>12 DEF ConvertEcat
<1> QED BY <1>6, <1>7, <1>9, <1>10, <1>11, <1>13, <1>14

\* The process data of one motor, in joint coordinates.
LEMMA PackedCommand ==
  ASSUME NEW p, IsParameters(p), NEW q \in Requests, NEW mode, NEW current \in Nat, NEW profile
  PROVE  LET bytes == PackForRealtime(ToEthercatTarget(q, p, mode, current), p, profile).bytes IN
         /\ ReadsBack(p) => CountsToRad(bytes.pos, p) = ClampPosition(q.pos, p)
         /\ bytes.mode = 10 => Abs(bytes.tor) <= current
         /\ KeepsDirection(p, bytes.mode, current) => bytes.tor * p.polarity * q.tor >= 0
<1> DEFINE t == ToEthercatTarget(q, p, mode, current)
           bytes == PackForRealtime(t, p, profile).bytes
<1>1. q.pos \in Int /\ q.tor \in Int
  BY RequestsAssumption
<1>2. /\ t.pos = ClampPosition(q.pos, p) /\ t.tor = ClampTorque(q.tor, p)
      /\ t.mode = mode /\ t.maxCurrent = current
  BY DEF ToEthercatTarget
<1> HIDE DEF t
<1>3. /\ bytes.pos = RadToCounts(ClampPosition(t.pos, p), p)
      /\ bytes.tor = PackedTorque(t, p) /\ bytes.mode = t.mode
  BY DEF PackForRealtime, PackStandard, PackPvt, Packed
<1> HIDE DEF bytes
<1>4. ASSUME ReadsBack(p) PROVE CountsToRad(bytes.pos, p) = ClampPosition(q.pos, p)
  <2>1. /\ ClampPosition(q.pos, p) \in Int
        /\ ClampPosition(ClampPosition(q.pos, p), p) = ClampPosition(q.pos, p)
    BY <1>1, <1>4 DEF ClampPosition, Clamp, IsParameters, ReadsBack
  <2> QED BY <1>2, <1>3, <1>4, <2>1, PositionReadBack
<1>5. t.tor \in Int
  BY <1>1, <1>2, TorqueClamps
<1>6. t.mode = 10 => Abs(PackedTorque(t, p)) <= current
  BY <1>2, <1>5, TorqueBounded
<1>7. KeepsDirection(p, t.mode, current) => PackedTorque(t, p) * p.polarity * q.tor >= 0
  BY <1>1, <1>2, TorqueDirected
<1> QED BY <1>3, <1>4, <1>6, <1>7 DEF bytes, t

\* The target of one CAN motor is made of integers, its torque within limits.
LEMMA CanCommand ==
  ASSUME NEW p, IsParameters(p), NEW q \in Requests
  PROVE  LET t == LimitTarget(ToCanTarget(q, p), p) IN
         /\ t.pos \in Int /\ t.vel \in Int /\ t.tor \in Int
         /\ p.maximumTorque >= 0 => -p.maximumTorque <= t.tor /\ t.tor <= p.maximumTorque
<1> DEFINE c == ToCanTarget(q, p)
           t == LimitTarget(c, p)
<1>1. /\ q = [pos |-> q.pos, vel |-> q.vel, tor |-> q.tor, kp |-> q.kp, kd |-> q.kd, enabled |-> q.enabled]
      /\ q.pos \in Int /\ q.vel \in Int /\ q.tor \in Int
  BY RequestsAssumption
<1>2. /\ c.pos = p.polarity * ClampPosition(q.pos, p) + p.countBias
      /\ c.vel = p.polarity * q.vel /\ c.tor = p.polarity * ClampTorque(q.tor, p)
      /\ c = [pos |-> c.pos, vel |-> c.vel, tor |-> c.tor, kp |-> c.kp, kd |-> c.kd, enabled |-> c.enabled]
  <2> DEFINE pos == p.polarity * ClampPosition(q.pos, p) + p.countBias
             vel == p.polarity * q.vel
             tor == p.polarity * ClampTorque(q.tor, p)
  <2>1. c = [q EXCEPT !.pos = pos, !.vel = vel, !.tor = tor]
    BY DEF ToCanTarget
  <2> HIDE DEF pos, vel, tor, c
  <2>2. /\ c.pos = pos /\ c.vel = vel /\ c.tor = tor
        /\ c = [pos |-> c.pos, vel |-> c.vel, tor |-> c.tor, kp |-> c.kp, kd |-> c.kd, enabled |-> c.enabled]
    BY <1>1, <2>1
  <2> QED BY <2>2 DEF pos, vel, tor
<1> HIDE DEF c
<1>3. t.pos = ClampPosition(c.pos, p) /\ t.vel = c.vel /\ t.tor = ClampTorque(c.tor, p)
  BY <1>2 DEF LimitTarget
<1> HIDE DEF t
<1>4. ClampPosition(q.pos, p) \in Int /\ ClampTorque(q.tor, p) \in Int
  BY <1>1 DEF ClampPosition, ClampTorque, Clamp, IsParameters
<1>5. c.pos \in Int /\ c.vel \in Int /\ c.tor \in Int
  BY <1>1, <1>2, <1>4 DEF IsParameters
<1>6. t.pos \in Int /\ t.vel \in Int /\ t.tor \in Int
  BY <1>3, <1>5 DEF ClampPosition, ClampTorque, Clamp, IsParameters
<1>7. p.maximumTorque >= 0 => -p.maximumTorque <= t.tor /\ t.tor <= p.maximumTorque
  BY <1>3, <1>5, TorqueClamps
<1> QED BY <1>6, <1>7 DEF t, c

\* In every session, for any file the loader accepts and whatever init and the
\* setters were called with before: what an EtherCAT drive is sent means the
\* position that was asked for, limited; in mode 10 its torque is within the
\* current, and points the requested way if that fits its field, in the other
\* modes if the largest torque of the motor does; an MIT frame carries its
\* target to within the resolution of its fields.
THEOREM CommandsMeanRequests == Spec => []CommandsFaithful
<1>1. ASSUME IInv, SInv, CommandInv
      PROVE  EcatCommandWithinLimits
  <2>1. ASSUME NEW b \in DOMAIN backends, HasTarget(b), backends[b].bus = "ecat",
               NEW i \in MotorsOf(registry, b)
        PROVE  LET m == registry[i]
                   p == m.parameters
                   bytes == backends[b].target.ecat[m.index].bytes
                   asked == backends[b].target.asked[m.index + 1]
                   current == currents[m.index + 1]
               IN /\ ReadsBack(p) => JointPosition(m, b) = ClampPosition(asked.pos, p)
                  /\ bytes.mode = 10 => Abs(bytes.tor) <= current
                  /\ KeepsDirection(p, bytes.mode, current) => bytes.tor * p.polarity * asked.tor >= 0
    <3> DEFINE m == registry[i]
               x == m.index
               p == m.parameters
               f == backends[b].target
    <3>1. /\ IsParameters(p) /\ f.asked[x + 1] \in Requests /\ currents[x + 1] \in Nat
          /\ m.bus = "ecat"
          /\ f.ecat[x] = PackForRealtime(ToEthercatTarget(f.asked[x + 1], p, modes[x + 1], currents[x + 1]),
                                         p, RxProfileForMode(modes[x + 1]))
      BY <1>1, <2>1, MotorCommand DEF HasTarget
    <3>2. JointPosition(m, b) = CountsToRad(f.ecat[x].bytes.pos, p)
      BY <3>1 DEF JointPosition
    <3> HIDE DEF m, x, p, f
    <3>3. LET bytes == f.ecat[x].bytes IN
          /\ ReadsBack(p) => CountsToRad(bytes.pos, p) = ClampPosition(f.asked[x + 1].pos, p)
          /\ bytes.mode = 10 => Abs(bytes.tor) <= currents[x + 1]
          /\ KeepsDirection(p, bytes.mode, currents[x + 1]) =>
               bytes.tor * p.polarity * f.asked[x + 1].tor >= 0
      BY <3>1, PackedCommand
    <3> QED BY <3>2, <3>3 DEF m, x, p, f
  <2> QED BY <2>1 DEF EcatCommandWithinLimits, WithinLimits
<1>2. ASSUME IInv, SInv, CommandInv
      PROVE  MitFieldsFaithful
  <2> SUFFICES ASSUME NEW b \in DOMAIN backends, HasTarget(b), backends[b].bus = "can",
                      NEW i \in MotorsOf(registry, b)
               PROVE  MitCarried(backends[b].target.can[registry[i].index], registry[i].parameters)
    BY DEF MitFieldsFaithful
  <2> DEFINE x == registry[i].index
             p == registry[i].parameters
             f == backends[b].target
             t == f.can[x]
  <2>1. /\ IsParameters(p) /\ f.asked[x + 1] \in Requests
        /\ t = LimitTarget(ToCanTarget(f.asked[x + 1], p), p)
    BY <1>2, MotorCommand DEF HasTarget
  <2> HIDE DEF x, p, f, t
  <2>2. /\ t.pos \in Int /\ t.vel \in Int /\ t.tor \in Int
        /\ p.maximumTorque >= 0 => -p.maximumTorque <= t.tor /\ t.tor <= p.maximumTorque
    BY <2>1, CanCommand
  <2>3. p.maximumTorque \in Int
    BY <2>1 DEF IsParameters
  <2>4. MitCarried(t, p)
    BY <2>2, <2>3, MitCarries
  <2> QED BY <2>4 DEF t, p, x, f
<1>3. IInv /\ SInv /\ CommandInv => CommandsFaithful
  BY <1>1, <1>2 DEF CommandsFaithful
<1> QED BY <1>3, Invariance, SessionInvariance, CommandInvariance, PTL
=============================================================================
