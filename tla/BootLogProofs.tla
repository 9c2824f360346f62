--------------------------- MODULE BootLogProofs ---------------------------
(***************************************************************************)
(* BootLog is type correct and implements BootHistory, for every capacity  *)
(* and every byte size that the capacity divides.  The work is in the      *)
(* index arithmetic: consecutive indices modulo the capacity are distinct  *)
(* slots, and wrapping the start byte does not move them.                  *)
(***************************************************************************)
EXTENDS BootLog, Integers, SequenceTheorems, TLAPS

(* An index modulo the capacity is a slot of the ring. *)
LEMMA ModRange ==
    ASSUME NEW n \in Nat
    PROVE  n % Capacity \in Slots
BY CapacityAssumption DEF Slots

(* Division with remainder: the remainder is the only slot r that differs  *)
(* from n by a multiple of the capacity.                                   *)
LEMMA ModUnique ==
    ASSUME NEW q \in Int, NEW r \in Slots, NEW n \in Nat, n = Capacity * q + r
    PROVE  n % Capacity = r
BY CapacityAssumption, Z3 DEF Slots

LEMMA ModDivide ==
    ASSUME NEW n \in Nat
    PROVE  /\ n \div Capacity \in Nat
           /\ n = Capacity * (n \div Capacity) + (n % Capacity)
BY CapacityAssumption, Z3

(* The index one capacity further is the same slot. *)
LEMMA ModShift ==
    ASSUME NEW n \in Nat
    PROVE  (n + Capacity) % Capacity = n % Capacity
<1>. DEFINE q == n \div Capacity
            r == n % Capacity
<1>1. q \in Nat /\ r \in Slots /\ n = Capacity * q + r
  BY ModDivide, ModRange
<1>2. n + Capacity = Capacity * (q + 1) + r
  BY <1>1, CapacityAssumption DEF Slots
<1>. HIDE DEF q, r
<1>3. q + 1 \in Int /\ n + Capacity \in Nat
  BY <1>1, CapacityAssumption
<1>4. (n + Capacity) % Capacity = r
  BY <1>1, <1>2, <1>3, ModUnique
<1>. QED BY <1>4 DEF r

(* Two indices less than one capacity apart are different slots. *)
LEMMA ModDistinct ==
    ASSUME NEW m \in Nat, NEW n \in Nat, m < n, n < m + Capacity
    PROVE  m % Capacity # n % Capacity
<1>. DEFINE p == m \div Capacity
            q == n \div Capacity
            r == m % Capacity
<1>1. SUFFICES ASSUME r = n % Capacity PROVE FALSE
  OBVIOUS
<1>2. /\ p \in Nat /\ q \in Nat /\ r \in Slots
      /\ m = Capacity * p + r
      /\ n = Capacity * q + r
  BY <1>1, ModDivide, ModRange
<1>. HIDE DEF p, q, r
<1>3. q > p /\ q < p + 1
  BY <1>2, CapacityAssumption, Z3 DEF Slots
<1>. QED BY <1>2, <1>3

(* Wrapping the start byte moves no index: the capacity divides the byte.  *)
LEMMA ByteWrap ==
    ASSUME NEW s \in 0 .. ByteSize - 1, NEW i \in Nat
    PROVE  /\ (s + 1) % ByteSize \in 0 .. ByteSize - 1
           /\ (((s + 1) % ByteSize) + i) % Capacity = (s + 1 + i) % Capacity
<1>1. PICK k \in 2 .. ByteSize : ByteSize = Capacity * k
  BY ByteSizeAssumption
<1>2. ByteSize \in Nat /\ ByteSize > 1
  BY <1>1, ByteSizeAssumption
<1>3. CASE s + 1 < ByteSize
  <2>1. (s + 1) % ByteSize = s + 1
    BY <1>2, <1>3, Z3
  <2>. QED BY <2>1, <1>2, <1>3
<1>4. CASE s + 1 = ByteSize
  <2>1. (s + 1) % ByteSize = 0
    BY <1>2, <1>4, Z3
  <2>. DEFINE q == i \div Capacity
              r == i % Capacity
  <2>2. q \in Nat /\ r \in Slots /\ i = Capacity * q + r
    BY ModDivide, ModRange
  <2>. HIDE DEF q, r
  <2>3. s + 1 + i = Capacity * (k + q) + r
    BY <1>1, <1>2, <1>4, <2>2, CapacityAssumption, Z3 DEF Slots
  <2>4. (s + 1 + i) % Capacity = r
    BY <1>1, <2>2, <2>3, ModUnique
  <2>. QED BY <1>2, <2>1, <2>4 DEF r
<1>. QED BY <1>2, <1>3, <1>4
-----------------------------------------------------------------------------
(* Every EEPROM write of addEntry and init leaves a start byte, a count     *)
(* and slots of the right range: the count never passes the capacity.       *)
THEOREM TypeCorrect == Spec => []TypeOK
<1>1. Init => TypeOK
  <2>1. 0 \in 0 .. ByteSize - 1
    BY ByteSizeAssumption
  <2>. QED BY <2>1, CapacityAssumption DEF Init, TypeOK, Words
<1>2. TypeOK /\ [Next]_vars => TypeOK'
  <2>. SUFFICES ASSUME TypeOK, [Next]_vars PROVE TypeOK'
    OBVIOUS
  <2>. USE DEF TypeOK
  <2>1. AddIndex \in Slots
    BY SMTT(90), ModRange, CapacityAssumption DEF AddIndex
  <2>2. ASSUME NEW t \in Times, AddEntry(t) PROVE TypeOK'
    BY <2>2 DEF AddEntry
  <2>3. CASE PutFirstBytes
    BY <2>1, <2>3 DEF PutFirstBytes, Words
  <2>4. CASE PutLastByte
    BY <2>1, <2>4 DEF PutLastByte, Words
  <2>5. CASE Commit
    <3>1. (start + 1) % ByteSize \in 0 .. ByteSize - 1
      BY ByteWrap
    <3>. QED BY <2>5, <3>1, CapacityAssumption DEF Commit
  <2>6. CASE BeginInit
    BY <2>6 DEF BeginInit
  <2>7. CASE InitSetStart
    <3>1. 0 \in 0 .. ByteSize - 1
      BY ByteSizeAssumption
    <3>. QED BY <2>7, <3>1 DEF InitSetStart
  <2>8. CASE InitSetCount
    BY <2>8, CapacityAssumption DEF InitSetCount
  <2>9. CASE Reset
    BY <2>9 DEF Reset
  <2>10. CASE UNCHANGED vars
    BY <2>10 DEF vars
  <2>. QED
    BY <2>2, <2>3, <2>4, <2>5, <2>6, <2>7, <2>8, <2>9, <2>10 DEF Next
<1>. QED BY <1>1, <1>2, PTL DEF Spec
-----------------------------------------------------------------------------
Erasing == pc \in {"setStart", "setCount"}

(* Outside Record::init the shown list has count entries, each a word.      *)
LEMMA ShownFacts ==
    ASSUME TypeOK, ~ Erasing
    PROVE  /\ Shown \in Seq(Words)
           /\ Len(Shown) = count
           /\ DOMAIN Shown = 1 .. count
           /\ \A i \in 1 .. count : Shown[i] = slots[(start + (i - 1)) % Capacity]
<1>1. Shown = [i \in 1 .. count |-> slots[(start + (i - 1)) % Capacity]]
  BY DEF Shown, GetEntry, Erasing
<1>2. \A i \in 1 .. count : slots[(start + (i - 1)) % Capacity] \in Words
  <2>. SUFFICES ASSUME NEW i \in 1 .. count
                PROVE  slots[(start + (i - 1)) % Capacity] \in Words
    OBVIOUS
  <2>1. start + (i - 1) \in Nat
    BY DEF TypeOK
  <2>. QED BY <2>1, ModRange DEF TypeOK
<1>3. count \in Nat
  BY CapacityAssumption DEF TypeOK
<1>. QED BY <1>1, <1>2, <1>3

(* Writing the slot that addEntry picks leaves the list as it was, unless   *)
(* the log is full: then it replaces the oldest entry.                      *)
LEMMA PutShown ==
    ASSUME TypeOK, NEW w \in Words, ~ Erasing, ~ Erasing',
           slots' = [slots EXCEPT ![AddIndex] = w],
           UNCHANGED <<start, count>>
    PROVE  /\ count < Capacity => UNCHANGED Shown
           /\ count = Capacity => History!SpoilOldest(w)
<1>1. start \in Nat /\ count \in Nat /\ Capacity \in Nat \ {0} /\ count <= Capacity
  BY CapacityAssumption DEF TypeOK
<1>2. AddIndex \in Slots /\ DOMAIN slots = Slots
  BY SMTT(60), <1>1, ModRange DEF AddIndex, TypeOK
<1>3. /\ Shown = [i \in 1 .. count |-> slots[(start + (i - 1)) % Capacity]]
      /\ Shown' = [i \in 1 .. count |-> slots'[(start + (i - 1)) % Capacity]]
  BY DEF Shown, GetEntry, Erasing
<1>4. ASSUME NEW i \in 1 .. count, count < Capacity \/ i # 1
      PROVE  slots'[(start + (i - 1)) % Capacity] = slots[(start + (i - 1)) % Capacity]
  <2>. DEFINE m == start + (i - 1)
              n == start + count
  <2>1. m \in Nat /\ n \in Nat /\ m < n /\ n < m + Capacity
    BY <1>1, <1>4
  <2>2. m % Capacity # AddIndex
    <3>. HIDE DEF m
    <3>. QED BY <2>1, ModDistinct DEF AddIndex
  <2>3. (start + (i - 1)) % Capacity \in Slots
    BY <2>1, ModRange
  <2>. QED BY <1>2, <2>2, <2>3
<1>5. ASSUME count < Capacity PROVE UNCHANGED Shown
  BY <1>3, <1>4, <1>5
<1>6. ASSUME count = Capacity PROVE History!SpoilOldest(w)
  <2>0. start + (1 - 1) = start
    BY <1>1
  <2>1. (start + (1 - 1)) % Capacity = AddIndex
    BY <1>1, <1>6, <2>0, ModShift DEF AddIndex
  <2>2. slots'[(start + (1 - 1)) % Capacity] = w
    BY <1>2, <2>1
  <2>3. Len(Shown) = Capacity
    BY <1>6, ShownFacts
  <2>4. Shown' = [Shown EXCEPT ![1] = w]
    BY <1>1, <1>3, <1>4, <1>6, <2>2
  <2>. QED BY <2>3, <2>4 DEF History!SpoilOldest
<1>. QED BY <1>5, <1>6

(* Advancing the count or the start byte records the word just written.     *)
LEMMA CommitShown ==
    ASSUME TypeOK, Commit
    PROVE  History!Record(slots[AddIndex])
<1>1. start \in Nat /\ count \in Nat /\ Capacity \in Nat \ {0} /\ count <= Capacity
  BY CapacityAssumption DEF TypeOK
<1>2. ~ Erasing /\ ~ Erasing' /\ slots' = slots
  BY DEF Commit, Erasing
<1>3. Shown \in Seq(Words) /\ Len(Shown) = count
  BY <1>2, ShownFacts
<1>4. /\ Shown = [i \in 1 .. count |-> slots[(start + (i - 1)) % Capacity]]
      /\ Shown' = [i \in 1 .. count' |-> slots[(start' + (i - 1)) % Capacity]]
  BY <1>2 DEF Shown, GetEntry, Erasing
<1>5. CASE count < Capacity
  <2>1. count' = count + 1 /\ start' = start
    BY <1>1, <1>5 DEF Commit
  <2>2. Shown' = Append(Shown, slots[AddIndex])
    BY <1>1, <1>3, <1>4, <2>1 DEF AddIndex
  <2>. QED BY <1>3, <1>1, <1>5, <2>2 DEF History!Record
<1>6. CASE count = Capacity
  <2>1. count' = count /\ start' = (start + 1) % ByteSize
    BY <1>6 DEF Commit
  <2>2. ASSUME NEW i \in 1 .. count
        PROVE  (start' + (i - 1)) % Capacity = (start + i) % Capacity
    <3>1. i - 1 \in Nat /\ start \in 0 .. ByteSize - 1
      BY <1>1 DEF TypeOK
    <3>2. (start' + (i - 1)) % Capacity = (start + 1 + (i - 1)) % Capacity
      BY <2>1, <3>1, ByteWrap
    <3>. QED BY <1>1, <3>2
  <2>3. Shown' = [i \in 1 .. count |-> slots[(start + i) % Capacity]]
    BY <1>4, <2>1, <2>2
  <2>4. /\ Tail(Shown) \in Seq(Words)
        /\ Len(Tail(Shown)) = count - 1
        /\ \A i \in 1 .. count - 1 : Tail(Shown)[i] = Shown[i + 1]
    BY <1>1, <1>3, <1>6, HeadTailProperties, EmptySeq
  <2>5. Shown' = Append(Tail(Shown), slots[AddIndex])
    <3>. DEFINE T == Tail(Shown)
                e == slots[AddIndex]
    <3>1. ASSUME NEW i \in 1 .. count - 1
          PROVE  T[i] = slots[(start + i) % Capacity]
      <4>1. i + 1 \in 1 .. count /\ (i + 1) - 1 = i
        BY <1>1
      <4>. QED BY <1>4, <2>4, <4>1
    <3>2. T \in Seq(Words) /\ Len(T) + 1 = count /\ e \in Words
      <4>1. e \in Words
        BY SMTT(60), <1>1, ModRange DEF AddIndex, TypeOK
      <4>2. T \in Seq(Words) /\ Len(T) = count - 1
        BY <2>4
      <4>. HIDE DEF T
      <4>. QED BY <1>1, <4>1, <4>2
    <3>3. /\ Append(T, e) \in Seq(Words)
          /\ Len(Append(T, e)) = count
          /\ \A i \in 1 .. count - 1 : Append(T, e)[i] = T[i]
          /\ Append(T, e)[count] = e
      <4>. HIDE DEF T, e
      <4>. QED BY <1>1, <3>2, AppendProperties
    <3>4. Shown' \in Seq(Words) /\ Len(Shown') = count
      <4>1. \A i \in 1 .. count : slots[(start + i) % Capacity] \in Words
        BY <1>1, ModRange DEF TypeOK
      <4>. QED BY <1>1, <2>3, <4>1
    <3>5. \A i \in 1 .. count : Shown'[i] = Append(T, e)[i]
      BY SMTT(90), <1>1, <2>3, <3>1, <3>3 DEF AddIndex
    <3>. HIDE DEF T, e
    <3>6. Shown' = Append(T, e)
      BY <3>3, <3>4, <3>5, SeqEqual
    <3>. QED BY <3>6 DEF T, e
  <2>. QED BY <1>3, <1>6, <2>5 DEF History!Record
<1>. QED BY <1>1, <1>5, <1>6

(* Each EEPROM write is a step of BootHistory or leaves the list unchanged; *)
(* see ImplementsHistory.                                                   *)
THEOREM Refinement == Spec => ImplementsHistory
<1>1. Init => History!Init
  <2>1. Init => Shown = [i \in 1 .. 0 |-> GetEntry(i - 1)]
    BY DEF Init, Shown
  <2>. QED BY <2>1 DEF History!Init
<1>2. TypeOK /\ [Next]_vars => [History!Next]_Shown
  <2>. SUFFICES ASSUME TypeOK, [Next]_vars PROVE [History!Next]_Shown
    OBVIOUS
  <2>0. count < Capacity \/ count = Capacity
    BY CapacityAssumption DEF TypeOK
  <2>1. ASSUME NEW t \in Times, AddEntry(t) PROVE UNCHANGED Shown
    BY <2>1 DEF AddEntry, Shown, GetEntry
  <2>2. CASE PutFirstBytes
    BY <2>0, <2>2, PutShown DEF PutFirstBytes, Erasing, Words, History!Next
  <2>3. CASE PutLastByte
    <3>1. time \in Words
      BY DEF TypeOK, Words
    <3>. QED BY <2>0, <2>3, <3>1, PutShown DEF PutLastByte, Erasing, History!Next
  <2>4. CASE Commit
    <3>1. slots[AddIndex] \in Words
      BY ModRange, CapacityAssumption DEF TypeOK, AddIndex
    <3>. QED BY <2>4, <3>1, CommitShown DEF History!Next
  <2>5. CASE BeginInit
    BY <2>5 DEF BeginInit, Shown, History!Next, History!Erase
  <2>6. CASE InitSetStart
    BY <2>6 DEF InitSetStart, Shown
  <2>7. CASE InitSetCount
    <3>1. Shown = << >> /\ Shown' = [i \in 1 .. 0 |-> GetEntry(i - 1)']
      BY <2>7 DEF InitSetCount, Shown
    <3>. QED BY <3>1
  <2>8. CASE Reset
    BY <2>8 DEF Reset, Shown, GetEntry
  <2>9. CASE UNCHANGED vars
    BY <2>9 DEF vars, Shown, GetEntry
  <2>. QED BY <2>1, <2>2, <2>3, <2>4, <2>5, <2>6, <2>7, <2>8, <2>9 DEF Next
<1>. QED BY <1>1, <1>2, TypeCorrect, PTL DEF Spec, ImplementsHistory, History!Spec
=============================================================================
