-------------------------- MODULE HeartbeatProofs --------------------------
(***************************************************************************)
(* Proofs about Heartbeat for every threshold, byte size and gap that      *)
(* satisfy HeartbeatAssumption: the counter does not wrap, and a device    *)
(* without power is heard at most once.                                    *)
(***************************************************************************)
EXTENDS Heartbeat, TLAPS

\* what the counter can have reached, from its last test and the samples since
CounterInv ==
    /\ pc # "clear" => counter <= Threshold - 1 + gap
    /\ pc = "clear" => counter <= Threshold - 1 + MaxGap + gap

\* after a late heartbeat, at most the edge of the power going is to come
LateInv ==
    /\ late <= 1
    /\ late = 1 /\ ~ powered =>
         pc # "clear" /\ counter <= 1 /\ (~ settled => counter = 0)

Inv == TypeOK /\ CounterInv /\ LateInv

\* Inv holds at first.
LEMMA InvInit == Init => Inv
<1> SUFFICES ASSUME Init PROVE Inv
  OBVIOUS
<1>0. 0 \in 0 .. ByteSize - 1 /\ 0 \in 0 .. MaxGap
  BY HeartbeatAssumption
<1>1. TypeOK
  BY <1>0 DEF Init, TypeOK
<1>2. CounterInv /\ LateInv
  BY HeartbeatAssumption DEF Init, CounterInv, LateInv
<1> QED
  BY <1>1, <1>2 DEF Inv

\* A sample of the interrupt counts an edge without wrapping.
LEMMA Sample ==
    ASSUME TypeOK, CounterInv, NEW edge \in BOOLEAN, TimerOverflow(edge)
    PROVE  counter' = IF edge THEN counter + 1 ELSE counter
<1>1. counter \in Nat /\ counter + 1 < ByteSize
  BY HeartbeatAssumption DEF TypeOK, CounterInv, TimerOverflow
<1>2. (counter + 1) % ByteSize = counter + 1
  BY <1>1, HeartbeatAssumption
<1> QED
  BY <1>2 DEF TimerOverflow

\* Every step keeps Inv.
LEMMA InvStep == Inv /\ [Next]_vars => Inv'
<1> SUFFICES ASSUME TypeOK, CounterInv, LateInv, [Next]_vars
             PROVE  Inv'
  BY DEF Inv
<1> USE HeartbeatAssumption DEF Inv, TypeOK, CounterInv, LateInv
<1>1. ASSUME NEW edge \in BOOLEAN, TimerOverflow(edge) PROVE Inv'
  <2>1. counter' = IF edge THEN counter + 1 ELSE counter
    BY <1>1, Sample
  <2>2. CounterInv'
    BY <1>1, <2>1 DEF TimerOverflow
  <2>3. LateInv'
    BY <1>1, <2>1 DEF TimerOverflow
  <2>4. TypeOK'
    BY <1>1, <2>1, <2>2 DEF TimerOverflow
  <2> QED
    BY <2>2, <2>3, <2>4
<1>2. CASE UpdateHeartbeat
  BY <1>2 DEF UpdateHeartbeat
<1>3. CASE ClearCounter
  BY <1>3 DEF ClearCounter
<1>4. CASE SwitchOn
  BY <1>4 DEF SwitchOn
<1>5. CASE Started \/ Stop \/ Enable
  BY <1>5 DEF Started, Stop, Enable
<1>6. CASE Killed
  BY <1>6 DEF Killed
<1>7. ASSUME NEW by \in {"killing", "disabling"}, SwitchOff(by) PROVE Inv'
  <2>1. powered' \in BOOLEAN /\ settled' \in BOOLEAN
    BY <1>7 DEF SwitchOff
  <2>2. late' \in Nat /\ late' <= 1 /\ (late' = 1 => late = 1 /\ ~ powered)
    BY <1>7 DEF SwitchOff
  <2>3. settled /\ ~ powered => settled'
    BY <1>7 DEF SwitchOff
  <2>4. LateInv'
    BY <1>7, <2>2, <2>3 DEF SwitchOff
  <2> QED
    BY <1>7, <2>1, <2>2, <2>4 DEF SwitchOff
<1>8. CASE Reset
  <2>1. powered' \in BOOLEAN /\ settled' \in BOOLEAN
    BY <1>8 DEF Reset
  <2>2. late' \in Nat /\ late' <= 1
    BY <1>8 DEF Reset
  <2> QED
    BY <1>8, <2>1, <2>2 DEF Reset
<1>9. CASE UNCHANGED vars
  BY <1>9 DEF vars
<1> QED
  BY <1>1, <1>2, <1>3, <1>4, <1>5, <1>6, <1>7, <1>8, <1>9 DEF Next

\* Inv is an invariant.
LEMMA Invariance == Spec => []Inv
BY InvInit, InvStep, PTL DEF Spec

\* A device that lost its power is heard at most once more.
THEOREM LateBounded == Spec => []AtMostOneLate
<1>1. Inv => AtMostOneLate
  BY DEF Inv, LateInv, AtMostOneLate
<1> QED
  BY <1>1, Invariance, PTL

\* The counter never wraps around.
THEOREM CounterFits == Spec => NoWrap
<1>1. Inv /\ [Next]_vars => [gap' > gap => counter' >= counter]_vars
  <2> SUFFICES ASSUME TypeOK, CounterInv, [Next]_vars, gap' > gap
               PROVE  counter' >= counter
    BY DEF Inv
  <2>1. ASSUME NEW edge \in BOOLEAN, TimerOverflow(edge) PROVE counter' >= counter
    BY <2>1, Sample DEF TypeOK
  <2>2. \E edge \in BOOLEAN : TimerOverflow(edge)
    <3>1. gap \in Int /\ gap >= 0 /\ gap' # gap /\ gap' # 0
      BY HeartbeatAssumption DEF TypeOK
    <3> QED
      BY <3>1 DEF Next, UpdateHeartbeat, ClearCounter, SwitchOn, Started,
         Stop, Killed, Enable, SwitchOff, Reset, vars
  <2> QED
    BY <2>1, <2>2
<1> QED
  BY <1>1, Invariance, PTL DEF Spec, NoWrap
=============================================================================
