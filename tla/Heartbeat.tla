----------------------------- MODULE Heartbeat -----------------------------
(***************************************************************************)
(* The heartbeat of one port of the version 3 board: the timer interrupt   *)
(* that samples the line and counts its edges, the main loop that turns    *)
(* enough edges into a heartbeat, and the relay that is switched while the *)
(* interrupt goes on counting.                                             *)
(*                                                                         *)
(* The interrupt may come between the test of the counter and its reset,   *)
(* and during the half second in which start() and kill() wait for the     *)
(* relay.  The counter is one byte and the interrupt adds to it modulo     *)
(* ByteSize.                                                               *)
(***************************************************************************)
EXTENDS Integers

CONSTANTS
    Threshold,  \* 8: edges that make a heartbeat
    ByteSize,   \* 256
    MaxGap      \* samples, four a second, that may come between two tests
                \* of the counter

ASSUME HeartbeatAssumption ==
    /\ Threshold \in Nat /\ Threshold >= 2
    /\ ByteSize \in Nat /\ MaxGap \in Nat \ {0}
    /\ Threshold + 2 * MaxGap <= ByteSize

VARIABLES
    powered,    \* the relay of the port is on
    settled,    \* the last sample was taken from a line without power
    counter,    \* heartbeatCounters[port]
    gap,        \* samples since the counter was last tested
    state,      \* Device::state
    pc,         \* what the main program is in the middle of
    late        \* heartbeats heard since the port lost power

vars == <<powered, settled, counter, gap, state, pc, late>>

TypeOK ==
    /\ powered \in BOOLEAN
    /\ settled \in BOOLEAN
    /\ counter \in 0 .. ByteSize - 1
    /\ gap \in 0 .. MaxGap
    /\ state \in {"DISABLED", "STOPPED", "STARTED", "STOPPING"}
    /\ pc \in {"loop", "clear", "starting", "killing", "disabling"}
    /\ late \in Nat
-----------------------------------------------------------------------------
\* heartbeatState starts LOW and the line has a pull-up, so the first sample
\* may be an edge even of a device without power
Init ==
    /\ powered = FALSE
    /\ settled = FALSE
    /\ counter = 0
    /\ gap = 0
    /\ state \in {"DISABLED", "STOPPED"}
    /\ pc = "loop"
    /\ late = 0

\* Mutant of TimerOverflow: the sample is not remembered
TimerOverflowForgets(edge) ==
    /\ gap < MaxGap
    /\ edge => powered \/ ~ settled
    /\ counter' = IF edge THEN (counter + 1) % ByteSize ELSE counter
    /\ gap' = gap + 1
    /\ UNCHANGED <<powered, settled, state, pc, late>>

\* ISR(TIMER1_OVF_vect).  A line without power rests at its pull-up: at most
\* the first sample after the power went differs from the one before.
TimerOverflow(edge) ==
    /\ gap < MaxGap
    /\ edge => powered \/ ~ settled
    /\ counter' = IF edge THEN (counter + 1) % ByteSize ELSE counter
    /\ settled' = ~ powered
    /\ gap' = gap + 1
    /\ UNCHANGED <<powered, state, pc, late>>

\* Mutant of UpdateHeartbeat: every test starts the count anew
UpdateHeartbeatRestarts ==
    /\ pc = "loop"
    /\ pc' = IF counter >= Threshold THEN "clear" ELSE "loop"
    /\ counter' = IF counter >= Threshold THEN counter ELSE 0
    /\ gap' = 0
    /\ UNCHANGED <<powered, settled, state, late>>

\* Device::updateHeartbeat, the test ...
UpdateHeartbeat ==
    /\ pc = "loop"
    /\ pc' = IF counter >= Threshold THEN "clear" ELSE "loop"
    /\ gap' = 0
    /\ UNCHANGED <<powered, settled, counter, state, late>>

\* Mutant of ClearCounter: onHeartbeat without the reset of the counter
ClearCounterKeeps ==
    /\ pc = "clear"
    /\ pc' = "loop"
    /\ late' = IF powered THEN late ELSE late + 1
    /\ UNCHANGED <<powered, settled, counter, gap, state>>

\* ... and the reset of the counter with onHeartbeat.  For a disabled device,
\* onHeartbeat calls disable, which finds it disabled.
ClearCounter ==
    /\ pc = "clear"
    /\ pc' = "loop"
    /\ counter' = 0
    /\ state' = IF state = "STOPPED" THEN "STARTED" ELSE state
    /\ late' = IF powered THEN late ELSE late + 1
    /\ UNCHANGED <<powered, settled, gap>>

\* Device::start: the relay, and the state half a second later
SwitchOn ==
    /\ pc = "loop" /\ state = "STOPPED"
    /\ powered' = TRUE
    /\ settled' = FALSE
    /\ pc' = "starting"
    /\ UNCHANGED <<counter, gap, state, late>>

Started ==
    /\ pc = "starting"
    /\ state' = "STARTED"
    /\ pc' = "loop"
    /\ UNCHANGED <<powered, settled, counter, gap, late>>

Stop ==
    /\ pc = "loop" /\ state = "STARTED"
    /\ state' = "STOPPING"
    /\ UNCHANGED <<powered, settled, counter, gap, pc, late>>

\* Device::kill, by itself or called by disable, in the same two steps
SwitchOff(by) ==
    /\ pc = "loop" /\ state # "DISABLED"
    /\ powered' = FALSE
    /\ settled' = (settled /\ ~ powered)
    /\ late' = IF powered THEN 0 ELSE late
    /\ pc' = by
    /\ UNCHANGED <<counter, gap, state>>

Killed ==
    /\ pc \in {"killing", "disabling"}
    /\ state' = IF pc = "killing" THEN "STOPPED" ELSE "DISABLED"
    /\ pc' = "loop"
    /\ UNCHANGED <<powered, settled, counter, gap, late>>

Enable ==
    /\ pc = "loop"
    /\ state' = "STOPPED"
    /\ UNCHANGED <<powered, settled, counter, gap, pc, late>>

\* A reset: RAM is initialised, and only a latched relay may keep its state.
Reset ==
    /\ powered' \in {FALSE, powered}
    /\ settled' = FALSE
    /\ counter' = 0
    /\ gap' = 0
    /\ state' \in {"DISABLED", "STOPPED"}
    /\ pc' = "loop"
    /\ late' = IF powered THEN 0 ELSE late

Next ==
    \/ \E edge \in BOOLEAN : TimerOverflow(edge)
    \/ UpdateHeartbeat \/ ClearCounter
    \/ SwitchOn \/ Started \/ Stop \/ Killed \/ Enable
    \/ \E by \in {"killing", "disabling"} : SwitchOff(by)
    \/ Reset

Spec == Init /\ [][Next]_vars

\* A live device moves its line again and again, and the loop goes on.
FairSpec ==
    /\ Spec
    /\ WF_vars(UpdateHeartbeat) /\ WF_vars(ClearCounter)
    /\ SF_vars(powered /\ TimerOverflow(TRUE))
-----------------------------------------------------------------------------
\* No sample ever makes the count of edges fall: the byte does not wrap around
\* and lose a heartbeat, although the reset of the counter may come up to a
\* whole gap of samples after its test.
NoWrap == [][gap' > gap => counter' >= counter]_vars

\* A device that lost its power is heard at most once more.  Edges counted
\* before and during kill() do revive a stopped device, in name only, but they
\* cannot do so twice, so the heartbeat timeout that follows is not put off.
AtMostOneLate == late <= 1

\* A device that stays on and moves its line is heard again and again, even
\* when no single pass of the main loop sees enough edges.
LiveDeviceHeard == <>[](powered /\ state = "STARTED") => []<>(pc = "clear")
=============================================================================
