----------------------------- MODULE ChannelInfo ----------------------------
(***************************************************************************)
(* ChannelInfo.java, the settings of one channel and their submission to   *)
(* the machine: a vertical range, a zero position the range restricts, a   *)
(* bandwidth limit the most sensitive range forces on, a coupling and the  *)
(* on/off switch.  The user interface calls one operation at a time; the   *)
(* callbacks handed to the submitter run later, between them, in order.    *)
(*                                                                         *)
(* The submitter, the trigger thresholds (pvi), the preferences file and   *)
(* the waveform are outside the repository: submissions reach the machine  *)
(* in the order they are made, and nothing else changes its settings.      *)
(***************************************************************************)
EXTENDS Integers, Sequences, SequencesExt

CONSTANTS NVolts,      \* number of vertical ranges
          HalfRange,   \* HalfRange[v]: how far the zero may be moved in range v
          NCouplings,  \* number of couplings
          ZeroInputs,  \* zero positions asked for
          WaveformZeros, \* zero positions waveforms were loaded with
          MaxTodo      \* bound: callbacks waiting

VARIABLES
  running,      \* the program is up
  on, vbIdx, pos0, pos0HalfRange, bandlimit, couplingIdx,
  machine,      \* the settings the machine was last sent
  file,         \* the preferences
  todo,         \* range changes the thresholds are not told of yet
  told,         \* the zero as the moves reported to the thresholds add up,
                \* no longer followed once one was not reported
  stale,        \* for checking: who did not learn of the last zero
  synced        \* for checking: c_SyncChannel was run with the channel on

settings == <<on, vbIdx, pos0HalfRange, bandlimit, couplingIdx>>
zeroVars == <<pos0, told, stale>>
vars == <<running, settings, zeroVars, machine, file, todo, synced>>

Volts == 0..NVolts - 1
Couplings == 0..NCouplings - 1
Settings == [on : BOOLEAN, vb : Volts, pos0 : Int, band : BOOLEAN,
             coupling : Couplings]
RangeChange == [from : Volts, to : Volts]

ASSUME NVoltsAssumption == NVolts \in Nat \ {0}
ASSUME HalfRangeAssumption == HalfRange \in [Volts -> Nat]
ASSUME NCouplingsAssumption == NCouplings \in Nat \ {0}
ASSUME ZeroInputsAssumption == ZeroInputs \subseteq Int
ASSUME WaveformZerosAssumption ==
  \A z \in WaveformZeros : \E v \in Volts : z \in -HalfRange[v]..HalfRange[v]
ASSUME MaxTodoAssumption == MaxTodo \in Nat

Clamp(lo, hi, i) == IF i < lo THEN lo ELSE IF i > hi THEN hi ELSE i
getValidVotageChangeIndex(i) == Clamp(0, NVolts - 1, i)
shouldForcebandlimit(vb) == vb = 0
isBandlimitAt(vb, band) == shouldForcebandlimit(vb) \/ band
isBandlimit == isBandlimitAt(vbIdx, bandlimit)

\* The preferences of a fresh installation; every key reads as zero or false.
Defaults == [on |-> FALSE, vb |-> 0, pos0 |-> 0, band |-> FALSE, coupling |-> 0]

Init ==
  /\ running = FALSE /\ on = FALSE /\ bandlimit = FALSE /\ synced = FALSE
  /\ vbIdx = 0 /\ couplingIdx = 0 /\ pos0 = 0 /\ pos0HalfRange = 0
  /\ todo = <<>> /\ told = 0
  /\ stale = {"machine"}
  /\ machine = Defaults
  /\ file = [set |-> Defaults, loose |-> FALSE]

(***************************************************************************)
(* Start and end of the program.  load submits nothing, and its range is   *)
(* set with isfirstload, which does not restrict the zero.                 *)
(***************************************************************************)
load ==
  /\ ~running
  /\ running' = TRUE
  /\ vbIdx' = IF file.set.vb \in Volts THEN file.set.vb ELSE 0
  /\ pos0HalfRange' = HalfRange[vbIdx']
  /\ pos0' = file.set.pos0
  /\ on' = file.set.on
  /\ couplingIdx' = file.set.coupling
  /\ bandlimit' = file.set.band
  /\ told' = pos0'
  /\ stale' = {"machine"} \union (IF file.loose THEN {"range"} ELSE {})
  /\ synced' = FALSE
  /\ UNCHANGED <<machine, file, todo>>

persist ==
  file' = [set |-> [on |-> on, vb |-> vbIdx, pos0 |-> pos0,
                    band |-> isBandlimit, coupling |-> couplingIdx],
           loose |-> "range" \in stale]

\* The program ends and its variables with it; a crash does not persist.
Stop ==
  /\ running
  /\ running' = FALSE /\ on' = FALSE /\ bandlimit' = FALSE /\ synced' = FALSE
  /\ vbIdx' = 0 /\ couplingIdx' = 0 /\ pos0' = 0 /\ pos0HalfRange' = 0
  /\ todo' = <<>> /\ told' = 0
  /\ stale' = {"machine"}
  /\ persist \/ UNCHANGED file
  /\ UNCHANGED machine

(***************************************************************************)
(* The zero position.                                                      *)
(***************************************************************************)
\* Mutant: the thresholds are told of the move asked for.
MoveZeroUnclamped(zero, commit, hpr) ==
  /\ pos0' = Clamp(-hpr, hpr, zero)
  /\ told' = IF "threshold" \in stale THEN told ELSE told + (zero - pos0)
  /\ stale' = IF commit THEN stale \ {"range", "machine"}
                        ELSE (stale \ {"range"}) \union {"machine"}

\* c_setZero in a range of half width hpr; without commit it is not submitted.
MoveZero(zero, commit, hpr) ==
  /\ pos0' = Clamp(-hpr, hpr, zero)
  /\ told' = IF "threshold" \in stale THEN told ELSE told + (pos0' - pos0)
  /\ stale' = IF commit THEN stale \ {"range", "machine"}
                        ELSE (stale \ {"range"}) \union {"machine"}

c_setZero ==
  /\ running
  /\ \E zero \in ZeroInputs, commit \in BOOLEAN :
       /\ MoveZero(zero, commit, pos0HalfRange)
       /\ machine' = IF commit THEN [machine EXCEPT !.pos0 = pos0'] ELSE machine
  /\ UNCHANGED <<running, settings, file, todo, synced>>

\* Takes back the zero the waveform was loaded with, which was in reach in
\* the range of that time, unrestricted, and tells nobody.
snapShot2ChannelDataInfo ==
  /\ running
  /\ pos0' \in WaveformZeros
  /\ stale' = {"range", "threshold", "machine"}
  /\ told' = 0
  /\ UNCHANGED <<running, settings, machine, file, todo, synced>>

(***************************************************************************)
(* The vertical range and the bandwidth limit.                             *)
(***************************************************************************)
\* Mutant: leaving the forcing range does not restore the user's choice.
BandSentOnEntry(from, to) ==
  IF shouldForcebandlimit(to) THEN TRUE ELSE machine.band

\* What c_setVoltage sends of the bandwidth limit: nothing between two
\* ranges that do not force it.
BandSent(from, to) ==
  IF shouldForcebandlimit(to) THEN TRUE
  ELSE IF shouldForcebandlimit(from) THEN isBandlimitAt(to, bandlimit)
  ELSE machine.band

\* Mutant: the zero is restricted before the half range is the new one.
RestrictedEarly(to) ==
  /\ vbIdx' = to
  /\ pos0HalfRange' = HalfRange[to]
  /\ MoveZero(pos0, TRUE, pos0HalfRange)

\* Restricts the zero through setZeroYLoc, a c_setZero that is committed.
setVoltbaseIndex(to) ==
  /\ vbIdx' = to
  /\ pos0HalfRange' = HalfRange[to]
  /\ MoveZero(pos0, TRUE, HalfRange[to])

\* Mutant: the callback captures the range after it was changed.
SendVoltageLate(to) ==
  /\ machine' = [machine EXCEPT !.pos0 = pos0', !.vb = to,
                                !.band = BandSent(vbIdx, to)]
  /\ todo' = Append(todo, [from |-> to, to |-> to])

\* The submissions of a range change, and the callback left with the last.
SendVoltage(to) ==
  /\ machine' = [machine EXCEPT !.pos0 = pos0', !.vb = to,
                                !.band = BandSent(vbIdx, to)]
  /\ todo' = Append(todo, [from |-> vbIdx, to |-> to])

\* Mutant: forcing goes through c_setBandLimit(true).
SetVoltageChoosesBand ==
  /\ running /\ Len(todo) < MaxTodo
  /\ \E i \in -1..NVolts :
       LET to == getValidVotageChangeIndex(i) IN
       /\ setVoltbaseIndex(to)
       /\ SendVoltage(to)
       /\ bandlimit' = (bandlimit \/ shouldForcebandlimit(to))
  /\ UNCHANGED <<running, on, couplingIdx, file, synced>>

c_setVoltage ==
  /\ running /\ Len(todo) < MaxTodo
  /\ \E i \in -1..NVolts :
       LET to == getValidVotageChangeIndex(i) IN
       setVoltbaseIndex(to) /\ SendVoltage(to)
  /\ UNCHANGED <<running, on, bandlimit, couplingIdx, file, synced>>

\* The callback: thredshold_voltsense_ByVoltBase with the ranges it captured
\* (and the zero of then, which no property is about).
RunCallback ==
  /\ todo # <<>>
  /\ todo' = Tail(todo)
  /\ UNCHANGED <<running, settings, zeroVars, machine, file, synced>>

c_setBandLimit ==
  /\ running
  /\ \E bl \in BOOLEAN :
       /\ bandlimit' = bl
       /\ machine' = [machine EXCEPT !.band = isBandlimitAt(vbIdx, bl)]
  /\ UNCHANGED <<running, on, vbIdx, pos0HalfRange, couplingIdx, zeroVars,
                 file, todo, synced>>

(***************************************************************************)
(* Coupling and the on/off switch.                                         *)
(***************************************************************************)
SendCoupling(c) ==
  /\ couplingIdx' = c
  /\ machine' = [machine EXCEPT !.coupling = c]
  /\ UNCHANGED <<running, on, vbIdx, pos0HalfRange, bandlimit, zeroVars,
                 file, todo, synced>>

c_setCoupling == running /\ \E c \in Couplings : SendCoupling(c)

\* Mutant: the couplings do not wrap around.
NextCouplingUnwrapped == running /\ SendCoupling(couplingIdx + 1)

c_setNextCoupling == running /\ SendCoupling((couplingIdx + 1) % NCouplings)

\* A channel that is off is told so, and nothing else.
c_SyncChannel(isOn) ==
  machine' = IF isOn THEN [on |-> TRUE, vb |-> vbIdx, pos0 |-> pos0,
                           band |-> isBandlimit, coupling |-> couplingIdx]
                     ELSE [machine EXCEPT !.on = FALSE]

c_setOn ==
  /\ running
  /\ on' \in BOOLEAN
  /\ c_SyncChannel(on')
  /\ stale' = IF on' THEN stale \ {"machine"} ELSE stale
  /\ synced' = (synced \/ on')
  /\ UNCHANGED <<running, vbIdx, pos0HalfRange, bandlimit, couplingIdx, pos0,
                 told, file, todo>>

Next ==
  \/ load \/ Stop
  \/ c_setZero \/ snapShot2ChannelDataInfo
  \/ c_setVoltage \/ RunCallback \/ c_setBandLimit
  \/ c_setCoupling \/ c_setNextCoupling \/ c_setOn

Spec == Init /\ [][Next]_vars

-----------------------------------------------------------------------------

\* Types; the half range is the one of the range in force, and no index read
\* from the file, typed in or counted up leaves its table.
TypeOK ==
  /\ running \in BOOLEAN /\ on \in BOOLEAN /\ bandlimit \in BOOLEAN
  /\ vbIdx \in Volts /\ couplingIdx \in Couplings
  /\ running => pos0HalfRange = HalfRange[vbIdx]
  /\ pos0 \in Int /\ told \in Int
  /\ machine \in Settings
  /\ file \in [set : Settings, loose : BOOLEAN]
  /\ todo \in Seq(RangeChange) /\ Len(todo) <= MaxTodo
  /\ stale \subseteq {"range", "threshold", "machine"}
  /\ synced \in BOOLEAN

\* The zero stays where the range in force allows it, across changes of the
\* range to a narrower one, and across saving it in the program's own file and
\* loading it from there; only a snapshot may move it out, until the zero or
\* the range is set again.
ZeroInRange ==
  running /\ "range" \notin stale => pos0 \in -pos0HalfRange..pos0HalfRange

\* Once synchronised, the machine works with the channel's settings, its
\* bandwidth limit included, which depends on two of them; the zero only when
\* the last move was committed.
MachineAgrees ==
  running /\ synced =>
    /\ machine.on = on
    /\ machine.vb = vbIdx
    /\ machine.coupling = couplingIdx
    /\ machine.band = isBandlimit
    /\ "machine" \notin stale => machine.pos0 = pos0

\* The thresholds are told of every move of the zero, the ones a change of
\* range causes included, so that what they were told adds up to the zero;
\* a snapshot moves it behind their back.
ThresholdFollows == running /\ "threshold" \notin stale => told = pos0

\* The changes of range the thresholds have yet to follow lead, each from
\* where the one before ended, to the range in force.
ThresholdChain ==
  todo # <<>> =>
    /\ Last(todo).to = vbIdx
    /\ \A i \in 1..Len(todo) - 1 : todo[i].to = todo[i + 1].from

\* While the program is up, forcing the bandwidth limit does not overwrite the
\* user's choice, which comes back when the range does: only the switch changes
\* it.  Ending and starting the program may: persist saves the forced limit.
ChoiceKept == [][bandlimit' # bandlimit => load \/ Stop \/ c_setBandLimit]_vars
=============================================================================
