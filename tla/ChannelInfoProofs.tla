-------------------------- MODULE ChannelInfoProofs --------------------------
(***************************************************************************)
(* What holds of a channel for any ranges, couplings, zero positions and   *)
(* number of callbacks waiting: TypeOK, ZeroInRange, MachineAgrees,        *)
(* ThresholdFollows, ThresholdChain and ChoiceKept.                        *)
(***************************************************************************)
EXTENDS ChannelInfo, TLAPS

\* What was saved can be loaded: a zero the file does not know to be loose is
\* one its range allows.
SavedInRange ==
  ~file.loose => file.set.pos0 \in -HalfRange[file.set.vb]..HalfRange[file.set.vb]

\* A program that is not up has nothing to call back, and is in step with no
\* machine.
StoppedIdle == ~running => todo = <<>> /\ ~synced

IInv == /\ TypeOK /\ SavedInRange /\ StoppedIdle
        /\ ZeroInRange /\ MachineAgrees /\ ThresholdFollows /\ ThresholdChain

Stale == {"range", "threshold", "machine"}

-----------------------------------------------------------------------------
(* The operators.                                                          *)

LEMMA HalfRangeNat == \A v \in Volts : HalfRange[v] \in Nat
BY HalfRangeAssumption

\* The index a range change is asked for is cut to a range there is.
LEMMA ValidIndex == \A i \in Int : getValidVotageChangeIndex(i) \in Volts
BY NVoltsAssumption DEF getValidVotageChangeIndex, Clamp, Volts

LEMMA NothingTodo == <<>> \in Seq(RangeChange) /\ Len(<<>>) = 0 /\ 0 <= MaxTodo
BY MaxTodoAssumption

LEMMA ClampInRange == \A h \in Nat, z \in Int : Clamp(-h, h, z) \in -h..h
BY DEF Clamp

LEMMA BandBoolean ==
  \A vb \in Volts, band \in BOOLEAN : isBandlimitAt(vb, band) \in BOOLEAN
BY DEF isBandlimitAt, shouldForcebandlimit

\* A move of the zero ends in the range it was restricted to, is reported as
\* far as it went, and only a commit takes it to the machine.
LEMMA MoveZeroFacts ==
  ASSUME NEW zero \in Int, NEW commit \in BOOLEAN, NEW h \in Nat,
         TypeOK, ThresholdFollows, running, MoveZero(zero, commit, h)
  PROVE  /\ pos0' \in -h..h /\ pos0' \in Int /\ told' \in Int
         /\ stale' \subseteq Stale /\ "range" \notin stale'
         /\ "threshold" \in stale' <=> "threshold" \in stale
         /\ "machine" \notin stale' <=> commit
         /\ "threshold" \notin stale' => told' = pos0'
<1>1. pos0' \in -h..h /\ pos0' \in Int
  BY ClampInRange DEF MoveZero
<1>2. /\ stale' \subseteq Stale /\ "range" \notin stale'
      /\ "threshold" \in stale' <=> "threshold" \in stale
      /\ "machine" \notin stale' <=> commit
  BY DEF MoveZero, TypeOK, Stale
<1>3. told' \in Int /\ pos0 \in Int /\ told \in Int /\ pos0' \in Int
  BY <1>1 DEF MoveZero, TypeOK
<1>4. ASSUME "threshold" \notin stale' PROVE told' = pos0'
  <2>1. told = pos0 /\ told' = told + (pos0' - pos0)
    BY <1>2, <1>4 DEF ThresholdFollows, MoveZero
  <2>2. \A a, b \in Int : a + (b - a) = b
    OBVIOUS
  <2> QED BY <1>3, <2>1, <2>2
<1> QED BY <1>1, <1>2, <1>3, <1>4

\* What is sent of the bandwidth limit when the range changes is the limit of
\* the new range, given that the machine had the one of the old range.
LEMMA BandSentFacts ==
  ASSUME NEW to \in Volts, vbIdx \in Volts, bandlimit \in BOOLEAN, machine.band \in BOOLEAN
  PROVE  /\ BandSent(vbIdx, to) \in BOOLEAN
         /\ machine.band = isBandlimit
              => BandSent(vbIdx, to) = isBandlimitAt(to, bandlimit)
BY DEF BandSent, isBandlimit, isBandlimitAt, shouldForcebandlimit

-----------------------------------------------------------------------------
LEMMA InitIInv == Init => IInv
<1> SUFFICES ASSUME Init PROVE IInv
  OBVIOUS
<1>1. 0 \in Volts /\ 0 \in Couplings /\ HalfRange[0] \in Nat
  BY NVoltsAssumption, NCouplingsAssumption, HalfRangeNat DEF Volts, Couplings
<1>2. Defaults \in Settings
  BY <1>1 DEF Defaults, Settings
<1>3. TypeOK
  <2>1. file \in [set : Settings, loose : BOOLEAN]
    BY <1>2 DEF Init
  <2>2. machine \in Settings
    BY <1>2 DEF Init
  <2>3. todo \in Seq(RangeChange) /\ Len(todo) <= MaxTodo
    BY NothingTodo DEF Init
  <2>4. /\ {running, on, bandlimit, synced} \subseteq BOOLEAN
        /\ stale \subseteq {"range", "threshold", "machine"}
    BY DEF Init
  <2>5. /\ vbIdx \in Volts /\ couplingIdx \in Couplings
        /\ running => pos0HalfRange = HalfRange[vbIdx]
        /\ pos0 \in Int /\ told \in Int
    BY <1>1 DEF Init
  <2> QED BY <2>1, <2>2, <2>3, <2>4, <2>5 DEF TypeOK
<1>4. SavedInRange
  BY <1>1 DEF Init, SavedInRange, Defaults
<1>5. StoppedIdle /\ ZeroInRange /\ MachineAgrees /\ ThresholdFollows /\ ThresholdChain
  BY DEF Init, StoppedIdle, ZeroInRange, MachineAgrees, ThresholdFollows, ThresholdChain
<1> QED BY <1>3, <1>4, <1>5 DEF IInv

LEMMA LoadIInv == IInv /\ load => IInv'
<1> SUFFICES ASSUME IInv, load PROVE IInv'
  OBVIOUS
<1> USE DEF IInv
<1>1. file.set \in Settings /\ file.loose \in BOOLEAN
  BY DEF TypeOK
<1>2. /\ file.set.vb \in Volts /\ file.set.pos0 \in Int /\ file.set.on \in BOOLEAN
      /\ file.set.coupling \in Couplings /\ file.set.band \in BOOLEAN
  BY <1>1 DEF Settings
<1>3. /\ running' /\ vbIdx' = file.set.vb /\ pos0HalfRange' = HalfRange[vbIdx']
      /\ pos0' = file.set.pos0 /\ told' = pos0' /\ todo' = <<>> /\ synced' = FALSE
      /\ "range" \notin stale' => ~file.loose
      /\ UNCHANGED file
  BY <1>2 DEF load, StoppedIdle
<1>4. TypeOK'
  BY <1>2, <1>3, MaxTodoAssumption DEF load, TypeOK
<1>5. SavedInRange' /\ ZeroInRange'
  BY <1>3 DEF SavedInRange, ZeroInRange
<1>6. StoppedIdle' /\ MachineAgrees' /\ ThresholdFollows' /\ ThresholdChain'
  BY <1>3 DEF StoppedIdle, MachineAgrees, ThresholdFollows, ThresholdChain
<1> QED BY <1>4, <1>5, <1>6

LEMMA StopIInv == IInv /\ Stop => IInv'
<1> SUFFICES ASSUME IInv, Stop PROVE IInv'
  OBVIOUS
<1> USE DEF IInv
<1>1. 0 \in Volts /\ 0 \in Couplings
  BY NVoltsAssumption, NCouplingsAssumption DEF Volts, Couplings
<1>2. ASSUME persist
      PROVE  file' \in [set : Settings, loose : BOOLEAN] /\ SavedInRange'
  <2>1. isBandlimit \in BOOLEAN
    BY BandBoolean DEF isBandlimit, TypeOK
  <2>2. file' \in [set : Settings, loose : BOOLEAN]
    BY <1>2, <2>1 DEF persist, TypeOK, Settings
  <2>3. /\ file'.set.vb = vbIdx /\ file'.set.pos0 = pos0
        /\ ~file'.loose => "range" \notin stale
    BY <1>2 DEF persist
  <2>4. running /\ pos0HalfRange = HalfRange[vbIdx]
    BY DEF Stop, TypeOK
  <2> QED BY <2>2, <2>3, <2>4 DEF SavedInRange, ZeroInRange
<1>3. file' \in [set : Settings, loose : BOOLEAN] /\ SavedInRange'
  BY <1>2 DEF Stop, TypeOK, SavedInRange
<1>4. TypeOK'
  <2>1. todo' \in Seq(RangeChange) /\ Len(todo') <= MaxTodo /\ machine' \in Settings
    BY NothingTodo DEF Stop, TypeOK
  <2>2. /\ {running', on', bandlimit', synced'} \subseteq BOOLEAN
        /\ stale' \subseteq {"range", "threshold", "machine"}
    BY DEF Stop
  <2>3. /\ vbIdx' \in Volts /\ couplingIdx' \in Couplings
        /\ running' => pos0HalfRange' = HalfRange[vbIdx']
        /\ pos0' \in Int /\ told' \in Int
    BY <1>1 DEF Stop
  <2> QED BY <1>3, <2>1, <2>2, <2>3 DEF TypeOK
<1>5. StoppedIdle' /\ ZeroInRange' /\ MachineAgrees' /\ ThresholdFollows' /\ ThresholdChain'
  BY DEF Stop, StoppedIdle, ZeroInRange, MachineAgrees, ThresholdFollows, ThresholdChain
<1> QED BY <1>3, <1>4, <1>5

-----------------------------------------------------------------------------
(* The zero and the range.                                                 *)

LEMMA SetZeroIInv == IInv /\ c_setZero => IInv'
<1> SUFFICES ASSUME IInv, c_setZero PROVE IInv'
  OBVIOUS
<1> USE DEF IInv
<1>1. PICK zero \in ZeroInputs, commit \in BOOLEAN :
        /\ MoveZero(zero, commit, pos0HalfRange)
        /\ machine' = IF commit THEN [machine EXCEPT !.pos0 = pos0'] ELSE machine
  BY DEF c_setZero
<1>2. /\ running /\ pos0HalfRange \in Nat /\ zero \in Int
      /\ UNCHANGED <<running, settings, file, todo, synced>>
  BY HalfRangeNat, ZeroInputsAssumption DEF c_setZero, TypeOK
<1>3. /\ pos0' \in -pos0HalfRange..pos0HalfRange /\ pos0' \in Int /\ told' \in Int
      /\ stale' \subseteq Stale
      /\ "machine" \notin stale' <=> commit
      /\ "threshold" \notin stale' => told' = pos0'
  BY <1>1, <1>2, MoveZeroFacts
<1>4. TypeOK'
  <2>1. machine' \in Settings
    BY <1>1, <1>3 DEF TypeOK, Settings
  <2> QED BY <1>2, <1>3, <2>1 DEF TypeOK, settings, Stale
<1>5. SavedInRange' /\ StoppedIdle' /\ ThresholdChain'
  BY <1>2 DEF settings, SavedInRange, StoppedIdle, ThresholdChain
<1>6. ZeroInRange' /\ ThresholdFollows'
  BY <1>2, <1>3 DEF settings, ZeroInRange, ThresholdFollows
<1>7. MachineAgrees'
  BY <1>1, <1>2, <1>3 DEF settings, TypeOK, Settings, MachineAgrees, isBandlimit
<1> QED BY <1>4, <1>5, <1>6, <1>7

LEMMA SnapshotIInv == IInv /\ snapShot2ChannelDataInfo => IInv'
<1> SUFFICES ASSUME IInv, snapShot2ChannelDataInfo PROVE IInv'
  OBVIOUS
<1> USE DEF IInv
<1>1. /\ stale' = Stale /\ told' = 0
      /\ UNCHANGED <<running, settings, machine, file, todo, synced>>
  BY DEF snapShot2ChannelDataInfo, Stale
<1>2. pos0' \in Int
  <2>1. PICK v \in Volts : pos0' \in -HalfRange[v]..HalfRange[v]
    BY WaveformZerosAssumption DEF snapShot2ChannelDataInfo
  <2> QED BY <2>1, HalfRangeNat
<1>3. TypeOK'
  BY <1>1, <1>2 DEF TypeOK, settings, Stale
<1>4. SavedInRange' /\ StoppedIdle' /\ ThresholdChain'
  BY <1>1 DEF settings, SavedInRange, StoppedIdle, ThresholdChain
<1>5. ZeroInRange' /\ ThresholdFollows' /\ MachineAgrees'
  BY <1>1 DEF settings, Stale, ZeroInRange, ThresholdFollows, MachineAgrees, isBandlimit
<1> QED BY <1>3, <1>4, <1>5

LEMMA VoltageIInv == IInv /\ c_setVoltage => IInv'
<1> SUFFICES ASSUME IInv, c_setVoltage PROVE IInv'
  OBVIOUS
<1> USE DEF IInv
<1>1. PICK to \in Volts : setVoltbaseIndex(to) /\ SendVoltage(to)
  BY NVoltsAssumption, ValidIndex DEF c_setVoltage
<1>2. /\ running /\ running' /\ Len(todo) < MaxTodo
      /\ UNCHANGED <<on, bandlimit, couplingIdx, file, synced>>
  BY DEF c_setVoltage
<1>3. /\ vbIdx' = to /\ pos0HalfRange' = HalfRange[to] /\ HalfRange[to] \in Nat
      /\ MoveZero(pos0, TRUE, HalfRange[to]) /\ pos0 \in Int
  BY <1>1, HalfRangeNat DEF setVoltbaseIndex, TypeOK
<1>4. /\ pos0' \in -HalfRange[to]..HalfRange[to] /\ pos0' \in Int /\ told' \in Int
      /\ stale' \subseteq Stale
      /\ "threshold" \notin stale' => told' = pos0'
  BY <1>2, <1>3, MoveZeroFacts
<1>5. /\ machine \in Settings /\ vbIdx \in Volts /\ bandlimit \in BOOLEAN
      /\ machine.band \in BOOLEAN /\ todo \in Seq(RangeChange)
  BY DEF TypeOK, Settings
<1>6. /\ BandSent(vbIdx, to) \in BOOLEAN
      /\ machine.band = isBandlimit
           => BandSent(vbIdx, to) = isBandlimitAt(to, bandlimit)
  BY <1>5, BandSentFacts
<1>7. /\ machine' \in Settings /\ machine'.vb = to /\ machine'.pos0 = pos0'
      /\ machine'.band = BandSent(vbIdx, to)
      /\ machine'.on = machine.on /\ machine'.coupling = machine.coupling
  BY <1>1, <1>4, <1>5, <1>6 DEF SendVoltage, Settings
<1> DEFINE change == [from |-> vbIdx, to |-> to]
<1>8. /\ todo' = Append(todo, change) /\ todo' \in Seq(RangeChange)
      /\ Len(todo') = Len(todo) + 1 /\ todo'[Len(todo) + 1] = change
      /\ \A i \in 1..Len(todo) : todo'[i] = todo[i]
  BY <1>1, <1>5 DEF SendVoltage, RangeChange
<1>9. TypeOK'
  <2>1. Len(todo') <= MaxTodo
    BY <1>2, <1>5, <1>8, MaxTodoAssumption
  <2> QED BY <1>2, <1>3, <1>4, <1>7, <1>8, <2>1 DEF TypeOK, Stale
<1>10. SavedInRange' /\ StoppedIdle' /\ ZeroInRange' /\ ThresholdFollows'
  BY <1>2, <1>3, <1>4 DEF SavedInRange, StoppedIdle, ZeroInRange, ThresholdFollows
<1>11. MachineAgrees'
  BY <1>2, <1>3, <1>6, <1>7 DEF MachineAgrees, isBandlimit
\* The change starts where the last one waiting ends: in the range in force.
<1>12. ThresholdChain'
  <2>1. Len(todo) \in Nat
    BY <1>5
  <2>2. Last(todo').to = vbIdx'
    BY <1>3, <1>8 DEF Last
  <2>3. ASSUME NEW i \in 1..Len(todo') - 1 PROVE todo'[i].to = todo'[i + 1].from
    <3>1. i \in 1..Len(todo) /\ todo # <<>>
      BY <1>8, <2>1, <2>3
    <3>2. Last(todo).to = vbIdx /\ \A k \in 1..Len(todo) - 1 : todo[k].to = todo[k + 1].from
      BY <3>1 DEF ThresholdChain
    <3>3. CASE i = Len(todo)
      BY <1>8, <2>1, <3>1, <3>2, <3>3 DEF Last
    <3>4. CASE i # Len(todo)
      <4>1. i \in 1..Len(todo) - 1 /\ i + 1 \in 1..Len(todo)
        BY <2>1, <3>1, <3>4
      <4> QED BY <1>8, <3>1, <3>2, <4>1
    <3> QED BY <3>3, <3>4
  <2> QED BY <2>2, <2>3 DEF ThresholdChain
<1> QED BY <1>9, <1>10, <1>11, <1>12

\* The first of the callbacks waiting has run: the others still lead, each from
\* the end of the one before, to the range in force.
LEMMA CallbackIInv == IInv /\ RunCallback => IInv'
<1> SUFFICES ASSUME IInv, RunCallback PROVE IInv'
  OBVIOUS
<1> USE DEF IInv
<1>1. /\ todo \in Seq(RangeChange) /\ todo # <<>> /\ todo' = Tail(todo)
      /\ UNCHANGED <<running, settings, zeroVars, machine, file, synced>>
  BY DEF RunCallback, TypeOK
<1>2. /\ todo' \in Seq(RangeChange) /\ Len(todo) \in Nat \ {0}
      /\ Len(todo') = Len(todo) - 1
      /\ \A i \in 1..Len(todo') : todo'[i] = todo[i + 1]
  BY <1>1
<1>3. TypeOK'
  <2>1. Len(todo') <= MaxTodo
    BY <1>2, MaxTodoAssumption DEF TypeOK
  <2> QED BY <1>1, <1>2, <2>1 DEF TypeOK, settings, zeroVars
<1>4. SavedInRange' /\ ZeroInRange' /\ MachineAgrees' /\ ThresholdFollows'
  BY <1>1 DEF settings, zeroVars, SavedInRange, ZeroInRange, MachineAgrees,
     ThresholdFollows, isBandlimit
<1>5. StoppedIdle'
  BY <1>1 DEF StoppedIdle
<1>6. ThresholdChain'
  <2>1. /\ Last(todo).to = vbIdx
        /\ \A k \in 1..Len(todo) - 1 : todo[k].to = todo[k + 1].from
    BY <1>1 DEF ThresholdChain
  <2>2. ASSUME todo' # <<>> PROVE Last(todo').to = vbIdx'
    <3>1. Len(todo') \in 1..Len(todo') /\ todo'[Len(todo')] = todo[Len(todo)]
      BY <1>2, <2>2
    <3> QED BY <1>1, <2>1, <3>1 DEF Last, settings
  <2>3. ASSUME NEW i \in 1..Len(todo') - 1 PROVE todo'[i].to = todo'[i + 1].from
    <3>1. i \in 1..Len(todo') /\ i + 1 \in 1..Len(todo') /\ i + 1 \in 1..Len(todo) - 1
      BY <1>2
    <3> QED BY <1>2, <2>1, <3>1
  <2> QED BY <2>2, <2>3 DEF ThresholdChain
<1> QED BY <1>3, <1>4, <1>5, <1>6

-----------------------------------------------------------------------------
(* The switches.                                                           *)

LEMMA SwitchIInv ==
  IInv /\ (c_setBandLimit \/ c_setCoupling \/ c_setNextCoupling) => IInv'
<1> SUFFICES ASSUME IInv, c_setBandLimit \/ c_setCoupling \/ c_setNextCoupling
             PROVE  IInv'
  OBVIOUS
<1> USE DEF IInv
<1>1. \A c \in Couplings : (c + 1) % NCouplings \in Couplings
  BY NCouplingsAssumption DEF Couplings
<1>2. /\ machine \in Settings /\ couplingIdx \in Couplings /\ vbIdx \in Volts
  BY DEF TypeOK
<1>3. /\ running
      /\ UNCHANGED <<running, on, vbIdx, pos0HalfRange, pos0, told, stale, file,
                     todo, synced>>
  BY DEF c_setBandLimit, c_setCoupling, c_setNextCoupling, SendCoupling, zeroVars
<1>4. CASE c_setBandLimit
  <2>1. PICK bl \in BOOLEAN : /\ bandlimit' = bl
                              /\ machine' = [machine EXCEPT !.band = isBandlimitAt(vbIdx, bl)]
    BY <1>4 DEF c_setBandLimit
  <2>2. isBandlimitAt(vbIdx, bl) \in BOOLEAN /\ UNCHANGED couplingIdx
    BY <1>2, <1>4, BandBoolean DEF c_setBandLimit
  <2>3. machine' \in Settings
    BY <1>2, <2>1, <2>2 DEF Settings
  <2>4. TypeOK'
    BY <1>3, <2>1, <2>2, <2>3 DEF TypeOK
  <2>5. MachineAgrees'
    BY <1>2, <1>3, <2>1, <2>2 DEF MachineAgrees, isBandlimit, Settings
  <2> QED BY <1>3, <2>4, <2>5 DEF SavedInRange, StoppedIdle, ZeroInRange,
       ThresholdFollows, ThresholdChain
<1>5. CASE c_setCoupling \/ c_setNextCoupling
  <2>1. PICK c \in Couplings : SendCoupling(c)
    BY <1>1, <1>2, <1>5 DEF c_setCoupling, c_setNextCoupling
  <2>2. /\ couplingIdx' = c /\ machine' = [machine EXCEPT !.coupling = c]
        /\ UNCHANGED bandlimit
    BY <2>1 DEF SendCoupling
  <2>3. machine' \in Settings
    BY <1>2, <2>2 DEF Settings
  <2>4. TypeOK'
    BY <1>3, <2>2, <2>3 DEF TypeOK
  <2>5. MachineAgrees'
    BY <1>2, <1>3, <2>2 DEF MachineAgrees, isBandlimit, Settings
  <2> QED BY <1>3, <2>4, <2>5 DEF SavedInRange, StoppedIdle, ZeroInRange,
       ThresholdFollows, ThresholdChain
<1> QED BY <1>4, <1>5

LEMMA OnIInv == IInv /\ c_setOn => IInv'
<1> SUFFICES ASSUME IInv, c_setOn PROVE IInv'
  OBVIOUS
<1> USE DEF IInv
<1>1. /\ running /\ on' \in BOOLEAN /\ c_SyncChannel(on')
      /\ stale' = IF on' THEN stale \ {"machine"} ELSE stale
      /\ synced' = (synced \/ on')
      /\ UNCHANGED <<running, vbIdx, pos0HalfRange, bandlimit, couplingIdx, pos0,
                     told, file, todo>>
  BY DEF c_setOn
<1>2. /\ machine \in Settings /\ vbIdx \in Volts /\ bandlimit \in BOOLEAN
      /\ couplingIdx \in Couplings /\ pos0 \in Int /\ isBandlimit \in BOOLEAN
  BY BandBoolean DEF TypeOK, isBandlimit
<1>3. machine' \in Settings
  BY <1>1, <1>2 DEF c_SyncChannel, Settings
<1>4. TypeOK'
  <2>1. synced' \in BOOLEAN /\ stale' \subseteq Stale
    BY <1>1 DEF TypeOK, Stale
  <2> QED BY <1>1, <1>3, <2>1 DEF TypeOK, Stale
<1>5. SavedInRange' /\ StoppedIdle' /\ ZeroInRange' /\ ThresholdFollows' /\ ThresholdChain'
  BY <1>1 DEF SavedInRange, StoppedIdle, ZeroInRange, ThresholdFollows, ThresholdChain
<1>6. MachineAgrees'
  <2>1. CASE on' = TRUE
    BY <1>1, <2>1 DEF c_SyncChannel, MachineAgrees, isBandlimit
  <2>2. CASE on' = FALSE
    BY <1>1, <1>2, <2>2 DEF c_SyncChannel, MachineAgrees, isBandlimit, Settings
  <2> QED BY <1>1, <2>1, <2>2
<1> QED BY <1>3, <1>4, <1>5, <1>6

LEMMA NextIInv == IInv /\ [Next]_vars => IInv'
<1>1. IInv /\ UNCHANGED vars => IInv'
  BY DEF IInv, TypeOK, SavedInRange, StoppedIdle, ZeroInRange, MachineAgrees,
     ThresholdFollows, ThresholdChain, isBandlimit, vars, settings, zeroVars
<1> QED BY <1>1, LoadIInv, StopIInv, SetZeroIInv, SnapshotIInv, VoltageIInv,
     CallbackIInv, SwitchIInv, OnIInv DEF Next

THEOREM Invariant == Spec => []IInv
<1> QED BY InitIInv, NextIInv, PTL DEF Spec

-----------------------------------------------------------------------------
\* No index that is read from the file, typed in or counted up leaves its
\* table, and the half range is always the one of the range in force.
THEOREM TypeCorrect == Spec => []TypeOK
<1>1. IInv => TypeOK
  BY DEF IInv
<1> QED BY <1>1, Invariant, PTL

\* Unless a snapshot moved it, the zero is where the range in force allows
\* it, whatever ranges there are: after a save and a load too, because the
\* file is the program's own.  It starts with the defaults and nobody but
\* persist writes it; load would not restrict the zero of another file.
THEOREM ZeroStaysInRange == Spec => []ZeroInRange
<1>1. IInv => ZeroInRange
  BY DEF IInv
<1> QED BY <1>1, Invariant, PTL

\* A machine that was synchronised works with the settings on the screen.
THEOREM MachineInStep == Spec => []MachineAgrees
<1>1. IInv => MachineAgrees
  BY DEF IInv
<1> QED BY <1>1, Invariant, PTL

\* The moves the thresholds were told of add up to the zero, restricted moves
\* included.
THEOREM ThresholdsTold == Spec => []ThresholdFollows
<1>1. IInv => ThresholdFollows
  BY DEF IInv
<1> QED BY <1>1, Invariant, PTL

\* However many callbacks wait, they lead without a gap to the range in force.
THEOREM ThresholdsChain == Spec => []ThresholdChain
<1>1. IInv => ThresholdChain
  BY DEF IInv
<1> QED BY <1>1, Invariant, PTL

\* Within a run of the program no change of range, forcing the limit or not,
\* touches the user's choice.  It says nothing of the choice across a save and
\* a load: persist saves the forced limit in its place.
THEOREM ChoiceStays == Spec => ChoiceKept
<1>1. [Next]_vars => [bandlimit' # bandlimit => load \/ Stop \/ c_setBandLimit]_vars
  BY DEF Next, c_setZero, snapShot2ChannelDataInfo, c_setVoltage, RunCallback,
     c_setCoupling, c_setNextCoupling, SendCoupling, c_setOn, settings, vars
<1> QED BY <1>1, PTL DEF Spec, ChoiceKept
=============================================================================
