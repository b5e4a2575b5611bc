------------------------------ MODULE VdsProofs ------------------------------
(***************************************************************************)
(* What holds of the threads of the user interface for any ports, servers, *)
(* times and notices: the invariants of ServerControl, BindFailsForOthers, *)
(* KeptShown, StaysOff, and the types of all three machines together.      *)
(***************************************************************************)
EXTENDS MCVds, TLAPS

-----------------------------------------------------------------------------
(* ServerControl.  Its properties speak of setPort between two calls; the  *)
(* invariant says how far each step of setPort has got, which is what      *)
(* carries them from one call to the next.                                 *)

\* A thread opens its channel first of all and then binds it; nobody else does.
OpenedByThread ==
  \A i \in Servers : /\ chan[i] = "null" <=> th[i] \in {"none", "new"}
                     /\ th[i] = "opened" => chan[i] # "bound"

\* Whoever is started and not ServerControl's server has been terminated.
OthersTerminated ==
  \A i \in Servers : Started(i) /\ i # current => chan[i] = "closed" /\ isExit[i]

\* Whose socket is closed has been told to exit before.
ClosedTold == \A i \in Servers : chan[i] = "closed" => isExit[i]

\* How far setPort has got with the server it replaces.
Replacing ==
  /\ ui \in {"wakeup", "exit", "close", "drop"} => current # 0
  /\ ui = "store" => current = 0
  /\ ui # "idle" => Valid(asked)
  /\ ui \in {"close", "drop"} => isExit[current]
  /\ ui = "drop" => chan[current] = "closed"

\* ServerControl's server is a thread, on the port that is saved.
CurrentServes == current # 0 => Started(current) /\ port[current] = mPort

ControlIInv == /\ TypeOK /\ OpenedByThread /\ OthersTerminated /\ ClosedTold
               /\ Replacing /\ CurrentServes /\ CurrentLives

-----------------------------------------------------------------------------
LEMMA ControlInit == Init => ControlIInv
<1> SUFFICES ASSUME Init PROVE ControlIInv
  OBVIOUS
<1> USE PortsAssumption, MaxServersAssumption
<1>1. TypeOK
  <2>1. mPort \in Nat /\ current \in {0, 1} /\ 1 \in Servers /\ current \in 0..MaxServers
    BY DEF Init, Servers
  <2>2. ASSUME NEW i \in Servers, Started(i) PROVE Valid(port[i])
    <3>1. i = current
      BY <2>2 DEF Init, Started
    <3>2. Valid(mPort) /\ i = 1
      BY <2>1, <3>1 DEF Init, Servers
    <3> QED BY <3>2 DEF Init
  <2> QED BY <2>1, <2>2 DEF Init, TypeOK
<1>2. OpenedByThread /\ OthersTerminated /\ ClosedTold
  BY DEF Init, OpenedByThread, OthersTerminated, ClosedTold, Started, Servers
<1>3. Replacing /\ CurrentServes /\ CurrentLives
  BY DEF Init, Replacing, CurrentServes, CurrentLives, Ended, Started, Servers, Valid
<1> QED BY <1>1, <1>2, <1>3 DEF ControlIInv

\* The steps of setPort.
LEMMA SetPortStep ==
  ASSUME ControlIInv, NEW p \in Ports, SetPort(p) \/ SetPortRefused(p) \/ SetPortThrows
  PROVE  ControlIInv'
<1> USE PortsAssumption DEF ControlIInv, serverVars
<1>1. TypeOK'
  BY DEF TypeOK, SetPort, SetPortRefused, SetPortThrows, Started
<1>2. UNCHANGED <<mPort, current, serverVars>>
  BY DEF SetPort, SetPortRefused, SetPortThrows
<1>3. OpenedByThread' /\ OthersTerminated' /\ ClosedTold' /\ CurrentServes'
  BY <1>2 DEF OpenedByThread, OthersTerminated, ClosedTold, CurrentServes, Started
<1>4. Replacing' /\ CurrentLives'
  BY DEF Replacing, CurrentLives, Ended, serverVars, SetPort, SetPortRefused, SetPortThrows
<1> QED BY <1>1, <1>3, <1>4

LEMMA UiSteps == ControlIInv /\ UiStep => ControlIInv'
<1> SUFFICES ASSUME ControlIInv, UiStep PROVE ControlIInv'
  OBVIOUS
<1> USE MaxServersAssumption DEF ControlIInv
<1>1. CASE Wakeup
  BY <1>1 DEF Wakeup, TypeOK, OpenedByThread, OthersTerminated, Replacing,
     CurrentServes, CurrentLives, ClosedTold, Ended, Started, Valid, Servers
<1>2. CASE SetExit
  BY <1>2 DEF SetExit, TypeOK, OpenedByThread, OthersTerminated, Replacing,
     CurrentServes, CurrentLives, ClosedTold, Ended, Started, Valid, Servers
<1>3. CASE Close
  <2>1. current # 0 /\ current \in Servers
    BY <1>3 DEF Close, Replacing, TypeOK, Servers
  <2>2. TypeOK'
    BY <1>3, <2>1 DEF Close, TypeOK, Started
  <2>3. OpenedByThread' /\ OthersTerminated' /\ ClosedTold' /\ CurrentServes'
    BY <1>3, <2>1 DEF Close, TypeOK, OpenedByThread, OthersTerminated, ClosedTold,
       CurrentServes, Replacing, Started
  <2>4. Replacing' /\ CurrentLives'
    BY <1>3, <2>1 DEF Close, TypeOK, Replacing, CurrentLives, Ended, Valid
  <2> QED BY <2>2, <2>3, <2>4
<1>4. CASE Drop
  BY <1>4 DEF Drop, TypeOK, OpenedByThread, OthersTerminated, Replacing,
     CurrentServes, CurrentLives, ClosedTold, Ended, Started, Valid, Servers, serverVars
<1>5. CASE Restart
  <2>1. PICK n \in Servers : /\ \A i \in Servers : Started(i) <=> i < n
                             /\ StartServer(asked, n)
    BY <1>5 DEF Restart
  <2>2. ~Started(n) /\ n \in Nat \ {0}
    BY <2>1 DEF Servers
  <2> QED BY <1>5, <2>1, <2>2 DEF Restart, StartServer, TypeOK, OpenedByThread,
       OthersTerminated, Replacing, CurrentServes, CurrentLives, ClosedTold, Ended,
       Started, Valid, Servers
<1> QED BY <1>1, <1>2, <1>3, <1>4, <1>5 DEF UiStep

\* At most one server listens, whatever their ports, and it is the current one.
LEMMA OneListener ==
  ASSUME ControlIInv, NEW i \in Servers, chan[i] \in {"open", "bound"}
  PROVE  i = current
BY DEF ControlIInv, OpenedByThread, OthersTerminated, Started

LEMMA BindAlone ==
  ASSUME ControlIInv, NEW i \in Servers, BindFails(i)
  PROVE  port[i] \in Taken \/ chan[i] = "closed"
<1>1. SUFFICES ASSUME chan[i] # "closed", NEW j \in Servers,
                      chan[j] = "bound", port[j] = port[i]
               PROVE  FALSE
  BY DEF BindFails, InUse
<1>2. th[i] = "opened"
  BY DEF BindFails, At
<1>3. i = current
  BY <1>1, <1>2 DEF ControlIInv, OthersTerminated, Started
<1>4. j = current
  BY <1>1, OneListener
<1> QED BY <1>1, <1>2, <1>3, <1>4 DEF ControlIInv, OpenedByThread

\* A server's thread leaves setPort, and the servers it has terminated, alone.
LEMMA ServerSteps == ASSUME ControlIInv, NEW i \in Servers, ServerStep(i) PROVE ControlIInv'
<1> USE DEF ControlIInv, At, Goto, uiVars
<1>1. CASE OpenChannel(i)
  BY <1>1 DEF OpenChannel, TypeOK, OpenedByThread, OthersTerminated, ClosedTold, Replacing,
     CurrentServes, CurrentLives, Ended, Started, Valid, Servers
<1>2. CASE Bind(i)
  BY <1>2 DEF Bind, TypeOK, OpenedByThread, OthersTerminated, ClosedTold, Replacing,
     CurrentServes, CurrentLives, Ended, Started, Valid, Servers
\* The rest of a thread's life neither opens nor closes its channel, and ends
\* it only for a reason.
<1>3. ASSUME TypeOK', UNCHANGED <<uiVars, port, isExit, chan>>,
             th[i] \notin {"none", "new"},
             NEW there \in {"check", "select", "round", "dm", "ended", "dead"},
             Goto(i, there),
             there \in {"ended", "dead"} /\ i = current
               => port[i] \in Taken \/ isExit[i]
      PROVE  ControlIInv'
  <2>1. OpenedByThread' /\ OthersTerminated' /\ ClosedTold' /\ CurrentServes'
    BY <1>3 DEF TypeOK, OpenedByThread, OthersTerminated, ClosedTold, CurrentServes, Started
  <2>2. Replacing'
    BY <1>3 DEF Replacing
  <2>3. CurrentLives'
    BY <1>3 DEF CurrentLives, Ended, TypeOK
  <2> QED BY <1>3, <2>1, <2>2, <2>3
<1>4. CASE BindFails(i)
  <2>1. port[i] \in Taken \/ isExit[i]
    BY <1>4, BindAlone DEF ClosedTold
  <2> QED BY <1>3, <1>4, <2>1 DEF BindFails, TypeOK, Started
<1>5. CASE Register(i)
  <2>1. CASE chan[i] = "closed"
    BY <1>3, <1>5, <2>1 DEF Register, TypeOK, Started, ClosedTold
  <2>2. CASE chan[i] # "closed"
    BY <1>3, <1>5, <2>2 DEF Register, TypeOK, Started
  <2> QED BY <2>1, <2>2
<1>6. CASE Check(i)
  <2>1. CASE isExit[i]
    BY <1>3, <1>6, <2>1 DEF Check, TypeOK, Started
  <2>2. CASE ~isExit[i]
    BY <1>3, <1>6, <2>2 DEF Check, TypeOK, Started
  <2> QED BY <2>1, <2>2
<1>7. CASE DmDecide(i)
  <2>1. CASE current = 0
    <3>1. i # current
      BY <2>1 DEF Servers
    <3> QED BY <1>3, <1>7, <2>1, <3>1 DEF DmDecide, TypeOK, Started
  <2>2. CASE current # 0
    BY <1>3, <1>7, <2>2 DEF DmDecide, TypeOK, Started
  <2> QED BY <2>1, <2>2
<1>8. CASE SelectReturns(i)
  BY <1>3, <1>8 DEF SelectReturns, TypeOK, Started
<1>9. CASE AcceptClient(i)
  <2>1. CASE th' = th
    BY <1>9, <2>1 DEF AcceptClient, TypeOK, OpenedByThread, OthersTerminated, ClosedTold,
       Replacing, CurrentServes, CurrentLives, Ended, Started
  <2>2. CASE chan[i] = "closed" /\ Goto(i, "dead") /\ UNCHANGED clients
    BY <1>3, <1>9, <2>2 DEF AcceptClient, TypeOK, Started, ClosedTold
  <2> QED BY <1>9, <2>1, <2>2 DEF AcceptClient
<1>10. CASE RoundEnds(i)
  BY <1>3, <1>10 DEF RoundEnds, TypeOK, Started
<1>11. ASSUME NEW r \in BOOLEAN, DmBegin(i, r) PROVE ControlIInv'
  BY <1>3, <1>11 DEF DmBegin, TypeOK, Started
<1> QED BY <1>1, <1>2, <1>4, <1>5, <1>6, <1>7, <1>8, <1>9, <1>10, <1>11 DEF ServerStep, OwnStep

LEMMA ControlNext == ControlIInv /\ [Next]_vars => ControlIInv'
<1>1. ControlIInv /\ UNCHANGED vars => ControlIInv'
  BY DEF ControlIInv, TypeOK, OpenedByThread, OthersTerminated, ClosedTold, Replacing,
     CurrentServes, CurrentLives, Ended, Started, Valid, vars, uiVars, serverVars
<1>2. ControlIInv /\ SetPortThrows => ControlIInv'
  BY DEF ControlIInv, TypeOK, OpenedByThread, OthersTerminated, ClosedTold, Replacing,
     CurrentServes, CurrentLives, Ended, SetPortThrows, Started, Valid, serverVars
<1> QED BY <1>1, <1>2, SetPortStep, UiSteps, ServerSteps DEF Next

THEOREM ControlInvariant == Spec => []ControlIInv
<1> QED BY ControlInit, ControlNext, PTL DEF Spec

-----------------------------------------------------------------------------
\* Every field keeps its type, and every thread was started on a valid port.
THEOREM TypeCorrect == Spec => []TypeOK
<1>1. ControlIInv => TypeOK
  BY DEF ControlIInv
<1> QED BY <1>1, ControlInvariant, PTL

\* Whenever setPort is at rest or about to start a server, all the servers it
\* has replaced have given up their port and know that they are to end.
THEOREM ReplacedGone == Spec => []ReplacedIsClosed
<1>1. ControlIInv => ReplacedIsClosed
  BY DEF ControlIInv, OthersTerminated, ReplacedIsClosed
<1> QED BY <1>1, ControlInvariant, PTL

\* persist() saves the port socketServer was created with, however setPort ended.
THEOREM SavedCurrent == Spec => []SavedPortIsCurrent
<1>1. ControlIInv => SavedPortIsCurrent
  BY DEF ControlIInv, CurrentServes, SavedPortIsCurrent
<1> QED BY <1>1, ControlInvariant, PTL

\* The thread of the server in use ends only when another program has its port
\* or setPort has told it to exit, wherever the threads of the servers before
\* it are: still opening, selecting, or in the middle of a deep memory answer.
THEOREM CurrentStaysAlive == Spec => []CurrentLives
<1>1. ControlIInv => CurrentLives
  BY DEF ControlIInv
<1> QED BY <1>1, ControlInvariant, PTL

\* No server keeps another from its port: a bind that fails does so because
\* of a program outside, or because the server has itself been replaced.
THEOREM BindsAlone == Spec => BindFailsForOthers
<1>1. ControlIInv => \A i \in Servers : BindFails(i) => port[i] \in Taken \/ chan[i] = "closed"
  BY BindAlone
<1> QED BY <1>1, ControlInvariant, PTL DEF BindFailsForOthers

-----------------------------------------------------------------------------
(* Notice.  mstime is the sum of the times of the notices still shown by   *)
(* KeepNoticeDialog.  The invariant holds that sum as a function: left[n]  *)
(* is what the first n threads add up to.                                  *)

Owed(n) == IF notices[n].window = "KeepNoticeDialog" /\ notices[n].at = "asleep"
           THEN notices[n].time ELSE 0

AddsUp(left) ==
  /\ left[0] = 0 /\ left[MaxNotices] = mstime
  /\ \A n \in Threads : left[n] = left[n - 1] + Owed(n)
  /\ \A i, j \in 0..MaxNotices : i <= j => left[i] <= left[j]

KeptAddUp == \E left \in [0..MaxNotices -> 0..mstime] : AddsUp(left)

NoticeIInv == NoticeTypeOK /\ KeptAddUp /\ KeptShown

LEMMA NoticeInitIInv == NoticeInit => NoticeIInv
<1> SUFFICES ASSUME NoticeInit PROVE NoticeIInv
  OBVIOUS
<1> USE MaxNoticesAssumption
<1>1. NoticeTypeOK /\ KeptShown
  BY DEF NoticeInit, NoticeTypeOK, KeptShown, Windows, NoticeStates
<1>2. \A n \in Threads : Owed(n) = 0
  BY DEF NoticeInit, Owed
<1> DEFINE none == [n \in 0..MaxNotices |-> 0]
<1>3. none \in [0..MaxNotices -> 0..mstime]
  BY DEF NoticeInit
<1>4. AddsUp(none)
  BY <1>2 DEF NoticeInit, AddsUp, Threads
<1> QED BY <1>1, <1>3, <1>4 DEF NoticeIInv, KeptAddUp

LEMMA NoticeTime ==
  ASSUME NoticeTypeOK, NEW n \in Threads
  PROVE  /\ notices[n] \in [window : Windows, time : Times \cup {0}, at : NoticeStates]
         /\ notices[n].time \in Nat
<1>1. notices[n] \in [window : Windows, time : Times \cup {0}, at : NoticeStates]
  BY DEF NoticeTypeOK
<1>2. notices[n].time \in Times \cup {0}
  BY <1>1
<1>3. notices[n].time \in Nat
  BY <1>2, TimesAssumption
<1> QED BY <1>1, <1>3

\* What a notice still has to be shown is part of what is left.
LEMMA OwedLeft ==
  ASSUME NoticeTypeOK, KeptAddUp, NEW n \in Threads
  PROVE  Owed(n) \in Nat /\ Owed(n) <= mstime
<1> USE MaxNoticesAssumption
<1>1. Owed(n) \in Nat
  BY NoticeTime DEF Owed
<1>2. PICK left \in [0..MaxNotices -> 0..mstime] : AddsUp(left)
  BY DEF KeptAddUp
<1>3. n \in 0..MaxNotices /\ n - 1 \in 0..MaxNotices /\ mstime \in Nat
  BY DEF Threads, NoticeTypeOK
<1>4. left[n] = left[n - 1] + Owed(n) /\ left[n] \in 0..mstime /\ left[n - 1] \in 0..mstime
  BY <1>2, <1>3 DEF AddsUp
<1> QED BY <1>1, <1>3, <1>4

\* The same of every notice, in the next state.
OwedInTime == \A n \in Threads : Owed(n) \in Nat /\ Owed(n) <= mstime

LEMMA OwedLeftNext == NoticeTypeOK' /\ KeptAddUp' => OwedInTime'
<1>1. NoticeTypeOK /\ KeptAddUp => OwedInTime
  BY OwedLeft DEF OwedInTime
<1> QED BY <1>1, PTL

\* The sum follows when one of its terms changes.
LEMMA OneOwedChanges ==
  ASSUME NoticeTypeOK, KeptAddUp, NEW k \in Threads, NEW d \in Int,
         mstime' = mstime + d, Owed(k)' = Owed(k) + d, Owed(k)' \in Nat,
         \A n \in Threads : n # k => Owed(n)' = Owed(n)
  PROVE  KeptAddUp'
<1> USE MaxNoticesAssumption
<1>1. PICK left \in [0..MaxNotices -> 0..mstime] : AddsUp(left)
  BY DEF KeptAddUp
<1> DEFINE next == [n \in 0..MaxNotices |-> IF n >= k THEN left[n] + d ELSE left[n]]
<1>2. k \in 1..MaxNotices /\ mstime \in Nat /\ Owed(k) \in Nat
  BY OwedLeft DEF Threads, NoticeTypeOK
<1>3. \A n \in 0..MaxNotices : left[n] \in Nat
  BY <1>2
<1>4. left[k] = left[k - 1] + Owed(k)
  BY <1>1 DEF AddsUp
<1>5. ASSUME NEW i \in 0..MaxNotices, NEW j \in 0..MaxNotices, i <= j
      PROVE  next[i] <= next[j]
  <2>1. left[i] <= left[j]
    BY <1>1, <1>5 DEF AddsUp
  <2>2. CASE i < k /\ j >= k
    <3>1. left[i] <= left[k - 1] /\ left[k] <= left[j]
      BY <1>1, <1>2, <2>2 DEF AddsUp
    <3>2. left[k - 1] <= left[j] + d
      BY <1>2, <1>3, <1>4, <3>1
    <3> QED BY <1>2, <1>3, <2>2, <3>1, <3>2
  <2>3. CASE ~(i < k /\ j >= k)
    BY <1>2, <1>3, <1>5, <2>1, <2>3
  <2> QED BY <2>2, <2>3
<1>6. next[0] = 0 /\ next[MaxNotices] = mstime'
  BY <1>1, <1>2 DEF AddsUp
<1>7. ASSUME NEW n \in Threads PROVE next[n] = next[n - 1] + Owed(n)'
  <2>1. left[n] = left[n - 1] + Owed(n) /\ Owed(n) \in Nat
    BY <1>1, OwedLeft DEF AddsUp
  <2>2. n \in 0..MaxNotices /\ n - 1 \in 0..MaxNotices
    BY DEF Threads
  <2>3. CASE n = k
    BY <1>2, <1>3, <2>1, <2>2, <2>3
  <2>4. CASE n # k
    <3>1. Owed(n)' = Owed(n)
      BY <2>4
    <3>2. n - 1 >= k <=> n >= k
      BY <1>2, <2>2, <2>4
    <3> QED BY <1>2, <1>3, <2>1, <2>2, <3>1, <3>2
  <2> QED BY <2>3, <2>4
<1>8. next \in [0..MaxNotices -> 0..mstime']
  <2>1. ASSUME NEW n \in 0..MaxNotices PROVE next[n] \in 0..mstime'
    <3>1. next[0] <= next[n] /\ next[n] <= next[MaxNotices]
      BY <1>5
    <3>2. next[n] \in Int /\ mstime' \in Int
      BY <1>2, <1>3
    <3> QED BY <1>6, <3>1, <3>2
  <2> QED BY <2>1
<1>9. AddsUp(next)'
  BY <1>5, <1>6, <1>7 DEF AddsUp, Threads
<1> QED BY <1>8, <1>9 DEF KeptAddUp

\* A step that leaves the notices owed, and the time left, as they are.
LEMMA NothingOwed ==
  ASSUME NoticeTypeOK, KeptAddUp, UNCHANGED mstime,
         \A n \in Threads : Owed(n)' = Owed(n)
  PROVE  KeptAddUp'
BY DEF KeptAddUp, AddsUp

LEMMA NoticeThreads ==
  ASSUME NoticeIInv, NEW k \in Threads, NoticeThread(k)
  PROVE  NoticeIInv'
<1> USE DEF NoticeIInv, NoticeAt, NoticeGoto
<1>1. /\ notices[k] \in [window : Windows, time : Times \cup {0}, at : NoticeStates]
      /\ notices[k].time \in Nat /\ mstime \in Nat
  BY NoticeTime DEF NoticeTypeOK
<1>2. \E there \in NoticeStates : NoticeGoto(k, there)
  BY DEF NoticeThread, Show, Dispose, Keep, Release, NoticeStates
<1>3. \A n \in Threads : n # k => notices'[n] = notices[n] /\ Owed(n)' = Owed(n)
  BY <1>2 DEF NoticeTypeOK, Owed
<1>4. notices' \in [Threads -> [window : Windows, time : Times \cup {0},
                               at : NoticeStates]]
  BY <1>1, <1>2 DEF NoticeTypeOK
<1>5. CASE Show(k) \/ Dispose(k)
  <2>1. NoticeTypeOK' /\ UNCHANGED mstime
    <3>1. visible' \in [Windows -> BOOLEAN]
      BY <1>5 DEF Show, Dispose, NoticeTypeOK, Windows
    <3>2. UNCHANGED <<mstime, closed>>
      BY <1>5 DEF Show, Dispose
    <3> QED BY <1>4, <3>1, <3>2 DEF NoticeTypeOK
  <2>2. Owed(k)' = Owed(k)
    BY <1>1, <1>5 DEF Show, Dispose, Owed, NoticeTypeOK
  <2>3. KeptAddUp'
    BY <1>3, <2>1, <2>2, NothingOwed
  <2>4. KeptShown'
    BY <1>5 DEF Show, Dispose, KeptShown, NoticeTypeOK, Windows
  <2> QED BY <2>1, <2>3, <2>4
<1>6. CASE Keep(k)
  <2>1. NoticeTypeOK' /\ mstime' = mstime + notices[k].time
    BY <1>1, <1>4, <1>6 DEF Keep, NoticeTypeOK, Windows
  <2>2. Owed(k) = 0 /\ Owed(k)' = notices[k].time
    BY <1>1, <1>6 DEF Keep, Owed, NoticeTypeOK
  <2>3. KeptAddUp'
    BY <1>1, <1>3, <2>1, <2>2, OneOwedChanges
  <2>4. KeptShown'
    BY <1>6 DEF Keep, KeptShown, NoticeTypeOK, Windows
  <2> QED BY <2>1, <2>3, <2>4
<1>7. CASE Release(k)
  <2>1. Owed(k) = notices[k].time /\ Owed(k)' = 0
    BY <1>1, <1>7 DEF Release, Owed, NoticeTypeOK
  \* The notice's time is part of mstime: no time is left over or missing.
  <2>2. Owed(k) <= mstime
    BY OwedLeft
  <2>3. mstime' = mstime - notices[k].time
    BY <1>1, <1>7, <2>1, <2>2 DEF Release
  <2>4. NoticeTypeOK'
    <3>1. visible' \in [Windows -> BOOLEAN]
      BY <1>7 DEF Release, NoticeTypeOK, Windows
    <3>2. mstime' \in Nat
      BY <1>1, <2>1, <2>2, <2>3
    <3>3. UNCHANGED closed
      BY <1>7 DEF Release
    <3> QED BY <1>4, <3>1, <3>2, <3>3 DEF NoticeTypeOK
  <2>5. KeptAddUp'
    <3>1. -notices[k].time \in Int /\ mstime' = mstime + (-notices[k].time)
      BY <1>1, <2>3
    <3>2. Owed(k)' = Owed(k) + (-notices[k].time)
      BY <1>1, <2>1
    <3> QED BY <1>3, <2>1, <3>1, <3>2, OneOwedChanges
  <2>6. KeptShown'
    <3>1. CASE mstime' = 0
      <4>1. \A n \in Threads : Owed(n)' = 0
        BY <2>4, <2>5, <3>1, OwedLeftNext DEF OwedInTime
      <4> QED BY <4>1 DEF Owed, KeptShown
    <3>2. CASE mstime' # 0
      <4>1. UNCHANGED <<visible, closed>>
        BY <1>1, <1>7, <2>3, <3>2 DEF Release
      <4>2. notices'[k].at = "ended"
        BY <1>1, <1>7 DEF Release, NoticeTypeOK
      <4> QED BY <1>3, <4>1, <4>2 DEF KeptShown
    <3> QED BY <3>1, <3>2
  <2> QED BY <2>4, <2>5, <2>6
<1> QED BY <1>5, <1>6, <1>7 DEF NoticeThread

LEMMA NoticeNextIInv == NoticeIInv /\ [NoticeNext]_noticeVars => NoticeIInv'
<1> SUFFICES ASSUME NoticeIInv, [NoticeNext]_noticeVars PROVE NoticeIInv'
  OBVIOUS
<1> USE DEF NoticeIInv
<1>1. ASSUME NEW w \in Windows, windowClosed(w) PROVE NoticeIInv'
  <2>1. NoticeTypeOK' /\ UNCHANGED <<notices, mstime>>
    BY <1>1 DEF windowClosed, NoticeTypeOK, Windows
  <2>2. KeptAddUp'
    BY <2>1, NothingOwed DEF Owed
  <2>3. KeptShown'
    BY <1>1 DEF windowClosed, KeptShown, NoticeTypeOK, Windows
  <2> QED BY <2>1, <2>2, <2>3
<1>2. ASSUME NEW w \in Windows, NEW t \in Times, keepShow(w, t) PROVE NoticeIInv'
  <2>1. PICK n \in Threads :
          /\ \A k \in Threads : notices[k].at = "none" <=> k >= n
          /\ notices' = [notices EXCEPT ![n] =
                           [window |-> w, time |-> t, at |-> "started"]]
    BY <1>2 DEF keepShow
  <2>2. notices[n].at = "none"
    BY <2>1 DEF Threads
  <2>3. /\ notices'[n] = [window |-> w, time |-> t, at |-> "started"]
        /\ \A k \in Threads : k # n => notices'[k] = notices[k]
    BY <2>1 DEF NoticeTypeOK
  <2>4. UNCHANGED <<visible, mstime, closed>>
    BY <1>2 DEF keepShow
  <2>5. NoticeTypeOK'
    BY <1>2, <2>1, <2>4 DEF NoticeTypeOK, NoticeStates
  <2>6. \A k \in Threads : Owed(k)' = Owed(k)
    BY <2>2, <2>3 DEF Owed
  <2>7. KeptShown'
    BY <2>3, <2>4 DEF KeptShown
  <2> QED BY <2>4, <2>5, <2>6, <2>7, NothingOwed
<1>3. CASE UNCHANGED noticeVars
  <2>1. NoticeTypeOK' /\ KeptShown'
    BY <1>3 DEF noticeVars, NoticeTypeOK, KeptShown
  <2>2. KeptAddUp'
    BY <1>3, NothingOwed DEF noticeVars, Owed
  <2> QED BY <2>1, <2>2
<1> QED BY <1>1, <1>2, <1>3, NoticeThreads DEF NoticeNext

\* A KeepNoticeDialog with a notice whose time is not over is on the screen,
\* however many notices there are, of whatever times, and in whatever order
\* their threads wake up.
THEOREM KeptOnScreen == NoticeSpec => []KeptShown
<1>1. NoticeIInv => KeptShown
  BY DEF NoticeIInv
<1> QED BY <1>1, NoticeInitIInv, NoticeNextIInv, PTL DEF NoticeSpec

-----------------------------------------------------------------------------
(* Bulletin.                                                               *)

\* While the bulletin is turned off, one change is muted for every one still
\* to come.
MutesLeft == turning = "off" => ~isVisible /\ muteUpdate = 2 - fired

BulletinIInv == BulletinTypeOK /\ MutesLeft

LEMMA BulletinInitIInv == BulletinInit => BulletinIInv
BY OwnUpdatesAssumption DEF BulletinInit, BulletinIInv, BulletinTypeOK, MutesLeft

\* An update shows the bulletin or uses up a mute.
LEMMA UpdateTypes ==
  ASSUME isVisible \in BOOLEAN, muteUpdate \in 0..2, Update
  PROVE  isVisible' \in BOOLEAN /\ muteUpdate' \in 0..2
<1>1. isVisible' = isVisible \/ isVisible' = TRUE
  BY DEF Update
<1>2. \/ muteUpdate' = muteUpdate
      \/ muteUpdate # 0 /\ muteUpdate' = muteUpdate - 1
  BY DEF Update
<1>3. muteUpdate' \in 0..2
  BY <1>2
<1> QED BY <1>1, <1>3

LEMMA BulletinNextIInv == BulletinIInv /\ [BulletinNext]_bulletinVars => BulletinIInv'
<1> SUFFICES ASSUME BulletinIInv, [BulletinNext]_bulletinVars PROVE BulletinIInv'
  OBVIOUS
<1> USE OwnUpdatesAssumption DEF BulletinIInv, BulletinTypeOK, MutesLeft
<1>1. ASSUME NEW on \in BOOLEAN, TurnOn(on) PROVE BulletinIInv'
  BY <1>1 DEF TurnOn
<1>2. CASE mouseClicked
  BY <1>1, <1>2 DEF mouseClicked
<1>3. CASE ValueChanges
  <2>1. isVisible' \in BOOLEAN /\ muteUpdate' \in 0..2
    BY <1>3, UpdateTypes DEF ValueChanges
  <2>2. turning = "no" /\ UNCHANGED <<ison, turning, fired>>
    BY <1>3 DEF ValueChanges
  <2> QED BY <2>1, <2>2
<1>4. CASE OwnUpdate
  <2>1. isVisible' \in BOOLEAN /\ muteUpdate' \in 0..2
    BY <1>4, UpdateTypes DEF OwnUpdate
  <2>2. /\ fired < OwnUpdates /\ fired' = fired + 1
        /\ UNCHANGED <<ison, turning>>
    BY <1>4 DEF OwnUpdate
  <2>3. fired' \in 0..OwnUpdates /\ fired \in 0..1
    BY <2>2
  <2>4. BulletinTypeOK'
    BY <2>1, <2>2, <2>3
  <2>5. ASSUME turning = "off" PROVE ~isVisible' /\ muteUpdate' = 2 - fired'
    \* A change yet to be fired, so a mute left for it.
    <3>1. ~isVisible
      BY <2>5
    <3>2. muteUpdate = 2 - fired
      BY <2>5
    <3>3. muteUpdate # 0
      BY <2>3, <3>2
    <3>4. muteUpdate' = muteUpdate - 1 /\ isVisible' = isVisible
      BY <1>4, <3>1, <3>3 DEF OwnUpdate, Update
    <3>5. muteUpdate' = 2 - fired'
      BY <2>2, <2>3, <3>2, <3>4
    <3> QED BY <3>1, <3>4, <3>5
  <2>6. MutesLeft'
    BY <2>2, <2>5
  <2> QED BY <2>4, <2>6
<1>5. CASE TurnReturns
  BY <1>5 DEF TurnReturns
<1>6. CASE WindowCloses
  BY <1>6 DEF WindowCloses
<1>7. CASE UNCHANGED bulletinVars
  BY <1>7 DEF bulletinVars
<1> QED BY <1>1, <1>2, <1>3, <1>4, <1>5, <1>6, <1>7 DEF BulletinNext

\* A bulletin that is turned off stays off while the mark cursor is, whether
\* that causes no change, one or two, and whatever was muted before.
THEOREM AlwaysStaysOff == BulletinSpec => []StaysOff
<1>1. BulletinIInv => StaysOff
  BY DEF BulletinIInv, MutesLeft, StaysOff
<1> QED BY <1>1, BulletinInitIInv, BulletinNextIInv, PTL DEF BulletinSpec

-----------------------------------------------------------------------------
(* The three machines of a run.                                            *)

LEMMA VdsSteps ==
  ASSUME [VdsNext]_<<part, vars, noticeVars, bulletinVars>>
  PROVE  [Next]_vars /\ [NoticeNext]_noticeVars /\ [BulletinNext]_bulletinVars
BY DEF VdsNext

\* Each machine keeps its types, whichever of the three moves.
THEOREM VdsTypes == VdsSpec => []VdsTypeOK
<1> DEFINE All == ControlIInv /\ NoticeIInv /\ BulletinIInv
<1>1. VdsInit => All
  BY ControlInit, NoticeInitIInv, BulletinInitIInv DEF VdsInit
<1>2. All /\ [VdsNext]_<<part, vars, noticeVars, bulletinVars>> => All'
  BY VdsSteps, ControlNext, NoticeNextIInv, BulletinNextIInv
<1>3. All => VdsTypeOK
  BY DEF ControlIInv, NoticeIInv, BulletinIInv, VdsTypeOK
<1> QED BY <1>1, <1>2, <1>3, PTL DEF VdsSpec
=============================================================================
