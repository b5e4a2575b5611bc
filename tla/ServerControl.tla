--------------------------- MODULE ServerControl ---------------------------
(***************************************************************************)
(* The life of the SCPI servers: ServerControl.java starts, replaces and   *)
(* terminates them from the user interface's thread, while every Server is *)
(* a thread of its own that opens, binds, selects and ends (Server.java).  *)
(* None of the fields the threads share is locked.                         *)
(*                                                                         *)
(* A round of the server is reduced to what touches ServerControl: the     *)
(* clients it accepts and a deep memory answer, ScpiServer has the rest.   *)
(***************************************************************************)
EXTENDS Naturals

CONSTANTS Ports,       \* the ports the user may enter or the file may hold
          Taken,       \* the ports other programs listen on
          MaxServers   \* bound: servers created in a run

VARIABLES
  mPort,     \* the port persist() saves
  current,   \* socketServer: number of a server, 0 for null
  ui,        \* the user interface: "idle", "exited", or inside setPort
  asked,     \* the port setPort was called with
  threw,     \* the last setPort ended in a NullPointerException
  port,      \* port[i]: mPort of server i
  th,        \* th[i]: where the thread of server i is
  chan,      \* chan[i]: its server socket, "null", "open", "bound", "closed"
  hasSel,    \* hasSel[i]: its selector field is not null
  woken,     \* woken[i]: a wakeup its select has not used up
  isExit,    \* isExit[i]
  clients,   \* clients[i]: it has accepted a client
  remote     \* remote[i]: isRemoteTransmit

uiVars == <<mPort, current, ui, asked, threw>>
serverVars == <<port, th, chan, hasSel, woken, isExit, clients, remote>>
vars == <<uiVars, serverVars>>

Servers == 1..MaxServers

ASSUME PortsAssumption == Ports \subseteq Nat /\ Taken \subseteq Ports
ASSUME MaxServersAssumption == MaxServers \in Nat \ {0}

Valid(p) == p > 0 /\ p < 65535
Ended(i) == th[i] \in {"ended", "dead"}

Started(i) == th[i] # "none"

-----------------------------------------------------------------------------
(* The user interface's thread.                                            *)

\* startServer(port): a new Server, its thread started.
StartServer(p, n) ==
  /\ port' = [port EXCEPT ![n] = p]
  /\ th' = [th EXCEPT ![n] = "new"]
  /\ current' = n

\* setPort(p) with nothing to do: the port is the server's, or invalid.
SetPortRefused(p) ==
  /\ ui = "idle" /\ current # 0
  /\ p = port[current] \/ ~Valid(p)
  /\ threw' = FALSE
  /\ UNCHANGED <<mPort, current, ui, asked, serverVars>>

\* socketServer.getPort() of null.
SetPortThrows ==
  /\ ui = "idle" /\ current = 0
  /\ threw' = TRUE
  /\ UNCHANGED <<mPort, current, ui, asked, serverVars>>

\* Mutant: the new port is stored before the old server is terminated.
SetPortStores(p) ==
  /\ ui = "idle" /\ current # 0
  /\ p # port[current] /\ Valid(p)
  /\ ui' = "wakeup" /\ asked' = p /\ threw' = FALSE
  /\ mPort' = p
  /\ UNCHANGED <<current, serverVars>>

\* Mutant: any other port is taken.
SetPortAny(p) ==
  /\ ui = "idle" /\ current # 0
  /\ p # port[current]
  /\ ui' = "wakeup" /\ asked' = p /\ threw' = FALSE
  /\ UNCHANGED <<mPort, current, serverVars>>

SetPort(p) ==
  /\ ui = "idle" /\ current # 0
  /\ p # port[current] /\ Valid(p)
  /\ ui' = "wakeup" /\ asked' = p /\ threw' = FALSE
  /\ UNCHANGED <<mPort, current, serverVars>>

\* Mutant: a server that has no selector yet is not terminated at all.
WakeupOrNothing ==
  /\ ui = "wakeup"
  /\ woken' = [woken EXCEPT ![current] = @ \/ hasSel[current]]
  /\ ui' = IF hasSel[current] THEN "exit" ELSE "drop"
  /\ UNCHANGED <<mPort, current, asked, threw, port, th, chan, hasSel, isExit,
                 clients, remote>>

\* terminateServer, in three steps: the selector, if there is one already,
\* is woken up ...
Wakeup ==
  /\ ui = "wakeup"
  /\ woken' = [woken EXCEPT ![current] = @ \/ hasSel[current]]
  /\ ui' = "exit"
  /\ UNCHANGED <<mPort, current, asked, threw, port, th, chan, hasSel, isExit,
                 clients, remote>>

\* ... then told why ...
SetExit ==
  /\ ui = "exit"
  /\ isExit' = [isExit EXCEPT ![current] = TRUE]
  /\ ui' = "close"
  /\ UNCHANGED <<mPort, current, asked, threw, port, th, chan, hasSel, woken,
                 clients, remote>>

\* Mutant: the server socket stays open.
CloseNothing ==
  /\ ui = "close"
  /\ ui' = "drop"
  /\ UNCHANGED <<mPort, current, asked, threw, serverVars>>

\* ... and its server socket closed.  Before the thread has opened one that
\* is a NullPointerException, and setPort ends there.
Close ==
  /\ ui = "close"
  /\ IF chan[current] = "null"
     THEN ui' = "idle" /\ threw' = TRUE /\ UNCHANGED chan
     ELSE /\ chan' = [chan EXCEPT ![current] = "closed"]
          /\ ui' = "drop" /\ UNCHANGED threw
  /\ UNCHANGED <<mPort, current, asked, port, th, hasSel, woken, isExit,
                 clients, remote>>

\* socketServer = null, for the 100 ms that setPort sleeps.
Drop ==
  /\ ui = "drop"
  /\ current' = 0
  /\ ui' = "store"
  /\ UNCHANGED <<mPort, asked, threw, serverVars>>

\* mPort = port, and a server for it.
Restart ==
  /\ ui = "store"
  /\ mPort' = asked
  /\ \E n \in Servers : /\ \A i \in Servers : Started(i) <=> i < n
                        /\ StartServer(asked, n)
  /\ ui' = "idle"
  /\ UNCHANGED <<asked, threw, chan, hasSel, woken, isExit, clients, remote>>

-----------------------------------------------------------------------------
(* The thread of server i: run, getSelector, listen.                       *)

At(i, here) == /\ th[i] = here
               /\ UNCHANGED <<uiVars, port, isExit>>
Goto(i, there) == th' = [th EXCEPT ![i] = there]

\* ServerSocketChannel.open(); terminateServer can see it from here on.
OpenChannel(i) ==
  /\ At(i, "new") /\ Goto(i, "opened")
  /\ chan' = [chan EXCEPT ![i] = "open"]
  /\ UNCHANGED <<hasSel, woken, clients, remote>>

InUse(i) == \/ port[i] \in Taken
            \/ \E j \in Servers : chan[j] = "bound" /\ port[j] = port[i]

Bind(i) ==
  /\ At(i, "opened") /\ Goto(i, "bound")
  /\ chan[i] = "open" /\ ~InUse(i)
  /\ chan' = [chan EXCEPT ![i] = "bound"]
  /\ UNCHANGED <<hasSel, woken, clients, remote>>

\* The IOException is printed, the thread ends, nobody else is told.
BindFails(i) ==
  /\ At(i, "opened") /\ Goto(i, "dead")
  /\ chan[i] = "closed" \/ InUse(i)
  /\ UNCHANGED <<chan, hasSel, woken, clients, remote>>

\* register, and the return of getSelector: only now has the field a value.
Register(i) ==
  /\ At(i, "bound")
  /\ IF chan[i] = "closed"
     THEN Goto(i, "dead") /\ UNCHANGED hasSel
     ELSE Goto(i, "check") /\ hasSel' = [hasSel EXCEPT ![i] = TRUE]
  /\ UNCHANGED <<chan, woken, clients, remote>>

\* Mutant: while (true).
CheckNothing(i) ==
  /\ At(i, "check") /\ Goto(i, "select")
  /\ UNCHANGED <<chan, hasSel, woken, clients, remote>>

\* while (!isExit)
Check(i) ==
  /\ At(i, "check") /\ Goto(i, IF isExit[i] THEN "ended" ELSE "select")
  /\ UNCHANGED <<chan, hasSel, woken, clients, remote>>

\* select() returns for a wakeup, a new client or an old one.
SelectReturns(i) ==
  /\ At(i, "select") /\ Goto(i, "round")
  /\ woken[i] \/ chan[i] = "bound" \/ clients[i]
  /\ woken' = [woken EXCEPT ![i] = FALSE]
  /\ UNCHANGED <<chan, hasSel, clients, remote>>

\* A client is accepted, unless the key was cancelled meanwhile: an unchecked
\* exception, which ends the thread.
AcceptClient(i) ==
  /\ At(i, "round")
  /\ \/ /\ chan[i] = "bound" /\ clients' = [clients EXCEPT ![i] = TRUE]
        /\ UNCHANGED th
     \/ /\ chan[i] = "closed" /\ Goto(i, "dead") /\ UNCHANGED clients
  /\ UNCHANGED <<chan, hasSel, woken, remote>>

\* A client's *LDM? or *RDM? is answered: the acquisition is stopped, the
\* data awaited, for a second and longer ...
DmBegin(i, r) ==
  /\ At(i, "round") /\ Goto(i, "dm")
  /\ clients[i]
  /\ remote' = [remote EXCEPT ![i] = r]
  /\ UNCHANGED <<chan, hasSel, woken, clients>>

\* ... and then socketServer.isRemoteTransmit is read, of whatever server is
\* ServerControl's by now.  Without one the thread ends.
DmDecide(i) ==
  /\ At(i, "dm")
  /\ IF current = 0
     THEN Goto(i, "dead") /\ UNCHANGED remote
     ELSE Goto(i, "round") /\ remote' = [remote EXCEPT ![i] = FALSE]
  /\ UNCHANGED <<chan, hasSel, woken, clients>>

RoundEnds(i) ==
  /\ At(i, "round") /\ Goto(i, "check")
  /\ UNCHANGED <<chan, hasSel, woken, clients, remote>>

\* Steps the thread takes of its own accord.
OwnStep(i) == \/ OpenChannel(i) \/ Bind(i) \/ BindFails(i) \/ Register(i)
              \/ Check(i) \/ DmDecide(i)

ServerStep(i) == \/ OwnStep(i) \/ SelectReturns(i) \/ AcceptClient(i)
                 \/ \E r \in BOOLEAN : DmBegin(i, r)
                 \/ RoundEnds(i)

UiStep == Wakeup \/ SetExit \/ Close \/ Drop \/ Restart

\* ServerControl(pref) and startServer(): a saved port that is not valid
\* leaves the program without a server.
Init ==
  /\ mPort \in Ports
  /\ current = IF Valid(mPort) THEN 1 ELSE 0
  /\ ui = "idle" /\ asked = mPort /\ threw = FALSE
  /\ port = [i \in Servers |-> IF i = 1 THEN mPort ELSE 0]
  /\ th = [i \in Servers |-> IF i = current THEN "new" ELSE "none"]
  /\ chan = [i \in Servers |-> "null"]
  /\ hasSel = [i \in Servers |-> FALSE]
  /\ woken = [i \in Servers |-> FALSE]
  /\ isExit = [i \in Servers |-> FALSE]
  /\ clients = [i \in Servers |-> FALSE]
  /\ remote = [i \in Servers |-> FALSE]

\* The last server is not replaced again.
Next == \/ \E p \in Ports : /\ th[MaxServers] = "none"
                            /\ SetPort(p) \/ SetPortRefused(p)
        \/ SetPortThrows
        \/ UiStep
        \/ \E i \in Servers : ServerStep(i)

Spec == Init /\ [][Next]_vars

\* Every started thread runs, setPort's among them; a wakeup ends select(),
\* clients need not; a round has finitely many keys.
FairSpec == /\ Spec /\ WF_vars(UiStep)
            /\ \A i \in Servers :
                 /\ WF_vars(OwnStep(i))
                 /\ WF_vars(SelectReturns(i) /\ woken[i])
                 /\ SF_vars(RoundEnds(i))

-----------------------------------------------------------------------------
TypeOK ==
  /\ mPort \in Nat /\ asked \in Nat /\ current \in 0..MaxServers
  /\ ui \in {"idle", "wakeup", "exit", "close", "drop", "store"}
  /\ threw \in BOOLEAN
  /\ port \in [Servers -> Nat]
  /\ \A i \in Servers : Started(i) => Valid(port[i])
  /\ th \in [Servers -> {"none", "new", "opened", "bound", "check", "select",
                         "round", "dm", "ended", "dead"}]
  /\ chan \in [Servers -> {"null", "open", "bound", "closed"}]
  /\ hasSel \in [Servers -> BOOLEAN] /\ woken \in [Servers -> BOOLEAN]
  /\ isExit \in [Servers -> BOOLEAN] /\ clients \in [Servers -> BOOLEAN]
  /\ remote \in [Servers -> BOOLEAN]

\* A replaced server has given its port back before its successor starts,
\* wherever its thread was when it was terminated: the two never compete for
\* a port, and a bind that fails does so for another program or because this
\* server, too, was replaced meanwhile.
ReplacedIsClosed ==
  \A i \in Servers : Started(i) /\ i # current /\ ui \in {"idle", "store"} =>
    chan[i] = "closed" /\ isExit[i]
BindFailsForOthers ==
  [][\A i \in Servers : BindFails(i) => port[i] \in Taken \/ chan[i] = "closed"]_vars

\* What persist() saves is the port socketServer was created with, also when
\* setPort was refused or ended in an exception half way.  It says nothing of
\* whether that server still runs.
SavedPortIsCurrent ==
  ui = "idle" /\ current # 0 => port[current] = mPort

\* The thread of the server in use ends for two reasons only: its port is
\* another program's, or it has been told to exit.  No server that was
\* replaced, no client and no deep memory answer left over from before ends
\* it.  "Told to exit" includes a server that setPort's NullPointerException
\* left in use: that one ends, and the program has no server that runs.
CurrentLives ==
  current # 0 /\ Ended(current) => port[current] \in Taken \/ isExit[current]

\* A terminated server's thread ends by itself, even when it had not opened
\* its socket yet, is in the middle of an answer or has lost its selector:
\* except when it went back to select() between the wakeup and the flag.
TerminatedEnds ==
  \A i \in Servers :
    isExit[i] /\ (th[i] = "select" => woken[i]) ~> Ended(i)

\* What get_rdm promises: deep memory data that were asked for over the
\* network are sent over the network.
DmAsAsked ==
  [][\A i \in Servers :
       DmDecide(i) /\ current # 0 => remote[current] = remote[i]]_vars
=============================================================================
