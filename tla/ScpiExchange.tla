--------------------------- MODULE ScpiExchange ---------------------------
(***************************************************************************)
(* What SCPILink promises its user: a call that is made returns, with the  *)
(* answer to that very call, in the kind its command asks for - unless it  *)
(* asks for data the oscilloscope does not have: then it may be lost, and  *)
(* only a timeout can end it.                                              *)
(***************************************************************************)
EXTENDS Naturals, Sequences

CONSTANTS Users,     \* the users of the link
          Commands,  \* the command lines of calls
          Missing    \* the commands whose data may be missing

VARIABLES state,     \* state[u]: "off", "idle", "asked" or "lost"
          asked,     \* asked[u]: the command line of the last call
          count,     \* count[u]: number of calls so far
          answer     \* answer[u]: what the last call returned

exchangeVars == <<state, asked, count, answer>>

NoAnswer == [req |-> 0, kind |-> "none"]

\* Waveform data comes as bytes; deep memory as bytes, or as a line that
\* tells why not; everything else as a line of text.
Kinds(l) == CASE l = <<"adc">> -> {"bytes"}
              [] l = <<"rdm">> -> {"bytes", "text"}
              [] OTHER -> {"text"}

Start(u) ==
  /\ state[u] = "off"
  /\ state' = [state EXCEPT ![u] = "idle"]
  /\ UNCHANGED <<asked, count, answer>>

Ask(u, l) ==
  /\ state[u] = "idle"
  /\ state' = [state EXCEPT ![u] = "asked"]
  /\ asked' = [asked EXCEPT ![u] = l]
  /\ count' = [count EXCEPT ![u] = @ + 1]
  /\ answer' = [answer EXCEPT ![u] = NoAnswer]

Return(u) ==
  /\ state[u] = "asked"
  /\ state' = [state EXCEPT ![u] = "idle"]
  /\ \E k \in Kinds(asked[u]) :
       answer' = [answer EXCEPT ![u] = [req |-> count[u], kind |-> k]]
  /\ UNCHANGED <<asked, count>>

\* There is no data: what is sent for it ends no line, nothing returns.
NoData(u) ==
  /\ state[u] = "asked"
  /\ asked[u] \in Missing
  /\ state' = [state EXCEPT ![u] = "lost"]
  /\ UNCHANGED <<asked, count, answer>>

Stop(u) ==
  /\ state[u] = "idle"
  /\ state' = [state EXCEPT ![u] = "off"]
  /\ UNCHANGED <<asked, count, answer>>

ExchangeInit ==
  /\ state = [u \in Users |-> "off"]
  /\ asked = [u \in Users |-> <<>>]
  /\ count = [u \in Users |-> 0]
  /\ answer = [u \in Users |-> NoAnswer]

ExchangeNext == \E u \in Users : \/ Start(u) \/ Return(u) \/ NoData(u) \/ Stop(u)
                                 \/ \E l \in Commands : Ask(u, l)

ExchangeSafety == ExchangeInit /\ [][ExchangeNext]_exchangeVars

\* Every call returns that is not lost.
ExchangeSpec == ExchangeSafety /\ \A u \in Users : WF_exchangeVars(Return(u))
=============================================================================
