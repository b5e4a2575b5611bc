---------------------------- MODULE ScpiWire ----------------------------
(***************************************************************************)
(* The TCP connections between SCPI clients and the server in the VDS      *)
(* software (port 5188), and the command lines that travel on them.        *)
(*                                                                         *)
(* Data is reduced to what server and client tell apart.  A command line   *)
(* is the sequence of its ";"-separated units, and a unit is one of        *)
(*   "adc" "ldm" "rdm"   the three transfers the server special-cases      *)
(*   "text"              any command answered by five characters or more   *)
(*   "short"             a command answered by less than five characters   *)
(*                       (RUN, STOP)                                       *)
(*   "mute"              a command answered by the empty string            *)
(* What the server sends is a sequence of tokens: "hash", "len" (a 4-byte  *)
(* length n), "nl", "data" (one block of payload) and "text" (a whole      *)
(* line of text).  Every token names, in "of", the segment it answers.     *)
(***************************************************************************)
EXTENDS Naturals, Sequences

CONSTANTS Conns,      \* the connections a run may see, each used once
          Lines,      \* the command lines a peer may send
          MaxSends,   \* bound: MaxSends[c] command lines are sent over c
          SndCap,     \* tokens that fit in the buffers towards a peer
          Tearing     \* TRUE: a line may arrive as two separate reads

VARIABLES peer,       \* peer[c]: "absent", "up" or "gone" (closed or reset)
          inbox,      \* inbox[c]: segments not yet read by the server
          outbox,     \* outbox[c]: tokens not yet read by the peer
          sent        \* sent[c]: number of lines sent so far

wireVars == <<peer, inbox, outbox, sent>>

BinaryUnits == {"adc", "ldm", "rdm"}
TextUnits == {"text", "short", "mute"}
Units == BinaryUnits \cup TextUnits

\* What one client.read can deliver: its units, and the requests (numbered
\* per connection) whose bytes are in it.
Segment == [reqs : Seq(Nat), units : Seq(Units)]
Token == [tok : {"hash", "len", "nl", "data", "text"}, of : Segment, n : Nat]

ASSUME LinesAssumption == Lines \subseteq Seq(Units) \ {<<>>}
ASSUME MaxSendsAssumption == MaxSends \in [Conns -> Nat]
\* Three writes (hash, length, newline) fit whenever the socket reports
\* itself writable, see Writable.
ASSUME SndCapAssumption == SndCap \in Nat /\ SndCap >= 3
ASSUME TearingAssumption == Tearing \in BOOLEAN

-----------------------------------------------------------------------------
(* The lines the python client in src/scpi can send.                       *)

\* set_* and get_* join any number of text units with ";".
TextLine(l) == l # <<>> /\ \A i \in 1..Len(l) : l[i] \in TextUnits
\* get_ldm, get_rdm and get_adc send their one unit alone.
BinaryLine(l) == Len(l) = 1 /\ l[1] \in BinaryUnits
LinkLine(l) == TextLine(l) \/ BinaryLine(l)

\* A transfer can only come first in what a read delivers: true of every
\* line of the python client, and kept by coalescing and tearing.
BinaryFirst(l) == \A i \in 2..Len(l) : l[i] \in TextUnits

-----------------------------------------------------------------------------
(* How lines become segments.  TCP keeps the bytes in order and nothing    *)
(* else: two lines sent while the server is busy arrive in one read, and   *)
(* one line may need two.  The server never looks for the end of a line    *)
(* (it removes all white space), so the unit at the seam is glued or cut.  *)

\* "*ADC?CH1" glued to "*IDN?" is still taken for a transfer by startsWith;
\* any other glued unit is one the server cannot analyse, a text answer.
Glue(a, b) == IF a \in BinaryUnits THEN a ELSE "text"

Coalesced(u, v) == SubSeq(u, 1, Len(u) - 1)
                     \o <<Glue(u[Len(u)], v[1])>> \o Tail(v)

\* Unit k of u is cut in two: the first part may still be the whole command
\* (or start with its keyword), a rest is no command.  A cut just behind a ";"
\* leaves an empty unit, a text answer, and unit k whole.
TornBefore(u, k, part) == SubSeq(u, 1, k - 1) \o <<part>>
TornAfter(u, k, rest) == <<rest>> \o SubSeq(u, k + 1, Len(u))

Connect(c) ==
  /\ peer[c] = "absent"
  /\ peer' = [peer EXCEPT ![c] = "up"]
  /\ UNCHANGED <<inbox, outbox, sent>>

Arrive(c, ss) == inbox' = [inbox EXCEPT ![c] = @ \o ss]

\* The peer writes line l; its bytes arrive as a segment of their own, glued
\* to bytes the server has not read yet, or torn in two.
Send(c, l) ==
  /\ peer[c] = "up"
  /\ sent[c] < MaxSends[c]
  /\ sent' = [sent EXCEPT ![c] = @ + 1]
  /\ LET q == inbox[c]
         seg(us) == [reqs |-> <<sent[c] + 1>>, units |-> us]
     IN \/ Arrive(c, <<seg(l)>>)
        \/ /\ q # <<>>
           /\ LET last == q[Len(q)] IN
              inbox' = [inbox EXCEPT ![c][Len(q)] =
                          [reqs  |-> last.reqs \o <<sent[c] + 1>>,
                           units |-> Coalesced(last.units, l)]]
        \/ /\ Tearing
           /\ \E k \in 1..Len(l) : \E part, rest \in {"text", l[k]} :
                /\ rest = "text" \/ (part = "text" /\ k > 1)
                /\ Arrive(c, <<seg(TornBefore(l, k, part)),
                               seg(TornAfter(l, k, rest))>>)
  /\ UNCHANGED <<peer, outbox>>

\* The peer reads the next token.
Take(c) ==
  /\ peer[c] = "up"
  /\ outbox[c] # <<>>
  /\ outbox' = [outbox EXCEPT ![c] = Tail(@)]
  /\ UNCHANGED <<peer, inbox, sent>>

\* The peer closes or resets the connection: what it did not read is lost,
\* what it sent may still be read.
Hangup(c) ==
  /\ peer[c] = "up"
  /\ peer' = [peer EXCEPT ![c] = "gone"]
  /\ outbox' = [outbox EXCEPT ![c] = <<>>]
  /\ UNCHANGED <<inbox, sent>>

Room(c) == SndCap - Len(outbox[c])

\* A socket is reported writable when a good part of its buffer is free (or
\* the connection is broken), which is room for a header.
Writable(c) == Len(outbox[c]) + 3 <= SndCap

\* Readable: bytes, end of stream or an error to report.
Readable(c) == inbox[c] # <<>> \/ peer[c] = "gone"

WireInit ==
  /\ peer = [c \in Conns |-> "absent"]
  /\ inbox = [c \in Conns |-> <<>>]
  /\ outbox = [c \in Conns |-> <<>>]
  /\ sent = [c \in Conns |-> 0]

WireTypeOK ==
  /\ peer \in [Conns -> {"absent", "up", "gone"}]
  /\ inbox \in [Conns -> Seq(Segment)]
  /\ outbox \in [Conns -> Seq(Token)]
  /\ sent \in [Conns -> Nat]
=============================================================================
