----------------------------- MODULE ScpiLink -----------------------------
(***************************************************************************)
(* The python client: SCPILink (scpilink.py) on its TCPConnection          *)
(* (tcpconnection.py).  A call writes one line of commands and reads one   *)
(* answer, a line or a frame, under a timeout.  The event loop runs only   *)
(* inside a call, so only then do bytes move into the reader's buffer.  A  *)
(* call that times out leaves the buffer, and the bytes still to come, to  *)
(* the calls after it.                                                     *)
(*                                                                         *)
(* Lengths are those FrameHeader finds understood; "data" counts blocks.   *)
(***************************************************************************)
EXTENDS ScpiWire

CONSTANTS Solo,        \* TRUE: one client program after the other
          MayTimeOut   \* TRUE: asyncio.wait_for may give up

VARIABLES
  link,    \* link[c]: "closed", "idle", or in a call: "line", "payload"
  cur,     \* cur[c]: the line of the call
  rbuf,    \* rbuf[c]: tokens in the stream reader's buffer
  need,    \* need[c]: blocks readexactly waits for
  got,     \* got[c]: tokens the call has consumed
  kind,    \* kind[c]: what the call returned: "none", "text", "bytes", "junk"
  late     \* late[c]: some call on c has timed out

linkVars == <<link, cur, rbuf, need, got, kind, late>>

ASSUME SoloAssumption == Solo \in BOOLEAN /\ MayTimeOut \in BOOLEAN

InCall(c) == link[c] \in {"line", "payload"}

\* TCPConnection(ip, port)
Open(c) ==
  /\ link[c] = "closed"
  /\ Solo => \A d \in Conns : link[d] = "closed"
  /\ Connect(c)
  /\ link' = [link EXCEPT ![c] = "idle"]
  /\ UNCHANGED <<cur, rbuf, need, got, kind, late>>

\* __call up to connection.write: the line is sent at once, and whatever an
\* earlier call left unread stays unread.
Call(c, l) ==
  /\ link[c] = "idle"
  /\ LinkLine(l)
  /\ Send(c, l)
  /\ link' = [link EXCEPT ![c] = "line"]
  /\ cur' = [cur EXCEPT ![c] = l]
  /\ got' = [got EXCEPT ![c] = <<>>]
  /\ kind' = [kind EXCEPT ![c] = "none"]
  /\ UNCHANGED <<rbuf, need, late>>

\* The event loop moves bytes from the socket to the reader.
Feed(c) ==
  /\ InCall(c)
  /\ Take(c)
  /\ rbuf' = [rbuf EXCEPT ![c] = Append(@, Head(outbox[c]))]
  /\ UNCHANGED <<link, cur, need, got, kind, late>>

-----------------------------------------------------------------------------
(* TCPConnection.read                                                      *)

EndsLine(t) == t.tok \in {"nl", "text"}

\* The first k tokens are a line.  Raw data may hold newlines or not.
IsLine(s, k) == /\ EndsLine(s[k]) \/ s[k].tok = "data"
                /\ \A j \in 1..k - 1 : ~EndsLine(s[j])

IsHeader(line) ==
  Len(line) > 1 /\ line[1].tok = "hash" /\ line[2].tok = "len"

\* What the client makes of a line: "#" starts a frame of the length in the
\* next four bytes, whatever else is on the line; a line of text is returned;
\* anything else, to be met only after a timeout or a mix-up in the server,
\* fails to decode, is returned as it is, or is taken for a header.
Interpret(c, line) ==
  IF IsHeader(line)
  THEN /\ link' = [link EXCEPT ![c] = "payload"]
       /\ need' = [need EXCEPT ![c] = line[2].n]
       /\ UNCHANGED kind
  ELSE \/ /\ link' = [link EXCEPT ![c] = "idle"]
          /\ kind' = [kind EXCEPT ![c] = IF line[1].tok = "text" THEN "text"
                                                                 ELSE "junk"]
          /\ UNCHANGED need
       \/ /\ line[1].tok \notin {"text", "nl"}
          /\ link' = [link EXCEPT ![c] = "payload"]
          /\ \E n \in 0..SndCap : need' = [need EXCEPT ![c] = n]
          /\ UNCHANGED kind

\* data = (await self.reader.readline()).rstrip() and the test for "#"
ReadLine(c) ==
  /\ link[c] = "line"
  /\ \E k \in 1..Len(rbuf[c]) :
       /\ IsLine(rbuf[c], k)
       /\ Interpret(c, SubSeq(rbuf[c], 1, k))
       /\ got' = [got EXCEPT ![c] = SubSeq(rbuf[c], 1, k)]
       /\ rbuf' = [rbuf EXCEPT ![c] = SubSeq(@, k + 1, Len(@))]
  /\ UNCHANGED <<wireVars, cur, late>>

\* Mutant: read() in place of readexactly() takes what is there.
ReadSome(c) ==
  /\ link[c] = "payload"
  /\ rbuf[c] # <<>> \/ need[c] = 0
  /\ \E k \in 0..Len(rbuf[c]) :
       /\ \/ k = need[c]
          \/ (k < need[c] /\ k = Len(rbuf[c]))
       /\ got' = [got EXCEPT ![c] = @ \o SubSeq(rbuf[c], 1, k)]
       /\ rbuf' = [rbuf EXCEPT ![c] = SubSeq(@, k + 1, Len(@))]
  /\ link' = [link EXCEPT ![c] = "idle"]
  /\ kind' = [kind EXCEPT ![c] = "bytes"]
  /\ need' = [need EXCEPT ![c] = 0]
  /\ UNCHANGED <<wireVars, cur, late>>

\* await self.reader.readexactly(size)
ReadExactly(c) ==
  /\ link[c] = "payload"
  /\ Len(rbuf[c]) >= need[c]
  /\ got' = [got EXCEPT ![c] = @ \o SubSeq(rbuf[c], 1, need[c])]
  /\ rbuf' = [rbuf EXCEPT ![c] = SubSeq(@, need[c] + 1, Len(@))]
  /\ link' = [link EXCEPT ![c] = "idle"]
  /\ kind' = [kind EXCEPT ![c] = "bytes"]
  /\ need' = [need EXCEPT ![c] = 0]
  /\ UNCHANGED <<wireVars, cur, late>>

\* asyncio.wait_for cancels the transaction: neither readline nor readexactly
\* has consumed anything while it waited.
Timeout(c) ==
  /\ MayTimeOut
  /\ InCall(c)
  /\ link' = [link EXCEPT ![c] = "idle"]
  /\ late' = [late EXCEPT ![c] = TRUE]
  /\ need' = [need EXCEPT ![c] = 0]
  /\ got' = [got EXCEPT ![c] = <<>>]
  /\ UNCHANGED <<wireVars, cur, rbuf, kind>>

\* quit: disconnect.
Quit(c) ==
  /\ link[c] = "idle"
  /\ Hangup(c)
  /\ link' = [link EXCEPT ![c] = "closed"]
  /\ rbuf' = [rbuf EXCEPT ![c] = <<>>]
  /\ UNCHANGED <<cur, need, got, kind, late>>

Receive(c) == Feed(c) \/ ReadLine(c) \/ ReadExactly(c)

LinkStep(c) == \/ Open(c)
               \/ \E l \in Lines : Call(c, l)
               \/ Receive(c)
               \/ Timeout(c)
               \/ Quit(c)

LinkInit ==
  /\ link = [c \in Conns |-> "closed"]
  /\ cur = [c \in Conns |-> <<>>]
  /\ rbuf = [c \in Conns |-> <<>>]
  /\ need = [c \in Conns |-> 0]
  /\ got = [c \in Conns |-> <<>>]
  /\ kind = [c \in Conns |-> "none"]
  /\ late = [c \in Conns |-> FALSE]

LinkTypeOK ==
  /\ link \in [Conns -> {"closed", "idle", "line", "payload"}]
  /\ cur \in [Conns -> Seq(Units)]
  /\ rbuf \in [Conns -> Seq(Token)] /\ got \in [Conns -> Seq(Token)]
  /\ need \in [Conns -> Nat]
  /\ kind \in [Conns -> {"none", "text", "bytes", "junk"}]
  /\ late \in [Conns -> BOOLEAN]
=============================================================================
