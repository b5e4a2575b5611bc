---------------------------- MODULE ScpiSession ----------------------------
(***************************************************************************)
(* Clients of scpilink.py talking to the SCPI server: ScpiServer with its  *)
(* peers played by ScpiLink.                                               *)
(***************************************************************************)
EXTENDS ScpiServer, ScpiLink

sessionVars == <<vars, linkVars>>

ServerMoves == ServerStep /\ UNCHANGED linkVars
LinkMoves(c) == LinkStep(c) /\ UNCHANGED serverVars

SessionInit == Init /\ LinkInit
SessionNext == ServerMoves \/ \E c \in Conns : LinkMoves(c)
SessionSpec == SessionInit /\ [][SessionNext]_sessionVars

\* The server thread runs, and the event loop of a client in a call.
SessionFairSpec ==
  /\ SessionSpec
  /\ WF_sessionVars(ServerMoves)
  /\ \A c \in Conns : WF_sessionVars(Receive(c) /\ UNCHANGED serverVars)

-----------------------------------------------------------------------------
(* Properties.                                                             *)

SessionTypeOK == TypeOK /\ LinkTypeOK

\* Token t answers request n, perhaps with others.
Answers(t, n) == \E i \in 1..Len(t.of.reqs) : t.of.reqs[i] = n

\* As long as no call on its connection timed out, a client's call consumes
\* nothing but the answer to its own request, and what it takes for a frame
\* is one, even when other clients make the server mix up kinds of answers,
\* time out or leave.
OwnAnswer ==
  \A c \in Conns : kind[c] # "none" /\ ~late[c] =>
    /\ \A i \in 1..Len(got[c]) : Answers(got[c][i], sent[c])
    /\ kind[c] = "text" => Len(got[c]) = 1
    /\ kind[c] = "bytes" => Len(got[c]) = 3 + got[c][2].n
    /\ kind[c] # "junk"

\* ... and it leaves nothing behind for the next call: an idle link that was
\* never late has no byte unread, in its buffer or on the way.
NothingLeft ==
  \A c \in Conns : link[c] = "idle" /\ ~late[c] =>
    rbuf[c] = <<>> /\ outbox[c] = <<>> /\ inbox[c] = <<>>

\* What identify() and get_run() say they return: the answer to the call,
\* after earlier calls timed out as well.
AnswersTheCall ==
  \A c \in Conns : kind[c] = "text" =>
    \A i \in 1..Len(got[c]) : Answers(got[c][i], sent[c])

\* A call waits for a line, and what it is sent is the head of a frame that
\* ends none: writeLargeData leaves out the newline when there is no data.
Lost(c) ==
  LET s == rbuf[c] \o Stream(c)
  IN link[c] = "line" /\ s # <<>> /\ \A i \in 1..Len(s) : s[i].tok \in {"hash", "len"}

\* The mapping to ScpiExchange.
ExchangeState(c) == CASE link[c] = "closed" -> "off"
                      [] link[c] = "idle" -> "idle"
                      [] Lost(c) -> "lost"
                      [] OTHER -> "asked"
NoAdc == IF AdcMayFail THEN {<<"adc">>} ELSE {}
Returned(c) ==
  IF kind[c] = "none" THEN [req |-> 0, kind |-> "none"]
  ELSE [req |-> got[c][Len(got[c])].of.reqs[1], kind |-> kind[c]]

Exchange == INSTANCE ScpiExchange WITH
  Users <- Conns, Commands <- Lines, Missing <- NoAdc,
  state <- [c \in Conns |-> ExchangeState(c)],
  asked <- cur, count <- sent,
  answer <- [c \in Conns |-> Returned(c)]

\* Client programs that run one after the other and never time out get what
\* SCPILink promises, whatever bytes each write and read happens to move:
\* every call returns its own answer, but for a get_adc the application has no
\* data for, which is left waiting for the end of a line for good.
ImplementsExchange == Exchange!ExchangeSpec
=============================================================================
