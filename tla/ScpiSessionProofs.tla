------------------------- MODULE ScpiSessionProofs -------------------------
(***************************************************************************)
(* Theorems about clients of scpilink.py behind the SCPI server, for any   *)
(* number of clients, buffer sizes and data sizes: all that holds of the   *)
(* server, the types, that a call gets the answer to itself and leaves     *)
(* nothing behind, and that clients one after the other get what           *)
(* ScpiExchange promises.                                                  *)
(***************************************************************************)
EXTENDS ScpiSession, ScpiAnswerProofs

-----------------------------------------------------------------------------
(* The session: the python client's steps are steps of the server's peers, *)
(* or change nothing the server sees.                                      *)

\* What a step of the client does to the wire.
LEMMA LinkOnWire ==
  ASSUME NEW c \in Conns, LinkStep(c)
  PROVE  \/ Open(c) /\ Connect(c)
         \/ \E l \in Lines : Call(c, l) /\ Send(c, l)
         \/ Feed(c) /\ Take(c)
         \/ Quit(c) /\ Hangup(c)
         \/ (ReadLine(c) \/ ReadExactly(c) \/ Timeout(c)) /\ UNCHANGED wireVars
BY DEF LinkStep, Receive, Open, Call, Feed, Quit, ReadLine, ReadExactly, Timeout

LEMMA SessionStep == [SessionNext]_sessionVars => [Next]_vars
<1> SUFFICES ASSUME [SessionNext]_sessionVars PROVE [Next]_vars
  OBVIOUS
<1>1. CASE ServerMoves
  BY <1>1 DEF ServerMoves, Next
<1>2. ASSUME NEW c \in Conns, LinkMoves(c) PROVE [Next]_vars
  <2>1. LinkStep(c) /\ UNCHANGED serverVars
    BY <1>2 DEF LinkMoves
  <2>2. PeerStep \/ UNCHANGED wireVars
    BY <2>1, LinkOnWire DEF PeerStep
  <2> QED BY <2>1, <2>2 DEF Next, vars
<1>3. CASE UNCHANGED sessionVars
  BY <1>3 DEF sessionVars
<1> QED BY <1>1, <1>2, <1>3 DEF SessionNext

\* Behind clients of scpilink.py the server thread does what it does behind
\* any peers: every theorem about the server holds of the session.
THEOREM SessionIsServed == SessionSpec => Spec
<1>1. SessionInit => Init
  BY DEF SessionInit
<1> QED BY <1>1, SessionStep, PTL DEF SessionSpec, Spec

LEMMA LinkTypeNext ==
  ASSUME Inv, LinkTypeOK, [SessionNext]_sessionVars
  PROVE  LinkTypeOK'
<1>1. CASE ServerMoves \/ UNCHANGED sessionVars
  BY <1>1 DEF ServerMoves, sessionVars, linkVars, LinkTypeOK
<1>2. ASSUME NEW c \in Conns, LinkStep(c) PROVE LinkTypeOK'
  <2>0. /\ outbox \in [Conns -> Seq(Token)] /\ rbuf[c] \in Seq(Token)
        /\ got[c] \in Seq(Token) /\ need[c] \in Nat /\ Len(rbuf[c]) \in Nat
    BY LenProperties DEF Inv, TypeOK, WireTypeOK, LinkTypeOK
  <2>1. CASE Open(c)
    BY <2>1 DEF Open, LinkTypeOK
  <2>2. ASSUME NEW l \in Lines, Call(c, l) PROVE LinkTypeOK'
    <3>1. l \in Seq(Units) /\ <<>> \in Seq(Token)
      BY LinesAssumption, EmptySeq
    <3> QED BY <2>2, <3>1 DEF Call, LinkTypeOK
  <2>3. CASE Feed(c)
    <3>1. Head(outbox[c]) \in Token
      BY <2>0, <2>3, HeadTailProperties DEF Feed, Take
    <3>2. Append(rbuf[c], Head(outbox[c])) \in Seq(Token)
      BY <2>0, <3>1, AppendProperties
    <3> QED BY <2>3, <3>2 DEF Feed, LinkTypeOK
  <2>4. \A k \in 0..Len(rbuf[c]) :
          /\ SubSeq(rbuf[c], 1, k) \in Seq(Token)
          /\ SubSeq(rbuf[c], k + 1, Len(rbuf[c])) \in Seq(Token)
    <3> DEFINE s == rbuf[c]
               n == Len(rbuf[c])
    <3> SUFFICES ASSUME NEW k \in 0..n
                 PROVE SubSeq(s, 1, k) \in Seq(Token) /\ SubSeq(s, k + 1, n) \in Seq(Token)
      OBVIOUS
    <3>1. \A i \in 1..n : s[i] \in Token
      BY <2>0, ElementOfSeq
    <3>2. n \in Nat
      BY <2>0
    <3> HIDE DEF s, n
    <3>3. /\ \A i \in 1..k : i \in 1..n
          /\ \A i \in k + 1..n : i \in 1..n
          /\ k \in Int /\ k + 1 \in Int /\ n \in Int
      BY <3>2
    <3>4. SubSeq(s, 1, k) \in Seq(Token)
      BY <3>1, <3>3, SubSeqProperties
    <3>5. SubSeq(s, k + 1, n) \in Seq(Token)
      BY <3>1, <3>3, SubSeqProperties
    <3> QED BY <3>4, <3>5
  <2>5. CASE ReadLine(c)
    <3>1. PICK k \in 1..Len(rbuf[c]) :
            /\ Interpret(c, SubSeq(rbuf[c], 1, k))
            /\ got' = [got EXCEPT ![c] = SubSeq(rbuf[c], 1, k)]
            /\ rbuf' = [rbuf EXCEPT ![c] = SubSeq(@, k + 1, Len(@))]
      BY <2>5 DEF ReadLine
    <3> DEFINE line == SubSeq(rbuf[c], 1, k)
    <3>2. line \in Seq(Token) /\ SubSeq(rbuf[c], k + 1, Len(rbuf[c])) \in Seq(Token)
      BY <2>0, <2>4
    <3>3. IsHeader(line) => line[2].n \in Nat
      <4> SUFFICES ASSUME IsHeader(line) PROVE line[2].n \in Nat
        OBVIOUS
      <4>1. Len(line) > 1 /\ Len(line) \in Nat
        BY <3>2, LenProperties DEF IsHeader
      <4>2. 2 \in 1..Len(line)
        BY <4>1
      <4>3. line[2] \in Token
        BY <3>2, <4>2, ElementOfSeq
      <4> QED BY <4>3 DEF Token
    <3> HIDE DEF line
    <3>4. /\ link' \in [Conns -> {"closed", "idle", "line", "payload"}]
          /\ need' \in [Conns -> Nat]
          /\ kind' \in [Conns -> {"none", "text", "bytes", "junk"}]
      <4>0. Interpret(c, line)
        BY <3>1 DEF line
      <4>1. 0..SndCap \subseteq Nat
        BY SndCapAssumption
      <4> QED BY <3>3, <4>0, <4>1 DEF Interpret, LinkTypeOK
    <3>5. /\ got' \in [Conns -> Seq(Token)] /\ rbuf' \in [Conns -> Seq(Token)]
      BY <3>1, <3>2 DEF LinkTypeOK, line
    <3> QED BY <2>5, <3>4, <3>5 DEF ReadLine, LinkTypeOK
  <2>6. CASE ReadExactly(c)
    <3> DEFINE a == SubSeq(rbuf[c], 1, need[c])
               b == SubSeq(rbuf[c], need[c] + 1, Len(rbuf[c]))
    <3>1. a \in Seq(Token) /\ b \in Seq(Token)
      BY <2>0, <2>4, <2>6 DEF ReadExactly
    <3>2. got[c] \o a \in Seq(Token)
      BY <2>0, <3>1, ConcatProperties
    <3> QED BY <2>6, <3>1, <3>2 DEF ReadExactly, LinkTypeOK
  <2>7. CASE Timeout(c)
    BY <2>7, EmptySeq DEF Timeout, LinkTypeOK
  <2>8. CASE Quit(c)
    BY <2>8, EmptySeq DEF Quit, LinkTypeOK
  <2> QED BY <1>2, <2>1, <2>2, <2>3, <2>5, <2>6, <2>7, <2>8 DEF LinkStep, Receive
<1> QED BY <1>1, <1>2 DEF SessionNext, LinkMoves

\* The client's variables keep their types too: reading a header gives a
\* number of blocks, and what is consumed and what stays are tokens.
THEOREM SessionTypes == SessionSpec => []SessionTypeOK
<1>1. SessionInit => LinkTypeOK
  <2>1. <<>> \in Seq(Token) /\ <<>> \in Seq(Units)
    BY EmptySeq
  <2> QED BY <2>1 DEF SessionInit, LinkInit, LinkTypeOK
<1>2. Inv /\ LinkTypeOK /\ [SessionNext]_sessionVars => LinkTypeOK'
  BY LinkTypeNext
<1>3. Inv /\ LinkTypeOK => SessionTypeOK
  BY DEF Inv, SessionTypeOK
<1> QED BY <1>1, <1>2, <1>3, SessionIsServed, Invariance, PTL DEF SessionSpec

-----------------------------------------------------------------------------
(* Calls of the python client.  While no call of a connection was late,    *)
(* what its call may still consume is the answer to it and nothing else:   *)
(* the request is on its way, or the thread is to answer it, or the answer *)
(* is in the reader's buffer, in the socket or in the plan of the thread.  *)

\* What the thread has still to write to c is in the plan.
NoMore(c) == interest[c] = "write" => Busy(c) /\ pc # "dm" /\ cmds = <<>>

\* What the call has read of a frame, what it has not read, and what is on
\* its way or planned.
Unread(c) == (IF link[c] = "payload" THEN got[c] ELSE <<>>) \o (rbuf[c] \o Stream(c))

\* All tokens of s answer request n alone, whose line is us.
AllOf(s, n, us) == \A i \in 1..Len(s) : s[i].of.reqs = <<n>> /\ s[i].of.units = us

\* Nothing need be in the inbox of a call: some commands have no answer, and
\* the thread may have ended.
OnTheWay(c) ==
  /\ link[c] \in {"idle", "line"} /\ Unread(c) = <<>> /\ NoMore(c)
  /\ \/ /\ link[c] = "line" /\ Len(inbox[c]) = 1
        /\ inbox[c][1].reqs = <<sent[c]>> /\ inbox[c][1].units = cur[c]
     \/ inbox[c] = <<>>
ToAnswer(c) ==
  /\ link[c] = "line" /\ Unread(c) = <<>> /\ ~NoMore(c)
  /\ inbox[c] = <<>> /\ attach[c].reqs = <<sent[c]>> /\ attach[c].units = cur[c]
AnswerComes(c) ==
  /\ link[c] \in {"line", "payload"} /\ NoMore(c) /\ inbox[c] = <<>>
  /\ OneAnswer(Unread(c)) /\ AllOf(Unread(c), sent[c], cur[c])
  /\ link[c] = "payload" => Len(got[c]) = 3 /\ need[c] = got[c][2].n

Expected(c) == OnTheWay(c) \/ ToAnswer(c) \/ AnswerComes(c)

\* The answer being written to c finds room for its header.
RoomFor(c) == Busy(c) /\ pc # "dead" => AnswerRoom(c)

\* A line of text commands met another client's *ADC? flag: it is answered
\* with heads of empty frames, which end no line, and the call waits for its
\* timeout.
Heads == {t \in Token : t.tok \in {"hash", "len"}}
NoLine(c) ==
  /\ link[c] = "line" /\ inbox[c] = <<>>
  /\ rbuf[c] \in Seq(Heads) /\ outbox[c] \in Seq(Heads)
  /\ interest[c] = "write" =>
       /\ Busy(c) /\ pc # "dm" /\ mode = "large"
       /\ plan \in Seq(WriteOf(Heads)) /\ cmds \in Seq(TextUnits)
       /\ attach[c].units \in Seq(TextUnits)

CallOK(c) ==
  link[c] # "closed" /\ ~late[c] =>
    /\ (Expected(c) /\ RoomFor(c)) \/ NoLine(c)
    /\ link[c] # "idle" => kind[c] = "none"

\* What a call returned.
ResultOK(c) ==
  kind[c] # "none" /\ ~late[c] =>
    /\ AllOf(got[c], sent[c], cur[c]) /\ kind[c] # "junk"
    /\ kind[c] = "text" => Len(got[c]) = 1 /\ got[c][1].tok = "text"
    /\ kind[c] = "bytes" => /\ Len(got[c]) = 3 + got[c][2].n /\ Len(got[c]) >= 3
                            /\ got[c][1].tok = "hash"

LinkOK(c) ==
  /\ link[c] # "closed" <=> peer[c] = "up"
  /\ peer[c] = "absent" => /\ inbox[c] = <<>> /\ rbuf[c] = <<>>
                           /\ outbox[c] = <<>> /\ kind[c] = "none"

\* The thread answers somebody who is or was there.
WriterOK == /\ pc # "loop" => writer \in Conns /\ peer[writer] # "absent"
            /\ pc \in {"dm", "write"} => mode # "none"

\* Lines of calls are lines of the client.
LinesAsked == \A c \in Conns : InCall(c) \/ kind[c] # "none" => LinkLine(cur[c])

CallsInv == /\ WriterOK /\ LinesAsked
            /\ \A c \in Conns : LinkOK(c) /\ CallOK(c) /\ ResultOK(c)

\* A step that changes nothing of all this.
LEMMA CallKept ==
  ASSUME NEW c \in Conns, CallOK(c), cur'[c] = cur[c],
         link'[c] = link[c], late'[c] = late[c], need'[c] = need[c],
         got'[c] = got[c], kind'[c] = kind[c], sent'[c] = sent[c],
         inbox'[c] = inbox[c], Unread(c)' = Unread(c),
         NoMore(c)' <=> NoMore(c), NoMore(c) \/ attach'[c] = attach[c],
         RoomFor(c) => RoomFor(c)', NoLine(c) => NoLine(c)'
  PROVE  CallOK(c)'
<1>1. Expected(c) => Expected(c)'
  BY DEF Expected, OnTheWay, ToAnswer, AnswerComes, AllOf
<1> QED BY <1>1 DEF CallOK

LEMMA StreamStays ==
  ASSUME Inv, NEW c \in Conns, outbox'[c] = outbox[c],
         ~Busy(c) \/ plan = <<>>, ~Busy(c)' \/ plan' = <<>>
  PROVE  Stream(c)' = Stream(c)
<1>1. Stream(c) = outbox[c]
  BY StreamIdle
<1>2. outbox[c] \o <<>> = outbox[c]
  BY ConcatEmptySeq DEF Inv, TypeOK, WireTypeOK
<1>3. Stream(c)' = outbox'[c] \o <<>>
  BY FlatEmpty DEF Stream
<1> QED BY <1>1, <1>2, <1>3

\* A connection the thread is not writing to and leaves alone.
LEMMA CallElsewhere ==
  ASSUME Inv, NEW c \in Conns, CallOK(c), UNCHANGED linkVars,
         sent'[c] = sent[c], inbox'[c] = inbox[c], outbox'[c] = outbox[c],
         interest'[c] = interest[c], attach'[c] = attach[c], ~Busy(c), ~Busy(c)'
  PROVE  CallOK(c)'
<1>1. Stream(c)' = Stream(c)
  BY StreamStays
<1>2. Unread(c)' = Unread(c)
  BY <1>1 DEF Unread, linkVars
<1>3. NoMore(c)' <=> NoMore(c)
  BY DEF NoMore
<1>4. RoomFor(c)' /\ (NoLine(c) => NoLine(c)')
  BY DEF RoomFor, NoLine, linkVars
<1> QED BY <1>2, <1>3, <1>4, CallKept DEF linkVars

LEMMA StreamType ==
  ASSUME Inv, NEW c \in Conns
  PROVE  Stream(c) \in Seq(Token)
<1>1. /\ outbox[c] \in Seq(Token) /\ plan \in Seq(Write) /\ <<>> \in Seq(Token)
  BY EmptySeq DEF Inv, TypeOK, WireTypeOK
<1> QED BY <1>1, FlatType, ConcatProperties DEF Stream

\* Nothing is unread when nothing is anywhere.
LEMMA UnreadEmpty ==
  ASSUME Inv, LinkTypeOK, NEW c \in Conns, Unread(c) = <<>>
  PROVE  /\ rbuf[c] = <<>> /\ Stream(c) = <<>> /\ outbox[c] = <<>>
         /\ link[c] = "payload" => got[c] = <<>>
<1> DEFINE g == IF link[c] = "payload" THEN got[c] ELSE <<>>
           f == IF Busy(c) THEN Flat(plan) ELSE <<>>
           r == rbuf[c]
           o == outbox[c]
           s == Stream(c)
<1>1. /\ g \in Seq(Token) /\ r \in Seq(Token) /\ o \in Seq(Token)
      /\ s \in Seq(Token) /\ f \in Seq(Token)
  BY EmptySeq, StreamType, FlatType DEF Inv, TypeOK, WireTypeOK, LinkTypeOK
<1>2. g \o (r \o s) = <<>> /\ s = o \o f
  BY DEF Unread, Stream
<1> HIDE DEF g, r, s, o, f
<1>3. r \o s \in Seq(Token)
  BY <1>1, ConcatProperties
<1>4. g = <<>> /\ r \o s = <<>>
  BY <1>1, <1>2, <1>3, ConcatEqualIffEmpty
<1>5. r = <<>> /\ s = <<>>
  BY <1>1, <1>4, ConcatEqualIffEmpty
<1>6. o = <<>>
  <2>1. o \o f = <<>>
    BY <1>2, <1>5
  <2> QED BY <1>1, <2>1, ConcatEqualIffEmpty
<1> QED BY <1>4, <1>5, <1>6 DEF g, r, o, s

\* The answer is planned: it is what the call waits for.
LEMMA CallPlanned ==
  ASSUME Inv, LinkTypeOK, NEW c \in Conns, ToAnswer(c), UNCHANGED linkVars, ~late[c],
         kind[c] = "none", sent'[c] = sent[c], inbox'[c] = inbox[c],
         outbox'[c] = outbox[c], ~Busy(c) \/ plan = <<>>,
         Busy(c)', NoMore(c)', RoomFor(c)', Flat(plan') \in Seq(Token),
         AnswerTo(Flat(plan'), attach[c])
  PROVE  CallOK(c)'
<1> DEFINE f == Flat(plan')
<1>1. /\ link[c] = "line" /\ Unread(c) = <<>> /\ inbox[c] = <<>>
      /\ attach[c].reqs = <<sent[c]>> /\ attach[c].units = cur[c]
  BY DEF ToAnswer
<1>2. rbuf[c] = <<>> /\ outbox[c] = <<>>
  BY <1>1, UnreadEmpty
<1>3. <<>> \o (<<>> \o (<<>> \o f)) = f
  BY ConcatEmptySeq
<1>4. Unread(c)' = <<>> \o (<<>> \o (<<>> \o f))
  BY <1>1, <1>2 DEF Unread, Stream, linkVars
<1>5. Unread(c)' = f
  BY <1>3, <1>4
<1>6. AllOf(f, sent[c], cur[c]) /\ OneAnswer(f)
  BY <1>1 DEF AnswerTo, AllOf
<1> HIDE DEF f
<1>7. AnswerComes(c)'
  BY <1>1, <1>5, <1>6 DEF AnswerComes, linkVars, AllOf
<1> QED BY <1>7 DEF CallOK, Expected, linkVars

\* A sequence whose elements are in a smaller set.
LEMMA SeqOfParts ==
  ASSUME NEW S, NEW T, NEW q \in Seq(S), \A i \in 1..Len(q) : q[i] \in T
  PROVE  q \in Seq(T)
<1>1. Len(q) \in Nat /\ q = [i \in 1..Len(q) |-> q[i]]
  BY LenProperties
<1> DEFINE n == Len(q)
<1>2. n \in Nat /\ \A i \in 1..n : q[i] \in T
  BY <1>1
<1> HIDE DEF n
<1>3. [i \in 1..n |-> q[i]] \in Seq(T)
  BY <1>2, IsASeq
<1> QED BY <1>1, <1>3 DEF n

\* The server's steps: a request is read, then answered, and the writes move
\* the answer from the plan to the buffer.
LEMMA CallServer ==
  ASSUME Inv, Inv', WriterOK, LinesAsked, LinkTypeOK,
         NEW c \in Conns, LinkOK(c), CallOK(c), ServerStep, UNCHANGED linkVars
  PROVE  CallOK(c)'
<1>0. SUFFICES ASSUME link[c] # "closed", ~late[c] PROVE CallOK(c)'
  BY DEF CallOK, linkVars
<1>1. /\ (Expected(c) /\ RoomFor(c)) \/ NoLine(c)
      /\ link[c] # "idle" => kind[c] = "none"
      /\ peer[c] = "up"
  BY <1>0 DEF CallOK, LinkOK
<1>t. /\ interest \in [Conns -> {"none", "read", "write"}]
      /\ attach \in [Conns -> Segment]
      /\ inbox \in [Conns -> Seq(Segment)] /\ outbox \in [Conns -> Seq(Token)]
  BY DEF Inv, TypeOK, WireTypeOK
<1>w. pc \in {"dm", "write"} => /\ writer \in Conns /\ interest[writer] = "write"
                                /\ mode # "none"
  BY DEF Inv, KeysOK, WriterOK
<1>2. CASE Select
  <2>1. UNCHANGED <<wireVars, interest, attach>> /\ ~Busy(c) /\ ~Busy(c)'
    BY <1>2 DEF Select, Busy
  <2> QED BY <2>1, CallElsewhere DEF wireVars
<1>3. ASSUME NEW d \in Conns, Accept(d) PROVE CallOK(c)'
  <2>1. /\ UNCHANGED <<wireVars, attach>> /\ ~Busy(c) /\ ~Busy(c)'
        /\ c # d => interest'[c] = interest[c]
        /\ c = d => interest[c] = "none" /\ interest'[c] = "read"
    BY <1>3, <1>t DEF Accept, Busy, Waiting, Inv, KeysOK
  <2>2. CASE c # d
    BY <2>1, <2>2, CallElsewhere DEF wireVars
  <2>3. CASE c = d
    <3>1. Stream(c)' = Stream(c)
      BY <2>1, StreamStays DEF wireVars
    <3>2. Unread(c)' = Unread(c)
      BY <3>1 DEF Unread, linkVars
    <3>3. NoMore(c)' /\ NoMore(c)
      BY <2>1, <2>3 DEF NoMore
    <3>4. RoomFor(c)' /\ (NoLine(c) => NoLine(c)')
      BY <2>1, <2>3 DEF RoomFor, NoLine, wireVars, linkVars
    <3> QED BY <2>1, <3>2, <3>3, <3>4, CallKept DEF wireVars, linkVars
  <2> QED BY <2>2, <2>3
<1>4. ASSUME NEW d \in Conns, Read(d) PROVE CallOK(c)'
  <2>1. /\ UNCHANGED <<outbox, sent>> /\ ~Busy(c) /\ ~Busy(c)' /\ interest[d] = "read"
        /\ c # d => UNCHANGED <<interest[c], attach[c], inbox[c]>>
    BY <1>4, <1>t DEF Read, Reading, Busy
  <2>2. CASE c # d
    BY <2>1, <2>2, CallElsewhere
  <2>3. CASE c = d
    <3>1. /\ inbox[c] # <<>> /\ inbox'[c] = Tail(inbox[c])
          /\ \/ UNCHANGED interest /\ UNCHANGED attach
             \/ interest'[c] = "write" /\ attach'[c] = inbox[c][1]
      BY <1>4, <1>t, <2>3, HeadTailProperties DEF Read
    <3>2. /\ OnTheWay(c) /\ link[c] = "line" /\ Len(inbox[c]) = 1
          /\ inbox[c][1].reqs = <<sent[c]>> /\ inbox[c][1].units = cur[c]
          /\ Unread(c) = <<>>
      BY <1>1, <3>1 DEF Expected, OnTheWay, ToAnswer, AnswerComes, NoLine
    <3>r. RoomFor(c)'
      BY <2>1 DEF RoomFor
    <3>3. inbox'[c] = <<>>
      <4>1. Tail(inbox[c]) \in Seq(Segment) /\ Len(Tail(inbox[c])) = Len(inbox[c]) - 1
        BY <1>t, <3>1, HeadTailProperties
      <4>2. Len(Tail(inbox[c])) = 0
        BY <3>2, <4>1
      <4> QED BY <3>1, <4>1, <4>2, EmptySeq
    <3>4. Unread(c)' = <<>>
      <4>1. Stream(c)' = Stream(c)
        BY <2>1, StreamStays
      <4> QED BY <3>2, <4>1 DEF Unread, linkVars
    <3>5. CASE UNCHANGED interest
      <4>1. NoMore(c)'
        BY <2>1, <2>3, <3>5 DEF NoMore
      <4>2. OnTheWay(c)'
        BY <3>2, <3>3, <3>4, <4>1 DEF OnTheWay, linkVars
      <4> QED BY <1>1, <3>r, <4>2 DEF CallOK, Expected, linkVars
    <3>6. CASE interest'[c] = "write" /\ attach'[c] = inbox[c][1]
      <4>1. ~NoMore(c)'
        BY <2>1, <3>6 DEF NoMore
      <4>2. ToAnswer(c)'
        BY <2>1, <3>2, <3>3, <3>4, <3>6, <4>1 DEF ToAnswer, linkVars
      <4> QED BY <1>1, <3>r, <3>2, <4>2 DEF CallOK, Expected, linkVars
    <3> QED BY <3>1, <3>5, <3>6
  <2> QED BY <2>2, <2>3
<1>5. ASSUME NEW d \in Conns, ReadClose(d) PROVE CallOK(c)'
  <2>1. /\ UNCHANGED <<outbox, sent>> /\ ~Busy(c) /\ ~Busy(c)' /\ peer[d] = "gone"
        /\ c # d => UNCHANGED <<interest[c], attach[c], inbox[c]>>
    BY <1>5, <1>t DEF ReadClose, Reading, Busy
  <2> QED BY <1>1, <2>1, CallElsewhere
<1>6. ASSUME NEW d \in Conns, AnswerLarge(d) \/ AnswerDm(d) \/ AnswerText(d)
      PROVE  CallOK(c)'
  <2>1. /\ UNCHANGED <<wireVars, interest, attach>> /\ ~Busy(c) /\ interest[d] = "write"
        /\ writer' = d
    BY <1>6 DEF AnswerLarge, AnswerDm, AnswerText, Answering, Busy
  <2>2. CASE c # d
    <3>1. ~Busy(c)'
      BY <2>1, <2>2 DEF Busy
    <3> QED BY <2>1, <3>1, CallElsewhere DEF wireVars
  <2>3. CASE c = d
    <3>1. /\ ToAnswer(c) /\ ~NoMore(c) /\ link[c] = "line"
          /\ attach[c].units = cur[c] /\ LinkLine(cur[c])
      BY <1>1, <2>1, <2>3 DEF NoMore, Expected, OnTheWay, ToAnswer, AnswerComes, NoLine,
                              LinesAsked, InCall
    <3>2. attach[c] \in Segment /\ attach[c].units # <<>>
      BY <1>t, <2>1, <2>3 DEF Inv, SegmentsOK, GoodSegment
    <3>e. rbuf[c] = <<>> /\ outbox[c] = <<>> /\ inbox[c] = <<>>
      BY <3>1, UnreadEmpty DEF ToAnswer
    <3>r. BinaryLine(cur[c]) \/ ~onlargeTransmit => RoomFor(c)'
      <4>1. Room(c) >= 3
        BY <3>e, SndCapAssumption DEF Room
      <4>2. BinaryLine(cur[c]) => Len(attach[c].units) = 1
        BY <3>1 DEF BinaryLine
      <4> QED BY <1>6, <2>3, <4>1, <4>2, RoomToAnswer DEF RoomFor
    <3>3. CASE (AnswerLarge(d) /\ BinaryLine(cur[c])) \/ AnswerDm(d)
      <4>p. AnswerLarge(d) => cmds' # <<>>
        <5>1. BinaryLine(cur[c]) => attach[c].units[1] # "mute" /\ Len(attach[c].units) = 1
          BY <3>1 DEF BinaryLine, BinaryUnits
        <5> QED BY <2>3, <3>2, <3>3, <5>1, OnePiece DEF AnswerLarge, AnswerDm
      <4>1. ~NoMore(c)' /\ plan' = <<>>
        BY <2>1, <2>3, <3>3, <4>p DEF NoMore, AnswerLarge, AnswerDm
      <4>2. Stream(c)' = Stream(c)
        BY <2>1, <4>1, StreamStays DEF wireVars
      <4>3. Unread(c)' = Unread(c)
        BY <4>2 DEF Unread, linkVars
      <4>4. RoomFor(c)'
        BY <3>3, <3>r DEF AnswerDm
      <4>5. ~NoLine(c)
        BY <2>1, <2>3 DEF NoLine
      <4> QED BY <2>1, <3>1, <4>1, <4>3, <4>4, <4>5, CallKept DEF wireVars, linkVars
    <3>4. CASE AnswerText(d)
      <4>1. plan' = Line(attach[c]) /\ NoMore(c)' /\ Busy(c)' /\ RoomFor(c)'
        BY <2>1, <2>3, <3>4, <3>r DEF AnswerText, NoMore, Busy
      <4>2. Flat(plan') \in Seq(Token) /\ AnswerTo(Flat(plan'), attach[c])
        BY <3>2, <4>1, LinePlanned, FlatType DEF Planned
      <4> QED BY <1>0, <1>1, <2>1, <3>1, <4>1, <4>2, CallPlanned DEF wireVars
    <3>5. CASE AnswerLarge(d) /\ TextLine(cur[c])
      <4>1. /\ Busy(c)' /\ pc' = "write" /\ mode' = "large" /\ plan' = <<>>
        BY <2>1, <2>3, <3>1, <3>5 DEF AnswerLarge, Busy
      <4>2. cur[c] \in Seq(TextUnits)
        <5>1. cur[c] \in Seq(Units) /\ \A i \in 1..Len(cur[c]) : cur[c][i] \in TextUnits
          BY <3>5 DEF TextLine, LinkTypeOK
        <5> QED BY <5>1, SeqOfParts
      <4>p. cmds' \in Seq(TextUnits)
        BY <2>3, <3>1, <3>5, <4>2, PiecesType DEF AnswerLarge
      <4>3. NoLine(c)'
        BY <2>1, <3>1, <3>e, <4>1, <4>2, <4>p, EmptySeq DEF NoLine, wireVars, linkVars
      <4> QED BY <1>1, <4>3 DEF CallOK, linkVars
    <3> QED BY <1>6, <3>1, <3>3, <3>4, <3>5 DEF LinkLine
  <2> QED BY <2>2, <2>3
<1>7. CASE GetData \/ DmLine \/ DmRemote
  <2>1. /\ UNCHANGED <<wireVars, interest, attach, writer>>
        /\ pc \in {"dm", "write"} /\ pc' = "write" /\ mode' # "none"
        /\ pc = "dm" \/ cmds # <<>>
    BY <1>7, <1>w DEF GetData, DmLine, DmRemote, DmStep
  <2>2. CASE c # writer
    <3>1. ~Busy(c) /\ ~Busy(c)'
      BY <2>1, <2>2 DEF Busy
    <3> QED BY <2>1, <3>1, CallElsewhere DEF wireVars
  <2>3. CASE c = writer
    <3>1. interest[c] = "write" /\ Busy(c) /\ interest'[c] = "write" /\ Busy(c)'
      BY <1>w, <2>1, <2>3 DEF Busy
    <3>2. CASE Expected(c) /\ RoomFor(c)
      <4>1. ToAnswer(c) /\ link[c] = "line"
        BY <2>1, <3>1, <3>2 DEF NoMore, Expected, OnTheWay, ToAnswer, AnswerComes
      <4>2. /\ plan = <<>> /\ cmds' = <<>> /\ Planned(plan')
            /\ AnswerTo(Flat(plan'), attach[c]) /\ AnswerRoom(c)'
        <5>1. writer \in Conns /\ AnswerRoom(writer)
          BY <2>1, <2>3, <3>1, <3>2 DEF RoomFor
        <5>2. /\ plan = <<>> /\ cmds' = <<>> /\ Planned(plan')
              /\ AnswerTo(Flat(plan'), attach[writer]) /\ AnswerRoom(writer)'
          BY <1>7, <5>1, RoomToPlan
        <5> QED BY <2>1, <2>3, <5>2 DEF AnswerRoom, Room
      <4>3. NoMore(c)' /\ RoomFor(c)'
        BY <2>1, <3>1, <4>2 DEF NoMore, RoomFor
      <4>4. Flat(plan') \in Seq(Token)
        BY <4>2, FlatType DEF Planned
      <4> QED BY <1>0, <1>1, <2>1, <3>1, <4>1, <4>2, <4>3, <4>4, CallPlanned DEF wireVars
    <3>3. CASE NoLine(c)
      <4>1. /\ GetData /\ mode = "large" /\ cmds \in Seq(TextUnits) /\ cmds # <<>>
        BY <1>7, <3>1, <3>3 DEF NoLine, GetData, DmLine, DmRemote, DmStep
      <4>2. Head(cmds) \in TextUnits /\ Tail(cmds) \in Seq(TextUnits)
        BY <4>1, HeadTailProperties
      <4>3. plan' \in Seq(WriteOf(Heads))
        <5>1. plan' = NullFrame(attach[c]) \o <<>>
          BY <2>3, <4>1, <4>2 DEF GetData, TextUnits, BinaryUnits
        <5>2. NullFrame(attach[c]) \in Seq(WriteOf(Heads))
          <6>1. attach[c] \in Segment
            BY <1>t
          <6>2. Tok("hash", attach[c], 0) \in Heads /\ Tok("len", attach[c], 0) \in Heads
            BY <6>1, TokenType DEF Heads, Tok
          <6> QED BY <6>2, NullFrameType
        <5> QED BY <5>1, <5>2, ConcatEmptySeq
      <4>4. NoLine(c)'
        BY <2>1, <3>1, <3>3, <4>1, <4>2, <4>3 DEF NoLine, GetData, wireVars, linkVars
      <4> QED BY <1>1, <4>4 DEF CallOK, linkVars
    <3> QED BY <1>1, <3>2, <3>3
  <2> QED BY <2>2, <2>3
<1>8. CASE DmShort
  <2>1. /\ UNCHANGED <<wireVars, interest, attach, writer, cmds, mode, plan>>
        /\ pc = "dm" /\ pc' = "dead"
    BY <1>8 DEF DmShort, DmStep
  <2>2. CASE c # writer
    <3>1. ~Busy(c) /\ ~Busy(c)'
      BY <2>1, <2>2 DEF Busy
    <3> QED BY <2>1, <3>1, CallElsewhere DEF wireVars
  <2>3. CASE c = writer
    <3>0. interest[c] = "write" /\ Busy(c) /\ Expected(c) /\ RoomFor(c)
      BY <1>1, <1>w, <2>1, <2>3 DEF Busy, NoLine
    <3>1. ToAnswer(c) /\ link[c] = "line"
      BY <2>1, <3>0 DEF NoMore, Expected, OnTheWay, ToAnswer, AnswerComes
    <3>2. plan = <<>> /\ cmds = <<>>
      BY <2>1, <3>0 DEF RoomFor, AnswerRoom
    <3>3. NoMore(c)'
      BY <1>w, <2>1, <2>3, <3>2 DEF NoMore, Busy
    <3>4. Unread(c)' = <<>> /\ inbox'[c] = <<>>
      <4>1. Stream(c)' = Stream(c)
        BY <2>1, <3>2, StreamStays DEF wireVars
      <4>2. Unread(c) = <<>> /\ inbox[c] = <<>>
        BY <3>1 DEF ToAnswer
      <4> QED BY <2>1, <4>1, <4>2 DEF Unread, linkVars, wireVars
    <3>5. OnTheWay(c)'
      BY <3>1, <3>3, <3>4 DEF OnTheWay, linkVars
    <3>6. RoomFor(c)'
      BY <2>1 DEF RoomFor
    <3> QED BY <1>1, <3>5, <3>6 DEF CallOK, Expected, linkVars
  <2> QED BY <2>2, <2>3
<1>9. CASE ChannelWrite
  <2>1. /\ UNCHANGED <<sent, inbox, interest, attach, writer, cmds, pc, mode>>
        /\ c # writer => outbox'[c] = outbox[c]
    BY <1>9, <1>t DEF ChannelWrite, Writing
  <2>2. CASE c # writer
    <3>1. ~Busy(c) /\ ~Busy(c)'
      BY <2>1, <2>2 DEF Busy
    <3> QED BY <2>1, <2>2, <3>1, CallElsewhere
  <2>3. CASE c = writer
    <3>0. /\ interest[c] = "write" /\ Busy(c) /\ mode # "none" /\ pc = "write"
          /\ writer \in Conns
      BY <1>9, <1>w, <2>3 DEF ChannelWrite, Writing, Busy
    <3>1. CASE Expected(c) /\ RoomFor(c)
      <4>1. AnswerRoom(writer)
        BY <2>3, <3>0, <3>1 DEF RoomFor
      <4>2. AnswerRoom(writer)' /\ Stream(c)' = Stream(c)
        BY <1>9, <2>3, <3>0, <4>1, RoomToWrite
      <4>3. Unread(c)' = Unread(c)
        BY <4>2 DEF Unread, linkVars
      <4>4. NoMore(c)' <=> NoMore(c)
        BY <2>1 DEF NoMore, Busy
      <4>5. RoomFor(c)'
        BY <2>1, <2>3, <4>2 DEF RoomFor, AnswerRoom, Room
      <4>6. Expected(c)'
        BY <2>1, <3>1, <4>3, <4>4 DEF Expected, OnTheWay, ToAnswer, AnswerComes, AllOf,
                                      linkVars
      <4> QED BY <1>1, <4>5, <4>6 DEF CallOK, linkVars
    <3>2. CASE NoLine(c)
      <4>1. plan \in Seq(WriteOf(Heads)) /\ outbox[c] \in Seq(Heads)
        BY <3>0, <3>2 DEF NoLine
      <4>2. plan' \in Seq(WriteOf(Heads)) /\ outbox'[c] \in Seq(Heads)
        <5>1. plan' \in Seq(WriteOf(Heads)) /\ outbox'[writer] \in Seq(Heads)
          BY <1>9, <1>t, <2>3, <3>0, <4>1, WriteType DEF Inv
        <5> QED BY <2>3, <5>1
      <4>3. NoLine(c)'
        BY <2>1, <3>0, <3>2, <4>2 DEF NoLine, Busy, linkVars
      <4> QED BY <1>1, <4>3 DEF CallOK, linkVars
    <3> QED BY <1>1, <3>1, <3>2
  <2> QED BY <2>2, <2>3
<1>10. CASE WriteVoid \/ WriteFails
  <2>1. /\ UNCHANGED <<sent, inbox, outbox, interest, attach, writer>>
        /\ peer[writer] = "gone"
    BY <1>10 DEF WriteVoid, WriteFails, Writing
  <2>2. ~Busy(c) /\ ~Busy(c)'
    BY <1>1, <2>1 DEF Busy
  <2> QED BY <2>1, <2>2, CallElsewhere
<1>11. CASE Finish
  <2>1. /\ UNCHANGED <<wireVars, writer>> /\ pc = "write" /\ pc' = "loop"
        /\ plan = <<>> /\ cmds = <<>> /\ interest'[writer] = "read"
        /\ \A d \in Conns \ {writer} : interest'[d] = interest[d] /\ attach'[d] = attach[d]
    BY <1>11, <1>t, <1>w DEF Finish
  <2>2. CASE c # writer
    <3>1. ~Busy(c) /\ ~Busy(c)'
      BY <2>1, <2>2 DEF Busy
    <3> QED BY <2>1, <2>2, <3>1, CallElsewhere DEF wireVars
  <2>3. CASE c = writer
    <3>1. NoMore(c) /\ NoMore(c)' /\ ~Busy(c)'
      BY <1>w, <2>1, <2>3 DEF NoMore, Busy
    <3>2. Stream(c)' = Stream(c)
      BY <2>1, <3>1, StreamStays DEF wireVars
    <3>3. Unread(c)' = Unread(c)
      BY <3>2 DEF Unread, linkVars
    <3>4. RoomFor(c)' /\ (NoLine(c) => NoLine(c)')
      BY <2>1, <2>3, <3>1 DEF RoomFor, NoLine, wireVars, linkVars
    <3> QED BY <2>1, <3>1, <3>3, <3>4, CallKept DEF wireVars, linkVars
  <2> QED BY <2>2, <2>3
<1> QED
  BY <1>2, <1>3, <1>4, <1>5, <1>6, <1>7, <1>8, <1>9, <1>10, <1>11 DEF ServerStep

\* A line read while the answer comes: the text, or the header of the frame.
LEMMA LineRead ==
  ASSUME NEW r \in Seq(Token), NEW s \in Seq(Token), NEW k \in 1..Len(r),
         OneAnswer(r \o s), IsLine(r, k)
  PROVE  \/ k = 1 /\ Len(r) = 1 /\ s = <<>> /\ r[1].tok = "text"
         \/ k = 3 /\ r[1].tok = "hash" /\ r[2].tok = "len" /\ r[2].n = (r \o s)[2].n
<1> DEFINE a == r \o s
           lr == Len(r)
           ls == Len(s)
           la == Len(a)
<1>1. /\ lr \in Nat /\ ls \in Nat /\ la = lr + ls
      /\ \A i \in 1..lr : a[i] = r[i]
  <2>1. la = lr + ls /\ lr \in Nat /\ ls \in Nat
    BY ConcatProperties, LenProperties
  <2>2. \A i \in 1..lr + ls : a[i] = IF i <= lr THEN r[i] ELSE s[i - lr]
    BY ConcatProperties
  <2> HIDE DEF a, lr, ls, la
  <2>3. \A i \in 1..lr : i \in 1..lr + ls /\ i <= lr
    BY <2>1
  <2> QED BY <2>1, <2>2, <2>3
<1>2. k \in 1..lr
  OBVIOUS
<1>3. /\ EndsLine(r[k]) \/ r[k].tok = "data"
      /\ \A j \in 1..k - 1 : ~EndsLine(r[j])
  BY DEF IsLine
<1>4. OneAnswer(a)
  OBVIOUS
<1>5. ls = 0 => s = <<>>
  BY EmptySeq
<1> HIDE DEF a, lr, ls, la
<1>6. a[k] = r[k]
  BY <1>1, <1>2
<1>7. CASE la = 1 /\ a[1].tok = "text"
  <2>1. k = 1 /\ lr = 1 /\ ls = 0
    BY <1>1, <1>2, <1>7
  <2> QED BY <1>5, <1>6, <1>7, <2>1 DEF lr
<1>8. CASE la = 2 /\ a[1].tok = "hash" /\ a[2].tok = "len"
  <2>1. k = 1 \/ k = 2
    BY <1>1, <1>2, <1>8
  <2> QED BY <1>3, <1>6, <1>8, <2>1 DEF EndsLine
<1>9. CASE IsFrame(a)
  <2>1. a[1].tok = "hash" /\ a[2].tok = "len" /\ a[3].tok = "nl"
    BY <1>9 DEF IsFrame
  <2>2. k # 1 /\ k # 2
    BY <1>3, <1>6, <2>1 DEF EndsLine
  <2>3. k >= 3
    BY <1>1, <1>2, <2>2
  <2>4. 1 \in 1..lr /\ 2 \in 1..lr /\ 3 \in 1..lr
    BY <1>1, <1>2, <2>3
  <2>5. EndsLine(r[3])
    BY <1>1, <2>1, <2>4 DEF EndsLine
  <2>6. k # 3 => 3 \in 1..k - 1
    BY <1>1, <1>2, <2>3
  <2>7. k = 3
    BY <1>3, <2>5, <2>6
  <2> QED BY <1>1, <2>1, <2>4, <2>7 DEF a
<1> QED BY <1>4, <1>7, <1>8, <1>9 DEF OneAnswer, la

\* What a client's step leaves alone.
LEMMA LinkElsewhere ==
  ASSUME Inv, LinkTypeOK, NEW c \in Conns, LinkStep(c), NEW d \in Conns, d # c
  PROVE  /\ UNCHANGED <<link[d], cur[d], rbuf[d], need[d], got[d], kind[d], late[d]>>
         /\ UNCHANGED <<peer[d], inbox[d], outbox[d], sent[d]>>
<1>0. /\ peer \in [Conns -> {"absent", "up", "gone"}]
      /\ inbox \in [Conns -> Seq(Segment)] /\ outbox \in [Conns -> Seq(Token)]
      /\ sent \in [Conns -> Nat]
  BY DEF Inv, TypeOK, WireTypeOK
<1>1. UNCHANGED <<link[d], cur[d], rbuf[d], need[d], got[d], kind[d], late[d]>>
  <2>1. CASE Open(c) \/ Quit(c) \/ Timeout(c) \/ \E l \in Lines : Call(c, l)
    BY <2>1 DEF LinkTypeOK, Open, Quit, Timeout, Call
  <2>2. CASE Feed(c) \/ ReadExactly(c)
    BY <2>2 DEF LinkTypeOK, Feed, ReadExactly
  <2>3. CASE ReadLine(c)
    <3>1. PICK line : Interpret(c, line)
      BY <2>3 DEF ReadLine
    <3>2. UNCHANGED <<link[d], need[d], kind[d]>>
      BY <3>1 DEF LinkTypeOK, Interpret
    <3> QED BY <2>3, <3>2 DEF LinkTypeOK, ReadLine
  <2> QED BY <2>1, <2>2, <2>3 DEF LinkStep, Receive
<1>2. ASSUME Connect(c) \/ Take(c) \/ Hangup(c) \/ UNCHANGED wireVars
      PROVE  UNCHANGED <<peer[d], inbox[d], outbox[d], sent[d]>>
  BY <1>0, <1>2 DEF Connect, Take, Hangup, wireVars
<1>3. ASSUME NEW l \in Lines, Send(c, l)
      PROVE  UNCHANGED <<peer[d], inbox[d], outbox[d], sent[d]>>
  <2>1. inbox'[d] = inbox[d]
    BY <1>3, SendReadable
  <2> QED BY <1>0, <1>3, <2>1 DEF Send
<1> QED BY <1>1, <1>2, <1>3, LinkOnWire

\* A call leaves nothing behind once its answer is consumed.
LEMMA CallConsumed ==
  ASSUME NEW c \in Conns, link'[c] = "idle", rbuf'[c] = <<>>, Stream(c)' = <<>>,
         NoMore(c)', inbox'[c] = <<>>, RoomFor(c)'
  PROVE  CallOK(c)'
<1>1. <<>> \o (<<>> \o <<>>) = <<>>
  BY EmptySeq, ConcatEmptySeq
<1>2. Unread(c)' = <<>>
  BY <1>1 DEF Unread
<1>3. OnTheWay(c)'
  BY <1>2 DEF OnTheWay
<1> QED BY <1>3 DEF CallOK, Expected

\* readline returns the answer, or what a frame starts with.
LEMMA CallReadLine ==
  ASSUME Inv, LinkTypeOK, NEW c \in Conns, CallOK(c), ResultOK(c), ReadLine(c),
         UNCHANGED serverVars
  PROVE  CallOK(c)' /\ ResultOK(c)'
<1>0. SUFFICES ASSUME ~late[c] PROVE CallOK(c)' /\ ResultOK(c)'
  BY DEF CallOK, ResultOK, ReadLine
<1> DEFINE r == rbuf[c]
           s == Stream(c)
<1>1. PICK k \in 1..Len(r) :
        /\ IsLine(r, k) /\ Interpret(c, SubSeq(r, 1, k))
        /\ got' = [got EXCEPT ![c] = SubSeq(r, 1, k)]
        /\ rbuf' = [rbuf EXCEPT ![c] = SubSeq(@, k + 1, Len(@))]
  BY DEF ReadLine
<1> DEFINE line == SubSeq(r, 1, k)
           rest == SubSeq(r, k + 1, Len(r))
<1>2. /\ link[c] = "line" /\ UNCHANGED wireVars /\ UNCHANGED <<late, serverVars>>
      /\ r \in Seq(Token) /\ s \in Seq(Token) /\ Len(r) \in Nat
      /\ got'[c] = line /\ rbuf'[c] = rest
  BY <1>1, StreamType, LenProperties DEF ReadLine, LinkTypeOK
<1>c. cur' = cur
  BY DEF ReadLine
<1>3. r # <<>>
  BY <1>1, EmptySeq
<1>4. Unread(c) = r \o s
  <2>1. r \o s \in Seq(Token)
    BY <1>2, ConcatProperties
  <2>2. <<>> \o (r \o s) = r \o s
    BY <2>1, ConcatEmptySeq
  <2> QED BY <1>2, <2>2 DEF Unread
<1>n. ~NoLine(c)
  <2>1. k \in 1..Len(r)
    OBVIOUS
  <2> HIDE DEF r
  <2>2. r \in Seq(Heads) => r[k].tok \in {"hash", "len"}
    BY <2>1, ElementOfSeq DEF Heads
  <2> QED BY <1>1, <2>2 DEF NoLine, IsLine, EndsLine, r
<1>5. /\ AnswerComes(c) /\ NoMore(c) /\ inbox[c] = <<>> /\ kind[c] = "none"
      /\ OneAnswer(r \o s) /\ AllOf(r \o s, sent[c], cur[c]) /\ RoomFor(c)
  <2>1. Unread(c) # <<>>
    BY <1>3, UnreadEmpty
  <2>2. AnswerComes(c) /\ kind[c] = "none" /\ RoomFor(c)
    BY <1>0, <1>2, <1>n, <2>1 DEF CallOK, Expected, OnTheWay, ToAnswer
  <2> QED BY <1>4, <2>2 DEF AnswerComes
<1>6. /\ NoMore(c)' /\ inbox'[c] = <<>> /\ Stream(c)' = s /\ sent'[c] = sent[c]
      /\ RoomFor(c)'
  BY <1>2, <1>5 DEF NoMore, Stream, Busy, RoomFor, AnswerRoom, Room, wireVars, serverVars
<1>7. /\ line \in Seq(Token) /\ rest \in Seq(Token) /\ Len(line) = k
      /\ \A i \in 1..k : line[i] = r[i]
      /\ line \o rest = r
  <2> DEFINE n == Len(r)
  <2>1. \A i \in 1..n : r[i] \in Token
    BY <1>2, ElementOfSeq
  <2>2. n \in Nat /\ k \in 1..n
    BY <1>2
  <2> HIDE DEF n
  <2>3. /\ k \in Int /\ k \in Nat /\ k + 1 \in Int /\ n \in Int
        /\ \A i \in 1..k : i \in 1..n
        /\ \A i \in k + 1..n : i \in 1..n
        /\ 1 \in 1..n + 1 /\ k \in 1 - 1..n /\ n \in k..n
        /\ k >= 1
    BY <2>2
  <2>4. /\ SubSeq(r, 1, k) \in Seq(Token) /\ Len(SubSeq(r, 1, k)) = k
        /\ \A i \in 1..k : SubSeq(r, 1, k)[i] = r[i]
    BY <2>1, <2>3, SubSeqProperties
  <2>5. SubSeq(r, k + 1, n) \in Seq(Token)
    BY <2>1, <2>3, SubSeqProperties
  <2>6. SubSeq(r, 1, k) \o SubSeq(r, k + 1, n) = SubSeq(r, 1, n)
    BY <1>2, <2>3, ConcatAdjacentSubSeq DEF n
  <2>7. SubSeq(r, 1, n) = r
    BY <1>2, SubSeqFull DEF n
  <2> QED BY <2>4, <2>5, <2>6, <2>7 DEF n
<1>8. AllOf(line, sent[c], cur[c])
  <2>1. \A i \in 1..Len(r) : i \in 1..Len(r \o s) /\ (r \o s)[i] = r[i]
    <3> DEFINE a == r \o s
               lr == Len(r)
               ls == Len(s)
               la == Len(a)
    <3>1. /\ lr \in Nat /\ ls \in Nat /\ la = lr + ls
          /\ \A i \in 1..lr + ls : a[i] = IF i <= lr THEN r[i] ELSE s[i - lr]
      BY <1>2, ConcatProperties, LenProperties
    <3> HIDE DEF a, lr, ls, la
    <3>2. \A i \in 1..lr : i \in 1..la /\ i \in 1..lr + ls /\ i <= lr
      BY <3>1
    <3>3. \A i \in 1..lr : i \in 1..la /\ a[i] = r[i]
      BY <3>1, <3>2
    <3> QED BY <3>3 DEF a, lr, la
  <2>2. \A i \in 1..k : i \in 1..Len(r)
    BY <1>2
  <2> HIDE DEF r, s, line
  <2> QED BY <1>5, <1>7, <2>1, <2>2 DEF AllOf
<1>9. CASE k = 1 /\ Len(r) = 1 /\ s = <<>> /\ r[1].tok = "text"
  <2>1. Len(line) = 1 /\ line[1] = r[1]
    BY <1>7, <1>9
  <2>2. ~IsHeader(line)
    BY <2>1 DEF IsHeader
  <2> HIDE DEF line, rest
  <2>3. Interpret(c, line)
    BY <1>1 DEF line
  <2>4. link'[c] = "idle" /\ kind'[c] = "text"
    BY <1>9, <2>1, <2>2, <2>3 DEF Interpret, LinkTypeOK
  <2>5. rest = <<>>
    BY <1>9, SubSeqEmpty DEF rest
  <2>6. CallOK(c)'
    BY <1>2, <1>6, <1>9, <2>4, <2>5, CallConsumed
  <2>7. ResultOK(c)'
    BY <1>2, <1>c, <1>6, <1>8, <1>9, <2>1, <2>4 DEF ResultOK, AllOf
  <2> QED BY <2>6, <2>7
<1>10. CASE k = 3 /\ r[1].tok = "hash" /\ r[2].tok = "len" /\ r[2].n = (r \o s)[2].n
  <2>1. Len(line) = 3 /\ line[1] = r[1] /\ line[2] = r[2]
    BY <1>7, <1>10
  <2>2. IsHeader(line)
    BY <1>10, <2>1 DEF IsHeader
  <2> HIDE DEF line, rest
  <2>3. Interpret(c, line)
    BY <1>1 DEF line
  <2>4. link'[c] = "payload" /\ need'[c] = line[2].n /\ kind'[c] = "none"
    BY <1>5, <2>2, <2>3 DEF Interpret, LinkTypeOK
  <2>5. Unread(c)' = r \o s
    <3>1. Unread(c)' = line \o (rest \o s)
      BY <1>2, <1>6, <2>4 DEF Unread
    <3> HIDE DEF r, s
    <3>a. line \in Seq(Token)
      BY <1>7
    <3>b. rest \in Seq(Token)
      BY <1>7
    <3>c. s \in Seq(Token)
      BY <1>2
    <3>2. (line \o rest) \o s = line \o (rest \o s)
      BY <3>a, <3>b, <3>c, ConcatAssociative
    <3> QED BY <1>7, <3>1, <3>2
  <2>6. AnswerComes(c)'
    BY <1>2, <1>c, <1>5, <1>6, <2>1, <2>4, <2>5 DEF AnswerComes, AllOf
  <2>7. CallOK(c)'
    BY <1>6, <2>4, <2>6 DEF CallOK, Expected
  <2> QED BY <2>4, <2>7 DEF ResultOK
<1> HIDE DEF r, s
<1> QED BY <1>1, <1>2, <1>5, <1>9, <1>10, LineRead

\* readexactly returns the rest of the frame and leaves nothing.
LEMMA CallReadExactly ==
  ASSUME Inv, LinkTypeOK, NEW c \in Conns, CallOK(c), ResultOK(c), ReadExactly(c),
         UNCHANGED serverVars
  PROVE  CallOK(c)' /\ ResultOK(c)'
<1>0. SUFFICES ASSUME ~late[c] PROVE CallOK(c)' /\ ResultOK(c)'
  BY DEF CallOK, ResultOK, ReadExactly
<1> DEFINE g == got[c]
           r == rbuf[c]
           s == Stream(c)
           n == need[c]
           rs == r \o s
           all == g \o rs
           lr == Len(r)
           ls == Len(s)
<1>1. /\ link[c] = "payload" /\ UNCHANGED wireVars /\ UNCHANGED <<late, serverVars>>
      /\ lr >= n
      /\ got'[c] = g \o SubSeq(r, 1, n) /\ rbuf'[c] = SubSeq(r, n + 1, lr)
      /\ link'[c] = "idle" /\ kind'[c] = "bytes" /\ cur' = cur
  BY DEF ReadExactly, LinkTypeOK
<1>2. /\ g \in Seq(Token) /\ r \in Seq(Token) /\ s \in Seq(Token) /\ n \in Nat
      /\ lr \in Nat /\ ls \in Nat
  BY StreamType, LenProperties DEF LinkTypeOK
<1>3. /\ NoMore(c) /\ inbox[c] = <<>> /\ OneAnswer(all) /\ AllOf(all, sent[c], cur[c])
      /\ Len(g) = 3 /\ n = g[2].n /\ RoomFor(c)
  <2>1. AnswerComes(c) /\ RoomFor(c)
    BY <1>0, <1>1 DEF CallOK, Expected, OnTheWay, ToAnswer, NoLine
  <2>2. Unread(c) = all
    BY <1>1 DEF Unread
  <2> QED BY <1>1, <2>1, <2>2 DEF AnswerComes
<1>4. /\ NoMore(c)' /\ inbox'[c] = <<>> /\ Stream(c)' = s /\ sent'[c] = sent[c]
      /\ RoomFor(c)'
  BY <1>1, <1>3 DEF NoMore, Stream, Busy, RoomFor, AnswerRoom, Room, wireVars, serverVars
<1>5. rs \in Seq(Token) /\ Len(rs) = lr + ls
  BY <1>2, ConcatProperties
<1>6. /\ Len(all) = 3 + (lr + ls) /\ all[2] = g[2]
  <2> DEFINE m == Len(rs)
  <2>1. m = lr + ls /\ Len(g) = 3
    BY <1>3, <1>5
  <2>2. /\ Len(all) = Len(g) + m
        /\ \A i \in 1..Len(g) + m : all[i] = IF i <= Len(g) THEN g[i] ELSE rs[i - Len(g)]
    <3>1. g \in Seq(Token)
      BY <1>2
    <3>2. rs \in Seq(Token)
      BY <1>5
    <3> HIDE DEF g, rs
    <3> QED BY <3>1, <3>2, ConcatProperties
  <2> HIDE DEF g, all, rs, m, lr, ls
  <2>3. 2 \in 1..3 + m /\ 2 <= 3
    BY <1>2, <2>1
  <2> QED BY <2>1, <2>2, <2>3
<1>7. Len(all) = 3 + n /\ all[1].tok = "hash"
  <2>1. Len(all) >= 3
    <3> HIDE DEF all, lr, ls
    <3> QED BY <1>2, <1>6
  <2> HIDE DEF all, g, n
  <2> QED BY <1>3, <1>6, <2>1 DEF OneAnswer, IsFrame
<1>8. lr = n /\ ls = 0
  <2> HIDE DEF all, lr, ls, n
  <2> QED BY <1>1, <1>2, <1>6, <1>7
<1>9. s = <<>>
  BY <1>2, <1>8, EmptySeq
<1>10. got'[c] = all /\ rbuf'[c] = <<>>
  <2>1. SubSeq(r, 1, lr) = r
    BY <1>2, SubSeqFull
  <2>2. lr + 1 \in Int /\ lr \in Int /\ lr < lr + 1
    <3> HIDE DEF lr
    <3> QED BY <1>2
  <2>3. SubSeq(r, lr + 1, lr) = <<>>
    BY <2>2, SubSeqEmpty
  <2>4. rs = r
    BY <1>2, <1>9, ConcatEmptySeq
  <2> HIDE DEF g, r, s, n, rs, lr
  <2> QED BY <1>1, <1>8, <2>1, <2>3, <2>4
<1>11. CallOK(c)'
  BY <1>1, <1>4, <1>9, <1>10, CallConsumed
<1>12. ResultOK(c)'
  <2>1. AllOf(all, sent[c], cur[c]) /\ Len(all) = 3 + all[2].n /\ all[1].tok = "hash"
    BY <1>3, <1>6, <1>7
  <2>2. Len(all) >= 3
    <3> HIDE DEF all, lr, ls
    <3> QED BY <1>2, <1>6
  <2> HIDE DEF all
  <2> QED BY <1>1, <1>4, <1>10, <2>1, <2>2 DEF ResultOK, AllOf
<1> QED BY <1>11, <1>12

\* Feeding the reader moves the boundary between its buffer and the stream.
LEMMA FeedMoves ==
  ASSUME Inv, LinkTypeOK, NEW c \in Conns, Feed(c), UNCHANGED serverVars
  PROVE  rbuf'[c] \o Stream(c)' = rbuf[c] \o Stream(c)
<1> DEFINE r == rbuf[c]
           h == Head(outbox[c])
           z == <<h>>
           s == Stream(c)'
           a == Append(r, h)
<1>1. Take(c) /\ rbuf'[c] = a /\ r \in Seq(Token)
  BY DEF Feed, LinkTypeOK
<1>2. h \in Token /\ s \in Seq(Token) /\ Stream(c) = z \o s
  BY <1>1, StreamTaken
<1>3. a = r \o z
  BY <1>1, <1>2, AppendIsConcat
<1>4. z \in Seq(Token)
  BY <1>2
<1> HIDE DEF r, h, z, s, a
<1>5. (r \o z) \o s = r \o (z \o s)
  BY <1>1, <1>2, <1>4, ConcatAssociative
<1>6. a \o s = r \o Stream(c)
  BY <1>2, <1>3, <1>5
<1> QED BY <1>1, <1>6 DEF r, s

\* A client's step is right for its own call.
LEMMA CallLink ==
  ASSUME ~Tearing, Inv, PeersOK, WriterOK, LinkTypeOK, NEW c \in Conns,
         LinkOK(c), CallOK(c), ResultOK(c), LinkStep(c), UNCHANGED serverVars
  PROVE  CallOK(c)' /\ ResultOK(c)'
<1>1. CASE Open(c)
  <2>1. /\ peer[c] = "absent" /\ link'[c] = "idle" /\ UNCHANGED <<rbuf, kind>>
        /\ UNCHANGED <<inbox, outbox>>
    BY <1>1 DEF Open, Connect, LinkTypeOK
  <2>2. /\ inbox[c] = <<>> /\ rbuf[c] = <<>> /\ kind[c] = "none" /\ outbox[c] = <<>>
    BY <2>1 DEF LinkOK
  <2>3. interest[c] # "write"
    BY <2>1 DEF PeersOK, Inv, KeysOK
  <2>4. ~Busy(c) /\ ~Busy(c)'
    BY <2>1 DEF Busy, serverVars, WriterOK
  <2>5. Stream(c)' = <<>>
    <3>1. Stream(c) = outbox[c]
      BY <2>4, StreamIdle
    <3>2. Stream(c)' = Stream(c)
      BY <2>1, <2>4, StreamStays
    <3> QED BY <2>2, <3>1, <3>2
  <2>6. NoMore(c)'
    BY <2>3 DEF NoMore, serverVars
  <2>7. RoomFor(c)'
    BY <2>4 DEF RoomFor
  <2> QED BY <2>1, <2>2, <2>5, <2>6, <2>7, CallConsumed DEF ResultOK
<1>2. ASSUME NEW l \in Lines, Call(c, l) PROVE CallOK(c)' /\ ResultOK(c)'
  <2>1. /\ link[c] = "idle" /\ link'[c] = "line" /\ kind'[c] = "none"
        /\ UNCHANGED <<rbuf, late>> /\ outbox' = outbox /\ sent'[c] = sent[c] + 1
        /\ cur'[c] = l
    BY <1>2 DEF Call, Send, LinkTypeOK, Inv, TypeOK, WireTypeOK
  <2>2. ~late[c] => /\ inbox[c] = <<>> /\ Unread(c) = <<>> /\ NoMore(c) /\ RoomFor(c)
    BY <2>1 DEF CallOK, Expected, OnTheWay, ToAnswer, AnswerComes, NoLine
  <2>3. inbox[c] = <<>> => /\ Len(inbox'[c]) = 1 /\ inbox'[c][1].reqs = <<sent'[c]>>
                           /\ inbox'[c][1].units = cur'[c]
    <3> SUFFICES ASSUME inbox[c] = <<>>
                 PROVE  /\ Len(inbox'[c]) = 1 /\ inbox'[c][1].reqs = <<sent'[c]>>
                        /\ inbox'[c][1].units = cur'[c]
      OBVIOUS
    <3> DEFINE seg == [reqs |-> <<sent[c] + 1>>, units |-> l]
    <3>1. inbox' = [inbox EXCEPT ![c] = @ \o <<seg>>]
      BY <1>2 DEF Call, Send, Arrive
    <3>2. inbox'[c] = <<>> \o <<seg>>
      BY <3>1 DEF Inv, TypeOK, WireTypeOK
    <3>3. <<>> \o <<seg>> = <<seg>>
      <4> HIDE DEF seg
      <4>1. <<seg>> \in Seq({seg})
        OBVIOUS
      <4> QED BY <4>1, ConcatEmptySeq
    <3> QED BY <2>1, <3>2, <3>3
  <2>4. Stream(c)' = Stream(c)
    BY <2>1 DEF Stream, Busy, serverVars
  <2>5. Unread(c)' = Unread(c)
    BY <2>1, <2>4 DEF Unread
  <2>6. NoMore(c)' <=> NoMore(c)
    BY DEF NoMore, Busy, serverVars
  <2>7. ~late[c] => OnTheWay(c)'
    BY <2>1, <2>2, <2>3, <2>5, <2>6 DEF OnTheWay
  <2>8. ~late[c] => RoomFor(c)'
    BY <2>1, <2>2 DEF RoomFor, Busy, AnswerRoom, Room, serverVars
  <2> QED BY <2>1, <2>7, <2>8 DEF CallOK, Expected, ResultOK
<1>3. CASE Feed(c)
  <2> DEFINE r == rbuf[c]
             h == Head(outbox[c])
             a == Append(r, h)
  <2>1. /\ Take(c) /\ UNCHANGED <<link, cur, need, got, kind, late, inbox, sent>>
        /\ rbuf'[c] = a /\ r \in Seq(Token)
    BY <1>3 DEF Feed, Take, LinkTypeOK
  <2> HIDE DEF r, h, a
  <2>7. Unread(c)' = Unread(c)
    BY <1>3, <2>1, FeedMoves DEF Unread
  <2>8. NoMore(c)' <=> NoMore(c)
    BY DEF NoMore, Busy, serverVars
  <2>n. RoomFor(c) => RoomFor(c)'
    <3> SUFFICES ASSUME RoomFor(c), Busy(c)', pc' # "dead" PROVE AnswerRoom(c)'
      BY DEF RoomFor
    <3>1. AnswerRoom(c) /\ UNCHANGED <<pc, cmds, plan>>
      BY DEF RoomFor, Busy, serverVars
    <3>2. Room(c)' \in Int /\ Room(c)' >= Room(c)
      BY <2>1, TakenRoom
    <3> QED BY <3>1, <3>2, RoomMore
  <2>m. NoLine(c) => NoLine(c)'
    <3> SUFFICES ASSUME NoLine(c) PROVE NoLine(c)'
      OBVIOUS
    <3>1. outbox[c] \in Seq(Heads) /\ r \in Seq(Heads) /\ outbox[c] # <<>>
      BY <2>1 DEF NoLine, Take, r
    <3>2. h \in Heads /\ Tail(outbox[c]) \in Seq(Heads)
      BY <3>1, HeadTailProperties DEF h
    <3>3. a \in Seq(Heads)
      BY <3>1, <3>2, AppendProperties DEF a
    <3>4. outbox'[c] = Tail(outbox[c])
      BY <2>1 DEF Take, Inv, TypeOK, WireTypeOK
    <3> QED BY <2>1, <3>2, <3>3, <3>4 DEF NoLine, Busy, serverVars
  <2>9. CallOK(c)'
    BY <2>1, <2>7, <2>8, <2>n, <2>m, CallKept DEF serverVars
  <2> QED BY <2>1, <2>9 DEF ResultOK
<1>4. CASE ReadLine(c)
  BY <1>4, CallReadLine
<1>5. CASE ReadExactly(c)
  BY <1>5, CallReadExactly
<1>6. CASE Timeout(c)
  <2>1. late'[c] = TRUE
    BY <1>6 DEF Timeout, LinkTypeOK
  <2> QED BY <2>1 DEF CallOK, ResultOK
<1>7. CASE Quit(c)
  <2>1. link'[c] = "closed" /\ UNCHANGED <<got, kind, late, sent, cur>>
    BY <1>7 DEF Quit, Hangup, LinkTypeOK
  <2> QED BY <2>1 DEF CallOK, ResultOK, AllOf
<1> QED BY <1>1, <1>2, <1>3, <1>4, <1>5, <1>6, <1>7 DEF LinkStep, Receive

\* The link is open as long as the connection is.
LEMMA LinkStays ==
  ASSUME Inv, WriterOK, LinkTypeOK, NEW c \in Conns, LinkOK(c),
         \/ ServerStep /\ UNCHANGED linkVars
         \/ LinkStep(c)
  PROVE  LinkOK(c)'
<1>t. /\ peer \in [Conns -> {"absent", "up", "gone"}]
      /\ inbox \in [Conns -> Seq(Segment)] /\ outbox \in [Conns -> Seq(Token)]
  BY DEF Inv, TypeOK, WireTypeOK
<1>1. ASSUME ServerStep, UNCHANGED linkVars PROVE LinkOK(c)'
  <2>1. peer' = peer
    BY <1>1 DEF ServerStep, Select, Accept, Read, ReadClose, AnswerLarge, AnswerDm,
                AnswerText, Answering, GetData, DmLine, DmShort, DmRemote, DmStep,
                ChannelWrite, WriteVoid, WriteFails, Writing, Finish, wireVars
  <2>2. peer[c] = "absent" /\ inbox[c] = <<>> => inbox'[c] = <<>>
    <3>1. ASSUME NEW d \in Conns, Read(d) \/ ReadClose(d)
          PROVE  peer[c] = "absent" /\ inbox[c] = <<>> => inbox'[c] = <<>>
      BY <1>t, <3>1 DEF Read, ReadClose
    <3>2. \/ UNCHANGED inbox
          \/ \E d \in Conns : Read(d) \/ ReadClose(d)
      BY <1>1 DEF ServerStep, Select, Accept, AnswerLarge, AnswerDm,
                  AnswerText, Answering, GetData, DmLine, DmShort, DmRemote, DmStep,
                  ChannelWrite, WriteVoid, WriteFails, Writing, Finish, wireVars
    <3> QED BY <3>1, <3>2
  <2>3. peer[c] = "absent" => outbox'[c] = outbox[c]
    <3>1. CASE ChannelWrite
      <4>1. pc # "loop" /\ \A d \in Conns \ {writer} : outbox'[d] = outbox[d]
        BY <1>t, <3>1 DEF ChannelWrite, Writing
      <4> QED BY <4>1 DEF WriterOK
    <3>2. CASE UNCHANGED outbox
      BY <3>2
    <3> QED BY <1>1, <3>1, <3>2
            DEF ServerStep, Select, Accept, Read, ReadClose, AnswerLarge, AnswerDm,
                AnswerText, Answering, GetData, DmLine, DmShort, DmRemote, DmStep,
                WriteVoid, WriteFails, Finish, wireVars
  <2> QED BY <1>1, <2>1, <2>2, <2>3 DEF LinkOK, linkVars
<1>2. ASSUME LinkStep(c) PROVE LinkOK(c)'
  <2>1. CASE Open(c) /\ Connect(c)
    BY <1>t, <2>1 DEF Open, Connect, LinkTypeOK, LinkOK
  <2>2. ASSUME NEW l \in Lines, Call(c, l), Send(c, l) PROVE LinkOK(c)'
    BY <1>t, <2>2 DEF Call, Send, LinkTypeOK, LinkOK
  <2>3. CASE Feed(c) /\ Take(c)
    BY <2>3 DEF Feed, Take, LinkTypeOK, LinkOK
  <2>4. CASE Quit(c) /\ Hangup(c)
    BY <1>t, <2>4 DEF Quit, Hangup, LinkTypeOK, LinkOK
  <2>5. CASE (ReadLine(c) \/ ReadExactly(c) \/ Timeout(c)) /\ UNCHANGED wireVars
    <3>1. link[c] # "closed" /\ link'[c] # "closed" /\ peer' = peer
      <4>1. CASE ReadLine(c)
        <5>1. PICK line : Interpret(c, line)
          BY <4>1 DEF ReadLine
        <5>2. link[c] = "line" /\ link'[c] \in {"idle", "payload"}
          BY <4>1, <5>1 DEF ReadLine, Interpret, LinkTypeOK
        <5> QED BY <2>5, <5>2 DEF wireVars
      <4>2. CASE ReadExactly(c) \/ Timeout(c)
        BY <2>5, <4>2 DEF ReadExactly, Timeout, InCall, LinkTypeOK, wireVars
      <4> QED BY <2>5, <4>1, <4>2
    <3> QED BY <3>1 DEF LinkOK
  <2> QED BY <1>2, <2>1, <2>2, <2>3, <2>4, <2>5, LinkOnWire
<1> QED BY <1>1, <1>2

LEMMA WriterKept ==
  ASSUME Inv, Inv', PeersOK, WriterOK, [Next]_vars
  PROVE  WriterOK'
<1>t. peer \in [Conns -> {"absent", "up", "gone"}]
  BY DEF Inv, TypeOK, WireTypeOK
<1>k. pc \in {"dm", "write"} => writer \in Conns
  BY DEF Inv, KeysOK
<1>1. CASE Select \/ \E c \in Conns : Accept(c) \/ Read(c) \/ ReadClose(c)
  <2>1. pc' = "loop"
    BY <1>1 DEF Select, Accept, Read, ReadClose, Reading
  <2> QED BY <2>1 DEF WriterOK
<1>2. ASSUME NEW c \in Conns, AnswerLarge(c) \/ AnswerDm(c) \/ AnswerText(c)
      PROVE  WriterOK'
  <2>1. interest[c] = "write" /\ writer' = c /\ peer' = peer /\ mode' # "none"
    BY <1>2 DEF AnswerLarge, AnswerDm, AnswerText, Answering, wireVars
  <2>2. peer[c] # "absent"
    BY <2>1 DEF PeersOK, Inv, KeysOK
  <2> QED BY <2>1, <2>2 DEF WriterOK
<1>3. CASE GetData \/ DmLine \/ DmShort \/ DmRemote
  BY <1>3 DEF GetData, DmLine, DmShort, DmRemote, DmStep, wireVars, WriterOK
<1>4. CASE ChannelWrite \/ WriteVoid \/ WriteFails
  BY <1>4 DEF ChannelWrite, WriteVoid, WriteFails, Writing, WriterOK
<1>5. CASE Finish
  BY <1>5 DEF Finish, WriterOK
<1>6. CASE PeerStep
  <2>1. UNCHANGED serverVars
    BY <1>6 DEF PeerStep
  <2>2. \A c \in Conns : peer[c] # "absent" => peer'[c] # "absent"
    BY <1>6, <1>t DEF PeerStep, Connect, Send, Take, Hangup
  <2> QED BY <2>1, <2>2 DEF WriterOK, serverVars
<1>7. CASE UNCHANGED vars
  BY <1>7 DEF vars, wireVars, serverVars, WriterOK
<1> QED BY <1>1, <1>2, <1>3, <1>4, <1>5, <1>6, <1>7 DEF Next, ServerStep

LEMMA LinkLinesAsked ==
  ASSUME Inv, LinkTypeOK, LinesAsked, NEW c \in Conns, LinkStep(c)
  PROVE  LinesAsked'
<1> SUFFICES ASSUME NEW d \in Conns, InCall(d)' \/ kind'[d] # "none"
             PROVE  LinkLine(cur'[d])
  BY DEF LinesAsked
<1>0. InCall(d) \/ kind[d] # "none" => LinkLine(cur[d])
  BY DEF LinesAsked
<1>1. CASE d # c
  <2>1. link'[d] = link[d] /\ cur'[d] = cur[d] /\ kind'[d] = kind[d]
    BY <1>1, LinkElsewhere
  <2> QED BY <1>0, <2>1 DEF InCall
<1>2. CASE d = c /\ (Open(c) \/ Quit(c))
  <2>1. kind' = kind /\ cur' = cur /\ link'[c] \in {"idle", "closed"}
    BY <1>2 DEF Open, Quit, LinkTypeOK
  <2> QED BY <1>0, <1>2, <2>1 DEF InCall
<1>3. ASSUME NEW l \in Lines, d = c, Call(c, l) PROVE LinkLine(cur'[d])
  BY <1>3 DEF Call, LinkTypeOK
<1>4. CASE d = c /\ (Feed(c) \/ ReadLine(c) \/ ReadExactly(c) \/ Timeout(c))
  <2>1. cur' = cur /\ InCall(c)
    BY <1>4 DEF Feed, ReadLine, ReadExactly, Timeout, InCall
  <2> QED BY <1>0, <1>4, <2>1
<1> QED BY <1>1, <1>2, <1>3, <1>4 DEF LinkStep, Receive

LEMMA CallsNext ==
  ASSUME ~Tearing, Inv, Inv', PeersOK, LinkTypeOK, CallsInv,
         [SessionNext]_sessionVars
  PROVE  CallsInv'
<1>w. WriterOK /\ LinesAsked
  BY DEF CallsInv
<1>x. WriterOK' /\ LinesAsked'
  <2>1. WriterOK'
    BY <1>w, SessionStep, WriterKept
  <2>2. ASSUME UNCHANGED linkVars PROVE LinesAsked'
    BY <1>w, <2>2 DEF LinesAsked, InCall, linkVars
  <2>3. ASSUME NEW c \in Conns, LinkStep(c) PROVE LinesAsked'
    BY <1>w, <2>3, LinkLinesAsked
  <2> QED BY <2>1, <2>2, <2>3 DEF SessionNext, ServerMoves, LinkMoves, sessionVars
<1> SUFFICES ASSUME NEW c \in Conns PROVE LinkOK(c)' /\ CallOK(c)' /\ ResultOK(c)'
  BY <1>x DEF CallsInv
<1>0. LinkOK(c) /\ CallOK(c) /\ ResultOK(c)
  BY DEF CallsInv
<1>1. CASE ServerMoves
  <2>1. ServerStep /\ UNCHANGED linkVars
    BY <1>1 DEF ServerMoves
  <2>2. sent' = sent
    BY <2>1 DEF ServerStep, Select, Accept, Read, ReadClose, AnswerLarge, AnswerDm,
                AnswerText, Answering, GetData, DmLine, DmShort, DmRemote, DmStep,
                ChannelWrite, WriteVoid, WriteFails, Writing, Finish, wireVars
  <2>3. ResultOK(c)'
    BY <1>0, <2>1, <2>2 DEF ResultOK, AllOf, linkVars
  <2> QED BY <1>0, <1>w, <2>1, <2>3, LinkStays, CallServer
<1>2. ASSUME NEW d \in Conns, LinkStep(d), UNCHANGED serverVars
      PROVE  LinkOK(c)' /\ CallOK(c)' /\ ResultOK(c)'
  <2>1. CASE c = d
    BY <1>0, <1>w, <1>2, <2>1, LinkStays, CallLink
  <2>2. CASE c # d
    <3>1. /\ UNCHANGED <<link[c], cur[c], rbuf[c], need[c], got[c], kind[c], late[c]>>
          /\ UNCHANGED <<peer[c], inbox[c], outbox[c], sent[c]>>
      BY <1>2, <2>2, LinkElsewhere
    <3>2. Stream(c)' = Stream(c)
      BY <1>2, <3>1 DEF Stream, Busy, serverVars
    <3>3. Unread(c)' = Unread(c)
      BY <3>1, <3>2 DEF Unread
    <3>4. (NoMore(c)' <=> NoMore(c)) /\ attach' = attach
      BY <1>2 DEF NoMore, Busy, serverVars
    <3>n. (RoomFor(c) => RoomFor(c)') /\ (NoLine(c) => NoLine(c)')
      BY <1>2, <3>1 DEF RoomFor, NoLine, Busy, AnswerRoom, Room, serverVars
    <3>5. CallOK(c)'
      BY <1>0, <3>1, <3>3, <3>4, <3>n, CallKept
    <3> QED BY <1>0, <3>1, <3>5 DEF LinkOK, ResultOK, AllOf
  <2> QED BY <2>1, <2>2
<1>3. CASE UNCHANGED sessionVars
  <2>1. UNCHANGED <<wireVars, serverVars, linkVars>>
    BY <1>3 DEF sessionVars, vars
  <2>2. Stream(c)' = Stream(c)
    BY <2>1 DEF Stream, Busy, serverVars, wireVars
  <2>3. Unread(c)' = Unread(c)
    BY <2>1, <2>2 DEF Unread, linkVars
  <2>4. (NoMore(c)' <=> NoMore(c)) /\ attach' = attach
    BY <2>1 DEF NoMore, Busy, serverVars
  <2>n. (RoomFor(c) => RoomFor(c)') /\ (NoLine(c) => NoLine(c)')
    BY <2>1 DEF RoomFor, NoLine, Busy, AnswerRoom, Room, serverVars, wireVars, linkVars
  <2>5. CallOK(c)'
    BY <1>0, <2>1, <2>3, <2>4, <2>n, CallKept DEF wireVars, linkVars
  <2> QED BY <1>0, <2>1, <2>5 DEF LinkOK, ResultOK, AllOf, wireVars, linkVars
<1> QED BY <1>1, <1>2, <1>3 DEF SessionNext, LinkMoves

LEMMA CallsInit == SessionInit => LinkTypeOK /\ CallsInv /\ PeersOK
<1> SUFFICES ASSUME SessionInit PROVE LinkTypeOK /\ CallsInv /\ PeersOK
  OBVIOUS
<1>1. LinkTypeOK
  BY EmptySeq DEF SessionInit, LinkInit, LinkTypeOK
<1>2. \A c \in Conns : /\ link[c] = "closed" /\ rbuf[c] = <<>> /\ kind[c] = "none"
                       /\ peer[c] = "absent" /\ inbox[c] = <<>> /\ outbox[c] = <<>>
  BY DEF SessionInit, LinkInit, Init, WireInit
<1>3. CallsInv
  <2>1. pc = "loop"
    BY DEF SessionInit, Init, ServerInit
  <2> QED BY <1>2, <2>1 DEF CallsInv, WriterOK, LinesAsked, InCall, LinkOK, CallOK, ResultOK
<1>4. PeersOK
  BY DEF SessionInit, Init, ServerInit, PeersOK
<1> QED BY <1>1, <1>3, <1>4

LEMMA CallsInvariance ==
  ASSUME ~Tearing PROVE SessionSpec => []CallsInv
<1>1. SessionInit => LinkTypeOK /\ CallsInv /\ PeersOK
  BY CallsInit
<1>2. Inv /\ LinkTypeOK /\ [SessionNext]_sessionVars => LinkTypeOK'
  BY LinkTypeNext
<1>3. Inv /\ PeersOK /\ [SessionNext]_sessionVars => PeersOK'
  BY PeersNext, SessionStep
<1>4. Inv /\ Inv' /\ PeersOK /\ LinkTypeOK /\ CallsInv /\ [SessionNext]_sessionVars
        => CallsInv'
  BY CallsNext
<1> QED BY <1>1, <1>2, <1>3, <1>4, SessionIsServed, Invariance, PTL DEF SessionSpec

\* A call of the python client that was never late returns the answer to its
\* own request and nothing else, a line or a frame of the announced length,
\* however long the server takes, whatever other clients do to the server's
\* flags, and wherever the bytes are cut between writes and reads.  A line
\* arrives in one piece.
THEOREM OwnAnswerAlways ==
  ASSUME ~Tearing PROVE SessionSpec => []OwnAnswer
<1>1. CallsInv => OwnAnswer
  <2> SUFFICES ASSUME CallsInv, NEW c \in Conns, kind[c] # "none", ~late[c]
               PROVE  /\ \A i \in 1..Len(got[c]) : Answers(got[c][i], sent[c])
                      /\ kind[c] = "text" => Len(got[c]) = 1
                      /\ kind[c] = "bytes" => Len(got[c]) = 3 + got[c][2].n
                      /\ kind[c] # "junk"
    BY DEF OwnAnswer
  <2>1. ResultOK(c)
    BY DEF CallsInv
  <2>2. ASSUME NEW i \in 1..Len(got[c]) PROVE Answers(got[c][i], sent[c])
    <3>1. got[c][i].of.reqs = <<sent[c]>>
      BY <2>1 DEF ResultOK, AllOf
    <3>2. Len(<<sent[c]>>) = 1 /\ <<sent[c]>>[1] = sent[c] /\ 1 \in 1..1
      OBVIOUS
    <3> QED BY <3>1, <3>2 DEF Answers
  <2> QED BY <2>1, <2>2 DEF ResultOK
<1> QED BY <1>1, CallsInvariance, PTL

\* Between calls nothing is left behind: no byte in the reader's buffer or in
\* the socket, and no request, so that the next call starts with a clean
\* connection.
THEOREM NothingLeftAlways ==
  ASSUME ~Tearing PROVE SessionSpec => []NothingLeft
<1>1. Inv /\ LinkTypeOK /\ CallsInv => NothingLeft
  <2> SUFFICES ASSUME Inv, LinkTypeOK, CallsInv,
                      NEW c \in Conns, link[c] = "idle", ~late[c]
               PROVE  rbuf[c] = <<>> /\ outbox[c] = <<>> /\ inbox[c] = <<>>
    BY DEF NothingLeft
  <2>1. Unread(c) = <<>> /\ inbox[c] = <<>>
    BY DEF CallsInv, CallOK, Expected, OnTheWay, ToAnswer, AnswerComes, NoLine
  <2> QED BY <2>1, UnreadEmpty
<1>2. SessionTypeOK => LinkTypeOK
  BY DEF SessionTypeOK
<1> QED BY <1>1, <1>2, CallsInvariance, SessionIsServed, Invariance, SessionTypes, PTL

-----------------------------------------------------------------------------
(* Client programs one after the other.  They get what SCPILink promises:  *)
(* the session implements ScpiExchange, but for the promise that calls end. *)

OneLink == \A c, d \in Conns : link[c] # "closed" /\ link[d] # "closed" => c = d
NeverLate == \A c \in Conns : ~late[c]

\* A client that leaves has its answer; the thread may have to finish it.
LeftClean == \A c \in Conns : link[c] = "closed" =>
               inbox[c] = <<>> /\ (interest[c] = "write" => Busy(c))

\* What calls have read is of the kind they asked for.
KindsRead == rbuf \in [Conns -> Seq(KindToken)] /\ got \in [Conns -> Seq(KindToken)]

SoloInv == /\ OneLink /\ NeverLate /\ LeftClean /\ KindsRead
           /\ OneWaiter /\ FlagsExact /\ KindOK

\* Who waits between two answers is in a call, and nobody waits while a
\* request is read.
LEMMA WaiterCalls ==
  ASSUME Inv, CallsInv, SoloInv, pc = "loop", NEW c \in Conns, interest[c] = "write"
  PROVE  link[c] # "closed" /\ ToAnswer(c)
<1>1. ~Busy(c) /\ ~NoMore(c)
  BY DEF Busy, NoMore
<1>2. link[c] # "closed" /\ ~late[c]
  BY <1>1 DEF SoloInv, LeftClean, NeverLate
<1> QED BY <1>1, <1>2 DEF CallsInv, CallOK, Expected, OnTheWay, AnswerComes, NoLine

LEMMA NobodyWaits ==
  ASSUME Inv, CallsInv, SoloInv, NEW c \in Conns, NEW d \in Conns, Read(c)
  PROVE  interest[d] # "write"
<1> SUFFICES ASSUME interest[d] = "write" PROVE FALSE
  OBVIOUS
<1>1. pc = "loop" /\ inbox[c] # <<>>
  BY DEF Read, Reading
<1>2. link[d] # "closed" /\ inbox[d] = <<>>
  BY <1>1, WaiterCalls DEF ToAnswer
<1>3. link[c] # "closed"
  BY <1>1 DEF SoloInv, LeftClean
<1> QED BY <1>1, <1>2, <1>3 DEF SoloInv, OneLink

\* *ADC? is a line of its own.
LEMMA AdcAlone ==
  ASSUME NEW l \in Seq(Units), LinkLine(l), l[1] \in BinaryUnits
  PROVE  Len(l) = 1 /\ l = <<l[1]>>
<1>1. l # <<>>
  BY DEF LinkLine, TextLine, BinaryLine
<1>2. 1 \in 1..Len(l)
  BY <1>1, EmptySeq, LenProperties
<1>3. ~TextLine(l)
  BY <1>2 DEF TextLine, BinaryUnits, TextUnits
<1>4. Len(l) = 1
  BY <1>3 DEF LinkLine, BinaryLine
<1> QED BY <1>4

-----------------------------------------------------------------------------
\* Nobody waits anew but by Read.
LEMMA WaitsAnew ==
  ASSUME Inv, [Next]_vars, NEW d \in Conns, interest'[d] = "write"
  PROVE  interest[d] = "write" \/ Read(d)
<1>t. interest \in [Conns -> {"none", "read", "write"}]
  BY DEF Inv, TypeOK
<1>1. ASSUME NEW c \in Conns, Accept(c) \/ ReadClose(c) PROVE interest[d] = "write"
  BY <1>1, <1>t DEF Accept, ReadClose
<1>2. ASSUME NEW c \in Conns, Read(c) PROVE interest[d] = "write" \/ Read(d)
  BY <1>2, <1>t DEF Read
<1>3. ASSUME NEW c \in Conns, AnswerLarge(c) \/ AnswerDm(c) \/ AnswerText(c)
      PROVE  interest[d] = "write"
  BY <1>3 DEF AnswerLarge, AnswerDm, AnswerText, Answering
<1>4. CASE \/ Select \/ GetData \/ DmLine \/ DmShort \/ DmRemote
           \/ ChannelWrite \/ WriteVoid \/ WriteFails
  BY <1>4 DEF Select, GetData, DmLine, DmShort, DmRemote, DmStep,
              ChannelWrite, WriteVoid, WriteFails, Writing
<1>5. CASE Finish
  BY <1>5, <1>t DEF Finish
<1>6. CASE PeerStep \/ UNCHANGED vars
  BY <1>6 DEF PeerStep, serverVars, vars
<1> QED BY <1>1, <1>2, <1>3, <1>4, <1>5, <1>6 DEF Next, ServerStep

LEMMA WaiterNext ==
  ASSUME Inv, CallsInv, SoloInv, [Next]_vars PROVE OneWaiter'
<1> SUFFICES ASSUME NEW c \in Conns, NEW d \in Conns,
                    interest'[c] = "write", interest'[d] = "write"
             PROVE  c = d
  BY DEF OneWaiter
<1>1. CASE interest[c] = "write" /\ interest[d] = "write"
  BY <1>1 DEF SoloInv, OneWaiter
<1>2. CASE Read(c) \/ Read(d)
  <2>1. interest[c] # "write" /\ interest[d] # "write"
    BY <1>2, NobodyWaits
  <2>2. Read(c) /\ Read(d)
    BY <2>1, WaitsAnew
  <2>3. /\ c \in selected /\ selected' = selected \ {c}
        /\ selected' = selected \ {d}
    BY <2>2 DEF Read, Reading
  <2> QED BY <2>3
<1> QED BY <1>1, <1>2, WaitsAnew

\* The thread leaves those who left as they are, or finishes their answer.
LEMMA LeftCleanServer ==
  ASSUME Inv, SoloInv, ServerStep, NEW c \in Conns,
         inbox[c] = <<>>, interest[c] = "write" => Busy(c)
  PROVE  inbox'[c] = <<>> /\ (interest'[c] = "write" => Busy(c)')
<1>t. /\ interest \in [Conns -> {"none", "read", "write"}]
      /\ inbox \in [Conns -> Seq(Segment)]
  BY DEF Inv, TypeOK, WireTypeOK
<1>1. inbox'[c] = <<>>
  <2>1. ASSUME NEW d \in Conns, Read(d) \/ ReadClose(d) PROVE inbox'[c] = <<>>
    BY <1>t, <2>1 DEF Read, ReadClose
  <2>2. \/ UNCHANGED inbox
        \/ \E d \in Conns : Read(d) \/ ReadClose(d)
    BY DEF ServerStep, Select, Accept, AnswerLarge, AnswerDm,
           AnswerText, Answering, GetData, DmLine, DmShort, DmRemote, DmStep,
           ChannelWrite, WriteVoid, WriteFails, Writing, Finish, wireVars
  <2> QED BY <2>1, <2>2
<1>2. ASSUME interest'[c] = "write" PROVE Busy(c)'
  <2>1. interest[c] = "write"
    <3>1. ~Read(c)
      BY DEF Read
    <3> QED BY <1>2, <3>1, WaitsAnew DEF Next
  <2>2. pc \in {"dm", "write", "dead"} /\ mode # "none" /\ writer = c
    BY <2>1 DEF Busy
  <2>3. CASE GetData \/ DmLine \/ DmRemote \/ DmShort
    BY <2>2, <2>3 DEF GetData, DmLine, DmRemote, DmShort, DmStep, Busy
  <2>4. CASE ChannelWrite \/ WriteVoid \/ WriteFails
    BY <2>2, <2>4 DEF ChannelWrite, WriteVoid, WriteFails, Writing, Busy
  <2>5. ~Finish
    BY <1>2, <1>t, <2>2 DEF Finish
  <2>6. ~Select /\ \A d \in Conns : /\ ~Accept(d) /\ ~Read(d) /\ ~ReadClose(d)
                                    /\ ~AnswerLarge(d) /\ ~AnswerDm(d) /\ ~AnswerText(d)
    BY <2>2 DEF Select, Accept, Read, ReadClose, Reading, AnswerLarge, AnswerDm,
                AnswerText, Answering
  <2> QED BY <2>3, <2>4, <2>5, <2>6 DEF ServerStep
<1> QED BY <1>1, <1>2

\* A client that calls, or has called, is there.
LEMMA LinkOpens ==
  ASSUME LinkTypeOK, NEW c \in Conns, LinkStep(c)
  PROVE  \/ link[c] = "closed" /\ Open(c) /\ link'[c] = "idle"
         \/ link[c] # "closed" /\ link'[c] # "closed"
         \/ link[c] # "closed" /\ Quit(c) /\ link'[c] = "closed"
<1>1. CASE Open(c) \/ Quit(c) \/ \E l \in Lines : Call(c, l)
  BY <1>1 DEF Open, Quit, Call, LinkTypeOK
<1>2. CASE Feed(c) \/ ReadExactly(c) \/ Timeout(c)
  BY <1>2 DEF Feed, ReadExactly, Timeout, InCall, LinkTypeOK
<1>3. CASE ReadLine(c)
  <2>1. PICK line : Interpret(c, line)
    BY <1>3 DEF ReadLine
  <2> QED BY <1>3, <2>1 DEF ReadLine, Interpret, LinkTypeOK
<1> QED BY <1>1, <1>2, <1>3 DEF LinkStep, Receive

LEMMA LinkOneLink ==
  ASSUME Solo, ~MayTimeOut, Inv, LinkTypeOK, SoloInv, NEW c \in Conns, LinkStep(c)
  PROVE  OneLink' /\ NeverLate'
<1>1. OneLink'
  <2> SUFFICES ASSUME NEW d \in Conns, NEW e \in Conns,
                      link'[d] # "closed", link'[e] # "closed"
               PROVE  d = e
    BY DEF OneLink
  <2>1. \A b \in Conns : b # c => link'[b] = link[b]
    BY LinkElsewhere
  <2>2. CASE Open(c)
    BY <2>1, <2>2 DEF Open
  <2>3. CASE ~Open(c)
    <3>1. \A b \in Conns : link'[b] # "closed" => link[b] # "closed"
      BY <2>1, <2>3, LinkOpens
    <3> QED BY <3>1 DEF SoloInv, OneLink
  <2> QED BY <2>2, <2>3
<1>2. NeverLate'
  <2>1. late' = late
    BY DEF LinkStep, Receive, Open, Call, Feed, ReadLine, ReadExactly, Timeout, Quit
  <2> QED BY <2>1 DEF SoloInv, NeverLate
<1> QED BY <1>1, <1>2

LEMMA LinkLeftClean ==
  ASSUME Inv, LinkTypeOK, CallsInv, SoloInv, NEW c \in Conns, LinkStep(c),
         UNCHANGED serverVars
  PROVE  LeftClean'
<1> SUFFICES ASSUME NEW d \in Conns, link'[d] = "closed"
             PROVE  inbox'[d] = <<>> /\ (interest'[d] = "write" => Busy(d)')
  BY DEF LeftClean
<1>1. interest' = interest /\ (Busy(d)' <=> Busy(d))
  BY DEF serverVars, Busy
<1>2. CASE d # c
  <2>1. link'[d] = link[d] /\ inbox'[d] = inbox[d]
    BY <1>2, LinkElsewhere
  <2> QED BY <1>1, <2>1 DEF SoloInv, LeftClean
<1>3. CASE d = c
  <2>1. Quit(c)
    BY <1>3, LinkOpens
  <2>2. link[c] = "idle" /\ inbox' = inbox /\ ~late[c]
    BY <2>1 DEF Quit, Hangup, SoloInv, NeverLate
  <2>3. OnTheWay(c)
    BY <2>2 DEF CallsInv, CallOK, Expected, ToAnswer, AnswerComes, NoLine
  <2>4. inbox[c] = <<>> /\ NoMore(c)
    BY <2>2, <2>3 DEF OnTheWay
  <2> QED BY <1>1, <1>3, <2>2, <2>4 DEF NoMore
<1> QED BY <1>2, <1>3

LEMMA LinkKindsRead ==
  ASSUME LinkTypeOK, SoloInv, NEW c \in Conns, LinkStep(c)
  PROVE  KindsRead'
<1>0. /\ rbuf \in [Conns -> Seq(KindToken)] /\ got \in [Conns -> Seq(KindToken)]
      /\ outbox \in [Conns -> Seq(KindToken)] /\ need \in [Conns -> Nat]
      /\ <<>> \in Seq(KindToken)
  BY EmptySeq DEF SoloInv, KindsRead, KindOK, LinkTypeOK
<1>1. CASE Open(c) \/ Quit(c) \/ Timeout(c) \/ \E l \in Lines : Call(c, l)
  BY <1>0, <1>1 DEF Open, Quit, Timeout, Call, KindsRead
<1>2. CASE Feed(c)
  <2>1. Head(outbox[c]) \in KindToken
    BY <1>0, <1>2, HeadTailProperties DEF Feed, Take
  <2>2. Append(rbuf[c], Head(outbox[c])) \in Seq(KindToken)
    BY <1>0, <2>1, AppendProperties
  <2> QED BY <1>0, <1>2, <2>2 DEF Feed, KindsRead
<1>p. \A i, j \in Int : SubSeq(rbuf[c], i, j) \in Seq(KindToken)
         \/ ~(i >= 1 /\ j <= Len(rbuf[c]))
  <2> SUFFICES ASSUME NEW i \in Int, NEW j \in Int, i >= 1, j <= Len(rbuf[c])
               PROVE  SubSeq(rbuf[c], i, j) \in Seq(KindToken)
    OBVIOUS
  <2>1. rbuf[c] \in Seq(KindToken) /\ Len(rbuf[c]) \in Nat
    BY <1>0, LenProperties
  <2>2. \A k \in 1..Len(rbuf[c]) : rbuf[c][k] \in KindToken
    BY <2>1, ElementOfSeq
  <2> DEFINE n == Len(rbuf[c])
  <2> HIDE DEF n
  <2>3. \A k \in i..j : k \in 1..n
    BY <2>1 DEF n
  <2> QED BY <2>2, <2>3, SubSeqProperties DEF n
<1>3. CASE ReadLine(c)
  <2>1. PICK k \in 1..Len(rbuf[c]) :
          /\ got' = [got EXCEPT ![c] = SubSeq(rbuf[c], 1, k)]
          /\ rbuf' = [rbuf EXCEPT ![c] = SubSeq(@, k + 1, Len(@))]
    BY <1>3 DEF ReadLine
  <2>2. k \in Int /\ k + 1 \in Int /\ Len(rbuf[c]) \in Int /\ k <= Len(rbuf[c]) /\ k + 1 >= 1
    BY <1>0, LenProperties
  <2>3. /\ SubSeq(rbuf[c], 1, k) \in Seq(KindToken)
        /\ SubSeq(rbuf[c], k + 1, Len(rbuf[c])) \in Seq(KindToken)
    BY <1>p, <2>2
  <2> QED BY <1>0, <2>1, <2>3 DEF KindsRead
<1>4. CASE ReadExactly(c)
  <2>1. /\ Len(rbuf[c]) >= need[c]
        /\ got' = [got EXCEPT ![c] = @ \o SubSeq(rbuf[c], 1, need[c])]
        /\ rbuf' = [rbuf EXCEPT ![c] = SubSeq(@, need[c] + 1, Len(@))]
    BY <1>4 DEF ReadExactly
  <2>2. need[c] \in Int /\ need[c] + 1 \in Int /\ Len(rbuf[c]) \in Int
        /\ need[c] <= Len(rbuf[c]) /\ need[c] + 1 >= 1
    BY <1>0, <2>1, LenProperties
  <2>3. /\ SubSeq(rbuf[c], 1, need[c]) \in Seq(KindToken)
        /\ SubSeq(rbuf[c], need[c] + 1, Len(rbuf[c])) \in Seq(KindToken)
    BY <1>p, <2>2
  <2>4. got[c] \o SubSeq(rbuf[c], 1, need[c]) \in Seq(KindToken)
    BY <1>0, <2>3, ConcatProperties
  <2> QED BY <1>0, <2>1, <2>3, <2>4 DEF KindsRead
<1> QED BY <1>1, <1>2, <1>3, <1>4 DEF LinkStep, Receive

LEMMA SoloNext ==
  ASSUME Solo, ~MayTimeOut, LinesBinaryFirst, Inv, FlagsInv, LinkTypeOK, CallsInv, SoloInv,
         [SessionNext]_sessionVars
  PROVE  SoloInv'
<1>1. OneWaiter' /\ FlagsExact' /\ KindOK'
  <2>1. [Next]_vars
    BY SessionStep
  <2>2. OneWaiter'
    BY <2>1, WaiterNext
  <2>3. \A c, d \in Conns : Read(c) => interest[d] # "write"
    BY NobodyWaits
  <2>4. FlagsExact' /\ KindOK'
    BY <2>1, <2>3, KindNext DEF SoloInv
  <2> QED BY <2>2, <2>4
<1>2. OneLink' /\ NeverLate' /\ LeftClean' /\ KindsRead'
  <2>1. CASE ServerMoves
    <3>1. ServerStep /\ UNCHANGED linkVars
      BY <2>1 DEF ServerMoves
    <3>2. LeftClean'
      BY <3>1, LeftCleanServer DEF SoloInv, LeftClean, linkVars
    <3> QED BY <3>1, <3>2 DEF SoloInv, OneLink, NeverLate, KindsRead, linkVars
  <2>2. ASSUME NEW c \in Conns, LinkMoves(c)
        PROVE  OneLink' /\ NeverLate' /\ LeftClean' /\ KindsRead'
    <3>1. LinkStep(c) /\ UNCHANGED serverVars
      BY <2>2 DEF LinkMoves
    <3> QED BY <3>1, LinkOneLink, LinkLeftClean, LinkKindsRead
  <2>3. CASE UNCHANGED sessionVars
    <3>1. UNCHANGED <<wireVars, serverVars, linkVars>>
      BY <2>3 DEF sessionVars, vars
    <3> QED BY <3>1 DEF SoloInv, OneLink, NeverLate, LeftClean, KindsRead, Busy, wireVars,
                     serverVars, linkVars
  <2> QED BY <2>1, <2>2, <2>3 DEF SessionNext
<1> QED BY <1>1, <1>2 DEF SoloInv

LEMMA SoloInit == SessionInit => SoloInv
<1> SUFFICES ASSUME SessionInit PROVE SoloInv
  OBVIOUS
<1>1. /\ \A c \in Conns : link[c] = "closed" /\ kind[c] = "none" /\ ~late[c]
      /\ \A c \in Conns : inbox[c] = <<>> /\ interest[c] = "none"
  BY DEF SessionInit, LinkInit, Init, WireInit, ServerInit
<1>2. OneLink /\ NeverLate /\ LeftClean /\ OneWaiter /\ FlagsExact
  BY <1>1 DEF OneLink, NeverLate, LeftClean, OneWaiter, FlagsExact
<1>3. KindsRead /\ KindOK
  BY EmptySeq DEF SessionInit, LinkInit, Init, WireInit, ServerInit, KindsRead, KindOK
<1> QED BY <1>2, <1>3 DEF SoloInv

\* The invariants hold together: no flag is left when a client leaves with
\* its answer read, and with no flag left the answer read is one of the right
\* kind.
LEMMA SoloInvariance ==
  ASSUME Solo, ~MayTimeOut, ~Tearing, LinesBinaryFirst
  PROVE  SessionSpec => [](LinkTypeOK /\ CallsInv /\ SoloInv)
<1>1. SessionInit => SoloInv
  BY SoloInit
<1>2. Inv /\ FlagsInv /\ LinkTypeOK /\ CallsInv /\ SoloInv /\ [SessionNext]_sessionVars
        => SoloInv'
  BY SoloNext
<1>3. SessionTypeOK => LinkTypeOK
  BY DEF SessionTypeOK
<1> QED BY <1>1, <1>2, <1>3, CallsInvariance, FlagsInvariance, SessionIsServed, Invariance,
           SessionTypes, PTL DEF SessionSpec

-----------------------------------------------------------------------------
\* What a call returned is the answer to it, in the kind its line asks for.
ReturnsOK ==
  \A c \in Conns : kind[c] # "none" =>
    /\ Returned(c) = [req |-> sent[c], kind |-> kind[c]]
    /\ kind[c] \in Exchange!Kinds(cur[c])

LEMMA ReturnsRight == LinkTypeOK /\ CallsInv /\ SoloInv => ReturnsOK
<1> SUFFICES ASSUME LinkTypeOK, CallsInv, SoloInv, NEW c \in Conns, kind[c] # "none"
             PROVE  /\ Returned(c) = [req |-> sent[c], kind |-> kind[c]]
                    /\ kind[c] \in Exchange!Kinds(cur[c])
  BY DEF ReturnsOK
<1> DEFINE g == got[c]
           n == Len(g)
           l == cur[c]
<1>1. /\ AllOf(g, sent[c], l) /\ kind[c] \in {"text", "bytes"}
      /\ kind[c] = "text" => n = 1 /\ g[1].tok = "text"
      /\ kind[c] = "bytes" => n >= 3 /\ g[1].tok = "hash"
      /\ g \in Seq(KindToken) /\ l \in Seq(Units) /\ LinkLine(l)
  BY DEF CallsInv, ResultOK, SoloInv, NeverLate, LinesAsked, KindsRead, LinkTypeOK
<1>2. n \in Nat /\ \A i \in 1..n : g[i] \in KindToken
  BY <1>1, LenProperties, ElementOfSeq
<1>3. 1 \in 1..n /\ n \in 1..n
  <2> HIDE DEF n
  <2> QED BY <1>1, <1>2
<1>4. g[n].of.reqs = <<sent[c]>> /\ g[1].of.units = l /\ InKind(g[1])
  BY <1>1, <1>2, <1>3 DEF AllOf, KindToken
<1>5. Returned(c) = [req |-> sent[c], kind |-> kind[c]]
  BY <1>4 DEF Returned
<1> HIDE DEF g, n, l
<1>6. CASE kind[c] = "text"
  <2>1. l[1] # "adc"
    BY <1>1, <1>4, <1>6 DEF InKind
  <2>2. l # <<"adc">>
    BY <2>1
  <2> QED BY <1>5, <1>6, <2>2 DEF Exchange!Kinds, l
<1>7. CASE kind[c] = "bytes"
  <2>1. l[1] \in {"adc", "rdm"}
    BY <1>1, <1>4, <1>7 DEF InKind
  <2>2. l = <<l[1]>>
    BY <1>1, <2>1, AdcAlone DEF BinaryUnits
  <2>3. l = <<"adc">> \/ l = <<"rdm">>
    BY <2>1, <2>2
  <2>4. "bytes" \in Exchange!Kinds(l)
    BY <2>3 DEF Exchange!Kinds
  <2> QED BY <1>5, <1>7, <2>4 DEF l
<1> QED BY <1>1, <1>6, <1>7

\* The pieces of a command that came alone are that command.
PiecesOK ==
  pc = "write" /\ mode = "large" /\ cmds # <<>> /\ Len(attach[writer].units) = 1 =>
    cmds = attach[writer].units

LEMMA PiecesNext == Inv /\ PiecesOK /\ [Next]_vars => PiecesOK'
<1> SUFFICES ASSUME Inv, PiecesOK, [Next]_vars PROVE PiecesOK'
  OBVIOUS
<1>1. ASSUME NEW c \in Conns, AnswerLarge(c) PROVE PiecesOK'
  <2>1. writer' = c /\ attach' = attach
    BY <1>1 DEF AnswerLarge, Answering
  <2> QED BY <1>1, <2>1, OnePiece DEF PiecesOK
<1>2. CASE GetData
  <2>1. cmds \in Seq(Units) /\ cmds # <<>> /\ cmds' = Tail(cmds)
        /\ UNCHANGED <<pc, mode, writer, attach>>
    BY <1>2 DEF GetData, Inv, TypeOK
  <2>2. pc = "write" /\ mode = "large" /\ Len(attach[writer].units) = 1 => cmds' = <<>>
    <3> SUFFICES ASSUME pc = "write", mode = "large", Len(attach[writer].units) = 1
                 PROVE  cmds' = <<>>
      OBVIOUS
    <3>1. Len(cmds) = 1
      BY <2>1 DEF PiecesOK
    <3>2. Tail(cmds) \in Seq(Units) /\ Len(Tail(cmds)) = 0
      BY <2>1, <3>1, HeadTailProperties
    <3> QED BY <2>1, <3>2, EmptySeq
  <2> QED BY <2>1, <2>2 DEF PiecesOK
<1>3. ASSUME NEW c \in Conns, \/ Accept(c) \/ Read(c) \/ ReadClose(c)
                              \/ AnswerDm(c) \/ AnswerText(c)
      PROVE  PiecesOK'
  BY <1>3 DEF Accept, Read, ReadClose, Reading, AnswerDm, AnswerText, PiecesOK
<1>4. CASE Select \/ DmLine \/ DmShort \/ DmRemote \/ Finish
  BY <1>4 DEF Select, DmLine, DmShort, DmRemote, DmStep, Finish, PiecesOK
<1>5. CASE ChannelWrite \/ WriteVoid \/ WriteFails
  BY <1>5 DEF ChannelWrite, WriteVoid, WriteFails, Writing, PiecesOK
<1>6. CASE PeerStep \/ UNCHANGED vars
  BY <1>6 DEF PeerStep, serverVars, vars, PiecesOK
<1> QED BY <1>1, <1>2, <1>3, <1>4, <1>5, <1>6 DEF Next, ServerStep

LEMMA PiecesInvariance == Spec => []PiecesOK
<1>1. Init => PiecesOK
  BY DEF Init, ServerInit, PiecesOK
<1> QED BY <1>1, PiecesNext, Invariance, PTL DEF Spec

\* The server leaves a call waiting for good only when it has no data for the
\* *ADC? it answers.
NoDataSent(c) == /\ GetData /\ c = writer /\ link[c] = "line"
                 /\ ~Lost(c) /\ Lost(c)' /\ cur[c] \in NoAdc

LEMMA LostServer ==
  ASSUME Inv, Inv', FlagsInv, PiecesOK, LinkTypeOK, CallsInv, SoloInv,
         NEW c \in Conns, ServerStep, UNCHANGED linkVars
  PROVE  Lost(c)' = Lost(c) \/ NoDataSent(c)
<1>0. SUFFICES ASSUME link[c] = "line" PROVE Lost(c)' = Lost(c) \/ NoDataSent(c)
  BY DEF Lost, linkVars
<1>1. /\ (Expected(c) /\ RoomFor(c)) \/ NoLine(c)
      /\ peer[c] = "up" /\ ~late[c] /\ LinkLine(cur[c])
  BY <1>0 DEF CallsInv, CallOK, LinkOK, SoloInv, NeverLate, LinesAsked, InCall
<1>w. pc \in {"dm", "write"} => /\ writer \in Conns /\ interest[writer] = "write"
                                /\ mode # "none"
  BY DEF Inv, KeysOK, CallsInv, WriterOK
<1>n. pc \in {"dm", "write"} /\ c = writer => ~NoLine(c)
  <2> SUFFICES ASSUME pc \in {"dm", "write"}, c = writer, NoLine(c) PROVE FALSE
    OBVIOUS
  <2>1. interest[c] = "write" /\ mode = "large" /\ attach[c].units \in Seq(TextUnits)
    BY <1>w DEF NoLine
  <2>2. attach[c].units[1] = "adc"
    BY <2>1 DEF FlagsInv, ModeOK, SoloInv, FlagsExact
  <2>3. attach[c].units # <<>>
    BY <2>1 DEF Inv, SegmentsOK, GoodSegment
  <2>4. attach[c].units[1] \in TextUnits
    <3>1. Len(attach[c].units) \in Nat \ {0}
      BY <2>1, <2>3, EmptySeq, LenProperties
    <3>2. 1 \in 1..Len(attach[c].units)
      BY <3>1
    <3> QED BY <2>1, <3>2, ElementOfSeq
  <2> QED BY <2>2, <2>4 DEF TextUnits
<1>s. Stream(c)' = Stream(c) => Lost(c)' = Lost(c)
  BY DEF Lost, linkVars
<1>2. CASE \/ Select \/ Finish \/ DmShort
           \/ \E d \in Conns : \/ Accept(d) \/ Read(d) \/ ReadClose(d)
                               \/ AnswerLarge(d) \/ AnswerDm(d)
  <2>1. outbox' = outbox
    BY <1>2 DEF Select, Finish, DmShort, DmStep, Accept, Read, ReadClose, AnswerLarge,
                AnswerDm, Answering, wireVars
  <2>2. (~Busy(c) \/ plan = <<>>) /\ (~Busy(c)' \/ plan' = <<>>)
    <3>1. CASE Select \/ Finish \/ \E d \in Conns : \/ Accept(d) \/ Read(d) \/ ReadClose(d)
                                                    \/ AnswerLarge(d) \/ AnswerDm(d)
      BY <3>1 DEF Select, Finish, Accept, Read, ReadClose, Reading, AnswerLarge, AnswerDm,
                  Answering, Busy
    <3>2. CASE DmShort
      <4>1. pc = "dm" /\ UNCHANGED <<plan, writer>>
        BY <3>2 DEF DmShort, DmStep
      <4>2. c = writer => plan = <<>>
        BY <1>1, <1>n, <1>w, <4>1 DEF RoomFor, AnswerRoom, Busy
      <4> QED BY <4>1, <4>2 DEF Busy
    <3> QED BY <1>2, <3>1, <3>2
  <2> QED BY <1>s, <2>1, <2>2, StreamStays
<1>3. CASE ChannelWrite
  <2>1. pc = "write" /\ UNCHANGED <<writer, pc, mode>>
    BY <1>3 DEF ChannelWrite, Writing
  <2>2. CASE c # writer
    <3>1. outbox'[c] = outbox[c]
      BY <1>3, <2>2 DEF ChannelWrite, Inv, TypeOK, WireTypeOK
    <3> QED BY <1>s, <2>1, <2>2, <3>1, StreamStays DEF Busy
  <2>3. CASE c = writer
    <3>1. AnswerRoom(writer)
      BY <1>1, <1>n, <1>w, <2>1, <2>3 DEF RoomFor, Busy
    <3>2. Stream(c)' = Stream(c)
      BY <1>3, <1>w, <2>1, <2>3, <3>1, RoomToWrite
    <3> QED BY <1>s, <3>2
  <2> QED BY <2>2, <2>3
<1>4. CASE WriteVoid \/ WriteFails
  <2>1. peer[writer] = "gone" /\ UNCHANGED <<writer, outbox>>
    BY <1>4 DEF WriteVoid, WriteFails, Writing
  <2> QED BY <1>1, <1>s, <2>1, StreamStays DEF Busy
<1>5. CASE GetData \/ DmLine \/ DmRemote \/ \E d \in Conns : AnswerText(d)
  <2>1. CASE ~Busy(c)'
    <3>1. outbox' = outbox /\ ~Busy(c)
      BY <1>5, <1>w, <2>1 DEF GetData, DmLine, DmRemote, DmStep, AnswerText, Answering,
                              wireVars, Busy
    <3> QED BY <1>s, <2>1, <3>1, StreamStays
  <2>2. CASE Busy(c)'
    <3>1. /\ c = writer' /\ outbox' = outbox
          /\ \/ pc \in {"dm", "write"} /\ writer' = writer /\ (pc = "dm" \/ cmds # <<>>)
             \/ AnswerText(c) /\ pc = "loop" /\ interest[c] = "write"
      BY <1>5, <2>2 DEF GetData, DmLine, DmRemote, DmStep, AnswerText, Answering,
                        wireVars, Busy
    <3>2. ToAnswer(c)
      <4>1. ~NoLine(c)
        BY <1>n, <3>1 DEF NoLine, Busy
      <4>2. ~NoMore(c)
        BY <1>w, <3>1 DEF NoMore, Busy
      <4> QED BY <1>1, <4>1, <4>2 DEF Expected, OnTheWay, AnswerComes
    <3>3. rbuf[c] = <<>> /\ outbox[c] = <<>> /\ Stream(c) = <<>>
      BY <3>2, UnreadEmpty DEF ToAnswer
    <3>4. ~Lost(c)
      <4>1. <<>> \o <<>> = <<>>
        BY EmptySeq, ConcatEmptySeq
      <4> QED BY <3>3, <4>1 DEF Lost
    <3>5. attach[c] \in Segment /\ attach[c].units = cur[c]
      BY <3>2 DEF ToAnswer, Inv, TypeOK
    <3>6. /\ Flat(plan') \in Seq(Token)
          /\ ~HasEnd(Flat(plan')) => GetData /\ (AdcMayFail \/ Head(cmds) # "adc")
      <4>1. CASE AnswerText(c) /\ pc = "loop"
        <5>1. plan' = Line(attach[c])
          BY <4>1 DEF AnswerText
        <5> QED BY <3>5, <5>1, LinePlanned, FlatType DEF Planned
      <4>2. CASE pc \in {"dm", "write"} /\ writer' = writer
        <5>1. AnswerRoom(writer)
          BY <1>1, <1>n, <1>w, <3>1, <4>2 DEF RoomFor, Busy
        <5>2. GetData \/ DmLine \/ DmRemote
          BY <1>5, <4>2 DEF AnswerText, Answering
        <5> QED BY <1>w, <4>2, <5>1, <5>2, RoomToPlan, FlatType DEF Planned
      <4> QED BY <3>1, <4>1, <4>2
    <3> DEFINE f == Flat(plan')
    <3>7. rbuf'[c] \o Stream(c)' = f
      <4>1. Stream(c)' = <<>> \o f
        BY <2>2, <3>1, <3>3 DEF Stream
      <4>2. <<>> \o f = f
        BY <3>6, ConcatEmptySeq
      <4> QED BY <3>3, <4>1, <4>2 DEF linkVars
    <3> HIDE DEF f
    <3>8. CASE HasEnd(f)
      <4>1. ~Lost(c)'
        BY <3>7, <3>8 DEF Lost, HasEnd
      <4>2. Lost(c)' = FALSE /\ Lost(c) = FALSE
        BY <3>4, <4>1 DEF Lost
      <4> QED BY <4>2
    <3>9. CASE ~HasEnd(f)
      <4>1. GetData /\ c = writer /\ (AdcMayFail \/ Head(cmds) # "adc")
        BY <3>1, <3>6, <3>9 DEF f, GetData
      <4>2. /\ interest[c] = "write" /\ mode = "large" /\ cmds # <<>> /\ pc = "write"
            /\ cur[c] \in Seq(Units)
        BY <1>w, <4>1 DEF GetData, LinkTypeOK
      <4>3. cur[c][1] = "adc"
        BY <3>5, <4>2 DEF FlagsInv, ModeOK, SoloInv, FlagsExact
      <4>4. cur[c] = <<"adc">>
        BY <1>1, <4>2, <4>3, AdcAlone DEF BinaryUnits
      <4>5. cmds = <<"adc">>
        <5>1. attach[writer].units = <<"adc">> /\ Len(<<"adc">>) = 1
          BY <3>5, <4>1, <4>4
        <5>2. cmds = attach[writer].units
          BY <4>2, <5>1 DEF PiecesOK
        <5> QED BY <5>1, <5>2
      <4>6. AdcMayFail
        BY <4>1, <4>5
      <4>7. cur[c] \in NoAdc
        BY <4>4, <4>6 DEF NoAdc
      <4>8. CASE Lost(c)'
        BY <1>0, <3>4, <4>1, <4>7, <4>8 DEF NoDataSent
      <4>9. CASE ~Lost(c)'
        <5>1. Lost(c)' = FALSE /\ Lost(c) = FALSE
          BY <3>4, <4>9 DEF Lost
        <5> QED BY <5>1
      <4> QED BY <4>8, <4>9
    <3> QED BY <3>8, <3>9
  <2> QED BY <2>1, <2>2
<1> QED BY <1>2, <1>3, <1>4, <1>5 DEF ServerStep

\* The view of the session as an exchange.
Phases == [c \in Conns |-> ExchangeState(c)]
Results == [c \in Conns |-> Returned(c)]

\* A step of the server lets no call return; it may have no data for one.
LEMMA ServerExchanges ==
  ASSUME Inv, Inv', FlagsInv, PiecesOK, LinkTypeOK, CallsInv, SoloInv,
         ServerStep, UNCHANGED linkVars, sent' = sent
  PROVE  [Exchange!ExchangeNext]_(Exchange!exchangeVars)
<1>1. cur' = cur /\ Results' = Results
  BY DEF linkVars, Results, Returned
<1>2. \A d \in Conns : Lost(d)' = Lost(d) => ExchangeState(d)' = ExchangeState(d)
  BY DEF ExchangeState, linkVars
<1>3. CASE \A d \in Conns : Lost(d)' = Lost(d)
  <2>1. Phases' = Phases
    BY <1>2, <1>3 DEF Phases
  <2> QED BY <1>1, <2>1 DEF Exchange!exchangeVars, Phases, Results
<1>4. CASE \E c \in Conns : NoDataSent(c)
  <2>1. PICK c \in Conns : NoDataSent(c)
    BY <1>4
  <2>2. \A d \in Conns : d # c => ExchangeState(d)' = ExchangeState(d)
    <3> SUFFICES ASSUME NEW d \in Conns, d # c PROVE Lost(d)' = Lost(d)
      BY <1>2
    <3> QED BY <2>1, LostServer DEF NoDataSent
  <2>3. ExchangeState(c) = "asked" /\ ExchangeState(c)' = "lost"
    BY <2>1 DEF NoDataSent, ExchangeState, linkVars
  <2>4. Phases[c] = "asked" /\ Phases' = [Phases EXCEPT ![c] = "lost"]
    BY <2>2, <2>3 DEF Phases
  <2>5. Exchange!NoData(c)
    BY <1>1, <2>1, <2>4 DEF Exchange!NoData, NoDataSent, Phases, Results
  <2> QED BY <2>5 DEF Exchange!ExchangeNext
<1> QED BY <1>3, <1>4, LostServer

LEMMA ViewStays ==
  ASSUME UNCHANGED <<link, kind, got, cur, sent, rbuf, outbox, serverVars>>
  PROVE  UNCHANGED Exchange!exchangeVars
<1>1. \A c : Stream(c)' = Stream(c)
  BY DEF Stream, Busy, serverVars
<1> QED BY <1>1 DEF Exchange!exchangeVars, ExchangeState, Returned, Lost

LEMMA Viewed ==
  ASSUME Inv, LinkTypeOK, NEW c \in Conns, LinkStep(c), UNCHANGED serverVars
  PROVE  /\ Phases' = [Phases EXCEPT ![c] = ExchangeState(c)']
         /\ Results' = [Results EXCEPT ![c] = Returned(c)']
<1>1. ASSUME NEW d \in Conns, d # c
      PROVE  ExchangeState(d)' = ExchangeState(d) /\ Returned(d)' = Returned(d)
  <2>1. UNCHANGED <<link[d], rbuf[d], outbox[d], got[d], kind[d]>>
    BY <1>1, LinkElsewhere
  <2>2. Stream(d)' = Stream(d)
    BY <2>1 DEF Stream, Busy, serverVars
  <2> QED BY <2>1, <2>2 DEF ExchangeState, Returned, Lost
<1>2. /\ Phases' = [d \in Conns |-> ExchangeState(d)']
      /\ Results' = [d \in Conns |-> Returned(d)']
  BY DEF Phases, Results
<1>3. /\ [Phases EXCEPT ![c] = ExchangeState(c)']
            = [d \in Conns |-> IF d = c THEN ExchangeState(c)' ELSE ExchangeState(d)]
      /\ [Results EXCEPT ![c] = Returned(c)']
            = [d \in Conns |-> IF d = c THEN Returned(c)' ELSE Returned(d)]
  BY DEF Phases, Results
<1> QED BY <1>1, <1>2, <1>3

\* A line can be read only of a call that is not lost.
LEMMA LineFound ==
  ASSUME Inv, LinkTypeOK, NEW c \in Conns, ReadLine(c)
  PROVE  ~Lost(c)
<1> DEFINE r == rbuf[c]
           s == Stream(c)
           a == r \o s
<1>1. r \in Seq(Token) /\ s \in Seq(Token)
  BY StreamType DEF LinkTypeOK
<1>2. PICK k \in 1..Len(r) : EndsLine(r[k]) \/ r[k].tok = "data"
  BY DEF ReadLine, IsLine
<1> DEFINE lr == Len(r)
           ls == Len(s)
<1>3. lr \in Nat /\ ls \in Nat /\ Len(a) = lr + ls
      /\ \A i \in 1..lr + ls : a[i] = IF i <= lr THEN r[i] ELSE s[i - lr]
  BY <1>1, LenProperties, ConcatProperties
<1>4. k \in 1..lr
  OBVIOUS
<1> HIDE DEF lr, ls, r, s, a
<1>5. k \in 1..lr + ls /\ k <= lr
  BY <1>3, <1>4
<1>6. k \in 1..Len(a) /\ a[k] = r[k]
  BY <1>3, <1>5
<1>7. a[k].tok \notin {"hash", "len"}
  BY <1>2, <1>6 DEF EndsLine
<1> QED BY <1>6, <1>7 DEF Lost, a, r, s

\* A call that returns.
LEMMA CallReturns ==
  ASSUME Inv, LinkTypeOK, ReturnsOK', NEW c \in Conns, LinkStep(c), UNCHANGED serverVars,
         InCall(c), ~Lost(c), link'[c] = "idle", kind'[c] # "none", cur' = cur, sent' = sent
  PROVE  Exchange!Return(c)
<1>1. Phases[c] = "asked" /\ ExchangeState(c)' = "idle"
  BY DEF Phases, ExchangeState, InCall, Lost
<1>2. /\ Returned(c)' = [req |-> sent[c], kind |-> kind'[c]]
      /\ kind'[c] \in Exchange!Kinds(cur[c])
  BY DEF ReturnsOK
<1>3. /\ Phases' = [Phases EXCEPT ![c] = "idle"]
      /\ Results' = [Results EXCEPT ![c] = [req |-> sent[c], kind |-> kind'[c]]]
  BY <1>1, <1>2, Viewed
<1> QED BY <1>1, <1>2, <1>3 DEF Exchange!Return, Phases, Results

LEMMA LinkExchanges ==
  ASSUME ~MayTimeOut, Inv, LinkTypeOK, CallsInv, SoloInv, ReturnsOK',
         NEW c \in Conns, LinkStep(c), UNCHANGED serverVars
  PROVE  [Exchange!ExchangeNext]_(Exchange!exchangeVars)
<1>0. /\ Phases' = [Phases EXCEPT ![c] = ExchangeState(c)']
      /\ Results' = [Results EXCEPT ![c] = Returned(c)']
      /\ Phases[c] = ExchangeState(c) /\ Results[c] = Returned(c)
  BY Viewed DEF Phases, Results
<1>s. \A d : /\ Phases' = [Phases EXCEPT ![d] = Phases[d]] => Phases' = Phases
             /\ Results' = [Results EXCEPT ![d] = Results[d]] => Results' = Results
  BY DEF Phases, Results
<1>r. UNCHANGED <<kind, got>> => Returned(c)' = Returned(c) /\ Results' = Results
  <2> SUFFICES ASSUME UNCHANGED <<kind, got>>
               PROVE  Returned(c)' = Returned(c) /\ Results' = Results
    OBVIOUS
  <2>1. Returned(c)' = Returned(c)
    BY DEF Returned
  <2> QED BY <1>0, <1>s, <2>1
<1>l. /\ link[c] # "line" => ~Lost(c)
      /\ link'[c] # "line" => ~Lost(c)'
  BY DEF Lost
<1>1. CASE Open(c)
  <2>1. /\ link[c] = "closed" /\ link'[c] = "idle"
        /\ UNCHANGED <<cur, sent, got, kind>>
    BY <1>1 DEF Open, Connect, LinkTypeOK
  <2>e. ExchangeState(c) = "off" /\ ExchangeState(c)' = "idle"
    BY <1>l, <2>1 DEF ExchangeState
  <2>2. Phases[c] = "off" /\ Phases' = [Phases EXCEPT ![c] = "idle"] /\ Results' = Results
    BY <1>0, <1>r, <2>1, <2>e
  <2>3. Exchange!Start(c)
    BY <2>1, <2>2 DEF Exchange!Start, Phases, Results
  <2> QED BY <2>3 DEF Exchange!ExchangeNext
<1>2. ASSUME NEW l \in Lines, Call(c, l)
      PROVE  [Exchange!ExchangeNext]_(Exchange!exchangeVars)
  <2>1. /\ link[c] = "idle" /\ link'[c] = "line" /\ kind'[c] = "none"
        /\ cur' = [cur EXCEPT ![c] = l] /\ sent' = [sent EXCEPT ![c] = @ + 1]
        /\ UNCHANGED <<rbuf, outbox>>
    BY <1>2 DEF Call, Send, LinkTypeOK
  <2>2. Returned(c)' = Exchange!NoAnswer
    BY <2>1 DEF Returned, Exchange!NoAnswer
  <2>n. ~Lost(c)'
    <3>1. Unread(c) = <<>>
      BY <2>1 DEF CallsInv, CallOK, SoloInv, NeverLate, Expected, OnTheWay, ToAnswer,
                  AnswerComes, NoLine
    <3>2. rbuf[c] = <<>> /\ Stream(c) = <<>>
      BY <3>1, UnreadEmpty
    <3>3. Stream(c)' = Stream(c)
      BY <2>1 DEF Stream, Busy, serverVars
    <3>4. <<>> \o <<>> = <<>>
      BY EmptySeq, ConcatEmptySeq
    <3> QED BY <2>1, <3>2, <3>3, <3>4 DEF Lost
  <2>e. ExchangeState(c) = "idle" /\ ExchangeState(c)' = "asked"
    BY <1>l, <2>1, <2>n DEF ExchangeState
  <2>3. /\ Phases[c] = "idle" /\ Phases' = [Phases EXCEPT ![c] = "asked"]
        /\ Results' = [Results EXCEPT ![c] = Exchange!NoAnswer]
    BY <1>0, <2>2, <2>e
  <2>4. Exchange!Ask(c, l)
    BY <2>1, <2>3 DEF Exchange!Ask, Phases, Results
  <2> QED BY <2>4 DEF Exchange!ExchangeNext
<1>3. CASE Feed(c)
  <2>1. UNCHANGED <<link, kind, got, cur, sent>>
    BY <1>3 DEF Feed, Take
  <2>2. rbuf'[c] \o Stream(c)' = rbuf[c] \o Stream(c)
    BY <1>3, FeedMoves
  <2>3. Lost(c)' = Lost(c)
    BY <2>1, <2>2 DEF Lost
  <2>4. ExchangeState(c)' = ExchangeState(c)
    BY <2>1, <2>3 DEF ExchangeState
  <2>5. Phases' = Phases /\ Results' = Results
    BY <1>0, <1>r, <1>s, <2>1, <2>4
  <2> QED BY <2>1, <2>5 DEF Exchange!exchangeVars, Phases, Results
<1>4. CASE ReadLine(c)
  <2>1. PICK line : Interpret(c, line)
    BY <1>4 DEF ReadLine
  <2>2. /\ link[c] = "line" /\ UNCHANGED <<cur, sent>>
        /\ \/ link'[c] = "payload" /\ kind' = kind
           \/ link'[c] = "idle" /\ kind'[c] # "none"
    BY <1>4, <2>1 DEF ReadLine, Interpret, LinkTypeOK, wireVars
  <2>n. ~Lost(c)
    BY <1>4, LineFound
  <2>3. CASE link'[c] = "idle" /\ kind'[c] # "none"
    <3>1. Exchange!Return(c)
      BY <2>2, <2>3, <2>n, CallReturns DEF InCall
    <3> QED BY <3>1 DEF Exchange!ExchangeNext
  <2>4. CASE link'[c] = "payload" /\ kind' = kind
    <3>1. kind[c] = "none"
      BY <2>2 DEF CallsInv, CallOK, SoloInv, NeverLate
    <3>2. ExchangeState(c)' = ExchangeState(c) /\ Returned(c)' = Returned(c)
      BY <1>l, <2>2, <2>4, <2>n, <3>1 DEF ExchangeState, Returned
    <3>3. Phases' = Phases /\ Results' = Results
      BY <1>0, <1>s, <3>2
    <3> QED BY <2>2, <3>3 DEF Exchange!exchangeVars, Phases, Results
  <2> QED BY <2>2, <2>3, <2>4
<1>5. CASE ReadExactly(c)
  <2>1. /\ link[c] = "payload" /\ link'[c] = "idle" /\ kind'[c] = "bytes"
        /\ UNCHANGED <<cur, sent>>
    BY <1>5 DEF ReadExactly, LinkTypeOK, wireVars
  <2>2. Exchange!Return(c)
    BY <1>l, <2>1, CallReturns DEF InCall
  <2> QED BY <2>2 DEF Exchange!ExchangeNext
<1>6. CASE Quit(c)
  <2>1. /\ link[c] = "idle" /\ link'[c] = "closed"
        /\ UNCHANGED <<cur, sent, got, kind>>
    BY <1>6 DEF Quit, Hangup, LinkTypeOK
  <2>e. ExchangeState(c) = "idle" /\ ExchangeState(c)' = "off"
    BY <1>l, <2>1 DEF ExchangeState
  <2>2. Phases[c] = "idle" /\ Phases' = [Phases EXCEPT ![c] = "off"] /\ Results' = Results
    BY <1>0, <1>r, <2>1, <2>e
  <2>3. Exchange!Stop(c)
    BY <2>1, <2>2 DEF Exchange!Stop, Phases, Results
  <2> QED BY <2>3 DEF Exchange!ExchangeNext
<1>7. ~Timeout(c)
  BY DEF Timeout
<1> QED BY <1>1, <1>2, <1>3, <1>4, <1>5, <1>6, <1>7 DEF LinkStep, Receive

LEMMA SessionExchanges ==
  ASSUME ~MayTimeOut, Inv, Inv', FlagsInv, PiecesOK, LinkTypeOK, CallsInv, SoloInv,
         ReturnsOK', [SessionNext]_sessionVars
  PROVE  [Exchange!ExchangeNext]_(Exchange!exchangeVars)
<1>1. CASE ServerMoves
  <2>1. sent' = sent
    BY <1>1 DEF ServerMoves, ServerStep, Select, Accept, Read, ReadClose, AnswerLarge,
                AnswerDm, AnswerText, Answering, GetData, DmLine, DmShort, DmRemote,
                DmStep, ChannelWrite, WriteVoid, WriteFails, Writing, Finish, wireVars
  <2>2. ServerStep /\ UNCHANGED linkVars
    BY <1>1 DEF ServerMoves
  <2> QED BY <2>1, <2>2, ServerExchanges
<1>2. ASSUME NEW c \in Conns, LinkMoves(c)
      PROVE  [Exchange!ExchangeNext]_(Exchange!exchangeVars)
  BY <1>2, LinkExchanges DEF LinkMoves
<1>3. CASE UNCHANGED sessionVars
  BY <1>3, ViewStays DEF sessionVars, vars, wireVars, linkVars
<1> QED BY <1>1, <1>2, <1>3 DEF SessionNext

\* Client programs that run one after the other and do not time out get from
\* the server what SCPILink promises: every call that returns, returns the
\* answer to itself, waveform data as bytes, deep memory as bytes or as the
\* line that tells why not, all else as text; however each program left.  And
\* no call but *ADC? is ever left with the head of a frame that ends no line,
\* and *ADC? only where the application may have no data.
THEOREM ExchangeImplemented ==
  ASSUME Solo, ~MayTimeOut, ~Tearing, LinesBinaryFirst
  PROVE  SessionSpec => Exchange!ExchangeSafety
<1>1. SessionInit => Exchange!ExchangeInit
  BY DEF SessionInit, LinkInit, Init, WireInit, Exchange!ExchangeInit, Exchange!NoAnswer,
         ExchangeState, Returned, Lost
<1>2. Inv /\ Inv' /\ FlagsInv /\ PiecesOK /\ LinkTypeOK /\ CallsInv /\ SoloInv /\
      ReturnsOK' /\ [SessionNext]_sessionVars
        => [Exchange!ExchangeNext]_(Exchange!exchangeVars)
  BY SessionExchanges
<1> QED BY <1>1, <1>2, ReturnsRight, SoloInvariance, SessionIsServed, Invariance,
           FlagsInvariance, PiecesInvariance, PTL DEF SessionSpec, Exchange!ExchangeSafety

=============================================================================
