------------------------- MODULE ScpiServerProofs -------------------------
(***************************************************************************)
(* Theorems about the SCPI server thread, for any number of connections,   *)
(* lines, buffer sizes and data sizes.                                     *)
(***************************************************************************)
EXTENDS ScpiServer, SequenceTheorems, TLAPS

-----------------------------------------------------------------------------
(* Segments: what coalescing and tearing make of command lines.            *)

LEMMA UnitsFacts ==
  /\ BinaryUnits \subseteq Units /\ TextUnits \subseteq Units
  /\ BinaryUnits \cap TextUnits = {}
  /\ "text" \in TextUnits
BY DEF Units, BinaryUnits, TextUnits

\* Coalescing two lines gives a line; with every transfer first it stays so.
LEMMA CoalescedType ==
  ASSUME NEW u \in Seq(Units), NEW v \in Seq(Units), v # <<>>
  PROVE  /\ Coalesced(u, v) \in Seq(Units)
         /\ Coalesced(u, v) # <<>>
         /\ u # <<>> => Len(Coalesced(u, v)) = Len(u) + Len(v) - 1
         /\ u # <<>> /\ BinaryFirst(u) /\ BinaryFirst(v)
              => BinaryFirst(Coalesced(u, v))
<1> DEFINE front == SubSeq(u, 1, Len(u) - 1)
           seam == <<Glue(u[Len(u)], v[1])>>
<1>0. Len(u) \in Nat /\ (u # <<>> => Len(u) \in Nat \ {0})
  BY EmptySeq, LenProperties
<1>a. \A i \in 1..Len(u) - 1 : u[i] \in Units
  BY <1>0, ElementOfSeq
<1>1. /\ front \in Seq(Units)
      /\ u # <<>> => Len(front) = Len(u) - 1
      /\ \A i \in 1..Len(front) : front[i] = u[i]
  <2>1. /\ front \in Seq(Units)
        /\ \A i \in 1..Len(u) - 1 : front[i] = u[i]
    BY <1>0, <1>a, SubSeqProperties
  <2>2. Len(front) = IF Len(u) = 0 THEN 0 ELSE Len(u) - 1
    BY <1>0, <1>a, SubSeqProperties
  <2> HIDE DEF front
  <2> QED BY <2>1, <2>2, <1>0
<1>2. seam \in Seq(Units) /\ Len(seam) = 1 /\ seam[1] = Glue(u[Len(u)], v[1])
  BY UnitsFacts DEF Glue
<1>3. /\ Tail(v) \in Seq(Units) /\ Len(Tail(v)) = Len(v) - 1
      /\ \A i \in 1..Len(Tail(v)) : Tail(v)[i] = v[i + 1]
  BY HeadTailProperties
<1> DEFINE w == front \o seam
<1>4. /\ w \in Seq(Units) /\ Len(w) = Len(front) + 1
      /\ \A i \in 1..Len(w) : w[i] = IF i <= Len(front) THEN front[i] ELSE seam[i - Len(front)]
  BY <1>1, <1>2, ConcatProperties
<1>5. /\ Coalesced(u, v) = w \o Tail(v)
      /\ w \o Tail(v) \in Seq(Units) /\ Len(w \o Tail(v)) = Len(w) + Len(v) - 1
      /\ \A i \in 1..Len(w) + Len(v) - 1 :
           (w \o Tail(v))[i] = IF i <= Len(w) THEN w[i] ELSE Tail(v)[i - Len(w)]
  BY <1>3, <1>4, ConcatProperties DEF Coalesced
<1>6. Coalesced(u, v) # <<>>
  BY <1>1, <1>4, <1>5, LenProperties, EmptySeq
<1>8. u # <<>> => Len(Coalesced(u, v)) = Len(u) + Len(v) - 1
  <2> SUFFICES ASSUME u # <<>> PROVE Len(Coalesced(u, v)) = Len(u) + Len(v) - 1
    OBVIOUS
  <2> DEFINE lu == Len(u)
             lf == Len(front)
  <2>1. lf = lu - 1 /\ lu \in Nat
    BY <1>0, <1>1
  <2>2. Len(w) = lf + 1
    BY <1>4
  <2> HIDE DEF lu, lf
  <2>3. Len(w) = lu
    BY <2>1, <2>2
  <2>4. Len(Coalesced(u, v)) = lu + Len(v) - 1
    BY <1>5, <2>3, Zenon
  <2> QED BY <2>4 DEF lu
<1>7. ASSUME u # <<>>, BinaryFirst(u), BinaryFirst(v)
      PROVE  BinaryFirst(Coalesced(u, v))
  <2> SUFFICES ASSUME NEW i \in 2..Len(Coalesced(u, v))
               PROVE  Coalesced(u, v)[i] \in TextUnits
    BY DEF BinaryFirst
  <2>1. Len(u) \in Nat \ {0} /\ Len(v) \in Nat \ {0}
    BY <1>7, EmptySeq
  <2>2. CASE i < Len(u)
    BY <2>1, <2>2, <1>7, <1>1, <1>4, <1>5 DEF BinaryFirst
  <2>3. CASE i = Len(u)
    <3>1. Coalesced(u, v)[i] = Glue(u[i], v[1])
      BY <2>1, <2>3, <1>1, <1>2, <1>4, <1>5, <1>7
    <3>2. u[i] \in TextUnits
      BY <2>1, <2>3, <1>7 DEF BinaryFirst
    <3> QED BY <3>1, <3>2, UnitsFacts DEF Glue
  <2>4. CASE i > Len(u)
    <3>1. Coalesced(u, v)[i] = v[i - Len(u) + 1]
      BY <2>1, <2>4, <1>1, <1>3, <1>4, <1>5, <1>7
    <3>2. i - Len(u) + 1 \in 2..Len(v)
      BY <2>1, <2>4, <1>1, <1>4, <1>5, <1>7
    <3> QED BY <3>1, <3>2, <1>7 DEF BinaryFirst
  <2> QED BY <2>1, <2>2, <2>3, <2>4
<1> QED BY <1>5, <1>6, <1>7, <1>8

\* The two halves of a torn line are lines, and no transfer slides back.
LEMMA TornType ==
  ASSUME NEW u \in Seq(Units), NEW k \in 1..Len(u),
         NEW part \in {"text", u[k]}, NEW rest \in {"text", u[k]}
  PROVE  /\ TornBefore(u, k, part) \in Seq(Units) /\ TornBefore(u, k, part) # <<>>
         /\ TornAfter(u, k, rest) \in Seq(Units) /\ TornAfter(u, k, rest) # <<>>
         /\ Len(TornBefore(u, k, part)) = k
         /\ Len(TornAfter(u, k, rest)) = Len(u) - k + 1
         /\ BinaryFirst(u) => /\ BinaryFirst(TornBefore(u, k, part))
                              /\ BinaryFirst(TornAfter(u, k, rest))
<1> DEFINE a == SubSeq(u, 1, k - 1)
           b == SubSeq(u, k + 1, Len(u))
<1>0. Len(u) \in Nat /\ k \in Nat /\ k <= Len(u) /\ 1 <= k
  BY LenProperties
<1>1. /\ a \in Seq(Units) /\ Len(a) = k - 1
      /\ \A i \in 1..k - 1 : a[i] = u[i]
  BY <1>0, SubSeqProperties, ElementOfSeq
<1>2. /\ b \in Seq(Units) /\ Len(b) = Len(u) - k
      /\ \A i \in 1..Len(u) - k : b[i] = u[k + i]
  BY <1>0, SubSeqProperties, ElementOfSeq
<1>3. /\ part \in Units /\ <<part>> \in Seq(Units)
      /\ rest \in Units /\ <<rest>> \in Seq(Units)
  BY UnitsFacts, ElementOfSeq
<1>4. /\ TornBefore(u, k, part) \in Seq(Units)
      /\ Len(TornBefore(u, k, part)) = k
      /\ \A i \in 1..k : TornBefore(u, k, part)[i] = IF i < k THEN u[i] ELSE part
  BY <1>0, <1>1, <1>3, ConcatProperties DEF TornBefore
<1>5. /\ TornAfter(u, k, rest) \in Seq(Units)
      /\ Len(TornAfter(u, k, rest)) = Len(u) - k + 1
      /\ \A i \in 2..Len(u) - k + 1 : TornAfter(u, k, rest)[i] = u[k + i - 1]
  BY <1>0, <1>2, <1>3, ConcatProperties DEF TornAfter
<1>6. TornBefore(u, k, part) # <<>> /\ TornAfter(u, k, rest) # <<>>
  BY <1>0, <1>4, <1>5, EmptySeq
<1>7. ASSUME BinaryFirst(u) PROVE BinaryFirst(TornBefore(u, k, part))
  BY <1>0, <1>4, <1>7, UnitsFacts DEF BinaryFirst
<1>8. ASSUME BinaryFirst(u) PROVE BinaryFirst(TornAfter(u, k, rest))
  BY <1>0, <1>5, <1>8 DEF BinaryFirst
<1> QED BY <1>4, <1>5, <1>6, <1>7, <1>8

-----------------------------------------------------------------------------
(* The inductive invariant under every other one.                          *)

LinesBinaryFirst == \A l \in Lines : BinaryFirst(l)
LinesAlone == \A l \in Lines : Len(l) = 1

\* What inbox and attachments hold besides their types.
GoodSegment == {s \in Segment : /\ s.reqs # <<>> /\ s.units # <<>>
                                /\ LinesBinaryFirst => BinaryFirst(s.units)
                                /\ LinesAlone => Len(s.units) = 1}

SegmentsOK ==
  /\ inbox \in [Conns -> Seq(GoodSegment)]
  /\ \A c \in Conns : interest[c] = "write" => attach[c] \in GoodSegment

\* Keys are registered exactly for open connections, and while an answer is
\* written its key waits for it and is not selected a second time.
KeysOK ==
  /\ \A c \in Conns : interest[c] # "none" <=> conn[c] = "open"
  /\ pc \in {"dm", "write"} => /\ writer \in Conns
                              /\ interest[writer] = "write"
                              /\ writer \notin selected

\* No more is in the buffers towards a peer than fits.
BufferOK == \A c \in Conns : Len(outbox[c]) <= SndCap

Inv == TypeOK /\ SegmentsOK /\ KeysOK /\ BufferOK

LEMMA SegmentsGood ==
  ASSUME NEW r \in Seq(Nat), r # <<>>,
         NEW us \in Seq(Units), us # <<>>,
         LinesBinaryFirst => BinaryFirst(us),
         LinesAlone => Len(us) = 1
  PROVE  [reqs |-> r, units |-> us] \in GoodSegment
BY DEF GoodSegment, Segment

\* Appending segments to one inbox.
LEMMA ArriveGood ==
  ASSUME inbox \in [Conns -> Seq(GoodSegment)], NEW c \in Conns,
         NEW ss \in Seq(GoodSegment), Arrive(c, ss)
  PROVE  inbox' \in [Conns -> Seq(GoodSegment)]
BY ConcatProperties DEF Arrive

\* Whatever becomes of a line on the wire, good segments arrive.
LEMMA SendGood ==
  ASSUME WireTypeOK, inbox \in [Conns -> Seq(GoodSegment)],
         NEW c \in Conns, NEW l \in Lines, Send(c, l)
  PROVE  inbox' \in [Conns -> Seq(GoodSegment)]
<1> DEFINE q == inbox[c]
           seg(us) == [reqs |-> <<sent[c] + 1>>, units |-> us]
           rr == <<sent[c] + 1>>
<1>1. /\ l \in Seq(Units) /\ l # <<>>
      /\ LinesBinaryFirst => BinaryFirst(l)
      /\ LinesAlone => Len(l) = 1
  BY LinesAssumption DEF LinesBinaryFirst, LinesAlone
<1>2. rr \in Seq(Nat) /\ Len(rr) = 1 /\ rr # <<>>
  BY DEF WireTypeOK
<1>3. ASSUME Arrive(c, <<seg(l)>>)
      PROVE  inbox' \in [Conns -> Seq(GoodSegment)]
  <2>1. seg(l) \in GoodSegment
    BY <1>1, <1>2, SegmentsGood
  <2> HIDE DEF seg
  <2>2. <<seg(l)>> \in Seq(GoodSegment)
    BY <2>1
  <2> QED BY <2>2, <1>3, ArriveGood
<1>4. ASSUME q # <<>>,
             inbox' = [inbox EXCEPT ![c][Len(q)] =
                         [reqs  |-> q[Len(q)].reqs \o rr,
                          units |-> Coalesced(q[Len(q)].units, l)]]
      PROVE  inbox' \in [Conns -> Seq(GoodSegment)]
  <2> DEFINE last == q[Len(q)]
             new == [reqs |-> last.reqs \o rr, units |-> Coalesced(last.units, l)]
  <2>1. q \in Seq(GoodSegment) /\ Len(q) \in 1..Len(q)
    BY <1>4, EmptySeq
  <2>2. last \in GoodSegment
    BY <2>1, ElementOfSeq
  <2>3. /\ last.reqs \in Seq(Nat) /\ last.units \in Seq(Units)
        /\ last.units # <<>>
        /\ LinesBinaryFirst => BinaryFirst(last.units)
        /\ LinesAlone => Len(last.units) = 1
    BY <2>2 DEF GoodSegment, Segment
  <2>4. last.reqs \o rr \in Seq(Nat) /\ last.reqs \o rr # <<>>
    BY <2>3, <1>2, ConcatProperties, EmptySeq, LenProperties
  <2>a. /\ Coalesced(last.units, l) \in Seq(Units)
        /\ Coalesced(last.units, l) # <<>>
        /\ LinesBinaryFirst => BinaryFirst(Coalesced(last.units, l))
        /\ LinesAlone => Len(Coalesced(last.units, l)) = 1
    <3>1. /\ Coalesced(last.units, l) \in Seq(Units)
          /\ Coalesced(last.units, l) # <<>>
          /\ LinesBinaryFirst => BinaryFirst(Coalesced(last.units, l))
          /\ Len(Coalesced(last.units, l)) = Len(last.units) + Len(l) - 1
      BY <2>3, <1>1, CoalescedType
    <3>2. LinesAlone => Len(last.units) = 1 /\ Len(l) = 1
      BY <1>1, <2>3
    <3> HIDE DEF last
    <3>3. LinesAlone => Len(Coalesced(last.units, l)) = 1 + 1 - 1
      BY <3>1, <3>2, Zenon
    <3> QED BY <3>1, <3>3
  <2>5. new \in GoodSegment
    BY <2>a, <2>4, SegmentsGood
  <2>6. [q EXCEPT ![Len(q)] = new] \in Seq(GoodSegment)
    BY <2>1, <2>5, ExceptSeq
  <2> QED BY <2>6, <1>4
<1>5. ASSUME NEW k \in 1..Len(l),
             NEW part \in {"text", l[k]}, NEW rest \in {"text", l[k]},
             Arrive(c, <<seg(TornBefore(l, k, part)), seg(TornAfter(l, k, rest))>>)
      PROVE  inbox' \in [Conns -> Seq(GoodSegment)]
  <2>a. LinesAlone => k = 1 /\ Len(l) - k + 1 = 1
    <3> DEFINE n == Len(l)
    <3>1. LinesAlone => n = 1
      BY <1>1
    <3>2. k \in 1..n
      OBVIOUS
    <3> HIDE DEF n
    <3>3. LinesAlone => k = 1 /\ n - k + 1 = 1
      BY <3>1, <3>2
    <3> QED BY <3>3 DEF n
  <2> DEFINE a == TornBefore(l, k, part)
             b == TornAfter(l, k, rest)
  <2>b. /\ a \in Seq(Units) /\ a # <<>> /\ b \in Seq(Units) /\ b # <<>>
        /\ Len(a) = k /\ Len(b) = Len(l) - k + 1
        /\ BinaryFirst(l) => BinaryFirst(a) /\ BinaryFirst(b)
    BY <1>1, TornType
  <2> HIDE DEF a, b
  <2>c. /\ LinesBinaryFirst => BinaryFirst(a) /\ BinaryFirst(b)
        /\ LinesAlone => Len(a) = 1 /\ Len(b) = 1
    BY <1>1, <2>a, <2>b
  <2>1. seg(a) \in GoodSegment
    BY <1>2, <2>b, <2>c, SegmentsGood
  <2>2. seg(b) \in GoodSegment
    BY <1>2, <2>b, <2>c, SegmentsGood
  <2> HIDE DEF seg
  <2>3. <<seg(a), seg(b)>> \in Seq(GoodSegment)
    BY <2>1, <2>2
  <2> QED BY <2>3, <1>5, ArriveGood DEF a, b
<1> QED BY <1>3, <1>4, <1>5 DEF Send

\* A good segment is a segment.
LEMMA GoodSegmentType ==
  /\ GoodSegment \subseteq Segment
  /\ Seq(GoodSegment) \subseteq Seq(Segment)
  /\ NoReply \in Segment
<1>1. GoodSegment \subseteq Segment
  BY DEF GoodSegment
<1>2. Seq(GoodSegment) \subseteq Seq(Segment)
  BY <1>1, SeqMonotonic
<1>3. NoReply \in Segment
  BY EmptySeq DEF NoReply, Segment
<1> QED BY <1>1, <1>2, <1>3

-----------------------------------------------------------------------------
(* The writes of an answer, for any set T of tokens they are made of: the  *)
(* type of the state takes T = Token, the kind of the answers less.        *)

WriteOf(T) == [toks : Seq(T), loop : BOOLEAN]

LEMMA OnceType ==
  ASSUME NEW T, NEW t \in T
  PROVE  Once(t) \in WriteOf(T)
BY DEF Once, WriteOf

\* The writes of a frame and of a null frame.
LEMMA FrameType ==
  ASSUME NEW T, NEW r, NEW n \in Nat,
         Tok("hash", r, 0) \in T, Tok("len", r, n) \in T,
         Tok("nl", r, 0) \in T, Tok("data", r, 0) \in T
  PROVE  Frame(r, n) \in Seq(WriteOf(T))
<1>1. [i \in 1..n |-> Tok("data", r, 0)] \in Seq(T)
  BY IsASeq
<1>2. <<Data(r, n)>> \in Seq(WriteOf(T))
  <2>1. Data(r, n) \in WriteOf(T)
    BY <1>1 DEF WriteOf, Data
  <2> QED BY <2>1
<1>3. Header(r, n) \in Seq(WriteOf(T))
  <2>1. /\ Once(Tok("hash", r, 0)) \in WriteOf(T)
        /\ Once(Tok("len", r, n)) \in WriteOf(T)
        /\ Once(Tok("nl", r, 0)) \in WriteOf(T)
    BY OnceType
  <2> QED BY <2>1 DEF Header
<1>4. Header(r, n) \o <<Data(r, n)>> \in Seq(WriteOf(T))
  BY <1>2, <1>3, ConcatProperties
<1> QED BY <1>3, <1>4 DEF Frame

LEMMA NullFrameType ==
  ASSUME NEW T, NEW r, Tok("hash", r, 0) \in T, Tok("len", r, 0) \in T
  PROVE  NullFrame(r) \in Seq(WriteOf(T))
<1>1. /\ Once(Tok("hash", r, 0)) \in WriteOf(T)
      /\ Once(Tok("len", r, 0)) \in WriteOf(T)
  BY OnceType
<1> QED BY <1>1 DEF NullFrame

LEMMA LineType ==
  ASSUME NEW T, NEW r, Tok("text", r, 0) \in T
  PROVE  Line(r) \in Seq(WriteOf(T))
<1>1. Once(Tok("text", r, 0)) \in WriteOf(T)
  BY OnceType
<1> QED BY <1>1 DEF Line

\* What stays in the plan after k tokens were written.
LEMMA PlanAfterType ==
  ASSUME NEW T, plan \in Seq(WriteOf(T)), plan # <<>>, NEW k \in Nat
  PROVE  PlanAfter(Head(plan), k) \in Seq(WriteOf(T))
<1> DEFINE w == Head(plan)
           rest == SubSeq(w.toks, k + 1, Len(w.toks))
<1>1. w \in WriteOf(T) /\ Tail(plan) \in Seq(WriteOf(T))
  BY HeadTailProperties
<1>2. w.toks \in Seq(T)
  BY <1>1 DEF WriteOf
<1>3. rest \in Seq(T)
  BY <1>2, SubSeqProperties, ElementOfSeq, LenProperties
<1>4. [w EXCEPT !.toks = rest] \in WriteOf(T)
  BY <1>1, <1>3 DEF WriteOf
<1>5. <<[w EXCEPT !.toks = rest]>> \o Tail(plan) \in Seq(WriteOf(T))
  BY <1>1, <1>4, ConcatProperties
<1> QED BY <1>1, <1>5 DEF PlanAfter

\* One write moves tokens from the plan to the peer's buffer and makes none.
LEMMA WriteType ==
  ASSUME NEW T, plan \in Seq(WriteOf(T)), DOMAIN outbox = Conns,
         writer \in Conns, outbox[writer] \in Seq(T), BufferOK, ChannelWrite
  PROVE  /\ plan' \in Seq(WriteOf(T)) /\ outbox'[writer] \in Seq(T)
         /\ Len(outbox'[writer]) <= SndCap
         /\ outbox' = [outbox EXCEPT ![writer] = outbox'[writer]]
<1> DEFINE w == Head(plan)
           k == Smaller(Offered(w), Room(writer))
<1>1. w \in WriteOf(T)
  BY HeadTailProperties DEF ChannelWrite, Writing
<1>2. w.toks \in Seq(T) /\ Len(w.toks) \in Nat
  BY <1>1 DEF WriteOf
<1>3. Offered(w) \in Nat /\ Offered(w) <= Len(w.toks)
  BY <1>2, DataBlockAssumption DEF Offered, Smaller
<1>4. k \in Nat /\ k <= Len(w.toks) /\ k <= Room(writer)
  BY <1>3, SndCapAssumption, LenProperties DEF Smaller, Room, BufferOK
<1> HIDE DEF k
<1>5. /\ SubSeq(w.toks, 1, k) \in Seq(T)
      /\ Len(SubSeq(w.toks, 1, k)) = k
  BY <1>2, <1>4, SubSeqProperties, ElementOfSeq
<1>6. outbox' = [outbox EXCEPT ![writer] = @ \o SubSeq(w.toks, 1, k)]
  BY DEF ChannelWrite, k
<1>7. /\ outbox[writer] \o SubSeq(w.toks, 1, k) \in Seq(T)
      /\ Len(outbox[writer] \o SubSeq(w.toks, 1, k)) <= SndCap
  BY <1>4, <1>5, ConcatProperties, LenProperties, SndCapAssumption DEF Room
<1>8. outbox'[writer] = outbox[writer] \o SubSeq(w.toks, 1, k)
  BY <1>6
<1>9. plan' \in Seq(WriteOf(T))
  BY <1>4, PlanAfterType DEF ChannelWrite, Writing, k
<1> QED BY <1>6, <1>7, <1>8, <1>9

LEMMA ChannelWriteType ==
  ASSUME NEW T, plan \in Seq(WriteOf(T)), outbox \in [Conns -> Seq(T)],
         writer \in Conns, BufferOK, ChannelWrite
  PROVE  /\ plan' \in Seq(WriteOf(T)) /\ outbox' \in [Conns -> Seq(T)]
         /\ BufferOK'
<1>1. /\ plan' \in Seq(WriteOf(T)) /\ outbox'[writer] \in Seq(T)
      /\ Len(outbox'[writer]) <= SndCap
      /\ outbox' = [outbox EXCEPT ![writer] = outbox'[writer]]
  BY WriteType
<1> QED BY <1>1 DEF BufferOK

-----------------------------------------------------------------------------
(* Inv is inductive.                                                       *)

LEMMA InvInit == Init => Inv
<1> SUFFICES ASSUME Init PROVE Inv
  OBVIOUS
<1> USE DEF Init, WireInit, ServerInit
<1>1. \A S : <<>> \in Seq(S) /\ Len(<<>>) = 0
  BY EmptySeq
<1>2. WireTypeOK
  <2>1. inbox \in [Conns -> Seq(Segment)] /\ outbox \in [Conns -> Seq(Token)]
    BY <1>1
  <2> QED BY <2>1 DEF WireTypeOK
<1>3. TypeOK
  <2>1. cmds \in Seq(Units) /\ plan \in Seq(Write)
    BY <1>1
  <2>2. attach \in [Conns -> Segment]
    BY GoodSegmentType
  <2> QED BY <1>2, <2>1, <2>2 DEF TypeOK
<1>4. SegmentsOK
  BY <1>1 DEF SegmentsOK
<1>5. KeysOK
  BY DEF KeysOK
<1>6. BufferOK
  <2>1. \A c \in Conns : outbox[c] = <<>>
    BY Zenon
  <2>2. \A c \in Conns : Len(outbox[c]) = 0
    BY <2>1, <1>1, Zenon
  <2>3. 0 <= SndCap
    BY SndCapAssumption
  <2> QED BY <2>2, <2>3, Zenon DEF BufferOK
<1> QED BY <1>3, <1>4, <1>5, <1>6 DEF Inv

LEMMA TokenType ==
  ASSUME NEW r \in Segment, NEW n \in Nat,
         NEW t \in {"hash", "len", "nl", "data", "text"}
  PROVE  Tok(t, r, n) \in Token
BY DEF Tok, Token

\* The thread's round: selecting, accepting and reading.
LEMMA InvSelect ==
  ASSUME Inv, Select PROVE Inv'
BY DEF Inv, TypeOK, WireTypeOK, SegmentsOK, KeysOK, BufferOK, wireVars,
       flagVars, answerVars, Select, Ready

LEMMA InvRead ==
  ASSUME Inv, NEW c \in Conns, Accept(c) \/ Read(c) \/ ReadClose(c)
  PROVE  Inv'
<1> USE DEF Inv, TypeOK, WireTypeOK, SegmentsOK, KeysOK, BufferOK, wireVars,
            flagVars, answerVars
<1>2. CASE Accept(c)
  BY <1>2 DEF Accept, Waiting
<1>3. CASE Read(c)
  <2> DEFINE seg == Head(inbox[c])
  <2>1. /\ seg \in GoodSegment
        /\ Tail(inbox[c]) \in Seq(GoodSegment)
    BY <1>3, HeadTailProperties DEF Read
  <2>2. inbox' \in [Conns -> Seq(GoodSegment)]
    BY <1>3, <2>1 DEF Read
  <2>3. inbox' \in [Conns -> Seq(Segment)]
    BY <2>2, GoodSegmentType
  <2>4. /\ interest' \in [Conns -> {"none", "read", "write"}]
        /\ attach' \in [Conns -> Segment]
        /\ \A d \in Conns : interest'[d] = "write" => attach'[d] \in GoodSegment
        /\ \A d \in Conns : interest'[d] # "none" <=> conn[d] = "open"
    <3>1. seg \in Segment
      BY <2>1, GoodSegmentType
    <3>2. /\ c \in Conns /\ interest[c] = "read"
          /\ \/ UNCHANGED <<interest, attach>>
             \/ /\ interest' = [interest EXCEPT ![c] = "write"]
                /\ attach' = [attach EXCEPT ![c] = seg]
      BY <1>3 DEF Read, Reading
    <3>0. /\ interest \in [Conns -> {"none", "read", "write"}]
          /\ attach \in [Conns -> Segment]
          /\ \A d \in Conns : interest[d] = "write" => attach[d] \in GoodSegment
          /\ \A d \in Conns : interest[d] # "none" <=> conn[d] = "open"
      OBVIOUS
    <3> HIDE DEF seg, Inv, TypeOK, WireTypeOK, SegmentsOK, KeysOK, BufferOK
    <3>3. CASE UNCHANGED <<interest, attach>>
      BY <3>0, <3>3
    <3>4. CASE /\ interest' = [interest EXCEPT ![c] = "write"]
               /\ attach' = [attach EXCEPT ![c] = seg]
      <4>1. /\ \A d \in Conns \ {c} : interest'[d] = interest[d] /\ attach'[d] = attach[d]
            /\ interest'[c] = "write" /\ attach'[c] = seg
        BY <3>0, <3>2, <3>4
      <4>2. /\ interest' \in [Conns -> {"none", "read", "write"}]
            /\ attach' \in [Conns -> Segment]
        BY <3>0, <3>1, <3>4
      <4> QED BY <4>1, <4>2, <3>0, <3>2, <2>1
    <3> QED BY <3>2, <3>3, <3>4
  <2>5. /\ onlargeTransmit' \in BOOLEAN /\ onDmTransmit' \in BOOLEAN
        /\ isRemoteTransmit' \in BOOLEAN
    BY <1>3 DEF Read, SetFlags
  <2>6. selected' \subseteq Conns \cup {Listener} /\ pc' = "loop"
    BY <1>3 DEF Read, Reading
  <2>7. UNCHANGED <<peer, outbox, sent, conn, answerVars>>
    BY <1>3 DEF Read
  <2> QED BY <2>2, <2>3, <2>4, <2>5, <2>6, <2>7
<1>4. CASE ReadClose(c)
  <2>1. inbox' \in [Conns -> Seq(GoodSegment)]
    BY <1>4, EmptySeq DEF ReadClose
  <2>2. inbox' \in [Conns -> Seq(Segment)]
    BY <2>1, GoodSegmentType
  <2>3. attach' \in [Conns -> Segment]
    BY <1>4, GoodSegmentType DEF ReadClose
  <2> QED BY <1>4, <2>1, <2>2, <2>3 DEF ReadClose, Reading
<1> QED BY <1>2, <1>3, <1>4

\* The pieces a translation is split in, of whatever set its units are.
LEMMA PiecesType ==
  ASSUME NEW S, NEW us \in Seq(S), NEW n \in 0..Len(us)
  PROVE  /\ SubSeq(us, 1, n) \in Seq(S) /\ Len(SubSeq(us, 1, n)) = n
         /\ n = Len(us) => SubSeq(us, 1, n) = us
<1> DEFINE m == Len(us)
<1>1. m \in Nat /\ \A i \in 1..m : us[i] \in S
  BY LenProperties, ElementOfSeq
<1> HIDE DEF m
<1>2. n \in Nat /\ n <= m
  BY <1>1 DEF m
<1>3. /\ SubSeq(us, 1, n) \in Seq(S) /\ Len(SubSeq(us, 1, n)) = n
      /\ \A i \in 1..n : SubSeq(us, 1, n)[i] = us[i]
  BY <1>1, <1>2, SubSeqProperties
<1>4. ASSUME n = m PROVE SubSeq(us, 1, n) = us
  BY <1>3, <1>4, SeqEqual DEF m
<1> QED BY <1>3, <1>4 DEF m

\* Starting an answer.
LEMMA InvAnswer ==
  ASSUME Inv, NEW c \in Conns,
         AnswerLarge(c) \/ AnswerDm(c) \/ AnswerText(c)
  PROVE  Inv'
<1> USE DEF Inv, TypeOK, WireTypeOK, SegmentsOK, KeysOK, BufferOK, wireVars,
            flagVars, answerVars
<1>1. attach[c] \in Segment /\ attach[c].units \in Seq(Units)
  BY DEF Segment
<1>2. Line(attach[c]) \in Seq(Write)
  BY <1>1, TokenType, LineType DEF Write, WriteOf
<1>3. /\ cmds' \in Seq(Units) /\ plan' \in Seq(Write)
      /\ mode' \in {"large", "dm", "text"} /\ pc' \in {"dm", "write"}
  <2>1. AnswerLarge(c) => cmds' \in Seq(Units)
    BY <1>1, PiecesType DEF AnswerLarge
  <2> QED BY <1>2, <2>1, EmptySeq DEF AnswerLarge, AnswerDm, AnswerText
<1>4. Answering(c)
  BY DEF AnswerLarge, AnswerDm, AnswerText
<1> QED BY <1>3, <1>4 DEF Answering

\* Deciding what to write.
LEMMA InvPlan ==
  ASSUME Inv, GetData \/ DmLine \/ DmShort \/ DmRemote
  PROVE  Inv'
<1> USE DEF Inv, TypeOK, WireTypeOK, SegmentsOK, KeysOK, BufferOK, wireVars,
            flagVars, answerVars
<1> DEFINE r == attach[writer]
<1>1. writer \in Conns /\ r \in Segment
  BY DEF GetData, DmLine, DmShort, DmRemote, DmStep
<1>2. Line(r) \in Seq(Write) /\ NullFrame(r) \in Seq(Write)
  BY <1>1, TokenType, LineType, NullFrameType DEF Write, WriteOf
<1>3. ASSUME NEW n \in Nat PROVE Frame(r, n) \in Seq(Write)
  BY <1>1, TokenType, FrameType DEF Write, WriteOf
<1> HIDE DEF r
<1>4. CASE GetData
  <2>1. PICK after \in Seq(Write) :
          \/ \E n \in Nat : plan' = Frame(r, n) \o after
          \/ plan' = NullFrame(r) \o after
    BY <1>4, <1>2, EmptySeq, AdcSizesAssumption DEF GetData, r
  <2>2. PICK first \in Seq(Write) : plan' = first \o after
    BY <2>1, <1>2, <1>3
  <2>3. plan' \in Seq(Write)
    BY <2>2, ConcatProperties
  <2>4. cmds' \in Seq(Units)
    BY <1>4, HeadTailProperties DEF GetData
  <2> QED BY <1>4, <2>3, <2>4 DEF GetData
<1>5. CASE DmLine
  BY <1>5, <1>2 DEF DmLine, DmStep, r
<1>6. CASE DmShort
  BY <1>6 DEF DmShort, DmStep
<1>7. CASE DmRemote
  <2>1. plan' \in Seq(Write)
    BY <1>7, <1>3, DmSizesAssumption DEF DmRemote, r
  <2> QED BY <1>7, <2>1 DEF DmRemote, DmStep
<1> QED BY <1>4, <1>5, <1>6, <1>7

\* The writes, and the end of an answer.
LEMMA InvWrite ==
  ASSUME Inv, ChannelWrite \/ WriteVoid \/ WriteFails \/ Finish
  PROVE  Inv'
<1> USE DEF Inv, TypeOK, WireTypeOK, SegmentsOK, KeysOK, BufferOK, wireVars,
            flagVars, answerVars
<1>0. writer \in Conns /\ Write = WriteOf(Token)
  BY DEF ChannelWrite, WriteVoid, WriteFails, Writing, Finish, Write, WriteOf
<1>1. CASE ChannelWrite
  <2>1. plan' \in Seq(Write) /\ outbox' \in [Conns -> Seq(Token)] /\ BufferOK'
    BY <1>0, <1>1, ChannelWriteType
  <2> QED BY <1>1, <2>1 DEF ChannelWrite, Writing
<1>2. CASE WriteVoid
  <2> DEFINE w == Head(plan)
  <2>1. w \in Write
    BY <1>2, HeadTailProperties DEF WriteVoid, Writing
  <2>2. Offered(w) \in Nat
    BY <2>1, DataBlockAssumption, LenProperties DEF Offered, Smaller, Write
  <2>3. plan' \in Seq(Write)
    BY <1>0, <1>2, <2>2, PlanAfterType DEF WriteVoid, Writing
  <2> QED BY <1>2, <2>3 DEF WriteVoid, Writing
<1>3. CASE WriteFails
  <2>1. attach[writer] \in Segment
    BY <1>0
  <2>2. Line(attach[writer]) \in Seq(Write)
    BY <1>0, <2>1, TokenType, LineType
  <2> QED BY <1>3, <2>2 DEF WriteFails, Writing
<1>4. CASE Finish
  BY <1>0, <1>4, GoodSegmentType DEF Finish
<1> QED BY <1>1, <1>2, <1>3, <1>4

\* The peers.
LEMMA InvPeer ==
  ASSUME Inv, PeerStep
  PROVE  Inv'
<1> USE DEF Inv, TypeOK, WireTypeOK, SegmentsOK, KeysOK, BufferOK
<1>1. ASSUME NEW c \in Conns, Connect(c), UNCHANGED serverVars PROVE Inv'
  BY <1>1 DEF Connect, serverVars
<1>2. ASSUME NEW c \in Conns, NEW l \in Lines, Send(c, l), UNCHANGED serverVars
      PROVE  Inv'
  <2>1. inbox' \in [Conns -> Seq(GoodSegment)]
    BY <1>2, SendGood
  <2>2. inbox' \in [Conns -> Seq(Segment)]
    BY <2>1, GoodSegmentType
  <2>3. sent' \in [Conns -> Nat] /\ UNCHANGED <<peer, outbox>>
    BY <1>2 DEF Send
  <2> QED BY <1>2, <2>1, <2>2, <2>3 DEF serverVars
<1>3. ASSUME NEW c \in Conns, Take(c), UNCHANGED serverVars PROVE Inv'
  <2>1. /\ Tail(outbox[c]) \in Seq(Token)
        /\ Len(Tail(outbox[c])) = Len(outbox[c]) - 1
    BY <1>3, HeadTailProperties DEF Take
  <2>2. outbox' \in [Conns -> Seq(Token)] /\ BufferOK'
    BY <1>3, <2>1, SndCapAssumption, LenProperties DEF Take
  <2> QED BY <1>3, <2>2 DEF Take, serverVars
<1>4. ASSUME NEW c \in Conns, Hangup(c), UNCHANGED serverVars PROVE Inv'
  <2>1. outbox' \in [Conns -> Seq(Token)] /\ BufferOK'
    BY <1>4, SndCapAssumption, EmptySeq DEF Hangup
  <2> QED BY <1>4, <2>1 DEF Hangup, serverVars
<1> QED BY <1>1, <1>2, <1>3, <1>4 DEF PeerStep

LEMMA InvNext == Inv /\ [Next]_vars => Inv'
<1> SUFFICES ASSUME Inv, [Next]_vars PROVE Inv'
  OBVIOUS
<1>0. CASE Select
  BY <1>0, InvSelect
<1>1. CASE \E c \in Conns : Accept(c) \/ Read(c) \/ ReadClose(c)
  BY <1>1, InvRead
<1>2. CASE \E c \in Conns : AnswerLarge(c) \/ AnswerDm(c) \/ AnswerText(c)
  BY <1>2, InvAnswer
<1>3. CASE GetData \/ DmLine \/ DmShort \/ DmRemote
  BY <1>3, InvPlan
<1>4. CASE ChannelWrite \/ WriteVoid \/ WriteFails \/ Finish
  BY <1>4, InvWrite
<1>5. CASE PeerStep
  BY <1>5, InvPeer
<1>6. CASE UNCHANGED vars
  BY <1>6 DEF vars, wireVars, serverVars, Inv, TypeOK, WireTypeOK, SegmentsOK,
              KeysOK, BufferOK
<1> QED BY <1>0, <1>1, <1>2, <1>3, <1>4, <1>5, <1>6 DEF Next, ServerStep

LEMMA Invariance == Spec => []Inv
BY InvInit, InvNext, PTL DEF Spec

\* The state of the server keeps its types: whatever peers send, connect and
\* hang up, no value of another kind is ever attached, planned or written.
THEOREM TypeCorrect == Spec => []TypeOK
<1>1. Inv => TypeOK
  BY DEF Inv
<1> QED BY <1>1, Invariance, PTL

-----------------------------------------------------------------------------
(* Keys selected at the start of a round stay ready.                       *)

\* A line sent leaves something to read, and touches one inbox only.
LEMMA SendReadable ==
  ASSUME Inv, NEW c \in Conns, NEW l \in Lines, Send(c, l)
  PROVE  /\ inbox'[c] # <<>>
         /\ \A d \in Conns \ {c} : inbox'[d] = inbox[d]
<1> DEFINE q == inbox[c]
           seg(us) == [reqs |-> <<sent[c] + 1>>, units |-> us]
<1>0. inbox \in [Conns -> Seq(Segment)] /\ q \in Seq(Segment) /\ Len(q) \in Nat
  BY LenProperties DEF Inv, TypeOK, WireTypeOK
<1>1. ASSUME NEW s, Arrive(c, <<s>>) PROVE inbox'[c] # <<>>
  BY <1>0, <1>1 DEF Arrive
<1>2. ASSUME NEW s, NEW t, Arrive(c, <<s, t>>) PROVE inbox'[c] # <<>>
  BY <1>0, <1>2 DEF Arrive
<1>3. ASSUME NEW e, q # <<>>, inbox' = [inbox EXCEPT ![c][Len(q)] = e]
      PROVE  inbox'[c] # <<>>
  <2>1. inbox'[c] = [q EXCEPT ![Len(q)] = e]
    BY <1>0, <1>3
  <2>2. DOMAIN q # {}
    BY <1>0, <1>3, EmptySeq, LenProperties
  <2> QED BY <2>1, <2>2
<1>4. \A d \in Conns \ {c} : inbox'[d] = inbox[d]
  BY <1>0 DEF Send, Arrive
<1> HIDE DEF seg
<1> QED BY <1>1, <1>2, <1>3, <1>4 DEF Send, seg

LEMMA SelectedNext ==
  ASSUME Inv, SelectedStillReady, [Next]_vars
  PROVE  SelectedStillReady'
<1> USE DEF SelectedStillReady, KeyReady, Waiting, Readable, Writable
<1>0. /\ \A c \in Conns : outbox[c] \in Seq(Token) /\ Len(outbox[c]) \in Nat
      /\ interest \in [Conns -> {"none", "read", "write"}]
      /\ conn \in [Conns -> {"none", "open", "closed"}]
      /\ peer \in [Conns -> {"absent", "up", "gone"}]
      /\ inbox \in [Conns -> Seq(Segment)] /\ outbox \in [Conns -> Seq(Token)]
  BY LenProperties DEF Inv, TypeOK, WireTypeOK
<1>w. pc \in {"dm", "write"} => writer \in Conns /\ writer \notin selected
  BY DEF Inv, KeysOK
<1>1. CASE Select
  <2>1. \A c \in selected' \cap Conns : KeyReady(c)
    <3> HIDE DEF KeyReady, Waiting
    <3> QED BY <1>1, ListenerAssumption DEF Select, Ready
  <2>2. Listener \in selected' => \E c \in Conns : Waiting(c)
    <3> HIDE DEF KeyReady, Waiting
    <3> QED BY <1>1, ListenerAssumption DEF Select, Ready
  <2>3. UNCHANGED <<peer, inbox, outbox, conn, interest>>
    BY <1>1 DEF Select, wireVars
  <2> QED BY <2>1, <2>2, <2>3
<1>2. ASSUME NEW c \in Conns, Accept(c) PROVE SelectedStillReady'
  BY <1>0, <1>2, ListenerAssumption DEF Accept, wireVars
<1>3. ASSUME NEW c \in Conns, Read(c) PROVE SelectedStillReady'
  <2>1. /\ selected' = selected \ {c} /\ UNCHANGED <<peer, outbox, conn>>
        /\ \A d \in Conns \ {c} : inbox'[d] = inbox[d] /\ interest'[d] = interest[d]
    BY <1>0, <1>3 DEF Read, Reading
  <2> QED BY <2>1
<1>4. ASSUME NEW c \in Conns, ReadClose(c) PROVE SelectedStillReady'
  <2>1. /\ selected' = selected \ {c} /\ UNCHANGED <<peer, outbox>>
        /\ \A d \in Conns \ {c} : /\ inbox'[d] = inbox[d] /\ conn'[d] = conn[d]
                                 /\ interest'[d] = interest[d]
        /\ conn[c] = "open"
    BY <1>0, <1>4 DEF ReadClose, Reading
  <2> QED BY <2>1
<1>5. ASSUME NEW c \in Conns, AnswerLarge(c) \/ AnswerDm(c) \/ AnswerText(c)
      PROVE  SelectedStillReady'
  BY <1>5 DEF AnswerLarge, AnswerDm, AnswerText, Answering, wireVars
<1>6. CASE GetData \/ DmLine \/ DmShort \/ DmRemote
  BY <1>6 DEF GetData, DmLine, DmShort, DmRemote, DmStep, wireVars
<1>7. CASE ChannelWrite
  <2>1. /\ UNCHANGED <<peer, inbox, conn, interest, selected>>
        /\ \A d \in Conns \ {writer} : outbox'[d] = outbox[d]
        /\ writer \notin selected
    BY <1>0, <1>w, <1>7 DEF ChannelWrite, Writing
  <2> QED BY <2>1
<1>8. CASE WriteVoid \/ WriteFails
  BY <1>8 DEF WriteVoid, WriteFails, Writing
<1>9. CASE Finish
  <2>1. /\ UNCHANGED <<peer, inbox, outbox, conn, selected>>
        /\ \A d \in Conns \ {writer} : interest'[d] = interest[d]
        /\ writer \notin selected
    BY <1>0, <1>w, <1>9 DEF Finish, wireVars
  <2> QED BY <2>1
<1>10. ASSUME NEW c \in Conns, Connect(c), UNCHANGED serverVars
       PROVE  SelectedStillReady'
  BY <1>0, <1>10 DEF Connect, serverVars
<1>11. ASSUME NEW c \in Conns, NEW l \in Lines, Send(c, l), UNCHANGED serverVars
       PROVE  SelectedStillReady'
  <2>1. UNCHANGED <<peer, outbox>>
    BY <1>11 DEF Send
  <2> QED BY <2>1, <1>11, SendReadable DEF serverVars
<1>12. ASSUME NEW c \in Conns, Take(c), UNCHANGED serverVars
       PROVE  SelectedStillReady'
  <2>1. Len(Tail(outbox[c])) = Len(outbox[c]) - 1
    BY <1>0, <1>12, HeadTailProperties DEF Take
  <2>2. /\ \A d \in Conns : Len(outbox'[d]) <= Len(outbox[d])
        /\ \A d \in Conns : Len(outbox'[d]) \in Nat
        /\ UNCHANGED <<peer, inbox>>
    BY <1>0, <1>12, <2>1, HeadTailProperties, LenProperties DEF Take
  <2> QED BY <1>0, <1>12, <2>2, SndCapAssumption DEF serverVars
<1>13. ASSUME NEW c \in Conns, Hangup(c), UNCHANGED serverVars
       PROVE  SelectedStillReady'
  <2>a. outbox'[c] = <<>>
    BY <1>0, <1>13 DEF Hangup
  <2>b. Len(<<>>) = 0
    BY EmptySeq, Zenon
  <2>1. Len(outbox'[c]) = 0
    BY <2>a, <2>b, Zenon
  <2>2. /\ \A d \in Conns \ {c} : peer'[d] = peer[d] /\ outbox'[d] = outbox[d]
        /\ peer[c] = "up" /\ peer'[c] = "gone" /\ inbox' = inbox
    BY <1>0, <1>13 DEF Hangup
  <2>3. 0 + 3 <= SndCap
    BY SndCapAssumption
  <2>4. Writable(c)'
    BY <2>1, <2>3, Zenon
  <2>5. \A d \in Conns \ {c} : Writable(d) => Writable(d)'
    BY <2>2, Zenon
  <2>6. UNCHANGED <<conn, interest, selected>>
    BY <1>13 DEF serverVars
  <2> HIDE DEF Writable
  <2> QED BY <2>2, <2>4, <2>5, <2>6
<1>14. CASE UNCHANGED vars
  BY <1>14 DEF vars, wireVars, serverVars
<1> QED
  BY <1>1, <1>2, <1>3, <1>4, <1>5, <1>6, <1>7, <1>8, <1>9, <1>10, <1>11, <1>12,
     <1>13, <1>14 DEF Next, ServerStep, PeerStep

\* A key selected at the start of a round of the server's loop is ready when
\* its turn comes: no accept() returns null, and no client is closed because
\* a read finds nothing.
THEOREM SelectedKeysReady == Spec => []SelectedStillReady
<1>1. Init => SelectedStillReady
  BY DEF Init, ServerInit, SelectedStillReady
<1>2. Inv /\ SelectedStillReady /\ [Next]_vars => SelectedStillReady'
  BY SelectedNext
<1> QED BY <1>1, <1>2, Invariance, PTL DEF Spec

-----------------------------------------------------------------------------
(* The shared flags, when every line has its transfer first.               *)

\* The answer being written is the one the flags ask for.
ModeOK ==
  pc \in {"dm", "write"} =>
    /\ mode = "large" => onlargeTransmit
    /\ mode \in {"dm", "remote"} => onDmTransmit /\ ~onlargeTransmit
    /\ mode = "text" => ~onDmTransmit /\ ~onlargeTransmit
    /\ mode # "none"
    /\ pc = "dm" => mode = "dm"

FlagsInv == FlagsBacked /\ ModeOK

\* In a good segment only the first unit can be a transfer.
LEMMA FirstDecides ==
  ASSUME LinesBinaryFirst, NEW r \in GoodSegment, NEW S, S \subseteq BinaryUnits
  PROVE  /\ Has(r.units, S) <=> r.units[1] \in S
         /\ Has(r.units, S) => Last(r.units, S) = 1
<1> DEFINE us == r.units
<1>1. us \in Seq(Units) /\ us # <<>> /\ BinaryFirst(us)
  BY DEF GoodSegment, Segment
<1>2. Len(us) \in Nat \ {0}
  BY <1>1, EmptySeq
<1>3. \A i \in 1..Len(us) : us[i] \in S => i = 1
  BY <1>1, <1>2, UnitsFacts DEF BinaryFirst
<1> HIDE DEF us
<1>4. Has(us, S) <=> us[1] \in S
  BY <1>2, <1>3 DEF Has
<1>5. ASSUME us[1] \in S PROVE Last(us, S) = 1
  BY <1>2, <1>3, <1>5 DEF Last
<1> QED BY <1>4, <1>5 DEF us

\* What reading a segment does to the flags.
LEMMA SetFlagsFirst ==
  ASSUME LinesBinaryFirst, NEW r \in GoodSegment, SetFlags(r.units)
  PROVE  /\ onlargeTransmit' = (onlargeTransmit \/ r.units[1] = "adc")
         /\ onDmTransmit' = (onDmTransmit \/ r.units[1] \in {"ldm", "rdm"})
         /\ isRemoteTransmit' = IF r.units[1] \in {"ldm", "rdm"}
                                THEN r.units[1] = "rdm" ELSE isRemoteTransmit
<1>1. {"adc"} \subseteq BinaryUnits /\ {"ldm", "rdm"} \subseteq BinaryUnits
  BY DEF BinaryUnits
<1>2. /\ Has(r.units, {"adc"}) <=> r.units[1] \in {"adc"}
      /\ Has(r.units, {"ldm", "rdm"}) <=> r.units[1] \in {"ldm", "rdm"}
      /\ Has(r.units, {"ldm", "rdm"}) => Last(r.units, {"ldm", "rdm"}) = 1
  BY <1>1, FirstDecides
<1> QED BY <1>2 DEF SetFlags

\* Reading: a flag that is raised is backed by the client just read.
LEMMA FlagsRead ==
  ASSUME LinesBinaryFirst, Inv, FlagsInv, NEW c \in Conns, Read(c)
  PROVE  FlagsInv'
<1> DEFINE r == Head(inbox[c])
<1>1. r \in GoodSegment
  BY HeadTailProperties DEF Inv, SegmentsOK, Read
<1>2. /\ interest[c] = "read" /\ pc = "loop" /\ pc' = pc /\ SetFlags(r.units)
      /\ interest \in [Conns -> {"none", "read", "write"}]
      /\ attach \in [Conns -> Segment]
      /\ onlargeTransmit \in BOOLEAN /\ onDmTransmit \in BOOLEAN
      /\ isRemoteTransmit \in BOOLEAN
  BY DEF Read, Reading, Inv, TypeOK
<1>3. \/ r.units = <<"mute">> /\ UNCHANGED <<interest, attach>>
      \/ /\ interest' = [interest EXCEPT ![c] = "write"]
         /\ attach' = [attach EXCEPT ![c] = r]
  BY DEF Read
<1> HIDE DEF r
<1>4. /\ onlargeTransmit' = (onlargeTransmit \/ r.units[1] = "adc")
      /\ onDmTransmit' = (onDmTransmit \/ r.units[1] \in {"ldm", "rdm"})
      /\ isRemoteTransmit' = IF r.units[1] \in {"ldm", "rdm"}
                             THEN r.units[1] = "rdm" ELSE isRemoteTransmit
  BY <1>1, <1>2, SetFlagsFirst
<1>5. CASE r.units = <<"mute">> /\ UNCHANGED <<interest, attach>>
  <2>1. UNCHANGED flagVars
    BY <1>2, <1>4, <1>5 DEF flagVars
  <2> QED BY <1>2, <1>5, <2>1 DEF FlagsInv, FlagsBacked, ModeOK, PendingBinary, flagVars
<1>6. CASE /\ interest' = [interest EXCEPT ![c] = "write"]
           /\ attach' = [attach EXCEPT ![c] = r]
  <2>1. /\ \A d \in Conns \ {c} : PendingBinary(d)' <=> PendingBinary(d)
        /\ PendingBinary(c)' <=> r.units[1] \in BinaryUnits
        /\ ~PendingBinary(c)
    BY <1>2, <1>6 DEF PendingBinary
  <2>2. FlagsBacked'
    <3> USE DEF FlagsInv, FlagsBacked
    <3> HIDE DEF PendingBinary
    <3>1. CASE r.units[1] = "adc"
      BY <2>1, <3>1, <1>4 DEF BinaryUnits
    <3>2. CASE r.units[1] \in {"ldm", "rdm"}
      BY <2>1, <3>2, <1>4 DEF BinaryUnits
    <3>3. CASE r.units[1] \notin {"adc", "ldm", "rdm"}
      BY <2>1, <3>3, <1>4 DEF BinaryUnits
    <3> QED BY <3>1, <3>2, <3>3
  <2> QED BY <2>2, <1>2 DEF FlagsInv, ModeOK
<1> QED BY <1>3, <1>5, <1>6

\* Finishing an answer takes one flag down with the one client answered.
LEMMA FlagsFinish ==
  ASSUME Inv, FlagsInv, Finish
  PROVE  FlagsInv'
<1>1. /\ writer \in Conns /\ pc = "write" /\ pc' = "loop"
      /\ interest \in [Conns -> {"none", "read", "write"}]
      /\ attach \in [Conns -> Segment]
      /\ mode \in {"none", "large", "dm", "remote", "text"}
  BY DEF Finish, Inv, KeysOK, TypeOK
<1>2. \A d \in Conns \ {writer} : PendingBinary(d)' <=> PendingBinary(d)
  BY <1>1 DEF Finish, PendingBinary
<1>3. FlagsBacked'
  <2> USE DEF Finish, FlagsInv, FlagsBacked, ModeOK
  <2> HIDE DEF PendingBinary
  <2>1. CASE mode = "large"
    BY <1>1, <1>2, <2>1
  <2>2. CASE mode \in {"dm", "remote"}
    BY <1>1, <1>2, <2>2
  <2>3. CASE mode = "text"
    BY <1>1, <1>2, <2>3
  <2> QED BY <1>1, <2>1, <2>2, <2>3
<1> QED BY <1>1, <1>3 DEF FlagsInv, ModeOK

LEMMA FlagsNext ==
  ASSUME LinesBinaryFirst, Inv, FlagsInv, [Next]_vars
  PROVE  FlagsInv'
<1> USE DEF FlagsInv, FlagsBacked, ModeOK, PendingBinary, flagVars, answerVars
<1>0. /\ interest \in [Conns -> {"none", "read", "write"}]
      /\ attach \in [Conns -> Segment]
  BY DEF Inv, TypeOK
<1>1. CASE Select
  BY <1>1 DEF Select
<1>2. ASSUME NEW c \in Conns, Accept(c) PROVE FlagsInv'
  <2>1. interest[c] # "write"
    BY <1>2 DEF Accept, Waiting, Inv, KeysOK
  <2>2. \A d \in Conns : PendingBinary(d)' <=> PendingBinary(d)
    BY <1>0, <1>2, <2>1 DEF Accept
  <2>3. UNCHANGED <<pc, flagVars, mode>>
    BY <1>2 DEF Accept
  <2> HIDE DEF PendingBinary
  <2> QED BY <2>2, <2>3
<1>3. ASSUME NEW c \in Conns, Read(c) PROVE FlagsInv'
  BY <1>3, FlagsRead
<1>4. ASSUME NEW c \in Conns, ReadClose(c) PROVE FlagsInv'
  <2>1. interest[c] # "write"
    BY <1>4 DEF ReadClose, Reading
  <2>2. \A d \in Conns : PendingBinary(d)' <=> PendingBinary(d)
    BY <1>0, <1>4, <2>1 DEF ReadClose
  <2>3. UNCHANGED <<pc, flagVars, mode>>
    BY <1>4 DEF ReadClose
  <2> HIDE DEF PendingBinary
  <2> QED BY <2>2, <2>3
<1>5. ASSUME NEW c \in Conns, AnswerLarge(c) \/ AnswerDm(c) \/ AnswerText(c)
      PROVE  FlagsInv'
  BY <1>5 DEF AnswerLarge, AnswerDm, AnswerText, Answering
<1>6. CASE GetData \/ DmLine \/ DmShort \/ DmRemote
  <2>1. /\ UNCHANGED <<interest, attach, flagVars>>
        /\ \/ UNCHANGED <<pc, mode>>
           \/ pc = "dm" /\ pc' \in {"write", "dead"} /\ mode' \in {"dm", "remote"}
           \/ pc' = "dead"
    BY <1>6 DEF GetData, DmLine, DmShort, DmRemote, DmStep
  <2> QED BY <2>1
<1>7. CASE ChannelWrite \/ WriteVoid \/ WriteFails
  BY <1>7 DEF ChannelWrite, WriteVoid, WriteFails, Writing
<1>8. CASE Finish
  BY <1>8, FlagsFinish
<1>9. CASE PeerStep
  BY <1>9 DEF PeerStep, serverVars
<1>10. CASE UNCHANGED vars
  BY <1>10 DEF vars, serverVars
<1> QED
  BY <1>1, <1>2, <1>3, <1>4, <1>5, <1>6, <1>7, <1>8, <1>9, <1>10
  DEF Next, ServerStep

LEMMA FlagsInvariance ==
  ASSUME LinesBinaryFirst PROVE Spec => []FlagsInv
<1>1. Init => FlagsInv
  BY DEF Init, ServerInit, FlagsInv, FlagsBacked, ModeOK
<1>2. Inv /\ FlagsInv /\ [Next]_vars => FlagsInv'
  BY FlagsNext
<1> QED BY <1>1, <1>2, Invariance, PTL DEF Spec

\* If clients put a transfer only at the start of a line, as the python client
\* does, a flag set for one client's transfer never outlives the clients that
\* wait for one, so it cannot reach a client that comes later.
THEOREM FlagsAlwaysBacked ==
  ASSUME LinesBinaryFirst PROVE Spec => []FlagsBacked
<1>1. FlagsInv => FlagsBacked
  BY DEF FlagsInv
<1> QED BY <1>1, FlagsInvariance, PTL

-----------------------------------------------------------------------------
(* A lone client.                                                          *)

PeersOK == \A c \in Conns : conn[c] # "none" => peer[c] # "absent"

\* The flags say exactly what kind of answer the waiting client asked for.
FlagsExact ==
  \A c \in Conns : interest[c] = "write" =>
    /\ onlargeTransmit <=> attach[c].units[1] = "adc"
    /\ onDmTransmit <=> attach[c].units[1] \in {"ldm", "rdm"}
    /\ isRemoteTransmit <=> attach[c].units[1] = "rdm"

\* All tokens written and planned are of the right kind.
KindToken == {t \in Token : InKind(t)}
KindOK == /\ outbox \in [Conns -> Seq(KindToken)]
          /\ plan \in Seq(WriteOf(KindToken))

LoneInv == Lone => FlagsExact /\ KindOK /\ pc # "dead"

OneWaiter ==
  \A c, d \in Conns : interest[c] = "write" /\ interest[d] = "write" => c = d

LEMMA PeersNext == Inv /\ PeersOK /\ [Next]_vars => PeersOK'
<1> SUFFICES ASSUME Inv, PeersOK, [Next]_vars PROVE PeersOK'
  OBVIOUS
<1> USE DEF PeersOK
<1>0. /\ conn \in [Conns -> {"none", "open", "closed"}]
      /\ peer \in [Conns -> {"absent", "up", "gone"}]
  BY DEF Inv, TypeOK, WireTypeOK
<1>1. ASSUME NEW c \in Conns, Accept(c) PROVE PeersOK'
  BY <1>0, <1>1 DEF Accept, Waiting, wireVars
<1>2. ASSUME NEW c \in Conns, ReadClose(c) PROVE PeersOK'
  BY <1>0, <1>2 DEF ReadClose
<1>3. CASE UNCHANGED <<conn, peer>>
  BY <1>3
<1>4. CASE PeerStep
  BY <1>0, <1>4 DEF PeerStep, Connect, Send, Take, Hangup, serverVars
<1>5. CASE Select \/ GetData \/ DmLine \/ DmShort \/ DmRemote
  BY <1>3, <1>5 DEF Select, GetData, DmLine, DmShort, DmRemote, DmStep, wireVars
<1>6. ASSUME NEW c \in Conns,
             Read(c) \/ AnswerLarge(c) \/ AnswerDm(c) \/ AnswerText(c)
      PROVE  PeersOK'
  BY <1>3, <1>6 DEF Read, AnswerLarge, AnswerDm, AnswerText, Answering, wireVars
<1>7. CASE ChannelWrite \/ WriteVoid \/ WriteFails \/ Finish
  BY <1>3, <1>7 DEF ChannelWrite, WriteVoid, WriteFails, Writing, Finish, wireVars
<1>8. CASE UNCHANGED vars
  BY <1>3, <1>8 DEF vars, wireVars, serverVars
<1> QED BY <1>1, <1>2, <1>4, <1>5, <1>6, <1>7, <1>8 DEF Next, ServerStep

\* Lone is lost for good when a second client connects or the first leaves.
LEMMA LoneBefore ==
  ASSUME Inv, [Next]_vars, Lone' PROVE Lone
<1> DEFINE Kept == \A c \in Conns :
                     /\ peer[c] = "gone" => peer'[c] = "gone"
                     /\ peer[c] = "up" => peer'[c] \in {"up", "gone"}
<1>0. peer \in [Conns -> {"absent", "up", "gone"}]
  BY DEF Inv, TypeOK, WireTypeOK
<1>1. UNCHANGED peer => Kept
  BY <1>0
<1>2. ASSUME NEW c \in Conns, Connect(c) \/ Hangup(c) PROVE Kept
  BY <1>0, <1>2 DEF Connect, Hangup
<1> HIDE DEF Kept
<1>3. CASE PeerStep
  <2>1. ASSUME NEW c \in Conns, NEW l \in Lines, Send(c, l) PROVE Kept
    BY <1>1, <2>1 DEF Send
  <2>2. ASSUME NEW c \in Conns, Take(c) PROVE Kept
    BY <1>1, <2>2 DEF Take
  <2>3. Kept
    BY <1>2, <1>3, <2>1, <2>2 DEF PeerStep
  <2> QED BY <1>0, <2>3 DEF Kept, Lone
<1>4. ASSUME UNCHANGED peer PROVE Lone
  BY <1>4 DEF Lone
<1>5. CASE ServerStep
  <2>1. ASSUME NEW c \in Conns,
               \/ Accept(c) \/ Read(c) \/ ReadClose(c)
               \/ AnswerLarge(c) \/ AnswerDm(c) \/ AnswerText(c)
        PROVE  Lone
    BY <1>4, <2>1 DEF Accept, Read, ReadClose, AnswerLarge, AnswerDm, AnswerText,
                      Answering, wireVars
  <2>2. CASE Select \/ GetData \/ DmLine \/ DmShort \/ DmRemote
    BY <1>4, <2>2 DEF Select, GetData, DmLine, DmShort, DmRemote, DmStep, wireVars
  <2>3. CASE ChannelWrite \/ WriteVoid \/ WriteFails \/ Finish
    BY <1>4, <2>3 DEF ChannelWrite, WriteVoid, WriteFails, Writing, Finish, wireVars
  <2> QED BY <1>5, <2>1, <2>2, <2>3 DEF ServerStep
<1>6. CASE UNCHANGED vars
  BY <1>4, <1>6 DEF vars, wireVars
<1> QED BY <1>3, <1>5, <1>6 DEF Next

\* Only the one client there is can be waiting for an answer.
LEMMA OneWaits ==
  ASSUME Inv, PeersOK, Lone, NEW c \in Conns, NEW d \in Conns,
         interest[c] # "none", interest[d] # "none"
  PROVE  c = d
<1>1. peer[c] = "up" /\ peer[d] = "up"
  BY DEF Inv, TypeOK, WireTypeOK, KeysOK, PeersOK, Lone
<1> QED BY <1>1 DEF Lone

\* What may be written for each kind of request.
LEMMA KindOfToken ==
  ASSUME NEW r \in Segment, NEW n \in Nat
  PROVE  /\ r.units[1] = "adc" =>
              \A t \in {"hash", "len", "nl", "data"} : Tok(t, r, n) \in KindToken
         /\ r.units[1] = "rdm" =>
              \A t \in {"hash", "len", "nl", "data", "text"} :
                Tok(t, r, n) \in KindToken
         /\ r.units[1] # "adc" => Tok("text", r, n) \in KindToken
<1>1. \A t \in {"hash", "len", "nl", "data", "text"} :
        /\ Tok(t, r, n) \in Token
        /\ Tok(t, r, n).of = r /\ Tok(t, r, n).tok = t
  BY TokenType DEF Tok
<1>2. CASE r.units[1] = "adc"
  BY <1>1, <1>2 DEF KindToken, InKind
<1>3. CASE r.units[1] = "rdm"
  BY <1>1, <1>3 DEF KindToken, InKind
<1>4. CASE r.units[1] \notin {"adc", "rdm"}
  BY <1>1, <1>4 DEF KindToken, InKind
<1> QED BY <1>2, <1>3, <1>4

\* While nobody waits no flag is set, and reading a segment sets the flags for
\* it exactly.
LEMMA KindRead ==
  ASSUME LinesBinaryFirst, Inv, FlagsInv, NEW c \in Conns, Read(c),
         \A d \in Conns : interest[d] # "write"
  PROVE  FlagsExact'
<1> DEFINE r == Head(inbox[c])
<1>1. r \in GoodSegment
  BY HeadTailProperties DEF Inv, SegmentsOK, Read
<1>2. /\ interest[c] = "read" /\ SetFlags(r.units)
      /\ interest \in [Conns -> {"none", "read", "write"}]
      /\ attach \in [Conns -> Segment]
      /\ onlargeTransmit \in BOOLEAN /\ onDmTransmit \in BOOLEAN
      /\ isRemoteTransmit \in BOOLEAN
  BY DEF Read, Reading, Inv, TypeOK
<1>4. ~onlargeTransmit /\ ~onDmTransmit /\ ~isRemoteTransmit
  BY DEF FlagsInv, FlagsBacked, PendingBinary
<1>5. \/ r.units = <<"mute">> /\ UNCHANGED <<interest, attach>>
      \/ /\ interest' = [interest EXCEPT ![c] = "write"]
         /\ attach' = [attach EXCEPT ![c] = r]
  BY DEF Read
<1> HIDE DEF r
<1>6. /\ onlargeTransmit' = (r.units[1] = "adc")
      /\ onDmTransmit' = (r.units[1] \in {"ldm", "rdm"})
      /\ isRemoteTransmit' = (r.units[1] = "rdm")
  BY <1>1, <1>2, <1>4, SetFlagsFirst
<1>7. ASSUME NEW d \in Conns, interest'[d] = "write"
      PROVE  d = c /\ attach'[d] = r
  BY <1>2, <1>5, <1>7
<1> QED BY <1>6, <1>7 DEF FlagsExact

\* An answer is planned in its kind when the flags are exact.
LEMMA KindPlan ==
  ASSUME Inv, FlagsInv, FlagsExact, KindOK, GetData \/ DmLine \/ DmRemote
  PROVE  plan' \in Seq(WriteOf(KindToken))
<1> DEFINE r == attach[writer]
<1>1. writer \in Conns /\ interest[writer] = "write" /\ r \in Segment
  BY DEF GetData, DmLine, DmRemote, DmStep, Inv, KeysOK, TypeOK
<1>2. /\ onlargeTransmit <=> r.units[1] = "adc"
      /\ onDmTransmit <=> r.units[1] \in {"ldm", "rdm"}
      /\ isRemoteTransmit <=> r.units[1] = "rdm"
  BY <1>1 DEF FlagsExact
<1>3. ASSUME r.units[1] \in {"adc", "rdm"}, NEW n \in Nat
      PROVE  Frame(r, n) \in Seq(WriteOf(KindToken))
  BY <1>1, <1>3, KindOfToken, FrameType
<1>4. ASSUME r.units[1] # "adc"
      PROVE  Line(r) \in Seq(WriteOf(KindToken))
  BY <1>1, <1>4, KindOfToken, LineType
<1>5. ASSUME r.units[1] = "adc"
      PROVE  NullFrame(r) \in Seq(WriteOf(KindToken))
  BY <1>1, <1>5, KindOfToken, NullFrameType
<1> HIDE DEF r
<1>6. CASE GetData
  <2>1. r.units[1] = "adc"
    BY <1>2, <1>6 DEF GetData, FlagsInv, ModeOK
  <2>2. PICK after \in Seq(WriteOf(KindToken)) :
          \/ \E n \in Nat : plan' = Frame(r, n) \o after
          \/ plan' = NullFrame(r) \o after
    BY <1>6, <2>1, <1>5, EmptySeq, AdcSizesAssumption DEF GetData, r
  <2>3. PICK first \in Seq(WriteOf(KindToken)) : plan' = first \o after
    BY <2>1, <2>2, <1>3, <1>5
  <2> QED BY <2>3, ConcatProperties
<1>7. CASE DmLine
  <2>1. r.units[1] # "adc"
    BY <1>2, <1>7 DEF DmLine, DmStep, FlagsInv, ModeOK
  <2> QED BY <1>7, <2>1, <1>4 DEF DmLine, r
<1>8. CASE DmRemote
  <2>1. r.units[1] = "rdm"
    BY <1>2, <1>8 DEF DmRemote
  <2> QED BY <1>8, <2>1, <1>3, DmSizesAssumption DEF DmRemote, r
<1> QED BY <1>6, <1>7, <1>8

\* Kinds are kept as long as a request is only read when nobody waits.
LEMMA KindNext ==
  ASSUME LinesBinaryFirst, Inv, FlagsInv, OneWaiter, FlagsExact, KindOK, [Next]_vars,
         \A c, d \in Conns : Read(c) => interest[d] # "write"
  PROVE  FlagsExact' /\ KindOK'
<1>t. /\ interest \in [Conns -> {"none", "read", "write"}]
      /\ attach \in [Conns -> Segment]
  BY DEF Inv, TypeOK
<1>1. CASE Select \/ UNCHANGED vars
  BY <1>1 DEF Select, FlagsExact, KindOK, flagVars, answerVars, vars,
              wireVars, serverVars
<1>2. ASSUME NEW c \in Conns, Accept(c) \/ ReadClose(c) PROVE FlagsExact' /\ KindOK'
  <2>1. /\ UNCHANGED <<flagVars, outbox, plan>>
        /\ \A d \in Conns : interest'[d] = "write" =>
              interest[d] = "write" /\ attach'[d] = attach[d]
    BY <1>2, <1>t DEF Accept, ReadClose, answerVars, wireVars
  <2> QED BY <2>1 DEF FlagsExact, KindOK, flagVars
<1>3. ASSUME NEW c \in Conns, Read(c) PROVE FlagsExact' /\ KindOK'
  <2>1. FlagsExact'
    BY <1>3, KindRead
  <2> QED BY <1>3, <2>1 DEF Read, KindOK, answerVars
<1>4. ASSUME NEW c \in Conns, AnswerLarge(c) \/ AnswerDm(c) \/ AnswerText(c)
      PROVE  FlagsExact' /\ KindOK'
  <2>1. UNCHANGED <<outbox, interest, attach, flagVars>> /\ interest[c] = "write"
    BY <1>4 DEF AnswerLarge, AnswerDm, AnswerText, Answering, wireVars
  <2>2. plan' \in Seq(WriteOf(KindToken))
    <3>1. CASE AnswerLarge(c) \/ AnswerDm(c)
      BY <3>1, EmptySeq DEF AnswerLarge, AnswerDm
    <3>2. CASE AnswerText(c)
      <4>1. attach[c].units[1] # "adc" /\ attach[c] \in Segment
        BY <1>t, <2>1, <3>2 DEF AnswerText, FlagsExact
      <4>2. Line(attach[c]) \in Seq(WriteOf(KindToken))
        BY <4>1, KindOfToken, LineType
      <4> QED BY <3>2, <4>2 DEF AnswerText
    <3> QED BY <1>4, <3>1, <3>2
  <2> QED BY <2>1, <2>2 DEF FlagsExact, KindOK, flagVars
<1>5. CASE GetData \/ DmLine \/ DmRemote
  <2>1. plan' \in Seq(WriteOf(KindToken))
    BY <1>5, KindPlan
  <2>2. UNCHANGED <<outbox, interest, attach, flagVars>>
    BY <1>5 DEF GetData, DmLine, DmRemote, DmStep, wireVars
  <2> QED BY <2>1, <2>2 DEF FlagsExact, KindOK, flagVars
<1>6. CASE DmShort
  BY <1>6 DEF DmShort, DmStep, FlagsExact, KindOK, wireVars, flagVars
<1>7. CASE ChannelWrite
  <2>1. writer \in Conns
    BY <1>7 DEF ChannelWrite, Writing, Inv, KeysOK
  <2>2. KindOK'
    BY <1>7, <2>1, ChannelWriteType DEF KindOK, Inv
  <2> QED BY <1>7, <2>2 DEF ChannelWrite, Writing, FlagsExact, flagVars
<1>8. CASE WriteVoid \/ WriteFails
  <2>1. UNCHANGED <<outbox, interest, attach, flagVars>>
    BY <1>8 DEF WriteVoid, WriteFails, Writing
  <2>2. plan' \in Seq(WriteOf(KindToken))
    <3>1. CASE WriteVoid
      <4>1. Head(plan) \in Write /\ plan # <<>>
        BY <3>1, HeadTailProperties DEF WriteVoid, Writing, Inv, TypeOK
      <4>2. Offered(Head(plan)) \in Nat
        BY <4>1, DataBlockAssumption, LenProperties DEF Offered, Smaller, Write, WriteOf
      <4> QED BY <3>1, <4>1, <4>2, PlanAfterType DEF WriteVoid, KindOK
    <3>2. CASE WriteFails /\ mode = "remote"
      <4>1. /\ writer \in Conns /\ interest[writer] = "write" /\ ~onlargeTransmit
            /\ onDmTransmit
        BY <3>2 DEF WriteFails, Writing, Inv, KeysOK, FlagsInv, ModeOK
      <4>2. attach[writer].units[1] # "adc" /\ attach[writer] \in Segment
        BY <1>t, <4>1 DEF FlagsExact
      <4>3. Line(attach[writer]) \in Seq(WriteOf(KindToken))
        BY <4>2, KindOfToken, LineType
      <4> QED BY <3>2, <4>3 DEF WriteFails
    <3>3. CASE WriteFails /\ mode # "remote"
      BY <3>3 DEF WriteFails, KindOK
    <3> QED BY <1>8, <3>1, <3>2, <3>3
  <2> QED BY <2>1, <2>2 DEF FlagsExact, KindOK, flagVars
<1>9. CASE Finish
  <2>1. writer \in Conns /\ interest[writer] = "write"
    BY <1>9 DEF Finish, Inv, KeysOK
  <2>2. \A d \in Conns : interest'[d] # "write"
    BY <1>t, <1>9, <2>1 DEF Finish, OneWaiter
  <2> QED BY <1>9, <2>2 DEF Finish, FlagsExact, KindOK, wireVars
<1>10. CASE PeerStep
  <2>1. UNCHANGED serverVars
    BY <1>10 DEF PeerStep
  <2>2. outbox' \in [Conns -> Seq(KindToken)]
    <3>0. outbox \in [Conns -> Seq(KindToken)]
      BY DEF KindOK
    <3>1. ASSUME NEW c \in Conns, Take(c) PROVE outbox' \in [Conns -> Seq(KindToken)]
      BY <3>0, <3>1, HeadTailProperties DEF Take
    <3>2. ASSUME NEW c \in Conns, Hangup(c) PROVE outbox' \in [Conns -> Seq(KindToken)]
      BY <3>0, <3>2, EmptySeq DEF Hangup
    <3> QED BY <1>10, <3>0, <3>1, <3>2 DEF PeerStep, Connect, Send
  <2> QED BY <2>1, <2>2 DEF serverVars, FlagsExact, KindOK
<1> QED
  BY <1>1, <1>2, <1>3, <1>4, <1>5, <1>6, <1>7, <1>8, <1>9, <1>10
  DEF Next, ServerStep

LEMMA LoneNext ==
  ASSUME LinesBinaryFirst, Inv, FlagsInv, PeersOK, LoneInv, [Next]_vars
  PROVE  LoneInv'
<1> SUFFICES ASSUME Lone' PROVE FlagsExact' /\ KindOK' /\ pc' # "dead"
  BY DEF LoneInv
<1>0. Lone /\ FlagsExact /\ KindOK /\ pc # "dead"
  BY LoneBefore DEF LoneInv
<1>1. OneWaiter
  BY <1>0, OneWaits DEF OneWaiter
<1>2. \A c, d \in Conns : Read(c) => interest[d] # "write"
  BY <1>0, OneWaits DEF Read, Reading
<1>3. FlagsExact' /\ KindOK'
  BY <1>0, <1>1, <1>2, KindNext
<1>4. pc' # "dead"
  <2>1. CASE DmShort
    <3>1. writer \in Conns /\ interest[writer] = "write" /\ onDmTransmit
      BY <2>1 DEF DmShort, DmStep, Inv, KeysOK, FlagsInv, ModeOK
    <3>2. attach[writer].units[1] \in {"ldm", "rdm"}
      BY <1>0, <3>1 DEF FlagsExact
    <3>3. 1 \in 1..Len(attach[writer].units)
      <4>1. attach[writer].units \in Seq(Units) /\ attach[writer].units # <<>>
        BY <3>1 DEF Inv, SegmentsOK, GoodSegment, Segment
      <4>2. Len(attach[writer].units) \in Nat \ {0}
        BY <4>1, EmptySeq, LenProperties
      <4> QED BY <4>2
    <3> QED BY <2>1, <3>2, <3>3 DEF DmShort
  <2>2. CASE WriteVoid \/ WriteFails
    <3>1. writer \in Conns /\ peer[writer] = "gone"
      BY <2>2 DEF WriteVoid, WriteFails, Writing, Inv, KeysOK
    <3> QED BY <1>0, <3>1 DEF Lone
  <2>3. ASSUME NEW c \in Conns,
               \/ Accept(c) \/ Read(c) \/ ReadClose(c)
               \/ AnswerLarge(c) \/ AnswerDm(c) \/ AnswerText(c)
        PROVE  pc' # "dead"
    BY <1>0, <2>3 DEF Accept, Read, ReadClose, AnswerLarge, AnswerDm, AnswerText
  <2>4. CASE Select \/ GetData \/ DmLine \/ DmRemote \/ ChannelWrite \/ Finish
    BY <1>0, <2>4 DEF Select, GetData, DmLine, DmRemote, ChannelWrite, Finish
  <2>5. CASE PeerStep \/ UNCHANGED vars
    BY <1>0, <2>5 DEF PeerStep, serverVars, vars
  <2> QED BY <2>1, <2>2, <2>3, <2>4, <2>5 DEF Next, ServerStep
<1> QED BY <1>3, <1>4

LEMMA LoneInvariance ==
  ASSUME LinesBinaryFirst PROVE Spec => []LoneInv
<1>1. Init => PeersOK /\ LoneInv
  <2> SUFFICES ASSUME Init PROVE PeersOK /\ LoneInv
    OBVIOUS
  <2>1. KindOK
    BY EmptySeq DEF Init, WireInit, ServerInit, KindOK
  <2> QED BY <2>1 DEF Init, WireInit, ServerInit, PeersOK, LoneInv, FlagsExact
<1>2. Inv /\ PeersOK /\ [Next]_vars => PeersOK'
  BY PeersNext
<1>3. Inv /\ FlagsInv /\ PeersOK /\ LoneInv /\ [Next]_vars => LoneInv'
  BY LoneNext
<1> QED BY <1>1, <1>2, <1>3, Invariance, FlagsInvariance, PTL DEF Spec

\* A lone client that puts transfers first in its lines is answered as it was
\* read: a flag raised by one read is never in force for the answer to another.
\* (What a read makes of a command that TCP glued or cut is another matter.)
THEOREM LoneAnsweredAsRead ==
  ASSUME LinesBinaryFirst PROVE Spec => []AnsweredAsRead
<1>1. LoneInv => AnsweredAsRead
  <2> SUFFICES ASSUME LoneInv, Lone, NEW c \in Conns, NEW i \in 1..Len(outbox[c])
               PROVE  InKind(outbox[c][i])
    BY DEF AnsweredAsRead
  <2>1. outbox[c] \in Seq(KindToken)
    BY DEF LoneInv, KindOK
  <2>2. outbox[c][i] \in KindToken
    BY <2>1, ElementOfSeq
  <2> QED BY <2>2 DEF KindToken
<1> QED BY <1>1, LoneInvariance, PTL

\* And it cannot end the server thread.
THEOREM LoneClientNeverKills ==
  ASSUME LinesBinaryFirst PROVE Spec => []LoneClientKeepsServer
<1>1. LoneInv => LoneClientKeepsServer
  BY DEF LoneInv, LoneClientKeepsServer
<1> QED BY <1>1, LoneInvariance, PTL

=============================================================================
