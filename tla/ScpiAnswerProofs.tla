------------------------- MODULE ScpiAnswerProofs -------------------------
(***************************************************************************)
(* Theorems about the answers of the SCPI server, for any number of        *)
(* clients, buffer sizes and data sizes: frames are written whole, and     *)
(* answers come in the order of the requests.  Both rest on the inductive  *)
(* invariant of ScpiServerProofs.                                          *)
(***************************************************************************)
EXTENDS ScpiServerProofs

-----------------------------------------------------------------------------
(* Frames are written whole: the tokens in the buffer towards a peer and   *)
(* those the plan has still to write make one stream that channel.write    *)
(* does not change, however much it takes.                                 *)

\* Nothing of a frame is missing in s, or too much.
Whole(s) ==
  \A i \in 1..Len(s) :
    /\ s[i].tok = "hash" => i < Len(s) /\ s[i + 1].tok = "len"
    /\ s[i].tok = "len" /\ s[i].n > 0 =>
         /\ i + 1 + s[i].n <= Len(s) /\ s[i + 1].tok = "nl"
         /\ \A j \in 1..s[i].n : s[i + 1 + j].tok = "data"
    /\ s[i].tok = "len" /\ i + s[i].n + 2 <= Len(s) =>
         s[i + s[i].n + 2].tok # "data"

\* What an answer starts with.
NoDataFirst(t) == \A i \in 1..Len(t) : i <= 2 => t[i].tok # "data"

LEMMA ToksType ==
  ASSUME NEW p \in Seq(Write), NEW i \in Nat \ {0}
  PROVE  Toks(p, i) \in Seq(Token)
<1>1. CASE i <= Len(p)
  <2>1. i \in 1..Len(p)
    BY <1>1, LenProperties
  <2>2. p[i] \in Write
    BY <2>1, ElementOfSeq
  <2> QED BY <1>1, <2>2 DEF Toks, Write
<1>2. CASE ~(i <= Len(p))
  BY <1>2, EmptySeq DEF Toks
<1> QED BY <1>1, <1>2

LEMMA FlatType ==
  ASSUME NEW p \in Seq(Write)
  PROVE  Flat(p) \in Seq(Token)
<1>1. /\ Toks(p, 1) \in Seq(Token) /\ Toks(p, 2) \in Seq(Token)
      /\ Toks(p, 3) \in Seq(Token) /\ Toks(p, 4) \in Seq(Token)
  BY ToksType
<1> QED BY <1>1, ConcatProperties DEF Flat

LEMMA FlatEmpty == Flat(<<>>) = <<>>
<1>1. \A i \in Nat \ {0} : Toks(<<>>, i) = <<>>
  BY EmptySeq DEF Toks
<1>2. <<>> \in Seq(Token) /\ <<>> \o <<>> = <<>>
  BY EmptySeq, ConcatEmptySeq
<1> QED BY <1>1, <1>2 DEF Flat

\* The first write of a plan, and the others.
LEMMA FlatFirst ==
  ASSUME NEW p \in Seq(Write), NEW q \in Seq(Write), Len(p) = Len(q) + 1, Len(p) <= 4,
         \A i \in 1..Len(q) : q[i] = p[i + 1]
  PROVE  Flat(p) = p[1].toks \o Flat(q)
<1> DEFINE lp == Len(p)
           lq == Len(q)
<1>1. lp \in Nat /\ lq \in Nat /\ lp = lq + 1 /\ lp <= 4
  BY LenProperties
<1>2. \A i \in 1..lq : q[i] = p[i + 1]
  OBVIOUS
<1> HIDE DEF lp, lq
<1>3. ASSUME NEW i \in {1, 2, 3} PROVE Toks(q, i) = Toks(p, i + 1)
  <2>1. CASE i <= lq
    <3>1. i \in 1..lq /\ i + 1 <= lp
      BY <1>1, <2>1
    <3> QED BY <1>2, <3>1 DEF Toks, lp, lq
  <2>2. CASE ~(i <= lq)
    <3>1. ~(i + 1 <= lp)
      BY <1>1, <2>2
    <3> QED BY <2>2, <3>1 DEF Toks, lp, lq
  <2> QED BY <2>1, <2>2
<1>4. Toks(q, 4) = <<>>
  <2>1. ~(4 <= lq)
    BY <1>1
  <2> QED BY <2>1 DEF Toks, lq
<1>5. Toks(p, 1) = p[1].toks
  <2>1. 1 <= lp
    BY <1>1
  <2> QED BY <2>1 DEF Toks, lp
<1>6. Toks(q, 3) \o Toks(q, 4) = Toks(q, 3)
  <2>1. Toks(q, 3) \in Seq(Token)
    BY ToksType
  <2> QED BY <1>4, <2>1, ConcatEmptySeq
<1>7. Flat(q) = Toks(p, 2) \o (Toks(p, 3) \o Toks(p, 4))
  <2>1. 1 + 1 = 2 /\ 2 + 1 = 3 /\ 3 + 1 = 4
    OBVIOUS
  <2>2. Toks(q, 1) = Toks(p, 2) /\ Toks(q, 2) = Toks(p, 3) /\ Toks(q, 3) = Toks(p, 4)
    BY <1>3, <2>1, Zenon
  <2> QED BY <1>6, <2>2, Zenon DEF Flat
<1> QED BY <1>5, <1>7 DEF Flat

\* What comes after some tokens of whole frames is whole.
LEMMA WholeSuffix ==
  ASSUME NEW a \in Seq(Token), NEW b \in Seq(Token), Whole(a \o b)
  PROVE  Whole(b)
<1> DEFINE s == a \o b
           la == Len(a)
           lb == Len(b)
           ls == Len(s)
<1>1. la \in Nat /\ lb \in Nat /\ ls = la + lb
  BY LenProperties, ConcatProperties
<1>2. \A i \in 1..lb : s[i + la] = b[i]
  <2> SUFFICES ASSUME NEW i \in 1..lb PROVE s[i + la] = b[i]
    OBVIOUS
  <2>1. s[i + la] = IF i + la <= la THEN a[i + la] ELSE b[i + la - la]
    <3>1. \A k \in 1..la + lb : s[k] = IF k <= la THEN a[k] ELSE b[k - la]
      BY ConcatProperties
    <3> HIDE DEF s, la, lb
    <3> QED BY <1>1, <3>1
  <2> HIDE DEF s, la, lb
  <2> QED BY <1>1, <2>1
<1>3. \A i \in 1..lb : b[i] \in Token
  BY ElementOfSeq
<1>4. \A i \in 1..lb : b[i].n \in Nat
  BY <1>3 DEF Token
<1>5. Whole(s)
  OBVIOUS
<1> SUFFICES ASSUME NEW i \in 1..lb
             PROVE  /\ b[i].tok = "hash" => i < lb /\ b[i + 1].tok = "len"
                    /\ b[i].tok = "len" /\ b[i].n > 0 =>
                         /\ i + 1 + b[i].n <= lb /\ b[i + 1].tok = "nl"
                         /\ \A j \in 1..b[i].n : b[i + 1 + j].tok = "data"
                    /\ b[i].tok = "len" /\ i + b[i].n + 2 <= lb =>
                         b[i + b[i].n + 2].tok # "data"
  BY DEF Whole
<1> DEFINE n == b[i].n
           k == i + la
<1>6. /\ s[k].tok = "hash" => k < ls /\ s[k + 1].tok = "len"
      /\ s[k].tok = "len" /\ s[k].n > 0 =>
           /\ k + 1 + s[k].n <= ls /\ s[k + 1].tok = "nl"
           /\ \A j \in 1..s[k].n : s[k + 1 + j].tok = "data"
      /\ s[k].tok = "len" /\ k + s[k].n + 2 <= ls => s[k + s[k].n + 2].tok # "data"
  <2>1. k \in 1..ls
    <3> HIDE DEF s, la, lb, ls
    <3> QED BY <1>1
  <2> QED BY <1>5, <2>1 DEF Whole
<1>7. s[k] = b[i] /\ n \in Nat
  BY <1>2, <1>4
<1> HIDE DEF s, la, lb, ls, k
<1>8. ASSUME b[i].tok = "hash" PROVE i < lb /\ b[i + 1].tok = "len"
  <2>1. k < ls /\ s[k + 1].tok = "len"
    BY <1>6, <1>7, <1>8
  <2>2. i < lb /\ i + 1 \in 1..lb /\ k + 1 = (i + 1) + la
    BY <1>1, <2>1 DEF k
  <2> QED BY <1>2, <2>1, <2>2
<1>9. ASSUME b[i].tok = "len", n > 0
      PROVE  /\ i + 1 + n <= lb /\ b[i + 1].tok = "nl"
             /\ \A j \in 1..n : b[i + 1 + j].tok = "data"
  <2>1. /\ k + 1 + n <= ls /\ s[k + 1].tok = "nl"
        /\ \A j \in 1..n : s[k + 1 + j].tok = "data"
    BY <1>6, <1>7, <1>9
  <2> HIDE DEF n
  <2>a. n \in Nat /\ k + 1 + n <= ls /\ k = i + la
    BY <1>7, <2>1 DEF k
  <2>2. i + 1 + n <= lb /\ i + 1 \in 1..lb /\ k + 1 = (i + 1) + la
    BY <1>1, <2>a
  <2>3. b[i + 1].tok = "nl"
    BY <1>2, <2>1, <2>2
  <2>4. ASSUME NEW j \in 1..n PROVE b[i + 1 + j].tok = "data"
    <3>1. i + 1 + j \in 1..lb /\ k + 1 + j = (i + 1 + j) + la
      BY <1>1, <1>7, <2>2 DEF k
    <3> QED BY <1>2, <2>1, <3>1
  <2> QED BY <2>2, <2>3, <2>4
<1>10. ASSUME b[i].tok = "len", i + n + 2 <= lb
       PROVE  b[i + n + 2].tok # "data"
  <2> HIDE DEF n
  <2>1. i + n + 2 \in 1..lb /\ k + n + 2 = (i + n + 2) + la /\ k + n + 2 <= ls
    BY <1>1, <1>7, <1>10 DEF k
  <2>2. s[k + n + 2].tok # "data"
    BY <1>6, <1>7, <1>10, <2>1 DEF n
  <2> QED BY <1>2, <2>1, <2>2
<1> QED BY <1>8, <1>9, <1>10

\* Whole frames may follow whole frames.
LEMMA WholeAppend ==
  ASSUME NEW a \in Seq(Token), NEW b \in Seq(Token), Whole(a), Whole(b),
         NoDataFirst(b)
  PROVE  Whole(a \o b)
<1> DEFINE s == a \o b
           la == Len(a)
           lb == Len(b)
           ls == Len(s)
<1>1. la \in Nat /\ lb \in Nat /\ ls = la + lb
  BY LenProperties, ConcatProperties
<1>2. \A i \in 1..la + lb : s[i] = IF i <= la THEN a[i] ELSE b[i - la]
  BY ConcatProperties
<1>3. /\ \A i \in 1..la : a[i] \in Token
      /\ \A i \in 1..lb : b[i] \in Token
  BY ElementOfSeq
<1>4. /\ \A i \in 1..la : a[i].n \in Nat
      /\ \A i \in 1..lb : b[i].n \in Nat
  BY <1>3 DEF Token
<1>5. \A i \in 1..lb : i <= 2 => b[i].tok # "data"
  BY DEF NoDataFirst
<1> SUFFICES ASSUME NEW i \in 1..ls
             PROVE  /\ s[i].tok = "hash" => i < ls /\ s[i + 1].tok = "len"
                    /\ s[i].tok = "len" /\ s[i].n > 0 =>
                         /\ i + 1 + s[i].n <= ls /\ s[i + 1].tok = "nl"
                         /\ \A j \in 1..s[i].n : s[i + 1 + j].tok = "data"
                    /\ s[i].tok = "len" /\ i + s[i].n + 2 <= ls =>
                         s[i + s[i].n + 2].tok # "data"
  BY DEF Whole
<1> DEFINE n == s[i].n
<1>6. CASE i <= la
  <2>1. i \in 1..la /\ s[i] = a[i]
    <3> HIDE DEF s, la, lb, ls
    <3> QED BY <1>1, <1>2, <1>6
  <2>2. /\ a[i].tok = "hash" => i < la /\ a[i + 1].tok = "len"
        /\ a[i].tok = "len" /\ a[i].n > 0 =>
             /\ i + 1 + a[i].n <= la /\ a[i + 1].tok = "nl"
             /\ \A j \in 1..a[i].n : a[i + 1 + j].tok = "data"
        /\ a[i].tok = "len" /\ i + a[i].n + 2 <= la => a[i + a[i].n + 2].tok # "data"
    BY <2>1 DEF Whole
  <2>3. n = a[i].n /\ n \in Nat
    BY <1>4, <2>1
  <2> HIDE DEF s, la, lb, ls, n
  <2>n. i \in Nat /\ 1 <= i /\ i <= la /\ n \in Nat
    BY <1>1, <1>6, <2>3
  <2>4. ASSUME s[i].tok = "hash" PROVE i < ls /\ s[i + 1].tok = "len"
    <3>1. i < la /\ a[i + 1].tok = "len"
      BY <2>1, <2>2, <2>4
    <3>2. i < ls /\ i + 1 \in 1..la + lb /\ i + 1 <= la
      BY <1>1, <2>1, <3>1
    <3> QED BY <1>2, <3>1, <3>2
  <2>5. ASSUME s[i].tok = "len", n > 0
        PROVE  /\ i + 1 + n <= ls /\ s[i + 1].tok = "nl"
               /\ \A j \in 1..n : s[i + 1 + j].tok = "data"
    <3>1. /\ i + 1 + n <= la /\ a[i + 1].tok = "nl"
          /\ \A j \in 1..n : a[i + 1 + j].tok = "data"
      BY <2>1, <2>2, <2>3, <2>5
    <3>2. i + 1 + n <= ls /\ i + 1 \in 1..la + lb /\ i + 1 <= la
      BY <1>1, <2>1, <2>3, <3>1
    <3>3. s[i + 1].tok = "nl"
      BY <1>2, <3>1, <3>2
    <3>4. ASSUME NEW j \in 1..n PROVE s[i + 1 + j].tok = "data"
      <4>a. i + 1 + n <= la
        BY <3>1
      <4>1. i + 1 + j \in 1..la + lb /\ i + 1 + j <= la
        BY <1>1, <2>n, <4>a
      <4> QED BY <1>2, <3>1, <4>1
    <3> QED BY <3>2, <3>3, <3>4
  <2>6. ASSUME s[i].tok = "len", i + n + 2 <= ls
        PROVE  s[i + n + 2].tok # "data"
    <3> DEFINE k == i + n + 2
    <3>1. k \in 1..la + lb /\ s[k] = IF k <= la THEN a[k] ELSE b[k - la]
      <4>1. k \in 1..la + lb
        BY <1>1, <2>1, <2>3, <2>6
      <4> HIDE DEF k
      <4> QED BY <1>2, <4>1
    <3>2. CASE k <= la
      <4>1. a[k].tok # "data"
        BY <2>1, <2>2, <2>3, <2>6, <3>2
      <4> QED BY <3>1, <3>2, <4>1
    <3>3. CASE ~(k <= la)
      \* The data is all in a, so only the first two tokens of b may follow.
      <4>1. n > 0 => i + 1 + n <= la
        BY <2>1, <2>2, <2>3, <2>6
      <4>a. k \in 1..la + lb
        BY <3>1
      <4>2. k - la \in 1..lb /\ k - la <= 2
        BY <1>1, <2>n, <3>3, <4>a, <4>1
      <4> HIDE DEF k
      <4>3. s[k] = b[k - la]
        BY <3>1, <3>3
      <4>4. b[k - la].tok # "data"
        BY <1>5, <4>2
      <4> QED BY <4>3, <4>4 DEF k
    <3> QED BY <3>2, <3>3
  <2> QED BY <2>4, <2>5, <2>6 DEF n
<1>7. CASE ~(i <= la)
  <2> DEFINE m == i - la
  <2>1. m \in 1..lb /\ i = m + la /\ s[i] = b[m]
    <3> HIDE DEF s, la, lb, ls
    <3> QED BY <1>1, <1>2, <1>7
  <2>2. /\ b[m].tok = "hash" => m < lb /\ b[m + 1].tok = "len"
        /\ b[m].tok = "len" /\ b[m].n > 0 =>
             /\ m + 1 + b[m].n <= lb /\ b[m + 1].tok = "nl"
             /\ \A j \in 1..b[m].n : b[m + 1 + j].tok = "data"
        /\ b[m].tok = "len" /\ m + b[m].n + 2 <= lb => b[m + b[m].n + 2].tok # "data"
    BY <2>1 DEF Whole
  <2>3. n = b[m].n /\ n \in Nat
    BY <1>4, <2>1
  <2> HIDE DEF s, la, lb, ls, n, m
  <2>a. \A j \in 1..lb : s[j + la] = b[j]
    <3> SUFFICES ASSUME NEW j \in 1..lb PROVE s[j + la] = b[j]
      OBVIOUS
    <3> DEFINE k == j + la
    <3>1. k \in 1..la + lb /\ ~(k <= la) /\ k - la = j
      BY <1>1
    <3> HIDE DEF k
    <3>2. s[k] = b[k - la]
      BY <1>2, <3>1
    <3>3. s[k] = b[j]
      BY <3>1, <3>2, Zenon
    <3> QED BY <3>3 DEF k
  <2>4. ASSUME s[i].tok = "hash" PROVE i < ls /\ s[i + 1].tok = "len"
    <3>1. m < lb /\ b[m + 1].tok = "len"
      BY <2>1, <2>2, <2>4
    <3>2. i < ls /\ m + 1 \in 1..lb /\ i + 1 = (m + 1) + la
      BY <1>1, <2>1, <3>1
    <3> QED BY <2>a, <3>1, <3>2
  <2>5. ASSUME s[i].tok = "len", n > 0
        PROVE  /\ i + 1 + n <= ls /\ s[i + 1].tok = "nl"
               /\ \A j \in 1..n : s[i + 1 + j].tok = "data"
    <3>1. /\ m + 1 + n <= lb /\ b[m + 1].tok = "nl"
          /\ \A j \in 1..n : b[m + 1 + j].tok = "data"
      BY <2>1, <2>2, <2>3, <2>5
    <3>2. i + 1 + n <= ls /\ m + 1 \in 1..lb /\ i + 1 = (m + 1) + la
      BY <1>1, <2>1, <2>3, <3>1
    <3>3. s[i + 1].tok = "nl"
      BY <2>a, <3>1, <3>2
    <3>4. ASSUME NEW j \in 1..n PROVE s[i + 1 + j].tok = "data"
      <4>1. m + 1 + j \in 1..lb /\ i + 1 + j = (m + 1 + j) + la
        BY <1>1, <2>1, <2>3, <3>1
      <4> QED BY <2>a, <3>1, <4>1
    <3> QED BY <3>2, <3>3, <3>4
  <2>6. ASSUME s[i].tok = "len", i + n + 2 <= ls
        PROVE  s[i + n + 2].tok # "data"
    <3>a. m \in 1..lb /\ i = m + la /\ n \in Nat /\ i + n + 2 <= ls
      BY <2>1, <2>3, <2>6
    <3>1. m + n + 2 \in 1..lb /\ m + n + 2 <= lb /\ i + n + 2 = (m + n + 2) + la
      BY <1>1, <3>a
    <3>2. b[m + n + 2].tok # "data"
      BY <2>1, <2>2, <2>3, <2>6, <3>1
    <3> QED BY <2>a, <3>1, <3>2
  <2> QED BY <2>4, <2>5, <2>6 DEF n
<1> QED BY <1>6, <1>7

\* The plan of an answer.  All its writes but a last loop are of one token,
\* and the i-th of those finds room for itself when there is room for i.
PlanShape(p, room) ==
  /\ Len(p) <= 4
  /\ \A i \in 1..Len(p) : IF p[i].loop THEN i = Len(p)
                                        ELSE Len(p[i].toks) = 1 /\ i <= room

Planned(p) == /\ p \in Seq(Write) /\ PlanShape(p, 3)
              /\ Whole(Flat(p)) /\ NoDataFirst(Flat(p))

\* The answer to one command is a line of text, a frame, or a null frame,
\* which has no newline, and names the request in every token.
IsFrame(s) == /\ Len(s) >= 3 /\ s[1].tok = "hash" /\ s[2].tok = "len" /\ s[3].tok = "nl"
              /\ Len(s) = 3 + s[2].n
              /\ \A i \in 1..s[2].n : s[3 + i].tok = "data"
OneAnswer(s) == \/ Len(s) = 1 /\ s[1].tok = "text"
                \/ Len(s) = 2 /\ s[1].tok = "hash" /\ s[2].tok = "len"
                \/ IsFrame(s)
AnswerTo(s, r) == OneAnswer(s) /\ \A i \in 1..Len(s) : s[i].of = r

\* All but the null frame have more than heads of frames.
HasEnd(s) == \E i \in 1..Len(s) : s[i].tok \notin {"hash", "len"}

\* A token before others.
LEMMA Prepended ==
  ASSUME NEW w \in Token, NEW d \in Seq(Token)
  PROVE  /\ <<w>> \o d \in Seq(Token) /\ Len(<<w>> \o d) = 1 + Len(d)
         /\ (<<w>> \o d)[1] = w
         /\ \A i \in 1..Len(d) : (<<w>> \o d)[1 + i] = d[i]
<1> DEFINE z == <<w>>
           zd == z \o d
           lz == Len(z)
           ld == Len(d)
<1>1. z \in Seq(Token) /\ lz = 1 /\ z[1] = w /\ ld \in Nat
  BY LenProperties
<1> HIDE DEF z
<1>2. /\ zd \in Seq(Token) /\ Len(zd) = lz + ld
      /\ \A i \in 1..lz + ld : zd[i] = IF i <= lz THEN z[i] ELSE d[i - lz]
  BY <1>1, ConcatProperties
<1> HIDE DEF zd, lz, ld
<1>3. Len(zd) = 1 + ld
  BY <1>1, <1>2
<1>4. zd[1] = w
  <2>1. 1 \in 1..lz + ld /\ 1 <= lz
    BY <1>1
  <2> QED BY <1>1, <1>2, <2>1
<1>5. ASSUME NEW i \in 1..ld PROVE zd[1 + i] = d[i]
  <2> DEFINE k == 1 + i
  <2>1. k \in 1..lz + ld /\ ~(k <= lz) /\ k - lz = i
    BY <1>1
  <2> HIDE DEF k
  <2>2. zd[k] = d[k - lz]
    BY <1>2, <2>1
  <2>3. zd[k] = d[i]
    BY <2>1, <2>2, Zenon
  <2> QED BY <2>3 DEF k
<1> QED BY <1>2, <1>3, <1>4, <1>5 DEF zd, z, ld

\* The tokens of a header and the data after it.
LEMMA HeaderFlat ==
  ASSUME NEW p \in Seq(Write),
         NEW w1 \in Token, NEW w2 \in Token, NEW w3 \in Token, NEW d \in Seq(Token),
         Toks(p, 1) = <<w1>>, Toks(p, 2) = <<w2>>, Toks(p, 3) = <<w3>>, Toks(p, 4) = d
  PROVE  /\ Flat(p) \in Seq(Token) /\ Len(Flat(p)) = 3 + Len(d)
         /\ Flat(p)[1] = w1 /\ Flat(p)[2] = w2 /\ Flat(p)[3] = w3
         /\ \A i \in 1..Len(d) : Flat(p)[3 + i] = d[i]
<1> DEFINE ld == Len(d)
           zd == <<w3>> \o d
           yd == <<w2>> \o zd
           xd == <<w1>> \o yd
<1>1. ld \in Nat
  BY LenProperties
<1>2. /\ zd \in Seq(Token) /\ Len(zd) = 1 + ld /\ zd[1] = w3
      /\ \A i \in 1..ld : zd[1 + i] = d[i]
  BY Prepended
<1> HIDE DEF zd
<1>3. /\ yd \in Seq(Token) /\ Len(yd) = 1 + Len(zd) /\ yd[1] = w2
      /\ \A i \in 1..Len(zd) : yd[1 + i] = zd[i]
  BY <1>2, Prepended
<1> HIDE DEF yd
<1>4. /\ xd \in Seq(Token) /\ Len(xd) = 1 + Len(yd) /\ xd[1] = w1
      /\ \A i \in 1..Len(yd) : xd[1 + i] = yd[i]
  BY <1>3, Prepended
<1>5. Flat(p) = xd
  BY DEF Flat, zd, yd
<1> HIDE DEF xd, ld
<1>6. Len(zd) = 1 + ld /\ Len(yd) = 2 + ld /\ Len(xd) = 3 + ld
  BY <1>1, <1>2, <1>3, <1>4
<1>7. xd[2] = w2 /\ xd[3] = w3
  <2>1. 1 \in 1..2 + ld /\ 2 \in 1..2 + ld /\ 1 \in 1..1 + ld /\ 1 + 1 = 2 /\ 1 + 2 = 3
    BY <1>1
  <2>2. xd[1 + 1] = yd[1] /\ xd[1 + 2] = yd[2] /\ yd[1 + 1] = zd[1]
    BY <1>3, <1>4, <1>6, <2>1, Zenon
  <2> QED BY <1>2, <1>3, <2>1, <2>2, Zenon
<1>8. ASSUME NEW i \in 1..ld PROVE xd[3 + i] = d[i]
  <2>1. /\ 2 + i \in 1..2 + ld /\ 1 + i \in 1..1 + ld
        /\ 1 + (2 + i) = 3 + i /\ 1 + (1 + i) = 2 + i
    BY <1>1
  <2>2. xd[1 + (2 + i)] = yd[2 + i] /\ yd[1 + (1 + i)] = zd[1 + i]
    BY <1>3, <1>4, <1>6, <2>1, Zenon
  <2> QED BY <1>2, <2>1, <2>2, Zenon
<1> QED BY <1>4, <1>5, <1>6, <1>7, <1>8 DEF ld

\* A frame of n blocks is whole.
LEMMA FrameWhole ==
  ASSUME NEW f \in Seq(Token), NEW n \in Nat, Len(f) = 3 + n,
         f[1].tok = "hash", f[2].tok = "len", f[2].n = n, f[3].tok = "nl",
         \A i \in 1..n : f[3 + i].tok = "data"
  PROVE  Whole(f) /\ NoDataFirst(f)
<1> DEFINE l == Len(f)
<1>1. l = 3 + n
  OBVIOUS
<1>2. ASSUME NEW i \in 1..l, f[i].tok = "hash" PROVE i = 1
  <2> HIDE DEF l
  <2>1. i = 1 \/ i = 2 \/ i = 3 \/ i - 3 \in 1..n
    BY <1>1
  <2>2. i - 3 \in 1..n => f[3 + (i - 3)].tok = "data"
    OBVIOUS
  <2>3. 3 + (i - 3) = i
    BY <1>1
  <2>4. i - 3 \in 1..n => f[i].tok = "data"
    BY <2>2, <2>3, Zenon
  <2> QED BY <1>2, <2>1, <2>4
<1>3. ASSUME NEW i \in 1..l, f[i].tok = "len" PROVE i = 2
  <2> HIDE DEF l
  <2>1. i = 1 \/ i = 2 \/ i = 3 \/ i - 3 \in 1..n
    BY <1>1
  <2>2. i - 3 \in 1..n => f[3 + (i - 3)].tok = "data"
    OBVIOUS
  <2>3. 3 + (i - 3) = i
    BY <1>1
  <2>4. i - 3 \in 1..n => f[i].tok = "data"
    BY <2>2, <2>3, Zenon
  <2> QED BY <1>3, <2>1, <2>4
<1>4. ASSUME NEW i \in 1..l
      PROVE  /\ f[i].tok = "hash" => i < l /\ f[i + 1].tok = "len"
             /\ f[i].tok = "len" /\ f[i].n > 0 =>
                  /\ i + 1 + f[i].n <= l /\ f[i + 1].tok = "nl"
                  /\ \A j \in 1..f[i].n : f[i + 1 + j].tok = "data"
             /\ f[i].tok = "len" /\ i + f[i].n + 2 <= l =>
                  f[i + f[i].n + 2].tok # "data"
  <2>1. f[i].tok = "hash" => i < l /\ f[i + 1].tok = "len"
    <3> HIDE DEF l
    <3>1. 1 < l /\ 1 + 1 = 2
      BY <1>1
    <3> QED BY <1>2, <3>1
  <2>2. ASSUME f[i].tok = "len"
        PROVE  /\ i + 1 + f[i].n <= l /\ f[i + 1].tok = "nl"
               /\ \A j \in 1..f[i].n : f[i + 1 + j].tok = "data"
               /\ ~(i + f[i].n + 2 <= l)
    <3>1. i = 2 /\ f[i].n = n
      BY <1>3, <2>2
    <3> HIDE DEF l
    <3>2. 2 + 1 + n <= l /\ 2 + 1 = 3 /\ ~(2 + n + 2 <= l)
      BY <1>1
    <3>3. f[i + 1].tok = "nl" /\ \A j \in 1..n : f[i + 1 + j].tok = "data"
      BY <3>1, <3>2, Zenon
    <3> QED BY <3>1, <3>2, <3>3, Zenon
  <2> QED BY <2>1, <2>2
<1>5. NoDataFirst(f)
  <2> SUFFICES ASSUME NEW i \in 1..l, i <= 2 PROVE f[i].tok # "data"
    BY DEF NoDataFirst
  <2> HIDE DEF l
  <2>1. i = 1 \/ i = 2
    BY <1>1
  <2> QED BY <2>1
<1> QED BY <1>4, <1>5 DEF Whole

\* The plans for answers.
LEMMA LinePlanned ==
  ASSUME NEW r \in Segment
  PROVE  Planned(Line(r)) /\ AnswerTo(Flat(Line(r)), r) /\ HasEnd(Flat(Line(r)))
<1> DEFINE t == Tok("text", r, 0)
           p == Line(r)
<1>1. t \in Token /\ t.tok = "text" /\ t.of = r
  BY TokenType DEF Tok
<1>2. p \in Seq(Write)
  BY <1>1, LineType DEF Write, WriteOf
<1>3. Len(p) = 1 /\ p[1] = Once(t)
  BY DEF Line
<1>4. Once(t).toks = <<t>> /\ Once(t).loop = FALSE
  BY DEF Once
<1> HIDE DEF t, p
<1>5. /\ Toks(p, 1) = <<t>> /\ Toks(p, 2) = <<>> /\ Toks(p, 3) = <<>> /\ Toks(p, 4) = <<>>
  BY <1>3, <1>4 DEF Toks
<1>6. Flat(p) = <<t>>
  <2>1. <<>> \in Seq(Token) /\ <<t>> \in Seq(Token)
    BY <1>1, EmptySeq
  <2>2. <<>> \o <<>> = <<>> /\ <<t>> \o <<>> = <<t>>
    BY <2>1, ConcatEmptySeq
  <2> QED BY <1>5, <2>2 DEF Flat
<1>7. Whole(<<t>>) /\ NoDataFirst(<<t>>) /\ AnswerTo(<<t>>, r) /\ HasEnd(<<t>>)
  <2> DEFINE f == <<t>>
  <2>1. Len(f) = 1 /\ f[1] = t
    OBVIOUS
  <2> HIDE DEF f
  <2>2. \A i \in 1..Len(f) : f[i].tok = "text" /\ f[i].of = r
    BY <1>1, <2>1
  <2>3. AnswerTo(f, r)
    BY <1>1, <2>1, <2>2 DEF AnswerTo, OneAnswer
  <2>4. HasEnd(f)
    BY <1>1, <2>1 DEF HasEnd
  <2> QED BY <2>2, <2>3, <2>4 DEF Whole, NoDataFirst, f
<1>8. PlanShape(p, 3)
  <2>1. Len(<<t>>) = 1
    OBVIOUS
  <2>2. \A i \in 1..Len(p) : p[i].loop = FALSE /\ p[i].toks = <<t>> /\ i <= 3
    BY <1>3, <1>4
  <2> QED BY <1>3, <2>1, <2>2 DEF PlanShape
<1> QED BY <1>2, <1>6, <1>7, <1>8 DEF Planned, p

LEMMA NullFramePlanned ==
  ASSUME NEW r \in Segment
  PROVE  Planned(NullFrame(r)) /\ AnswerTo(Flat(NullFrame(r)), r)
<1> DEFINE t == Tok("hash", r, 0)
           u == Tok("len", r, 0)
           p == NullFrame(r)
<1>1. /\ t \in Token /\ t.tok = "hash" /\ u \in Token /\ u.tok = "len" /\ u.n = 0
      /\ t.of = r /\ u.of = r
  BY TokenType DEF Tok
<1>2. p \in Seq(Write)
  BY <1>1, NullFrameType DEF Write, WriteOf
<1>3. Len(p) = 2 /\ p[1] = Once(t) /\ p[2] = Once(u)
  BY DEF NullFrame
<1>4. /\ Once(t).toks = <<t>> /\ Once(t).loop = FALSE
      /\ Once(u).toks = <<u>> /\ Once(u).loop = FALSE
  BY DEF Once
<1> HIDE DEF t, u, p
<1>5. /\ Toks(p, 1) = <<t>> /\ Toks(p, 2) = <<u>> /\ Toks(p, 3) = <<>> /\ Toks(p, 4) = <<>>
  BY <1>3, <1>4 DEF Toks
<1> DEFINE f == Flat(p)
<1>6. f \in Seq(Token) /\ Len(f) = 2 /\ f[1] = t /\ f[2] = u
  <2>1. <<>> \in Seq(Token) /\ <<u>> \in Seq(Token)
    BY <1>1, EmptySeq
  <2>2. <<>> \o <<>> = <<>> /\ <<u>> \o <<>> = <<u>>
    BY <2>1, ConcatEmptySeq
  <2>3. f = <<t>> \o <<u>>
    BY <1>5, <2>2 DEF Flat
  <2>4. Len(<<u>>) = 1 /\ <<u>>[1] = u
    OBVIOUS
  <2> HIDE DEF f
  <2>5. f \in Seq(Token) /\ Len(f) = 1 + 1 /\ f[1] = t /\ f[1 + 1] = u
    BY <1>1, <2>1, <2>3, <2>4, Prepended
  <2> QED BY <2>5
<1> HIDE DEF f
<1>7. Whole(f) /\ NoDataFirst(f) /\ AnswerTo(f, r)
  <2>1. \A i \in 1..Len(f) : i = 1 \/ i = 2
    BY <1>6
  <2>3. AnswerTo(f, r)
    BY <1>1, <1>6, <2>1 DEF AnswerTo, OneAnswer
  <2>2. \A i \in 1..Len(f) : /\ f[i].tok = "hash" => i = 1
                             /\ f[i].tok = "len" => i = 2
                             /\ f[i].tok # "data"
    BY <1>1, <1>6, <2>1
  <2> QED BY <1>1, <1>6, <2>2, <2>3 DEF Whole, NoDataFirst
<1>8. PlanShape(p, 3)
  <2>1. Len(<<t>>) = 1 /\ Len(<<u>>) = 1
    OBVIOUS
  <2>2. \A i \in 1..Len(p) : /\ p[i].loop = FALSE /\ i <= 3
                             /\ (p[i].toks = <<t>> \/ p[i].toks = <<u>>)
    BY <1>3, <1>4
  <2> QED BY <1>3, <2>1, <2>2 DEF PlanShape
<1> QED BY <1>2, <1>7, <1>8 DEF Planned, p, f

LEMMA FramePlanned ==
  ASSUME NEW r \in Segment, NEW n \in Nat
  PROVE  Planned(Frame(r, n)) /\ AnswerTo(Flat(Frame(r, n)), r) /\ HasEnd(Flat(Frame(r, n)))
<1> DEFINE t == Tok("hash", r, 0)
           u == Tok("len", r, n)
           v == Tok("nl", r, 0)
           d == [i \in 1..n |-> Tok("data", r, 0)]
           w == Data(r, n)
           p == Frame(r, n)
<1>1. /\ t \in Token /\ t.tok = "hash" /\ u \in Token /\ u.tok = "len" /\ u.n = n
      /\ v \in Token /\ v.tok = "nl"
      /\ t.of = r /\ u.of = r /\ v.of = r
  BY TokenType DEF Tok
<1>2. p \in Seq(Write)
  BY TokenType, FrameType DEF Write, WriteOf
<1>3. /\ d \in Seq(Token) /\ Len(d) = n
      /\ \A i \in 1..n : d[i].tok = "data" /\ d[i].of = r
  <2>1. Tok("data", r, 0) \in Token
    BY TokenType
  <2>2. d \in Seq(Token)
    BY <2>1, IsASeq
  <2>3. Len(d) = n
    BY <2>2, LenProperties
  <2> QED BY <2>2, <2>3 DEF Tok
<1>4. /\ Once(t).toks = <<t>> /\ Once(t).loop = FALSE
      /\ Once(u).toks = <<u>> /\ Once(u).loop = FALSE
      /\ Once(v).toks = <<v>> /\ Once(v).loop = FALSE
      /\ w.toks = d /\ w.loop = TRUE
  BY DEF Once, Data
<1>5. /\ p[1] = Once(t) /\ p[2] = Once(u) /\ p[3] = Once(v)
      /\ Len(p) = IF n = 0 THEN 3 ELSE 4
      /\ n # 0 => p[4] = w
  BY DEF Frame, Header
<1> HIDE DEF t, u, v, d, w, p
<1>6. /\ Toks(p, 1) = <<t>> /\ Toks(p, 2) = <<u>> /\ Toks(p, 3) = <<v>>
      /\ Toks(p, 4) = d
  <2>1. n = 0 => d = <<>>
    BY <1>3, EmptySeq
  <2>2. Toks(p, 4) = d
    BY <1>4, <1>5, <2>1 DEF Toks
  <2> QED BY <1>4, <1>5, <2>2 DEF Toks
<1> DEFINE f == Flat(p)
<1>7. /\ f \in Seq(Token) /\ Len(f) = 3 + Len(d)
      /\ f[1] = t /\ f[2] = u /\ f[3] = v
      /\ \A i \in 1..Len(d) : f[3 + i] = d[i]
  <2>1. t \in Token /\ u \in Token /\ v \in Token /\ d \in Seq(Token)
    BY <1>1, <1>3
  <2>2. Toks(p, 1) = <<t>> /\ Toks(p, 2) = <<u>> /\ Toks(p, 3) = <<v>> /\ Toks(p, 4) = d
    BY <1>6
  <2> HIDE DEF f
  <2>3. /\ Flat(p) \in Seq(Token) /\ Len(Flat(p)) = 3 + Len(d)
        /\ Flat(p)[1] = t /\ Flat(p)[2] = u /\ Flat(p)[3] = v
        /\ \A i \in 1..Len(d) : Flat(p)[3 + i] = d[i]
    BY <2>1, <1>2, <2>2, HeaderFlat
  <2> QED BY <2>3 DEF f
<1> HIDE DEF f
<1>8. Whole(f) /\ NoDataFirst(f) /\ AnswerTo(f, r) /\ HasEnd(f)
  <2>1. \A i \in 1..n : f[3 + i].tok = "data" /\ f[3 + i].of = r
    BY <1>3, <1>7
  <2>2. Len(f) = 3 + n
    BY <1>3, <1>7
  <2>3. OneAnswer(f)
    BY <1>1, <1>7, <2>1, <2>2 DEF OneAnswer, IsFrame
  <2>4. ASSUME NEW i \in 1..Len(f) PROVE f[i].of = r
    <3> DEFINE k == i - 3
    <3>1. i = 1 \/ i = 2 \/ i = 3 \/ (k \in 1..n /\ i = 3 + k)
      BY <2>2
    <3> HIDE DEF k
    <3> QED BY <1>1, <1>7, <2>1, <3>1
  <2>5. HasEnd(f)
    BY <1>1, <1>7, <2>2 DEF HasEnd
  <2> QED BY <1>1, <1>7, <2>1, <2>2, <2>3, <2>4, <2>5, FrameWhole DEF AnswerTo
<1>9. PlanShape(p, 3)
  <2>1. Len(<<t>>) = 1 /\ Len(<<u>>) = 1 /\ Len(<<v>>) = 1
    OBVIOUS
  <2>2. Len(p) <= 4
    BY <1>5
  <2>3. \A i \in 1..Len(p) : i = 1 \/ i = 2 \/ i = 3 \/ (i = 4 /\ n # 0 /\ Len(p) = 4)
    BY <1>5
  <2>4. \A i \in 1..Len(p) : IF p[i].loop THEN i = Len(p)
                                          ELSE Len(p[i].toks) = 1 /\ i <= 3
    BY <1>4, <1>5, <2>1, <2>3
  <2> QED BY <2>2, <2>4 DEF PlanShape
<1> QED BY <1>2, <1>8, <1>9 DEF Planned, p, f

\* Frames are whole in what is on its way or planned.
StreamOK(c) == IF peer[c] = "up" THEN Whole(Stream(c)) ELSE outbox[c] = <<>>
Streams == \A c \in Conns : StreamOK(c)

\* The thread answers somebody, and as long as the peer is there every header
\* finds room: the key was ready, and only this answer has been written since.
AnswerRoom(c) ==
  /\ PlanShape(plan, Room(c))
  /\ pc = "dm" \/ cmds # <<>> => plan = <<>> /\ Room(c) >= 3
  /\ pc = "dm" => cmds = <<>>
  /\ cmds # <<>> => Len(cmds) = 1
AnswerFits ==
  /\ pc # "loop" => writer \in Conns /\ peer[writer] # "absent"
  /\ pc \in {"dm", "write"} => mode # "none"
  /\ pc \in {"dm", "write"} /\ peer[writer] = "up" => AnswerRoom(writer)

FramesInv == Streams /\ AnswerFits

\* Where nothing is being written the stream is what is in the buffer.
LEMMA StreamIdle ==
  ASSUME Inv, NEW c \in Conns
  PROVE  ~Busy(c) \/ plan = <<>> => Stream(c) = outbox[c]
<1>1. outbox[c] \o <<>> = outbox[c]
  BY ConcatEmptySeq DEF Inv, TypeOK, WireTypeOK
<1> QED BY <1>1, FlatEmpty DEF Stream

\* A peer that nobody writes to, before or after.
LEMMA StreamKept ==
  ASSUME Inv, Inv', NEW c \in Conns, StreamOK(c),
         peer'[c] = peer[c], outbox'[c] = outbox[c],
         ~Busy(c) \/ plan = <<>>, ~Busy(c)' \/ plan' = <<>>
  PROVE  StreamOK(c)'
<1>1. Stream(c) = outbox[c]
  BY StreamIdle
<1>2. outbox'[c] \o <<>> = outbox'[c]
  BY ConcatEmptySeq DEF Inv, TypeOK, WireTypeOK
<1>3. Stream(c)' = outbox'[c]
  BY <1>2, FlatEmpty DEF Stream
<1> QED BY <1>1, <1>3 DEF StreamOK

\* An answer is planned for a peer to whom nothing else is being written.
LEMMA StreamPlanned ==
  ASSUME Inv, Inv', NEW c \in Conns, StreamOK(c),
         peer'[c] = peer[c], outbox'[c] = outbox[c],
         ~Busy(c) \/ plan = <<>>, Busy(c)', Planned(plan')
  PROVE  StreamOK(c)'
<1>1. Stream(c) = outbox[c]
  BY StreamIdle
<1>2. CASE peer[c] = "up"
  <2>1. Whole(outbox[c]) /\ outbox[c] \in Seq(Token)
    BY <1>1, <1>2 DEF StreamOK, Inv, TypeOK, WireTypeOK
  <2>2. Whole(Flat(plan')) /\ NoDataFirst(Flat(plan')) /\ Flat(plan') \in Seq(Token)
    BY FlatType DEF Planned
  <2>3. Whole(outbox[c] \o Flat(plan'))
    BY <2>1, <2>2, WholeAppend
  <2>4. Stream(c)' = outbox[c] \o Flat(plan')
    BY DEF Stream
  <2> QED BY <1>2, <2>3, <2>4 DEF StreamOK
<1>3. CASE peer[c] # "up"
  BY <1>3 DEF StreamOK
<1> QED BY <1>2, <1>3

\* While the thread runs its round nothing is being written.
LEMMA FramesRound ==
  ASSUME Inv, Inv', FramesInv, NEW c \in Conns,
         Select \/ Accept(c) \/ Read(c) \/ ReadClose(c)
  PROVE  FramesInv'
<1>1. pc = "loop" /\ pc' = "loop" /\ UNCHANGED <<peer, outbox>>
  BY DEF Select, Accept, Read, ReadClose, Reading, wireVars
<1>2. \A d \in Conns : ~Busy(d) /\ ~Busy(d)'
  BY <1>1 DEF Busy
<1>3. Streams'
  <2> SUFFICES ASSUME NEW d \in Conns PROVE StreamOK(d)'
    BY DEF Streams
  <2>1. StreamOK(d) /\ peer'[d] = peer[d] /\ outbox'[d] = outbox[d]
    BY <1>1 DEF FramesInv, Streams
  <2> QED BY <1>2, <2>1, StreamKept
<1>4. AnswerFits'
  BY <1>1 DEF AnswerFits
<1> QED BY <1>3, <1>4 DEF FramesInv

\* A translation of one unit is one piece, or none when it is empty.
LEMMA OnePiece ==
  ASSUME Inv, NEW c \in Conns, AnswerLarge(c), Len(attach[c].units) = 1
  PROVE  /\ cmds' = <<>> \/ (cmds' = attach[c].units /\ Len(cmds') = 1)
         /\ attach[c].units[1] # "mute" => cmds' = attach[c].units
<1> DEFINE us == attach[c].units
<1>1. us \in Seq(Units)
  BY DEF Inv, TypeOK, Segment
<1>2. PICK n \in 0..Len(us) : SplitEnds(us, n) /\ cmds' = SubSeq(us, 1, n)
  BY DEF AnswerLarge
<1>3. /\ cmds' \in Seq(Units) /\ Len(cmds') = n
      /\ n = Len(us) => cmds' = us
  BY <1>1, <1>2, PiecesType
<1>4. n = 0 \/ n = 1
  BY <1>2
<1>5. n = 0 => us[1] = "mute" /\ cmds' = <<>>
  BY <1>2, <1>3, EmptySeq DEF SplitEnds
<1> QED BY <1>3, <1>4, <1>5

\* An answer that starts with room for a header, and was asked for alone if it
\* is waveform data, fits.
LEMMA RoomToAnswer ==
  ASSUME Inv, NEW c \in Conns, AnswerLarge(c) \/ AnswerDm(c) \/ AnswerText(c),
         Room(c) >= 3, onlargeTransmit => Len(attach[c].units) = 1
  PROVE  AnswerRoom(c)'
<1>1. /\ pc = "loop" /\ interest[c] = "write" /\ outbox' = outbox
      /\ pc' = "dm" => cmds' = <<>> /\ plan' = <<>>
      /\ cmds' = <<>> \/ (Len(cmds') = 1 /\ plan' = <<>>)
      /\ plan' = <<>> \/ plan' = Line(attach[c])
  <2>1. AnswerLarge(c) => cmds' = <<>> \/ Len(cmds') = 1
    BY OnePiece DEF AnswerLarge
  <2> QED BY <2>1 DEF AnswerLarge, AnswerDm, AnswerText, Answering, wireVars
<1>2. attach[c] \in Segment
  BY <1>1, GoodSegmentType DEF Inv, SegmentsOK
<1>3. Room(c)' = Room(c) /\ Room(c) \in Int
  <2>1. Len(outbox[c]) \in Nat
    BY LenProperties DEF Inv, TypeOK, WireTypeOK
  <2> QED BY <1>1, <2>1, SndCapAssumption DEF Room
<1>4. PlanShape(plan', Room(c))
  <2>1. CASE plan' = <<>>
    BY <2>1, EmptySeq DEF PlanShape
  <2>2. CASE plan' = Line(attach[c])
    <3>1. PlanShape(plan', 3)
      BY <1>2, <2>2, LinePlanned DEF Planned
    <3>2. \A i \in 1..Len(plan') : i <= 3 => i <= Room(c)
      BY <1>3
    <3> QED BY <3>1, <3>2 DEF PlanShape
  <2> QED BY <1>1, <2>1, <2>2
<1>5. PlanShape(plan', Room(c)')
  BY <1>3, <1>4
<1>6. Room(c)' >= 3
  BY <1>3
<1> QED BY <1>1, <1>5, <1>6 DEF AnswerRoom

\* What is planned is one answer, and fits.
LEMMA RoomToPlan ==
  ASSUME Inv, writer \in Conns, AnswerRoom(writer), GetData \/ DmLine \/ DmRemote
  PROVE  /\ plan = <<>> /\ cmds' = <<>> /\ Planned(plan')
         /\ AnswerTo(Flat(plan'), attach[writer]) /\ AnswerRoom(writer)'
         /\ ~HasEnd(Flat(plan')) => GetData /\ (AdcMayFail \/ Head(cmds) # "adc")
<1> DEFINE r == attach[writer]
           Excused == GetData /\ (AdcMayFail \/ Head(cmds) # "adc")
<1>1. /\ pc \in {"dm", "write"} /\ pc' = "write" /\ UNCHANGED <<writer, outbox>>
      /\ pc = "dm" \/ cmds # <<>>
      /\ r \in Segment
  BY DEF GetData, DmLine, DmRemote, DmStep, wireVars, Inv, TypeOK
<1>2. /\ r \in Segment /\ plan = <<>> /\ Room(writer) >= 3
      /\ pc = "dm" => cmds = <<>>
      /\ cmds # <<>> => Len(cmds) = 1
  BY <1>1 DEF AnswerRoom, Inv, TypeOK
<1>3. /\ cmds' = <<>> /\ Planned(plan') /\ AnswerTo(Flat(plan'), r)
      /\ HasEnd(Flat(plan')) \/ Excused
  <2>1. CASE GetData
    <3>1. cmds \in Seq(Units) /\ Len(cmds) = 1 /\ cmds # <<>>
      BY <1>2, <2>1 DEF GetData, Inv, TypeOK
    <3>2. Tail(cmds) = <<>>
      <4>1. Tail(cmds) \in Seq(Units) /\ Len(Tail(cmds)) = Len(cmds) - 1
        BY <3>1, HeadTailProperties
      <4>2. Len(Tail(cmds)) = 0
        BY <3>1, <4>1
      <4> QED BY <4>1, <4>2, EmptySeq
    <3>3. ~(Len(cmds) > 1)
      BY <3>1
    <3>4. \/ \E n \in Nat : plan' = Frame(r, n) \o <<>>
          \/ plan' = NullFrame(r) \o <<>> /\ Excused
      BY <2>1, <3>3, AdcSizesAssumption DEF GetData
    <3>5. \A n \in Nat : /\ Planned(Frame(r, n)) /\ AnswerTo(Flat(Frame(r, n)), r)
                         /\ HasEnd(Flat(Frame(r, n)))
      BY <1>2, FramePlanned
    <3>6. Planned(NullFrame(r)) /\ AnswerTo(Flat(NullFrame(r)), r)
      BY <1>2, NullFramePlanned
    <3>7. ASSUME NEW p, Planned(p), AnswerTo(Flat(p), r), plan' = p \o <<>>,
                 HasEnd(Flat(p)) \/ Excused
          PROVE  /\ Planned(plan') /\ AnswerTo(Flat(plan'), r)
                 /\ HasEnd(Flat(plan')) \/ Excused
      <4>1. p \o <<>> = p
        BY <3>7, ConcatEmptySeq DEF Planned
      <4> QED BY <3>7, <4>1
    <3> HIDE DEF Excused
    <3>8. /\ Planned(plan') /\ AnswerTo(Flat(plan'), r)
          /\ HasEnd(Flat(plan')) \/ Excused
      BY <3>4, <3>5, <3>6, <3>7
    <3> QED BY <2>1, <3>2, <3>8 DEF GetData
  <2>2. CASE DmLine
    BY <1>2, <2>2, LinePlanned DEF DmLine, DmStep
  <2>3. CASE DmRemote
    BY <1>2, <2>3, FramePlanned, DmSizesAssumption DEF DmRemote, DmStep
  <2> QED BY <2>1, <2>2, <2>3
<1>4. PlanShape(plan', Room(writer)')
  <2>1. PlanShape(plan', 3)
    BY <1>3 DEF Planned
  <2>2. Room(writer)' = Room(writer) /\ Room(writer) \in Int
    <3>1. Len(outbox[writer]) \in Nat
      BY LenProperties DEF Inv, TypeOK, WireTypeOK
    <3> QED BY <1>1, <3>1, SndCapAssumption DEF Room
  <2>3. \A i \in 1..Len(plan') : i <= 3 => i <= Room(writer)
    BY <1>2, <2>2
  <2> QED BY <2>1, <2>2, <2>3 DEF PlanShape
<1> QED BY <1>1, <1>2, <1>3, <1>4 DEF AnswerRoom

\* Waveform data is only written for a command that came alone.
LargeAlone ==
  \A c \in Conns : pc = "loop" /\ onlargeTransmit /\ interest[c] = "write" =>
    Len(attach[c].units) = 1

\* An answer starts with room for a header.
LEMMA FramesAnswer ==
  ASSUME LargeAlone, Inv, Inv', PeersOK, SelectedStillReady, FramesInv,
         NEW c \in Conns, AnswerLarge(c) \/ AnswerDm(c) \/ AnswerText(c)
  PROVE  FramesInv'
<1>0. Answering(c)
  BY DEF AnswerLarge, AnswerDm, AnswerText
<1>1. /\ pc = "loop" /\ c \in selected /\ interest[c] = "write" /\ writer' = c
      /\ UNCHANGED <<peer, outbox>>
  BY <1>0 DEF Answering, wireVars
<1>2. /\ pc' \in {"dm", "write"} /\ mode' # "none"
      /\ pc' = "dm" => cmds' = <<>>
      /\ plan' = <<>> \/ (plan' = Line(attach[c]) /\ cmds' = <<>> /\ pc' = "write")
  BY DEF AnswerLarge, AnswerDm, AnswerText
<1>3. conn[c] = "open" /\ Writable(c)
  BY <1>1 DEF SelectedStillReady, KeyReady
<1>4. peer[c] # "absent"
  BY <1>3 DEF PeersOK
<1>5. attach[c] \in GoodSegment /\ attach[c] \in Segment
  BY <1>1, GoodSegmentType DEF Inv, SegmentsOK
<1>6. onlargeTransmit => Len(attach[c].units) = 1
  BY <1>1 DEF LargeAlone
<1>7. \A d \in Conns : ~Busy(d)
  BY <1>1 DEF Busy
<1>8. Streams'
  <2> SUFFICES ASSUME NEW d \in Conns PROVE StreamOK(d)'
    BY DEF Streams
  <2>1. StreamOK(d) /\ peer'[d] = peer[d] /\ outbox'[d] = outbox[d]
    BY <1>1 DEF FramesInv, Streams
  <2>2. CASE d # c \/ plan' = <<>>
    <3>1. ~Busy(d)' \/ plan' = <<>>
      BY <1>1, <2>2 DEF Busy
    <3> QED BY <1>7, <2>1, <3>1, StreamKept
  <2>3. CASE d = c /\ plan' # <<>>
    <3>1. Busy(d)'
      BY <1>1, <1>2, <2>3 DEF Busy
    <3>2. Planned(plan')
      BY <1>2, <1>5, <2>3, LinePlanned
    <3> QED BY <1>7, <2>1, <3>1, <3>2, StreamPlanned
  <2> QED BY <2>2, <2>3
<1>9. AnswerRoom(c)'
  <2> DEFINE n == Len(outbox[c])
  <2>1. n \in Nat /\ n + 3 <= SndCap
    BY <1>3, LenProperties DEF Writable, Inv, TypeOK, WireTypeOK
  <2>2. SndCap - n >= 3
    <3> HIDE DEF n
    <3> QED BY <2>1, SndCapAssumption
  <2>3. Room(c) >= 3
    BY <2>2 DEF Room
  <2> QED BY <1>6, <2>3, RoomToAnswer
<1>10. AnswerFits'
  <2>1. AnswerRoom(writer)'
    BY <1>1, <1>9 DEF AnswerRoom, Room
  <2> QED BY <1>1, <1>2, <1>4, <2>1 DEF AnswerFits
<1> QED BY <1>8, <1>10 DEF FramesInv

\* What is to be written is decided while nothing is.
LEMMA FramesPlan ==
  ASSUME Inv, Inv', FramesInv, GetData \/ DmLine \/ DmRemote
  PROVE  FramesInv'
<1>1. /\ pc \in {"dm", "write"} /\ pc' = "write" /\ writer' = writer
      /\ mode' \in {mode, "dm", "remote"}
      /\ UNCHANGED <<peer, outbox>>
  BY DEF GetData, DmLine, DmRemote, DmStep, wireVars
<1>2. writer \in Conns /\ mode # "none"
  BY <1>1 DEF FramesInv, AnswerFits
<1>3. peer[writer] = "up" =>
        plan = <<>> /\ Planned(plan') /\ cmds' = <<>> /\ AnswerRoom(writer)'
  BY <1>1, <1>2, RoomToPlan DEF FramesInv, AnswerFits
<1>4. Streams'
  <2> SUFFICES ASSUME NEW d \in Conns PROVE StreamOK(d)'
    BY DEF Streams
  <2>1. StreamOK(d) /\ peer'[d] = peer[d] /\ outbox'[d] = outbox[d]
    BY <1>1 DEF FramesInv, Streams
  <2>2. CASE d # writer
    <3>1. ~Busy(d) /\ ~Busy(d)'
      BY <1>1, <2>2 DEF Busy
    <3> QED BY <2>1, <3>1, StreamKept
  <2>3. CASE d = writer /\ peer[d] = "up"
    <3>1. Busy(d)'
      BY <1>1, <1>2, <2>3 DEF Busy
    <3> QED BY <1>3, <2>1, <2>3, <3>1, StreamPlanned
  <2>4. CASE peer[d] # "up"
    BY <2>1, <2>4 DEF StreamOK
  <2> QED BY <2>2, <2>3, <2>4
<1>5. AnswerFits'
  <2>1. peer'[writer] # "absent" /\ mode' # "none"
    BY <1>1, <1>2 DEF FramesInv, AnswerFits
  <2> QED BY <1>1, <1>2, <1>3, <2>1 DEF AnswerFits
<1> QED BY <1>4, <1>5 DEF FramesInv

\* The end of an answer, and the end of the thread.
LEMMA FramesEnd ==
  ASSUME Inv, Inv', FramesInv, DmShort \/ Finish
  PROVE  FramesInv'
<1>1. /\ UNCHANGED <<peer, outbox, plan, writer>> /\ pc \in {"dm", "write"}
  BY DEF DmShort, DmStep, Finish, wireVars
<1>2. Streams'
  <2> SUFFICES ASSUME NEW d \in Conns PROVE StreamOK(d)'
    BY DEF Streams
  <2>1. StreamOK(d) /\ peer'[d] = peer[d] /\ outbox'[d] = outbox[d]
    BY <1>1 DEF FramesInv, Streams
  <2>2. CASE d # writer \/ plan = <<>>
    <3>1. ~Busy(d) \/ plan = <<>>
      BY <2>2 DEF Busy
    <3>2. ~Busy(d)' \/ plan' = <<>>
      BY <1>1, <2>2 DEF Busy
    <3> QED BY <2>1, <3>1, <3>2, StreamKept
  <2>3. CASE peer[d] # "up"
    BY <2>1, <2>3 DEF StreamOK
  <2>4. CASE d = writer /\ peer[d] = "up"
    <3>1. plan = <<>>
      BY <1>1, <2>4 DEF FramesInv, AnswerFits, AnswerRoom, DmShort, DmStep, Finish
    <3> QED BY <2>2, <3>1
  <2> QED BY <2>2, <2>3, <2>4
<1>3. AnswerFits'
  <2>1. pc' \notin {"dm", "write"}
    BY DEF DmShort, Finish
  <2> QED BY <1>1, <2>1 DEF FramesInv, AnswerFits
<1> QED BY <1>2, <1>3 DEF FramesInv

\* The peer is gone: what is written goes nowhere.
LEMMA FramesVoid ==
  ASSUME Inv, Inv', FramesInv, WriteVoid \/ WriteFails
  PROVE  FramesInv'
<1>1. /\ UNCHANGED <<peer, outbox, writer>> /\ pc = "write" /\ pc' \in {"write", "dead"}
      /\ peer[writer] = "gone" /\ mode' \in {mode, "dm"}
  BY DEF WriteVoid, WriteFails, Writing
<1>2. Streams'
  <2> SUFFICES ASSUME NEW d \in Conns PROVE StreamOK(d)'
    BY DEF Streams
  <2>1. StreamOK(d) /\ peer'[d] = peer[d] /\ outbox'[d] = outbox[d]
    BY <1>1 DEF FramesInv, Streams
  <2>2. CASE d # writer
    <3>1. ~Busy(d) /\ ~Busy(d)'
      BY <1>1, <2>2 DEF Busy
    <3> QED BY <2>1, <3>1, StreamKept
  <2>3. CASE peer[d] # "up"
    BY <2>1, <2>3 DEF StreamOK
  <2> QED BY <1>1, <2>2, <2>3
<1>3. AnswerFits'
  BY <1>1 DEF FramesInv, AnswerFits
<1> QED BY <1>2, <1>3 DEF FramesInv

\* A write moves tokens from the front of the plan to the end of the buffer.
LEMMA RoomToWrite ==
  ASSUME Inv, writer \in Conns, mode # "none", AnswerRoom(writer), ChannelWrite
  PROVE  /\ AnswerRoom(writer)'
         /\ \A d \in Conns : d = writer => Stream(d)' = Stream(d)
<1> DEFINE w == Head(plan)
           n == Len(w.toks)
           room == Room(writer)
           k == Smaller(Offered(w), room)
           a == SubSeq(w.toks, 1, k)
           b == SubSeq(w.toks, k + 1, n)
           rest == Tail(plan)
           v == [w EXCEPT !.toks = b]
<1>1. /\ pc = "write" /\ pc' = "write" /\ plan # <<>> /\ peer[writer] # "gone"
      /\ UNCHANGED <<peer, mode, writer, cmds>>
      /\ outbox' = [outbox EXCEPT ![writer] = @ \o a]
      /\ plan' = IF w.loop /\ k < n THEN <<v>> \o rest ELSE rest
  BY DEF ChannelWrite, Writing, PlanAfter
<1>2. /\ writer \in Conns /\ mode # "none" /\ PlanShape(plan, room) /\ cmds = <<>>
  BY <1>1 DEF AnswerRoom
<1>3. /\ plan \in Seq(Write) /\ outbox \in [Conns -> Seq(Token)] /\ Len(plan) \in Nat
      /\ w = plan[1] /\ w \in Write
      /\ rest \in Seq(Write) /\ Len(rest) \in Nat /\ Len(plan) = Len(rest) + 1
      /\ \A i \in 1..Len(rest) : rest[i] = plan[i + 1]
  BY <1>1, HeadTailProperties, LenProperties DEF Inv, TypeOK, WireTypeOK
<1>4. w.toks \in Seq(Token) /\ w.loop \in BOOLEAN /\ n \in Nat
  BY <1>3, LenProperties DEF Write
<1>5. /\ room \in Nat /\ k \in Nat /\ k <= n /\ k <= room
      /\ n = 1 /\ room >= 1 => k = 1
  <2>1. Len(outbox[writer]) \in Nat /\ Len(outbox[writer]) <= SndCap
    BY <1>2, <1>3, LenProperties DEF Inv, BufferOK
  <2>2. room \in Nat
    BY <2>1, SndCapAssumption DEF Room
  <2>3. /\ Offered(w) \in Nat /\ Offered(w) <= n
        /\ n = 1 => Offered(w) = 1
    <3>1. Offered(w) = IF mode = "large" THEN Smaller(DataBlock, n) ELSE n
      BY DEF Offered
    <3> HIDE DEF w, n
    <3> QED BY <1>4, <3>1, DataBlockAssumption DEF Smaller
  <2> HIDE DEF n, room, w
  <2> QED BY <2>2, <2>3, <1>4 DEF Smaller
<1> HIDE DEF k
<1>6. /\ a \in Seq(Token) /\ b \in Seq(Token) /\ a \o b = w.toks
      /\ k = n => b = <<>>
  <2>1. \A i \in 1..n : w.toks[i] \in Token
    BY <1>4, ElementOfSeq
  <2> HIDE DEF n
  <2>2. /\ 1 \in 1..n + 1 /\ k \in 1 - 1..n /\ n \in k..n
        /\ \A i \in 1..k : i \in 1..n
        /\ \A i \in k + 1..n : i \in 1..n
    BY <1>4, <1>5
  <2>3. a \in Seq(Token) /\ b \in Seq(Token)
    BY <1>4, <1>5, <2>1, <2>2, SubSeqProperties
  <2>4. SubSeq(w.toks, 1, k) \o SubSeq(w.toks, k + 1, n) = SubSeq(w.toks, 1, n)
    BY <1>4, <2>2, ConcatAdjacentSubSeq DEF n
  <2>5. SubSeq(w.toks, 1, n) = w.toks
    BY <1>4, SubSeqFull DEF n
  <2>6. k = n => b = <<>>
    BY <1>4, <1>5, SubSeqEmpty
  <2> QED BY <2>3, <2>4, <2>5, <2>6
<1>7. IF w.loop THEN Len(rest) = 0 ELSE k = 1 /\ n = 1
  <2>1. 1 \in 1..Len(plan)
    BY <1>3
  <2>2. IF w.loop THEN 1 = Len(plan) ELSE n = 1 /\ 1 <= room
    BY <1>2, <1>3, <2>1 DEF PlanShape
  <2> HIDE DEF w, n, room, rest
  <2> QED BY <1>3, <1>4, <1>5, <2>2
<1> HIDE DEF a, b, n, room, rest
<1>8. /\ plan' \in Seq(Write)
      /\ Flat(plan) = w.toks \o Flat(rest) /\ Flat(plan') = b \o Flat(rest)
  <2>0. Len(plan) <= 4
    BY <1>2 DEF PlanShape
  <2>1. Flat(plan) = w.toks \o Flat(rest)
    BY <1>3, <2>0, FlatFirst
  <2>2. CASE w.loop /\ k < n
    <3>1. v \in Write /\ v.toks = b
      BY <1>3, <1>6 DEF Write
    <3> HIDE DEF w, v
    <3> DEFINE p == <<v>> \o rest
    <3>2. /\ p \in Seq(Write) /\ Len(p) = Len(rest) + 1
          /\ p[1] = v /\ \A i \in 1..Len(rest) : rest[i] = p[i + 1]
      <4>1. <<v>> \in Seq(Write) /\ Len(<<v>>) = 1 /\ <<v>>[1] = v
        BY <3>1
      <4> DEFINE z == <<v>>
                 lr == Len(rest)
      <4> HIDE DEF z
      <4>2. /\ z \o rest \in Seq(Write) /\ Len(z \o rest) = 1 + lr
            /\ \A i \in 1..1 + lr : (z \o rest)[i] = IF i <= 1 THEN z[i] ELSE rest[i - 1]
        BY <1>3, <4>1, ConcatProperties DEF z
      <4> DEFINE q == z \o rest
      <4>3. lr \in Nat
        BY <1>3
      <4> HIDE DEF q, lr
      <4>4. q[1] = z[1] /\ \A i \in 1..lr : q[i + 1] = rest[i]
        <5>1. 1 \in 1..1 + lr
          BY <4>3
        <5>2. q[1] = z[1]
          BY <4>2, <5>1 DEF q
        <5>3. ASSUME NEW i \in 1..lr PROVE q[i + 1] = rest[i]
          <6> DEFINE j == i + 1
          <6>1. j \in 1..1 + lr /\ ~(j <= 1) /\ j - 1 = i
            BY <4>3
          <6> HIDE DEF j
          <6>2. q[j] = rest[j - 1]
            BY <4>2, <6>1 DEF q
          <6>3. q[j] = rest[i]
            BY <6>1, <6>2, Zenon
          <6> QED BY <6>3 DEF j
        <5> QED BY <5>2, <5>3
      <4>5. Len(q) = lr + 1 /\ q \in Seq(Write)
        BY <4>2, <4>3 DEF q
      <4> QED BY <4>1, <4>4, <4>5 DEF q, z, lr
    <3>3. plan' = p
      BY <1>1, <2>2 DEF n, rest, v, w, b
    <3> HIDE DEF p
    <3>4. Len(p) <= 4
      BY <1>3, <2>0, <3>2
    <3>5. Flat(p) = p[1].toks \o Flat(rest)
      BY <1>3, <3>2, <3>4, FlatFirst
    <3> QED BY <2>1, <3>1, <3>2, <3>3, <3>5
  <2>3. CASE ~(w.loop /\ k < n)
    <3>1. plan' = rest
      BY <1>1, <2>3 DEF n, rest
    <3>2. b = <<>>
      BY <1>4, <1>5, <1>6, <1>7, <2>3
    <3>3. <<>> \o Flat(rest) = Flat(rest)
      BY <1>3, FlatType, ConcatEmptySeq
    <3> QED BY <1>3, <2>1, <3>1, <3>2, <3>3
  <2> QED BY <2>2, <2>3
<1>9. outbox'[writer] = outbox[writer] \o a
  BY <1>1, <1>2, <1>3 DEF a, n
<1>10. \A d \in Conns : d = writer => Stream(d)' = Stream(d)
  <2> SUFFICES ASSUME NEW c \in Conns, c = writer PROVE Stream(c)' = Stream(c)
    OBVIOUS
  <2> DEFINE o == outbox[writer]
             f == Flat(rest)
  <2>1. o \in Seq(Token) /\ f \in Seq(Token)
    BY <1>2, <1>3, FlatType
  <2>2. Stream(c) = o \o ((a \o b) \o f)
    BY <1>1, <1>2, <1>6, <1>8 DEF Stream, Busy
  <2>3. Stream(c)' = (o \o a) \o (b \o f)
    BY <1>1, <1>2, <1>8, <1>9 DEF Stream, Busy
  <2> HIDE DEF o, f
  <2>4. (o \o a) \o (b \o f) = o \o ((a \o b) \o f)
    <3>1. a \in Seq(Token)
      BY <1>6
    <3>2. b \in Seq(Token)
      BY <1>6
    <3>3. o \in Seq(Token)
      BY <2>1
    <3>4. f \in Seq(Token)
      BY <2>1
    <3>5. b \o f \in Seq(Token)
      BY <3>2, <3>4, ConcatProperties
    <3>6. (a \o b) \o f = a \o (b \o f)
      BY <3>1, <3>2, <3>4, ConcatAssociative
    <3> DEFINE g == b \o f
    <3>7. g \in Seq(Token)
      BY <3>5
    <3> HIDE DEF g
    <3>8. (o \o a) \o g = o \o (a \o g)
      BY <3>1, <3>3, <3>7, ConcatAssociative
    <3> QED BY <3>6, <3>8 DEF g
  <2> QED BY <2>2, <2>3, <2>4
<1>12. Room(writer)' = room - k
  <2> DEFINE l == Len(outbox[writer])
  <2>1. l \in Nat /\ Len(a) = k
    <3>1. \A i \in 1..n : w.toks[i] \in Token
      BY <1>4, ElementOfSeq DEF n
    <3>2. \A i \in 1..k : w.toks[i] \in Token
      BY <1>4, <1>5, <3>1
    <3>3. Len(a) = IF 1 <= k THEN k - 1 + 1 ELSE 0
      BY <1>5, <3>2, SubSeqProperties DEF a
    <3> HIDE DEF k, a
    <3>4. Len(a) = k
      BY <1>5, <3>3
    <3> QED BY <1>2, <1>3, <3>4, LenProperties
  <2>2. Len(outbox'[writer]) = l + k
    <3>1. Len(outbox[writer] \o a) = Len(outbox[writer]) + Len(a)
      BY <1>2, <1>3, <1>6, ConcatProperties
    <3> QED BY <1>9, <2>1, <3>1
  <2>3. Room(writer)' = SndCap - (l + k) /\ room = SndCap - l
    BY <1>1, <2>2 DEF Room, room
  <2> HIDE DEF l
  <2> QED BY <1>5, <2>1, <2>3, SndCapAssumption
<1>13. PlanShape(plan', room - k)
  <2>1. CASE w.loop /\ k < n
    <3>0. v.loop = TRUE
      BY <1>3, <2>1 DEF Write
    <3>1. rest = <<>>
      BY <1>3, <1>7, <2>1, EmptySeq
    <3>2. plan' = <<v>>
      <4>1. v \in Write
        BY <1>3, <1>6 DEF Write
      <4> HIDE DEF v
      <4>2. <<v>> \o <<>> = <<v>>
        BY <4>1, ConcatEmptySeq
      <4> QED BY <1>1, <2>1, <3>1, <4>2 DEF n, rest, v, b
    <3> HIDE DEF v
    <3>3. Len(plan') = 1 /\ plan'[1] = v
      BY <3>2
    <3> QED BY <3>0, <3>3 DEF PlanShape
  <2>2. CASE ~(w.loop /\ k < n)
    <3>1. plan' = rest
      BY <1>1, <2>2 DEF n, rest
    <3>2. CASE w.loop
      BY <1>3, <1>7, <3>1, <3>2 DEF PlanShape
    <3>3. CASE ~w.loop
      <4> DEFINE lr == Len(rest)
      <4>1. k = 1 /\ lr \in Nat /\ Len(plan) = lr + 1 /\ lr + 1 <= 4
        BY <1>2, <1>3, <1>7, <3>3 DEF PlanShape
      <4>2. ASSUME NEW i \in 1..lr
            PROVE  IF rest[i].loop THEN i = lr
                                   ELSE Len(rest[i].toks) = 1 /\ i <= room - k
        <5> DEFINE j == i + 1
        <5>1. j \in 1..Len(plan) /\ rest[i] = plan[j]
          BY <1>3, <4>1
        <5> HIDE DEF j
        <5>2. IF plan[j].loop THEN j = Len(plan)
                              ELSE Len(plan[j].toks) = 1 /\ j <= room
          BY <1>2, <5>1 DEF PlanShape
        <5>3. CASE plan[j].loop
          <6>1. j = lr + 1
            BY <4>1, <5>2, <5>3
          <6>2. i = lr
            BY <4>1, <6>1 DEF j
          <6> QED BY <5>1, <5>3, <6>2
        <5>4. CASE ~plan[j].loop
          <6>1. Len(plan[j].toks) = 1 /\ j <= room
            BY <5>2, <5>4
          <6>2. i <= room - k
            BY <1>5, <4>1, <6>1 DEF j
          <6> QED BY <5>1, <5>4, <6>1, <6>2
        <5> QED BY <5>3, <5>4
      <4>3. lr <= 4
        BY <4>1
      <4> QED BY <3>1, <4>2, <4>3 DEF PlanShape
    <3> QED BY <3>2, <3>3
  <2> QED BY <2>1, <2>2
<1>14. AnswerRoom(writer)'
  <2>1. PlanShape(plan', Room(writer)')
    BY <1>12, <1>13
  <2> QED BY <1>1, <1>2, <2>1 DEF AnswerRoom
<1> QED BY <1>10, <1>14

LEMMA FramesWrite ==
  ASSUME Inv, Inv', FramesInv, ChannelWrite
  PROVE  FramesInv'
<1>1. /\ pc = "write" /\ pc' = "write" /\ peer[writer] # "gone"
      /\ UNCHANGED <<peer, mode, writer>>
      /\ \A d \in Conns \ {writer} : outbox'[d] = outbox[d]
  BY DEF ChannelWrite, Writing, Inv, TypeOK, WireTypeOK
<1>2. writer \in Conns /\ peer[writer] = "up" /\ mode # "none" /\ AnswerRoom(writer)
  <2>1. writer \in Conns /\ peer[writer] \in {"absent", "up", "gone"}
    BY <1>1 DEF FramesInv, AnswerFits, Inv, TypeOK, WireTypeOK
  <2> QED BY <1>1, <2>1 DEF FramesInv, AnswerFits
<1>3. AnswerRoom(writer)' /\ \A d \in Conns : d = writer => Stream(d)' = Stream(d)
  BY <1>2, RoomToWrite
<1>4. Streams'
  <2> SUFFICES ASSUME NEW d \in Conns PROVE StreamOK(d)'
    BY DEF Streams
  <2>1. StreamOK(d) /\ peer'[d] = peer[d]
    BY <1>1 DEF FramesInv, Streams
  <2>2. CASE d = writer
    BY <1>1, <1>2, <1>3, <2>1, <2>2 DEF StreamOK
  <2>3. CASE d # writer
    <3>1. outbox'[d] = outbox[d] /\ ~Busy(d) /\ ~Busy(d)'
      BY <1>1, <2>3 DEF Busy
    <3> QED BY <2>1, <3>1, StreamKept
  <2> QED BY <2>2, <2>3
<1>5. AnswerFits'
  BY <1>1, <1>2, <1>3 DEF AnswerFits
<1> QED BY <1>4, <1>5 DEF FramesInv

\* A peer whose buffer a step leaves alone.
LEMMA StreamSame ==
  ASSUME NEW d \in Conns, StreamOK(d), peer'[d] = peer[d], outbox'[d] = outbox[d],
         UNCHANGED serverVars
  PROVE  StreamOK(d)'
BY DEF StreamOK, Stream, Busy, serverVars

\* More room does a plan no harm.
LEMMA RoomMore ==
  ASSUME Inv, NEW c \in Conns, AnswerRoom(c), UNCHANGED <<pc, cmds, plan>>,
         Room(c)' \in Int, Room(c)' >= Room(c)
  PROVE  AnswerRoom(c)'
<1>1. Room(c) \in Int
  <2>1. Len(outbox[c]) \in Nat
    BY LenProperties DEF Inv, TypeOK, WireTypeOK
  <2> QED BY <2>1, SndCapAssumption DEF Room
<1>2. PlanShape(plan, Room(c)')
  <2>1. \A i \in 1..Len(plan) : i <= Room(c) => i <= Room(c)'
    BY <1>1
  <2> QED BY <2>1 DEF PlanShape, AnswerRoom
<1>3. Room(c) >= 3 => Room(c)' >= 3
  BY <1>1
<1> QED BY <1>2, <1>3 DEF AnswerRoom

LEMMA AnswerStillFits ==
  ASSUME Inv, AnswerFits, UNCHANGED serverVars,
         pc # "loop" => peer'[writer] \in {peer[writer], "gone"},
         pc # "loop" /\ peer'[writer] = "up" =>
           Room(writer)' \in Int /\ Room(writer)' >= Room(writer)
  PROVE  AnswerFits'
<1>1. UNCHANGED <<pc, mode, writer, cmds, plan>>
  BY DEF serverVars
<1>2. CASE pc \in {"dm", "write"} /\ peer'[writer] = "up"
  <2>1. writer \in Conns /\ peer[writer] = "up" /\ mode # "none" /\ AnswerRoom(writer)
    BY <1>2 DEF AnswerFits
  <2>2. AnswerRoom(writer)'
    BY <1>1, <1>2, <2>1, RoomMore
  <2> QED BY <1>1, <1>2, <2>1, <2>2 DEF AnswerFits
<1>3. CASE ~(pc \in {"dm", "write"} /\ peer'[writer] = "up")
  BY <1>1, <1>3 DEF AnswerFits
<1> QED BY <1>2, <1>3

LEMMA WholeEmpty == Whole(<<>>)
BY EmptySeq DEF Whole

\* A peer takes the first token of its stream.
LEMMA StreamTaken ==
  ASSUME Inv, NEW c \in Conns, Take(c), UNCHANGED serverVars
  PROVE  /\ Head(outbox[c]) \in Token /\ Stream(c)' \in Seq(Token)
         /\ Stream(c) = <<Head(outbox[c])>> \o Stream(c)'
<1> DEFINE o == outbox[c]
           h == <<Head(o)>>
           t == Tail(o)
           f == IF Busy(c) THEN Flat(plan) ELSE <<>>
<1>1. /\ o # <<>> /\ outbox'[c] = t /\ o \in Seq(Token) /\ plan \in Seq(Write)
  BY DEF Take, Inv, TypeOK, WireTypeOK
<1>2. Head(o) \in Token /\ t \in Seq(Token) /\ h \in Seq(Token) /\ f \in Seq(Token)
  <2>1. Head(o) \in Token /\ t \in Seq(Token)
    BY <1>1, HeadTailProperties
  <2>2. f \in Seq(Token)
    BY <1>1, FlatType, EmptySeq
  <2> QED BY <2>1, <2>2
<1>3. Len(t) \in Nat /\ Len(o) = Len(t) + 1
  BY <1>1, HeadTailProperties, LenProperties
<1>4. h \o t = o
  <2>1. /\ h \o t \in Seq(Token) /\ Len(h \o t) = 1 + Len(t)
        /\ (h \o t)[1] = Head(o) /\ \A i \in 1..Len(t) : (h \o t)[1 + i] = t[i]
    BY <1>1, <1>2, HeadTailProperties, Prepended
  <2>2. Head(o) = o[1] /\ \A i \in 1..Len(t) : t[i] = o[i + 1]
    BY <1>1, HeadTailProperties
  <2> HIDE DEF o, t, h
  <2>3. ASSUME NEW i \in 1..Len(o) PROVE (h \o t)[i] = o[i]
    <3>1. CASE i = 1
      BY <2>1, <2>2, <3>1
    <3>2. CASE i # 1
      <4> DEFINE j == i - 1
      <4>1. j \in 1..Len(t) /\ 1 + j = i /\ j + 1 = i
        BY <1>3, <3>2
      <4> HIDE DEF j
      <4>2. (h \o t)[1 + j] = t[j] /\ t[j] = o[j + 1]
        BY <2>1, <2>2, <4>1
      <4> QED BY <4>1, <4>2
    <3> QED BY <3>1, <3>2
  <2>4. Len(h \o t) = Len(o)
    BY <1>3, <2>1
  <2> QED BY <1>1, <2>1, <2>3, <2>4, SeqEqual
<1>5. Stream(c)' = t \o f
  <2>1. (Busy(c)' <=> Busy(c)) /\ plan' = plan
    BY DEF Busy, serverVars
  <2> QED BY <1>1, <2>1 DEF Stream
<1>6. Stream(c) = o \o f
  BY DEF Stream
<1>7. t \o f \in Seq(Token)
  BY <1>2, ConcatProperties
<1> HIDE DEF o, h, t, f
<1>8. (h \o t) \o f = h \o (t \o f)
  BY <1>2, ConcatAssociative
<1>9. Stream(c) = h \o (t \o f)
  BY <1>4, <1>6, <1>8
<1> QED BY <1>2, <1>5, <1>7, <1>9 DEF h, o

\* What a peer takes makes room.
LEMMA TakenRoom ==
  ASSUME Inv, NEW c \in Conns, Take(c)
  PROVE  Room(c)' \in Int /\ Room(c)' >= Room(c)
<1> DEFINE o == outbox[c]
           t == Tail(o)
<1>1. o # <<>> /\ o \in Seq(Token) /\ outbox'[c] = t
  BY DEF Take, Inv, TypeOK, WireTypeOK
<1>2. Len(t) \in Nat /\ Len(o) = Len(t) + 1
  BY <1>1, HeadTailProperties, LenProperties
<1>3. Room(c)' = SndCap - Len(t) /\ Room(c) = SndCap - Len(o)
  BY <1>1 DEF Room
<1> HIDE DEF o, t
<1> QED BY <1>2, <1>3, SndCapAssumption

\* The peers: what is taken is taken from the front.
LEMMA FramesPeer ==
  ASSUME Inv, Inv', FramesInv, PeerStep
  PROVE  FramesInv'
<1>0. /\ UNCHANGED serverVars /\ Streams /\ AnswerFits
      /\ peer \in [Conns -> {"absent", "up", "gone"}]
      /\ outbox \in [Conns -> Seq(Token)] /\ plan \in Seq(Write)
      /\ pc # "loop" => writer \in Conns /\ peer[writer] # "absent"
  BY DEF PeerStep, FramesInv, AnswerFits, Inv, TypeOK, WireTypeOK
<1>r. pc # "loop" => Room(writer) \in Int
  <2>1. pc # "loop" => Len(outbox[writer]) \in Nat
    BY <1>0, LenProperties
  <2> QED BY <2>1, SndCapAssumption DEF Room
<1>w. UNCHANGED writer
  BY <1>0 DEF serverVars
<1>1. ASSUME NEW c \in Conns, Connect(c) PROVE FramesInv'
  <2>1. /\ peer[c] = "absent" /\ peer' = [peer EXCEPT ![c] = "up"] /\ outbox' = outbox
    BY <1>1 DEF Connect
  <2>2. Streams'
    <3> SUFFICES ASSUME NEW d \in Conns PROVE StreamOK(d)'
      BY DEF Streams
    <3>1. CASE d = c
      <4>1. outbox[c] = <<>> /\ ~Busy(c)
        BY <1>0, <2>1 DEF Streams, StreamOK, Busy
      <4>2. outbox'[c] = <<>> /\ ~Busy(c)'
        BY <1>0, <2>1, <4>1 DEF Busy, serverVars
      <4>3. <<>> \o <<>> = <<>>
        BY EmptySeq, ConcatEmptySeq
      <4>4. Stream(c)' = <<>>
        BY <4>2, <4>3 DEF Stream
      <4> QED BY <3>1, <4>2, <4>4, WholeEmpty DEF StreamOK
    <3>2. CASE d # c
      BY <1>0, <2>1, <3>2, StreamSame DEF Streams
    <3> QED BY <3>1, <3>2
  <2>3. AnswerFits'
    <3>1. pc # "loop" => /\ peer'[writer] = peer[writer]
                         /\ Room(writer)' = Room(writer)
      BY <1>0, <1>w, <2>1 DEF Room
    <3>2. pc # "loop" => Room(writer)' \in Int /\ Room(writer)' >= Room(writer)
      BY <1>r, <3>1
    <3> QED BY <1>0, <3>1, <3>2, AnswerStillFits
  <2> QED BY <2>2, <2>3 DEF FramesInv
<1>2. ASSUME NEW c \in Conns, NEW l \in Lines, Send(c, l) PROVE FramesInv'
  <2>1. peer' = peer /\ outbox' = outbox
    BY <1>2 DEF Send
  <2>2. Streams'
    BY <1>0, <2>1, StreamSame DEF Streams
  <2>3. AnswerFits'
    <3>1. pc # "loop" => /\ peer'[writer] = peer[writer]
                         /\ Room(writer)' = Room(writer)
      BY <1>w, <2>1 DEF Room
    <3>2. pc # "loop" => Room(writer)' \in Int /\ Room(writer)' >= Room(writer)
      BY <1>r, <3>1
    <3> QED BY <1>0, <3>1, <3>2, AnswerStillFits
  <2> QED BY <2>2, <2>3 DEF FramesInv
<1>3. ASSUME NEW c \in Conns, Take(c) PROVE FramesInv'
  <2> DEFINE o == outbox[c]
             t == Tail(o)
  <2>1. /\ peer[c] = "up" /\ o # <<>> /\ peer' = peer
        /\ outbox' = [outbox EXCEPT ![c] = t] /\ o \in Seq(Token)
    BY <1>0, <1>3 DEF Take
  <2>5. /\ <<Head(o)>> \in Seq(Token) /\ Stream(c)' \in Seq(Token)
        /\ Whole(<<Head(o)>> \o Stream(c)')
    <3>1. Whole(Stream(c))
      BY <1>0, <2>1 DEF Streams, StreamOK
    <3>2. /\ Head(outbox[c]) \in Token /\ Stream(c)' \in Seq(Token)
          /\ Stream(c) = <<Head(outbox[c])>> \o Stream(c)'
      BY <1>0, <1>3, StreamTaken
    <3>3. <<Head(outbox[c])>> \in Seq(Token)
      BY <3>2
    <3> QED BY <3>1, <3>2, <3>3
  <2> HIDE DEF t
  <2>6. Whole(Stream(c)')
    BY <2>5, WholeSuffix
  <2>7. Streams'
    <3> SUFFICES ASSUME NEW d \in Conns PROVE StreamOK(d)'
      BY DEF Streams
    <3>1. CASE d = c
      BY <2>1, <2>6, <3>1 DEF StreamOK
    <3>2. CASE d # c
      BY <1>0, <2>1, <3>2, StreamSame DEF Streams
    <3> QED BY <3>1, <3>2
  <2>8. AnswerFits'
    <3>1. pc # "loop" => Room(writer)' \in Int /\ Room(writer)' >= Room(writer)
      <4>1. CASE writer = c
        <5>1. Room(c)' \in Int /\ Room(c)' >= Room(c)
          BY <1>3, TakenRoom
        <5> QED BY <1>w, <4>1, <5>1 DEF Room
      <4>2. CASE writer # c /\ pc # "loop"
        <5>1. Room(writer)' = Room(writer)
          BY <1>0, <1>w, <2>1, <4>2 DEF Room
        <5> QED BY <1>r, <4>2, <5>1
      <4> QED BY <4>1, <4>2
    <3> QED BY <1>0, <2>1, <3>1, AnswerStillFits
  <2> QED BY <2>7, <2>8 DEF FramesInv
<1>4. ASSUME NEW c \in Conns, Hangup(c) PROVE FramesInv'
  <2>1. /\ peer' = [peer EXCEPT ![c] = "gone"]
        /\ outbox' = [outbox EXCEPT ![c] = <<>>]
    BY <1>4 DEF Hangup
  <2>2. Streams'
    <3> SUFFICES ASSUME NEW d \in Conns PROVE StreamOK(d)'
      BY DEF Streams
    <3>1. CASE d = c
      BY <1>0, <2>1, <3>1 DEF StreamOK
    <3>2. CASE d # c
      BY <1>0, <2>1, <3>2, StreamSame DEF Streams
    <3> QED BY <3>1, <3>2
  <2>3. AnswerFits'
    <3>1. pc # "loop" /\ peer'[writer] = "up" =>
            writer # c /\ Room(writer)' = Room(writer)
      BY <1>0, <1>w, <2>1 DEF Room
    <3>2. pc # "loop" => peer'[writer] \in {peer[writer], "gone"}
      BY <1>0, <2>1
    <3>3. pc # "loop" /\ peer'[writer] = "up" =>
            Room(writer)' \in Int /\ Room(writer)' >= Room(writer)
      BY <1>r, <3>1
    <3> QED BY <1>0, <3>2, <3>3, AnswerStillFits
  <2> QED BY <2>2, <2>3 DEF FramesInv
<1> QED BY <1>1, <1>2, <1>3, <1>4 DEF PeerStep

LEMMA FramesNext ==
  ASSUME LargeAlone, Inv, Inv', PeersOK, SelectedStillReady, FramesInv, [Next]_vars
  PROVE  FramesInv'
<1>1. CASE \/ Select
           \/ \E c \in Conns : Accept(c) \/ Read(c) \/ ReadClose(c)
  <2>1. PICK c : Select \/ (c \in Conns /\ (Accept(c) \/ Read(c) \/ ReadClose(c)))
    BY <1>1
  <2>2. CASE c \in Conns
    BY <2>1, <2>2, FramesRound
  <2>3. CASE Select
    <3>1. pc = "loop" /\ pc' = "loop" /\ UNCHANGED <<peer, outbox>>
      BY <2>3 DEF Select, wireVars
    <3>2. \A d \in Conns : ~Busy(d) /\ ~Busy(d)'
      BY <3>1 DEF Busy
    <3>3. Streams'
      BY <3>1, <3>2, StreamKept DEF FramesInv, Streams
    <3> QED BY <3>1, <3>3 DEF FramesInv, AnswerFits
  <2> QED BY <2>1, <2>2, <2>3
<1>2. CASE \E c \in Conns : AnswerLarge(c) \/ AnswerDm(c) \/ AnswerText(c)
  BY <1>2, FramesAnswer
<1>3. CASE GetData \/ DmLine \/ DmRemote
  BY <1>3, FramesPlan
<1>4. CASE DmShort \/ Finish
  BY <1>4, FramesEnd
<1>5. CASE ChannelWrite
  BY <1>5, FramesWrite
<1>6. CASE WriteVoid \/ WriteFails
  BY <1>6, FramesVoid
<1>7. CASE PeerStep
  BY <1>7, FramesPeer
<1>8. CASE UNCHANGED vars
  <2>1. UNCHANGED <<peer, outbox, pc, mode, writer, cmds, plan>>
    BY <1>8 DEF vars, wireVars, serverVars
  <2> QED BY <2>1 DEF FramesInv, Streams, StreamOK, Stream, Busy, AnswerFits,
                      AnswerRoom, PlanShape, Room
<1> QED
  BY <1>1, <1>2, <1>3, <1>4, <1>5, <1>6, <1>7, <1>8 DEF Next, ServerStep

LEMMA FramesInit == Init => PeersOK /\ SelectedStillReady /\ FramesInv
<1> SUFFICES ASSUME Init PROVE PeersOK /\ SelectedStillReady /\ FramesInv
  OBVIOUS
<1>1. /\ peer = [c \in Conns |-> "absent"] /\ outbox = [c \in Conns |-> <<>>]
      /\ conn = [c \in Conns |-> "none"] /\ selected = {} /\ pc = "loop"
  BY DEF Init, WireInit, ServerInit
<1>2. Streams
  BY <1>1 DEF Streams, StreamOK
<1> QED BY <1>1, <1>2 DEF PeersOK, SelectedStillReady, FramesInv, AnswerFits

LEMMA FramesInvariance ==
  ASSUME LinesAlone PROVE Spec => []FramesInv
<1>1. Init => PeersOK /\ SelectedStillReady /\ FramesInv
  BY FramesInit
<1>2. Inv /\ PeersOK /\ [Next]_vars => PeersOK'
  BY PeersNext
<1>3. Inv /\ SelectedStillReady /\ [Next]_vars => SelectedStillReady'
  BY SelectedNext
<1>4. Inv /\ Inv' /\ PeersOK /\ SelectedStillReady /\ FramesInv /\ [Next]_vars
        => FramesInv'
  <2>1. Inv => LargeAlone
    BY DEF Inv, SegmentsOK, GoodSegment, LargeAlone
  <2> QED BY <2>1, FramesNext
<1> QED BY <1>1, <1>2, <1>3, <1>4, Invariance, PTL DEF Spec

\* Frames reach every client whole, however little each channel.write takes
\* and whatever the other clients do, when each line is one command: then the
\* answer of a line is one frame or one line of text, and the room found by the
\* selector is enough for its header.
THEOREM FramesAlwaysWhole ==
  ASSUME LinesAlone PROVE Spec => []FramesWhole
<1>1. Inv /\ FramesInv => FramesWhole
  <2> SUFFICES ASSUME Inv, FramesInv, NEW c \in Conns, NEW i \in 1..Len(outbox[c])
      PROVE  LET s == outbox[c]
                 Is(k, t) == IF k <= Len(s) THEN s[k].tok = t
                                            ELSE Busy(c) /\ plan # <<>>
             IN /\ s[i].tok = "hash" => Is(i + 1, "len")
                /\ s[i].tok = "len" /\ s[i].n > 0 =>
                     \A j \in 1..s[i].n : Is(i + 1, "nl") /\ Is(i + 1 + j, "data")
                /\ s[i].tok = "len" /\ i + s[i].n + 2 <= Len(s) =>
                     s[i + s[i].n + 2].tok # "data"
    BY DEF FramesWhole
  <2> DEFINE s == outbox[c]
             more == Busy(c) /\ plan # <<>>
             f == IF Busy(c) THEN Flat(plan) ELSE <<>>
             g == s \o f
             ls == Len(s)
             lg == Len(g)
             n == s[i].n
  <2>1. s \in Seq(Token) /\ f \in Seq(Token) /\ ls \in Nat /\ i \in 1..ls
    BY FlatType, EmptySeq, LenProperties DEF Inv, TypeOK, WireTypeOK
  <2>2. Whole(g)
    <3>1. s # <<>>
      BY EmptySeq
    <3> QED BY <3>1 DEF FramesInv, Streams, StreamOK, Stream
  <2>3. lg \in Nat /\ i \in 1..lg
    <3>1. lg = ls + Len(f) /\ Len(f) \in Nat
      BY <2>1, LenProperties, ConcatProperties
    <3> HIDE DEF ls, lg
    <3> QED BY <2>1, <3>1
  <2>4. \A k \in 1..ls : g[k] = s[k]
    <3>1. \A k \in 1..ls + Len(f) : g[k] = IF k <= ls THEN s[k] ELSE f[k - ls]
      BY <2>1, ConcatProperties
    <3>2. Len(f) \in Nat
      BY <2>1, LenProperties
    <3> HIDE DEF g, ls, s, f
    <3> QED BY <2>1, <3>1, <3>2
  <2>5. lg > ls => more
    <3>1. CASE f = <<>>
      <4>1. g = s
        BY <2>1, <3>1, ConcatEmptySeq
      <4>2. lg = ls
        BY <4>1
      <4> HIDE DEF ls, lg
      <4> QED BY <2>1, <4>2
    <3>2. CASE f # <<>>
      BY <3>2, FlatEmpty
    <3> QED BY <3>1, <3>2
  <2>6. n \in Nat
    <3>1. s[i] \in Token
      BY <2>1, ElementOfSeq
    <3> HIDE DEF s
    <3> QED BY <3>1 DEF Token
  <2>7. /\ g[i].tok = "hash" => i < lg /\ g[i + 1].tok = "len"
        /\ g[i].tok = "len" /\ g[i].n > 0 =>
             /\ i + 1 + g[i].n <= lg /\ g[i + 1].tok = "nl"
             /\ \A j \in 1..g[i].n : g[i + 1 + j].tok = "data"
        /\ g[i].tok = "len" /\ i + g[i].n + 2 <= lg => g[i + g[i].n + 2].tok # "data"
    BY <2>2, <2>3 DEF Whole
  <2>8. g[i] = s[i] /\ g[i].n = n
    BY <2>1, <2>4
  <2> HIDE DEF s, g, f, ls, lg, more
  <2>9. ASSUME NEW k \in Nat, NEW t, k >= 1, k <= lg, g[k].tok = t
        PROVE  IF k <= ls THEN s[k].tok = t ELSE more
    <3>1. CASE k <= ls
      BY <2>4, <2>9, <3>1
    <3>2. CASE ~(k <= ls)
      BY <2>1, <2>3, <2>5, <2>9, <3>2
    <3> QED BY <3>1, <3>2
  <2>10. ASSUME s[i].tok = "hash"
         PROVE  IF i + 1 <= ls THEN s[i + 1].tok = "len" ELSE more
    <3>1. g[i + 1].tok = "len" /\ i < lg
      BY <2>7, <2>8, <2>10
    <3>2. i + 1 \in Nat /\ i + 1 >= 1 /\ i + 1 <= lg
      BY <2>1, <2>3, <3>1
    <3> QED BY <2>9, <3>1, <3>2
  <2>11. ASSUME s[i].tok = "len", n > 0, NEW j \in 1..n
         PROVE  /\ IF i + 1 <= ls THEN s[i + 1].tok = "nl" ELSE more
                /\ IF i + 1 + j <= ls THEN s[i + 1 + j].tok = "data" ELSE more
    <3>1. /\ i + 1 + n <= lg /\ g[i + 1].tok = "nl" /\ g[i + 1 + j].tok = "data"
      BY <2>7, <2>8, <2>11
    <3> HIDE DEF n
    <3>2. /\ i + 1 \in Nat /\ i + 1 >= 1 /\ i + 1 <= lg
          /\ i + 1 + j \in Nat /\ i + 1 + j >= 1 /\ i + 1 + j <= lg
      BY <2>1, <2>3, <2>6, <3>1
    <3> QED BY <2>9, <3>1, <3>2
  <2>12. ASSUME s[i].tok = "len", i + n + 2 <= ls
         PROVE  s[i + n + 2].tok # "data"
    <3> DEFINE k == i + n + 2
    <3>1. k \in 1..ls /\ k <= lg
      <4>1. lg = ls + Len(f) /\ Len(f) \in Nat
        BY <2>1, LenProperties, ConcatProperties DEF lg, ls, g
      <4> HIDE DEF n
      <4> QED BY <2>1, <2>6, <2>12, <4>1
    <3>2. g[k].tok # "data"
      BY <2>7, <2>8, <2>12, <3>1
    <3> HIDE DEF k
    <3>3. s[k].tok # "data"
      BY <2>4, <3>1, <3>2
    <3> QED BY <3>3 DEF k
  <2> QED BY <2>10, <2>11, <2>12 DEF s, ls, more
<1> QED BY <1>1, Invariance, FramesInvariance, PTL

-----------------------------------------------------------------------------
(* Requests are answered in the order they were sent.  A request is in the *)
(* inbox, attached to the key, or named by the tokens of its answer.       *)

FirstReq(r) == r.reqs[1]
LastReq(r) == r.reqs[Len(r.reqs)]

\* What was sent and not read yet.
Asked(c) ==
  LET q == inbox[c] IN
    /\ \A i \in 1..Len(q) : LastReq(q[i]) \in 0..sent[c]
    /\ \A i, j \in 1..Len(q) : i < j => LastReq(q[i]) < FirstReq(q[j])

\* What was read and not answered, or not in full.
Attached(c) ==
  interest[c] = "write" =>
    /\ LastReq(attach[c]) \in 0..sent[c]
    /\ \A j \in 1..Len(inbox[c]) : LastReq(attach[c]) < FirstReq(inbox[c][j])
    /\ \A i \in 1..Len(outbox[c]) :
         \/ Busy(c) /\ outbox[c][i].of = attach[c]
         \/ LastReq(outbox[c][i].of) < FirstReq(attach[c])

\* What was answered and not taken.
Answered(c) ==
  LET o == outbox[c] IN
    /\ \A i \in 1..Len(o) : LastReq(o[i].of) \in 0..sent[c]
    /\ \A i \in 1..Len(o), j \in 1..Len(inbox[c]) :
         LastReq(o[i].of) < FirstReq(inbox[c][j])
    /\ \A i, j \in 1..Len(o) :
         i < j => o[i].of = o[j].of \/ LastReq(o[i].of) < FirstReq(o[j].of)

OrderOK(c) == Asked(c) /\ Attached(c) /\ Answered(c)

\* Tokens of the answer to r; the plan has no others.
Of(r) == {t \in Token : t.of = r}
PlanOf ==
  /\ pc = "write" => plan \in Seq(WriteOf(Of(attach[writer])))
  /\ pc \in {"dm", "write"} => mode # "none"

OrderInv == (\A c \in Conns : OrderOK(c)) /\ PlanOf

\* Nothing new on a connection.
LEMMA OrderKept ==
  ASSUME NEW c \in Conns, OrderOK(c), sent'[c] = sent[c],
         inbox'[c] = inbox[c] \/ inbox'[c] = <<>>,
         outbox'[c] = outbox[c] \/ outbox'[c] = <<>>,
         interest'[c] = "write" => /\ interest[c] = "write" /\ attach'[c] = attach[c]
                                   /\ Busy(c) => Busy(c)'
  PROVE  OrderOK(c)'
<1>0. Len(<<>>) = 0
  BY EmptySeq
<1>1. /\ \A i \in 1..Len(inbox'[c]) : i \in 1..Len(inbox[c]) /\ inbox'[c][i] = inbox[c][i]
      /\ \A i \in 1..Len(outbox'[c]) : i \in 1..Len(outbox[c]) /\ outbox'[c][i] = outbox[c][i]
  BY <1>0
<1>2. Asked(c)'
  BY <1>1 DEF OrderOK, Asked
<1>3. Answered(c)'
  <2> DEFINE o == outbox[c]
             p == outbox'[c]
             q == inbox[c]
             u == inbox'[c]
  <2>1. /\ \A i \in 1..Len(o) : LastReq(o[i].of) \in 0..sent[c]
        /\ \A i \in 1..Len(o), j \in 1..Len(q) : LastReq(o[i].of) < FirstReq(q[j])
        /\ \A i, j \in 1..Len(o) :
             i < j => o[i].of = o[j].of \/ LastReq(o[i].of) < FirstReq(o[j].of)
    BY DEF OrderOK, Answered
  <2>2. /\ \A i \in 1..Len(u) : i \in 1..Len(q) /\ u[i] = q[i]
        /\ \A i \in 1..Len(p) : i \in 1..Len(o) /\ p[i] = o[i]
    BY <1>1
  <2> HIDE DEF o, p, q, u
  <2>3. \A i \in 1..Len(p) : LastReq(p[i].of) \in 0..sent[c]
    BY <2>1, <2>2
  <2>4. \A i \in 1..Len(p), j \in 1..Len(u) : LastReq(p[i].of) < FirstReq(u[j])
    BY <2>1, <2>2
  <2>5. \A i, j \in 1..Len(p) :
          i < j => p[i].of = p[j].of \/ LastReq(p[i].of) < FirstReq(p[j].of)
    BY <2>1, <2>2
  <2> QED BY <2>3, <2>4, <2>5 DEF Answered, p, u
<1>4. Attached(c)'
  BY <1>1 DEF OrderOK, Attached
<1> QED BY <1>2, <1>3, <1>4 DEF OrderOK

\* The tokens of a request's answer.
LEMMA OfToken ==
  ASSUME NEW r \in Segment, NEW n \in Nat,
         NEW t \in {"hash", "len", "nl", "data", "text"}
  PROVE  Tok(t, r, n) \in Of(r)
<1>1. Tok(t, r, n) \in Token
  BY TokenType
<1> QED BY <1>1 DEF Of, Tok

LEMMA OfPlans ==
  ASSUME NEW r \in Segment
  PROVE  /\ Line(r) \in Seq(WriteOf(Of(r)))
         /\ NullFrame(r) \in Seq(WriteOf(Of(r)))
         /\ \A n \in Nat : Frame(r, n) \in Seq(WriteOf(Of(r)))
BY OfToken, LineType, NullFrameType, FrameType

\* A segment is read: it was asked before what stays in the inbox, and after
\* what is answered.
LEMMA OrderRead ==
  ASSUME Inv, OrderInv, NEW c \in Conns, Read(c)
  PROVE  OrderOK(c)'
<1> DEFINE q == inbox[c]
           r == Head(q)
           t == Tail(q)
<1>1. /\ q \in Seq(GoodSegment) /\ q # <<>> /\ t \in Seq(GoodSegment)
      /\ Len(t) \in Nat /\ Len(q) = Len(t) + 1
      /\ r = q[1] /\ \A i \in 1..Len(t) : t[i] = q[i + 1]
  BY HeadTailProperties, LenProperties DEF Read, Inv, SegmentsOK
<1>2. /\ inbox'[c] = t /\ UNCHANGED <<outbox, sent>>
      /\ interest'[c] = "write" => attach'[c] = r
  BY DEF Read, Reading, Inv, TypeOK, WireTypeOK
<1>3. Asked(c) /\ Answered(c)
  BY DEF OrderInv, OrderOK
<1> HIDE DEF r, t, q
<1>4. /\ 1 \in 1..Len(q)
      /\ \A i \in 1..Len(t) : i + 1 \in 1..Len(q) /\ 1 < i + 1
      /\ \A i, j \in 1..Len(t) : i < j => i + 1 < j + 1
  BY <1>1
<1>5. /\ \A i \in 1..Len(t) : LastReq(t[i]) \in 0..sent[c]
      /\ \A i, j \in 1..Len(t) : i < j => LastReq(t[i]) < FirstReq(t[j])
      /\ LastReq(r) \in 0..sent[c]
      /\ \A j \in 1..Len(t) : LastReq(r) < FirstReq(t[j])
  <2>1. /\ \A i \in 1..Len(q) : LastReq(q[i]) \in 0..sent[c]
        /\ \A i, j \in 1..Len(q) : i < j => LastReq(q[i]) < FirstReq(q[j])
    BY <1>3 DEF Asked, q
  <2> QED BY <1>1, <1>4, <2>1
<1>6. \A i \in 1..Len(outbox[c]) :
        /\ LastReq(outbox[c][i].of) < FirstReq(r)
        /\ \A j \in 1..Len(t) : LastReq(outbox[c][i].of) < FirstReq(t[j])
  <2>1. \A i \in 1..Len(outbox[c]), j \in 1..Len(q) :
          LastReq(outbox[c][i].of) < FirstReq(q[j])
    BY <1>3 DEF Answered, q
  <2> QED BY <1>1, <1>4, <2>1
<1>7. Asked(c)'
  BY <1>2, <1>5 DEF Asked
<1>8. Attached(c)'
  BY <1>2, <1>5, <1>6 DEF Attached
<1>9. Answered(c)'
  BY <1>2, <1>3, <1>6 DEF Answered
<1> QED BY <1>7, <1>8, <1>9 DEF OrderOK

\* A write adds tokens of the answer to what is attached.
LEMMA OrderWrite ==
  ASSUME Inv, OrderInv, ChannelWrite, NEW c \in Conns, c = writer
  PROVE  OrderOK(c)' /\ plan' \in Seq(WriteOf(Of(attach[writer])))
<1> DEFINE w == Head(plan)
           n == Len(w.toks)
           room == Room(writer)
           k == Smaller(Offered(w), room)
           a == SubSeq(w.toks, 1, k)
           r == attach[writer]
           o == outbox[writer]
<1>1. /\ pc = "write" /\ plan # <<>> /\ writer \in Conns /\ interest[writer] = "write"
      /\ plan \in Seq(WriteOf(Of(r))) /\ mode # "none" /\ o \in Seq(Token)
      /\ outbox \in [Conns -> Seq(Token)]
  BY DEF ChannelWrite, Writing, OrderInv, PlanOf, Inv, KeysOK, TypeOK, WireTypeOK
<1>2. /\ UNCHANGED <<pc, mode, writer, inbox, sent, interest, attach>>
      /\ outbox' = [outbox EXCEPT ![writer] = @ \o a]
      /\ plan' = PlanAfter(w, k)
  BY DEF ChannelWrite, Writing
<1>3. w \in WriteOf(Of(r)) /\ w.toks \in Seq(Of(r)) /\ n \in Nat
  <2>1. w \in WriteOf(Of(r))
    BY <1>1, HeadTailProperties
  <2>2. w.toks \in Seq(Of(r))
    BY <2>1 DEF WriteOf
  <2> QED BY <2>1, <2>2, LenProperties
<1>4. k \in Nat /\ k <= n
  <2>1. Len(o) \in Nat /\ Len(o) <= SndCap
    BY <1>1, LenProperties DEF Inv, BufferOK
  <2>2. room \in Nat
    BY <2>1, SndCapAssumption DEF Room
  <2>3. Offered(w) \in Nat /\ Offered(w) <= n
    <3>1. Offered(w) = IF mode = "large" THEN Smaller(DataBlock, n) ELSE n
      BY DEF Offered
    <3> HIDE DEF w, n
    <3> QED BY <1>3, <3>1, DataBlockAssumption DEF Smaller
  <2> HIDE DEF n, room, w
  <2> QED BY <2>2, <2>3, <1>3 DEF Smaller
<1>5. plan' \in Seq(WriteOf(Of(r)))
  <2>1. PlanAfter(Head(plan), k) \in Seq(WriteOf(Of(r)))
    <3> HIDE DEF k
    <3> QED BY <1>1, <1>4, PlanAfterType
  <2> QED BY <1>2, <2>1
<1> HIDE DEF k
<1>6. a \in Seq(Of(r))
  <2>1. \A i \in 1..n : w.toks[i] \in Of(r)
    BY <1>3, ElementOfSeq
  <2> HIDE DEF n
  <2>2. \A i \in 1..k : w.toks[i] \in Of(r)
    BY <1>3, <1>4, <2>1
  <2> QED BY <1>4, <2>2, SubSeqProperties
<1> HIDE DEF a
<1>7. \A i \in 1..Len(a) : a[i].of = r
  BY <1>6, ElementOfSeq DEF Of
<1> DEFINE p == o \o a
           lo == Len(o)
           la == Len(a)
<1>8. /\ Len(p) = lo + la /\ lo \in Nat /\ la \in Nat
      /\ \A i \in 1..lo + la : p[i] = IF i <= lo THEN o[i] ELSE a[i - lo]
  <2>1. a \in Seq(Token)
    BY <1>6, SeqMonotonic DEF Of
  <2> QED BY <1>1, <2>1, ConcatProperties, LenProperties
<1>9. outbox'[c] = p
  BY <1>1, <1>2 DEF a
<1> HIDE DEF p, lo, la
<1>10. \A i \in 1..Len(p) : (i \in 1..lo /\ p[i] = o[i]) \/ (i > lo /\ p[i].of = r)
  <2> SUFFICES ASSUME NEW i \in 1..Len(p)
               PROVE  (i \in 1..lo /\ p[i] = o[i]) \/ (i > lo /\ p[i].of = r)
    OBVIOUS
  <2>1. CASE i <= lo
    BY <1>8, <2>1
  <2>2. CASE ~(i <= lo)
    <3> DEFINE j == i - lo
    <3>1. j \in 1..la /\ i > lo /\ i \in 1..lo + la
      BY <1>8, <2>2
    <3>2. p[i] = a[j]
      BY <1>8, <2>2, <3>1
    <3> HIDE DEF j
    <3>3. a[j].of = r
      BY <1>7, <3>1 DEF la
    <3> QED BY <3>1, <3>2, <3>3
  <2> QED BY <2>1, <2>2
<1>11. Asked(c) /\ Attached(c) /\ Answered(c)
  BY <1>1 DEF OrderInv, OrderOK
<1>12. /\ LastReq(r) \in 0..sent[c]
       /\ \A j \in 1..Len(inbox[c]) : LastReq(r) < FirstReq(inbox[c][j])
       /\ \A i \in 1..lo : o[i].of = r \/ LastReq(o[i].of) < FirstReq(r)
  BY <1>1, <1>11 DEF Attached, lo
<1>13. /\ \A i \in 1..lo : LastReq(o[i].of) \in 0..sent[c]
       /\ \A i \in 1..lo, j \in 1..Len(inbox[c]) :
            LastReq(o[i].of) < FirstReq(inbox[c][j])
       /\ \A i, j \in 1..lo :
            i < j => o[i].of = o[j].of \/ LastReq(o[i].of) < FirstReq(o[j].of)
  BY <1>11 DEF Answered, lo
<1>14. Busy(c)'
  BY <1>1, <1>2 DEF Busy
<1>15. Asked(c)'
  BY <1>2, <1>11 DEF Asked
<1>16. Attached(c)'
  <2>1. \A i \in 1..Len(p) : p[i].of = r \/ LastReq(p[i].of) < FirstReq(r)
    BY <1>10, <1>12
  <2> QED BY <1>2, <1>9, <1>12, <1>14, <2>1 DEF Attached
<1>17. Answered(c)'
  <2>1. \A i \in 1..Len(p) : LastReq(p[i].of) \in 0..sent[c]
    BY <1>10, <1>12, <1>13
  <2>2. \A i \in 1..Len(p), j \in 1..Len(inbox[c]) :
          LastReq(p[i].of) < FirstReq(inbox[c][j])
    BY <1>10, <1>12, <1>13
  <2>3. ASSUME NEW i \in 1..Len(p), NEW j \in 1..Len(p), i < j
        PROVE  p[i].of = p[j].of \/ LastReq(p[i].of) < FirstReq(p[j].of)
    <3>1. CASE j \in 1..lo /\ p[j] = o[j]
      <4>1. i \in 1..lo
        BY <1>8, <2>3, <3>1
      <4>2. p[i] = o[i]
        BY <1>8, <1>10, <4>1
      <4> QED BY <1>13, <2>3, <3>1, <4>1, <4>2
    <3>2. CASE p[j].of = r
      <4>1. CASE i \in 1..lo /\ p[i] = o[i]
        BY <1>12, <3>2, <4>1
      <4>2. CASE p[i].of = r
        BY <3>2, <4>2
      <4> QED BY <1>10, <4>1, <4>2
    <3> QED BY <1>10, <3>1, <3>2
  <2> QED BY <1>2, <1>9, <2>1, <2>2, <2>3 DEF Answered
<1> QED BY <1>2, <1>5, <1>15, <1>16, <1>17 DEF OrderOK

\* What is asked now is asked after everything before it.
LEMMA OrderSend ==
  ASSUME ~Tearing, Inv, OrderInv, NEW c \in Conns, NEW l \in Lines, Send(c, l),
         UNCHANGED serverVars
  PROVE  OrderOK(c)'
<1> DEFINE q == inbox[c]
           u == inbox'[c]
           lq == Len(q)
           lu == Len(u)
           m == sent[c] + 1
<1>1. /\ q \in Seq(GoodSegment) /\ inbox \in [Conns -> Seq(GoodSegment)] /\ lq \in Nat
      /\ sent[c] \in Nat /\ sent'[c] = m /\ UNCHANGED <<outbox, interest, attach>>
      /\ Busy(c)' <=> Busy(c)
  BY LenProperties DEF Send, Inv, SegmentsOK, TypeOK, WireTypeOK, serverVars, Busy
<1>2. /\ Asked(c) /\ Attached(c) /\ Answered(c)
  BY DEF OrderInv, OrderOK
\* Everything but the last segment is as it was, and the last is new, or what
\* was there with the new line behind it.
<1>3. /\ lu \in {lq, lq + 1} /\ lu \in Nat \ {0}
      /\ \A i \in 1..lu : i < lu => i \in 1..lq /\ u[i] = q[i]
      /\ LastReq(u[lu]) = m
      /\ \/ FirstReq(u[lu]) = m
         \/ lu = lq /\ FirstReq(u[lu]) = FirstReq(q[lu])
  <2> DEFINE new(us) == [reqs |-> <<m>>, units |-> us]
             last == q[lq]
             glued == [reqs |-> last.reqs \o <<m>>, units |-> Coalesced(last.units, l)]
  <2>1. CASE Arrive(c, <<new(l)>>)
    <3> DEFINE z == new(l)
    <3>1. u = q \o <<z>>
      BY <1>1, <2>1 DEF Arrive
    <3>2. LastReq(z) = m /\ FirstReq(z) = m
      <4>1. z.reqs = <<m>>
        OBVIOUS
      <4>2. Len(<<m>>) = 1 /\ <<m>>[1] = m
        OBVIOUS
      <4> HIDE DEF z
      <4> QED BY <4>1, <4>2 DEF LastReq, FirstReq
    <3>3. z \in GoodSegment
      <4>1. u \in Seq(GoodSegment)
        BY <1>1, SendGood DEF Inv, TypeOK
      <4>2. <<m>> \in Seq(Nat) /\ <<m>> # <<>>
        BY <1>1
      <4>3. /\ l \in Seq(Units) /\ l # <<>>
            /\ LinesBinaryFirst => BinaryFirst(l) /\ (LinesAlone => Len(l) = 1)
        BY LinesAssumption DEF LinesBinaryFirst, LinesAlone
      <4>4. LinesAlone => Len(l) = 1
        BY DEF LinesAlone
      <4> QED BY <4>2, <4>3, <4>4, SegmentsGood
    <3> HIDE DEF z
    <3>4. Len(<<z>>) = 1 /\ <<z>>[1] = z /\ <<z>> \in Seq(GoodSegment)
      BY <3>3
    <3> DEFINE y == <<z>>
    <3> HIDE DEF y
    <3>5. /\ Len(q \o y) = lq + 1
          /\ \A i \in 1..lq + 1 : (q \o y)[i] = IF i <= lq THEN q[i] ELSE y[i - lq]
      BY <1>1, <3>4, ConcatProperties DEF y
    <3>6. u = q \o y
      BY <3>1 DEF y
    <3> HIDE DEF u, q, lq, lu, m
    <3>7. lu = lq + 1 /\ \A i \in 1..lu : u[i] = IF i <= lq THEN q[i] ELSE y[i - lq]
      BY <3>5, <3>6 DEF lu
    <3>8. u[lu] = z
      <4>1. lu \in 1..lu /\ ~(lu <= lq) /\ lu - lq = 1
        BY <1>1, <3>7
      <4>2. u[lu] = y[lu - lq]
        BY <3>7, <4>1
      <4> QED BY <3>4, <4>1, <4>2 DEF y
    <3>9. \A i \in 1..lu : i < lu => i \in 1..lq /\ u[i] = q[i]
      BY <1>1, <3>7
    <3> QED BY <1>1, <3>2, <3>7, <3>8, <3>9
  <2>2. CASE q # <<>> /\ inbox' = [inbox EXCEPT ![c][lq] = glued]
    <3>1. u = [q EXCEPT ![lq] = glued]
      BY <1>1, <2>2
    <3>2. lq \in Nat \ {0} /\ lq \in 1..lq
      BY <1>1, <2>2, EmptySeq
    <3>3. last \in GoodSegment
      BY <1>1, <3>2, ElementOfSeq
    <3>4. last.reqs \in Seq(Nat) /\ last.reqs # <<>>
      BY <3>3 DEF GoodSegment, Segment
    <3>5. LastReq(glued) = m /\ FirstReq(glued) = FirstReq(last)
      <4> DEFINE rs == last.reqs
                 lr == Len(rs)
                 y == <<m>>
      <4>1. lr \in Nat \ {0} /\ rs \in Seq(Nat)
        BY <3>4, EmptySeq
      <4>2. y \in Seq(Nat) /\ Len(y) = 1 /\ y[1] = m
        BY <1>1
      <4>3. glued.reqs = rs \o y
        OBVIOUS
      <4> HIDE DEF glued, rs, y, lq, m
      <4>4. /\ Len(rs \o y) = lr + 1
            /\ \A i \in 1..lr + 1 : (rs \o y)[i] = IF i <= lr THEN rs[i] ELSE y[i - lr]
        <5> DEFINE ly == Len(y)
        <5>1. /\ Len(rs \o y) = lr + ly
              /\ \A i \in 1..lr + ly : (rs \o y)[i] = IF i <= lr THEN rs[i] ELSE y[i - lr]
          BY <4>1, <4>2, ConcatProperties
        <5>2. ly = 1
          BY <4>2
        <5> HIDE DEF ly, lr
        <5> QED BY <5>1, <5>2
      <4> HIDE DEF lr
      <4>5. (rs \o y)[1] = rs[1]
        <5>1. 1 \in 1..lr + 1 /\ 1 <= lr
          BY <4>1
        <5> QED BY <4>4, <5>1
      <4>6. (rs \o y)[lr + 1] = m
        <5> DEFINE k == lr + 1
        <5>1. k \in 1..lr + 1 /\ ~(k <= lr) /\ k - lr = 1
          BY <4>1
        <5> HIDE DEF k
        <5>2. (rs \o y)[k] = y[k - lr]
          BY <4>4, <5>1
        <5>3. (rs \o y)[k] = m
          BY <4>2, <5>1, <5>2
        <5> QED BY <5>3 DEF k
      <4> QED BY <4>3, <4>4, <4>5, <4>6 DEF LastReq, FirstReq, rs
    <3> HIDE DEF glued
    <3>6. /\ \A i \in 1..lq : u[i] = IF i = lq THEN glued ELSE q[i]
          /\ lu = lq
      <4>1. DOMAIN q = 1..lq
        BY <1>1, LenProperties
      <4>2. DOMAIN u = 1..lq /\ u = [i \in 1..lq |-> IF i = lq THEN glued ELSE q[i]]
        BY <3>1, <4>1
      <4>3. lu = lq
        <5> HIDE DEF lq, q
        <5> QED BY <1>1, <4>2
      <4> QED BY <4>2, <4>3
    <3> HIDE DEF u, q, lq, lu, m
    <3> QED BY <3>2, <3>5, <3>6
  <2> QED BY <2>1, <2>2 DEF Send
<1> HIDE DEF u, q, lq, lu
<1>4. /\ \A i \in 1..lq : LastReq(q[i]) \in 0..sent[c]
      /\ \A i, j \in 1..lq : i < j => LastReq(q[i]) < FirstReq(q[j])
  BY <1>2 DEF Asked, q, lq
<1>5. \A i \in 1..lu : i < lu \/ i = lu
  BY <1>1, <1>3
<1>6. \A x : x \in 0..sent[c] => x \in 0..m /\ x < m
  BY <1>1
<1>7. m \in 0..m
  BY <1>1
<1> HIDE DEF m
<1>8. Asked(c)'
  <2>1. \A i \in 1..lu : LastReq(u[i]) \in 0..m
    BY <1>3, <1>4, <1>5, <1>6, <1>7
  <2>2. ASSUME NEW i \in 1..lu, NEW j \in 1..lu, i < j
        PROVE  LastReq(u[i]) < FirstReq(u[j])
    <3>1. i < lu /\ i \in 1..lq /\ u[i] = q[i]
      <4>1. i < lu
        BY <1>3, <2>2
      <4> QED BY <1>3, <4>1
    <3>2. CASE j < lu
      BY <1>3, <1>4, <2>2, <3>1, <3>2
    <3>3. CASE j = lu /\ FirstReq(u[lu]) = m
      BY <1>4, <1>6, <3>1, <3>3
    <3>4. CASE j = lu /\ lu = lq /\ FirstReq(u[lu]) = FirstReq(q[lu])
      BY <1>4, <2>2, <3>1, <3>4
    <3> QED BY <1>3, <1>5, <3>2, <3>3, <3>4
  <2> QED BY <1>1, <2>1, <2>2 DEF Asked, u, lu
\* Anything that came before all of q comes before all of u.
<1>9. ASSUME NEW x \in 0..sent[c], \A j \in 1..lq : x < FirstReq(q[j])
      PROVE  \A j \in 1..lu : x < FirstReq(u[j])
  <2> SUFFICES ASSUME NEW j \in 1..lu PROVE x < FirstReq(u[j])
    OBVIOUS
  <2>1. CASE j < lu
    BY <1>3, <1>9, <2>1
  <2>2. CASE j = lu /\ FirstReq(u[lu]) = m
    BY <1>6, <2>2
  <2>3. CASE j = lu /\ lu = lq /\ FirstReq(u[lu]) = FirstReq(q[lu])
    BY <1>9, <2>3
  <2> QED BY <1>3, <1>5, <2>1, <2>2, <2>3
<1>10. Attached(c)'
  <2> SUFFICES ASSUME interest[c] = "write"
               PROVE  /\ LastReq(attach[c]) \in 0..m
                      /\ \A j \in 1..lu : LastReq(attach[c]) < FirstReq(u[j])
                      /\ \A i \in 1..Len(outbox[c]) :
                           \/ Busy(c) /\ outbox[c][i].of = attach[c]
                           \/ LastReq(outbox[c][i].of) < FirstReq(attach[c])
    BY <1>1 DEF Attached, u, lu
  <2>1. /\ LastReq(attach[c]) \in 0..sent[c]
        /\ \A j \in 1..lq : LastReq(attach[c]) < FirstReq(q[j])
        /\ \A i \in 1..Len(outbox[c]) :
             \/ Busy(c) /\ outbox[c][i].of = attach[c]
             \/ LastReq(outbox[c][i].of) < FirstReq(attach[c])
    BY <1>2 DEF Attached, q, lq
  <2> QED BY <1>6, <1>9, <2>1
<1>11. Answered(c)'
  <2> DEFINE o == outbox[c]
  <2>1. /\ \A i \in 1..Len(o) : LastReq(o[i].of) \in 0..sent[c]
        /\ \A i \in 1..Len(o), j \in 1..lq : LastReq(o[i].of) < FirstReq(q[j])
        /\ \A i, j \in 1..Len(o) :
             i < j => o[i].of = o[j].of \/ LastReq(o[i].of) < FirstReq(o[j].of)
    BY <1>2 DEF Answered, q, lq
  <2> HIDE DEF o
  <2>2. \A i \in 1..Len(o) : LastReq(o[i].of) \in 0..m
    BY <1>6, <2>1
  <2>3. \A i \in 1..Len(o), j \in 1..lu : LastReq(o[i].of) < FirstReq(u[j])
    BY <1>9, <2>1
  <2> QED BY <1>1, <2>1, <2>2, <2>3 DEF Answered, u, lu, o
<1> QED BY <1>8, <1>10, <1>11 DEF OrderOK

\* What is taken was answered first.
LEMMA OrderTake ==
  ASSUME Inv, OrderInv, NEW c \in Conns, Take(c), UNCHANGED serverVars
  PROVE  OrderOK(c)'
<1> DEFINE o == outbox[c]
           p == outbox'[c]
<1>1. /\ o \in Seq(Token) /\ o # <<>> /\ p = Tail(o)
      /\ UNCHANGED <<inbox, sent, interest, attach>> /\ (Busy(c)' <=> Busy(c))
  BY DEF Take, Inv, TypeOK, WireTypeOK, serverVars, Busy
<1>2. /\ Len(p) \in Nat /\ Len(o) = Len(p) + 1
      /\ \A i \in 1..Len(p) : p[i] = o[i + 1]
  BY <1>1, HeadTailProperties, LenProperties
<1>3. /\ Asked(c) /\ Attached(c) /\ Answered(c)
  BY DEF OrderInv, OrderOK
<1> HIDE DEF o, p
<1>4. /\ \A i \in 1..Len(p) : i + 1 \in 1..Len(o)
      /\ \A i, j \in 1..Len(p) : i < j => i + 1 < j + 1
  BY <1>2
<1>5. Asked(c)'
  BY <1>1, <1>3 DEF Asked
<1>6. Attached(c)'
  <2>1. interest[c] = "write" =>
          /\ LastReq(attach[c]) \in 0..sent[c]
          /\ \A j \in 1..Len(inbox[c]) : LastReq(attach[c]) < FirstReq(inbox[c][j])
          /\ \A i \in 1..Len(o) : \/ Busy(c) /\ o[i].of = attach[c]
                                  \/ LastReq(o[i].of) < FirstReq(attach[c])
    BY <1>3 DEF Attached, o
  <2>2. interest[c] = "write" =>
          \A i \in 1..Len(p) : \/ Busy(c) /\ p[i].of = attach[c]
                               \/ LastReq(p[i].of) < FirstReq(attach[c])
    BY <1>2, <1>4, <2>1
  <2> QED BY <1>1, <2>1, <2>2 DEF Attached, p
<1>7. Answered(c)'
  <2>1. /\ \A i \in 1..Len(o) : LastReq(o[i].of) \in 0..sent[c]
        /\ \A i \in 1..Len(o), j \in 1..Len(inbox[c]) :
             LastReq(o[i].of) < FirstReq(inbox[c][j])
        /\ \A i, j \in 1..Len(o) :
             i < j => o[i].of = o[j].of \/ LastReq(o[i].of) < FirstReq(o[j].of)
    BY <1>3 DEF Answered, o
  <2>2. \A i \in 1..Len(p) : LastReq(p[i].of) \in 0..sent[c]
    BY <1>2, <1>4, <2>1
  <2>3. \A i \in 1..Len(p), j \in 1..Len(inbox[c]) :
          LastReq(p[i].of) < FirstReq(inbox[c][j])
    BY <1>2, <1>4, <2>1
  <2>4. ASSUME NEW i \in 1..Len(p), NEW j \in 1..Len(p), i < j
        PROVE  p[i].of = p[j].of \/ LastReq(p[i].of) < FirstReq(p[j].of)
    <3> DEFINE k == i + 1
               m == j + 1
    <3>1. /\ k \in 1..Len(o) /\ m \in 1..Len(o) /\ k < m
          /\ p[i] = o[k] /\ p[j] = o[m]
      BY <1>2, <1>4, <2>4
    <3> HIDE DEF k, m
    <3> QED BY <2>1, <3>1
  <2> QED BY <1>1, <2>2, <2>3, <2>4 DEF Answered, p
<1> QED BY <1>5, <1>6, <1>7 DEF OrderOK

LEMMA OrderNext ==
  ASSUME ~Tearing, Inv, OrderInv, [Next]_vars
  PROVE  OrderInv'
<1>0. /\ \A d \in Conns : OrderOK(d)
      /\ pc = "write" => plan \in Seq(WriteOf(Of(attach[writer])))
      /\ pc \in {"dm", "write"} => mode # "none"
  BY DEF OrderInv, PlanOf
<1>t. /\ interest \in [Conns -> {"none", "read", "write"}]
      /\ attach \in [Conns -> Segment]
      /\ inbox \in [Conns -> Seq(Segment)] /\ outbox \in [Conns -> Seq(Token)]
      /\ sent \in [Conns -> Nat]
  BY DEF Inv, TypeOK, WireTypeOK
<1>w. pc \in {"dm", "write"} => writer \in Conns /\ interest[writer] = "write"
  BY DEF Inv, KeysOK
<1>1. CASE Select
  <2>1. UNCHANGED <<wireVars, interest, attach, pc, mode, writer, plan>> /\ pc = "loop"
    BY <1>1 DEF Select, answerVars
  <2>2. \A d \in Conns : OrderOK(d)'
    BY <1>0, <2>1, OrderKept DEF wireVars, Busy
  <2> QED BY <2>1, <2>2 DEF OrderInv, PlanOf
<1>2. ASSUME NEW c \in Conns, Accept(c) \/ ReadClose(c) PROVE OrderInv'
  <2>1. /\ UNCHANGED <<outbox, sent, pc>> /\ pc = "loop"
        /\ \A d \in Conns : /\ inbox'[d] \in {inbox[d], <<>>}
                            /\ interest'[d] = "write" =>
                                 interest[d] = "write" /\ attach'[d] = attach[d]
    BY <1>2, <1>t DEF Accept, ReadClose, Reading, wireVars
  <2>2. \A d \in Conns : OrderOK(d)'
    <3>1. \A d \in Conns : ~Busy(d)
      BY <2>1 DEF Busy
    <3> QED BY <1>0, <2>1, <3>1, OrderKept
  <2> QED BY <2>1, <2>2 DEF OrderInv, PlanOf
<1>3. ASSUME NEW c \in Conns, Read(c) PROVE OrderInv'
  <2>1. /\ UNCHANGED <<outbox, sent, pc>> /\ pc = "loop"
        /\ \A d \in Conns \ {c} : /\ inbox'[d] = inbox[d]
                                  /\ interest'[d] = interest[d]
                                  /\ attach'[d] = attach[d]
    BY <1>3, <1>t DEF Read, Reading
  <2>2. \A d \in Conns \ {c} : OrderOK(d)'
    <3>1. \A d \in Conns : ~Busy(d)
      BY <2>1 DEF Busy
    <3> QED BY <1>0, <2>1, <3>1, OrderKept
  <2>3. OrderOK(c)'
    BY <1>3, OrderRead
  <2> QED BY <2>1, <2>2, <2>3 DEF OrderInv, PlanOf
<1>4. ASSUME NEW c \in Conns, AnswerLarge(c) \/ AnswerDm(c) \/ AnswerText(c)
      PROVE  OrderInv'
  <2>1. /\ UNCHANGED <<inbox, outbox, sent, interest, attach>> /\ pc = "loop"
        /\ writer' = c
    BY <1>4 DEF AnswerLarge, AnswerDm, AnswerText, Answering, wireVars
  <2>2. \A d \in Conns : OrderOK(d)'
    <3>1. \A d \in Conns : ~Busy(d)
      BY <2>1 DEF Busy
    <3> QED BY <1>0, <2>1, <3>1, OrderKept
  <2>3. /\ plan' \in {<<>>, Line(attach[c])} /\ mode' # "none"
    BY <1>4 DEF AnswerLarge, AnswerDm, AnswerText
  <2>4. plan' \in Seq(WriteOf(Of(attach[c])))
    BY <1>t, <2>3, OfPlans, EmptySeq
  <2> QED BY <2>1, <2>2, <2>3, <2>4 DEF OrderInv, PlanOf
<1>5. CASE GetData \/ DmLine \/ DmRemote
  <2> DEFINE r == attach[writer]
             W == WriteOf(Of(r))
  <2>1. /\ UNCHANGED <<wireVars, interest, attach, writer>>
        /\ pc \in {"dm", "write"} /\ pc' = "write" /\ mode' # "none"
    BY <1>0, <1>5 DEF GetData, DmLine, DmRemote, DmStep
  <2>2. \A d \in Conns : OrderOK(d)'
    <3>1. \A d \in Conns : Busy(d) => Busy(d)'
      BY <2>1 DEF Busy
    <3> QED BY <1>0, <2>1, <3>1, OrderKept DEF wireVars
  <2>3. /\ Line(r) \in Seq(W) /\ NullFrame(r) \in Seq(W)
        /\ \A n \in Nat : Frame(r, n) \in Seq(W)
    BY <1>t, <1>w, <2>1, OfPlans
  <2> HIDE DEF W
  <2>4. plan' \in Seq(W)
    <3>1. CASE GetData
      <4>1. PICK after \in Seq(W) : \/ \E n \in Nat : plan' = Frame(r, n) \o after
                                    \/ plan' = NullFrame(r) \o after
        BY <2>3, <3>1, EmptySeq, AdcSizesAssumption DEF GetData
      <4>2. PICK first \in Seq(W) : plan' = first \o after
        BY <2>3, <4>1
      <4> QED BY <4>2, ConcatProperties
    <3>2. CASE DmLine
      BY <2>3, <3>2 DEF DmLine
    <3>3. CASE DmRemote
      BY <2>3, <3>3, DmSizesAssumption DEF DmRemote
    <3> QED BY <1>5, <3>1, <3>2, <3>3
  <2> QED BY <2>1, <2>2, <2>4 DEF OrderInv, PlanOf, W
<1>6. CASE DmShort
  <2>1. /\ UNCHANGED <<wireVars, interest, attach, writer, mode>>
        /\ pc = "dm" /\ pc' = "dead"
    BY <1>6 DEF DmShort, DmStep
  <2>2. \A d \in Conns : OrderOK(d)'
    <3>1. \A d \in Conns : Busy(d) => Busy(d)'
      BY <2>1 DEF Busy
    <3> QED BY <1>0, <2>1, <3>1, OrderKept DEF wireVars
  <2> QED BY <2>1, <2>2 DEF OrderInv, PlanOf
<1>7. CASE ChannelWrite
  <2>1. /\ UNCHANGED <<peer, inbox, sent, interest, attach, writer, pc, mode>>
        /\ pc = "write" /\ \A d \in Conns \ {writer} : outbox'[d] = outbox[d]
    BY <1>7, <1>t DEF ChannelWrite, Writing
  <2>2. /\ \A d \in Conns : d = writer => OrderOK(d)'
        /\ plan' \in Seq(WriteOf(Of(attach[writer])))
    BY <1>7, <1>w, <2>1, OrderWrite
  <2>3. \A d \in Conns \ {writer} : OrderOK(d)'
    <3>1. \A d \in Conns : Busy(d) => Busy(d)'
      BY <2>1 DEF Busy
    <3> QED BY <1>0, <2>1, <3>1, OrderKept
  <2>4. \A d \in Conns : OrderOK(d)'
    BY <2>2, <2>3
  <2>5. PlanOf'
    BY <1>0, <2>1, <2>2 DEF PlanOf
  <2> QED BY <2>4, <2>5 DEF OrderInv
<1>8. CASE WriteVoid \/ WriteFails
  <2> DEFINE r == attach[writer]
             w == Head(plan)
  <2>1. /\ UNCHANGED <<wireVars, interest, attach, writer>> /\ plan # <<>>
        /\ pc = "write" /\ pc' \in {"write", "dead"} /\ mode' # "none"
        /\ plan \in Seq(WriteOf(Of(r))) /\ r \in Segment
    BY <1>0, <1>8, <1>t, <1>w DEF WriteVoid, WriteFails, Writing, wireVars
  <2>2. \A d \in Conns : OrderOK(d)'
    <3>1. \A d \in Conns : Busy(d) => Busy(d)'
      BY <2>1 DEF Busy
    <3> QED BY <1>0, <2>1, <3>1, OrderKept DEF wireVars
  <2>3. Offered(w) \in Nat
    <3>1. w.toks \in Seq(Of(r))
      <4>1. w \in WriteOf(Of(r))
        BY <2>1, HeadTailProperties
      <4> QED BY <4>1 DEF WriteOf
    <3>2. Len(w.toks) \in Nat
      BY <3>1, LenProperties
    <3> QED BY <3>2, DataBlockAssumption DEF Offered, Smaller
  <2>4. PlanAfter(Head(plan), Offered(w)) \in Seq(WriteOf(Of(r)))
    <3> HIDE DEF w
    <3> QED BY <2>1, <2>3, PlanAfterType
  <2>5. Line(r) \in Seq(WriteOf(Of(r)))
    BY <2>1, OfPlans
  <2>6. plan' \in Seq(WriteOf(Of(r)))
    BY <1>8, <2>1, <2>4, <2>5 DEF WriteVoid, WriteFails
  <2> QED BY <2>1, <2>2, <2>6 DEF OrderInv, PlanOf
<1>9. CASE Finish
  <2>1. /\ UNCHANGED <<wireVars, writer>> /\ pc' = "loop" /\ pc = "write"
        /\ interest'[writer] = "read"
        /\ \A d \in Conns \ {writer} : interest'[d] = interest[d] /\ attach'[d] = attach[d]
    BY <1>9, <1>t, <1>w DEF Finish
  <2>2. \A d \in Conns : OrderOK(d)'
    <3>1. \A d \in Conns \ {writer} : ~Busy(d)
      BY DEF Busy
    <3>2. \A d \in Conns : interest'[d] = "write" =>
            interest[d] = "write" /\ attach'[d] = attach[d] /\ ~Busy(d)
      BY <2>1, <3>1
    <3> QED BY <1>0, <2>1, <3>2, OrderKept DEF wireVars
  <2> QED BY <2>1, <2>2 DEF OrderInv, PlanOf
<1>10. CASE PeerStep
  <2>0. UNCHANGED <<serverVars, interest, attach, pc, mode, writer, plan>>
    BY <1>10 DEF PeerStep, serverVars
  <2>1. \A d \in Conns : Busy(d) => Busy(d)'
    BY <2>0 DEF Busy
  <2>2. PlanOf'
    BY <1>0, <2>0 DEF PlanOf
  <2>3. ASSUME NEW c \in Conns, Connect(c) \/ Hangup(c) PROVE \A d \in Conns : OrderOK(d)'
    <3>1. /\ UNCHANGED <<inbox, sent>>
          /\ \A d \in Conns : outbox'[d] \in {outbox[d], <<>>}
      BY <1>t, <2>3 DEF Connect, Hangup
    <3> QED BY <1>0, <2>0, <2>1, <3>1, OrderKept
  <2>4. ASSUME NEW c \in Conns, NEW l \in Lines, Send(c, l)
        PROVE  \A d \in Conns : OrderOK(d)'
    <3>1. /\ UNCHANGED outbox
          /\ \A d \in Conns \ {c} : inbox'[d] = inbox[d] /\ sent'[d] = sent[d]
      BY <1>t, <2>4, SendReadable DEF Send
    <3>2. \A d \in Conns \ {c} : OrderOK(d)'
      BY <1>0, <2>0, <2>1, <3>1, OrderKept
    <3>3. OrderOK(c)'
      BY <2>0, <2>4, OrderSend
    <3> QED BY <3>2, <3>3
  <2>5. ASSUME NEW c \in Conns, Take(c) PROVE \A d \in Conns : OrderOK(d)'
    <3>1. /\ UNCHANGED <<inbox, sent>>
          /\ \A d \in Conns \ {c} : outbox'[d] = outbox[d]
      BY <1>t, <2>5 DEF Take
    <3>2. \A d \in Conns \ {c} : OrderOK(d)'
      BY <1>0, <2>0, <2>1, <3>1, OrderKept
    <3>3. OrderOK(c)'
      BY <2>0, <2>5, OrderTake
    <3> QED BY <3>2, <3>3
  <2>6. \A d \in Conns : OrderOK(d)'
    BY <1>10, <2>3, <2>4, <2>5 DEF PeerStep
  <2> QED BY <2>2, <2>6 DEF OrderInv
<1>11. CASE UNCHANGED vars
  <2>1. UNCHANGED <<wireVars, interest, attach, pc, mode, writer, plan>>
    BY <1>11 DEF vars, serverVars
  <2>2. \A d \in Conns : OrderOK(d)'
    BY <1>0, <2>1, OrderKept DEF wireVars, Busy
  <2> QED BY <1>0, <2>1, <2>2 DEF OrderInv, PlanOf
<1> QED
  BY <1>1, <1>2, <1>3, <1>4, <1>5, <1>6, <1>7, <1>8, <1>9, <1>10, <1>11
  DEF Next, ServerStep

LEMMA OrderInvariance ==
  ASSUME ~Tearing PROVE Spec => []OrderInv
<1>1. Init => OrderInv
  <2> SUFFICES ASSUME Init PROVE OrderInv
    OBVIOUS
  <2>1. /\ \A c \in Conns : /\ inbox[c] = <<>> /\ outbox[c] = <<>>
                            /\ interest[c] = "none"
        /\ pc = "loop"
    BY DEF Init, WireInit, ServerInit
  <2>2. \A c \in Conns : Len(inbox[c]) = 0 /\ Len(outbox[c]) = 0
    BY <2>1, EmptySeq, Zenon
  <2> QED BY <2>1, <2>2 DEF OrderInv, OrderOK, Asked, Attached, Answered, PlanOf
<1>2. Inv /\ OrderInv /\ [Next]_vars => OrderInv'
  BY OrderNext
<1> QED BY <1>1, <1>2, Invariance, PTL DEF Spec

\* Unless lines are torn, every client gets the answers to its requests in the
\* order it sent them and none twice, however reads, writes and answers of all
\* clients are interleaved: what is answered, what is being answered and what
\* is not read yet are three stretches of what was sent.
THEOREM RepliesAlwaysInOrder ==
  ASSUME ~Tearing PROVE Spec => []RepliesInOrder
<1>1. Inv /\ OrderInv => RepliesInOrder
  <2> SUFFICES ASSUME Inv, OrderInv, NEW c \in Conns
      PROVE
        LET out == outbox[c]
            due == (IF interest[c] = "write" /\ ~Busy(c) THEN <<attach[c]>>
                                                         ELSE <<>>) \o inbox[c]
            last(r) == r.reqs[Len(r.reqs)]
        IN /\ \A i, j \in 1..Len(out) :
                i < j => \/ out[i].of = out[j].of
                         \/ last(out[i].of) < out[j].of.reqs[1]
           /\ \A i \in 1..Len(out), j \in 1..Len(due) :
                last(out[i].of) < due[j].reqs[1]
           /\ \A i, j \in 1..Len(due) :
                i < j => last(due[i]) < due[j].reqs[1]
    BY DEF RepliesInOrder
  <2> DEFINE o == outbox[c]
             q == inbox[c]
             h == IF interest[c] = "write" /\ ~Busy(c) THEN <<attach[c]>> ELSE <<>>
             due == h \o q
             lh == Len(h)
             lq == Len(q)
  <2>1. /\ Asked(c) /\ Attached(c) /\ Answered(c)
        /\ q \in Seq(Segment) /\ attach[c] \in Segment
    BY DEF OrderInv, OrderOK, Inv, TypeOK, WireTypeOK
  <2>2. /\ h \in Seq(Segment) /\ lh \in {0, 1}
        /\ lh = 1 => interest[c] = "write" /\ ~Busy(c) /\ h[1] = attach[c]
    <3>1. CASE interest[c] = "write" /\ ~Busy(c)
      BY <2>1, <3>1
    <3>2. CASE ~(interest[c] = "write" /\ ~Busy(c))
      BY <3>2, EmptySeq
    <3> QED BY <3>1, <3>2
  <2>3. /\ lq \in Nat /\ Len(due) = lh + lq
        /\ \A i \in 1..lh + lq : due[i] = IF i <= lh THEN h[i] ELSE q[i - lh]
    BY <2>1, <2>2, ConcatProperties, LenProperties
  <2>4. /\ \A i, j \in 1..Len(o) :
             i < j => o[i].of = o[j].of \/ LastReq(o[i].of) < FirstReq(o[j].of)
        /\ \A i \in 1..Len(o), j \in 1..lq : LastReq(o[i].of) < FirstReq(q[j])
        /\ \A i, j \in 1..lq : i < j => LastReq(q[i]) < FirstReq(q[j])
    BY <2>1 DEF Answered, Asked
  <2>5. lh = 1 => /\ \A j \in 1..lq : LastReq(h[1]) < FirstReq(q[j])
                  /\ \A i \in 1..Len(o) : LastReq(o[i].of) < FirstReq(h[1])
    BY <2>1, <2>2 DEF Attached
  <2> HIDE DEF o, q, h, due, lh, lq
  <2>6. \A i \in 1..Len(due) :
          \/ lh = 1 /\ i = 1 /\ due[i] = h[1]
          \/ i - lh \in 1..lq /\ due[i] = q[i - lh]
    BY <2>2, <2>3
  <2>7. \A i \in 1..Len(o), j \in 1..Len(due) : LastReq(o[i].of) < FirstReq(due[j])
    BY <2>4, <2>5, <2>6
  <2>8. ASSUME NEW i \in 1..Len(due), NEW j \in 1..Len(due), i < j
        PROVE  LastReq(due[i]) < FirstReq(due[j])
    <3>1. j - lh \in 1..lq /\ due[j] = q[j - lh]
      BY <2>6, <2>8
    <3>2. CASE lh = 1 /\ i = 1 /\ due[i] = h[1]
      BY <2>5, <3>1, <3>2
    <3>3. CASE i - lh \in 1..lq /\ due[i] = q[i - lh]
      <4> DEFINE k == i - lh
                 m == j - lh
      <4>1. k < m
        BY <2>2, <2>8
      <4>2. k \in 1..lq /\ m \in 1..lq /\ due[i] = q[k] /\ due[j] = q[m]
        BY <3>1, <3>3
      <4> HIDE DEF k, m
      <4> QED BY <2>4, <4>1, <4>2
    <3> QED BY <2>6, <3>2, <3>3
  <2> QED BY <2>4, <2>7, <2>8 DEF LastReq, FirstReq, o, due, h, q
<1> QED BY <1>1, Invariance, OrderInvariance, PTL

=============================================================================
