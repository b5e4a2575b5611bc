------------------------ MODULE FrameHeaderProofs ------------------------
(***************************************************************************)
(* SafeIsUnderstood and the types for every length a Java int can have.    *)
(***************************************************************************)
EXTENDS FrameHeader, SequenceTheorems, TLAPS

Byte == 0..255

\* n is 256 times what is above its last byte, plus that byte.
LEMMA LastByte ==
  ASSUME NEW n \in Nat
  PROVE  Above(n) \in Nat /\ n % 256 \in Byte /\ n = 256 * Above(n) + (n % 256)
BY SMT DEF Above, Byte

LEMMA MaxIntType == MaxInt \in Nat
BY SMT DEF MaxInt

\* The four bytes of a length, and the length again from them.
LEMMA Bytes ==
  ASSUME NEW n \in 0..MaxInt
  PROVE  \E a, b, c, d \in Byte :
           /\ PutInt(n) = <<a, b, c, d>> /\ d = n % 256
           /\ n = 256 * (256 * (256 * a + b) + c) + d
<1> DEFINE x == Above(n)
           y == Above(x)
           z == Above(y)
<1>0. n \in Nat /\ n <= MaxInt
  BY MaxIntType
<1>1. x \in Nat /\ n % 256 \in Byte /\ n = 256 * x + (n % 256)
  BY <1>0, LastByte
<1>2. y \in Nat /\ x % 256 \in Byte /\ x = 256 * y + (x % 256)
  BY <1>1, LastByte
<1>3. z \in Nat /\ y % 256 \in Byte /\ y = 256 * z + (y % 256)
  BY <1>2, LastByte
<1>4. z % 256 \in Byte
  BY <1>3, LastByte
<1>5. PutInt(n) = <<z % 256, y % 256, x % 256, n % 256>>
  BY DEF PutInt
<1> HIDE DEF x, y, z
<1>6. z % 256 = z
  <2> DEFINE r == n % 256
             s == x % 256
             t == y % 256
  <2>1. r \in Byte /\ s \in Byte /\ t \in Byte
    BY <1>1, <1>2, <1>3
  <2>2. n = 256 * x + r /\ x = 256 * y + s /\ y = 256 * z + t
    BY <1>1, <1>2, <1>3
  <2> HIDE DEF r, s, t
  <2>3. n \in Nat /\ x \in Nat /\ y \in Nat /\ z \in Nat
    BY <1>0, <1>1, <1>2, <1>3
  <2>4. n <= 256 * (256 * (256 * 127 + 255) + 255) + 255
    BY <1>0 DEF MaxInt
  <2>5. x <= 256 * (256 * 127 + 255) + 255
    BY <2>1, <2>2, <2>3, <2>4, SMT DEF Byte
  <2>6. y <= 256 * 127 + 255
    BY <2>1, <2>2, <2>3, <2>5, SMT DEF Byte
  <2>7. z <= 127
    BY <2>1, <2>2, <2>3, <2>6, SMT DEF Byte
  <2> QED BY <2>3, <2>7, SMT
<1>7. n = 256 * (256 * (256 * (z % 256) + (y % 256)) + (x % 256)) + (n % 256)
  BY <1>1, <1>2, <1>3, <1>6, SMT
<1> DEFINE a == z % 256
           b == y % 256
           c == x % 256
           d == n % 256
<1>8. /\ a \in Byte /\ b \in Byte /\ c \in Byte /\ d \in Byte
      /\ PutInt(n) = <<a, b, c, d>> /\ d = n % 256
      /\ n = 256 * (256 * (256 * a + b) + c) + d
  BY <1>1, <1>2, <1>3, <1>4, <1>5, <1>7
<1> HIDE DEF a, b, c, d
<1> QED BY <1>8

\* What the client reads: up to the first newline, at most six bytes.
LEMMA FirstLine ==
  ASSUME NEW a \in Byte, NEW b \in Byte, NEW c \in Byte, NEW d \in Byte
  PROVE  LET s == <<Hash, a, b, c, d, Newline>>
             k == LineLen(s)
         IN /\ k \in 2..6
            /\ s[k] = Newline /\ \A j \in 1..k - 1 : s[j] # Newline
<1> DEFINE s == <<Hash, a, b, c, d, Newline>>
           First(k) == s[k] = Newline /\ \A j \in 1..k - 1 : s[j] # Newline
<1>1. Len(s) = 6 /\ s[1] = 35 /\ s[2] = a /\ s[3] = b /\ s[4] = c /\ s[5] = d /\ s[6] = 10
  BY DEF Hash, Newline
<1> HIDE DEF s
<1>2. \E k \in 1..6 : First(k)
  <2>1. CASE a = 10
    <3>1. First(2)
      BY <1>1, <2>1, SMT DEF Newline
    <3> QED BY <3>1, SMT
  <2>2. CASE a # 10 /\ b = 10
    <3>1. First(3)
      BY <1>1, <2>2, SMT DEF Newline
    <3> QED BY <3>1, SMT
  <2>3. CASE a # 10 /\ b # 10 /\ c = 10
    <3>1. First(4)
      BY <1>1, <2>3, SMT DEF Newline
    <3> QED BY <3>1, SMT
  <2>4. CASE a # 10 /\ b # 10 /\ c # 10 /\ d = 10
    <3>1. First(5)
      BY <1>1, <2>4, SMT DEF Newline
    <3> QED BY <3>1, SMT
  <2>5. CASE a # 10 /\ b # 10 /\ c # 10 /\ d # 10
    <3>1. First(6)
      BY <1>1, <2>5, SMT DEF Newline
    <3> QED BY <3>1, SMT
  <2> QED BY <2>1, <2>2, <2>3, <2>4, <2>5
<1>3. LineLen(s) \in 1..6 /\ First(LineLen(s))
  BY <1>1, <1>2 DEF LineLen
<1>4. LineLen(s) # 1
  BY <1>1, <1>3, SMT DEF Newline
<1> QED BY <1>3, <1>4, SMT DEF s

\* Stripping stops at the last byte that is no white space.
LEMMA Strip ==
  ASSUME NEW s \in Seq(Byte), NEW m \in 1..Len(s), s[m] \notin Whitespace,
         \A j \in m + 1..Len(s) : s[j] \in Whitespace
  PROVE  StripLen(s) = m
<1>1. Len(s) \in Nat /\ m \in 0..Len(s)
  BY LenProperties, SMT
<1>2. \A k \in 0..Len(s) :
        (/\ k > 0 => s[k] \notin Whitespace
         /\ \A j \in k + 1..Len(s) : s[j] \in Whitespace) => k = m
  <2> SUFFICES ASSUME NEW k \in 0..Len(s), k > 0 => s[k] \notin Whitespace,
                      \A j \in k + 1..Len(s) : s[j] \in Whitespace
               PROVE  k = m
    OBVIOUS
  <2>1. ~(k < m)
    <3>1. k < m => m \in k + 1..Len(s)
      BY <1>1, SMT
    <3> QED BY <3>1
  <2>2. ~(k > m)
    <3>1. k > m => k \in m + 1..Len(s) /\ k > 0
      BY <1>1, SMT
    <3> QED BY <3>1
  <2> QED BY <1>1, <2>1, <2>2, SMT
<1> QED BY <1>1, <1>2 DEF StripLen

-----------------------------------------------------------------------------
(* What the client makes of the header of n.                               *)

ReadOf(n) == SubSeq(Header(n), 1, LineLen(Header(n)))
RestOf(n) == SubSeq(Header(n), LineLen(Header(n)) + 1, Len(Header(n)))
LineOf(n) == SubSeq(ReadOf(n), 1, StripLen(ReadOf(n)))
SizeOf(n) == FromBytes(SubSeq(LineOf(n), 2, Smaller(5, Len(LineOf(n)))))

\* The six bytes of a header.
LEMMA HeaderBytes ==
  ASSUME NEW n \in 0..MaxInt,
         NEW a \in Byte, NEW b \in Byte, NEW c \in Byte, NEW d \in Byte,
         PutInt(n) = <<a, b, c, d>>
  PROVE  Header(n) = <<Hash, a, b, c, d, Newline>>
<1> DEFINE h == <<Hash, a, b, c, d, Newline>>
<1>1. Header(n) = <<Hash>> \o <<a, b, c, d>> \o <<Newline>>
  BY DEF Header
<1>2. <<Hash>> \o <<a, b, c, d>> \o <<Newline>> = h
  <2> DEFINE p == <<Hash>>
             q == <<a, b, c, d>>
             r == <<Newline>>
  <2>1. /\ p \in Seq(Byte) /\ q \in Seq(Byte) /\ r \in Seq(Byte) /\ h \in Seq(Byte)
        /\ Len(p) = 1 /\ Len(q) = 4 /\ Len(r) = 1 /\ Len(h) = 6
        /\ p[1] = h[1] /\ q[1] = h[2] /\ q[2] = h[3] /\ q[3] = h[4]
        /\ q[4] = h[5] /\ r[1] = h[6]
    BY SMT DEF Hash, Newline, Byte
  <2> HIDE DEF p, q, r, h
  <2>2. /\ p \o q \in Seq(Byte) /\ Len(p \o q) = 5
        /\ \A i \in 1..5 : (p \o q)[i] = IF i <= 1 THEN p[i] ELSE q[i - 1]
    <3>1. /\ p \o q \in Seq(Byte) /\ Len(p \o q) = Len(p) + Len(q)
          /\ \A i \in 1..Len(p) + Len(q) :
               (p \o q)[i] = IF i <= Len(p) THEN p[i] ELSE q[i - Len(p)]
      BY <2>1, ConcatProperties
    <3> DEFINE t == p \o q
    <3>2. /\ t \in Seq(Byte) /\ Len(t) = Len(p) + Len(q)
          /\ \A i \in 1..Len(p) + Len(q) :
               t[i] = IF i <= Len(p) THEN p[i] ELSE q[i - Len(p)]
      BY <3>1
    <3> HIDE DEF t
    <3>3. /\ t \in Seq(Byte) /\ Len(t) = 5
          /\ \A i \in 1..5 : t[i] = IF i <= 1 THEN p[i] ELSE q[i - 1]
      BY <3>2, <2>1, SMT
    <3> QED BY <3>3 DEF t
  <2>3. /\ (p \o q) \o r \in Seq(Byte) /\ Len((p \o q) \o r) = 6
        /\ \A i \in 1..6 : ((p \o q) \o r)[i] =
                             IF i <= 5 THEN (p \o q)[i] ELSE r[i - 5]
    <3> DEFINE t == p \o q
    <3> HIDE DEF t
    <3>0. t \in Seq(Byte) /\ Len(t) = 5
      BY <2>2 DEF t
    <3>1. /\ t \o r \in Seq(Byte) /\ Len(t \o r) = Len(t) + Len(r)
          /\ \A i \in 1..Len(t) + Len(r) :
               (t \o r)[i] = IF i <= Len(t) THEN t[i] ELSE r[i - Len(t)]
      BY <2>1, <3>0, ConcatProperties
    <3>2. /\ t \o r \in Seq(Byte) /\ Len(t \o r) = 6
          /\ \A i \in 1..6 : (t \o r)[i] = IF i <= 5 THEN t[i] ELSE r[i - 5]
      BY <3>0, <3>1, <2>1, SMT
    <3> QED BY <3>2 DEF t
  <2>4. \A i \in 1..6 : ((p \o q) \o r)[i] = h[i]
    <3> SUFFICES ASSUME NEW i \in 1..6 PROVE ((p \o q) \o r)[i] = h[i]
      OBVIOUS
    <3>1. i = 1 \/ i = 2 \/ i = 3 \/ i = 4 \/ i = 5 \/ i = 6
      BY SMT
    <3> QED BY <3>1, <2>1, <2>2, <2>3, SMT
  <2>5. (p \o q) \o r = h
    BY <2>1, <2>3, <2>4, SeqEqual
  <2> QED BY <2>5 DEF p, q, r
<1> QED BY <1>1, <1>2

\* A header whose length holds no newline is read whole.
LEMMA ReadWhole ==
  ASSUME NEW n \in 0..MaxInt,
         NEW a \in Byte, NEW b \in Byte, NEW c \in Byte, NEW d \in Byte,
         PutInt(n) = <<a, b, c, d>>
  PROVE  \/ /\ \E i \in 1..4 : PutInt(n)[i] = Newline
            /\ RestOf(n) # <<>>
         \/ /\ \A i \in 1..4 : PutInt(n)[i] # Newline
            /\ RestOf(n) = <<>>
            /\ ReadOf(n) = <<Hash, a, b, c, d, Newline>>
<1> DEFINE h == <<Hash, a, b, c, d, Newline>>
           k == LineLen(h)
<1>1. Header(n) = h
  BY HeaderBytes
<1>2. k \in 2..6 /\ h[k] = Newline /\ \A j \in 1..k - 1 : h[j] # Newline
  BY FirstLine
<1>3. /\ Len(h) = 6 /\ h \in Seq(Byte)
      /\ h[2] = a /\ h[3] = b /\ h[4] = c /\ h[5] = d
  BY SMT DEF Hash, Newline, Byte
<1>4. /\ PutInt(n)[1] = a /\ PutInt(n)[2] = b
      /\ PutInt(n)[3] = c /\ PutInt(n)[4] = d
  OBVIOUS
<1> HIDE DEF h, k
<1>5. CASE k < 6
  <2>1. PutInt(n)[k - 1] = Newline /\ k - 1 \in 1..4
    <3>1. k \in {2, 3, 4, 5}
      BY <1>2, <1>5, SMT
    <3> QED BY <3>1, <1>2, <1>3, <1>4, SMT
  <2>2. Len(SubSeq(h, k + 1, 6)) = 6 - k
    <3>0. \A i \in 1..Len(h) : h[i] \in Byte
      BY <1>3, ElementOfSeq
    <3>1. \A i \in k + 1..6 : h[i] \in Byte
      BY <3>0, <1>2, <1>3, SMT
    <3>2. Len(SubSeq(h, k + 1, 6)) = IF k + 1 <= 6 THEN 6 - (k + 1) + 1 ELSE 0
      BY <1>2, <3>1, SubSeqProperties, SMT
    <3> QED BY <3>2, <1>2, <1>5, SMT
  <2>3. SubSeq(h, k + 1, 6) # <<>>
    <3>1. Len(<<>>) = 0
      BY EmptySeq
    <3>2. 6 - k # 0
      BY <1>2, <1>5, SMT
    <3> QED BY <2>2, <3>1, <3>2, Zenon
  <2> QED BY <2>1, <2>3, <1>1, <1>3 DEF RestOf, k
<1>6. CASE k = 6
  <2>1. \A i \in 1..4 : PutInt(n)[i] # Newline
    <3>1. h[2] # Newline /\ h[3] # Newline /\ h[4] # Newline /\ h[5] # Newline
      BY <1>2, <1>6, SMT
    <3> QED BY <3>1, <1>3, <1>4, SMT
  <2>2. SubSeq(h, 1, 6) = h
    BY <1>3, SubSeqFull
  <2>3. SubSeq(h, 7, 6) = <<>>
    BY <1>3, SubSeqEmpty, SMT
  <2>4. Header(n) = h /\ LineLen(h) = 6 /\ Len(h) = 6
    BY <1>1, <1>3, <1>6 DEF k
  <2>5. ReadOf(n) = h /\ RestOf(n) = <<>>
    BY <2>2, <2>3, <2>4 DEF ReadOf, RestOf
  <2> QED BY <2>1, <2>5 DEF h
<1> QED BY <1>2, <1>5, <1>6, SMT

\* The number in up to four bytes.
LEMMA FromBytesValue ==
  ASSUME NEW a \in Byte, NEW b \in Byte, NEW c \in Byte, NEW d \in Byte
  PROVE  /\ FromBytes(<<>>) = 0
         /\ FromBytes(<<a>>) = a
         /\ FromBytes(<<a, b>>) = 256 * a + b
         /\ FromBytes(<<a, b, c>>) = 256 * (256 * a + b) + c
         /\ FromBytes(<<a, b, c, d>>) = 256 * (256 * (256 * a + b) + c) + d
<1>1. Len(<<>>) = 0
  BY EmptySeq
<1>2. FromBytes(<<>>) = 0
  BY <1>1, SMT DEF FromBytes, Shifted
<1>3. FromBytes(<<a>>) = a /\ FromBytes(<<a, b>>) = 256 * a + b
  BY SMT DEF FromBytes, Shifted, Byte
<1>4. FromBytes(<<a, b, c>>) = 256 * (256 * a + b) + c
  BY SMT DEF FromBytes, Shifted, Byte
<1>5. FromBytes(<<a, b, c, d>>) = 256 * (256 * (256 * a + b) + c) + d
  BY SMT DEF FromBytes, Shifted, Byte
<1> QED BY <1>2, <1>3, <1>4, <1>5

\* A whole header stripped to its first m bytes leaves u for the length.
LEMMA StrippedTo ==
  ASSUME NEW n, NEW m \in 1..5, NEW u \in Seq(Byte),
         ReadOf(n) \in Seq(Byte), Len(ReadOf(n)) = 6,
         ReadOf(n)[m] \notin Whitespace,
         \A j \in m + 1..6 : ReadOf(n)[j] \in Whitespace,
         Len(u) = m - 1,
         \A i \in 1..m - 1 : u[i] = ReadOf(n)[i + 1]
  PROVE  SizeOf(n) = FromBytes(u)
<1> DEFINE s == ReadOf(n)
<1> HIDE DEF s
<1>0. /\ s \in Seq(Byte) /\ Len(s) = 6 /\ s[m] \notin Whitespace
      /\ \A j \in m + 1..Len(s) : s[j] \in Whitespace
      /\ \A i \in 1..m - 1 : u[i] = s[i + 1]
  BY DEF s
<1>1. StripLen(s) = m
  <2>1. m \in 1..Len(s)
    BY <1>0, SMT
  <2> QED BY <1>0, <2>1, Strip
<1>2. \A i \in 1..6 : s[i] \in Byte
  BY <1>0, ElementOfSeq
<1> DEFINE t == SubSeq(s, 1, m)
<1>3. t \in Seq(Byte) /\ Len(t) = m /\ \A i \in 1..m : t[i] = s[i]
  <2>1. \A i \in 1..m : s[i] \in Byte
    BY <1>2, SMT
  <2>2. /\ t \in Seq(Byte)
        /\ Len(t) = IF 1 <= m THEN m - 1 + 1 ELSE 0
        /\ \A i \in 1..m - 1 + 1 : t[i] = s[1 + i - 1]
    BY <2>1, SubSeqProperties, SMT
  <2> QED BY <2>2, SMT
<1>4. LineOf(n) = t /\ Smaller(5, Len(t)) = m
  BY <1>1, <1>3, SMT DEF LineOf, Smaller, s
<1>5. SubSeq(t, 2, m) = u
  <2> HIDE DEF t
  <2>1. \A i \in 2..m : t[i] \in Byte
    BY <1>2, <1>3, SMT
  <2>2. /\ SubSeq(t, 2, m) \in Seq(Byte)
        /\ Len(SubSeq(t, 2, m)) = IF 2 <= m THEN m - 2 + 1 ELSE 0
        /\ \A i \in 1..m - 2 + 1 : SubSeq(t, 2, m)[i] = t[2 + i - 1]
    BY <2>1, SubSeqProperties, SMT
  <2>3. Len(SubSeq(t, 2, m)) = m - 1
    BY <2>2, SMT
  <2>4. \A i \in 1..m - 1 : SubSeq(t, 2, m)[i] = u[i]
    BY <1>0, <1>3, <2>2, SMT
  <2>5. \A i \in 1..Len(u) : SubSeq(t, 2, m)[i] = u[i]
    BY <2>4
  <2> QED BY <2>2, <2>3, <2>5, SeqEqual
<1> QED BY <1>4, <1>5 DEF SizeOf

\* The number left when the stripping stops at the m-th byte.
LEMMA Stripped ==
  ASSUME NEW n \in 0..MaxInt,
         NEW a \in Byte, NEW b \in Byte, NEW c \in Byte, NEW d \in Byte,
         ReadOf(n) = <<Hash, a, b, c, d, Newline>>
  PROVE  /\ d \notin Whitespace =>
              SizeOf(n) = 256 * (256 * (256 * a + b) + c) + d
         /\ d \in Whitespace /\ c \notin Whitespace =>
              SizeOf(n) = 256 * (256 * a + b) + c
         /\ d \in Whitespace /\ c \in Whitespace /\ b \notin Whitespace =>
              SizeOf(n) = 256 * a + b
         /\ d \in Whitespace /\ c \in Whitespace /\ b \in Whitespace
              /\ a \notin Whitespace => SizeOf(n) = a
         /\ d \in Whitespace /\ c \in Whitespace /\ b \in Whitespace
              /\ a \in Whitespace => SizeOf(n) = 0
<1> DEFINE s == ReadOf(n)
<1>1. /\ s \in Seq(Byte) /\ Len(s) = 6
      /\ s[1] = 35 /\ s[2] = a /\ s[3] = b /\ s[4] = c /\ s[5] = d /\ s[6] = 10
  BY SMT DEF Hash, Newline, Byte
<1>2. 10 \in Whitespace /\ 35 \notin Whitespace
  BY SMT DEF Whitespace
<1> DEFINE Stops(m, u) == /\ m \in 1..5 /\ u \in Seq(Byte)
                          /\ s[m] \notin Whitespace
                          /\ \A j \in m + 1..6 : s[j] \in Whitespace
                          /\ Len(u) = m - 1
                          /\ \A i \in 1..m - 1 : u[i] = s[i + 1]
<1> HIDE DEF s
<1>3. ASSUME NEW m, NEW u, Stops(m, u) PROVE SizeOf(n) = FromBytes(u)
  BY <1>1, <1>3, StrippedTo DEF s
<1> DEFINE u0 == <<>>
           u1 == <<a>>
           u2 == <<a, b>>
           u3 == <<a, b, c>>
           u4 == <<a, b, c, d>>
<1>4. /\ FromBytes(u0) = 0 /\ FromBytes(u1) = a
      /\ FromBytes(u2) = 256 * a + b
      /\ FromBytes(u3) = 256 * (256 * a + b) + c
      /\ FromBytes(u4) = 256 * (256 * (256 * a + b) + c) + d
  BY FromBytesValue, SMT
<1>5. /\ u0 \in Seq(Byte) /\ Len(u0) = 0
      /\ u1 \in Seq(Byte) /\ Len(u1) = 1 /\ u1[1] = a
      /\ u2 \in Seq(Byte) /\ Len(u2) = 2 /\ u2[1] = a /\ u2[2] = b
      /\ u3 \in Seq(Byte) /\ Len(u3) = 3 /\ u3[1] = a /\ u3[2] = b /\ u3[3] = c
      /\ u4 \in Seq(Byte) /\ Len(u4) = 4 /\ u4[1] = a /\ u4[2] = b /\ u4[3] = c
      /\ u4[4] = d
  <2>1. u0 \in Seq(Byte) /\ Len(u0) = 0
    BY EmptySeq
  <2> QED BY <2>1, SMT
<1> HIDE DEF u0, u1, u2, u3, u4
<1>6. d \notin Whitespace => Stops(5, u4)
  BY <1>1, <1>2, <1>5, SMT
<1>7. d \in Whitespace /\ c \notin Whitespace => Stops(4, u3)
  BY <1>1, <1>2, <1>5, SMT
<1>8. d \in Whitespace /\ c \in Whitespace /\ b \notin Whitespace => Stops(3, u2)
  BY <1>1, <1>2, <1>5, SMT
<1>9. d \in Whitespace /\ c \in Whitespace /\ b \in Whitespace
        /\ a \notin Whitespace => Stops(2, u1)
  BY <1>1, <1>2, <1>5, SMT
<1>10. d \in Whitespace /\ c \in Whitespace /\ b \in Whitespace
         /\ a \in Whitespace => Stops(1, u0)
  BY <1>1, <1>2, <1>5, SMT
<1> HIDE DEF Stops
<1> QED BY <1>3, <1>4, <1>6, <1>7, <1>8, <1>9, <1>10

\* The client takes the length for what it is unless it ends in white space,
\* which loses at least that byte.
LEMMA Exact ==
  ASSUME NEW n \in 0..MaxInt,
         NEW a \in Byte, NEW b \in Byte, NEW c \in Byte, NEW d \in Byte,
         n = 256 * (256 * (256 * a + b) + c) + d,
         ReadOf(n) = <<Hash, a, b, c, d, Newline>>
  PROVE  SizeOf(n) = n <=> d \notin Whitespace
<1> DEFINE W(x) == x \in Whitespace
<1>1. /\ ~W(d) => SizeOf(n) = 256 * (256 * (256 * a + b) + c) + d
      /\ W(d) /\ ~W(c) => SizeOf(n) = 256 * (256 * a + b) + c
      /\ W(d) /\ W(c) /\ ~W(b) => SizeOf(n) = 256 * a + b
      /\ W(d) /\ W(c) /\ W(b) /\ ~W(a) => SizeOf(n) = a
      /\ W(d) /\ W(c) /\ W(b) /\ W(a) => SizeOf(n) = 0
  BY Stripped
<1>2. W(d) => d >= 9
  BY SMT DEF Whitespace
<1>3. a \in Nat /\ b \in Nat /\ c \in Nat /\ d \in Nat
  BY SMT DEF Byte
<1> HIDE DEF W
<1>4. SizeOf(n) = n <=> ~W(d)
  BY <1>1, <1>2, <1>3, SMT
<1> QED BY <1>4 DEF W

LEMMA HeaderRead ==
  ASSUME NEW n \in 0..MaxInt
  PROVE  (SizeOf(n) = n /\ RestOf(n) = <<>>) <=> Safe(n)
<1>1. PICK a \in Byte, b \in Byte, c \in Byte, d \in Byte :
        /\ PutInt(n) = <<a, b, c, d>> /\ d = n % 256
        /\ n = 256 * (256 * (256 * a + b) + c) + d
  BY Bytes
<1>2. CASE \E i \in 1..4 : PutInt(n)[i] = Newline
  BY <1>1, <1>2, ReadWhole DEF Safe
<1>3. CASE \A i \in 1..4 : PutInt(n)[i] # Newline
  <2>1. RestOf(n) = <<>> /\ ReadOf(n) = <<Hash, a, b, c, d, Newline>>
    BY <1>1, <1>3, ReadWhole
  <2>2. SizeOf(n) = n <=> d \notin Whitespace
    BY <1>1, <2>1, Exact
  <2> QED BY <1>1, <1>3, <2>1, <2>2 DEF Safe
<1> QED BY <1>2, <1>3

-----------------------------------------------------------------------------
(* Types.  Both choices the client makes in what it reads have an outcome: *)
(* there is a newline, and the "#" is no white space.                      *)

\* What is left when white space is stripped from the end of bytes.
LEMMA StripSome ==
  ASSUME NEW s \in Seq(Byte), Len(s) \in 1..6, s[1] \notin Whitespace
  PROVE  StripLen(s) \in 1..Len(s)
<1> DEFINE L == Len(s)
<1>a. L \in 1..6
  OBVIOUS
<1> HIDE DEF L
<1>b. L \in Nat /\ L <= 6
  BY <1>a
<1>0. Len(s) \in Nat /\ Len(s) <= 6
  BY <1>b DEF L
<1> DEFINE Black(k) == k \in 1..Len(s) /\ s[k] \notin Whitespace
           Ends(k) == Black(k) /\ \A j \in k + 1..Len(s) : ~Black(j)
<1>1. Black(1)
  BY SMT
<1>2. \A j \in Int : Black(j) => j \in 1..6 /\ j <= Len(s)
  BY SMT
<1> HIDE DEF Black
<1>3. \E k \in 1..6 : Ends(k)
  <2>0. \A k \in 1..6 : \A j \in k + 1..Len(s) : j \in k + 1..6
    BY <1>0, SMT
  <2>1. CASE Black(6)
    BY <2>0, <2>1, SMT
  <2>2. CASE Black(5) /\ ~Black(6)
    BY <2>0, <2>2, SMT
  <2>3. CASE Black(4) /\ ~Black(5) /\ ~Black(6)
    BY <2>0, <2>3, SMT
  <2>4. CASE Black(3) /\ ~Black(4) /\ ~Black(5) /\ ~Black(6)
    BY <2>0, <2>4, SMT
  <2>5. CASE Black(2) /\ ~Black(3) /\ ~Black(4) /\ ~Black(5) /\ ~Black(6)
    BY <2>0, <2>5, SMT
  <2>6. CASE ~Black(2) /\ ~Black(3) /\ ~Black(4) /\ ~Black(5) /\ ~Black(6)
    BY <1>1, <2>0, <2>6, SMT
  <2> QED BY <2>1, <2>2, <2>3, <2>4, <2>5, <2>6
<1>4. PICK k \in 1..6 : Ends(k)
  BY <1>3
<1>5. /\ k \in 1..Len(s) /\ s[k] \notin Whitespace
      /\ \A j \in k + 1..Len(s) : s[j] \in Whitespace
  BY <1>4, SMT DEF Black
<1>6. StripLen(s) = k
  BY <1>5, Strip
<1> QED BY <1>5, <1>6

\* The number in at most four bytes, or more, is one.
LEMMA FromBytesType ==
  ASSUME NEW s \in Seq(Byte)
  PROVE  FromBytes(s) \in Nat
<1>0. \A i \in 1..Len(s) : s[i] \in Byte
  BY ElementOfSeq
<1>1. ASSUME NEW v \in Nat, NEW i \in Nat, 1 <= i PROVE Shifted(v, s, i) \in Nat
  <2>1. CASE i <= Len(s)
    <3>1. i \in 1..Len(s)
      BY <1>1, <2>1, LenProperties, SMT
    <3>2. s[i] \in Byte
      BY <1>0, <3>1
    <3> DEFINE x == s[i]
    <3> HIDE DEF x
    <3>a. x \in Byte
      BY <3>2 DEF x
    <3>b. x \in Nat
      BY <3>a, SMT DEF Byte
    <3>3. s[i] \in Nat
      BY <3>b DEF x
    <3> QED BY <1>1, <2>1, <3>3, SMT DEF Shifted
  <2> QED BY <1>1, <2>1 DEF Shifted
<1> DEFINE v1 == Shifted(0, s, 1)
           v2 == Shifted(v1, s, 2)
           v3 == Shifted(v2, s, 3)
<1>2. v1 \in Nat
  BY <1>1, SMT
<1> HIDE DEF v1
<1>3. v2 \in Nat
  BY <1>1, <1>2, SMT
<1> HIDE DEF v2
<1>4. v3 \in Nat
  BY <1>1, <1>3, SMT
<1> HIDE DEF v3
<1>5. Shifted(v3, s, 4) \in Nat
  BY <1>1, <1>4, SMT
<1> QED BY <1>5 DEF FromBytes, v1, v2, v3

LEMMA BytesTyped ==
  ASSUME NEW n \in 0..MaxInt
  PROVE  /\ Header(n) \in Seq(Byte) /\ RestOf(n) \in Seq(Byte)
         /\ LineOf(n) \in Seq(Byte) /\ SizeOf(n) \in Nat
<1>1. PICK a \in Byte, b \in Byte, c \in Byte, d \in Byte : PutInt(n) = <<a, b, c, d>>
  BY Bytes
<1> DEFINE h == <<Hash, a, b, c, d, Newline>>
           k == LineLen(h)
<1>2. Header(n) = h
  BY <1>1, HeaderBytes
<1>3. h \in Seq(Byte) /\ Len(h) = 6 /\ h[1] = 35
  BY SMT DEF Hash, Newline, Byte
<1>4. k \in 2..6
  BY FirstLine
<1> HIDE DEF h, k
<1>5. \A i \in 1..6 : h[i] \in Byte
  BY <1>3, ElementOfSeq
<1> DEFINE read == SubSeq(h, 1, k)
           m == StripLen(read)
<1>6. /\ read \in Seq(Byte) /\ Len(read) = k /\ read[1] = 35
  <2>1. \A i \in 1..k : h[i] \in Byte
    BY <1>4, <1>5, SMT
  <2>2. /\ read \in Seq(Byte) /\ Len(read) = IF 1 <= k THEN k - 1 + 1 ELSE 0
        /\ \A i \in 1..k - 1 + 1 : read[i] = h[1 + i - 1]
    BY <1>4, <2>1, SubSeqProperties, SMT
  <2> HIDE DEF read
  <2> QED BY <1>3, <1>4, <2>2, SMT
<1>7. SubSeq(h, k + 1, 6) \in Seq(Byte)
  <2>1. \A i \in k + 1..6 : h[i] \in Byte
    BY <1>4, <1>5, SMT
  <2> QED BY <1>4, <2>1, SubSeqProperties, SMT
<1> HIDE DEF read
<1>8. m \in 1..k
  <2>1. Len(read) \in 1..6 /\ read[1] \notin Whitespace
    BY <1>4, <1>6, SMT DEF Whitespace
  <2>2. m \in 1..Len(read)
    BY <1>6, <2>1, StripSome
  <2> QED BY <1>6, <2>2
<1> HIDE DEF m
<1>9. \A i \in 1..k : read[i] \in Byte
  BY <1>6, ElementOfSeq
<1> DEFINE t == SubSeq(read, 1, m)
<1>10. t \in Seq(Byte)
  <2>1. \A i \in 1..m : read[i] \in Byte
    BY <1>4, <1>8, <1>9, SMT
  <2> QED BY <1>8, <2>1, SubSeqProperties, SMT
<1>11. RestOf(n) \in Seq(Byte) /\ LineOf(n) = t
  BY <1>2, <1>3, <1>7 DEF RestOf, LineOf, ReadOf, read, m, k
<1> HIDE DEF t
<1>12. SubSeq(t, 2, Smaller(5, Len(t))) \in Seq(Byte)
  <2>1. Smaller(5, Len(t)) \in Int /\ Smaller(5, Len(t)) <= Len(t)
    BY <1>10, LenProperties, SMT DEF Smaller
  <2>2. \A i \in 2..Smaller(5, Len(t)) : i \in 1..Len(t)
    BY <1>10, <2>1, LenProperties, SMT
  <2>3. \A i \in 2..Smaller(5, Len(t)) : t[i] \in Byte
    BY <1>10, <2>2, ElementOfSeq
  <2> QED BY <2>1, <2>3, SubSeqProperties, SMT
<1>13. SizeOf(n) \in Nat
  BY <1>11, <1>12, FromBytesType DEF SizeOf
<1> QED BY <1>2, <1>3, <1>10, <1>11, <1>13

-----------------------------------------------------------------------------
HeaderInv ==
  /\ len \in 0..MaxInt
  /\ pc = "readline" => stream = Header(len)
  /\ pc = "int" => line = LineOf(len) /\ stream = RestOf(len)
  /\ pc = "done" => size = SizeOf(len) /\ stream = RestOf(len)
  /\ pc \in {"put", "readline", "int", "done"}

LEMMA HeaderNext == HeaderInv /\ [Next]_vars => HeaderInv'
<1> SUFFICES ASSUME HeaderInv, [Next]_vars PROVE HeaderInv'
  OBVIOUS
<1>1. CASE PutHeader
  BY <1>1 DEF PutHeader, HeaderInv
<1>2. CASE ReadLine
  BY <1>2 DEF ReadLine, HeaderInv, LineOf, RestOf, ReadOf
<1>3. CASE TakeSize
  BY <1>3 DEF TakeSize, HeaderInv, SizeOf
<1>4. CASE UNCHANGED vars
  BY <1>4 DEF vars, HeaderInv
<1> QED BY <1>1, <1>2, <1>3, <1>4 DEF Next

\* Whatever the length of the data, the client of a frame reads the right
\* number of bytes from the right place exactly when no byte of the raw
\* length is a newline and its last is no white space.
THEOREM HeaderTheorem == Spec => []SafeIsUnderstood
<1>1. Init => HeaderInv
  BY LengthsAssumption DEF Init, HeaderInv
<1>2. HeaderInv /\ [Next]_vars => HeaderInv'
  BY HeaderNext
<1>3. HeaderInv => SafeIsUnderstood
  BY HeaderRead DEF HeaderInv, SafeIsUnderstood, Understood
<1> QED BY <1>1, <1>2, <1>3, PTL DEF Spec

HeaderTyped == /\ len \in Nat /\ size \in Nat
               /\ stream \in Seq(Byte) /\ line \in Seq(Byte)

\* What server and client hold is bytes and numbers, though the client cuts
\* the stream at a byte of the length.
THEOREM HeaderTypes == Spec => []TypeOK
<1>1. Init => HeaderInv /\ HeaderTyped
  BY LengthsAssumption, MaxIntType, EmptySeq DEF Init, HeaderInv, HeaderTyped
<1>2. HeaderInv /\ HeaderTyped /\ [Next]_vars => HeaderInv' /\ HeaderTyped'
  <2> SUFFICES ASSUME HeaderInv, HeaderTyped, [Next]_vars PROVE HeaderTyped'
    BY HeaderNext
  <2>0. len \in 0..MaxInt
    BY DEF HeaderInv
  <2>1. CASE PutHeader
    BY <2>0, <2>1, BytesTyped DEF PutHeader, HeaderTyped
  <2>2. CASE ReadLine
    <3>1. line' = LineOf(len) /\ stream' = RestOf(len) /\ UNCHANGED <<len, size>>
      BY <2>2 DEF ReadLine, HeaderInv, LineOf, RestOf, ReadOf
    <3> QED BY <2>0, <3>1, BytesTyped DEF HeaderTyped
  <2>3. CASE TakeSize
    <3>1. size' = SizeOf(len) /\ UNCHANGED <<len, stream, line>>
      BY <2>3 DEF TakeSize, HeaderInv, SizeOf
    <3> QED BY <2>0, <3>1, BytesTyped DEF HeaderTyped
  <2>4. CASE UNCHANGED vars
    BY <2>4 DEF vars, HeaderTyped
  <2> QED BY <2>1, <2>2, <2>3, <2>4 DEF Next
<1>3. HeaderInv /\ HeaderTyped => TypeOK
  BY DEF HeaderInv, HeaderTyped, TypeOK, Byte
<1> QED BY <1>1, <1>2, <1>3, PTL DEF Spec
=============================================================================
