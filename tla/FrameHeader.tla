--------------------------- MODULE FrameHeader ---------------------------
(***************************************************************************)
(* The header of a binary answer, byte by byte: what writeLargeData and    *)
(* remote_dm_transmit (ServerControl.java) put in front of the data, and   *)
(* what TCPConnection.read (tcpconnection.py) makes of it.                 *)
(*                                                                         *)
(* The server sends "#", the length as four raw bytes, and a newline.  The *)
(* client reads a LINE, strips white space from its end, and takes bytes 1 *)
(* to 4 of what is left for the length, although a raw byte of the length  *)
(* may itself be a newline or white space.                                 *)
(***************************************************************************)
EXTENDS Integers, Sequences

CONSTANT Lengths      \* the data lengths tried
MaxInt == 256 * (256 * (256 * 127 + 255) + 255) + 255   \* of a Java int
ASSUME LengthsAssumption == Lengths \subseteq 0..MaxInt

VARIABLES len,        \* length of the data the server has
          stream,     \* bytes of the header not yet read by the client
          line,       \* the line the client read
          size,       \* the length the client takes the data to have
          pc          \* "put", "readline", "int", "done"
vars == <<len, stream, line, size, pc>>

Hash == 35
Newline == 10
Whitespace == {9, 10, 11, 12, 13, 32}     \* what bytes.rstrip() strips

Above(n) == n \div 256
\* Mutants: little-endian, and bytes that are not cut to eight bits.
PutLittle(n) == <<n % 256, Above(n) % 256, Above(Above(n)) % 256,
                  Above(Above(Above(n))) % 256>>
PutWide(n) == <<Above(Above(Above(n))), Above(Above(n)), Above(n), n % 256>>
\* ByteBuffer.putInt, big-endian
PutInt(n) == <<Above(Above(Above(n))) % 256, Above(Above(n)) % 256,
               Above(n) % 256, n % 256>>

Header(n) == <<Hash>> \o PutInt(n) \o <<Newline>>

\* int.from_bytes(bs, "big") of at most four bytes
Shifted(v, bs, i) == IF i <= Len(bs) THEN 256 * v + bs[i] ELSE v
FromBytes(bs) ==
  Shifted(Shifted(Shifted(Shifted(0, bs, 1), bs, 2), bs, 3), bs, 4)

Smaller(a, b) == IF a <= b THEN a ELSE b

\* The length of the first line of s, its newline included.
LineLen(s) == CHOOSE k \in 1..Len(s) :
                s[k] = Newline /\ \A j \in 1..k - 1 : s[j] # Newline
\* The length of s without the white space at its end.
StripLen(s) == CHOOSE k \in 0..Len(s) :
                 /\ k > 0 => s[k] \notin Whitespace
                 /\ \A j \in k + 1..Len(s) : s[j] \in Whitespace

-----------------------------------------------------------------------------
Init == /\ len \in Lengths
        /\ stream = <<>> /\ line = <<>> /\ size = 0 /\ pc = "put"

PutHeader == /\ pc = "put"
             /\ stream' = Header(len)
             /\ pc' = "readline"
             /\ UNCHANGED <<len, line, size>>

\* data = (await self.reader.readline()).rstrip()
ReadLine == /\ pc = "readline"
            /\ LET k == LineLen(stream)
                   read == SubSeq(stream, 1, k)
               IN /\ line' = SubSeq(read, 1, StripLen(read))
                  /\ stream' = SubSeq(stream, k + 1, Len(stream))
            /\ pc' = "int"
            /\ UNCHANGED <<len, size>>

\* size = int.from_bytes(data[1:5], "big"), when data[0] is "#"
TakeSize == /\ pc = "int" /\ line[1] = Hash
            /\ size' = FromBytes(SubSeq(line, 2, Smaller(5, Len(line))))
            /\ pc' = "done"
            /\ UNCHANGED <<len, stream, line>>

Next == PutHeader \/ ReadLine \/ TakeSize
Spec == Init /\ [][Next]_vars

-----------------------------------------------------------------------------
TypeOK == /\ len \in Nat /\ size \in Nat
          /\ stream \in Seq(0..255) /\ line \in Seq(0..255)
          /\ pc \in {"put", "readline", "int", "done"}

\* The client reads the right number of bytes, from the right place on.
Understood == size = len /\ stream = <<>>

\* The lengths the header carries safely: none of the four bytes is a
\* newline, and the last is no white space.
Safe(n) == /\ \A i \in 1..4 : PutInt(n)[i] # Newline
           /\ n % 256 \notin Whitespace

\* A header is understood exactly when its length is safe: raw length bytes
\* break the frame when one is a newline or the last is white space, and in
\* no other case.
SafeIsUnderstood == pc = "done" => (Understood <=> Safe(len))
=============================================================================
