-------------------------- MODULE UsbTransferProofs --------------------------
(***************************************************************************)
(* What holds of the calls that move bytes for any array, any size asked   *)
(* for and any writes of other threads: TransferTypeOK, ReadDelivers,      *)
(* ResultTold, ChangesKept, BuffersBalance, and MCUsb's UsbTypeOK.         *)
(*                                                                         *)
(* The properties look at a call that has returned; the invariant says     *)
(* what is where while it runs: who wrote the bytes of the array, and of   *)
(* the buffer, in each phase.                                              *)
(***************************************************************************)
EXTENDS MCUsb, UsbWrapperProofs

Who == {"caller", "other", "device", "nobody"}
Origins == [from : Who, at : Nat]

\* The functions that take the array's own bytes, or a copy of them all.
Borrowing == Writes \cup Controls
\* Those that put the device's bytes into the array.
Delivering == Reads \cup {"usb_control_msg in"}

\* The length of the copy or buffer of the call.
Room == IF call.name \in Borrowing THEN ArrayLen ELSE call.size

\* Only other threads have written at i since the call began.
Untouched(i) == array[i] = Byte(IF i \in changed THEN "other" ELSE "caller", i)

TypesKept ==
  /\ phase \in {"java", "in", "out", "set"}
  /\ call \in [name : CallNames \cup {"none"}, size : 0..MaxSize]
  /\ array \in Seq(Origins) /\ Len(array) = ArrayLen
  /\ bytes # Null => bytes \in Seq(Origins) /\ Len(bytes) <= MaxSize
  /\ sent \in Seq(Origins) /\ Len(sent) <= call.size
  /\ pinned \in BOOLEAN /\ threw \in BOOLEAN
  /\ changed \subseteq 1..ArrayLen
  /\ buffers \in [Reads \cup Descriptors -> Nat]
  /\ \A f \in Descriptors : buffers[f] <= MaxKept

\* Which function is in which phase with what.
Protocol ==
  /\ phase # "java" => call.name \in CallNames
  /\ phase = "set" => call.name \in Reads \cup Controls
  /\ bytes = Null => phase # "set" /\ call.name \in Reads \cup Descriptors
  /\ call.name \in Borrowing => call.size <= ArrayLen
  /\ pinned => call.name \in Borrowing
  /\ phase # "java" /\ ~pinned /\ bytes # Null => Len(bytes) = Room
  /\ threw => phase \in {"set", "java"} /\ call.name \in Reads
  /\ phase \in {"set", "java"} /\ call.name \in Reads =>
       (threw <=> bytes # Null /\ call.size > ArrayLen)

\* What the running call holds, and nobody else.
Balance ==
  /\ held = IF phase # "java" /\ call.name \in Borrowing THEN 1 ELSE 0
  /\ \A f \in Reads :
       buffers[f] = IF phase # "java" /\ call.name = f /\ bytes # Null THEN 1 ELSE 0

\* The result agrees with its cause and, of a write, with what was sent; only
\* a string or descriptor call drops it on its way back to Java.
Told ==
  /\ \/ phase = "java" /\ call.name \in Texts \cup Descriptors /\ count \in {0, 1}
     \/ cause = "none" /\ count \in 0..call.size
     \/ cause = "timeout" /\ count = -110
     \/ cause = "other" /\ count \in {-5, -12}
  /\ bytes = Null /\ phase # "in" => count < 0
  /\ call.name \in Sending /\ count >= 0 =>
       /\ Len(sent) = count
       /\ \A i \in 1..count : \/ sent[i] = Byte("caller", i)
                              \/ pinned /\ i \in changed

\* The copy or the buffer: the caller's bytes until the device's are put over
\* them, in front and no further than was asked for.
Filled ==
  phase # "java" /\ ~pinned /\ bytes # Null =>
    /\ call.name \in Sending => bytes = Mine
    /\ call.name = "usb_control_msg in" =>
         \A i \in 1..ArrayLen : bytes[i].from # "caller" => i <= call.size
    /\ call.name \in Delivering /\ phase # "in" =>
         \A i \in 1..count : bytes[i] = Byte("device", i)

\* ChangesKept of a call that need not have returned.
ChangeKept(i) ==
  /\ i \in changed /\ array[i].from # "other" =>
       \/ call.name \in Reads /\ i <= call.size /\ ~threw
       \/ call.name = "usb_control_msg in" /\ i <= call.size
       \/ call.name \in Borrowing /\ ~pinned
  /\ i \notin changed /\ array[i].from # "caller" =>
       call.name \in Delivering /\ i <= call.size /\ ~threw

Kept == \A i \in 1..ArrayLen : ChangeKept(i)

\* Nothing is put into the array before libusb was called; by a read, not
\* before the array is set.
Waiting ==
  phase = "in" \/ (call.name \in Reads /\ (phase = "out" \/ threw)) =>
    \A i \in 1..ArrayLen : Untouched(i)

\* The device's bytes are to be in the array: at once in a pinned one.
Arrived ==
  /\ call.name \in Delivering /\ ~threw
  /\ phase \in {"set", "java"} \/ (phase = "out" /\ pinned)

Delivered ==
  Arrived =>
     \A i \in 1..count : \/ array[i] = Byte("device", i)
                         \/ i \in changed /\ array[i].from = "other"

TransferIInv == /\ TypesKept /\ Protocol /\ Balance /\ Told
        /\ Filled /\ Kept /\ Waiting /\ Delivered

-----------------------------------------------------------------------------
(* The operators.                                                          *)

LEMMA SeqOfLength ==
  ASSUME NEW S, NEW n \in Nat, NEW s \in [1..n -> S]
  PROVE  s \in Seq(S) /\ Len(s) = n
<1>1. s \in Seq(S)
  BY SeqDef
<1>2. 1..Len(s) = 1..n /\ Len(s) \in Nat
  BY <1>1, LenProperties
<1> QED BY <1>1, <1>2

LEMMA BlockFacts ==
  ASSUME NEW from \in Who, NEW n \in Nat
  PROVE  /\ Block(from, n) \in Seq(Origins) /\ Len(Block(from, n)) = n
         /\ \A i \in 1..n : Block(from, n)[i] = Byte(from, i)
<1>1. Block(from, n) \in [1..n -> Origins]
  BY DEF Block, Byte, Origins
<1> QED BY <1>1, SeqOfLength DEF Block

LEMMA OverlayFacts ==
  ASSUME NEW s \in Seq(Origins), NEW a \in Seq(Origins), NEW n \in Nat,
         n <= Len(s), n <= Len(a)
  PROVE  /\ Overlay(s, a, n) \in Seq(Origins) /\ Len(Overlay(s, a, n)) = Len(s)
         /\ \A i \in 1..Len(s) :
              Overlay(s, a, n)[i] = IF i <= n THEN a[i] ELSE s[i]
<1>1. Len(s) \in Nat /\ Len(a) \in Nat
  BY LenProperties
<1>2. \A i \in 1..Len(s) : (i <= n => a[i] \in Origins) /\ s[i] \in Origins
  BY <1>1, ElementOfSeq
<1>3. Overlay(s, a, n) \in [1..Len(s) -> Origins]
  BY <1>2 DEF Overlay
<1> QED BY <1>1, <1>3, SeqOfLength DEF Overlay

\* A buffer is not NULL.
LEMMA BufferThere == \A s \in Seq(Origins) : s # Null
BY NullBufferAssumption DEF Origins, Who

\* What the caller filled the array with.
LEMMA MineFacts ==
  /\ Mine \in Seq(Origins) /\ Len(Mine) = ArrayLen /\ Mine # Null
  /\ \A i \in 1..ArrayLen : Mine[i] = Byte("caller", i) /\ Mine[i].from = "caller"
<1>1. /\ Mine \in Seq(Origins) /\ Len(Mine) = ArrayLen
      /\ \A i \in 1..ArrayLen : Mine[i] = Byte("caller", i)
  BY BlockFacts, ArrayLenAssumption DEF Mine, Who
<1>2. \A i \in 1..ArrayLen : Byte("caller", i).from = "caller"
  BY DEF Byte
<1> QED BY <1>1, <1>2, BufferThere

LEMMA NoBytes == <<>> \in Seq(Origins) /\ Len(<<>>) = 0 /\ <<>> # Null
BY BufferThere, EmptySeq

-----------------------------------------------------------------------------
LEMMA InitTransfer == TransferInit => TransferIInv
<1> SUFFICES ASSUME TransferInit PROVE TransferIInv
  OBVIOUS
<1> USE DEF TransferInit
<1>1. TypesKept
  <2>1. array \in Seq(Origins) /\ Len(array) = ArrayLen
    BY MineFacts
  <2>2. bytes \in Seq(Origins) /\ sent \in Seq(Origins) /\ Len(sent) = 0 /\ Len(bytes) = 0
    BY NoBytes
  <2>3. call \in [name : CallNames \cup {"none"}, size : 0..MaxSize] /\ 0 <= MaxSize
    BY MaxSizeAssumption
  <2>4. Len(sent) <= call.size /\ Len(bytes) <= MaxSize
    BY <2>2, <2>3
  <2>5. /\ buffers \in [Reads \cup Descriptors -> Nat]
        /\ \A f \in Descriptors : buffers[f] <= MaxKept
    BY MaxKeptAssumption
  <2>6. /\ phase \in {"java", "in", "out", "set"}
        /\ pinned \in BOOLEAN /\ threw \in BOOLEAN /\ changed \subseteq 1..ArrayLen
    OBVIOUS
  <2> QED BY <2>1, <2>2, <2>3, <2>4, <2>5, <2>6 DEF TypesKept
<1>2. call.name \notin CallNames /\ bytes # Null
  BY NoBytes DEF CallNames, Writes, Reads, Controls, Texts, Descriptors
<1>3. Protocol /\ Balance
  BY <1>2 DEF Protocol, Balance, Borrowing, CallNames
<1>4. Told /\ Filled
  BY <1>2 DEF Told, Filled, Sending, CallNames
<1>5. Kept /\ Waiting /\ Delivered
  BY <1>2, MineFacts DEF Kept, ChangeKept, Waiting, Delivered, Delivering, CallNames, Byte
<1> QED BY <1>1, <1>3, <1>4, <1>5 DEF TransferIInv

\* A call begins: the array is the caller's, and of what it is given the copy
\* or the buffer is as long as it should be.
LEMMA BeginIInv ==
  ASSUME TransferIInv, NEW name \in CallNames, NEW size \in 0..MaxSize, Begin(name, size),
         name \in Borrowing => size <= ArrayLen,
         pinned' \in BOOLEAN, pinned' => name \in Borrowing,
         bytes' = Null => name \in Reads \cup Descriptors,
         bytes' # Null => bytes' \in Seq(Origins) /\ Len(bytes') <= MaxSize,
         ~pinned' /\ bytes' # Null =>
           Len(bytes') = (IF name \in Borrowing THEN ArrayLen ELSE size),
         ~pinned' /\ name \in Borrowing => bytes' = Mine,
         buffers' \in [Reads \cup Descriptors -> Nat],
         \A f \in Descriptors : buffers'[f] <= MaxKept,
         held' = IF name \in Borrowing THEN 1 ELSE 0,
         \A f \in Reads : buffers'[f] = IF name = f /\ bytes' # Null THEN 1 ELSE 0
  PROVE  TransferIInv'
<1> USE DEF Begin
<1>1. call' = [name |-> name, size |-> size] /\ call'.name = name /\ call'.size = size
  OBVIOUS
<1>2. TypesKept'
  <2>1. array' \in Seq(Origins) /\ Len(array') = ArrayLen
    BY MineFacts
  <2>2. sent' \in Seq(Origins) /\ Len(sent') = 0
    BY NoBytes
  <2>3. call' \in [name : CallNames \cup {"none"}, size : 0..MaxSize]
    BY <1>1
  <2>4. /\ phase' \in {"java", "in", "out", "set"}
        /\ threw' \in BOOLEAN /\ changed' \subseteq 1..ArrayLen
    OBVIOUS
  <2>5. Len(sent') <= call'.size
    BY <1>1, <2>2
  <2> QED BY <2>1, <2>2, <2>3, <2>4, <2>5 DEF TypesKept
<1>3. Protocol'
  BY <1>1 DEF Protocol, Room
<1>4. Balance'
  BY <1>1 DEF Balance
<1>5. Told'
  BY <1>1, NoBytes DEF Told
<1>6. Filled'
  <2>1. Sending \subseteq Borrowing /\ "usb_control_msg in" \in Borrowing
    BY DEF Sending, Borrowing, Controls
  <2>2. \A i \in 1..ArrayLen : Mine[i].from = "caller"
    BY MineFacts DEF Byte
  <2>3. phase' = "in"
    OBVIOUS
  <2>4. ~pinned' /\ (name \in Sending \/ name = "usb_control_msg in") => bytes' = Mine
    BY <2>1
  <2> QED BY <1>1, <2>2, <2>3, <2>4 DEF Filled
<1>7. Kept' /\ Waiting'
  BY <1>1, MineFacts DEF Kept, ChangeKept, Waiting, Untouched, Byte
<1>8. Delivered'
  BY <1>1 DEF Delivered
<1> QED BY <1>2, <1>3, <1>4, <1>5, <1>6, <1>7, <1>8 DEF TransferIInv

\* Of the kinds a name is of, it is only one.
LEMMA Kinds ==
  /\ CallNames = Borrowing \cup Reads \cup Texts \cup Descriptors
  /\ Borrowing \cap (Reads \cup Texts \cup Descriptors) = {}
  /\ Reads \cap (Texts \cup Descriptors) = {} /\ Texts \cap Descriptors = {}
  /\ Sending \subseteq Borrowing /\ Sending \cap Delivering = {}
  /\ Delivering = Reads \cup {"usb_control_msg in"}
  /\ Borrowing = Sending \cup {"usb_control_msg in"}
BY DEF CallNames, Borrowing, Delivering, Sending, Writes, Reads, Controls, Texts,
   Descriptors

LEMMA BorrowIInv ==
  ASSUME TransferIInv, NEW name \in Borrowing, NEW size \in 0..MaxSize, size <= ArrayLen,
         Begin(name, size), GetElements, UNCHANGED buffers
  PROVE  TransferIInv'
<1>1. phase = "java" /\ held = 0 /\ \A f \in Reads : buffers[f] = 0
  BY DEF Begin, TransferIInv, Balance
<1>2. /\ buffers' \in [Reads \cup Descriptors -> Nat]
      /\ \A f \in Descriptors : buffers'[f] <= MaxKept
  BY DEF TransferIInv, TypesKept
<1>3. /\ pinned' \in BOOLEAN /\ bytes' # Null /\ held' = 1
      /\ bytes' \in Seq(Origins) /\ Len(bytes') <= MaxSize
      /\ ~pinned' => bytes' = Mine /\ Len(bytes') = ArrayLen
  <2>1. CASE pinned' = TRUE
    BY <1>1, <2>1, NoBytes, MaxSizeAssumption DEF GetElements
  <2>2. CASE pinned' = FALSE
    BY <1>1, <2>2, MineFacts, MaxSizeAssumption DEF GetElements
  <2> QED BY <2>1, <2>2 DEF GetElements
<1>4. name \in CallNames /\ \A f \in Reads : name # f
  BY Kinds
<1> QED BY <1>1, <1>2, <1>3, <1>4, BeginIInv

LEMMA MallocIInv ==
  ASSUME TransferIInv, NEW name \in Reads \cup Descriptors, NEW size \in 0..MaxSize,
         name \in Descriptors => buffers[name] < MaxKept,
         Begin(name, size), Malloc(name, size)
  PROVE  TransferIInv'
<1>1. phase = "java" /\ held = 0 /\ \A f \in Reads : buffers[f] = 0
  BY DEF Begin, TransferIInv, Balance
<1>2. /\ buffers \in [Reads \cup Descriptors -> Nat]
      /\ \A f \in Descriptors : buffers[f] <= MaxKept
  BY DEF TransferIInv, TypesKept
<1>3. name \in CallNames /\ name \notin Borrowing
  BY Kinds
<1>4. pinned' = FALSE /\ held' = 0
  BY <1>1 DEF Malloc
<1>5. CASE bytes' = Null /\ UNCHANGED buffers
  BY <1>1, <1>2, <1>3, <1>4, <1>5, BeginIInv
<1>6. CASE /\ bytes' = Block("nobody", size)
           /\ buffers' = [buffers EXCEPT ![name] = @ + 1]
  <2>1. bytes' \in Seq(Origins) /\ Len(bytes') = size /\ bytes' # Null
    BY <1>6, BlockFacts, BufferThere DEF Who
  <2>2. Len(bytes') <= MaxSize
    BY <2>1
  <2>3. buffers' \in [Reads \cup Descriptors -> Nat]
    BY <1>2, <1>6
  <2>4. ASSUME NEW f \in Descriptors PROVE buffers'[f] <= MaxKept
    <3>1. f \in Reads \cup Descriptors /\ buffers[f] \in Nat /\ name \in Reads \cup Descriptors
      BY <1>2
    <3>2. CASE f = name
      BY <1>2, <1>6, <3>1, <3>2, MaxKeptAssumption
    <3>3. CASE f # name
      BY <1>2, <1>6, <3>1, <3>3
    <3> QED BY <3>2, <3>3
  <2>5. \A f \in Reads : buffers'[f] = IF name = f THEN 1 ELSE 0
    BY <1>1, <1>2, <1>6
  <2> QED BY <1>3, <1>4, <2>1, <2>2, <2>3, <2>4, <2>5, BeginIInv
<1> QED BY <1>5, <1>6 DEF Malloc

LEMMA TextIInv ==
  ASSUME TransferIInv, NEW name \in Texts, Text(name, MaxSize)
  PROVE  TransferIInv'
<1>1. phase = "java" /\ held = 0 /\ \A f \in Reads : buffers[f] = 0
  BY DEF Text, Begin, TransferIInv, Balance
<1>2. /\ buffers' \in [Reads \cup Descriptors -> Nat]
      /\ \A f \in Descriptors : buffers'[f] <= MaxKept
      /\ \A f \in Reads : buffers'[f] = 0
      /\ held' = 0 /\ pinned' = FALSE
  BY <1>1 DEF TransferIInv, TypesKept, Text
<1>3. bytes' \in Seq(Origins) /\ Len(bytes') = MaxSize /\ bytes' # Null
  BY BlockFacts, BufferThere, MaxSizeAssumption DEF Text, Who
<1>4. name \in CallNames /\ name \notin Borrowing /\ \A f \in Reads : name # f
  BY Kinds
<1>5. MaxSize \in 0..MaxSize /\ Len(bytes') <= MaxSize
  BY <1>3, MaxSizeAssumption
<1>6. Begin(name, MaxSize)
  BY DEF Text
<1> QED BY <1>2, <1>3, <1>4, <1>5, <1>6, BeginIInv

LEMMA CallsIInv == TransferIInv /\ Calls => TransferIInv'
<1> SUFFICES ASSUME TransferIInv, Calls PROVE TransferIInv'
  OBVIOUS
<1>1. ASSUME NEW size \in 0..MaxSize,
             \/ usb_bulk_write(size) \/ usb_interrupt_write(size)
             \/ usb_control_msg(size)
      PROVE  TransferIInv'
  <2>1. \E name \in Borrowing : /\ size <= ArrayLen /\ Begin(name, size)
                                /\ GetElements /\ UNCHANGED buffers
    BY <1>1 DEF usb_bulk_write, usb_interrupt_write, usb_control_msg, Write,
       Borrowing, Writes
  <2> QED BY <2>1, BorrowIInv
<1>2. ASSUME NEW size \in 0..MaxSize,
             \/ usb_bulk_read(size) \/ usb_interrupt_read(size)
             \/ usb_get_descriptor(size) \/ usb_get_descriptor_by_endpoint(size)
      PROVE  TransferIInv'
  <2>1. \E name \in Reads \cup Descriptors :
          /\ name \in Descriptors => buffers[name] < MaxKept
          /\ Begin(name, size) /\ Malloc(name, size)
    BY <1>2 DEF usb_bulk_read, usb_interrupt_read, usb_get_descriptor,
       usb_get_descriptor_by_endpoint, ReadCall, Reads, Descriptors
  <2> QED BY <2>1, MallocIInv
<1>3. CASE usb_get_string \/ usb_get_string_simple
  BY <1>3, TextIInv DEF usb_get_string, usb_get_string_simple, Texts
<1> QED BY <1>1, <1>2, <1>3 DEF Calls

-----------------------------------------------------------------------------
(* The other threads, and libusb.                                          *)

\* No more bytes arrive than were asked for, and than the array has.
LEMMA ArrivedInside ==
  ASSUME TypesKept, Protocol, Told, Arrived, NEW i \in 1..count
  PROVE  i \in 1..ArrayLen /\ i \in 1..call.size
<1>1. count \in 0..call.size /\ call.size \in Nat /\ bytes # Null
  <2>1. count > 0
    BY DEF Told, TypesKept
  <2>2. phase # "in" /\ call.name \notin Texts \cup Descriptors
    BY Kinds DEF Arrived
  <2> QED BY <2>1, <2>2 DEF Told, TypesKept
<1>2. call.size <= ArrayLen
  <2>1. CASE call.name \in Borrowing
    BY <2>1 DEF Protocol
  <2>2. CASE call.name \notin Borrowing
    <3>1. call.name \in Reads /\ ~threw /\ phase \in {"set", "java"}
      BY <2>2, Kinds DEF Arrived, Protocol, TypesKept
    <3> QED BY <1>1, <3>1, ArrayLenAssumption DEF Protocol
  <2> QED BY <2>1, <2>2
<1> QED BY <1>1, <1>2, ArrayLenAssumption

\* The same in the next state.
Inside == Arrived => \A i \in 1..count : i \in 1..ArrayLen /\ i \in 1..call.size

LEMMA ArrivedInsideNext == TypesKept' /\ Protocol' /\ Told' => Inside'
<1>1. TypesKept /\ Protocol /\ Told => Inside
  BY ArrivedInside DEF Inside
<1> QED BY <1>1, PTL

LEMMA ModifyIInv ==
  ASSUME TransferIInv, NEW k \in 1..ArrayLen, Modify(k)
  PROVE  TransferIInv'
<1> USE DEF TransferIInv
<1>1. /\ phase # "java"
      /\ array' = [array EXCEPT ![k] = Byte("other", k)]
      /\ changed' = changed \cup {k}
      /\ UNCHANGED <<phase, call, pinned, bytes, count, cause, sent, threw, held, buffers>>
  BY DEF Modify
<1>2. array \in Seq(Origins) /\ Len(array) = ArrayLen
  BY DEF TypesKept
<1>3. k \in Nat /\ Byte("other", k) \in Origins
  BY ArrayLenAssumption DEF Byte, Origins, Who
<1>4. /\ array' \in Seq(Origins) /\ Len(array') = ArrayLen
      /\ \A i \in 1..ArrayLen : array'[i] = IF i = k THEN Byte("other", k) ELSE array[i]
  BY <1>1, <1>2, <1>3, ExceptSeq
<1>5. TypesKept'
  BY <1>1, <1>4 DEF TypesKept
<1>6. Protocol' /\ Balance'
  BY <1>1 DEF Protocol, Balance, Room
<1>7. Told' /\ Filled'
  BY <1>1 DEF Told, Filled
<1>8. Kept'
  <2> SUFFICES ASSUME NEW i \in 1..ArrayLen PROVE ChangeKept(i)'
    BY DEF Kept
  <2>1. CASE i = k
    BY <1>1, <1>4, <2>1 DEF ChangeKept, Byte
  <2>2. CASE i # k
    BY <1>1, <1>4, <2>2 DEF Kept, ChangeKept
  <2> QED BY <2>1, <2>2
<1>9. Waiting'
  BY <1>1, <1>4 DEF Waiting, Untouched, Byte
<1>10. Delivered'
  <2>1. SUFFICES ASSUME Arrived', NEW i \in 1..count'
                 PROVE  \/ array'[i] = Byte("device", i)
                        \/ i \in changed' /\ array'[i].from = "other"
    BY DEF Delivered
  <2>2. Arrived /\ i \in 1..count
    BY <1>1, <2>1 DEF Arrived
  <2>3. i \in 1..ArrayLen
    BY <2>2, ArrivedInside
  <2> QED BY <1>1, <1>4, <2>2, <2>3 DEF Delivered, Byte
<1> QED BY <1>5, <1>6, <1>7, <1>8, <1>9, <1>10

LEMMA SendIInv == TransferIInv /\ Send => TransferIInv'
<1> SUFFICES ASSUME TransferIInv, Send PROVE TransferIInv'
  OBVIOUS
<1> USE DEF TransferIInv
<1>1. PICK n \in 0..call.size : Result(n) /\ sent' = SubSeq(Content, 1, n)
  BY DEF Send
<1>2. /\ phase = "in" /\ phase' = "out" /\ call.name \in Sending
      /\ UNCHANGED <<call, array, pinned, bytes, threw, changed, held, buffers>>
  BY DEF Send
<1>3. /\ call.name \in Borrowing /\ call.name \notin Delivering /\ call.name \notin Reads
      /\ bytes # Null /\ ~threw
  BY <1>2, Kinds DEF Protocol
<1>4. n <= ArrayLen /\ n \in Nat /\ n <= call.size /\ call.size \in Nat
  BY <1>3, ArrayLenAssumption DEF TypesKept, Protocol
\* What libusb finds is the caller's, or in a pinned array another thread's.
<1>5. ASSUME NEW i \in 1..n
      PROVE  /\ Content[i] \in Origins
             /\ Content[i] = Byte("caller", i) \/ (pinned /\ i \in changed)
  <2>1. i \in 1..ArrayLen
    BY <1>4, ArrayLenAssumption
  <2>2. CASE pinned
    <3>1. array[i] = Byte(IF i \in changed THEN "other" ELSE "caller", i)
      BY <1>2, <2>1 DEF Waiting, Untouched
    <3>2. array[i] \in Origins
      BY <2>1, ElementOfSeq DEF TypesKept
    <3>3. Content = array
      BY <2>2 DEF Content
    <3>4. i \notin changed => array[i] = Byte("caller", i)
      BY <3>1
    <3> QED BY <2>2, <3>2, <3>3, <3>4
  <2>3. CASE ~pinned
    <3>1. bytes = Mine
      BY <1>2, <1>3, <2>3 DEF Filled
    <3>2. Content = Mine
      BY <2>3, <3>1 DEF Content
    <3> QED BY <2>1, <3>2, MineFacts, ElementOfSeq
  <2> QED BY <2>2, <2>3
<1>6. /\ sent' \in Seq(Origins) /\ Len(sent') = n
      /\ \A i \in 1..n : sent'[i] = Content[i]
  <2>1. /\ SubSeq(Content, 1, n) \in Seq(Origins)
        /\ Len(SubSeq(Content, 1, n)) = IF 1 <= n THEN n - 1 + 1 ELSE 0
        /\ \A i \in 1..n - 1 + 1 : SubSeq(Content, 1, n)[i] = Content[1 + i - 1]
    BY <1>4, <1>5, SubSeqProperties
  <2> QED BY <1>1, <1>4, <2>1
<1>7. TypesKept' /\ Protocol' /\ Balance'
  BY <1>2, <1>3, <1>4, <1>6 DEF TypesKept, Protocol, Balance, Room
<1>8. Told'
  <2>1. \/ cause' = "none" /\ count' = n
        \/ cause' = "timeout" /\ count' = -110
        \/ cause' = "other" /\ count' \in {-5, -12}
    BY <1>1 DEF Result, errno
  <2>2. count' >= 0 => count' = n
    BY <2>1
  <2> QED BY <1>2, <1>3, <1>4, <1>5, <1>6, <2>1, <2>2 DEF Told
<1>9. Filled' /\ Kept' /\ Waiting' /\ Delivered'
  BY <1>2, <1>3 DEF Filled, Kept, ChangeKept, Waiting, Arrived, Delivered
<1> QED BY <1>7, <1>8, <1>9

LEMMA ReceiveIInv == TransferIInv /\ Receive => TransferIInv'
<1> SUFFICES ASSUME TransferIInv, Receive PROVE TransferIInv'
  OBVIOUS
<1> USE DEF TransferIInv
<1>1. PICK n \in 0..call.size :
        /\ Result(n)
        /\ LET s == Overlay(Content, Block("device", call.size), n)
           IN IF pinned THEN array' = s /\ UNCHANGED bytes
              ELSE bytes' = s /\ UNCHANGED array
  BY DEF Receive
<1> DEFINE s == Overlay(Content, Block("device", call.size), n)
<1>2. /\ phase = "in" /\ phase' = "out" /\ call.name \notin Sending /\ bytes # Null
      /\ UNCHANGED <<call, pinned, sent, threw, changed, held, buffers>>
  BY DEF Receive
<1>3. call.name \in CallNames /\ ~threw /\ call.size \in Nat /\ n \in Nat /\ n <= call.size
  BY <1>2 DEF Protocol, TypesKept
<1>4. /\ Content \in Seq(Origins) /\ Len(Content) <= MaxSize
      /\ Len(Content) = (IF pinned THEN ArrayLen ELSE Room)
      /\ n <= Len(Content)
  <2>1. CASE pinned
    BY <1>3, <2>1, ArrayLenAssumption, MaxSizeAssumption DEF Content, TypesKept, Protocol
  <2>2. CASE ~pinned
    BY <1>2, <1>3, <2>2, ArrayLenAssumption DEF Content, TypesKept, Protocol, Room
  <2> QED BY <2>1, <2>2
<1>5. /\ s \in Seq(Origins) /\ Len(s) = Len(Content)
      /\ \A i \in 1..Len(Content) :
           s[i] = IF i <= n THEN Byte("device", i) ELSE Content[i]
  <2>1. /\ Block("device", call.size) \in Seq(Origins)
        /\ Len(Block("device", call.size)) = call.size
        /\ \A i \in 1..call.size : Block("device", call.size)[i] = Byte("device", i)
    BY <1>3, BlockFacts DEF Who
  <2>2. /\ s \in Seq(Origins) /\ Len(s) = Len(Content)
        /\ \A i \in 1..Len(Content) :
             s[i] = IF i <= n THEN Block("device", call.size)[i] ELSE Content[i]
    BY <1>3, <1>4, <2>1, OverlayFacts
  <2> QED BY <1>3, <1>4, <2>1, <2>2, LenProperties
<1> HIDE DEF s
<1>6. /\ \/ cause' = "none" /\ count' = n
         \/ cause' = "timeout" /\ count' = -110
         \/ cause' = "other" /\ count' \in {-5, -12}
      /\ \A i \in 1..count' : i \in 1..n
  BY <1>1, <1>3 DEF Result, errno
<1>7. s # Null /\ bytes' # Null
  BY <1>1, <1>2, <1>5, BufferThere DEF s
<1>8. Told' /\ Balance'
  BY <1>2, <1>3, <1>6, <1>7 DEF Told, Balance
<1>9. CASE pinned
  <2>1. /\ call.name = "usb_control_msg in" /\ call.size <= ArrayLen
        /\ array' = s /\ UNCHANGED bytes /\ Content = array
    BY <1>1, <1>2, <1>9, Kinds DEF Protocol, Content, s
  <2>2. TypesKept' /\ Protocol'
    BY <1>2, <1>3, <1>4, <1>5, <1>9, <2>1 DEF TypesKept, Protocol, Room
  <2>3. Kept'
    <3> SUFFICES ASSUME NEW i \in 1..ArrayLen PROVE ChangeKept(i)'
      BY DEF Kept
    <3>1. CASE i <= n
      <4>1. i <= call.size
        BY <1>3, <3>1, ArrayLenAssumption
      <4>2. call.name \in Delivering
        BY <2>1 DEF Delivering
      <4> QED BY <1>2, <1>3, <2>1, <4>1, <4>2 DEF ChangeKept
    <3>2. CASE ~(i <= n)
      <4>1. array'[i] = array[i]
        BY <1>4, <1>5, <1>9, <2>1, <3>2
      <4> QED BY <1>2, <4>1 DEF Kept, ChangeKept
    <3> QED BY <3>1, <3>2
  <2>4. Filled' /\ Waiting'
    BY <1>2, <1>3, <1>9, <2>1, Kinds DEF Filled, Waiting
  <2>5. Delivered'
    <3>1. \A i \in 1..count' : i \in 1..Len(Content) /\ i <= n
      BY <1>3, <1>4, <1>6, <1>9, ArrayLenAssumption
    <3> QED BY <1>5, <2>1, <3>1 DEF Delivered
  <2> QED BY <1>8, <2>2, <2>3, <2>4, <2>5
<1>10. CASE ~pinned
  <2>1. bytes' = s /\ UNCHANGED array /\ Content = bytes
    BY <1>1, <1>10 DEF Content, s
  <2>2. TypesKept' /\ Protocol'
    BY <1>2, <1>3, <1>4, <1>5, <1>7, <1>10, <2>1 DEF TypesKept, Protocol, Room
  <2>3. Kept' /\ Waiting'
    BY <1>2, <1>3, <2>1 DEF Kept, ChangeKept, Waiting, Untouched
  <2>4. Filled'
    <3>1. Len(Content) \in Nat /\ \A i \in 1..count' : i \in 1..Len(Content) /\ i <= n
      BY <1>3, <1>4, <1>6, LenProperties
    <3>2. \A i \in 1..count' : bytes'[i] = Byte("device", i)
      BY <1>5, <2>1, <3>1
    <3>3. ASSUME call.name = "usb_control_msg in", NEW i \in 1..ArrayLen,
                 bytes'[i].from # "caller"
          PROVE  i <= call.size
      <4>1. Len(Content) = ArrayLen
        BY <1>4, <1>10, <3>3, Kinds DEF Room
      <4>2. CASE i <= n
        BY <1>3, <4>2, ArrayLenAssumption
      <4>3. CASE ~(i <= n)
        <5>1. bytes'[i] = bytes[i]
          BY <1>5, <2>1, <4>1, <4>3
        <5> QED BY <1>2, <1>10, <3>3, <5>1 DEF Filled
      <4> QED BY <4>2, <4>3
    <3> QED BY <1>2, <3>2, <3>3 DEF Filled
  <2>5. Delivered'
    BY <1>2, <1>3, <1>10 DEF Delivered, Arrived
  <2> QED BY <1>8, <2>2, <2>3, <2>4, <2>5
<1> QED BY <1>9, <1>10

LEMMA ReceiveNowhereIInv == TransferIInv /\ ReceiveNowhere => TransferIInv'
<1> SUFFICES ASSUME TransferIInv, ReceiveNowhere PROVE TransferIInv'
  OBVIOUS
<1> USE DEF TransferIInv
<1>1. /\ phase = "in" /\ phase' = "out" /\ bytes = Null
      /\ UNCHANGED <<call, array, pinned, bytes, sent, threw, changed, held, buffers>>
      /\ \/ cause' = "timeout" /\ count' = -110
         \/ cause' = "other" /\ count' \in {-5, -12}
  BY DEF ReceiveNowhere, Result, errno
<1>2. ~threw /\ ~pinned
  BY <1>1, Kinds DEF Protocol
<1>3. TypesKept' /\ Protocol' /\ Balance'
  BY <1>1 DEF TypesKept, Protocol, Balance, Room
<1>4. Told' /\ Filled'
  BY <1>1 DEF Told, Filled
<1>5. Kept' /\ Waiting' /\ Delivered'
  BY <1>1, <1>2 DEF Kept, ChangeKept, Waiting, Untouched, Arrived, Delivered
<1> QED BY <1>3, <1>4, <1>5

-----------------------------------------------------------------------------
(* The functions return.                                                   *)

\* The release: a pinned array is as it was, of a copied one every byte is
\* put back.
LEMMA ReleaseIInv ==
  ASSUME TransferIInv, call.name \in Borrowing, ReleaseElements,
         phase = "set" \/ (phase = "out" /\ call.name \in Writes),
         phase' = "java",
         UNCHANGED <<call, pinned, bytes, count, cause, sent, threw, changed, buffers>>
  PROVE  TransferIInv'
<1> USE DEF TransferIInv
<1>1. /\ phase # "java" /\ phase # "in" /\ ~threw /\ bytes # Null /\ held = 1
      /\ call.name \notin Reads
  BY Kinds DEF Protocol, Balance
<1>2. /\ call.name \in Delivering => phase = "set"
      /\ call.name \in Sending \/ call.name = "usb_control_msg in"
  BY Kinds DEF Sending
<1>3. /\ pinned => array' = array
      /\ ~pinned => array' = bytes /\ Len(bytes) = ArrayLen
  BY <1>1 DEF ReleaseElements, Protocol, Room
<1>4. TypesKept'
  <2>1. array' \in Seq(Origins) /\ Len(array') = ArrayLen
    BY <1>1, <1>3 DEF TypesKept
  <2> QED BY <2>1 DEF TypesKept
<1>5. Protocol' /\ Filled'
  BY <1>1 DEF Protocol, Room, Filled
<1>6. Balance'
  <2>1. \A f \in Reads : f # call.name
    BY <1>1
  <2>2. held' = 0
    BY <1>1 DEF ReleaseElements
  <2> QED BY <2>1, <2>2 DEF Balance
<1>7. Told' /\ Waiting'
  BY <1>1 DEF Told, Waiting
<1>8. Kept'
  <2> SUFFICES ASSUME NEW i \in 1..ArrayLen PROVE ChangeKept(i)'
    BY DEF Kept
  <2>1. CASE pinned
    BY <1>3, <2>1 DEF Kept, ChangeKept
  <2>2. CASE ~pinned
    <3>1. array'[i].from # "caller" =>
            call.name = "usb_control_msg in" /\ i <= call.size
      <4>1. CASE call.name \in Sending
        <5>1. bytes = Mine
          BY <1>1, <2>2, <4>1 DEF Filled
        <5> QED BY <1>3, <2>2, <5>1, MineFacts
      <4>2. CASE call.name = "usb_control_msg in"
        BY <1>1, <1>3, <2>2, <4>2 DEF Filled
      <4> QED BY <1>2, <4>1, <4>2
    <3>2. call.name = "usb_control_msg in" => call.name \in Delivering
      BY DEF Delivering
    <3> QED BY <1>1, <2>2, <3>1, <3>2 DEF ChangeKept
  <2> QED BY <2>1, <2>2
<1>9. Delivered'
  <2>1. CASE pinned
    BY <1>1, <1>2, <1>3, <2>1 DEF Delivered, Arrived
  <2>2. CASE ~pinned
    BY <1>1, <1>3, <2>2 DEF Delivered, Arrived, Filled
  <2> QED BY <2>1, <2>2
<1> QED BY <1>4, <1>5, <1>6, <1>7, <1>8, <1>9

\* SetByteArrayRegion: a too long one throws and leaves the array alone.
LEMMA SetIInv ==
  ASSUME TransferIInv, call.name \in Reads \cup Controls, bytes # Null,
         phase = "out", phase' = "set", SetRegion(call.size),
         UNCHANGED <<call, pinned, bytes, count, cause, sent, changed, held, buffers>>
  PROVE  TransferIInv'
<1> USE DEF TransferIInv
<1>1. /\ ~threw /\ call.size \in Nat
      /\ call.name \in Reads => call.name \in Delivering /\ ~pinned
                                  /\ call.name \notin Borrowing
      /\ call.name \in Borrowing => call.size <= ArrayLen
      /\ call.name \in Borrowing \cup Reads
  <2>1. ~threw /\ call.size \in Nat
    BY DEF Protocol, TypesKept
  <2> QED BY <2>1, Kinds DEF Protocol, Borrowing
<1>2. CASE call.size > ArrayLen
  <2>1. threw' /\ threw' \in BOOLEAN /\ UNCHANGED array /\ call.name \in Reads
    <3>1. ~(call.size <= ArrayLen)
      BY <1>1, <1>2, ArrayLenAssumption
    <3> QED BY <1>1, <3>1 DEF SetRegion
  <2>2. TypesKept' /\ Protocol' /\ Balance' /\ Told'
    BY <1>1, <1>2, <2>1 DEF TypesKept, Protocol, Balance, Told, Room
  <2>3. Filled'
    BY <1>1, <2>1, Kinds DEF Filled
  <2>4. Waiting' /\ Delivered'
    BY <2>1 DEF Waiting, Untouched, Delivered, Arrived
  \* Nothing was put into the array before either.
  <2>5. Kept'
    <3> SUFFICES ASSUME NEW i \in 1..ArrayLen PROVE ChangeKept(i)'
      BY DEF Kept
    <3>1. array'[i] = Byte(IF i \in changed THEN "other" ELSE "caller", i)
      BY <2>1 DEF Waiting, Untouched
    <3>2. array'[i].from = IF i \in changed THEN "other" ELSE "caller"
      BY <3>1 DEF Byte
    <3> QED BY <3>2 DEF ChangeKept
  <2> QED BY <2>2, <2>3, <2>4, <2>5
<1>3. CASE call.size <= ArrayLen
  <2>1. array' = Overlay(array, Content, call.size) /\ UNCHANGED threw
    BY <1>3 DEF SetRegion
  <2>2. Content \in Seq(Origins) /\ call.size <= Len(Content) /\ call.size <= Len(array)
    <3>1. CASE pinned
      BY <1>3, <3>1 DEF Content, TypesKept
    <3>2. CASE ~pinned
      <4>1. Content = bytes /\ Len(bytes) = Room
        BY <3>2 DEF Content, Protocol
      <4> QED BY <1>1, <1>3, <4>1 DEF TypesKept, Room
    <3> QED BY <1>3, <3>1, <3>2 DEF TypesKept
  <2>3. /\ array' \in Seq(Origins) /\ Len(array') = ArrayLen
        /\ \A i \in 1..ArrayLen :
             array'[i] = IF i <= call.size THEN Content[i] ELSE array[i]
    <3>1. array \in Seq(Origins) /\ Len(array) = ArrayLen
      BY DEF TypesKept
    <3>2. /\ Overlay(array, Content, call.size) \in Seq(Origins)
          /\ Len(Overlay(array, Content, call.size)) = Len(array)
          /\ \A i \in 1..Len(array) : Overlay(array, Content, call.size)[i] =
               IF i <= call.size THEN Content[i] ELSE array[i]
      BY <1>1, <2>2, <3>1, OverlayFacts
    <3> QED BY <2>1, <3>1, <3>2
  <2>4. TypesKept' /\ Protocol' /\ Balance' /\ Told'
    BY <1>1, <1>3, <2>1, <2>3 DEF TypesKept, Protocol, Balance, Told, Room
  <2>5. Filled'
    BY DEF Filled
  <2>6. Waiting'
    BY <1>1, <2>1 DEF Waiting
  <2>7. Kept'
    <3> SUFFICES ASSUME NEW i \in 1..ArrayLen PROVE ChangeKept(i)'
      BY DEF Kept
    <3>1. CASE array'[i] = array[i]
      BY <2>1, <3>1 DEF Kept, ChangeKept
    <3>2. CASE array'[i] # array[i]
      <4>1. i <= call.size /\ array'[i] = bytes[i] /\ ~pinned
        BY <2>3, <3>2 DEF Content
      <4>2. CASE call.name \in Delivering
        <5>1. call.name \in Reads \/ call.name = "usb_control_msg in"
          BY <4>2 DEF Delivering
        <5> QED BY <1>1, <2>1, <4>1, <4>2, <5>1 DEF ChangeKept
      <4>3. CASE call.name \notin Delivering
        <5>1. call.name \in Sending /\ call.name \in Borrowing
          BY <1>1, <4>3, Kinds
        <5>2. array'[i].from = "caller"
          BY <4>1, <5>1, MineFacts DEF Filled
        <5> QED BY <4>1, <5>1, <5>2 DEF ChangeKept
      <4> QED BY <4>2, <4>3
    <3> QED BY <3>1, <3>2
  <2>8. Delivered'
    <3> SUFFICES ASSUME Arrived', NEW i \in 1..count
                 PROVE  \/ array'[i] = Byte("device", i)
                        \/ i \in changed /\ array'[i].from = "other"
      BY DEF Delivered
    <3>1. i \in 1..ArrayLen /\ i \in 1..call.size
      <4>1. TypesKept' /\ Protocol' /\ Told' /\ Arrived' /\ i \in 1..count'
        BY <2>4
      <4>2. i \in 1..ArrayLen /\ i \in 1..call'.size
        BY <4>1, ArrivedInsideNext DEF Inside
      <4> QED BY <4>2
    <3>2. array'[i] = Content[i]
      BY <2>3, <3>1
    <3>3. CASE pinned
      BY <1>1, <3>2, <3>3 DEF Content, Delivered, Arrived
    <3>4. CASE ~pinned
      BY <3>2, <3>4 DEF Content, Filled, Arrived
    <3> QED BY <3>3, <3>4
  <2> QED BY <2>4, <2>5, <2>6, <2>7, <2>8
<1> QED BY <1>1, <1>2, <1>3, ArrayLenAssumption

\* A read that got no buffer: there is nothing to copy.
LEMMA ReadFailsIInv ==
  ASSUME TransferIInv, NEW name \in Reads, ReadFails(name)
  PROVE  TransferIInv'
<1> USE DEF TransferIInv
<1>1. /\ phase = "out" /\ phase' = "java" /\ call.name \in Reads /\ bytes = Null
      /\ UNCHANGED <<call, array, pinned, bytes, count, cause, sent, threw,
                     changed, held, buffers>>
  BY DEF ReadFails
<1>2. ~threw /\ count < 0 /\ call.name \notin Borrowing
  <2>1. call.name \notin Borrowing
    BY <1>1, Kinds
  <2>2. ~threw
    BY <1>1 DEF Protocol
  <2>3. count < 0
    BY <1>1 DEF Told
  <2> QED BY <2>1, <2>2, <2>3
<1>3. TypesKept' /\ Protocol' /\ Balance' /\ Told' /\ Filled'
  BY <1>1, <1>2 DEF TypesKept, Protocol, Balance, Told, Filled, Room
<1>4. Kept' /\ Waiting'
  BY <1>1, <1>2 DEF Kept, ChangeKept, Waiting
<1>5. Delivered'
  <2>1. count \in {-110, -5, -12} /\ count' = count
    BY <1>1 DEF Told
  <2>2. 1..count' = {}
    BY <2>1
  <2> QED BY <2>2 DEF Delivered
<1> QED BY <1>3, <1>4, <1>5

LEMMA FreeBufferIInv ==
  ASSUME TransferIInv, NEW name \in Reads, FreeBuffer(name)
  PROVE  TransferIInv'
<1> USE DEF TransferIInv
<1>1. /\ phase = "set" /\ phase' = "java" /\ call.name = name /\ bytes' = <<>>
      /\ buffers' = [buffers EXCEPT ![name] = @ - 1]
      /\ UNCHANGED <<call, array, pinned, count, cause, sent, threw, changed, held>>
  BY DEF FreeBuffer
<1>2. /\ bytes # Null /\ bytes' # Null /\ name \notin Borrowing /\ name \notin Descriptors
      /\ bytes' \in Seq(Origins) /\ Len(bytes') = 0
  BY <1>1, Kinds, NoBytes DEF Protocol
<1>3. buffers \in [Reads \cup Descriptors -> Nat] /\ buffers[name] = 1
  BY <1>1, <1>2 DEF TypesKept, Balance
<1>4. buffers' = [buffers EXCEPT ![name] = 0] /\ 0 <= MaxSize
  BY <1>1, <1>3, MaxSizeAssumption
<1>5. TypesKept'
  BY <1>1, <1>2, <1>3, <1>4 DEF TypesKept
<1>6. Protocol' /\ Told' /\ Filled'
  BY <1>1, <1>2 DEF Protocol, Told, Filled
<1>7. Balance'
  BY <1>1, <1>2, <1>3, <1>4 DEF Balance
<1>8. Kept' /\ Waiting'
  BY <1>1 DEF Kept, ChangeKept, Waiting, Untouched
<1>9. Delivered'
  BY <1>1 DEF Delivered, Arrived
<1> QED BY <1>5, <1>6, <1>7, <1>8, <1>9

\* Text is given back as a string: the buffer is no longer the call's.
LEMMA EndTextIInv ==
  ASSUME TransferIInv, NEW name \in Texts \cup Descriptors, EndText(name)
  PROVE  TransferIInv'
<1> USE DEF TransferIInv
<1>1. /\ phase = "out" /\ phase' = "java" /\ call.name = name /\ bytes' = <<>>
      /\ count' \in {0, 1}
      /\ UNCHANGED <<call, array, pinned, cause, sent, threw, changed, held, buffers>>
  BY DEF EndText
<1>2. /\ bytes' # Null /\ bytes' \in Seq(Origins) /\ Len(bytes') <= MaxSize
      /\ name \notin Reads /\ name \notin Borrowing /\ name \notin Delivering
  <2>1. bytes' # Null /\ bytes' \in Seq(Origins) /\ Len(bytes') = 0
    BY <1>1, NoBytes
  <2>2. Len(bytes') <= MaxSize
    BY <2>1, MaxSizeAssumption
  <2>3. name \notin Reads /\ name \notin Borrowing /\ name \notin Delivering
    BY DEF Texts, Descriptors, Reads, Writes, Controls, Borrowing, Delivering
  <2> QED BY <2>1, <2>2, <2>3
<1>3. TypesKept' /\ Protocol' /\ Balance'
  BY <1>1, <1>2 DEF TypesKept, Protocol, Balance
<1>4. Told' /\ Filled'
  <2>1. call'.name \in Texts \cup Descriptors /\ call'.name \notin Sending
    BY <1>1, Kinds
  <2> QED BY <1>1, <1>2, <2>1 DEF Told, Filled
<1>5. Kept' /\ Waiting' /\ Delivered'
  BY <1>1, <1>2 DEF Kept, ChangeKept, Waiting, Delivered, Arrived
<1> QED BY <1>3, <1>4, <1>5

LEMMA ReturnsIInv == TransferIInv /\ Returns => TransferIInv'
<1> SUFFICES ASSUME TransferIInv, Returns PROVE TransferIInv'
  OBVIOUS
<1>1. CASE usb_bulk_write_ends \/ usb_interrupt_write_ends
  <2>1. /\ phase = "out" /\ call.name \in Writes /\ phase' = "java" /\ ReleaseElements
        /\ UNCHANGED <<call, pinned, bytes, count, cause, sent, threw, changed, buffers>>
    BY <1>1 DEF usb_bulk_write_ends, usb_interrupt_write_ends, EndWrite, Writes
  <2> QED BY <2>1, ReleaseIInv DEF Borrowing
<1>2. CASE usb_bulk_read_ends \/ usb_interrupt_read_ends
  <2>1. PICK name \in Reads : EndRead(name)
    BY <1>2 DEF usb_bulk_read_ends, usb_interrupt_read_ends, Reads
  <2>2. CASE SetArray(name)
    <3>1. /\ phase = "out" /\ call.name \in Reads \cup Controls /\ bytes # Null
          /\ phase' = "set" /\ SetRegion(call.size)
          /\ UNCHANGED <<call, pinned, bytes, count, cause, sent, changed, held, buffers>>
      BY <2>2 DEF SetArray
    <3> QED BY <3>1, SetIInv
  <2> QED BY <2>1, <2>2, ReadFailsIInv, FreeBufferIInv DEF EndRead
<1>3. CASE usb_control_msg_sets
  <2>1. bytes # Null
    BY <1>3, Kinds DEF usb_control_msg_sets, TransferIInv, Protocol, Borrowing
  <2>2. /\ phase = "out" /\ call.name \in Reads \cup Controls
        /\ phase' = "set" /\ SetRegion(call.size)
        /\ UNCHANGED <<call, pinned, bytes, count, cause, sent, changed, held, buffers>>
    BY <1>3 DEF usb_control_msg_sets
  <2> QED BY <2>1, <2>2, SetIInv
<1>4. CASE usb_control_msg_ends
  BY <1>4, ReleaseIInv DEF usb_control_msg_ends, Borrowing
<1>5. CASE \/ usb_get_string_ends \/ usb_get_string_simple_ends
           \/ usb_get_descriptor_ends \/ usb_get_descriptor_by_endpoint_ends
  BY <1>5, EndTextIInv DEF usb_get_string_ends, usb_get_string_simple_ends,
     usb_get_descriptor_ends, usb_get_descriptor_by_endpoint_ends, Texts, Descriptors
<1> QED BY <1>1, <1>2, <1>3, <1>4, <1>5 DEF Returns

LEMMA NextTransfer == TransferIInv /\ [TransferNext]_transferVars => TransferIInv'
<1>1. TransferIInv /\ UNCHANGED transferVars => TransferIInv'
  <2> SUFFICES ASSUME TransferIInv, UNCHANGED transferVars PROVE TransferIInv'
    OBVIOUS
  <2> USE DEF TransferIInv, transferVars
  <2>1. TypesKept' /\ Protocol' /\ Balance' /\ Told'
    BY DEF TypesKept, Protocol, Balance, Told, Room
  <2>2. Filled' /\ Kept' /\ Waiting' /\ Delivered'
    BY DEF Filled, Kept, ChangeKept, Waiting, Untouched, Delivered, Arrived
  <2> QED BY <2>1, <2>2
<1> QED BY <1>1, CallsIInv, ModifyIInv, SendIInv, ReceiveIInv, ReceiveNowhereIInv,
     ReturnsIInv DEF TransferNext, Libusb

\* Every call finds and leaves things so.
THEOREM TransferInvariant == TransferSpec => []TransferIInv
<1> QED BY InitTransfer, NextTransfer, PTL DEF TransferSpec

-----------------------------------------------------------------------------
LEMMA TransferTyped == TransferIInv => TransferTypeOK
<1> SUFFICES ASSUME TransferIInv PROVE TransferTypeOK
  OBVIOUS
<1>1. held \in {0, 1} /\ \A f \in Reads : buffers[f] \in {0, 1}
  BY DEF TransferIInv, Balance
<1>2. \A f \in Descriptors : buffers[f] \in 0..MaxKept
  BY MaxKeptAssumption DEF TransferIInv, TypesKept
<1>3. call.name \in CallNames \cup {"none"} /\ call.size \in 0..MaxSize
  BY DEF TransferIInv, TypesKept
<1> QED BY <1>1, <1>2, <1>3 DEF TransferIInv, TypesKept, TransferTypeOK

\* The state keeps its types.
THEOREM TransferTypes == TransferSpec => []TransferTypeOK
<1> QED BY TransferInvariant, TransferTyped, PTL

\* A read or control request delivers what the device sent, at the front of
\* the array, and throws for an array that is too short without touching it.
THEOREM ReadAlwaysDelivers == TransferSpec => []ReadDelivers
<1>1. TransferIInv => ReadDelivers
  <2> SUFFICES ASSUME TransferIInv, Returned(Delivering) PROVE ReadDelivers
    BY DEF ReadDelivers, Delivering
  <2> USE DEF TransferIInv
  <2>1. phase = "java" /\ call.name \in Delivering
    BY DEF Returned
  <2>2. threw = (bytes # Null /\ call.size > ArrayLen)
    <3>1. threw <=> bytes # Null /\ call.size > ArrayLen
      <4>1. CASE call.name \in Reads
        BY <2>1, <4>1 DEF Protocol
      <4>2. CASE call.name \notin Reads
        <5>1. call.name \in Borrowing
          BY <2>1, <4>2, Kinds
        <5>2. ~threw /\ call.size <= ArrayLen
          BY <4>2, <5>1 DEF Protocol
        <5> QED BY <5>2, ArrayLenAssumption DEF TypesKept
      <4> QED BY <4>1, <4>2
    <3>2. threw \in BOOLEAN
      BY DEF TypesKept
    <3> QED BY <3>1, <3>2
  <2>3. ~threw => \A i \in 1..count : \/ array[i] = Byte("device", i)
                                      \/ i \in changed /\ array[i].from = "other"
    BY <2>1 DEF Delivered, Arrived
  <2>4. ASSUME threw, NEW i \in 1..ArrayLen PROVE array[i].from \in {"caller", "other"}
    <3>1. array[i] = Byte(IF i \in changed THEN "other" ELSE "caller", i)
      BY <2>4 DEF Protocol, Waiting, Untouched
    <3> QED BY <3>1 DEF Byte
  <2> QED BY <2>2, <2>3, <2>4 DEF ReadDelivers
<1> QED BY <1>1, TransferInvariant, PTL

\* The number a transfer returns is that of the bytes the device was sent, and
\* it tells a timeout from any other failure.
THEOREM ResultAlwaysTold == TransferSpec => []ResultTold
<1>1. ERROR_TIMEDOUT = -110
  BY DEF ERROR_TIMEDOUT, usb_error_no, errno
<1>2. TransferIInv => ResultTold
  <2> SUFFICES ASSUME TransferIInv, Returned(Writes \cup Reads \cup Controls)
               PROVE  /\ call.name \in Sending /\ count >= 0 =>
                           /\ Len(sent) = count
                           /\ \A i \in 1..count : \/ sent[i] = Byte("caller", i)
                                                  \/ pinned /\ i \in changed
                      /\ count = ERROR_TIMEDOUT <=> cause = "timeout"
    BY DEF ResultTold
  <2>1. call.name \notin Texts \cup Descriptors
    BY Kinds DEF Returned, Borrowing
  <2>2. (count = -110) <=> (cause = "timeout")
    BY <2>1 DEF TransferIInv, TypesKept, Told
  <2> QED BY <1>1, <2>2 DEF TransferIInv, Told
<1> QED BY <1>2, TransferInvariant, PTL

\* What other threads write to the array during a call is lost only where the
\* call puts its own bytes, or puts back a copy.
THEOREM ChangesAlwaysKept == TransferSpec => []ChangesKept
<1>1. TransferIInv => ChangesKept
  BY DEF TransferIInv, Kept, ChangeKept, ChangesKept, Borrowing, Delivering
<1> QED BY <1>1, TransferInvariant, PTL

\* No path through a read or a write keeps an array or a buffer.
THEOREM BuffersAlwaysBalance == TransferSpec => []BuffersBalance
<1>1. TransferIInv => BuffersBalance
  BY DEF TransferIInv, Balance, BuffersBalance
<1> QED BY <1>1, TransferInvariant, PTL

-----------------------------------------------------------------------------
(* The wrapper and its transfers together, as a run takes them.            *)

LEMMA UsbSteps ==
  ASSUME [UsbNext]_<<part, vars, transferVars>>
  PROVE  [Next]_vars /\ [TransferNext]_transferVars
BY DEF UsbNext

\* Both keep their types, whichever of the two moves.
THEOREM UsbTypes == UsbSpec => []UsbTypeOK
<1> DEFINE Both == CopyIInv /\ TransferIInv
<1>1. UsbInit => Both
  BY InitCopyIInv, InitTransfer DEF UsbInit
<1>2. Both /\ [UsbNext]_<<part, vars, transferVars>> => Both'
  BY UsbSteps, NextCopyIInv, NextTransfer
<1>3. CopyIInv => TypeOK
  BY DEF CopyIInv, Types
<1>4. TransferIInv => TransferTypeOK
  BY TransferTyped
<1>5. Both => UsbTypeOK
  BY <1>3, <1>4 DEF UsbTypeOK
<1> QED BY <1>1, <1>2, <1>5, PTL DEF UsbSpec
=============================================================================
