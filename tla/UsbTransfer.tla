---------------------------- MODULE UsbTransfer ----------------------------
(***************************************************************************)
(* The calls of LibusbJava.c that move bytes.  One thread of the Java      *)
(* program is in a call, with an array; its other threads may write to     *)
(* that array meanwhile.  Of a byte it matters who wrote it: the caller,   *)
(* another thread, the device, or nobody (what malloc gave).               *)
(*                                                                         *)
(* GetByteArrayElements gives a copy or the array itself, pinned, as the   *)
(* virtual machine likes.  The caller writes no more than the array has.   *)
(***************************************************************************)
EXTENDS UsbApi, FiniteSets

CONSTANTS ArrayLen,   \* bytes of the array
          MaxSize,    \* bound: bytes asked for
          MaxKept     \* bound: calls of usb_get_descriptor that keep a buffer

ASSUME ArrayLenAssumption == ArrayLen \in Nat
ASSUME MaxSizeAssumption == MaxSize \in Nat /\ ArrayLen <= MaxSize
ASSUME MaxKeptAssumption == MaxKept \in Nat
\* NULL is no buffer.
ASSUME NullBufferAssumption ==
  Null \notin Seq([from : {"caller", "other", "device", "nobody"}, at : Nat])

VARIABLES
  phase,     \* "java", "in" libusb, "out" of it, "set": the array is set
  call,      \* the function called, and the size
  array,     \* the Java array
  pinned,    \* bytes is the array itself
  bytes,     \* else: bytes, NULL or a buffer
  count,     \* num_bytes or retVal; what Java is given of it, at the end
  cause,     \* why libusb failed: "none", "timeout", "other"
  sent,      \* what the device was sent in this call
  threw,     \* an exception is pending
  changed,   \* where other threads wrote to the array during the call
  held,      \* GetByteArrayElements without its release
  buffers    \* buffers[f]: buffers that f allocated and nobody freed

transferVars == <<phase, call, array, pinned, bytes, count, cause, sent,
                  threw, changed, held, buffers>>

Writes == {"usb_bulk_write", "usb_interrupt_write"}
Reads == {"usb_bulk_read", "usb_interrupt_read"}
Controls == {"usb_control_msg out", "usb_control_msg in"}
Texts == {"usb_get_string", "usb_get_string_simple"}
Descriptors == {"usb_get_descriptor", "usb_get_descriptor_by_endpoint"}
Sending == Writes \cup {"usb_control_msg out"}
CallNames == Writes \cup Reads \cup Controls \cup Texts \cup Descriptors

Byte(from, i) == [from |-> from, at |-> i]
Block(from, n) == [i \in 1..n |-> Byte(from, i)]
Mine == Block("caller", ArrayLen)

\* The first n members of a, then what s has further on.
Overlay(s, a, n) == [i \in 1..Len(s) |-> IF i <= n THEN a[i] ELSE s[i]]

ERROR_TIMEDOUT == -usb_error_no(5)

-----------------------------------------------------------------------------
(* The virtual machine and libusb.                                         *)

\* GetByteArrayElements.
GetElements ==
  /\ pinned' \in BOOLEAN
  /\ bytes' = IF pinned' THEN <<>> ELSE Mine
  /\ held' = held + 1

\* ReleaseByteArrayElements with mode 0: a copy is copied back, whole.
ReleaseElements ==
  /\ array' = IF pinned THEN array ELSE bytes
  /\ held' = held - 1

\* What libusb and SetByteArrayRegion find at bytes.
Content == IF pinned THEN array ELSE bytes

\* SetByteArrayRegion(0, size), which throws when the array is too short.
SetRegion(size) ==
  IF size <= ArrayLen
  THEN array' = Overlay(array, Content, size) /\ UNCHANGED threw
  ELSE threw' = TRUE /\ UNCHANGED array

\* Another thread writes to the array.
Modify(i) ==
  /\ phase # "java"
  /\ array' = [array EXCEPT ![i] = Byte("other", i)]
  /\ changed' = changed \cup {i}
  /\ UNCHANGED <<phase, call, pinned, bytes, count, cause, sent, threw, held,
                 buffers>>

\* libusb's result: n bytes, or an error, before which n may have gone too.
Result(n) ==
  \/ count' = n /\ cause' = "none"
  \/ count' = -errno.ETIMEDOUT /\ cause' = "timeout"
  \/ \E e \in {errno.EIO, errno.ENOMEM} : count' = -e /\ cause' = "other"

Send ==
  /\ phase = "in" /\ call.name \in Sending
  /\ phase' = "out"
  /\ \E n \in 0..call.size : Result(n) /\ sent' = SubSeq(Content, 1, n)
  /\ UNCHANGED <<call, array, pinned, bytes, threw, changed, held, buffers>>

Receive ==
  /\ phase = "in" /\ call.name \notin Sending /\ bytes # Null
  /\ phase' = "out"
  /\ \E n \in 0..call.size :
       /\ Result(n)
       /\ LET s == Overlay(Content, Block("device", call.size), n)
          IN IF pinned THEN array' = s /\ UNCHANGED bytes
             ELSE bytes' = s /\ UNCHANGED array
  /\ UNCHANGED <<call, pinned, sent, threw, changed, held, buffers>>

\* Nowhere to put a byte.
ReceiveNowhere ==
  /\ phase = "in" /\ bytes = Null
  /\ phase' = "out"
  /\ Result(0) /\ cause' # "none"
  /\ UNCHANGED <<call, array, pinned, bytes, sent, threw, changed, held,
                 buffers>>

Libusb == Send \/ Receive \/ ReceiveNowhere

-----------------------------------------------------------------------------
(* The functions: how each begins, and how it ends.                        *)

\* A call, with an array the caller has filled.
Begin(name, size) ==
  /\ phase = "java" /\ phase' = "in"
  /\ call' = [name |-> name, size |-> size]
  /\ array' = Mine /\ changed' = {} /\ sent' = <<>>
  /\ count' = 0 /\ cause' = "none" /\ threw' = FALSE

\* malloc(size): a buffer of nobody's bytes, or NULL.
Malloc(name, size) ==
  /\ pinned' = FALSE /\ UNCHANGED held
  /\ \/ /\ bytes' = Block("nobody", size)
        /\ buffers' = [buffers EXCEPT ![name] = @ + 1]
     \/ size > 0 /\ bytes' = Null /\ UNCHANGED buffers

Write(name, size) ==
  Begin(name, size) /\ size <= ArrayLen /\ GetElements /\ UNCHANGED buffers

EndWrite(name) ==
  /\ phase = "out" /\ call.name = name /\ phase' = "java"
  /\ ReleaseElements
  /\ UNCHANGED <<call, pinned, bytes, count, cause, sent, threw, changed,
                 buffers>>

usb_bulk_write(size) == Write("usb_bulk_write", size)
usb_bulk_write_ends == EndWrite("usb_bulk_write")
usb_interrupt_write(size) == Write("usb_interrupt_write", size)
usb_interrupt_write_ends == EndWrite("usb_interrupt_write")

ReadCall(name, size) == Begin(name, size) /\ Malloc(name, size)

\* Without a buffer there is nothing to copy.
ReadFails(name) ==
  /\ phase = "out" /\ call.name = name /\ bytes = Null /\ phase' = "java"
  /\ UNCHANGED <<call, array, pinned, bytes, count, cause, sent, threw,
                 changed, held, buffers>>

\* Mutant: one byte less is set.
SetArrayShort(name) ==
  /\ phase = "out" /\ call.name = name /\ bytes # Null /\ phase' = "set"
  /\ SetRegion(call.size - 1)
  /\ UNCHANGED <<call, pinned, bytes, count, cause, sent, changed, held,
                 buffers>>

\* Mutant: all of the array is set.
SetArrayAll(name) ==
  /\ phase = "out" /\ call.name = name /\ bytes # Null /\ phase' = "set"
  /\ array' = Overlay([i \in 1..ArrayLen |-> Byte("nobody", i)], bytes,
                      IF call.size <= ArrayLen THEN call.size ELSE ArrayLen)
  /\ UNCHANGED <<call, pinned, bytes, count, cause, sent, threw, changed, held,
                 buffers>>

SetArray(name) ==
  /\ phase = "out" /\ call.name = name /\ bytes # Null /\ phase' = "set"
  /\ SetRegion(call.size)
  /\ UNCHANGED <<call, pinned, bytes, count, cause, sent, changed, held,
                 buffers>>

\* Mutant: an error returns before the buffer is freed.
FreeUnlessError(name) ==
  /\ phase = "set" /\ call.name = name /\ phase' = "java"
  /\ buffers' = [buffers EXCEPT ![name] = IF count < 0 THEN @ ELSE @ - 1]
  /\ bytes' = <<>>
  /\ UNCHANGED <<call, array, pinned, count, cause, sent, threw, changed,
                 held>>

FreeBuffer(name) ==
  /\ phase = "set" /\ call.name = name /\ phase' = "java"
  /\ buffers' = [buffers EXCEPT ![name] = @ - 1] /\ bytes' = <<>>
  /\ UNCHANGED <<call, array, pinned, count, cause, sent, threw, changed,
                 held>>

EndRead(name) == ReadFails(name) \/ SetArray(name) \/ FreeBuffer(name)

usb_bulk_read(size) == ReadCall("usb_bulk_read", size)
usb_bulk_read_ends == EndRead("usb_bulk_read")
usb_interrupt_read(size) == ReadCall("usb_interrupt_read", size)
usb_interrupt_read_ends == EndRead("usb_interrupt_read")

\* requesttype tells the direction.
usb_control_msg(size) ==
  /\ \E name \in Controls : Begin(name, size)
  /\ size <= ArrayLen /\ GetElements /\ UNCHANGED buffers

\* Both ways the array is set, and then released.
usb_control_msg_sets ==
  /\ phase = "out" /\ call.name \in Controls /\ phase' = "set"
  /\ SetRegion(call.size)
  /\ UNCHANGED <<call, pinned, bytes, count, cause, sent, changed, held,
                 buffers>>
usb_control_msg_ends ==
  /\ phase = "set" /\ call.name \in Controls /\ phase' = "java"
  /\ ReleaseElements
  /\ UNCHANGED <<call, pinned, bytes, count, cause, sent, threw, changed,
                 buffers>>

\* Text in an array of the function itself.
Text(name, size) ==
  /\ Begin(name, size)
  /\ pinned' = FALSE /\ bytes' = Block("nobody", size)
  /\ UNCHANGED <<held, buffers>>

\* A text (1) or null (0): Java is not given retVal, whatever the error was.
\* What is in the buffer is forgotten, not freed.
EndText(name) ==
  /\ phase = "out" /\ call.name = name /\ phase' = "java"
  /\ bytes' = <<>> /\ count' = IF count > 0 THEN 1 ELSE 0
  /\ UNCHANGED <<call, array, pinned, cause, sent, threw, changed, held,
                 buffers>>

usb_get_string == Text("usb_get_string", MaxSize)
usb_get_string_ends == EndText("usb_get_string")
usb_get_string_simple == Text("usb_get_string_simple", MaxSize)
usb_get_string_simple_ends == EndText("usb_get_string_simple")

\* Text in a buffer from malloc.
usb_get_descriptor(size) ==
  /\ buffers["usb_get_descriptor"] < MaxKept
  /\ Begin("usb_get_descriptor", size) /\ Malloc("usb_get_descriptor", size)
usb_get_descriptor_ends == EndText("usb_get_descriptor")
usb_get_descriptor_by_endpoint(size) ==
  /\ buffers["usb_get_descriptor_by_endpoint"] < MaxKept
  /\ Begin("usb_get_descriptor_by_endpoint", size)
  /\ Malloc("usb_get_descriptor_by_endpoint", size)
usb_get_descriptor_by_endpoint_ends ==
  EndText("usb_get_descriptor_by_endpoint")

-----------------------------------------------------------------------------
TransferInit ==
  /\ phase = "java" /\ call = [name |-> "none", size |-> 0]
  /\ array = Mine /\ pinned = FALSE /\ bytes = <<>>
  /\ count = 0 /\ cause = "none" /\ sent = <<>> /\ threw = FALSE
  /\ changed = {} /\ held = 0
  /\ buffers = [f \in Reads \cup Descriptors |-> 0]

Calls ==
  \/ \E size \in 0..MaxSize :
       \/ usb_bulk_write(size) \/ usb_bulk_read(size)
       \/ usb_interrupt_write(size) \/ usb_interrupt_read(size)
       \/ usb_control_msg(size)
       \/ usb_get_descriptor(size) \/ usb_get_descriptor_by_endpoint(size)
  \/ usb_get_string \/ usb_get_string_simple

Returns ==
  \/ usb_bulk_write_ends \/ usb_bulk_read_ends
  \/ usb_interrupt_write_ends \/ usb_interrupt_read_ends
  \/ usb_control_msg_sets \/ usb_control_msg_ends
  \/ usb_get_string_ends \/ usb_get_string_simple_ends
  \/ usb_get_descriptor_ends \/ usb_get_descriptor_by_endpoint_ends

TransferNext == Calls \/ Libusb \/ Returns \/ \E i \in 1..ArrayLen : Modify(i)

TransferSpec == TransferInit /\ [][TransferNext]_transferVars

-----------------------------------------------------------------------------
(* Properties.                                                             *)

\* Types of the transfer's state.
TransferTypeOK ==
  /\ phase \in {"java", "in", "out", "set"}
  /\ call.name \in CallNames \cup {"none"} /\ call.size \in 0..MaxSize
  /\ Len(array) = ArrayLen /\ Len(sent) <= call.size
  /\ pinned \in BOOLEAN /\ threw \in BOOLEAN
  /\ bytes # Null => Len(bytes) <= MaxSize
  /\ changed \subseteq 1..ArrayLen
  /\ held \in {0, 1}
  /\ \A f \in Reads : buffers[f] \in {0, 1}
  /\ \A f \in Descriptors : buffers[f] \in 0..MaxKept

\* A call has returned; nothing else happens until the next one.
Returned(names) == phase = "java" /\ call.name \in names

\* A read or a control request that returns n has put the device's n bytes at
\* the front of the array, except where another thread wrote after that.  Only
\* a read into too short an array throws, and then none of the bytes is there.
ReadDelivers ==
  Returned(Reads \cup {"usb_control_msg in"}) =>
    /\ threw = (bytes # Null /\ call.size > ArrayLen)
    /\ count >= 0 /\ ~threw =>
         \A i \in 1..count : \/ array[i] = Byte("device", i)
                             \/ i \in changed /\ array[i].from = "other"
    /\ threw => \A i \in 1..ArrayLen : array[i].from \in {"caller", "other"}

\* The number a transfer returns tells what happened: of a write, how many
\* bytes the device was sent, and they are the caller's (or, of a pinned array,
\* what another thread wrote meanwhile); of a failure, by the constant
\* ERROR_TIMEDOUT of LibusbJava.java, whether it was a timeout.  The calls for
\* strings and descriptors return no number.
ResultTold ==
  Returned(Writes \cup Reads \cup Controls) =>
    /\ call.name \in Sending /\ count >= 0 =>
         /\ Len(sent) = count
         /\ \A i \in 1..count : \/ sent[i] = Byte("caller", i)
                                \/ pinned /\ i \in changed
    /\ (count = ERROR_TIMEDOUT) = (cause = "timeout")

\* Nothing but the bytes asked for changes in the array: what another thread
\* wrote during the call stays, but where a read or a control request sets the
\* bytes, and but for all of an array that was copied for a write or a control
\* request, which the release puts back as it was.
ChangesKept ==
  Returned(CallNames) =>
    \A i \in 1..ArrayLen :
      /\ i \in changed /\ array[i].from # "other" =>
           \/ call.name \in Reads /\ i <= call.size /\ ~threw
           \/ call.name = "usb_control_msg in" /\ i <= call.size
           \/ call.name \in Writes \cup Controls /\ ~pinned
      /\ i \notin changed /\ array[i].from # "caller" =>
           /\ call.name \in Reads \cup {"usb_control_msg in"}
           /\ i <= call.size /\ ~threw

\* Between calls no array is held and every buffer is freed, on every path
\* through the functions, but for those of usb_get_descriptor and
\* usb_get_descriptor_by_endpoint, one for each call that got one.
BuffersBalance ==
  phase = "java" => held = 0 /\ \A f \in Reads : buffers[f] = 0
=============================================================================
