------------------------------- MODULE UsbApi -------------------------------
(***************************************************************************)
(* The types that values have on their way between Java and libusb 0.1:    *)
(* what the casts of LibusbJava.c make of a value, and whether the         *)
(* functions of LibusbJava.h can carry what those of usb.h take and give.  *)
(***************************************************************************)
EXTENDS Integers, Sequences

CONSTANTS HalfPointers,   \* half the number of addresses of the build
          Null            \* NULL, in C and in Java

ASSUME HalfPointersAssumption == HalfPointers \in Nat \ {0}
ASSUME NullAssumption == Null \notin Int /\ Null \notin Seq(Int)

-----------------------------------------------------------------------------
(* Values.                                                                 *)

\* The same bits read as a signed and as an unsigned number.
ToSigned(v, half) == IF v < half THEN v ELSE v - 2 * half
ToUnsigned(v, half) == IF v < 0 THEN v + 2 * half ELSE v

uint8 == 0..255
uint16 == 0..65535
pointer == 0..(2 * HalfPointers - 1)

jbyte == -128..127

\* A byte or a short stored in a Java field keeps the low bits.
ToJbyte(v) == ToSigned(v % 256, 128)
ToJshort(v) == ToSigned(v % 65536, 32768)

\* A jlong has room for an address of any build; where it is the wider one
\* the compiler extends the address's sign.  The way back cuts that off.
ToJlong(p) == ToSigned(p, HalfPointers)
ToPointer(j) == ToUnsigned(j, HalfPointers)

-----------------------------------------------------------------------------
(* Signatures.                                                             *)

Sig(gives, takes) == [gives |-> gives, takes |-> takes]

\* Bits of a type, of the largest of the builds; none for what is no number.
Bits(t) ==
  CASE t \in {"jbyte", "unsigned char"} -> 8
    [] t \in {"jint", "int", "unsigned"} -> 32
    [] t \in {"jlong", "pointer", "size_t"} -> 64
    [] OTHER -> 0

\* What is left of an address in a type: of one too small, the low bits.
Narrow(t, v) == IF Bits(t) < Bits("pointer") THEN v % HalfPointers ELSE v

\* LibusbJava.h, as generated from LibusbJava.java.
NativeSearch ==
  [usb_set_debug    |-> Sig("void", <<"jint">>),
   usb_init         |-> Sig("void", <<>>),
   usb_find_busses  |-> Sig("jint", <<>>),
   usb_find_devices |-> Sig("jint", <<>>),
   usb_get_busses   |-> Sig("jobject", <<>>)]

NativeHandle ==
  [usb_open  |-> Sig("jlong", <<"jobject">>),
   usb_close |-> Sig("jint", <<"jlong">>),
   usb_set_configuration |-> Sig("jint", <<"jlong", "jint">>),
   usb_set_altinterface  |-> Sig("jint", <<"jlong", "jint">>),
   usb_clear_halt        |-> Sig("jint", <<"jlong", "jint">>),
   usb_reset             |-> Sig("jint", <<"jlong">>),
   usb_claim_interface   |-> Sig("jint", <<"jlong", "jint">>),
   usb_release_interface |-> Sig("jint", <<"jlong", "jint">>)]

NativeDescriptor ==
  [usb_control_msg |-> Sig("jint", <<"jlong", "jint", "jint", "jint", "jint",
                                     "jbyteArray", "jint", "jint">>),
   usb_get_string        |-> Sig("jstring", <<"jlong", "jint", "jint">>),
   usb_get_string_simple |-> Sig("jstring", <<"jlong", "jint">>),
   usb_get_descriptor    |-> Sig("jstring", <<"jlong", "jbyte", "jbyte",
                                              "jint">>),
   usb_get_descriptor_by_endpoint |->
     Sig("jstring", <<"jlong", "jint", "jbyte", "jbyte", "jint">>)]

NativeTransfer ==
  LET transfer == Sig("jint", <<"jlong", "jint", "jbyteArray", "jint", "jint">>)
  IN [usb_bulk_write |-> transfer,      usb_bulk_read |-> transfer,
      usb_interrupt_write |-> transfer, usb_interrupt_read |-> transfer]

NativeError == [usb_strerror |-> Sig("jstring", <<>>),
                usb_error_no |-> Sig("jint", <<"jint">>)]

\* usb.h, file by file of libusb.
LibusbOpen ==
  [usb_open       |-> Sig("pointer", <<"pointer">>),
   usb_close      |-> Sig("int", <<"pointer">>),
   usb_get_string |-> Sig("int", <<"pointer", "int", "int", "buffer",
                                   "size_t">>),
   usb_get_string_simple |-> Sig("int", <<"pointer", "int", "buffer",
                                          "size_t">>),
   usb_get_descriptor_by_endpoint |->
     Sig("int", <<"pointer", "int", "unsigned char", "unsigned char",
                  "buffer", "int">>),
   usb_get_descriptor |-> Sig("int", <<"pointer", "unsigned char",
                                       "unsigned char", "buffer", "int">>)]

LibusbArch ==
  LET transfer == Sig("int", <<"pointer", "int", "buffer", "int", "int">>) IN
  [usb_bulk_write |-> transfer,      usb_bulk_read |-> transfer,
   usb_interrupt_write |-> transfer, usb_interrupt_read |-> transfer,
   usb_control_msg |-> Sig("int", <<"pointer", "int", "int", "int", "int",
                                    "buffer", "int", "int">>),
   usb_set_configuration |-> Sig("int", <<"pointer", "int">>),
   usb_claim_interface   |-> Sig("int", <<"pointer", "int">>),
   usb_release_interface |-> Sig("int", <<"pointer", "int">>),
   usb_set_altinterface  |-> Sig("int", <<"pointer", "int">>),
   usb_clear_halt        |-> Sig("int", <<"pointer", "unsigned">>),
   usb_reset             |-> Sig("int", <<"pointer">>)]

LibusbCore ==
  [usb_strerror     |-> Sig("chars", <<>>),
   usb_init         |-> Sig("void", <<>>),
   usb_set_debug    |-> Sig("void", <<"int">>),
   usb_find_busses  |-> Sig("int", <<>>),
   usb_find_devices |-> Sig("int", <<>>),
   usb_get_busses   |-> Sig("pointer", <<>>)]

\* What the wrapper passes on: numbers as they are, a device object by the
\* address it holds, and a buffer beside them.
Passed(takes) ==
  LET numbers == SelectSeq(takes, LAMBDA t : t # "jbyteArray")
  IN [i \in 1..Len(numbers) |->
        IF numbers[i] = "jobject" THEN "jlong" ELSE numbers[i]]

\* The size of a string's buffer is the wrapper's own.
Taken(takes) == SelectSeq(takes, LAMBDA t : t \notin {"buffer", "size_t"})

\* Java's arguments reach libusb with all their bits, and so does libusb's
\* result reach Java where the wrapper returns it.
Agree(native, libusb) ==
  LET passed == Passed(native.takes)
      taken == Taken(libusb.takes)
  IN /\ Len(passed) = Len(taken)
     /\ \A i \in 1..Len(taken) : Bits(passed[i]) = Bits(taken[i])
     /\ Bits(native.gives) > 0 => Bits(native.gives) = Bits(libusb.gives)

AgreeAll(native, libusb) ==
  \A f \in DOMAIN native \cap DOMAIN libusb : Agree(native[f], libusb[f])

\* No handle, address, status or argument loses bits between Java and libusb,
\* whichever function it goes through.
ApiAgrees ==
  \A native \in {NativeSearch, NativeHandle, NativeDescriptor, NativeTransfer,
                 NativeError},
     libusb \in {LibusbOpen, LibusbArch, LibusbCore} :
       AgreeAll(native, libusb)

-----------------------------------------------------------------------------
(* Error numbers.                                                          *)

\* errno of Linux.
errno == [EBADF |-> 9, ENXIO |-> 6, EBUSY |-> 16, EINVAL |-> 22,
          ETIMEDOUT |-> 110, EIO |-> 5, ENOMEM |-> 12]

\* Mutant: the numbers of a timeout and of an I/O error are mixed up.
usb_error_no_swapped(n) ==
  CASE n = 5 -> errno.EIO
    [] n = 6 -> errno.ETIMEDOUT
    [] OTHER -> 100000

usb_error_no(n) ==
  CASE n = 0 -> 0
    [] n = 1 -> errno.EBADF
    [] n = 2 -> errno.ENXIO
    [] n = 3 -> errno.EBUSY
    [] n = 4 -> errno.EINVAL
    [] n = 5 -> errno.ETIMEDOUT
    [] n = 6 -> errno.EIO
    [] n = 7 -> errno.ENOMEM
    [] OTHER -> 100000
=============================================================================
