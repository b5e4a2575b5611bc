-------------------------- MODULE UsbWrapperProofs --------------------------
(***************************************************************************)
(* What holds of the wrapper for any devices, structures, buses, handles   *)
(* and addresses.  Nothing is lost on the way from libusb's structures to  *)
(* Java's objects: an address comes back from a jlong, a number from a     *)
(* byte or a short, and so a device from the object made of it.  On that   *)
(* rest the invariants: TypeOK, HandlesReach, ConfiguredOnce,              *)
(* ErrorIsFresh, TreeFollowsList and OpensListed.                          *)
(***************************************************************************)
EXTENDS UsbWrapper, FiniteSetTheorems, SequenceTheorems, TLAPS

-----------------------------------------------------------------------------
(* Numbers and addresses.                                                  *)

\* A cast to the signed type of the same width is undone by the cast back.
LEMMA SignedRecovered ==
  ASSUME NEW half \in Nat \ {0}, NEW v \in 0..(2 * half - 1)
  PROVE  /\ ToSigned(v, half) \in -half..(half - 1)
         /\ ToUnsigned(ToSigned(v, half), half) = v
BY SMT DEF ToSigned, ToUnsigned

\* An address that Java keeps in a long is the one the wrapper gets back, in
\* a build of any address size.
THEOREM PointerRecovered ==
  ASSUME NEW p \in pointer
  PROVE  ToJlong(p) \in Int /\ ToPointer(ToJlong(p)) = p
BY HalfPointersAssumption, SignedRecovered DEF pointer, ToJlong, ToPointer

\* Modulo n, a number below n is itself, and so is it less n.
LEMMA Small ==
  ASSUME NEW n \in Nat \ {0}, NEW v \in Nat, v < n
  PROVE  v % n = v /\ (v - n) % n = v
BY SMT

\* A byte and a short lose nothing but how they are written.
LEMMA ByteRecovered ==
  ASSUME NEW v \in uint8
  PROVE  ToJbyte(v) \in jbyte /\ ReadByte(ToJbyte(v)) = v
<1>1. v \in Nat /\ v < 256
  BY DEF uint8
<1>2. v % 256 = v /\ (v - 256) % 256 = v
  BY <1>1, Small
<1>3. CASE v < 128
  BY <1>1, <1>2, <1>3 DEF ToJbyte, ToSigned, jbyte, ReadByte
<1>4. CASE ~(v < 128)
  BY <1>1, <1>2, <1>4 DEF ToJbyte, ToSigned, jbyte, ReadByte
<1> QED BY <1>3, <1>4

LEMMA ShortRecovered ==
  ASSUME NEW v \in uint16
  PROVE  ReadShort(ToJshort(v)) = v
<1>1. v \in Nat /\ v < 65536
  BY DEF uint16
<1>2. v % 65536 = v /\ (v - 65536) % 65536 = v
  BY <1>1, Small
<1>3. ToJshort(v) \in {v, v - 65536}
  BY <1>1, <1>2 DEF ToJshort, ToSigned
<1> QED BY <1>2, <1>3 DEF ReadShort

\* What a field of each type makes of a value is read back from it.
LEMMA HeldByte ==
  ASSUME NEW v \in uint8
  PROVE  Read("B", Held("B", v)) = v
BY ByteRecovered DEF Read, Held

LEMMA HeldShort ==
  ASSUME NEW v \in uint16
  PROVE  Read("S", Held("S", v)) = v
BY ShortRecovered DEF Read, Held

LEMMA HeldBytes ==
  ASSUME NEW v \in Bytes
  PROVE  Read("[B", Held("[B", v)) = v
<1>1. CASE v = Null
  BY <1>1 DEF Read, Held
<1>2. CASE v # Null
  <2>1. v \in Seq(uint8)
    BY <1>2 DEF Bytes
  <2> DEFINE h == [i \in 1..Len(v) |-> ToJbyte(v[i])]
  <2>2. Held("[B", v) = h
    BY <1>2 DEF Held
  <2>3. DOMAIN h = 1..Len(v) /\ Len(v) \in Nat
    BY <2>1
  <2>4. h \in Seq(jbyte) /\ Len(h) = Len(v)
    <3>1. \A i \in 1..Len(v) : v[i] \in uint8
      BY <2>1
    <3>2. \A i \in 1..Len(v) : ToJbyte(v[i]) \in jbyte
      BY <3>1, ByteRecovered
    <3> QED BY <2>3, <3>2
  <2>5. h # Null
    <3>1. \A b \in jbyte : b \in Int
      BY DEF jbyte
    <3>2. \A i \in 1..Len(v) : h[i] \in Int
      BY <2>1, <3>1, ByteRecovered
    <3>3. h \in Seq(Int)
      BY <2>3, <3>2
    <3> QED BY <3>3, NullAssumption
  <2>6. Read("[B", h) = [i \in 1..Len(v) |-> ReadByte(ToJbyte(v[i]))]
    BY <2>4, <2>5 DEF Read
  <2>7. \A i \in 1..Len(v) : ReadByte(ToJbyte(v[i])) = v[i]
    BY <2>1, ByteRecovered
  <2>8. Read("[B", h) = [i \in 1..Len(v) |-> v[i]]
    BY <2>6, <2>7
  <2>9. v = [i \in 1..Len(v) |-> v[i]]
    BY <2>1
  <2> QED BY <2>2, <2>8, <2>9
<1> QED BY <1>1, <1>2

-----------------------------------------------------------------------------
(* Structures.                                                             *)

\* The type of Java field f is one for what the source has there.
Fits(fields, source, f) ==
  \/ fields[f] = "B" /\ source[f] \in uint8
  \/ fields[f] = "S" /\ source[f] \in uint16
  \/ fields[f] = "[B" /\ source[f] \in Bytes
  \/ fields[f] \in {"I", "String"}

\* A source whose members have the types that the Java fields are for is read
\* back, field by field.
LEMMA ObjectDenotes ==
  ASSUME NEW fields, NEW source,
         \A f \in DOMAIN fields : Fits(fields, source, f)
  PROVE  Denotes(fields, Object(fields, source), source)
<1> SUFFICES ASSUME NEW f \in DOMAIN fields
             PROVE  Read(fields[f], Held(fields[f], source[f])) = source[f]
  BY DEF Denotes, Object
<1>1. CASE fields[f] = "B" /\ source[f] \in uint8
  BY <1>1, HeldByte
<1>2. CASE fields[f] = "S" /\ source[f] \in uint16
  BY <1>2, HeldShort
<1>3. CASE fields[f] = "[B" /\ source[f] \in Bytes
  BY <1>3, HeldBytes
<1>4. CASE fields[f] \in {"I", "String"}
  BY <1>4 DEF Read, Held
<1> QED BY <1>1, <1>2, <1>3, <1>4 DEF Fits

\* The endpoint, with its extra bytes.
LEMMA EndpointDenoted ==
  ASSUME NEW e \in usb_endpoint_descriptor
  PROVE  EndpointDenotes(EndpointObject(e), e)
<1>1. \A g \in DOMAIN EndpointFields : Fits(EndpointFields, e, g)
  <2>1. \A g \in {"bLength", "bDescriptorType", "bEndpointAddress",
                  "bmAttributes", "bInterval", "bRefresh", "bSynchAddress"} :
          EndpointFields[g] = "B" /\ e[g] \in uint8
    BY DEF usb_endpoint_descriptor, EndpointFields
  <2>2. \A g \in {"wMaxPacketSize"} :
          EndpointFields[g] = "S" /\ e[g] \in uint16
    BY DEF usb_endpoint_descriptor, EndpointFields
  <2>3. \A g \in {"extra"} :
          EndpointFields[g] = "[B" /\ e[g] \in Bytes
    BY DEF usb_endpoint_descriptor, EndpointFields
  <2>4. \A g \in {"extralen"} :
          EndpointFields[g] = "I"
    BY DEF EndpointFields
  <2>5. DOMAIN EndpointFields =
          {"bLength", "bDescriptorType", "bEndpointAddress", "bmAttributes",
           "wMaxPacketSize", "bInterval", "bRefresh", "bSynchAddress",
           "extra", "extralen"}
    BY DEF EndpointFields
  <2> QED BY <2>1, <2>2, <2>3, <2>4, <2>5 DEF Fits
<1> QED BY <1>1, ObjectDenotes DEF EndpointDenotes, EndpointObject

\* Objects made of an array's members are as many as it has and in their
\* order.
LEMMA SettingDenoted ==
  ASSUME NEW d \in usb_interface_descriptor
  PROVE  SettingDenotes(SettingObject(d), d)
<1>1. Denotes(SettingFields, Object(SettingFields, d), d)
  <2>1. \A g \in DOMAIN SettingFields : Fits(SettingFields, d, g)
    <3>1. \A g \in {"bLength", "bDescriptorType", "bInterfaceNumber",
                    "bAlternateSetting", "bNumEndpoints", "bInterfaceClass",
                    "bInterfaceSubClass", "bInterfaceProtocol", "iInterface"} :
            SettingFields[g] = "B" /\ d[g] \in uint8
      BY DEF usb_interface_descriptor, SettingFields
    <3>2. \A g \in {"extra"} :
            SettingFields[g] = "[B" /\ d[g] \in Bytes
      BY DEF usb_interface_descriptor, SettingFields
    <3>3. \A g \in {"extralen"} :
            SettingFields[g] = "I"
      BY DEF SettingFields
    <3>4. DOMAIN SettingFields =
            {"bLength", "bDescriptorType", "bInterfaceNumber",
             "bAlternateSetting", "bNumEndpoints", "bInterfaceClass",
             "bInterfaceSubClass", "bInterfaceProtocol", "iInterface",
             "extra", "extralen"}
      BY DEF SettingFields
    <3> QED BY <3>1, <3>2, <3>3, <3>4 DEF Fits
  <2> QED BY <2>1, ObjectDenotes
<1>2. d.endpoint = Null \/ d.endpoint \in Seq(usb_endpoint_descriptor)
  BY DEF usb_interface_descriptor, ArrayOf
<1>3. ArrayDenotes(ArrayObject(d.endpoint, EndpointObject), d.endpoint,
                   EndpointDenotes)
  BY <1>2, EndpointDenoted DEF ArrayDenotes, ArrayObject
<1> QED BY <1>1, <1>3 DEF SettingDenotes, SettingObject

LEMMA InterfaceDenoted ==
  ASSUME NEW f \in usb_interface
  PROVE  InterfaceDenotes(InterfaceObject(f), f)
<1>1. Denotes(InterfaceFields, Object(InterfaceFields, f), f)
  <2>1. \A g \in DOMAIN InterfaceFields : Fits(InterfaceFields, f, g)
    <3>1. \A g \in {"num_altsetting"} :
            InterfaceFields[g] = "I"
      BY DEF InterfaceFields
    <3>2. DOMAIN InterfaceFields = {"num_altsetting"}
      BY DEF InterfaceFields
    <3> QED BY <3>1, <3>2 DEF Fits
  <2> QED BY <2>1, ObjectDenotes
<1>2. f.altsetting = Null \/ f.altsetting \in Seq(usb_interface_descriptor)
  BY DEF usb_interface, ArrayOf
<1>3. ArrayDenotes(ArrayObject(f.altsetting, SettingObject), f.altsetting,
                   SettingDenotes)
  BY <1>2, SettingDenoted DEF ArrayDenotes, ArrayObject
<1> QED BY <1>1, <1>3 DEF InterfaceDenotes, InterfaceObject

LEMMA ConfigDenoted ==
  ASSUME NEW c \in usb_config_descriptor
  PROVE  ConfigDenotes(ConfigObject(c), c)
<1>1. Denotes(ConfigFields, Object(ConfigFields, c), c)
  <2>1. \A g \in DOMAIN ConfigFields : Fits(ConfigFields, c, g)
    <3>1. \A g \in {"bLength", "bDescriptorType", "bNumInterfaces",
                    "bConfigurationValue", "iConfiguration", "bmAttributes",
                    "MaxPower"} :
            ConfigFields[g] = "B" /\ c[g] \in uint8
      BY DEF usb_config_descriptor, ConfigFields
    <3>2. \A g \in {"wTotalLength"} :
            ConfigFields[g] = "S" /\ c[g] \in uint16
      BY DEF usb_config_descriptor, ConfigFields
    <3>3. \A g \in {"extra"} :
            ConfigFields[g] = "[B" /\ c[g] \in Bytes
      BY DEF usb_config_descriptor, ConfigFields
    <3>4. \A g \in {"extralen"} :
            ConfigFields[g] = "I"
      BY DEF ConfigFields
    <3>5. DOMAIN ConfigFields =
            {"bLength", "bDescriptorType", "wTotalLength", "bNumInterfaces",
             "bConfigurationValue", "iConfiguration", "bmAttributes",
             "MaxPower", "extra", "extralen"}
      BY DEF ConfigFields
    <3> QED BY <3>1, <3>2, <3>3, <3>4, <3>5 DEF Fits
  <2> QED BY <2>1, ObjectDenotes
<1>2. c.interface = Null \/ c.interface \in Seq(usb_interface)
  BY DEF usb_config_descriptor, ArrayOf
<1>3. ArrayDenotes(ArrayObject(c.interface, InterfaceObject), c.interface,
                   InterfaceDenotes)
  BY <1>2, InterfaceDenoted DEF ArrayDenotes, ArrayObject
<1> QED BY <1>1, <1>3 DEF ConfigDenotes, ConfigObject

\* The Usb_Device that usb_get_busses makes tells all that libusb knows of the
\* device, down to the extra bytes of its endpoints, and remembers where its
\* structure is: of every device libusb can describe.
THEOREM DeviceDenoted ==
  ASSUME NEW dev \in usb_device, NEW a \in pointer
  PROVE  /\ DeviceDenotes(DeviceObject(dev, a), dev)
         /\ ToPointer(DeviceObject(dev, a).devStructAddr) = a
<1>1. Denotes(DeviceFields, Object(DeviceFields, dev), dev)
  <2>1. \A g \in DOMAIN DeviceFields : Fits(DeviceFields, dev, g)
    <3>1. \A g \in {"filename"} :
            DeviceFields[g] = "String"
      BY DEF DeviceFields
    <3>2. \A g \in {"devnum", "num_children"} :
            DeviceFields[g] = "B" /\ dev[g] \in uint8
      BY DEF usb_device, DeviceFields
    <3>3. DOMAIN DeviceFields =
            {"filename", "devnum", "num_children"}
      BY DEF DeviceFields
    <3> QED BY <3>1, <3>2, <3>3 DEF Fits
  <2> QED BY <2>1, ObjectDenotes
<1>2. Denotes(DescriptorFields, Object(DescriptorFields, dev.descriptor),
              dev.descriptor)
  <2>1. dev.descriptor \in usb_device_descriptor
    BY DEF usb_device
  <2>2. \A g \in DOMAIN DescriptorFields :
          Fits(DescriptorFields, dev.descriptor, g)
    <3>1. \A g \in {"bLength", "bDescriptorType", "bDeviceClass",
                    "bDeviceSubClass", "bDeviceProtocol", "bMaxPacketSize0",
                    "iManufacturer", "iProduct", "iSerialNumber",
                    "bNumConfigurations"} :
            DescriptorFields[g] = "B" /\ dev.descriptor[g] \in uint8
      BY <2>1 DEF usb_device_descriptor, DescriptorFields
    <3>2. \A g \in {"bcdUSB", "idVendor", "idProduct", "bcdDevice"} :
            DescriptorFields[g] = "S" /\ dev.descriptor[g] \in uint16
      BY <2>1 DEF usb_device_descriptor, DescriptorFields
    <3>3. DOMAIN DescriptorFields =
            {"bLength", "bDescriptorType", "bcdUSB", "bDeviceClass",
             "bDeviceSubClass", "bDeviceProtocol", "bMaxPacketSize0",
             "idVendor", "idProduct", "bcdDevice", "iManufacturer",
             "iProduct", "iSerialNumber", "bNumConfigurations"}
      BY DEF DescriptorFields
    <3> QED BY <3>1, <3>2, <3>3 DEF Fits
  <2> QED BY <2>2, ObjectDenotes
<1>3. dev.config = Null \/ dev.config \in Seq(usb_config_descriptor)
  BY DEF usb_device, ArrayOf
<1>4. ArrayDenotes(ArrayObject(dev.config, ConfigObject), dev.config,
                   ConfigDenotes)
  BY <1>3, ConfigDenoted DEF ArrayDenotes, ArrayObject
<1>5. DeviceDenotes(DeviceObject(dev, a), dev)
  BY <1>1, <1>2, <1>4 DEF DeviceDenotes, DeviceObject
<1>6. ToPointer(DeviceObject(dev, a).devStructAddr) = a
  BY PointerRecovered DEF DeviceObject
<1> QED BY <1>5, <1>6

-----------------------------------------------------------------------------
(* Handles, references and configurations.                                 *)

\* Java's long of an open handle is the cast of libusb's pointer.
HandlesCast == \A h \in handles : h.ptr \in pointer /\ h.j = ToJlong(h.ptr)

\* configDone is there before a device is sent anything.
ConfigGuarded ==
  /\ configs \in [Devices -> {0, 1}]
  /\ ~configDone => \A d \in Devices : configs[d] = 0

IInv == HandlesCast /\ ConfigGuarded

-----------------------------------------------------------------------------
LEMMA InitIInv == Init => IInv
BY DEF Init, IInv, HandlesCast, ConfigGuarded

\* Calls and steps that concern neither handles nor configurations.
LEMMA Elsewhere ==
  ASSUME IInv, UNCHANGED <<handles, configs, configDone>>
  PROVE  IInv'
BY DEF IInv, HandlesCast, ConfigGuarded

\* The value of a new handle has all the bits of the pointer: usb_open gives
\* a long.
LEMMA OpenedCast ==
  ASSUME HandlesCast, NEW c, NEW a, NEW dev, Opened(c, a, dev)
  PROVE  HandlesCast'
<1>1. PICK p \in HandleAddrs : handles' = handles \cup
        {[ptr |-> p, j |-> Narrow(NativeHandle.usb_open.gives, ToJlong(p)),
          addr |-> a, dev |-> dev, want |-> c.dev]}
  BY DEF Opened
<1>2. NativeHandle.usb_open.gives = "jlong"
  BY DEF NativeHandle, Sig
<1>3. Narrow("jlong", ToJlong(p)) = ToJlong(p)
  BY DEF Narrow, Bits
<1>4. p \in pointer
  BY HandleAddrsAssumption
<1> QED BY <1>1, <1>2, <1>3, <1>4 DEF HandlesCast

LEMMA NextIInv == IInv /\ [Next]_vars => IInv'
<1> SUFFICES ASSUME IInv, [Next]_vars PROVE IInv'
  OBVIOUS
<1>1. CASE Environment
  <2>1. UNCHANGED <<handles, configs, configDone>>
    BY <1>1 DEF Environment, Plug, Unplug
  <2> QED BY <2>1, Elsewhere
<1>2. CASE usb_set_debug \/ usb_init \/ FindBusses \/ FindDevices \/ NoBusses
             \/ LoadFails \/ OpenEarly \/ DeviceCall \/ StrError
  <2>1. UNCHANGED <<handles, configs, configDone>>
    BY <1>2 DEF usb_set_debug, usb_init, FindBusses, FindDevices, NoBusses,
       LoadFails, OpenEarly, DeviceCall, usb_set_altinterface, usb_clear_halt,
       usb_reset, usb_claim_interface, usb_release_interface, Transfer,
       PassOn, StrError
  <2> QED BY <2>1, Elsewhere
<1>3. CASE GetBusses
  <2>1. UNCHANGED <<handles, configs, configDone>>
    BY <1>3 DEF GetBusses, libVars
  <2> QED BY <2>1, Elsewhere
<1>4. CASE TreeStep
  <2>1. UNCHANGED <<handles, configs, configDone>>
    BY <1>4 DEF TreeStep, VisitBus, VisitDev, VisitBroken, AllocFails,
       LinkDevices, InTree, libVars
  <2> QED BY <2>1, Elsewhere
<1>5. ASSUME NEW c \in copies, Open(c) PROVE IInv'
  <2>1. UNCHANGED <<configs, configDone>> /\ pc' = "java"
    BY <1>5 DEF Open, Return
  <2>2. handles' = handles \/ \E a, dev : Opened(c, a, dev)
    BY <1>5 DEF Open
  <2>3. HandlesCast'
    BY <2>2, OpenedCast DEF IInv, HandlesCast
  <2> QED BY <2>1, <2>3 DEF IInv, ConfigGuarded
<1>6. ASSUME NEW h \in handles, HandleStep(h) PROVE IInv'
  <2>1. handles' \subseteq handles /\ pc' = "java"
    BY <1>6 DEF HandleStep, CloseHandle, SetConfiguration,
       SetConfigurationAgain, Return
  <2>2. ConfigGuarded'
    <3>1. CASE CloseHandle(h) \/ SetConfigurationAgain(h)
      BY <3>1 DEF CloseHandle, SetConfigurationAgain, IInv, ConfigGuarded
    <3>2. CASE SetConfiguration(h)
      <4>1. ~configDone /\ configDone'
        BY <3>2 DEF SetConfiguration
      <4>2. configs' = configs
              \/ configs' = [configs EXCEPT ![h.dev] = configs[h.dev] + 1]
        BY <3>2 DEF SetConfiguration
      <4>3. configs' \in [Devices -> {0, 1}]
        BY <4>1, <4>2 DEF IInv, ConfigGuarded
      <4> QED BY <4>1, <4>3 DEF ConfigGuarded
    <3> QED BY <1>6, <3>1, <3>2 DEF HandleStep
  <2> QED BY <2>1, <2>2 DEF IInv, HandlesCast
<1>7. CASE UNCHANGED vars
  BY <1>7 DEF vars, libVars, IInv, HandlesCast, ConfigGuarded
<1> QED BY <1>1, <1>2, <1>3, <1>4, <1>5, <1>6, <1>7 DEF Next

LEMMA Invariance == Spec => []IInv
BY InitIInv, NextIInv, PTL DEF Spec

-----------------------------------------------------------------------------
\* Whichever function takes it, its first argument is a long.
LEMMA HandlesLong ==
  ASSUME NEW native \in {NativeHandle, NativeDescriptor, NativeTransfer},
         NEW f \in DOMAIN native \ {"usb_open"}
  PROVE  native[f].takes[1] = "jlong"
<1>1. CASE native = NativeHandle
  BY <1>1 DEF NativeHandle, Sig
<1>2. CASE native = NativeDescriptor
  BY <1>2 DEF NativeDescriptor, Sig
<1>3. CASE native = NativeTransfer
  BY <1>3 DEF NativeTransfer, Sig
<1> QED BY <1>1, <1>2, <1>3

\* Every open handle is one that all functions of the wrapper can use: the
\* long Java has leads back to libusb's pointer, in a build of any address
\* size.
THEOREM HandlesAlwaysReach == Spec => []HandlesReach
<1>1. IInv => HandlesReach
  <2> SUFFICES ASSUME IInv, NEW h \in handles,
                      NEW native \in {NativeHandle, NativeDescriptor,
                                      NativeTransfer},
                      NEW f \in DOMAIN native \ {"usb_open"}
               PROVE  ToPointer(Narrow(native[f].takes[1], h.j)) = h.ptr
    BY DEF HandlesReach
  <2>1. h.ptr \in pointer /\ h.j = ToJlong(h.ptr)
    BY DEF IInv, HandlesCast
  <2>2. Narrow("jlong", h.j) = h.j
    BY DEF Narrow, Bits
  <2> QED BY <2>1, <2>2, HandlesLong, PointerRecovered
<1> QED BY <1>1, Invariance, PTL

\* No device is sent a second configuration message, whatever the handles,
\* the failures and the other devices.
THEOREM ConfiguredAtMostOnce == Spec => []ConfiguredOnce
<1>1. IInv => ConfiguredOnce
  BY DEF IInv, ConfigGuarded, ConfiguredOnce
<1> QED BY <1>1, Invariance, PTL

-----------------------------------------------------------------------------
(* The tree and the copies.  usb_get_busses walks along libusb's lists, and *)
(* while it does they do not change: what is linked so far is a copy of    *)
(* what is behind it on the way.  The program keeps copies after that,     *)
(* while structures are freed and their addresses used again.              *)

\* What is made of the structure at a, and of the first n of bus b.
CopyOf(a) == [dev |-> struct[a].dev, object |-> DeviceObject(Desc(a), a)]
CopiesOf(b, n) == [i \in 1..n |-> CopyOf(list[b][i])]

DeviceCopy ==
  [dev : Devices,
   object : {DeviceObject(Shapes[s], a) : s \in 1..Len(Shapes), a \in Addrs}]
BusObject ==
  [dirname : 0..NBuses, location : Nat, devices : Seq(DeviceCopy),
   root_dev : Seq(DeviceCopy)]

Types == TypeOK /\ tree \in Seq(BusObject) /\ chain \in Seq(DeviceCopy)

\* What is listed is a structure, no device has two, and none was never there.
Structures ==
  /\ \A b \in 1..Len(list) : \A i \in 1..Len(list[b]) : struct[list[b][i]] # Free
  /\ \A a, e \in Addrs :
       struct[a] # Free /\ struct[e] # Free /\ struct[a].dev = struct[e].dev => a = e
  /\ \A a \in Addrs : struct[a] # Free => plugged[struct[a].dev] # "never"

NoStructure(d) == \A a \in Addrs : struct[a] # Free => struct[a].dev # d

\* The address of a copy is still that of its device's structure, or the
\* device is gone for good.
Remembered(addr, d) ==
  \E a \in Addrs :
    /\ addr = ToJlong(a)
    /\ \/ struct[a] # Free /\ struct[a].dev = d
       \/ plugged[d] = "out" /\ NoStructure(d)

Memory == \A c \in copies : Remembered(c.addr, c.dev)

\* Where the walk is, and how much of the tree there is.
Walk ==
  pc # "java" =>
    /\ list # <<>> /\ bi \in 1..NBuses
    /\ pc = "bus" => Len(tree) = bi
    /\ pc = "dev" => /\ Len(tree) = IF bi < NBuses THEN bi + 1 ELSE bi
                     /\ di \in 1..(Len(list[bi]) + 1)

\* A bus without devices yet.
BareBus(b) == [dirname |-> b, location |-> Locations[b], devices |-> <<>>, root_dev |-> <<>>]

AllWhole(b, n) == \A i \in 1..n : Whole(Desc(list[b][i]))

Linked(b) ==
  /\ AllWhole(b, Len(list[b]))
  /\ tree[b] = [dirname |-> b, location |-> Locations[b],
                devices |-> CopiesOf(b, Len(list[b])),
                root_dev |-> CopiesOf(b, Len(list[b]))]

\* The buses behind are linked; this one has no devices yet.
CopiedSoFar ==
  pc # "java" =>
    /\ \A b \in 1..(bi - 1) : Linked(b)
    /\ pc = "bus" => tree[bi] = Blank
    /\ pc = "dev" =>
         /\ tree[bi] = BareBus(bi)
         /\ bi < NBuses => tree[bi + 1] = Blank
         /\ AllWhole(bi, di - 1) /\ chain = CopiesOf(bi, di - 1)

\* TreeFollowsList, with the objects themselves.
Broken(b) == \E i \in 1..Len(list[b]) : ~Whole(Desc(list[b][i]))
Complete(n) == \A b \in 1..n : ~Broken(b)

TreeAt(b) ==
  /\ Complete(b - 1) =>
       /\ b <= Len(tree)
       /\ IF Broken(b) THEN tree[b] = BareBus(b) ELSE Linked(b)
  /\ ~Complete(b - 1) => b > Len(tree) \/ (tree[b] = Blank /\ Broken(b - 1))

TreeCopied ==
  pc = "java" /\ last = [call |-> "busses", value |-> "tree"] =>
    list # <<>> /\ \A b \in 1..NBuses : TreeAt(b)

CopyIInv == /\ Types /\ Structures /\ Memory /\ Walk /\ CopiedSoFar
            /\ TreeCopied /\ ErrorIsFresh

-----------------------------------------------------------------------------
\* Buses and copies of devices, as the walk makes them.
LEMMA BlankFacts ==
  /\ <<>> \in Seq(DeviceCopy) /\ Len(<<>>) = 0
  /\ Blank \in BusObject /\ 0 \in 0..NBuses
  /\ \A s \in Seq(BusObject) : s = <<>> <=> Len(s) = 0
<1>1. <<>> \in Seq(DeviceCopy) /\ Len(<<>>) = 0
  BY EmptySeq
<1>2. 0 \in 0..NBuses
  BY NBusesAssumption
<1>3. Blank \in BusObject
  BY <1>1, <1>2 DEF Blank, BusObject
<1>4. \A s \in Seq(BusObject) : s = <<>> <=> Len(s) = 0
  BY EmptySeq
<1> QED BY <1>1, <1>2, <1>3, <1>4

LEMMA CopiesOfFacts ==
  ASSUME NEW n \in Nat, NEW b,
         \A i \in 1..n : CopyOf(list[b][i]) \in DeviceCopy
  PROVE  /\ CopiesOf(b, n) \in Seq(DeviceCopy) /\ Len(CopiesOf(b, n)) = n
         /\ \A i \in 1..n : CopiesOf(b, n)[i] = CopyOf(list[b][i])
<1>1. CopiesOf(b, n) \in [1..n -> DeviceCopy]
  BY DEF CopiesOf
<1>2. CopiesOf(b, n) \in Seq(DeviceCopy)
  BY <1>1, SeqDef
<1>3. DOMAIN CopiesOf(b, n) = 1..n /\ DOMAIN CopiesOf(b, n) = 1..Len(CopiesOf(b, n))
      /\ Len(CopiesOf(b, n)) \in Nat
  BY <1>1, <1>2, LenProperties
<1>4. Len(CopiesOf(b, n)) = n
  BY <1>3
<1> QED BY <1>2, <1>4 DEF CopiesOf

\* A structure and the copy made of it.
LEMMA StructFacts ==
  ASSUME TypeOK, NEW a \in Addrs, struct[a] # Free
  PROVE  /\ struct[a] \in Struct /\ struct[a].dev \in Devices
         /\ struct[a].shape \in 1..Len(Shapes)
         /\ Desc(a) \in usb_device /\ CopyOf(a) \in DeviceCopy
         /\ CopyOf(a).dev = struct[a].dev
         /\ CopyOf(a).object.devStructAddr = ToJlong(a)
         /\ DeviceDenotes(CopyOf(a).object, Desc(a))
         /\ ToPointer(ToJlong(a)) = a
<1>1. struct[a] \in Struct
  BY DEF TypeOK
<1>2. struct[a].dev \in Devices /\ struct[a].shape \in 1..Len(Shapes)
  BY <1>1 DEF Struct
<1>3. Desc(a) \in usb_device /\ a \in pointer
  BY <1>2, ShapesAssumption, PointersAssumption DEF Desc
<1>4. CopyOf(a) \in DeviceCopy
  BY <1>2 DEF CopyOf, DeviceCopy, Desc
<1>5. CopyOf(a).object = DeviceObject(Desc(a), a) /\ CopyOf(a).dev = struct[a].dev
  BY DEF CopyOf
<1>6. DeviceObject(Desc(a), a).devStructAddr = ToJlong(a)
  BY DEF DeviceObject
<1> QED BY <1>1, <1>2, <1>3, <1>4, <1>5, <1>6, DeviceDenoted, PointerRecovered

\* The addresses that are listed.
LEMMA ListFacts ==
  ASSUME TypeOK, list # <<>>
  PROVE  /\ Len(list) = NBuses
         /\ \A b \in 1..NBuses :
              /\ list[b] \in Seq(Addrs) /\ Len(list[b]) \in Nat
              /\ \A i \in 1..Len(list[b]) : list[b][i] \in Addrs
<1>1. list \in Seq(Seq(Addrs)) /\ Len(list) \in {0, NBuses}
  BY DEF TypeOK
<1>2. Len(list) = NBuses
  BY <1>1, EmptySeq
<1>3. \A b \in 1..NBuses : list[b] \in Seq(Addrs)
  BY <1>1, <1>2, ElementOfSeq
<1>4. ASSUME NEW b \in 1..NBuses
      PROVE  /\ Len(list[b]) \in Nat
             /\ \A i \in 1..Len(list[b]) : list[b][i] \in Addrs
  BY <1>3, LenProperties, ElementOfSeq
<1> QED BY <1>2, <1>3, <1>4

\* What libusb lists are structures, and the copies of them are copies.
LEMMA ListedFacts ==
  ASSUME TypeOK, Structures, list # <<>>,
         NEW b \in 1..NBuses, NEW i \in 1..Len(list[b])
  PROVE  /\ list[b][i] \in Addrs /\ struct[list[b][i]] # Free
         /\ CopyOf(list[b][i]) \in DeviceCopy
<1>1. list[b][i] \in Addrs /\ struct[list[b][i]] # Free
  BY ListFacts DEF Structures
<1> QED BY <1>1, StructFacts

\* A permutation of some addresses is a sequence of them.
LEMMA OrderFacts ==
  ASSUME NEW s \in SetToAllKPermutations(Addrs)
  PROVE  /\ s \in Seq(Addrs)
         /\ \A i \in 1..Len(s) : s[i] \in ToSet(s)
<1>1. IsFiniteSet(pointer)
  BY FS_Interval, HalfPointersAssumption DEF pointer
<1>2. PICK A \in SUBSET Addrs : s \in SetToSeqs(A)
  BY DEF SetToAllKPermutations
<1>3. A \in SUBSET pointer
  BY PointersAssumption
<1>4. IsFiniteSet(A)
  BY <1>1, <1>3, FS_Subset
<1>5. Cardinality(A) \in Nat
  BY <1>4, FS_CardinalityType
<1>6. s \in [1..Cardinality(A) -> A]
  BY <1>2 DEF SetToSeqs
<1>7. s \in [1..Cardinality(A) -> Addrs]
  BY <1>6
<1>8. s \in Seq(Addrs)
  BY <1>5, <1>7, SeqDef
<1>9. DOMAIN s = 1..Len(s)
  BY <1>8, LenProperties
<1> QED BY <1>8, <1>9 DEF ToSet

-----------------------------------------------------------------------------
LEMMA InitCopyIInv == Init => CopyIInv
<1> SUFFICES ASSUME Init PROVE CopyIInv
  OBVIOUS
<1>1. TypeOK
  <2>1. list = <<>> /\ <<>> \in Seq(Seq(Addrs)) /\ Len(list) = 0
    BY EmptySeq DEF Init
  <2>2. tree = <<>> /\ Len(tree) <= NBuses
    BY EmptySeq, NBusesAssumption DEF Init
  <2>3. /\ bi \in 0..NBuses /\ di \in Nat /\ handles \subseteq Handle
        /\ copies \subseteq Copy
    BY NBusesAssumption DEF Init
  <2>4. DOMAIN last = {"call", "value"} /\ last.call = "none"
    BY DEF Init
  <2> QED BY <2>1, <2>2, <2>3, <2>4 DEF Init, TypeOK
<1>2. Types
  BY <1>1, EmptySeq DEF Init, Types
<1>3. Structures
  BY EmptySeq DEF Init, Structures
<1>4. Memory /\ Walk /\ CopiedSoFar /\ TreeCopied /\ ErrorIsFresh
  BY DEF Init, Memory, Walk, CopiedSoFar, TreeCopied, ErrorIsFresh
<1> QED BY <1>1, <1>2, <1>3, <1>4 DEF CopyIInv

\* Of a call that returns without a tree, and frees and lists nothing.
LEMMA ReturnCopyIInv ==
  ASSUME CopyIInv, NEW call, NEW value, NEW error,
         Return(call, value, error), UNCHANGED <<list, struct>>,
         TypeOK', ErrorIsFresh', call # "busses" \/ value # "tree"
  PROVE  CopyIInv'
<1> USE DEF CopyIInv
<1>1. /\ pc = "java" /\ pc' = "java" /\ tree' = <<>>
      /\ last' = [call |-> call, value |-> value]
      /\ UNCHANGED <<plugged, port, chain, copies, list, struct>>
  BY DEF Return, treeVars
<1>2. Types'
  BY <1>1, EmptySeq DEF Types
<1>3. Structures'
  BY <1>1 DEF Structures
<1>4. Memory'
  BY <1>1 DEF Memory, Remembered, NoStructure
<1>5. Walk' /\ CopiedSoFar'
  BY <1>1 DEF Walk, CopiedSoFar
<1>6. TreeCopied'
  BY <1>1 DEF TreeCopied
<1> QED BY <1>2, <1>3, <1>4, <1>5, <1>6

\* The types of what such a call may change.
LEMMA ReturnTypes ==
  ASSUME TypeOK, NEW call \in {"busses", "open", "config", "strerror", "other"},
         NEW value, NEW error \in {"none", "busses", "nodevice", "config", "alloc"},
         Return(call, value, error), UNCHANGED <<list, struct>>,
         configs' \in [Devices -> Nat], handles' \subseteq Handle,
         busses' \in BOOLEAN, configDone' \in BOOLEAN
  PROVE  TypeOK'
<1>1. /\ pc = "java" /\ pc' = "java" /\ tree' = <<>> /\ err' = error
      /\ last' = [call |-> call, value |-> value]
      /\ UNCHANGED <<plugged, port, bi, di, copies, list, struct>>
  BY DEF Return, treeVars
<1>2. Len(tree') <= NBuses
  BY <1>1, EmptySeq, NBusesAssumption
<1>3. DOMAIN last' = {"call", "value"} /\ last'.call = call
  BY <1>1
<1> QED BY <1>1, <1>2, <1>3 DEF TypeOK

\* A call that does nothing the tree or the handles depend on.
LEMMA PlainReturn ==
  ASSUME CopyIInv, NEW call \in {"busses", "strerror", "other"}, NEW value,
         NEW error \in {"none", "busses", "nodevice", "config", "alloc"},
         error = "none", Return(call, value, error), value # "tree",
         UNCHANGED <<list, struct, configs, handles, configDone>>,
         busses' \in BOOLEAN
  PROVE  CopyIInv'
<1>1. TypeOK
  BY DEF CopyIInv, Types
<1>2. TypeOK'
  <2>1. configs' \in [Devices -> Nat] /\ handles' \subseteq Handle
        /\ configDone' \in BOOLEAN
    BY <1>1 DEF TypeOK
  <2> QED BY <1>1, <2>1, ReturnTypes
<1>3. ErrorIsFresh'
  BY DEF Return, ErrorIsFresh
<1> QED BY <1>2, <1>3, ReturnCopyIInv

LEMMA EnvironmentCopyIInv == CopyIInv /\ Environment => CopyIInv'
<1> SUFFICES ASSUME CopyIInv, Environment PROVE CopyIInv'
  OBVIOUS
<1> USE DEF CopyIInv
<1>1. UNCHANGED <<port, list, struct, configs, handles, busses, err,
                  configDone, pc, bi, di, chain, tree, copies, last>>
  BY DEF Environment, Plug, Unplug, treeVars
<1>2. PICK d \in Devices :
        \/ plugged[d] = "never" /\ plugged' = [plugged EXCEPT ![d] = "in"]
        \/ plugged[d] = "in" /\ plugged' = [plugged EXCEPT ![d] = "out"]
  BY DEF Environment, Plug, Unplug
<1>3. plugged \in [Devices -> {"never", "in", "out"}]
  BY DEF Types, TypeOK
<1>4. /\ plugged' \in [Devices -> {"never", "in", "out"}]
      /\ \A e \in Devices : plugged[e] # "never" => plugged'[e] # "never"
      /\ \A e \in Devices : plugged[e] = "out" => plugged'[e] = "out"
  BY <1>2, <1>3
<1>5. Types'
  BY <1>1, <1>4 DEF Types, TypeOK
<1>6. Structures'
  <2>1. \A a \in Addrs : struct[a] # Free => struct[a].dev \in Devices
    BY StructFacts DEF Types
  <2> QED BY <1>1, <1>4, <2>1 DEF Structures
<1>7. Memory'
  <2>1. \A c \in copies : c.dev \in Devices
    BY DEF Types, TypeOK, Copy
  <2> QED BY <1>1, <1>4, <2>1 DEF Memory, Remembered, NoStructure
<1>8. Walk'
  BY <1>1 DEF Walk
<1>9. CopiedSoFar'
  BY <1>1 DEF CopiedSoFar, Linked, AllWhole, CopiesOf, CopyOf, Desc
<1>10. TreeCopied'
  <2>1. \A b : Broken(b)' <=> Broken(b)
    BY <1>1 DEF Broken, Desc
  <2>2. \A b : Linked(b)' <=> Linked(b)
    BY <1>1 DEF Linked, AllWhole, CopiesOf, CopyOf, Desc
  <2>3. \A b : TreeAt(b)' <=> TreeAt(b)
    BY <1>1, <2>1, <2>2 DEF TreeAt, Complete
  <2> QED BY <1>1, <2>3 DEF TreeCopied
<1>11. ErrorIsFresh'
  BY <1>1 DEF ErrorIsFresh
<1> QED BY <1>5, <1>6, <1>7, <1>8, <1>9, <1>10, <1>11

LEMMA PlainCopyIInv ==
  CopyIInv /\ (usb_set_debug \/ usb_init \/ NoBusses \/ LoadFails \/ DeviceCall
               \/ StrError)
  => CopyIInv'
<1> SUFFICES ASSUME CopyIInv,
                    usb_set_debug \/ usb_init \/ NoBusses \/ LoadFails
                      \/ DeviceCall \/ StrError
             PROVE  CopyIInv'
  OBVIOUS
<1>1. /\ UNCHANGED <<list, struct, configs, handles, configDone>>
      /\ busses' \in {busses, FALSE}
  BY DEF usb_set_debug, usb_init, DeviceCall, usb_set_altinterface,
     usb_clear_halt, usb_reset, usb_claim_interface, usb_release_interface,
     Transfer, PassOn, NoBusses, LoadFails, StrError
<1>2. busses' \in BOOLEAN
  BY <1>1 DEF CopyIInv, Types, TypeOK
<1>3. CASE NoBusses
  <2>1. Return("busses", "null", "none")
    BY <1>3 DEF NoBusses
  <2> QED BY <1>1, <1>2, <2>1, PlainReturn
<1>4. CASE LoadFails
  <2>1. Return("busses", "thrown", "none")
    BY <1>4 DEF LoadFails
  <2> QED BY <1>1, <1>2, <2>1, PlainReturn
<1>5. CASE StrError
  <2>1. PICK text \in {"libusb", err} : Return("strerror", text, "none")
    BY <1>5 DEF StrError
  <2>2. text # "tree"
    BY DEF CopyIInv, Types, TypeOK
  <2> QED BY <1>1, <1>2, <2>1, <2>2, PlainReturn
<1>6. CASE usb_set_debug \/ usb_init \/ DeviceCall
  <2>1. Return("other", "any", "none")
    BY <1>6 DEF usb_set_debug, usb_init, DeviceCall, usb_set_altinterface,
       usb_clear_halt, usb_reset, usb_claim_interface, usb_release_interface,
       Transfer, PassOn
  <2> QED BY <1>1, <1>2, <2>1, PlainReturn
<1> QED BY <1>3, <1>4, <1>5, <1>6

\* Before usb_find_busses there is no structure in a list, and after it in an
\* empty one.
LEMMA FindBussesCopyIInv == CopyIInv /\ FindBusses => CopyIInv'
<1> SUFFICES ASSUME CopyIInv, FindBusses PROVE CopyIInv'
  OBVIOUS
<1> USE DEF CopyIInv
<1>1. /\ pc = "java" /\ pc' = "java" /\ tree' = <<>> /\ err' = "none"
      /\ last' = [call |-> "other", value |-> "any"]
      /\ UNCHANGED <<plugged, port, bi, di, chain, copies, struct, configs,
                     handles, busses, configDone>>
  BY DEF FindBusses, Return, treeVars
<1>2. CASE list # <<>>
  <2>1. UNCHANGED <<list, struct, configs, handles, busses, configDone>>
        /\ Return("other", "any", "none")
    BY <1>2 DEF FindBusses
  <2>2. busses' \in BOOLEAN
    BY <2>1 DEF Types, TypeOK
  <2> QED BY <2>1, <2>2, PlainReturn
<1>3. CASE list = <<>>
  <2>1. list' = [b \in 1..NBuses |-> <<>>]
    BY <1>3 DEF FindBusses
  <2>2. list' \in [1..NBuses -> Seq(Addrs)]
    BY <2>1, EmptySeq
  <2>3. list' \in Seq(Seq(Addrs))
    BY <2>2, NBusesAssumption, SeqDef
  <2>4. Len(list') = NBuses
    BY <2>2, <2>3, NBusesAssumption, LenProperties
  <2>5. Len(tree') <= NBuses /\ tree' \in Seq(BusObject)
    BY <1>1, EmptySeq, NBusesAssumption
  <2>6. DOMAIN last' = {"call", "value"} /\ last'.call = "other"
    BY <1>1
  <2>7. Types'
    BY <1>1, <2>3, <2>4, <2>5, <2>6 DEF Types, TypeOK
  <2>8. Structures'
    <3>1. \A b \in 1..NBuses : Len(list'[b]) = 0
      BY <2>1, EmptySeq
    <3> QED BY <1>1, <2>4, <3>1 DEF Structures
  <2>9. Memory'
    BY <1>1 DEF Memory, Remembered, NoStructure
  <2>10. Walk' /\ CopiedSoFar' /\ TreeCopied' /\ ErrorIsFresh'
    BY <1>1 DEF Walk, CopiedSoFar, TreeCopied, ErrorIsFresh
  <2> QED BY <2>7, <2>8, <2>9, <2>10
<1> QED BY <1>2, <1>3

\* What usb_find_devices does at an address: the structure of a device that is
\* there and had none, none any more, or the one that was there.
NewAt(a) == /\ struct[a] = Free
            /\ struct'[a] \in Struct /\ plugged[struct'[a].dev] = "in"
            /\ NoStructure(struct'[a].dev)
GoneAt(a) == struct'[a] = Free /\ (struct[a] # Free => plugged[struct[a].dev] = "out")
StaysAt(a) == /\ struct[a] # Free /\ struct'[a] = struct[a]
             /\ plugged[struct[a].dev] # "out"

LEMMA FindDevicesFacts ==
  ASSUME TypeOK, FindDevices
  PROVE  /\ struct' \in [Addrs -> Struct \cup {Free}]
         /\ \A a \in Addrs : NewAt(a) \/ GoneAt(a) \/ StaysAt(a)
         /\ \A a, e \in Addrs :
              NewAt(a) /\ NewAt(e) /\ struct'[a].dev = struct'[e].dev => a = e
<1> DEFINE new == {d \in Devices : plugged[d] = "in" /\ NoStructure(d)}
           vacant == {a \in Addrs : struct[a] = Free}
<1>1. PICK f \in [new -> vacant], shape \in [new -> 1..Len(Shapes)] :
        /\ IsInjective(f)
        /\ struct' = [a \in Addrs |->
             IF \E d \in new : f[d] = a
             THEN LET d == CHOOSE e \in new : f[e] = a
                  IN [dev |-> d, shape |-> shape[d]]
             ELSE IF struct[a] # Free /\ plugged[struct[a].dev] = "out"
             THEN Free ELSE struct[a]]
  BY DEF FindDevices, NoStructure
<1>2. \A d, e \in new : f[d] = f[e] => d = e
  BY <1>1 DEF IsInjective
<1>3. \A d \in new : f[d] \in Addrs /\ struct[f[d]] = Free
  BY <1>1
<1>4. ASSUME NEW d \in new
      PROVE  struct'[f[d]] = [dev |-> d, shape |-> shape[d]]
  <2>1. (CHOOSE e \in new : f[e] = f[d]) = d
    BY <1>2
  <2> QED BY <1>1, <1>3, <2>1
<1>5. \A d \in new : /\ struct'[f[d]] \in Struct /\ struct'[f[d]].dev = d
                     /\ NewAt(f[d])
  <2> SUFFICES ASSUME NEW d \in new
               PROVE  /\ struct'[f[d]] \in Struct /\ struct'[f[d]].dev = d
                      /\ NewAt(f[d])
    OBVIOUS
  <2>1. d \in Devices /\ shape[d] \in 1..Len(Shapes)
    BY <1>1
  <2>2. [dev |-> d, shape |-> shape[d]] \in Struct
    BY <2>1 DEF Struct
  <2>3. struct'[f[d]] \in Struct /\ struct'[f[d]].dev = d
    BY <1>4, <2>2
  <2> QED BY <1>3, <2>3 DEF NewAt
<1>6. ASSUME NEW a \in Addrs, \A d \in new : f[d] # a
      PROVE  /\ struct'[a] \in Struct \cup {Free}
             /\ GoneAt(a) \/ StaysAt(a)
  <2>1. struct'[a] = IF struct[a] # Free /\ plugged[struct[a].dev] = "out"
                     THEN Free ELSE struct[a]
    BY <1>1, <1>6
  <2>2. struct[a] \in Struct \cup {Free}
    BY DEF TypeOK
  <2> QED BY <2>1, <2>2 DEF GoneAt, StaysAt
<1>7. \A a \in Addrs : /\ struct'[a] \in Struct \cup {Free}
                       /\ NewAt(a) \/ GoneAt(a) \/ StaysAt(a)
  BY <1>5, <1>6
<1>8. struct' \in [Addrs -> Struct \cup {Free}]
  <2>1. struct' = [a \in Addrs |-> struct'[a]]
    BY <1>1
  <2> QED BY <1>7, <2>1
<1>9. ASSUME NEW a \in Addrs, NewAt(a)
      PROVE  \E d \in new : f[d] = a /\ struct'[a].dev = d
  <2>1. struct'[a] # Free
    BY <1>9, FreeAssumption DEF NewAt
  <2>2. ~GoneAt(a) /\ ~StaysAt(a)
    BY <1>9, <2>1 DEF NewAt, GoneAt, StaysAt
  <2> QED BY <1>5, <1>6, <2>2
<1> QED BY <1>7, <1>8, <1>9

LEMMA FindDevicesCopyIInv == CopyIInv /\ FindDevices => CopyIInv'
<1> SUFFICES ASSUME CopyIInv, FindDevices PROVE CopyIInv'
  OBVIOUS
<1> USE DEF CopyIInv
<1>1. /\ pc = "java" /\ pc' = "java" /\ tree' = <<>> /\ err' = "none"
      /\ last' = [call |-> "other", value |-> "any"]
      /\ UNCHANGED <<plugged, port, bi, di, chain, copies, configs,
                     handles, busses, configDone>>
  BY DEF FindDevices, Return, treeVars
<1>2. TypeOK
  BY DEF Types
<1>3. /\ list' \in [1..NBuses -> SetToAllKPermutations(Addrs)]
      /\ \A b \in 1..NBuses : \A a \in ToSet(list'[b]) : struct'[a] # Free
  <2>1. \A b \in 1..NBuses : ToSet(list'[b]) =
          {a \in Addrs : struct'[a] # Free /\ port[struct'[a].dev] = b}
    BY DEF FindDevices
  <2>2. list' \in [1..NBuses -> SetToAllKPermutations(Addrs)]
    BY DEF FindDevices
  <2>3. ASSUME NEW b \in 1..NBuses, NEW a \in ToSet(list'[b])
        PROVE  struct'[a] # Free
    <3>1. a \in {e \in Addrs : struct'[e] # Free /\ port[struct'[e].dev] = b}
      BY <2>1
    <3> QED BY <3>1
  <2> QED BY <2>2, <2>3
<1>4. list' \in Seq(Seq(Addrs)) /\ Len(list') = NBuses
  <2>1. list' \in [1..NBuses -> Seq(Addrs)]
    BY <1>3, OrderFacts
  <2>2. list' \in Seq(Seq(Addrs))
    BY <2>1, NBusesAssumption, SeqDef
  <2> QED BY <2>1, <2>2, NBusesAssumption, LenProperties
<1>5. /\ struct' \in [Addrs -> Struct \cup {Free}]
      /\ \A a \in Addrs : NewAt(a) \/ GoneAt(a) \/ StaysAt(a)
      /\ \A a, e \in Addrs :
           NewAt(a) /\ NewAt(e) /\ struct'[a].dev = struct'[e].dev => a = e
  BY <1>2, FindDevicesFacts
<1>6. Types'
  <2>1. Len(tree') <= NBuses /\ tree' \in Seq(BusObject)
    BY <1>1, EmptySeq, NBusesAssumption
  <2>2. DOMAIN last' = {"call", "value"} /\ last'.call = "other"
    BY <1>1
  <2> QED BY <1>1, <1>4, <1>5, <2>1, <2>2 DEF Types, TypeOK
<1>7. Structures'
  <2>1. \A b \in 1..Len(list') : \A i \in 1..Len(list'[b]) :
          struct'[list'[b][i]] # Free
    <3> SUFFICES ASSUME NEW b \in 1..NBuses, NEW i \in 1..Len(list'[b])
                 PROVE  struct'[list'[b][i]] # Free
      BY <1>4
    <3>1. list'[b] \in SetToAllKPermutations(Addrs)
      BY <1>3
    <3>2. list'[b][i] \in ToSet(list'[b])
      BY <3>1, OrderFacts
    <3> QED BY <1>3, <3>2
  <2>2. ASSUME NEW a \in Addrs, NEW e \in Addrs,
               struct'[a] # Free, struct'[e] # Free, struct'[a].dev = struct'[e].dev
        PROVE  a = e
    <3>1. (NewAt(a) \/ StaysAt(a)) /\ (NewAt(e) \/ StaysAt(e))
      BY <1>5, <2>2 DEF GoneAt
    <3>2. CASE NewAt(a) /\ NewAt(e)
      BY <1>5, <2>2, <3>2
    <3>3. CASE NewAt(a) /\ StaysAt(e)
      BY <2>2, <3>3 DEF NewAt, StaysAt, NoStructure
    <3>4. CASE StaysAt(a) /\ NewAt(e)
      BY <2>2, <3>4 DEF NewAt, StaysAt, NoStructure
    <3>5. CASE StaysAt(a) /\ StaysAt(e)
      BY <2>2, <3>5 DEF StaysAt, Structures
    <3> QED BY <3>1, <3>2, <3>3, <3>4, <3>5
  <2>3. \A a \in Addrs : struct'[a] # Free => plugged'[struct'[a].dev] # "never"
    BY <1>1, <1>5 DEF GoneAt, NewAt, StaysAt, Structures
  <2> QED BY <2>1, <2>2, <2>3 DEF Structures
<1>8. Memory'
  <2> SUFFICES ASSUME NEW c \in copies PROVE Remembered(c.addr, c.dev)'
    BY <1>1 DEF Memory
  <2>1. PICK a \in Addrs :
          /\ c.addr = ToJlong(a)
          /\ \/ struct[a] # Free /\ struct[a].dev = c.dev
             \/ plugged[c.dev] = "out" /\ NoStructure(c.dev)
    BY DEF Memory, Remembered
  <2>2. CASE StaysAt(a) /\ struct[a].dev = c.dev
    BY <1>1, <2>1, <2>2 DEF Remembered, StaysAt
  <2>3. CASE struct[a] # Free /\ struct[a].dev = c.dev /\ ~StaysAt(a)
    <3>1. plugged[c.dev] = "out" /\ struct'[a] = Free
      BY <1>5, <2>3 DEF NewAt, GoneAt
    <3>2. ASSUME NEW e \in Addrs, struct'[e] # Free PROVE struct'[e].dev # c.dev
      <4>1. NewAt(e) \/ StaysAt(e)
        BY <1>5, <3>2 DEF GoneAt
      <4>2. CASE NewAt(e)
        BY <3>1, <4>2 DEF NewAt
      <4>3. CASE StaysAt(e)
        BY <3>1, <4>3 DEF StaysAt
      <4> QED BY <4>1, <4>2, <4>3
    <3> QED BY <1>1, <2>1, <3>1, <3>2 DEF Remembered, NoStructure
  <2>4. CASE plugged[c.dev] = "out" /\ NoStructure(c.dev)
    <3>1. ASSUME NEW e \in Addrs, struct'[e] # Free PROVE struct'[e].dev # c.dev
      BY <1>5, <2>4, <3>1 DEF GoneAt, NewAt, StaysAt, NoStructure
    <3> QED BY <1>1, <2>1, <2>4, <3>1 DEF Remembered, NoStructure
  <2> QED BY <2>1, <2>2, <2>3, <2>4
<1>9. Walk' /\ CopiedSoFar' /\ TreeCopied' /\ ErrorIsFresh'
  BY <1>1 DEF Walk, CopiedSoFar, TreeCopied, ErrorIsFresh
<1> QED BY <1>6, <1>7, <1>8, <1>9

-----------------------------------------------------------------------------
(* The walk.                                                               *)

LEMMA WalkFacts ==
  ASSUME CopyIInv, pc # "java"
  PROVE  /\ TypeOK /\ list # <<>> /\ Len(list) = NBuses /\ NBuses \in Nat
         /\ bi \in 1..NBuses /\ Len(list[bi]) \in Nat
         /\ tree \in Seq(BusObject) /\ chain \in Seq(DeviceCopy)
         /\ \A i \in 1..Len(list[bi]) :
              list[bi][i] \in Addrs /\ CopyOf(list[bi][i]) \in DeviceCopy
<1>1. TypeOK /\ Structures /\ list # <<>> /\ bi \in 1..NBuses
      /\ tree \in Seq(BusObject) /\ chain \in Seq(DeviceCopy)
  BY DEF CopyIInv, Types, Walk
<1> QED BY <1>1, ListFacts, ListedFacts, NBusesAssumption

\* What the walk copies from stays as it is.
LEMMA WalkSame ==
  ASSUME InTree
  PROVE  /\ \A b, n : AllWhole(b, n)' <=> AllWhole(b, n)
         /\ \A b, n : CopiesOf(b, n)' = CopiesOf(b, n)
         /\ \A b : Broken(b)' <=> Broken(b)
         /\ \A n : Complete(n)' <=> Complete(n)
         /\ Structures => Structures'
         /\ UNCHANGED <<plugged, port, list, struct, configs, handles, busses, configDone>>
<1>1. UNCHANGED <<plugged, port, list, struct, configs, handles, busses, configDone>>
  BY DEF InTree, libVars
<1>2. \A a : Desc(a)' = Desc(a)
  BY <1>1 DEF Desc
<1>3. \A b, n : CopiesOf(b, n)' = CopiesOf(b, n)
  BY <1>1, <1>2 DEF CopiesOf, CopyOf
<1>4. \A b, n : AllWhole(b, n)' <=> AllWhole(b, n)
  BY <1>1, <1>2 DEF AllWhole
<1>5. \A b : Broken(b)' <=> Broken(b)
  BY <1>1, <1>2 DEF Broken
<1>6. \A n : Complete(n)' <=> Complete(n)
  BY <1>5 DEF Complete
<1>7. Structures => Structures'
  BY <1>1 DEF Structures
<1> QED BY <1>1, <1>3, <1>4, <1>5, <1>6, <1>7

LEMMA LinkedAfter ==
  ASSUME InTree, NEW b, AllWhole(b, Len(list[b])),
         tree'[b] = [dirname |-> b, location |-> Locations[b],
                     devices |-> CopiesOf(b, Len(list[b])),
                     root_dev |-> CopiesOf(b, Len(list[b]))]
  PROVE  Linked(b)'
<1>1. list' = list
  BY WalkSame
<1>2. AllWhole(b, Len(list[b]))'
  BY <1>1, WalkSame DEF AllWhole, InTree, libVars, Desc
<1>3. CopiesOf(b, Len(list[b]))' = CopiesOf(b, Len(list[b]))
  BY <1>1, WalkSame DEF CopiesOf, CopyOf, InTree, libVars, Desc
<1> QED BY <1>2, <1>3 DEF Linked

LEMMA LinkedSame ==
  ASSUME InTree, NEW b, tree'[b] = tree[b], Linked(b)
  PROVE  Linked(b)'
BY LinkedAfter DEF Linked

\* A step of the walk that does not end it.
LEMMA WalkGoesOn ==
  ASSUME CopyIInv, pc # "java", InTree, pc' \in {"bus", "dev"},
         UNCHANGED <<err, copies, last>>,
         bi' \in 1..NBuses, di' \in Nat, Len(tree') <= NBuses,
         tree' \in Seq(BusObject), chain' \in Seq(DeviceCopy),
         Walk', CopiedSoFar'
  PROVE  CopyIInv'
<1> USE DEF CopyIInv
<1>1. UNCHANGED <<plugged, port, list, struct, configs, handles, busses, configDone>>
      /\ Structures'
  BY WalkSame
<1>2. bi' \in 0..NBuses
  BY NBusesAssumption
<1>3. Types'
  BY <1>1, <1>2 DEF Types, TypeOK
<1>4. Memory'
  BY <1>1 DEF Memory, Remembered, NoStructure
<1>5. TreeCopied' /\ ErrorIsFresh'
  BY <1>1 DEF TreeCopied, ErrorIsFresh
<1> QED BY <1>1, <1>3, <1>4, <1>5

\* Its end: what the program keeps of the tree are copies of structures.
LEMMA WalkEnds ==
  ASSUME CopyIInv, pc # "java", InTree, UNCHANGED chain,
         bi' \in 1..NBuses, di' \in Nat,
         NEW value, NEW error \in {"none", "config", "alloc"}, NEW t \in Seq(BusObject),
         TreeReturns(value, error, t), Len(t) <= NBuses,
         \A b \in 1..Len(t) : \A c \in ToSet(t[b].devices) :
           \E a \in Addrs : struct[a] # Free /\ c = CopyOf(a),
         value = "tree" => \A b \in 1..NBuses : TreeAt(b)'
  PROVE  CopyIInv'
<1> USE DEF CopyIInv
<1>1. UNCHANGED <<plugged, port, list, struct, configs, handles, busses, configDone>>
      /\ Structures' /\ list # <<>> /\ TypeOK
  BY WalkSame, WalkFacts
<1>2. /\ pc' = "java" /\ err' = error /\ tree' = t
      /\ last' = [call |-> "busses", value |-> value]
      /\ copies' = copies \cup
           UNION {{[addr |-> c.object.devStructAddr, dev |-> c.dev] :
                     c \in ToSet(t[b].devices)} : b \in 1..Len(t)}
  BY DEF TreeReturns
<1>3. \A c \in copies' \ copies :
        \E a \in Addrs : struct[a] # Free /\ c = [addr |-> ToJlong(a), dev |-> struct[a].dev]
  <2> SUFFICES ASSUME NEW c \in copies' \ copies
               PROVE  \E a \in Addrs : /\ struct[a] # Free
                                       /\ c = [addr |-> ToJlong(a), dev |-> struct[a].dev]
    OBVIOUS
  <2>1. c \in UNION {{[addr |-> o.object.devStructAddr, dev |-> o.dev] :
                        o \in ToSet(t[b].devices)} : b \in 1..Len(t)}
    BY <1>2
  <2>2. PICK b \in 1..Len(t) : c \in {[addr |-> o.object.devStructAddr, dev |-> o.dev] :
                                        o \in ToSet(t[b].devices)}
    BY <2>1
  <2>3. PICK o \in ToSet(t[b].devices) :
          c = [addr |-> o.object.devStructAddr, dev |-> o.dev]
    BY <2>2
  <2>4. PICK a \in Addrs : struct[a] # Free /\ o = CopyOf(a)
    OBVIOUS
  <2> QED BY <1>1, <2>3, <2>4, StructFacts
<1>4. copies' \subseteq Copy
  <2>1. copies \subseteq Copy
    BY <1>1 DEF TypeOK
  <2>2. \A c \in copies' \ copies : c \in Copy
    BY <1>1, <1>3, StructFacts DEF Copy
  <2> QED BY <2>1, <2>2
<1>5. Memory'
  <2> SUFFICES ASSUME NEW c \in copies' PROVE Remembered(c.addr, c.dev)'
    BY DEF Memory
  <2>1. CASE c \in copies
    BY <1>1, <2>1 DEF Memory, Remembered, NoStructure
  <2>2. CASE c \notin copies
    BY <1>1, <1>3, <2>2 DEF Remembered
  <2> QED BY <2>1, <2>2
<1>6. Types'
  <2>1. bi' \in 0..NBuses
    BY NBusesAssumption
  <2>2. DOMAIN last' = {"call", "value"} /\ last'.call = "busses"
    BY <1>2
  <2>3. TypeOK'
    BY <1>1, <1>2, <1>4, <2>1, <2>2 DEF TypeOK
  <2> QED BY <1>2, <2>3 DEF Types
<1>7. Walk' /\ CopiedSoFar'
  BY <1>2 DEF Walk, CopiedSoFar
<1>8. TreeCopied'
  <2>1. last' = [call |-> "busses", value |-> "tree"] => value = "tree"
    BY <1>2
  <2> QED BY <1>1, <2>1 DEF TreeCopied
<1>9. ErrorIsFresh'
  BY <1>2 DEF ErrorIsFresh
<1> QED BY <1>1, <1>5, <1>6, <1>7, <1>8, <1>9

LEMMA GetBussesCopyIInv == CopyIInv /\ GetBusses => CopyIInv'
<1> SUFFICES ASSUME CopyIInv, GetBusses PROVE CopyIInv'
  OBVIOUS
<1> USE DEF CopyIInv
<1>1. /\ list # <<>> /\ busses' = TRUE /\ pc' = "bus" /\ bi' = 1
      /\ tree' = <<Blank>> /\ err' = "none"
      /\ last' = [call |-> "busses", value |-> "running"]
      /\ UNCHANGED <<plugged, port, list, struct, configs, handles, configDone,
                     di, chain, copies>>
  BY DEF GetBusses, libVars
<1>2. /\ tree' \in Seq(BusObject) /\ Len(tree') = 1 /\ tree'[1] = Blank
      /\ 1 \in 1..NBuses /\ 1 \in 0..NBuses /\ 1 <= NBuses
  BY <1>1, BlankFacts, NBusesAssumption
<1>3. DOMAIN last' = {"call", "value"} /\ last'.call = "busses"
  BY <1>1
<1>4. Types'
  BY <1>1, <1>2, <1>3 DEF Types, TypeOK
<1>5. Structures' /\ Memory'
  BY <1>1 DEF Structures, Memory, Remembered, NoStructure
<1>6. Walk' /\ CopiedSoFar'
  BY <1>1, <1>2 DEF Walk, CopiedSoFar
<1>7. TreeCopied' /\ ErrorIsFresh'
  BY <1>1 DEF TreeCopied, ErrorIsFresh
<1> QED BY <1>4, <1>5, <1>6, <1>7

LEMMA BareBusFacts ==
  ASSUME NEW b \in 1..NBuses
  PROVE  /\ BareBus(b) \in BusObject
         /\ BareBus(b) = [Blank EXCEPT !.dirname = b, !.location = Locations[b]]
         /\ BareBus(b).devices = <<>>
<1>1. b \in 0..NBuses /\ Locations[b] \in Nat
  BY NBusesAssumption, LocationsAssumption
<1>2. <<>> \in Seq(DeviceCopy)
  BY EmptySeq
<1>3. BareBus(b) \in BusObject
  BY <1>1, <1>2 DEF BareBus, BusObject
<1>4. BareBus(b) = [Blank EXCEPT !.dirname = b, !.location = Locations[b]]
  <2> DEFINE half == [dirname |-> b, location |-> 0, devices |-> <<>>,
                      root_dev |-> <<>>]
  <2>1. [Blank EXCEPT !.dirname = b] = half
    BY DEF Blank
  <2>2. [half EXCEPT !.location = Locations[b]] = BareBus(b)
    BY DEF BareBus
  <2>3. [Blank EXCEPT !.dirname = b, !.location = Locations[b]]
          = [half EXCEPT !.location = Locations[b]]
    BY <2>1
  <2> QED BY <2>2, <2>3
<1>5. BareBus(b).devices = <<>>
  BY DEF BareBus
<1> QED BY <1>3, <1>4, <1>5

LEMMA VisitBusCopyIInv == CopyIInv /\ VisitBus => CopyIInv'
<1> SUFFICES ASSUME CopyIInv, VisitBus PROVE CopyIInv'
  OBVIOUS
<1> DEFINE Rest == IF bi < NBuses THEN <<Blank>> ELSE <<>>
           named == [tree EXCEPT ![bi] = BareBus(bi)]
<1>1. /\ pc = "bus" /\ pc' = "dev" /\ di' = 1 /\ chain' = <<>>
      /\ InTree /\ UNCHANGED <<err, bi, copies, last>>
  BY DEF VisitBus
<1>2. /\ Len(tree) = bi /\ tree[bi] = Blank
      /\ \A b \in 1..(bi - 1) : Linked(b)
  BY <1>1 DEF CopyIInv, Walk, CopiedSoFar
<1>3. /\ list # <<>> /\ Len(list) = NBuses /\ bi \in 1..NBuses /\ NBuses \in Nat
      /\ tree \in Seq(BusObject) /\ Len(list[bi]) \in Nat
  BY <1>1, WalkFacts
<1>4. tree' = named \o Rest
  <2>1. [tree EXCEPT ![bi] = [@ EXCEPT !.dirname = bi, !.location = Locations[bi]]] = named
    BY <1>2, BareBusFacts, <1>3
  <2> QED BY <1>3, <2>1 DEF VisitBus
<1>5. /\ named \in Seq(BusObject) /\ Len(named) = bi /\ bi \in 1..Len(tree)
      /\ \A b \in 1..bi : named[b] = IF b = bi THEN BareBus(bi) ELSE tree[b]
  <2>1. BareBus(bi) \in BusObject
    BY <1>3, BareBusFacts
  <2>2. bi \in 1..Len(tree)
    BY <1>2, <1>3
  <2> QED BY <1>2, <1>3, <2>1, <2>2, ExceptSeq
<1>6. /\ Rest \in Seq(BusObject) /\ Len(Rest) = IF bi < NBuses THEN 1 ELSE 0
      /\ bi < NBuses => Rest[1] = Blank
  BY BlankFacts, EmptySeq
<1>7. /\ tree' \in Seq(BusObject) /\ Len(tree') = bi + Len(Rest)
      /\ \A b \in 1..(bi + Len(Rest)) : tree'[b] = IF b <= bi THEN named[b] ELSE Rest[b - bi]
  BY <1>4, <1>5, <1>6, ConcatProperties
<1> HIDE DEF Rest, named
<1>8. /\ Len(tree') = IF bi < NBuses THEN bi + 1 ELSE bi
      /\ \A b \in 1..(bi - 1) : tree'[b] = tree[b]
      /\ tree'[bi] = BareBus(bi)
      /\ bi < NBuses => tree'[bi + 1] = Blank
  <2>1. Len(tree') = IF bi < NBuses THEN bi + 1 ELSE bi
    BY <1>3, <1>6, <1>7
  <2>2. Len(Rest) \in Nat
    BY <1>6
  <2>3. \A b \in 1..bi : tree'[b] = named[b]
    BY <1>3, <1>7, <2>2
  <2>4. bi < NBuses => tree'[bi + 1] = Blank
    <3>1. ASSUME bi < NBuses PROVE tree'[bi + 1] = Rest[1]
      BY <1>3, <1>6, <1>7, <3>1
    <3> QED BY <1>6, <3>1
  <2> QED BY <1>3, <1>5, <2>1, <2>3, <2>4
<1>9. Walk'
  <2>1. 1 \in 1..(Len(list[bi]) + 1)
    BY <1>3
  <2> QED BY <1>1, <1>3, <1>8, <2>1, WalkSame DEF Walk
<1>10. CopiedSoFar'
  <2>1. \A b \in 1..(bi - 1) : Linked(b)'
    BY <1>1, <1>2, <1>8, LinkedSame
  <2>2. CopiesOf(bi, 0) = <<>>
    BY DEF CopiesOf
  <2>3. AllWhole(bi, 0)
    BY DEF AllWhole
  <2>4. AllWhole(bi, 0)' /\ CopiesOf(bi, 0)' = <<>>
    BY <1>1, <2>2, <2>3, WalkSame
  <2>5. BareBus(bi)' = BareBus(bi)
    BY <1>1 DEF BareBus
  <2>6. \A b \in 1..(bi' - 1) : Linked(b)'
    BY <1>1, <2>1
  <2>7. /\ tree'[bi'] = BareBus(bi)'
        /\ bi' < NBuses => tree'[bi' + 1] = Blank
    BY <1>1, <1>8, <2>5
  <2>8. AllWhole(bi, di - 1)' /\ chain' = CopiesOf(bi, di - 1)'
    BY <1>1, <2>4 DEF AllWhole, CopiesOf
  <2> QED BY <1>1, <2>6, <2>7, <2>8 DEF CopiedSoFar
<1>11. Len(tree') <= NBuses
  BY <1>3, <1>8
<1> QED BY <1>1, <1>3, <1>7, <1>9, <1>10, <1>11, BlankFacts, WalkGoesOn

\* One more device.
LEMMA AppendCopy ==
  ASSUME NEW b, NEW n \in Nat,
         \A i \in 1..(n + 1) : CopyOf(list[b][i]) \in DeviceCopy
  PROVE  Append(CopiesOf(b, n), CopyOf(list[b][n + 1])) = CopiesOf(b, n + 1)
<1> DEFINE s == CopiesOf(b, n)
           e == CopyOf(list[b][n + 1])
<1>1. /\ s \in Seq(DeviceCopy) /\ Len(s) = n
      /\ \A i \in 1..n : s[i] = CopyOf(list[b][i])
  BY CopiesOfFacts
<1>2. /\ CopiesOf(b, n + 1) \in Seq(DeviceCopy) /\ Len(CopiesOf(b, n + 1)) = n + 1
      /\ \A i \in 1..(n + 1) : CopiesOf(b, n + 1)[i] = CopyOf(list[b][i])
  BY CopiesOfFacts
<1>3. e \in DeviceCopy
  OBVIOUS
<1> HIDE DEF s, e
<1>4. /\ Append(s, e) \in Seq(DeviceCopy) /\ Len(Append(s, e)) = n + 1
      /\ \A i \in 1..n : Append(s, e)[i] = s[i]
      /\ Append(s, e)[n + 1] = e
  BY <1>1, <1>3, AppendProperties
<1>5. \A i \in 1..(n + 1) : Append(s, e)[i] = CopiesOf(b, n + 1)[i]
  BY <1>1, <1>2, <1>4 DEF e
<1>6. Append(s, e) = CopiesOf(b, n + 1)
  BY <1>2, <1>4, <1>5, SeqEqual
<1> QED BY <1>6 DEF s, e

LEMMA VisitDevCopyIInv == CopyIInv /\ VisitDev => CopyIInv'
<1> SUFFICES ASSUME CopyIInv, VisitDev PROVE CopyIInv'
  OBVIOUS
<1>1. /\ pc = "dev" /\ pc' = "dev" /\ di <= Len(list[bi]) /\ Whole(Desc(list[bi][di]))
      /\ chain' = Append(chain, CopyOf(list[bi][di])) /\ di' = di + 1
      /\ InTree /\ UNCHANGED <<err, bi, copies, last, tree>>
  BY DEF VisitDev, Visited, CopyOf
<1>2. /\ \A b \in 1..(bi - 1) : Linked(b)
      /\ tree[bi] = BareBus(bi)
      /\ bi < NBuses => tree[bi + 1] = Blank
      /\ AllWhole(bi, di - 1) /\ chain = CopiesOf(bi, di - 1)
      /\ Len(tree) = IF bi < NBuses THEN bi + 1 ELSE bi
      /\ di \in 1..(Len(list[bi]) + 1)
  BY <1>1 DEF CopyIInv, CopiedSoFar, Walk
<1>3. /\ TypeOK /\ list # <<>> /\ Len(list) = NBuses /\ bi \in 1..NBuses /\ NBuses \in Nat
      /\ tree \in Seq(BusObject) /\ chain \in Seq(DeviceCopy) /\ Len(list[bi]) \in Nat
      /\ \A i \in 1..Len(list[bi]) : CopyOf(list[bi][i]) \in DeviceCopy
  BY <1>1, WalkFacts
<1>4. chain' = CopiesOf(bi, di)
  <2>1. di - 1 \in Nat /\ (di - 1) + 1 = di
    BY <1>2, <1>3
  <2>2. \A i \in 1..((di - 1) + 1) : CopyOf(list[bi][i]) \in DeviceCopy
    <3>1. \A i \in 1..di : i \in 1..Len(list[bi])
      BY <1>1, <1>2, <1>3
    <3> QED BY <1>3, <2>1, <3>1
  <2>3. Append(CopiesOf(bi, di - 1), CopyOf(list[bi][(di - 1) + 1]))
          = CopiesOf(bi, (di - 1) + 1)
    BY <2>1, <2>2, AppendCopy
  <2> QED BY <1>1, <1>2, <2>1, <2>3
<1>5. chain' \in Seq(DeviceCopy)
  <2>1. CopyOf(list[bi][di]) \in DeviceCopy
    BY <1>1, <1>2, <1>3
  <2> QED BY <1>1, <1>3, <2>1, AppendProperties
<1>6. AllWhole(bi, di)
  <2>1. \A i \in 1..di : i \in 1..(di - 1) \/ i = di
    BY <1>2, <1>3
  <2> QED BY <1>1, <1>2, <2>1 DEF AllWhole
<1>7. Walk'
  <2>1. di + 1 \in 1..(Len(list[bi]) + 1)
    BY <1>1, <1>2, <1>3
  <2>2. list' = list
    BY <1>1, WalkSame
  <2> QED BY <1>1, <1>2, <1>3, <2>1, <2>2 DEF Walk
<1>8. CopiedSoFar'
  <2>1. \A b \in 1..(bi - 1) : Linked(b)'
    BY <1>1, <1>2, LinkedSame
  <2>2. di' - 1 = di
    BY <1>1, <1>2, <1>3
  <2>3. AllWhole(bi, di - 1)'
    BY <1>1, <1>6, <2>2, WalkSame
  <2>4. CopiesOf(bi, di - 1)' = CopiesOf(bi, di)
    BY <1>1, <2>2, WalkSame
  <2> QED BY <1>1, <1>2, <1>4, <2>1, <2>3, <2>4 DEF CopiedSoFar
<1>9. Len(tree') <= NBuses /\ di' \in Nat
  BY <1>1, <1>2, <1>3
<1> QED BY <1>1, <1>3, <1>5, <1>7, <1>8, <1>9, WalkGoesOn

\* The devices of a linked bus are copies of structures.
LEMMA LinkedCopies ==
  ASSUME CopyIInv, list # <<>>, NEW b \in 1..NBuses,
         NEW c \in ToSet(CopiesOf(b, Len(list[b])))
  PROVE  \E a \in Addrs : struct[a] # Free /\ c = CopyOf(a)
<1>1. TypeOK /\ Structures
  BY DEF CopyIInv, Types
<1>2. Len(list[b]) \in Nat
  BY <1>1, ListFacts
<1>3. PICK i \in 1..Len(list[b]) : c = CopyOf(list[b][i])
  BY <1>2 DEF ToSet, CopiesOf
<1> QED BY <1>1, <1>3, ListedFacts

\* The buses behind are complete.
LEMMA BehindComplete ==
  ASSUME NEW n \in Nat, \A b \in 1..(n - 1) : Linked(b)
  PROVE  \A b \in 1..n : Complete(b - 1)
<1>1. \A b \in 1..(n - 1) : ~Broken(b)
  BY DEF Linked, AllWhole, Broken
<1>2. \A b \in 1..n : \A k \in 1..(b - 1) : k \in 1..(n - 1)
  OBVIOUS
<1> QED BY <1>1, <1>2 DEF Complete

LEMMA VisitBrokenCopyIInv == CopyIInv /\ VisitBroken => CopyIInv'
<1> SUFFICES ASSUME CopyIInv, VisitBroken PROVE CopyIInv'
  OBVIOUS
<1>1. /\ pc = "dev" /\ di <= Len(list[bi]) /\ ~Whole(Desc(list[bi][di]))
      /\ InTree /\ UNCHANGED <<bi, di, chain>>
  BY DEF VisitBroken, Visited, treeVars
<1>2. PICK error \in {"none", "config"} : TreeReturns("tree", error, tree)
  BY DEF VisitBroken
<1>3. /\ \A b \in 1..(bi - 1) : Linked(b)
      /\ tree[bi] = BareBus(bi)
      /\ bi < NBuses => tree[bi + 1] = Blank
  BY <1>1 DEF CopyIInv, CopiedSoFar
<1>4. /\ TypeOK /\ list # <<>> /\ Len(list) = NBuses /\ bi \in 1..NBuses /\ NBuses \in Nat
      /\ tree \in Seq(BusObject) /\ Len(list[bi]) \in Nat
  BY <1>1, WalkFacts
<1>5. /\ Len(tree) = IF bi < NBuses THEN bi + 1 ELSE bi
      /\ di \in 1..(Len(list[bi]) + 1)
  BY <1>1 DEF CopyIInv, Walk
<1>9. Len(tree) <= NBuses /\ di \in Nat /\ Len(tree) \in Nat
  BY <1>4, <1>5
<1>6. ASSUME NEW b \in 1..Len(tree), NEW c \in ToSet(tree[b].devices)
      PROVE  \E a \in Addrs : struct[a] # Free /\ c = CopyOf(a)
  <2>1. b \in 1..(bi - 1) \/ b = bi \/ (b = bi + 1 /\ bi < NBuses)
    BY <1>4, <1>5
  <2>2. tree[bi].devices = <<>>
    BY <1>3, <1>4, BareBusFacts
  <2>3. \A x \in ToSet(<<>>) : FALSE
    BY DEF ToSet
  <2>4. CASE b \in 1..(bi - 1)
    <3>1. tree[b].devices = CopiesOf(b, Len(list[b]))
      <4>1. Linked(b)
        BY <1>3, <2>4
      <4> QED BY <4>1 DEF Linked
    <3>2. b \in 1..NBuses
      BY <1>4, <2>4
    <3> QED BY <1>4, <3>1, <3>2, LinkedCopies
  <2>5. CASE b = bi
    BY <2>2, <2>3, <2>5
  <2>6. CASE b = bi + 1 /\ bi < NBuses
    BY <1>3, <2>3, <2>6 DEF Blank
  <2> QED BY <2>1, <2>4, <2>5, <2>6
<1>7. tree' = tree /\ list' = list
  BY <1>1, <1>2, WalkSame DEF TreeReturns
<1>8. ASSUME NEW b \in 1..NBuses PROVE TreeAt(b)'
  <2>1. Broken(bi)
    BY <1>1, <1>4, <1>5 DEF Broken
  <2>2. \A k \in 1..bi : Complete(k - 1)
    BY <1>3, <1>4, BehindComplete
  <2>3. \A k : Broken(k)' <=> Broken(k)
    BY <1>1, WalkSame
  <2>4. \A k : Complete(k)' <=> Complete(k)
    BY <1>1, WalkSame
  <2>5. CASE b \in 1..(bi - 1)
    <3>1. Linked(b) /\ Linked(b)' /\ ~Broken(b)
      BY <1>1, <1>3, <1>7, <2>5, LinkedSame DEF Linked, AllWhole, Broken
    <3>2. Complete(b - 1) /\ b <= Len(tree)
      <4>1. b \in 1..bi /\ b <= Len(tree)
        BY <1>4, <1>5, <2>5
      <4> QED BY <2>2, <4>1
    <3> QED BY <1>7, <2>3, <2>4, <3>1, <3>2 DEF TreeAt
  <2>6. CASE b = bi
    <3>1. Complete(b - 1) /\ b <= Len(tree)
      <4>1. b \in 1..bi /\ b <= Len(tree)
        BY <1>4, <1>5, <2>6
      <4> QED BY <2>2, <4>1
    <3> QED BY <1>3, <1>7, <2>1, <2>3, <2>4, <2>6, <3>1 DEF TreeAt
  <2>7. CASE b > bi
    <3>1. ~Complete(b - 1)
      <4>1. bi \in 1..(b - 1)
        BY <1>4, <2>7
      <4> QED BY <2>1, <4>1 DEF Complete
    <3>2. b > Len(tree) \/ (tree[b] = Blank /\ Broken(b - 1))
      <4>1. b > Len(tree) \/ (b = bi + 1 /\ b - 1 = bi /\ bi < NBuses)
        BY <1>4, <1>5, <2>7
      <4> QED BY <1>3, <2>1, <4>1
    <3> QED BY <1>7, <2>3, <2>4, <3>1, <3>2 DEF TreeAt
  <2> QED BY <1>4, <2>5, <2>6, <2>7
<1> QED BY <1>1, <1>2, <1>4, <1>6, <1>8, <1>9, WalkEnds

LEMMA AllocFailsCopyIInv == CopyIInv /\ AllocFails => CopyIInv'
<1> SUFFICES ASSUME CopyIInv, AllocFails PROVE CopyIInv'
  OBVIOUS
<1>1. /\ pc # "java" /\ InTree /\ UNCHANGED <<bi, di, chain>>
  BY DEF AllocFails, treeVars
<1>2. PICK error \in {"alloc", "none"} : TreeReturns("thrown", error, <<>>)
  BY DEF AllocFails
<1>3. <<>> \in Seq(BusObject) /\ Len(<<>>) = 0 /\ 0 <= NBuses
  BY EmptySeq, NBusesAssumption
<1>4. bi \in 1..NBuses /\ di \in Nat
  BY <1>1, WalkFacts DEF CopyIInv, Types, TypeOK
<1>5. \A b \in 1..Len(<<>>) : FALSE
  BY <1>3
<1>6. "thrown" # "tree" /\ error \in {"none", "config", "alloc"}
      /\ bi' \in 1..NBuses /\ di' \in Nat /\ Len(<<>>) <= NBuses
  BY <1>1, <1>3, <1>4
<1> QED BY <1>1, <1>2, <1>3, <1>5, <1>6, WalkEnds

LEMMA LinkDevicesCopyIInv == CopyIInv /\ LinkDevices => CopyIInv'
<1> SUFFICES ASSUME CopyIInv, LinkDevices PROVE CopyIInv'
  OBVIOUS
<1> DEFINE bus == [dirname |-> bi, location |-> Locations[bi], devices |-> chain,
                   root_dev |-> chain]
           t == [tree EXCEPT ![bi] = bus]
<1>1. pc = "dev" /\ di > Len(list[bi]) /\ InTree /\ UNCHANGED <<di, chain>>
  BY DEF LinkDevices
<1>2. /\ \A b \in 1..(bi - 1) : Linked(b)
      /\ tree[bi] = BareBus(bi)
      /\ bi < NBuses => tree[bi + 1] = Blank
      /\ AllWhole(bi, di - 1) /\ chain = CopiesOf(bi, di - 1)
  BY <1>1, BareBusFacts DEF CopyIInv, CopiedSoFar, Walk
<1>3. /\ Len(tree) = IF bi < NBuses THEN bi + 1 ELSE bi
      /\ di \in 1..(Len(list[bi]) + 1)
  BY <1>1 DEF CopyIInv, Walk
<1>4. /\ TypeOK /\ list # <<>> /\ Len(list) = NBuses /\ bi \in 1..NBuses /\ NBuses \in Nat
      /\ tree \in Seq(BusObject) /\ chain \in Seq(DeviceCopy) /\ Len(list[bi]) \in Nat
  BY <1>1, WalkFacts
<1>5. di - 1 = Len(list[bi]) /\ di \in Nat /\ Len(tree) <= NBuses /\ bi \in 1..Len(tree)
      /\ bi \in 0..NBuses
  BY <1>1, <1>3, <1>4
<1>6. chain = CopiesOf(bi, Len(list[bi])) /\ AllWhole(bi, Len(list[bi]))
  BY <1>2, <1>5
<1>7. bus \in BusObject
  BY <1>4, <1>5, LocationsAssumption DEF BusObject
<1>8. /\ t \in Seq(BusObject) /\ Len(t) = Len(tree)
      /\ \A b \in 1..Len(tree) : t[b] = IF b = bi THEN bus ELSE tree[b]
  BY <1>4, <1>5, <1>7, ExceptSeq
<1>9. [tree EXCEPT ![bi].devices = chain, ![bi].root_dev = chain] = t
  <2> DEFINE once == [tree EXCEPT ![bi].devices = chain]
             half == [dirname |-> bi, location |-> Locations[bi],
                      devices |-> chain, root_dev |-> <<>>]
  <2>1. tree = [b \in 1..Len(tree) |-> tree[b]]
    BY <1>4, LenProperties
  <2>2. [tree[bi] EXCEPT !.devices = chain] = half
    BY <1>2 DEF BareBus
  <2>3. once = [tree EXCEPT ![bi] = half]
    BY <2>2
  <2>4. [half EXCEPT !.root_dev = chain] = bus
    OBVIOUS
  <2>5. once[bi] = half
    BY <1>5, <2>1, <2>3
  <2>6. [once EXCEPT ![bi].root_dev = chain] = [once EXCEPT ![bi] = bus]
    BY <2>4, <2>5
  <2>7. [once EXCEPT ![bi] = bus] = t
    BY <1>5, <2>1, <2>3
  <2> QED BY <2>6, <2>7
<1>10. \/ /\ bi = NBuses /\ TreeReturns("tree", "none", t) /\ UNCHANGED bi
       \/ /\ bi # NBuses /\ tree' = t /\ bi' = bi + 1 /\ pc' = "bus"
          /\ UNCHANGED <<err, copies, last>>
  BY <1>4, <1>9 DEF LinkDevices
<1>11. t[bi] = bus /\ \A b \in 1..(bi - 1) : t[b] = tree[b] /\ b \in 1..NBuses
  BY <1>3, <1>4, <1>5, <1>8
<1>12. bi < NBuses => t[bi + 1] = Blank
  BY <1>2, <1>3, <1>4, <1>8
<1> HIDE DEF t
<1>13. tree' = t => \A b \in 1..bi : Linked(b)'
  <2> SUFFICES ASSUME tree' = t, NEW b \in 1..bi PROVE Linked(b)'
    OBVIOUS
  <2>1. b \in 1..(bi - 1) \/ b = bi
    BY <1>4
  <2>2. CASE b \in 1..(bi - 1)
    BY <1>1, <1>2, <1>11, <2>2, LinkedSame
  <2>3. CASE b = bi
    <3>1. /\ AllWhole(b, Len(list[b]))
          /\ tree'[b] = [dirname |-> b, location |-> Locations[b],
                         devices |-> CopiesOf(b, Len(list[b])),
                         root_dev |-> CopiesOf(b, Len(list[b]))]
      BY <1>6, <1>11, <2>3
    <3> QED BY <1>1, <3>1, LinkedAfter
  <2> QED BY <2>1, <2>2, <2>3
<1>14. CASE bi = NBuses
  <2>1. TreeReturns("tree", "none", t) /\ UNCHANGED bi /\ tree' = t
    BY <1>10, <1>14 DEF TreeReturns
  <2>2. ASSUME NEW b \in 1..Len(t), NEW c \in ToSet(t[b].devices)
        PROVE  \E a \in Addrs : struct[a] # Free /\ c = CopyOf(a)
    <3>1. b \in 1..NBuses /\ (b \in 1..(bi - 1) \/ b = bi)
      BY <1>3, <1>4, <1>8, <1>14
    <3>2. t[b].devices = CopiesOf(b, Len(list[b]))
      <4>1. CASE b \in 1..(bi - 1)
        <5>1. Linked(b) /\ t[b] = tree[b]
          BY <1>2, <1>11, <4>1
        <5> QED BY <5>1 DEF Linked
      <4>2. CASE b = bi
        BY <1>6, <1>11, <4>2
      <4> QED BY <3>1, <4>1, <4>2
    <3> QED BY <1>4, <3>1, <3>2, LinkedCopies
  <2>3. ASSUME NEW b \in 1..NBuses PROVE TreeAt(b)'
    <3>1. \A k \in 1..NBuses : Linked(k)'
      BY <1>13, <1>14, <2>1
    <3>2. \A k \in 1..NBuses : ~Broken(k)'
      BY <3>1 DEF Linked, AllWhole, Broken
    <3>3. \A k \in 1..(b - 1) : k \in 1..NBuses
      BY <1>4
    <3>4. Complete(b - 1)'
      BY <3>2, <3>3 DEF Complete
    <3>5. b <= Len(tree')
      BY <1>3, <1>4, <1>8, <1>14, <2>1
    <3> QED BY <3>1, <3>2, <3>4, <3>5 DEF TreeAt
  <2>4. bi' \in 1..NBuses /\ di' \in Nat /\ Len(t) <= NBuses /\ pc # "java" /\ UNCHANGED chain
    BY <1>1, <1>4, <1>5, <1>8, <2>1
  <2> QED BY <1>1, <1>8, <2>1, <2>2, <2>3, <2>4, WalkEnds
<1>15. CASE bi # NBuses
  <2>1. /\ tree' = t /\ bi' = bi + 1 /\ pc' = "bus" /\ UNCHANGED <<err, copies, last>>
        /\ bi < NBuses /\ bi' \in 1..NBuses /\ bi' - 1 = bi
    BY <1>4, <1>10, <1>15
  <2>2. list' = list
    BY <1>1, WalkSame
  <2>3. Walk'
    BY <1>3, <1>4, <1>8, <2>1, <2>2 DEF Walk
  <2>4. CopiedSoFar'
    BY <1>12, <1>13, <2>1 DEF CopiedSoFar
  <2>5. Len(tree') <= NBuses /\ di' \in Nat /\ tree' \in Seq(BusObject)
        /\ chain' \in Seq(DeviceCopy) /\ pc # "java"
    BY <1>1, <1>4, <1>5, <1>8, <2>1
  <2> QED BY <1>1, <2>1, <2>3, <2>4, <2>5, WalkGoesOn
<1> QED BY <1>14, <1>15

-----------------------------------------------------------------------------
(* Handles and errors.                                                     *)

\* OpensListed of a step.
NewListed ==
  \A h \in handles' \ handles :
    /\ Listed(h.addr)
    /\ \A a \in Addrs : struct[a] # Free /\ struct[a].dev = h.want => h.dev = h.want

\* usb_open with a structure that it finds: the new handle.
LEMMA OpenedFacts ==
  ASSUME CopyIInv, NEW c \in copies, NEW a \in Addrs, Listed(a), ToJlong(a) = c.addr,
         Opened(c, a, struct[a].dev)
  PROVE  handles' \subseteq Handle /\ NewListed
<1>1. TypeOK /\ Structures /\ Remembered(c.addr, c.dev)
  BY DEF CopyIInv, Types, Memory
<1>2. struct[a] # Free /\ struct[a].dev \in Devices /\ c.dev \in Devices
  <2>1. struct[a] # Free
    BY <1>1 DEF Listed, Structures
  <2>2. c.dev \in Devices
    BY <1>1 DEF TypeOK, Copy
  <2> QED BY <1>1, <2>1, <2>2, StructFacts
<1>3. PICK p \in HandleAddrs : handles' = handles \cup
        {[ptr |-> p, j |-> Narrow(NativeHandle.usb_open.gives, ToJlong(p)),
          addr |-> a, dev |-> struct[a].dev, want |-> c.dev]}
  BY DEF Opened
<1>4. NativeHandle.usb_open.gives = "jlong"
  BY DEF NativeHandle, Sig
<1>5. Narrow("jlong", ToJlong(p)) = ToJlong(p)
  BY DEF Narrow, Bits
<1>6. ToJlong(p) \in Int
  BY HandleAddrsAssumption, PointerRecovered
<1> DEFINE h == [ptr |-> p, j |-> ToJlong(p), addr |-> a, dev |-> struct[a].dev,
                 want |-> c.dev]
<1>7. handles' = handles \cup {h}
  BY <1>3, <1>4, <1>5
<1>8. h \in Handle
  BY <1>2, <1>6 DEF Handle
<1>9. handles' \subseteq Handle
  BY <1>1, <1>7, <1>8 DEF TypeOK
<1>10. ASSUME NEW e \in Addrs, struct[e] # Free, struct[e].dev = c.dev
       PROVE  struct[a].dev = c.dev
  <2>1. PICK k \in Addrs : /\ c.addr = ToJlong(k)
                           /\ \/ struct[k] # Free /\ struct[k].dev = c.dev
                              \/ NoStructure(c.dev)
    BY <1>1 DEF Remembered
  <2>2. k = a
    BY <2>1, PointersAssumption, PointerRecovered
  <2> QED BY <1>10, <2>1, <2>2 DEF NoStructure
<1> QED BY <1>7, <1>9, <1>10 DEF NewListed

LEMMA OpenCopyIInv ==
  ASSUME CopyIInv, NEW c \in copies, Open(c)
  PROVE  CopyIInv' /\ NewListed
<1>1. TypeOK
  BY DEF CopyIInv, Types
<1>2. UNCHANGED <<list, struct, configs, busses, configDone>>
  BY DEF Open
<1>3. PICK value \in {"ok", "zero"}, error \in {"none", "nodevice"} :
        /\ Return("open", value, error)
        /\ error = "nodevice" => value = "zero"
        /\ \/ UNCHANGED handles
           \/ \E a \in Addrs : Listed(a) /\ ToJlong(a) = c.addr
                                 /\ Opened(c, a, struct[a].dev)
  BY DEF Open
<1>4. handles' \subseteq Handle /\ NewListed
  <2>1. CASE UNCHANGED handles
    BY <1>1, <2>1 DEF TypeOK, NewListed
  <2>2. ASSUME NEW a \in Addrs, Listed(a), ToJlong(a) = c.addr,
               Opened(c, a, struct[a].dev)
        PROVE  handles' \subseteq Handle /\ NewListed
    BY <2>2, OpenedFacts
  <2> QED BY <1>3, <2>1, <2>2
<1>5. TypeOK'
  <2>1. /\ configs' \in [Devices -> Nat] /\ busses' \in BOOLEAN
        /\ configDone' \in BOOLEAN
    BY <1>1, <1>2 DEF TypeOK
  <2> QED BY <1>1, <1>2, <1>3, <1>4, <2>1, ReturnTypes
<1>6. ErrorIsFresh'
  BY <1>3 DEF Return, ErrorIsFresh
<1>7. CopyIInv'
  BY <1>2, <1>3, <1>5, <1>6, ReturnCopyIInv
<1> QED BY <1>4, <1>7

LEMMA OpenEarlyCopyIInv == CopyIInv /\ OpenEarly => CopyIInv'
<1> SUFFICES ASSUME CopyIInv, OpenEarly PROVE CopyIInv'
  OBVIOUS
<1>1. TypeOK
  BY DEF CopyIInv, Types
<1>2. /\ Return("open", "zero", "busses")
      /\ UNCHANGED <<list, struct, configs, handles, busses, configDone>>
  BY DEF OpenEarly
<1>3. TypeOK'
  <2>1. /\ configs' \in [Devices -> Nat] /\ handles' \subseteq Handle
        /\ busses' \in BOOLEAN /\ configDone' \in BOOLEAN
    BY <1>1, <1>2 DEF TypeOK
  <2> QED BY <1>1, <1>2, <2>1, ReturnTypes
<1>4. ErrorIsFresh'
  BY <1>2 DEF Return, ErrorIsFresh
<1> QED BY <1>2, <1>3, <1>4, ReturnCopyIInv

LEMMA HandleCopyIInv ==
  ASSUME CopyIInv, NEW h \in handles, HandleStep(h)
  PROVE  CopyIInv' /\ handles' \subseteq handles
<1>1. TypeOK /\ ErrorIsFresh
  BY DEF CopyIInv, Types
<1>2. UNCHANGED <<list, struct, busses>> /\ handles' \subseteq handles
  BY DEF HandleStep, CloseHandle, SetConfiguration, SetConfigurationAgain, OnHandle
<1>3. PICK call \in {"config", "other"}, value \in {"any", "ok", "error", "positive"},
           error \in {"none", err} :
        /\ Return(call, value, error)
        /\ error # "none" => call = "config" /\ configDone'
  BY DEF HandleStep, CloseHandle, SetConfiguration, SetConfigurationAgain
<1>4. configs' \in [Devices -> Nat] /\ configDone' \in BOOLEAN
  <2>1. configs \in [Devices -> Nat] /\ h.dev \in Devices
    BY <1>1 DEF TypeOK, Handle
  <2>2. \/ configs' = configs
        \/ configs' = [configs EXCEPT ![h.dev] = configs[h.dev] + 1]
    BY DEF HandleStep, CloseHandle, SetConfiguration, SetConfigurationAgain
  <2>3. configDone' \in {configDone, TRUE}
    BY DEF HandleStep, CloseHandle, SetConfiguration, SetConfigurationAgain
  <2>4. configs' \in [Devices -> Nat]
    BY <2>1, <2>2
  <2> QED BY <1>1, <2>3, <2>4 DEF TypeOK
<1>5. TypeOK'
  <2>1. handles' \subseteq Handle /\ busses' \in BOOLEAN
        /\ error \in {"none", "busses", "nodevice", "config", "alloc"}
    BY <1>1, <1>2, <1>3 DEF TypeOK
  <2> QED BY <1>1, <1>2, <1>3, <1>4, <2>1, ReturnTypes
<1>6. ErrorIsFresh'
  BY <1>3 DEF Return, ErrorIsFresh
<1> QED BY <1>2, <1>3, <1>5, <1>6, ReturnCopyIInv

LEMMA NextCopyIInv == CopyIInv /\ [Next]_vars => CopyIInv' /\ NewListed
<1> SUFFICES ASSUME CopyIInv, [Next]_vars PROVE CopyIInv' /\ NewListed
  OBVIOUS
<1>1. CASE Environment
  BY <1>1, EnvironmentCopyIInv DEF Environment, Plug, Unplug, NewListed
<1>2. CASE usb_set_debug \/ usb_init \/ NoBusses \/ LoadFails \/ DeviceCall \/ StrError
  <2>1. handles' = handles
    BY <1>2 DEF usb_set_debug, usb_init, NoBusses, LoadFails, DeviceCall,
       usb_set_altinterface, usb_clear_halt, usb_reset, usb_claim_interface,
       usb_release_interface, Transfer, PassOn, StrError
  <2> QED BY <1>2, <2>1, PlainCopyIInv DEF NewListed
<1>3. CASE FindBusses \/ FindDevices
  BY <1>3, FindBussesCopyIInv, FindDevicesCopyIInv DEF FindBusses, FindDevices, NewListed
<1>4. CASE GetBusses
  BY <1>4, GetBussesCopyIInv DEF GetBusses, libVars, NewListed
<1>5. CASE TreeStep
  <2>1. handles' = handles
    BY <1>5 DEF TreeStep, VisitBus, VisitDev, VisitBroken, AllocFails, LinkDevices,
       InTree, libVars
  <2> QED BY <1>5, <2>1, VisitBusCopyIInv, VisitDevCopyIInv, VisitBrokenCopyIInv,
           AllocFailsCopyIInv, LinkDevicesCopyIInv DEF TreeStep, NewListed
<1>6. CASE OpenEarly
  BY <1>6, OpenEarlyCopyIInv DEF OpenEarly, NewListed
<1>7. CASE \E c \in copies : Open(c)
  BY <1>7, OpenCopyIInv
<1>8. CASE \E h \in handles : HandleStep(h)
  <2>1. CopyIInv' /\ handles' \subseteq handles
    BY <1>8, HandleCopyIInv
  <2> QED BY <2>1 DEF NewListed
<1>9. CASE UNCHANGED vars
  <2> USE DEF CopyIInv, vars, libVars, treeVars
  <2>1. Types' /\ Structures' /\ Memory' /\ Walk' /\ ErrorIsFresh'
    BY <1>9 DEF Types, TypeOK, Structures, Memory, Remembered, NoStructure, Walk,
       ErrorIsFresh
  <2>2. CopiedSoFar'
    BY <1>9 DEF CopiedSoFar, Linked, AllWhole, CopiesOf, CopyOf, Desc
  <2>3. TreeCopied'
    <3>1. \A b : Broken(b)' <=> Broken(b)
      BY <1>9 DEF Broken, Desc
    <3>2. \A b : Linked(b)' <=> Linked(b)
      BY <1>9 DEF Linked, AllWhole, CopiesOf, CopyOf, Desc
    <3>3. \A b : TreeAt(b)' <=> TreeAt(b)
      BY <1>9, <3>1, <3>2 DEF TreeAt, Complete
    <3> QED BY <1>9, <3>3 DEF TreeCopied
  <2> QED BY <1>9, <2>1, <2>2, <2>3 DEF NewListed
<1> QED BY <1>1, <1>2, <1>3, <1>4, <1>5, <1>6, <1>7, <1>8, <1>9 DEF Next

LEMMA CopyInvariance == Spec => []CopyIInv
<1>1. CopyIInv /\ [Next]_vars => CopyIInv'
  BY NextCopyIInv
<1> QED BY InitCopyIInv, <1>1, PTL DEF Spec

-----------------------------------------------------------------------------
\* The wrapper's state keeps its types, and the walk stays in libusb's lists.
THEOREM WrapperTypes == Spec => []TypeOK
<1>1. CopyIInv => TypeOK
  BY DEF CopyIInv, Types
<1> QED BY <1>1, CopyInvariance, PTL

\* The error text usb_strerror tells is the last call's, but for a blocked
\* usb_set_configuration.
THEOREM ErrorAlwaysFresh == Spec => []ErrorIsFresh
<1>1. CopyIInv => ErrorIsFresh
  BY DEF CopyIInv
<1> QED BY <1>1, CopyInvariance, PTL

\* usb_open gives libusb only what it lists: the structure of the copy's
\* device, as long as there is one, however often addresses are used again.
THEOREM OpensAlwaysListed == Spec => OpensListed
<1>1. CopyIInv /\ [Next]_vars =>
        [\A h \in handles' \ handles :
           /\ Listed(h.addr)
           /\ \A a \in Addrs : struct[a] # Free /\ struct[a].dev = h.want =>
                h.dev = h.want]_vars
  BY NextCopyIInv DEF NewListed
<1> QED BY <1>1, CopyInvariance, PTL DEF Spec, OpensListed

\* The tree usb_get_busses returns has libusb's buses and, as they are, the
\* devices of each, up to the first device that is not all there, for any
\* devices and structures; past that, no device.
THEOREM TreeAlwaysFollows == Spec => []TreeFollowsList
<1>1. CopyIInv => TreeFollowsList
  <2> SUFFICES ASSUME CopyIInv, pc = "java",
                      last = [call |-> "busses", value |-> "tree"]
               PROVE  TreeFollowsList
    BY DEF TreeFollowsList
  <2> DEFINE WholeTo(b) == \A k \in 1..b : \A i \in 1..Len(list[k]) : Whole(Desc(list[k][i]))
  <2>1. TypeOK /\ Structures /\ list # <<>> /\ \A b \in 1..NBuses : TreeAt(b)
    BY DEF CopyIInv, Types, TreeCopied
  <2>2. \A b \in 1..NBuses : WholeTo(b) <=> Complete(b - 1) /\ ~Broken(b)
    <3> SUFFICES ASSUME NEW b \in 1..NBuses
                 PROVE  WholeTo(b) <=> Complete(b - 1) /\ ~Broken(b)
      OBVIOUS
    <3>1. \A k : k \in 1..b <=> k \in 1..(b - 1) \/ k = b
      BY NBusesAssumption
    <3>2. WholeTo(b) <=> Complete(b)
      BY DEF Complete, Broken
    <3> QED BY <3>1, <3>2 DEF Complete
  <2>3. ASSUME NEW b \in 1..NBuses, Linked(b)
        PROVE  /\ tree[b].dirname = b /\ tree[b].location = Locations[b]
               /\ ChainDenotes(tree[b].devices, b)
    <3>1. /\ tree[b].dirname = b /\ tree[b].location = Locations[b]
          /\ tree[b].devices = CopiesOf(b, Len(list[b]))
      BY <2>3 DEF Linked
    <3>2. Len(list[b]) \in Nat
          /\ \A i \in 1..Len(list[b]) : CopyOf(list[b][i]) \in DeviceCopy
      BY <2>1, ListFacts, ListedFacts
    <3>3. /\ Len(CopiesOf(b, Len(list[b]))) = Len(list[b])
          /\ \A i \in 1..Len(list[b]) :
               CopiesOf(b, Len(list[b]))[i] = CopyOf(list[b][i])
      BY <3>2, CopiesOfFacts
    <3>4. ASSUME NEW i \in 1..Len(list[b])
          PROVE  /\ ToPointer(CopyOf(list[b][i]).object.devStructAddr) = list[b][i]
                 /\ CopyOf(list[b][i]).dev = struct[list[b][i]].dev
                 /\ DeviceDenotes(CopyOf(list[b][i]).object, Desc(list[b][i]))
      BY <2>1, ListedFacts, StructFacts
    <3> QED BY <3>1, <3>3, <3>4 DEF ChainDenotes
  <2>4. ASSUME NEW b \in 1..NBuses, WholeTo(b)
        PROVE  /\ b <= Len(tree)
               /\ tree[b].dirname = b /\ tree[b].location = Locations[b]
               /\ ChainDenotes(tree[b].devices, b)
    BY <2>1, <2>2, <2>3, <2>4 DEF TreeAt
  <2>5. ASSUME NEW b \in 1..NBuses, ~WholeTo(b)
        PROVE  b > Len(tree) \/ tree[b].devices = <<>>
    <3>1. CASE Complete(b - 1)
      <4>1. tree[b] = BareBus(b)
        BY <2>1, <2>2, <2>5, <3>1 DEF TreeAt
      <4> QED BY <4>1 DEF BareBus
    <3>2. CASE ~Complete(b - 1)
      BY <2>1, <3>2 DEF TreeAt, Blank
    <3> QED BY <3>1, <3>2
  <2> QED BY <2>4, <2>5 DEF TreeFollowsList
<1> QED BY <1>1, CopyInvariance, PTL
=============================================================================
