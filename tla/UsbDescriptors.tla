--------------------------- MODULE UsbDescriptors ---------------------------
(***************************************************************************)
(* A device as libusb describes it (the structures of usb.h) and the Java  *)
(* objects usb_get_busses makes of it (LibusbJava.c): field by field, each *)
(* cast to the type of the Java field, and array by array.                 *)
(*                                                                         *)
(* An array is a pointer and a count in C: here Null or a sequence, with   *)
(* its count in a field of its own, as in C.                               *)
(***************************************************************************)
EXTENDS UsbApi

Chars == STRING
int == Int

ArrayOf(S, max) == {Null} \cup {s \in Seq(S) : Len(s) <= max}
Bytes == {Null} \cup Seq(uint8)

-----------------------------------------------------------------------------
(* The structures.                                                         *)

USB_MAXENDPOINTS == 32
usb_endpoint_descriptor ==
  [bLength : uint8, bDescriptorType : uint8, bEndpointAddress : uint8,
   bmAttributes : uint8, wMaxPacketSize : uint16, bInterval : uint8,
   bRefresh : uint8, bSynchAddress : uint8, extra : Bytes, extralen : int]

USB_MAXALTSETTING == 128
usb_interface_descriptor ==
  [bLength : uint8, bDescriptorType : uint8, bInterfaceNumber : uint8,
   bAlternateSetting : uint8, bNumEndpoints : uint8, bInterfaceClass : uint8,
   bInterfaceSubClass : uint8, bInterfaceProtocol : uint8, iInterface : uint8,
   endpoint : ArrayOf(usb_endpoint_descriptor, USB_MAXENDPOINTS),
   extra : Bytes, extralen : int]

USB_MAXINTERFACES == 32
usb_interface ==
  [altsetting : ArrayOf(usb_interface_descriptor, USB_MAXALTSETTING),
   num_altsetting : int]

USB_MAXCONFIG == 8
usb_config_descriptor ==
  [bLength : uint8, bDescriptorType : uint8, wTotalLength : uint16,
   bNumInterfaces : uint8, bConfigurationValue : uint8,
   iConfiguration : uint8, bmAttributes : uint8, MaxPower : uint8,
   interface : ArrayOf(usb_interface, USB_MAXINTERFACES),
   extra : Bytes, extralen : int]

usb_device_descriptor ==
  [bLength : uint8, bDescriptorType : uint8, bcdUSB : uint16,
   bDeviceClass : uint8, bDeviceSubClass : uint8, bDeviceProtocol : uint8,
   bMaxPacketSize0 : uint8, idVendor : uint16, idProduct : uint16,
   bcdDevice : uint16, iManufacturer : uint8, iProduct : uint8,
   iSerialNumber : uint8, bNumConfigurations : uint8]

\* Without its links: the position in the list of a bus stands for them.
usb_device ==
  [filename : Chars, descriptor : usb_device_descriptor,
   config : ArrayOf(usb_config_descriptor, USB_MAXCONFIG),
   devnum : uint8, num_children : uint8]

\* Counts are those of the arrays, unless libusb left an array out.
Counted(array, count) == array # Null => Len(array) = count

EndpointSound(e) == Counted(e.extra, e.extralen)
SettingSound(d) ==
  /\ Counted(d.extra, d.extralen) /\ Counted(d.endpoint, d.bNumEndpoints)
  /\ d.endpoint # Null =>
       \A i \in 1..Len(d.endpoint) : EndpointSound(d.endpoint[i])
InterfaceSound(f) ==
  /\ f.num_altsetting >= 0 /\ Counted(f.altsetting, f.num_altsetting)
  /\ f.altsetting # Null =>
       \A i \in 1..Len(f.altsetting) : SettingSound(f.altsetting[i])
ConfigSound(c) ==
  /\ Counted(c.extra, c.extralen) /\ Counted(c.interface, c.bNumInterfaces)
  /\ c.interface # Null =>
       \A i \in 1..Len(c.interface) : InterfaceSound(c.interface[i])
Sound(dev) ==
  /\ Counted(dev.config, dev.descriptor.bNumConfigurations)
  /\ dev.config # Null =>
       \A i \in 1..Len(dev.config) : ConfigSound(dev.config[i])

-----------------------------------------------------------------------------
(* The fields of the Java classes, with their types as Java writes them;   *)
(* those that hold objects are set apart.                                  *)

EndpointFields ==
  [bLength |-> "B", bDescriptorType |-> "B", bEndpointAddress |-> "B",
   bmAttributes |-> "B", wMaxPacketSize |-> "S", bInterval |-> "B",
   bRefresh |-> "B", bSynchAddress |-> "B", extra |-> "[B", extralen |-> "I"]

SettingFields ==
  [bLength |-> "B", bDescriptorType |-> "B", bInterfaceNumber |-> "B",
   bAlternateSetting |-> "B", bNumEndpoints |-> "B", bInterfaceClass |-> "B",
   bInterfaceSubClass |-> "B", bInterfaceProtocol |-> "B", iInterface |-> "B",
   extra |-> "[B", extralen |-> "I"]

InterfaceFields == [num_altsetting |-> "I"]

ConfigFields ==
  [bLength |-> "B", bDescriptorType |-> "B", wTotalLength |-> "S",
   bNumInterfaces |-> "B", bConfigurationValue |-> "B",
   iConfiguration |-> "B", bmAttributes |-> "B", MaxPower |-> "B",
   extra |-> "[B", extralen |-> "I"]

DescriptorFields ==
  [bLength |-> "B", bDescriptorType |-> "B", bcdUSB |-> "S",
   bDeviceClass |-> "B", bDeviceSubClass |-> "B", bDeviceProtocol |-> "B",
   bMaxPacketSize0 |-> "B", idVendor |-> "S", idProduct |-> "S",
   bcdDevice |-> "S", iManufacturer |-> "B", iProduct |-> "B",
   iSerialNumber |-> "B", bNumConfigurations |-> "B"]

DeviceFields == [filename |-> "String", devnum |-> "B",
                 num_children |-> "B"]

-----------------------------------------------------------------------------
(* The objects.                                                            *)

\* Set...Field: the value as the field's type holds it.
Held(type, v) ==
  CASE type = "B" -> ToJbyte(v)
    [] type = "S" -> ToJshort(v)
    [] type = "[B" -> IF v = Null THEN Null
                      ELSE [i \in 1..Len(v) |-> ToJbyte(v[i])]
    [] OTHER -> v

Object(fields, struct) ==
  [f \in DOMAIN fields |-> Held(fields[f], struct[f])]

\* Objects of an array's members, as many as it has.
ArrayObject(array, Make(_)) ==
  IF array = Null THEN <<>> ELSE [i \in 1..Len(array) |-> Make(array[i])]

EndpointObject(e) == Object(EndpointFields, e)

SettingObject(d) ==
  [self |-> Object(SettingFields, d),
   endpoint |-> ArrayObject(d.endpoint, EndpointObject)]

InterfaceObject(f) ==
  [self |-> Object(InterfaceFields, f),
   altsetting |-> ArrayObject(f.altsetting, SettingObject)]

\* The Java field is called interface_.
ConfigObject(c) ==
  [self |-> Object(ConfigFields, c),
   interface |-> ArrayObject(c.interface, InterfaceObject)]

\* Its children is looked up but never set, and stays null.
DeviceObject(dev, a) ==
  [self |-> Object(DeviceFields, dev), devStructAddr |-> ToJlong(a),
   descriptor |-> Object(DescriptorFields, dev.descriptor),
   config |-> ArrayObject(dev.config, ConfigObject)]

-----------------------------------------------------------------------------
(* What libusb left out.                                                   *)

Missing(array, count) == array = Null /\ count > 0

SettingCut(d) == Missing(d.endpoint, d.bNumEndpoints)
InterfaceCut(f) ==
  \/ Missing(f.altsetting, f.num_altsetting)
  \/ f.altsetting # Null
       /\ \E i \in 1..Len(f.altsetting) : SettingCut(f.altsetting[i])
ConfigCut(c) ==
  \/ Missing(c.interface, c.bNumInterfaces)
  \/ c.interface # Null
       /\ \E i \in 1..Len(c.interface) : InterfaceCut(c.interface[i])

\* The two ways in which a device cannot be copied: without its
\* configurations, or with an array missing further down.
NoConfig(dev) == Missing(dev.config, dev.descriptor.bNumConfigurations)
Cut(dev) == dev.config # Null
              /\ \E i \in 1..Len(dev.config) : ConfigCut(dev.config[i])
Whole(dev) == ~NoConfig(dev) /\ ~Cut(dev)

-----------------------------------------------------------------------------
(* Reading the objects: what a Java program that knows the USB types makes *)
(* of the fields is what libusb had.                                       *)

ReadByte(b) == b % 256
ReadShort(s) == s % 65536

\* A struct's field read back from a Java field.
Read(type, v) ==
  CASE type = "B" -> ReadByte(v)
    [] type = "S" -> ReadShort(v)
    [] type = "[B" -> IF v = Null THEN Null
                      ELSE [i \in 1..Len(v) |-> ReadByte(v[i])]
    [] OTHER -> v

Denotes(fields, object, struct) ==
  \A f \in DOMAIN fields : Read(fields[f], object[f]) = struct[f]

ArrayDenotes(objects, array, Member(_, _)) ==
  IF array = Null THEN objects = <<>>
  ELSE /\ Len(objects) = Len(array)
       /\ \A i \in 1..Len(array) : Member(objects[i], array[i])

EndpointDenotes(o, e) == Denotes(EndpointFields, o, e)
SettingDenotes(o, d) ==
  /\ Denotes(SettingFields, o.self, d)
  /\ ArrayDenotes(o.endpoint, d.endpoint, EndpointDenotes)
InterfaceDenotes(o, f) ==
  /\ Denotes(InterfaceFields, o.self, f)
  /\ ArrayDenotes(o.altsetting, f.altsetting, SettingDenotes)
ConfigDenotes(o, c) ==
  /\ Denotes(ConfigFields, o.self, c)
  /\ ArrayDenotes(o.interface, c.interface, InterfaceDenotes)
DeviceDenotes(o, dev) ==
  /\ Denotes(DeviceFields, o.self, dev)
  /\ Denotes(DescriptorFields, o.descriptor, dev.descriptor)
  /\ ArrayDenotes(o.config, dev.config, ConfigDenotes)
=============================================================================
