------------------------------- MODULE MCUsb -------------------------------
(***************************************************************************)
(* The USB wrapper for TLC: UsbWrapper and UsbTransfer, which share no      *)
(* state, so that a run explores the one or the other.                     *)
(***************************************************************************)
EXTENDS UsbWrapper, UsbTransfer, TLC

VARIABLE part   \* the machine this run is of

\* An oscilloscope: two bulk endpoints, one of them with extra bytes.
MCEndpoint(address, extra) ==
  [bLength |-> 7, bDescriptorType |-> 5, bEndpointAddress |-> address,
   bmAttributes |-> 2, wMaxPacketSize |-> 512, bInterval |-> 0,
   bRefresh |-> 0, bSynchAddress |-> 0,
   extra |-> extra, extralen |-> IF extra = Null THEN 0 ELSE Len(extra)]

MCSetting(endpoints) ==
  [bLength |-> 9, bDescriptorType |-> 4, bInterfaceNumber |-> 0,
   bAlternateSetting |-> 0, bNumEndpoints |-> 2, bInterfaceClass |-> 255,
   bInterfaceSubClass |-> 255, bInterfaceProtocol |-> 255, iInterface |-> 0,
   endpoint |-> endpoints, extra |-> Null, extralen |-> 0]

MCConfig(settings) ==
  [bLength |-> 9, bDescriptorType |-> 2, wTotalLength |-> 32,
   bNumInterfaces |-> 1, bConfigurationValue |-> 1, iConfiguration |-> 0,
   bmAttributes |-> 192, MaxPower |-> 50,
   interface |-> <<[altsetting |-> settings, num_altsetting |-> 1]>>,
   extra |-> Null, extralen |-> 0]

MCDevice(configs_) ==
  [filename |-> "001",
   descriptor |->
     [bLength |-> 18, bDescriptorType |-> 1, bcdUSB |-> 512,
      bDeviceClass |-> 0, bDeviceSubClass |-> 0, bDeviceProtocol |-> 0,
      bMaxPacketSize0 |-> 64, idVendor |-> 21317, idProduct |-> 40960,
      bcdDevice |-> 256, iManufacturer |-> 1, iProduct |-> 2,
      iSerialNumber |-> 3, bNumConfigurations |-> 1],
   config |-> configs_, devnum |-> 4, num_children |-> 0]

MCEndpoints == <<MCEndpoint(129, <<255, 0>>), MCEndpoint(3, Null)>>

\* All there, without configurations, and without endpoints.
MCShapes == <<MCDevice(<<MCConfig(<<MCSetting(MCEndpoints)>>)>>),
             MCDevice(Null),
             MCDevice(<<MCConfig(<<MCSetting(Null)>>)>>)>>

\* The second bus has none.
MCLocations == <<3, 0>>

\* Nothing tells the devices apart but what happens to them.
Symmetry == Permutations(Devices)

\* The signatures of LibusbJava.h and of usb.h: nothing but literals, so that
\* TLC evaluates it once.
ASSUME SignaturesAgree == ApiAgrees

UsbInit == Init /\ TransferInit /\ part \in {"wrapper", "transfer"}
UsbNext == \/ part = "wrapper" /\ Next /\ UNCHANGED <<part, transferVars>>
           \/ part = "transfer" /\ TransferNext /\ UNCHANGED <<part, vars>>
UsbSpec == UsbInit /\ [][UsbNext]_<<part, vars, transferVars>>

\* Types of both.
UsbTypeOK == TypeOK /\ TransferTypeOK
=============================================================================
