----------------------------- MODULE UsbWrapper -----------------------------
(***************************************************************************)
(* LibusbJava.c, the native side of the Java USB interface, on libusb 0.1. *)
(* libusb keeps a list of buses, each with a list of device structures;    *)
(* usb_get_busses copies it into a tree of Java objects, and usb_open      *)
(* finds a structure again by the address the copy remembers.              *)
(*                                                                         *)
(* The program on top is outside the repository: it makes any legal calls, *)
(* one at a time, while devices come and go.  UsbDescriptors has what the  *)
(* objects hold.  Making one can fail, and libusb may have left out an     *)
(* array although its count is above zero.                                 *)
(***************************************************************************)
EXTENDS UsbDescriptors, SequencesExt

CONSTANTS Devices,   \* devices as enumerated: each is plugged in once
          Addrs,     \* addresses malloc may give a device structure
          Shapes,    \* sequence of what libusb may know of a device
          NBuses,    \* number of buses
          Locations, \* Locations[b]: what libusb has as the location of bus b
          HandleAddrs, \* addresses of libusb's handles, as many as may be open at once
          Free       \* not a structure

VARIABLES
  plugged,      \* plugged[d]: "never", "in" or "out"
  port,         \* port[d]: the bus d is plugged into
  list,         \* libusb's buses, each the addresses of its structures
  struct,       \* struct[a]: the device structure at a, or Free
  configs,      \* configs[d]: set-configuration messages sent to d
  handles,      \* handles that are open, as libusb and as Java knows them
  busses,       \* busses is not NULL
  err,          \* libusbJavaError
  configDone,
  pc,           \* "java", or in usb_get_busses: "bus", "dev"
  bi, di,       \* the bus and the device it is at
  chain,        \* device objects of this bus, not linked to it yet
  tree,         \* the tree being built or just returned
  copies,       \* the Usb_Device objects the program holds
  last          \* the last call and what it returned

libVars == <<plugged, port, list, struct, configs, handles>>
treeVars == <<bi, di, chain>>
vars == <<libVars, busses, err, configDone, pc, treeVars, tree, copies, last>>

\* A structure: whose, and what is in it, by its place in Shapes.
Struct == [dev : Devices, shape : 1..Len(Shapes)]
Copy == [addr : {ToJlong(a) : a \in Addrs}, dev : Devices]
\* ptr is libusb's, j what Java was given; addr and dev are of the structure
\* it was opened with, want the device of the copy.
Handle == [ptr : HandleAddrs, j : Int, addr : Addrs, dev : Devices,
           want : Devices]

ASSUME NBusesAssumption == NBuses \in Nat \ {0}
\* 32 bits without a sign: a jlong holds any of them.
ASSUME LocationsAssumption == Locations \in [1..NBuses -> Nat]
\* Room for every device at once.
ASSUME AddrsAssumption == \E f \in [Devices -> Addrs] : IsInjective(f)
ASSUME PointersAssumption == Addrs \subseteq pointer \ {0}
ASSUME ShapesAssumption == 
  \A s \in 1..Len(Shapes) : Shapes[s] \in usb_device /\ Sound(Shapes[s])
ASSUME FreeAssumption == Free \notin Struct
ASSUME HandleAddrsAssumption == HandleAddrs \subseteq pointer \ {0}

\* The object made for the next bus before that is visited.
Blank == [dirname |-> 0, location |-> 0, devices |-> <<>>, root_dev |-> <<>>]

Listed(a) == \E b \in 1..Len(list) : \E i \in 1..Len(list[b]) : list[b][i] = a

-----------------------------------------------------------------------------
(* libusb and the system.                                                  *)

Plug(d) == /\ plugged[d] = "never"
           /\ plugged' = [plugged EXCEPT ![d] = "in"]
           /\ UNCHANGED <<port, list, struct, configs, handles>>
Unplug(d) == /\ plugged[d] = "in"
             /\ plugged' = [plugged EXCEPT ![d] = "out"]
             /\ UNCHANGED <<port, list, struct, configs, handles>>

Environment == /\ \E d \in Devices : Plug(d) \/ Unplug(d)
               /\ UNCHANGED <<busses, err, configDone, pc, treeVars,
                              tree, copies, last>>

\* A call made from Java ends: its value, and the wrapper's error text, which
\* every call clears first.  A call whose value no property asks for is
\* "other", with "any" value.
Return(call, value, error) ==
  /\ pc = "java"
  /\ err' = error
  /\ last' = [call |-> call, value |-> value]
  /\ tree' = <<>>
  /\ UNCHANGED <<plugged, port, pc, treeVars, copies>>

\* usb_set_debug and usb_init only change libusb's own settings.
usb_set_debug == /\ Return("other", "any", "none")
                 /\ UNCHANGED <<list, struct, configs, handles, busses, configDone>>
usb_init == /\ Return("other", "any", "none")
            /\ UNCHANGED <<list, struct, configs, handles, busses, configDone>>

FindBusses ==
  /\ Return("other", "any", "none")
  /\ list' = IF list = <<>> THEN [b \in 1..NBuses |-> <<>>] ELSE list
  /\ UNCHANGED <<struct, configs, handles, busses, configDone>>

\* Structures of devices that left are freed, and new devices get structures;
\* their addresses may have been freed by an earlier call.  Of each bus libusb
\* lists the structures there are, in an order of its own.
FindDevices ==
  /\ Return("other", "any", "none")
  /\ list # <<>>
  /\ LET new == {d \in Devices : plugged[d] = "in"
                   /\ \A a \in Addrs : struct[a] # Free => struct[a].dev # d}
     IN \E f \in [new -> {a \in Addrs : struct[a] = Free}],
           shape \in [new -> 1..Len(Shapes)] :
          /\ IsInjective(f)
          /\ struct' = [a \in Addrs |->
               IF \E d \in new : f[d] = a
               THEN LET d == CHOOSE e \in new : f[e] = a
                    IN [dev |-> d, shape |-> shape[d]]
               ELSE IF struct[a] # Free /\ plugged[struct[a].dev] = "out"
               THEN Free ELSE struct[a]]
  /\ list' \in [1..NBuses -> SetToAllKPermutations(Addrs)]
  /\ \A b \in 1..NBuses : ToSet(list'[b]) =
       {a \in Addrs : struct'[a] # Free /\ port[struct'[a].dev] = b}
  /\ UNCHANGED <<configs, handles, busses, configDone>>

-----------------------------------------------------------------------------
(* usb_get_busses.                                                         *)

InTree == UNCHANGED <<libVars, busses, configDone>>

\* The call returns: a tree, of which the program keeps the devices it can
\* reach, null, or with an exception.
TreeReturns(value, error, t) ==
  /\ pc' = "java"
  /\ err' = error
  /\ tree' = t
  /\ last' = [call |-> "busses", value |-> value]
  /\ copies' = copies \cup
       UNION {{[addr |-> c.object.devStructAddr, dev |-> c.dev] :
                 c \in ToSet(t[b].devices)} : b \in 1..Len(t)}

\* The call loads its class references, gets libusb's list and starts on it.
GetBusses ==
  /\ pc = "java" /\ list # <<>>
  /\ busses' = TRUE
  /\ pc' = "bus" /\ bi' = 1 /\ tree' = <<Blank>> /\ err' = "none"
  /\ last' = [call |-> "busses", value |-> "running"]
  /\ UNCHANGED <<libVars, configDone, di, chain, copies>>

\* Without buses: null, and no error.
NoBusses ==
  /\ list = <<>> /\ busses' = FALSE
  /\ Return("busses", "null", "none")
  /\ UNCHANGED <<list, struct, configs, handles, configDone>>

\* A class or its constructor is not found: an exception, before libusb is
\* asked.
LoadFails ==
  /\ Return("busses", "thrown", "none")
  /\ UNCHANGED <<list, struct, configs, handles, busses, configDone>>

\* Mutant: main_usb_devObj is not reset for the next bus.
VisitBusKeepsChain ==
  /\ pc = "bus"
  /\ tree' = [tree EXCEPT ![bi] =
                [@ EXCEPT !.dirname = bi, !.location = Locations[bi]]]
               \o (IF bi < Len(list) THEN <<Blank>> ELSE <<>>)
  /\ pc' = "dev" /\ di' = 1
  /\ UNCHANGED <<err, bi, chain, copies, last>> /\ InTree

\* The fields of this bus, and an object for the next one.
VisitBus ==
  /\ pc = "bus"
  /\ tree' = [tree EXCEPT ![bi] =
                [@ EXCEPT !.dirname = bi, !.location = Locations[bi]]]
               \o (IF bi < Len(list) THEN <<Blank>> ELSE <<>>)
  /\ pc' = "dev" /\ di' = 1 /\ chain' = <<>>
  /\ UNCHANGED <<err, bi, copies, last>> /\ InTree

Desc(a) == Shapes[struct[a].shape]

\* The structure the device loop is at.
Visited == list[bi][di]

\* A device whose descriptors are all there joins the chain.
VisitDev ==
  /\ pc = "dev" /\ di <= Len(list[bi])
  /\ Whole(Desc(Visited))
  /\ chain' = Append(chain,
                [dev |-> struct[Visited].dev,
                 object |-> DeviceObject(Desc(Visited), Visited)])
  /\ di' = di + 1
  /\ UNCHANGED <<err, pc, bi, tree, copies, last>> /\ InTree

\* An array is missing: the tree as it is linked so far is returned, with an
\* error only if it is the one of the configurations.
VisitBroken ==
  /\ pc = "dev" /\ di <= Len(list[bi])
  /\ ~Whole(Desc(Visited))
  /\ TreeReturns("tree", IF NoConfig(Desc(Visited)) THEN "config" ELSE "none",
                 tree)
  /\ UNCHANGED treeVars /\ InTree

\* An object or an array of objects cannot be made: an exception, and an error
\* text; of the strings, which are not tested, the exception alone.  The byte
\* arrays of extra are not tested either, and NULL goes on to
\* SetByteArrayRegion: what the virtual machine makes of that is not modelled,
\* the extra bytes always find their array here.
AllocFails ==
  /\ pc \in {"bus", "dev"}
  /\ \E error \in {"alloc", "none"} : TreeReturns("thrown", error, <<>>)
  /\ UNCHANGED treeVars /\ InTree

\* Mutant: the last bus is not noticed.
LinkDevicesPast ==
  /\ pc = "dev" /\ di > Len(list[bi])
  /\ tree' = [tree EXCEPT ![bi].devices = chain, ![bi].root_dev = chain]
  /\ bi' = bi + 1 /\ pc' = "bus"
  /\ UNCHANGED <<err, copies, last, di, chain>> /\ InTree

\* All devices are done: their chain is linked to the bus, and its head is
\* root_dev as well.  libusb's root_dev is not asked for.
LinkDevices ==
  /\ pc = "dev" /\ di > Len(list[bi])
  /\ LET t == [tree EXCEPT ![bi].devices = chain, ![bi].root_dev = chain] IN
       IF bi = Len(list)
       THEN TreeReturns("tree", "none", t) /\ UNCHANGED bi
       ELSE /\ tree' = t /\ bi' = bi + 1 /\ pc' = "bus"
            /\ UNCHANGED <<err, copies, last>>
  /\ UNCHANGED <<di, chain>> /\ InTree

TreeStep == VisitBus \/ VisitDev \/ VisitBroken \/ AllocFails \/ LinkDevices

-----------------------------------------------------------------------------
(* Handles.                                                                *)

\* A call that reaches libusb with an open handle.
OnHandle(h) ==
  /\ h \in handles
  /\ UNCHANGED <<list, struct, busses>>

\* Mutant: it gives an int, as the comment above usb_open says.
OpenedInt(c, a, dev) ==
  \E p \in HandleAddrs \ {h.ptr : h \in handles} :
    handles' = handles \cup {[ptr |-> p, j |-> Narrow("jint", ToJlong(p)),
                             addr |-> a, dev |-> dev, want |-> c.dev]}

\* usb_open of libusb, and the value it has in Java.
Opened(c, a, dev) ==
  \E p \in HandleAddrs \ {h.ptr : h \in handles} :
    handles' = handles \cup {[ptr |-> p, j |-> Narrow(NativeHandle.usb_open.gives, ToJlong(p)),
                             addr |-> a, dev |-> dev, want |-> c.dev]}

\* Mutant: the address is used without looking for it.
OpenUnseen(c) ==
  /\ busses /\ c \in copies
  /\ Opened(c, ToPointer(c.addr), c.dev)
  /\ Return("open", "ok", "none")
  /\ UNCHANGED <<list, struct, configs, busses, configDone>>

\* usb_open(c): the structure at c's address, if libusb lists one there now.
Open(c) ==
  /\ busses /\ c \in copies
  /\ \/ \E a \in Addrs : /\ Listed(a) /\ ToJlong(a) = c.addr
                         /\ \/ Opened(c, a, struct[a].dev)
                               /\ Return("open", "ok", "none")
                            \/ /\ Return("open", "zero", "none")
                               /\ UNCHANGED handles
     \/ /\ \A a \in Addrs : Listed(a) => ToJlong(a) # c.addr
        /\ Return("open", "zero", "nodevice")
        /\ UNCHANGED handles
  /\ UNCHANGED <<list, struct, configs, busses, configDone>>

\* usb_open before there are buses.
OpenEarly ==
  /\ ~busses
  /\ Return("open", "zero", "busses")
  /\ UNCHANGED <<list, struct, configs, handles, busses, configDone>>

\* Mutant: the last error is left alone.
CloseUncleared(h) ==
  /\ OnHandle(h)
  /\ pc = "java" /\ last' = [call |-> "other", value |-> "any"] /\ tree' = <<>>
  /\ handles' = handles \ {h}
  /\ UNCHANGED <<plugged, port, configs, configDone, err, pc, treeVars, copies>>

CloseHandle(h) ==
  /\ OnHandle(h)
  /\ Return("other", "any", "none")
  /\ handles' = handles \ {h}
  /\ UNCHANGED <<configs, configDone>>

\* Mutant: only a success is remembered.
SetConfigurationRetried(h) ==
  /\ OnHandle(h)
  /\ ~configDone
  /\ \/ /\ plugged[h.dev] = "in"
        /\ configs' = [configs EXCEPT ![h.dev] = @ + 1]
        /\ \E v \in {"ok", "error"} :
             Return("config", v, "none") /\ configDone' = (v = "ok")
     \/ Return("config", "error", "none") /\ UNCHANGED <<configs, configDone>>
  /\ UNCHANGED handles

\* The first call: the message reaches the device or does not, and may fail
\* there.
SetConfiguration(h) ==
  /\ OnHandle(h)
  /\ ~configDone
  /\ configDone' = TRUE
  /\ \/ /\ plugged[h.dev] = "in"
        /\ configs' = [configs EXCEPT ![h.dev] = @ + 1]
        /\ \E v \in {"ok", "error"} : Return("config", v, "none")
     \/ Return("config", "error", "none") /\ UNCHANGED configs
  /\ UNCHANGED handles

\* Every later one does nothing and keeps the error text.  It has no return
\* statement: built as the build scripts do, without optimisation, it returns
\* what the test left in the register, which is configDone, 1.
SetConfigurationAgain(h) ==
  /\ OnHandle(h)
  /\ configDone
  /\ Return("config", "positive", err)
  /\ UNCHANGED <<handles, configs, configDone>>

\* A call with an open handle that is libusb's business alone.
PassOn == /\ handles # {}
          /\ Return("other", "any", "none")
          /\ UNCHANGED <<list, struct, configs, handles, busses, configDone>>

usb_set_altinterface == PassOn
usb_clear_halt == PassOn
usb_reset == PassOn
usb_claim_interface == PassOn
usb_release_interface == PassOn

\* Strings, descriptors and transfers: UsbTransfer has what they do.
Transfer == PassOn

\* usb_strerror: the wrapper's text once, else libusb's.
StrError ==
  /\ Return("strerror", IF err = "none" THEN "libusb" ELSE err, "none")
  /\ UNCHANGED <<list, struct, configs, handles, busses, configDone>>

-----------------------------------------------------------------------------
Init ==
  /\ plugged = [d \in Devices |-> "never"]
  /\ port \in [Devices -> 1..NBuses]
  /\ list = <<>> /\ struct = [a \in Addrs |-> Free]
  /\ configs = [d \in Devices |-> 0]
  /\ handles = {}
  /\ busses = FALSE /\ err = "none" /\ configDone = FALSE
  /\ pc = "java" /\ bi = 0 /\ di = 0 /\ chain = <<>> /\ tree = <<>>
  /\ copies = {} /\ last = [call |-> "none", value |-> "ok"]

HandleStep(h) ==
  \/ CloseHandle(h) \/ SetConfiguration(h) \/ SetConfigurationAgain(h)

DeviceCall == \/ usb_set_altinterface \/ usb_clear_halt \/ usb_reset
              \/ usb_claim_interface \/ usb_release_interface \/ Transfer

Next == \/ Environment
        \/ usb_set_debug \/ usb_init \/ FindBusses \/ FindDevices
        \/ GetBusses \/ NoBusses \/ LoadFails \/ TreeStep
        \/ OpenEarly \/ \E c \in copies : Open(c)
        \/ DeviceCall \/ \E h \in handles : HandleStep(h)
        \/ StrError

Spec == Init /\ [][Next]_vars

-----------------------------------------------------------------------------
(* Properties.                                                             *)

\* Types; the tree and the lists it walks are never left at their ends.
TypeOK ==
  /\ plugged \in [Devices -> {"never", "in", "out"}]
  /\ port \in [Devices -> 1..NBuses]
  /\ list \in Seq(Seq(Addrs)) /\ Len(list) \in {0, NBuses}
  /\ struct \in [Addrs -> Struct \cup {Free}]
  /\ configs \in [Devices -> Nat]
  /\ handles \subseteq Handle
  /\ busses \in BOOLEAN /\ configDone \in BOOLEAN
  /\ err \in {"none", "busses", "nodevice", "config", "alloc"}
  /\ pc \in {"java", "bus", "dev"}
  /\ bi \in 0..NBuses /\ di \in Nat
  /\ Len(tree) <= NBuses /\ copies \subseteq Copy
  /\ DOMAIN last = {"call", "value"}
  /\ last.call \in {"none", "busses", "open", "config", "strerror", "other"}

\* The objects of a bus's devices are its structures, in their order: they
\* remember the addresses and tell all that libusb knows of the devices.
ChainDenotes(objects, b) ==
  /\ Len(objects) = Len(list[b])
  /\ \A i \in 1..Len(objects) :
       LET a == list[b][i]
           object == objects[i].object
       IN /\ ToPointer(object.devStructAddr) = a
          /\ objects[i].dev = struct[a].dev
          /\ DeviceDenotes(object, Desc(a))

\* Of every bus up to the first incomplete structure, the tree usb_get_busses
\* returns has the name, the location and the devices that libusb lists, in
\* its order, with the descriptors as they are; past it there is no device.
\* Not compared are root_dev, which is the head of the list whatever libusb's
\* is, and children, which stay null.  The tree may end before the list does.
TreeFollowsList ==
  pc = "java" /\ last = [call |-> "busses", value |-> "tree"] =>
    LET WholeTo(b) == \A k \in 1..b : \A i \in 1..Len(list[k]) :
                        Whole(Desc(list[k][i]))
    IN \A b \in 1..NBuses :
         /\ WholeTo(b) => /\ b <= Len(tree)
                          /\ tree[b].dirname = b /\ tree[b].location = Locations[b]
                          /\ ChainDenotes(tree[b].devices, b)
         /\ ~WholeTo(b) => b > Len(tree) \/ tree[b].devices = <<>>

\* usb_open only ever gives libusb a structure that it lists, however old the
\* copy, and as long as the device of the copy is listed it is that one: only
\* when its structure was freed may its address belong to another device.
OpensListed ==
  [][\A h \in handles' \ handles :
       /\ Listed(h.addr)
       /\ \A a \in Addrs : struct[a] # Free /\ struct[a].dev = h.want =>
            h.dev = h.want]_vars

\* The long that Java has of an open handle leads every function back to
\* libusb's handle, in a build of any address size.
HandlesReach ==
  \A h \in handles, native \in {NativeHandle, NativeDescriptor, NativeTransfer} :
    \A f \in DOMAIN native \ {"usb_open"} :
      ToPointer(Narrow(native[f].takes[1], h.j)) = h.ptr

\* As libusb/README says, multiple configuration messages make the device
\* unresponsive: none is sent a second one, over whatever handles, also when
\* the first failed.
ConfiguredOnce == \A d \in Devices : configs[d] <= 1

\* The wrapper's error text is of the last call, so that usb_strerror asked
\* after a failure explains that failure: only a blocked
\* usb_set_configuration, which does nothing, leaves an older one.
ErrorIsFresh ==
  /\ err \in {"busses", "nodevice"} =>
       \/ last = [call |-> "open", value |-> "zero"]
       \/ last.call = "config" /\ configDone
  /\ err \in {"config", "alloc"} => last.call \in {"busses", "config"}

\* LibusbJava.java: usb_set_configuration returns "0 on success or < 0 on
\* error", the first time and later.
ConfigStatus == last.call = "config" => last.value \in {"ok", "error"}
=============================================================================
