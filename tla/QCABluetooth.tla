----------------------------- MODULE QCABluetooth -----------------------------
(***************************************************************************)
(* The QCA Bluetooth kext: QCABluetooth, which uploads two firmware images *)
(* to the USB device through a QCAFirmwareLoader, and the QCAUSBTransport  *)
(* objects that are to take the device's interfaces over once they are     *)
(* marked QCAFirmwareLoaded.  One transport may be started on the device   *)
(* (its second personality) and one on each interface (its first).         *)
(*                                                                         *)
(* The USB stack is external: it publishes and withdraws the interfaces    *)
(* as the device is configured or unplugged, lets one client at a time     *)
(* open an interface, and may fail any request.                            *)
(*                                                                         *)
(* All of QCABluetooth::start runs on one thread; the transports' starts   *)
(* run on threads of their own, and stop comes after start has returned.   *)
(* An interface that lacks an endpoint is one whose copyPipe fails.        *)
(***************************************************************************)
EXTENDS Naturals, FiniteSets

CONSTANTS Ifaces,           \* the interfaces of the device
          Device,           \* the device itself, as a transport's provider
          None,             \* no interface
          HeaderSize,       \* FW_HDR_SIZE: 20 bytes
          MainLen, RampLen, \* lengths of the two images: 37796 and 1922 bytes
          Packets,          \* packet sizes a bulk-OUT endpoint may state
          DefaultChunk      \* used if it states none: 1024 bytes

ASSUME ProviderAssumption == Device \notin Ifaces /\ None \notin Ifaces
ASSUME SizeAssumption ==
  HeaderSize \in Nat /\ MainLen \in Nat /\ RampLen \in Nat
ASSUME PacketAssumption == Packets \subseteq Nat /\ DefaultChunk \in Nat \ {0}

Kinds    == {"intIn", "bulkIn", "bulkOut"}
Images   == {1, 2}                     \* qca_mainfw, then qca_rampatch
Length(n) == IF n = 1 THEN MainLen ELSE RampLen
Drivers  == Ifaces \cup {Device}       \* a transport is named after its provider

VARIABLES
  plugged,      \* the device is there
  configured,   \* it has a configuration, so its interfaces get published
  published,    \* the interface nodes in the registry
  marked,       \* those with QCAFirmwareLoaded
  opener,       \* who has each interface open
  got,          \* bytes of each image the device has received
  b,            \* where QCABluetooth is
  gate,         \* _workloop and _cmdGate are there
  devOpen,      \* QCABluetooth has the device open
  todo,         \* the interfaces the scan has not come to
  iface,        \* the interface being looked at, then _usbInterface
  pipe,         \* the interface each pipe belongs to
  packet,       \* _bulkOutMaxPacket
  image,        \* the image being uploaded
  tr,           \* where each transport is
  target        \* its fInterface

usbVars == <<plugged, configured, published, marked, opener, got>>
btVars  == <<gate, devOpen, todo, iface, pipe, packet, image>>
trVars  == <<tr, target>>
vars    == <<usbVars, b, btVars, trVars>>

Init ==
  /\ plugged = TRUE /\ configured \in BOOLEAN /\ published = {} /\ marked = {}
  /\ opener = [i \in Ifaces |-> "nobody"] /\ got = [n \in Images |-> 0]
  /\ b = "down" /\ gate = FALSE /\ devOpen = FALSE
  /\ todo = {} /\ iface = None /\ pipe = [k \in Kinds |-> None] /\ packet = 0
  /\ image = 1
  /\ tr = [x \in Drivers |-> "off"] /\ target = [x \in Drivers |-> None]

-----------------------------------------------------------------------------
(* The USB stack and the registry.                                         *)
Publish(i) ==
  /\ plugged /\ configured /\ i \notin published
  /\ published' = published \cup {i}
  /\ UNCHANGED <<plugged, configured, marked, opener, got, b, btVars, trVars>>

(* The interface nodes are gone, with the transports started on them.      *)
WithdrawAll ==
  /\ published' = {} /\ marked' = {}
  /\ opener' = [i \in Ifaces |-> "nobody"]
  /\ tr' = [x \in Drivers |-> IF x = Device THEN tr[x] ELSE "off"]

Unplug ==
  /\ plugged
  /\ plugged' = FALSE /\ WithdrawAll
  /\ UNCHANGED <<configured, got, b, btVars, target>>

-----------------------------------------------------------------------------
(* QCABluetooth::start.                                                    *)
Goes(from, to) == b = from /\ b' = to

StartGate ==
  /\ \/ Goes("down", "device") /\ gate' = TRUE
     \/ Goes("down", "failed") /\ UNCHANGED gate
  /\ UNCHANGED <<usbVars, devOpen, todo, iface, pipe, packet, image, trVars>>

OpenDevice ==
  /\ \/ plugged /\ Goes("device", "config") /\ devOpen' = TRUE
     \/ Goes("device", "teardown") /\ UNCHANGED devOpen
  /\ UNCHANGED <<usbVars, gate, todo, iface, pipe, packet, image, trVars>>

(* setConfiguration(0), to have the interfaces made anew ...               *)
ResetConfiguration ==
  /\ Goes("config", "configure")
  /\ configured' = FALSE /\ WithdrawAll
  /\ UNCHANGED <<plugged, got, btVars, target>>

(* ... unless the device has no configuration descriptor ...               *)
NoDescriptor ==
  /\ Goes("config", "status")
  /\ UNCHANGED <<usbVars, btVars, trVars>>

(* ... and back; whether it worked is only logged.                         *)
SetConfiguration ==
  /\ Goes("configure", "status")
  /\ configured' \in BOOLEAN
  /\ UNCHANGED <<plugged, published, marked, opener, got, btVars, trVars>>

(* getDeviceStatus; then the children are listed, those there by now.      *)
GetStatus ==
  /\ \/ plugged /\ Goes("status", "scan") /\ todo' = published /\ UNCHANGED devOpen
     \/ Goes("status", "teardown") /\ devOpen' = FALSE /\ UNCHANGED todo
  /\ UNCHANGED <<usbVars, gate, iface, pipe, packet, image, trVars>>

OpenInterface(i) ==
  /\ b = "scan" /\ i \in todo
  /\ todo' = todo \ {i}
  /\ \/ /\ i \in published /\ opener[i] = "nobody"
        /\ opener' = [opener EXCEPT ![i] = "bt"]
        /\ iface' = i /\ b' = "pipes"
     \/ UNCHANGED <<opener, iface, b>>
  /\ UNCHANGED <<plugged, configured, published, marked, got, gate, devOpen, pipe,
                 packet, image, trVars>>

RejectKeepsOpen ==                                   \* mutant of RejectInterface
  /\ Goes("pipes", "scan")
  /\ iface' = None
  /\ \E S \in SUBSET {"bulkIn"} :
       pipe' = [k \in Kinds |-> IF k \in S /\ pipe[k] = None THEN iface ELSE pipe[k]]
  /\ UNCHANGED <<usbVars, gate, devOpen, todo, packet, image, trVars>>

(* Neither an interrupt-IN nor a bulk-OUT pipe: the interface is closed    *)
(* and the next one tried.  A bulk-IN pipe of this interface is kept.      *)
RejectInterface ==
  /\ Goes("pipes", "scan")
  /\ iface' = None
  /\ opener' = [opener EXCEPT ![iface] = IF @ = "bt" THEN "nobody" ELSE @]
  /\ \E S \in SUBSET {"bulkIn"} :
       pipe' = [k \in Kinds |-> IF k \in S /\ pipe[k] = None THEN iface ELSE pipe[k]]
  /\ UNCHANGED <<plugged, configured, published, marked, got, gate, devOpen, todo,
                 packet, image, trVars>>

(* The first interface with either pipe is taken.                          *)
AcceptInterface ==
  /\ Goes("pipes", "loader")
  /\ \E S \in SUBSET Kinds :
       /\ S \cap {"intIn", "bulkOut"} # {}
       /\ pipe' = [k \in Kinds |-> IF k \in S /\ pipe[k] = None THEN iface ELSE pipe[k]]
       /\ IF "bulkOut" \in S THEN packet' \in Packets ELSE UNCHANGED packet
  /\ UNCHANGED <<usbVars, gate, devOpen, todo, iface, image, trVars>>

ScanEnds ==
  /\ Goes("scan", "teardown") /\ todo = {}
  /\ pipe' = [pipe EXCEPT !.intIn = None, !.bulkOut = None]
  /\ UNCHANGED <<usbVars, gate, devOpen, todo, iface, packet, image, trVars>>

FindInterface ==
  \/ OpenDevice \/ ResetConfiguration \/ NoDescriptor \/ SetConfiguration \/ GetStatus
  \/ (\E i \in Ifaces : OpenInterface(i)) \/ RejectInterface \/ AcceptInterface \/ ScanEnds

-----------------------------------------------------------------------------
LoaderTakesAny ==                                    \* mutant of LoaderInit
  /\ Goes("loader", "header")
  /\ UNCHANGED <<usbVars, btVars, trVars>>

(* The loader needs a bulk-OUT pipe.  Without one start goes on all the    *)
(* same, and the interface stays open.                                     *)
LoaderInit ==
  /\ \/ pipe["bulkOut"] # None /\ Goes("loader", "header")
     \/ pipe["bulkOut"] = None /\ Goes("loader", "up")
  /\ UNCHANGED <<usbVars, btVars, trVars>>

(* The header of an image goes by a control request.  The device starts    *)
(* over with this image.                                                   *)
SendHeader ==
  /\ plugged /\ Length(image) > HeaderSize
  /\ Goes("header", "blocks")
  /\ got' = [got EXCEPT ![image] = HeaderSize]
  /\ UNCHANGED <<plugged, configured, published, marked, opener, btVars, trVars>>

Chunk == IF packet > 0 THEN packet ELSE DefaultChunk

WholeChunk(left) == Chunk                            \* mutant of ToSend
ToSend(left) == IF left < Chunk THEN left ELSE Chunk

(* The rest goes by bulk writes.  A write has no completion timeout: it    *)
(* ends when the device takes the block ...                                *)
SubmitBlock ==
  /\ Goes("blocks", "io")
  /\ UNCHANGED <<usbVars, gate, devOpen, todo, iface, pipe, packet, image, trVars>>

BlockSent ==
  /\ plugged /\ b = "io"
  /\ LET offset == got[image]
         after  == offset + ToSend(Length(image) - offset)
     IN /\ got' = [got EXCEPT ![image] = after]
        /\ IF after < Length(image) THEN b' = "blocks" /\ UNCHANGED image
           ELSE IF image = 1        THEN b' = "header" /\ image' = 2
           ELSE                          b' = "mark" /\ UNCHANGED image
  /\ UNCHANGED <<plugged, configured, published, marked, opener, gate, devOpen, todo,
                 iface, pipe, packet, trVars>>

(* ... or with an error, for certain only once the device is gone.         *)
BlockFails ==
  /\ Goes("io", "release")
  /\ UNCHANGED <<usbVars, gate, devOpen, todo, iface, pipe, packet, image, trVars>>

BlockAborted == ~plugged /\ BlockFails

FailureIgnored ==                                    \* mutant of UploadFails
  /\ b \in {"header", "blocks"}
  /\ b' = IF image = 1 THEN "header" ELSE "release"
  /\ image' = 2
  /\ UNCHANGED <<usbVars, gate, devOpen, todo, iface, pipe, packet, trVars>>

(* An image too small, a header that fails, or a block for which there is  *)
(* no memory, ends the upload.                                             *)
UploadFails ==
  /\ b \in {"header", "blocks"}
  /\ b' = "release"
  /\ UNCHANGED <<usbVars, btVars, trVars>>

(* firmwareUploadComplete: polls until there are interfaces to mark ...    *)
MarkInterfaces ==
  /\ Goes("mark", "probe")
  /\ published # {} /\ marked' = published
  /\ UNCHANGED <<plugged, configured, published, opener, got, btVars, trVars>>

PollsForEver ==                                      \* mutant of MarkTimesOut
  /\ Goes("mark", "mark") /\ published = {}
  /\ UNCHANGED <<usbVars, btVars, trVars>>

(* ... for ten seconds at most ...                                         *)
MarkTimesOut ==
  /\ Goes("mark", "probe") /\ published = {}
  /\ UNCHANGED <<usbVars, btVars, trVars>>

(* ... and has the device's drivers matched again: a transport that failed *)
(* may get another try.                                                    *)
RequestProbe ==
  /\ Goes("probe", "reset")
  /\ tr' \in {tr, [x \in Drivers |-> IF tr[x] = "failed" THEN "off" ELSE tr[x]]}
  /\ UNCHANGED <<usbVars, btVars, target>>

(* sendHciReset; whether it worked makes no difference.                    *)
HciReset ==
  /\ Goes("reset", "release")
  /\ UNCHANGED <<usbVars, btVars, trVars>>

(* The loader's free closes the interface on behalf of its owner.          *)
ReleaseLoader ==
  /\ Goes("release", "up")
  /\ opener' = [opener EXCEPT ![iface] = IF @ = "bt" THEN "nobody" ELSE @]
  /\ UNCHANGED <<plugged, configured, published, marked, got, btVars, trVars>>

Upload == \/ LoaderInit \/ SendHeader \/ SubmitBlock \/ UploadFails
          \/ MarkInterfaces \/ MarkTimesOut \/ RequestProbe \/ HciReset \/ ReleaseLoader

(* stop, which start calls too when it found no interface.                 *)
TearDown(to) ==
  /\ b' = to
  /\ gate' = FALSE /\ devOpen' = FALSE /\ pipe' = [k \in Kinds |-> None]
  /\ UNCHANGED <<usbVars, todo, iface, packet, image, trVars>>

StopAfterFailure == b = "teardown" /\ TearDown("failed")
Stop             == b = "up" /\ TearDown("stopped")

-----------------------------------------------------------------------------
(* QCAUSBTransport::start on an interface, which it does not look into ... *)
MatchInterface(i) ==
  /\ i \in published /\ tr[i] = "off"
  /\ tr' = [tr EXCEPT ![i] = "open"] /\ target' = [target EXCEPT ![i] = i]
  /\ UNCHANGED <<usbVars, b, btVars>>

(* ... and on the device, where it polls for a marked interface ...        *)
MatchDevice ==
  /\ plugged /\ tr[Device] = "off"
  /\ tr' = [tr EXCEPT ![Device] = "poll"]
  /\ UNCHANGED <<usbVars, b, btVars, target>>

FindReadyInterface ==
  /\ tr[Device] = "poll"
  /\ \E i \in marked : target' = [target EXCEPT ![Device] = i]
  /\ tr' = [tr EXCEPT ![Device] = "open"]
  /\ UNCHANGED <<usbVars, b, btVars>>

(* ... and after ten seconds makes do with any.                            *)
PollTimesOut ==
  /\ tr[Device] = "poll"
  /\ \/ /\ \E i \in published : target' = [target EXCEPT ![Device] = i]
        /\ tr' = [tr EXCEPT ![Device] = "open"]
     \/ /\ published = {} /\ UNCHANGED target
        /\ tr' = [tr EXCEPT ![Device] = "failed"]
  /\ UNCHANGED <<usbVars, b, btVars>>

(* super::start opens the interface; if it cannot, start returns false.    *)
SuperStart(x) ==
  /\ tr[x] = "open"
  /\ \/ /\ target[x] \in published /\ opener[target[x]] = "nobody"
        /\ opener' = [opener EXCEPT ![target[x]] = "transport"]
        /\ tr' = [tr EXCEPT ![x] = "up"]
     \/ tr' = [tr EXCEPT ![x] = "failed"] /\ UNCHANGED opener
  /\ UNCHANGED <<plugged, configured, published, marked, got, b, btVars, target>>

Transport == \/ MatchDevice \/ FindReadyInterface \/ PollTimesOut
             \/ (\E i \in Ifaces : MatchInterface(i)) \/ (\E x \in Drivers : SuperStart(x))

-----------------------------------------------------------------------------
Next ==
  \/ (\E i \in Ifaces : Publish(i)) \/ Unplug
  \/ StartGate \/ FindInterface \/ Upload \/ BlockSent \/ BlockFails
  \/ StopAfterFailure \/ Stop
  \/ Transport

(* The thread that runs start runs on.  The control requests it waits for  *)
(* time out; a block that the device neither takes nor refuses comes back  *)
(* only when the device is unplugged.  Nothing has to be published.        *)
Fairness == /\ WF_vars(FindInterface) /\ WF_vars(Upload) /\ WF_vars(BlockAborted)
            /\ WF_vars(StopAfterFailure)

Spec == Init /\ [][Next]_vars /\ Fairness

-----------------------------------------------------------------------------
(* Every variable keeps to its type, and the upload never sends more bytes *)
(* of an image than it has (uploadFirmwareFile_ControlThenBulk).           *)
TypeOK ==
  /\ plugged \in BOOLEAN /\ configured \in BOOLEAN
  /\ published \subseteq Ifaces /\ marked \subseteq published
  /\ opener \in [Ifaces -> {"nobody", "bt", "transport"}]
  /\ got \in [Images -> Nat] /\ \A n \in Images : got[n] <= Length(n)
  /\ b \in {"down", "device", "config", "configure", "status", "scan", "pipes", "teardown",
            "loader", "header", "blocks", "io", "mark", "probe", "reset", "release", "up",
            "failed", "stopped"}
  /\ gate \in BOOLEAN /\ devOpen \in BOOLEAN
  /\ todo \subseteq Ifaces /\ iface \in Ifaces \cup {None}
  /\ pipe \in [Kinds -> Ifaces \cup {None}] /\ packet \in Packets \cup {0}
  /\ image \in Images
  /\ tr \in [Drivers -> {"off", "poll", "open", "up", "failed"}]
  /\ target \in [Drivers -> Ifaces \cup {None}]

(* An interface is marked QCAFirmwareLoaded only when the device has       *)
(* received every byte of both images (uploadFirmware,                     *)
(* firmwareUploadComplete).                                                *)
MarkedMeansLoaded ==
  marked # {} => \A n \in Images : got[n] = Length(n)

(* From the loader's first request to its last QCABluetooth has the device *)
(* and the interface to itself, and writes to a pipe of that interface: no *)
(* transport gets in between, and no bulk-OUT pipe of a rejected interface *)
(* is left over (findAndOpenInterface, uploadFirmware).                    *)
UploadsExclusively ==
  plugged /\ b \in {"header", "blocks", "io", "mark", "probe", "reset", "release"} =>
    devOpen /\ opener[iface] = "bt" /\ pipe["bulkOut"] = iface

(* A start that fails, wherever it does, leaves no interface and no device *)
(* open, no pipe and no work loop (start, findAndOpenInterface, stop).     *)
FailedStartLeavesNothing ==
  b = "failed" =>
    /\ ~devOpen /\ ~gate /\ \A k \in Kinds : pipe[k] = None
    /\ \A i \in Ifaces : opener[i] # "bt"

(* start returns, though an interface to mark may never appear and the     *)
(* device may be unplugged at any moment, unless a device that stays       *)
(* plugged in keeps a block waiting for ever: QCAFirmwareLoader gives the  *)
(* bulk write no timeout (start, firmwareUploadComplete).                  *)
DeviceAnswers == []<>~(plugged /\ b = "io")
StartReturns ==
  DeviceAnswers => (b \notin {"down", "up"} ~> b \in {"up", "failed", "stopped"})

=============================================================================
