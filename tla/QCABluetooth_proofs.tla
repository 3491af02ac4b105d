------------------------ MODULE QCABluetooth_proofs ------------------------
(***************************************************************************)
(* Proofs about QCABluetooth, for every set of interfaces, every length of *)
(* the two images and of their header, and every packet size.              *)
(*                                                                         *)
(* No property is inductive.  UploadsExclusively needs to know that only   *)
(* the interface looked at is open, and that no pipe to send to is kept of *)
(* one that was rejected.  MarkedMeansLoaded needs to know what has been   *)
(* sent at each step of the upload, and that nothing is marked before its  *)
(* end.  FailedStartLeavesNothing needs what is open on the way there.     *)
(***************************************************************************)
EXTENDS QCABluetooth, TLAPS

Before    == {"down", "device", "config", "configure", "status", "scan", "teardown", "failed"}
Uploading == {"header", "blocks", "io", "mark", "probe", "reset", "release"}
Looking   == {"pipes", "loader"} \cup Uploading

(* What is open, and whose pipe is kept, as start goes on.                 *)
OpenInv ==
  /\ \A i \in Ifaces : opener[i] = "bt" => i = iface /\ b \notin Before
  /\ b \in Looking => devOpen /\ iface \in Ifaces /\ (plugged => opener[iface] = "bt")
  /\ b \in {"config", "configure", "status", "scan"} => devOpen
  /\ b \in {"down", "device"} => ~devOpen
  /\ b = "down" => ~gate /\ \A k \in Kinds : pipe[k] = None
  /\ b \in (Before \ {"teardown", "failed"}) \cup {"pipes"} => pipe["bulkOut"] = None
  /\ b = "loader" => pipe["bulkOut"] \in {None, iface}
  /\ b \in Uploading => pipe["bulkOut"] = iface

(* What the device has received, and that it is marked only afterwards.    *)
SentInv ==
  /\ b \in Before \cup {"pipes", "loader"} => image = 1
  /\ b \in Before \cup {"pipes", "loader", "header", "blocks", "io", "mark"} => marked = {}
  /\ b \in {"header", "blocks", "io"} /\ image = 2 => got[1] = Length(1)
  /\ b \in {"mark", "probe", "reset"} => \A n \in Images : got[n] = Length(n)

IInv == /\ TypeOK /\ OpenInv /\ SentInv /\ MarkedMeansLoaded
        /\ FailedStartLeavesNothing

-----------------------------------------------------------------------------
LEMMA Lengths == \A n \in Images : Length(n) \in Nat
BY SizeAssumption DEF Images, Length

(* A block never goes beyond the end of its image.                         *)
LEMMA SentBytes ==
  ASSUME TypeOK, NEW length \in Nat, NEW sent \in Nat, sent <= length
  PROVE  /\ sent + ToSend(length - sent) \in Nat
         /\ sent + ToSend(length - sent) <= length
<1>1. Chunk \in Nat
  BY PacketAssumption DEF TypeOK, Chunk
<1> QED BY <1>1 DEF ToSend

(* The invariant holds at first and is kept by every step.                 *)
LEMMA InitInv == Init => IInv
<1> SUFFICES ASSUME Init PROVE IInv
  OBVIOUS
<1> USE DEF Init, Before, Uploading, Looking, Kinds, Images
<1>1. TypeOK
  <2>1. got \in [Images -> Nat] /\ \A n \in Images : got[n] <= Length(n)
    BY Lengths
  <2> QED BY <2>1 DEF TypeOK
<1>2. OpenInv
  BY DEF OpenInv
<1>3. SentInv /\ MarkedMeansLoaded /\ FailedStartLeavesNothing
  BY DEF SentInv, MarkedMeansLoaded, FailedStartLeavesNothing
<1> QED BY <1>1, <1>2, <1>3 DEF IInv

LEMMA StepInv == IInv /\ [Next]_vars => IInv'
<1> SUFFICES ASSUME IInv, [Next]_vars PROVE IInv'
  OBVIOUS
<1> USE ProviderAssumption, PacketAssumption, SizeAssumption, Lengths
    DEF IInv, TypeOK, OpenInv, SentInv, MarkedMeansLoaded, FailedStartLeavesNothing,
        Before, Uploading, Looking, Kinds, Images, Drivers, Goes, usbVars, btVars, trVars
<1>1. CASE \E i \in Ifaces : Publish(i)
  BY <1>1 DEF Publish
<1>2. CASE Unplug
  <2>1. /\ plugged' = FALSE /\ published' = {} /\ marked' = {}
        /\ opener' = [i \in Ifaces |-> "nobody"]
        /\ tr' = [x \in Drivers |-> IF x = Device THEN tr[x] ELSE "off"]
        /\ UNCHANGED <<configured, got, b, gate, devOpen, todo, iface, pipe, packet, image,
                       target>>
    BY <1>2 DEF Unplug, WithdrawAll
  <2>2. TypeOK'
    BY <2>1
  <2>3. OpenInv'
    BY <2>1
  <2>4. SentInv' /\ MarkedMeansLoaded' /\ FailedStartLeavesNothing'
    BY <2>1
  <2> QED BY <2>2, <2>3, <2>4
<1>3. CASE StartGate
  <2>1. TypeOK' /\ SentInv' /\ MarkedMeansLoaded'
    BY <1>3 DEF StartGate
  <2>2. OpenInv'
    BY <1>3 DEF StartGate
  <2>3. FailedStartLeavesNothing'
    BY <1>3 DEF StartGate
  <2> QED BY <2>1, <2>2, <2>3
<1>4. CASE OpenDevice
  BY <1>4 DEF OpenDevice
<1>5. CASE ResetConfiguration
  BY <1>5 DEF ResetConfiguration, WithdrawAll
<1>6. CASE NoDescriptor
  BY <1>6 DEF NoDescriptor
<1>7. CASE SetConfiguration
  BY <1>7 DEF SetConfiguration
<1>8. CASE GetStatus
  BY <1>8 DEF GetStatus
<1>9. CASE \E i \in Ifaces : OpenInterface(i)
  BY <1>9 DEF OpenInterface
<1>10. CASE RejectInterface
  BY <1>10 DEF RejectInterface
<1>11. CASE AcceptInterface
  BY <1>11 DEF AcceptInterface
<1>12. CASE ScanEnds
  BY <1>12 DEF ScanEnds
<1>13. CASE LoaderInit
  BY <1>13 DEF LoaderInit
<1>14. CASE SendHeader
  BY <1>14 DEF SendHeader
<1>15. CASE BlockSent
  <2> DEFINE after == got[image] + ToSend(Length(image) - got[image])
  <2>1. image \in Images /\ got[image] \in Nat /\ Length(image) \in Nat
        /\ got[image] <= Length(image)
    OBVIOUS
  <2>2. after \in Nat /\ after <= Length(image)
    BY <2>1, SentBytes
  <2> HIDE DEF after
  <2>3. /\ b = "io" /\ got' = [got EXCEPT ![image] = after]
        /\ IF after < Length(image) THEN b' = "blocks" /\ UNCHANGED image
           ELSE IF image = 1         THEN b' = "header" /\ image' = 2
           ELSE                           b' = "mark" /\ UNCHANGED image
        /\ UNCHANGED <<plugged, configured, published, marked, opener, gate, devOpen, todo,
                       iface, pipe, packet, tr, target>>
    BY <1>15 DEF BlockSent, after
  <2>4. TypeOK'
    BY <2>1, <2>2, <2>3
  <2>5. OpenInv' /\ FailedStartLeavesNothing'
    BY <2>3
  <2>6. SentInv' /\ MarkedMeansLoaded'
    BY <2>1, <2>2, <2>3
  <2> QED BY <2>4, <2>5, <2>6
<1>16. CASE UploadFails
  BY <1>16 DEF UploadFails
<1>17. CASE MarkInterfaces
  BY <1>17 DEF MarkInterfaces
<1>18. CASE MarkTimesOut
  BY <1>18 DEF MarkTimesOut
<1>19. CASE RequestProbe
  BY <1>19 DEF RequestProbe
<1>20. CASE HciReset
  BY <1>20 DEF HciReset
<1>21. CASE ReleaseLoader
  BY <1>21 DEF ReleaseLoader
<1>22. CASE StopAfterFailure
  BY <1>22 DEF StopAfterFailure, TearDown
<1>23. CASE Stop
  BY <1>23 DEF Stop, TearDown
<1>24. CASE MatchDevice
  BY <1>24 DEF MatchDevice
<1>25. CASE FindReadyInterface
  BY <1>25 DEF FindReadyInterface
<1>26. CASE PollTimesOut
  BY <1>26 DEF PollTimesOut
<1>27. CASE \E i \in Ifaces : MatchInterface(i)
  BY <1>27 DEF MatchInterface
<1>28. CASE \E x \in Drivers : SuperStart(x)
  BY <1>28 DEF SuperStart
<1>29. CASE SubmitBlock
  BY <1>29 DEF SubmitBlock
<1>30. CASE BlockFails
  BY <1>30 DEF BlockFails
<1>31. CASE UNCHANGED vars
  BY <1>31 DEF vars
<1> QED BY <1>1, <1>2, <1>3, <1>4, <1>5, <1>6, <1>7, <1>8, <1>9, <1>10, <1>11, <1>12, <1>13,
     <1>14, <1>15, <1>16, <1>17, <1>18, <1>19, <1>20, <1>21, <1>22, <1>23, <1>24, <1>25,
     <1>26, <1>27, <1>28, <1>29, <1>30, <1>31
  DEF Next, FindInterface, Upload, Transport

(* The inductive invariant: what is open and what has been sent at each    *)
(* step of start.                                                          *)
THEOREM Invariance == Spec => []IInv
<1> QED BY InitInv, StepInv, PTL DEF Spec

(* Type correctness; no byte beyond the end of an image is ever sent.      *)
THEOREM TypeCorrect == Spec => []TypeOK
<1>1. IInv => TypeOK
  BY DEF IInv
<1> QED BY <1>1, Invariance, PTL

(* A marked interface belongs to a device that has both images.            *)
THEOREM OnlyLoadedAreMarked == Spec => []MarkedMeansLoaded
<1>1. IInv => MarkedMeansLoaded
  BY DEF IInv
<1> QED BY <1>1, Invariance, PTL

(* The upload has the device and the interface to itself.                  *)
THEOREM UploadIsExclusive == Spec => []UploadsExclusively
<1>1. IInv => UploadsExclusively
  BY DEF IInv, OpenInv, UploadsExclusively, Looking, Uploading
<1> QED BY <1>1, Invariance, PTL

(* A start that fails leaves nothing open.                                 *)
THEOREM FailuresCleanUp == Spec => []FailedStartLeavesNothing
<1>1. IInv => FailedStartLeavesNothing
  BY DEF IInv
<1> QED BY <1>1, Invariance, PTL

=============================================================================
