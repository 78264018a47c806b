------------------------- MODULE WinUsbSetupProofs -------------------------
(***************************************************************************)
(* Proofs about the USB source, for any number of handshake reads, and     *)
(* that the driver setup implements it: what is proved of the one holds    *)
(* while Windows refuses the device, the user is asked and a helper takes  *)
(* the device down and up again.                                           *)
(***************************************************************************)
EXTENDS WinUsbSetup, TLAPS

-----------------------------------------------------------------------------
(* The inductive invariant.                                                *)

\* The thread holds a device between opening and closing it, and publishes it in
\* between.
DeviceBelongsToThread ==
  /\ thread \notin Holding => handle = "none"
  /\ thread \notin Holding \ {"publish", "release"} => ~published

\* Whoever has begun to stop the source has set the stop event, so no device is
\* opened after the one that a caller took to close it.
StopIsFinal ==
  \A c \in Callers :
    /\ caller[c] # "before" => stopEvent
    /\ caller[c] = "closing" => ~published /\ thread \notin {"open", "wait", "publish"}

\* Where a device can be found that is to be closed.
DeviceIsFound ==
  /\ handle = "open" => \/ thread \in {"publish", "release"}
                        \/ published
                        \/ \E c \in Callers : caller[c] = "closing"
  /\ published => handle \in {"open", "gone"}
  /\ thread = "publish" => handle \in {"open", "gone"}

\* The thread that has handed on a packet too late opens nothing more.
LateIsLast ==
  /\ late <= 1
  /\ late > 0 => /\ caller["worker"] = "left"
                 /\ thread \in {"read", "close", "release", "loop", "ended"}

IInv == TypeOK /\ DeviceBelongsToThread /\ StopIsFinal /\ DeviceIsFound /\ LateIsLast

-----------------------------------------------------------------------------
LEMMA InitIInv == Init => IInv
<1> SUFFICES ASSUME Init PROVE IInv
  OBVIOUS
<1>1. 0 \in 0..Attempts - 1
  BY AttemptsAssumption
<1>2. caller \in [Callers -> {"before", "set", "closing", "done", "left"}]
  BY DEF Init
<1>3. TypeOK
  <2>1. attempt \in 0..Attempts - 1 /\ late \in 0..2
    BY <1>1 DEF Init
  <2>2. /\ thread \in Threads /\ handle = "none" /\ ~published /\ published \in BOOLEAN
        /\ stopEvent \in BOOLEAN /\ out = "nothing"
        /\ psp \in {"absent", "idle", "probed", "greeting", "linked"}
    BY DEF Init, Threads, Holding
  <2> QED BY <1>2, <2>1, <2>2 DEF TypeOK
<1> QED BY <1>3
        DEF Init, IInv, Callers, Holding, DeviceBelongsToThread, StopIsFinal, DeviceIsFound, LateIsLast

\* The steps of the thread.
LEMMA ThreadStep == ASSUME IInv, ThreadSteps PROVE IInv'
<1> USE AttemptsAssumption DEF IInv, TypeOK, Threads, Holding, Callers, DeviceBelongsToThread, StopIsFinal,
        DeviceIsFound, LateIsLast
<1>1. CASE LoopTurn
  BY <1>1 DEF LoopTurn
<1>2. CASE OpenFails
  BY <1>2 DEF OpenFails
<1>3. CASE WaitEnds
  BY <1>3 DEF WaitEnds
<1>4. CASE OpenSucceeds
  BY <1>4 DEF OpenSucceeds
<1>5. CASE Publish
  BY <1>5 DEF Publish
<1>6. CASE Peek
  BY <1>6 DEF Peek
<1>7. CASE Probe
  BY <1>7 DEF Probe
<1>8. CASE ReadHello
  BY <1>8 DEF ReadHello
<1>9. CASE Reply
  BY <1>9 DEF Reply
<1>10. CASE HandOnFirst
  BY <1>10 DEF HandOnFirst, HandOn
<1>11. CASE ReadTurn
  BY <1>11 DEF ReadTurn
<1>12. CASE ReadFrame
  BY <1>12 DEF ReadFrame
<1>13. CASE HandOnFrame
  BY <1>13 DEF HandOnFrame, HandOn
<1>14. CASE TransferFails
  BY <1>14 DEF TransferFails
<1>15. CASE Close
  BY <1>15 DEF Close
<1>16. CASE Release
  BY <1>16 DEF Release
<1> QED BY <1>1, <1>2, <1>3, <1>4, <1>5, <1>6, <1>7, <1>8, <1>9, <1>10, <1>11, <1>12,
           <1>13, <1>14, <1>15, <1>16
        DEF ThreadSteps

\* The steps of the two stoppers.
LEMMA CallerStep ==
  ASSUME IInv,
         (\E c \in Callers : RequestStop(c) \/ TakeDevice(c) \/ CloseDevice(c)) \/ WorkerLeaves
  PROVE  IInv'
<1> USE DEF IInv, TypeOK, Threads, Holding, Callers, DeviceBelongsToThread, StopIsFinal,
        DeviceIsFound, LateIsLast, source
<1>1. ASSUME NEW c \in Callers, RequestStop(c) PROVE IInv'
  BY <1>1 DEF RequestStop
<1>2. ASSUME NEW c \in Callers, TakeDevice(c) PROVE IInv'
  <2>1. TypeOK' BY <1>2 DEF TakeDevice
  <2>2. DeviceBelongsToThread' BY <1>2 DEF TakeDevice
  <2>3. StopIsFinal' BY <1>2 DEF TakeDevice
  <2>4. DeviceIsFound' BY <1>2 DEF TakeDevice
  <2>5. LateIsLast' BY <1>2 DEF TakeDevice
  <2> QED BY <2>1, <2>2, <2>3, <2>4, <2>5
<1>3. ASSUME NEW c \in Callers, CloseDevice(c) PROVE IInv'
  BY <1>3 DEF CloseDevice
<1>4. CASE WorkerLeaves
  BY <1>4 DEF WorkerLeaves
<1> QED BY <1>1, <1>2, <1>3, <1>4

\* The PSP and its cable.
LEMMA PspStep == ASSUME IInv, Plug \/ Unplug \/ Greet \/ SendFrame PROVE IInv'
<1> USE DEF IInv, TypeOK, Threads, Holding, Callers, DeviceBelongsToThread, StopIsFinal,
        DeviceIsFound, LateIsLast, source
<1>1. CASE Plug
  BY <1>1 DEF Plug
<1>2. CASE Unplug
  BY <1>2 DEF Unplug
<1>3. CASE Greet
  BY <1>3 DEF Greet
<1>4. CASE SendFrame
  BY <1>4 DEF SendFrame
<1> QED BY <1>1, <1>2, <1>3, <1>4

LEMMA NextIInv == IInv /\ [Next]_vars => IInv'
<1> SUFFICES ASSUME IInv, [Next]_vars PROVE IInv'
  OBVIOUS
<1>1. CASE UNCHANGED vars
  BY <1>1 DEF vars, source, IInv, TypeOK, DeviceBelongsToThread, StopIsFinal, DeviceIsFound,
              LateIsLast
<1> QED BY <1>1, ThreadStep, CallerStep, PspStep DEF Next

LEMMA SpecIInv == Spec => []IInv
BY InitIInv, NextIInv, PTL DEF Spec

-----------------------------------------------------------------------------
(* The results.                                                            *)

\* The types of the source's variables.
THEOREM TypeCorrect == Spec => []TypeOK
<1>1. IInv => TypeOK
  BY DEF IInv
<1> QED BY <1>1, SpecIInv, PTL

\* usb_transport.py:257-314: wherever the stops fall, also between the opening of a
\* device and its publication, the thread is on its way to close what it opened, and
\* a stop that comes while the device is used finds it.
THEOREM NoDeviceIsOrphanedHolds == Spec => []NoDeviceIsOrphaned
<1>1. IInv => NoDeviceIsOrphaned
  BY DEF IInv, DeviceBelongsToThread, DeviceIsFound, NoDeviceIsOrphaned
<1> QED BY <1>1, SpecIInv, PTL

\* receiver.py:420-423: a thread that outlives its receiver hands on at most
\* one packet, the frame that the handshake kept or the one it was reading.
THEOREM AtMostOneLatePacketHolds == Spec => []AtMostOneLatePacket
<1>1. IInv => AtMostOneLatePacket
  BY DEF IInv, LateIsLast, AtMostOneLatePacket
<1> QED BY <1>1, SpecIInv, PTL

-----------------------------------------------------------------------------
(* The driver setup.                                                       *)

LEMMA InitImplements == SetupInit => Init
BY DEF SetupInit

LEMMA NextImplements == [SetupNext]_all => [Next]_vars
<1> SUFFICES ASSUME [SetupNext]_all PROVE [Next]_vars
  OBVIOUS
<1>1. CASE OtherThreadSteps
  BY <1>1 DEF OtherThreadSteps, Next, ThreadSteps
<1>2. CASE OpenRefused \/ OpenWorks \/ \E consent \in BOOLEAN : Answered(consent)
  BY <1>2 DEF OpenRefused, OpenWorks, Answered, Next, ThreadSteps
<1>3. CASE AskForRepair
  BY <1>3 DEF AskForRepair
<1>4. CASE ListInstances \/ Visit \/ Configure \/ RepairFails \/ HelperEnds
  BY <1>4 DEF ListInstances, Visit, Configure, RepairFails, HelperEnds
<1>5. CASE Restart \/ Return
  BY <1>5 DEF Restart, Return, Next
<1>6. CASE PlugIn \/ PullOut
  BY <1>6 DEF PlugIn, PullOut, Next
<1>7. CASE Elsewhere
  BY <1>7 DEF Elsewhere, Next
<1>8. CASE UNCHANGED all
  BY <1>8 DEF all
<1>9. QED
  BY <1>1, <1>2, <1>3, <1>4, <1>5, <1>6, <1>7, <1>8
     DEF SetupNext, SetupThread, HelperSteps

\* Opening, refusing, asking, repairing, plugging in and pulling out are steps of
\* UsbSource or change nothing of it (usb_transport.py:265-314).
THEOREM SetupImplementsUsbSource == SetupSpec => Spec
BY InitImplements, NextImplements, PTL DEF SetupSpec, Spec

\* So a device stays with the thread that closes it, and is where a stop finds it
\* while it is used, also one that the helper restarted under the thread's hands.
THEOREM SetupOrphansNoDevice == SetupSpec => []NoDeviceIsOrphaned
BY SetupImplementsUsbSource, NoDeviceIsOrphanedHolds, PTL

\* And a stopped receiver is handed one packet at most, whatever keeps the thread
\* in open: Windows, the user who has not answered, or the PSP.
THEOREM SetupHandsOnOneLatePacket == SetupSpec => []AtMostOneLatePacket
BY SetupImplementsUsbSource, AtMostOneLatePacketHolds, PTL
=============================================================================
