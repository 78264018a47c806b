------------------------------- MODULE UsbSource -------------------------------
(***************************************************************************)
(* The USB side of the receiver (pc-server/pc_server/usb_transport.py,     *)
(* class UsbPacketSource, and UdpReceiver.run and request_stop).           *)
(*                                                                         *)
(* The source's thread opens the PSP's device, shakes hands with USBHostFS *)
(* and hands on what it reads; a device that fails is closed and opened    *)
(* again.  The Tk thread stops the receiver, and the worker, which runs    *)
(* it, stops the source again on its way out and waits a second for the    *)
(* thread.  Both close the device under the thread's hands.                *)
(*                                                                         *)
(* USBHostFS itself is not part of the repository; it is modelled as the   *)
(* handshake uses it, and stays linked when the PC's process goes away.    *)
(* Whether a device can be opened, and the fairness of the thread, are     *)
(* WinUsbSetup's, which extends this module.                               *)
(***************************************************************************)
EXTENDS Naturals

CONSTANT Attempts  \* USBHOSTFS_HANDSHAKE_ATTEMPTS, 10

ASSUME AttemptsAssumption == Attempts \in Nat \ {0}

VARIABLES
  thread,    \* where run, perform_usbhostfs_handshake or _read_device is
  attempt,   \* the reads the handshake has made for a HELLO
  handle,    \* the device that backend.open returned: none, open, gone from
             \* the bus, or closed
  published, \* whether _device holds it
  stopEvent, \* _stop_event
  caller,    \* how far each caller of request_stop is
  psp,       \* USBHostFS: absent, idle, probed, greeting or linked
  out,       \* what it has ready for the next read: nothing, a HELLO, a frame
  late       \* packets handed on after the worker left, counted to two

source == <<thread, attempt, handle, published>>
vars   == <<source, stopEvent, caller, psp, out, late>>

\* The thread is at the stop event, in backend.open or the wait after it; it has a
\* device, to be published, shaken hands with, read and, in the finally clause, taken
\* back and closed; or it has ended.
Holding == {"publish", "peek", "probe", "hello", "reply", "first", "read", "reading",
            "handing", "close", "release"}
Threads == {"loop", "open", "wait", "ended"} \cup Holding
Callers == {"tk", "worker"}

TypeOK ==
  /\ thread \in Threads
  /\ attempt \in 0..Attempts - 1
  /\ handle \in {"none", "open", "gone", "closed"}
  /\ published \in BOOLEAN
  /\ stopEvent \in BOOLEAN
  /\ caller \in [Callers -> {"before", "set", "closing", "done", "left"}]
  /\ psp \in {"absent", "idle", "probed", "greeting", "linked"}
  /\ out \in {"nothing", "hello", "frame"}
  /\ late \in 0..2

\* A bridge may start while the PSP is still linked to the one before it.
Init ==
  /\ thread = "loop" /\ attempt = 0 /\ handle = "none" /\ published = FALSE
  /\ stopEvent = FALSE
  /\ caller = [c \in Callers |-> "before"]
  /\ psp \in {"absent", "idle", "linked"} /\ out = "nothing"
  /\ late = 0

-----------------------------------------------------------------------------
(* The source's thread.                                                    *)

\* Fault: the loop does not look at the stop event.
LoopTurnForEver ==
  /\ thread = "loop"
  /\ thread' = "open"
  /\ UNCHANGED <<attempt, handle, published, stopEvent, caller, psp, out, late>>

LoopTurn ==
  /\ thread = "loop"
  /\ thread' = IF stopEvent THEN "ended" ELSE "open"
  /\ UNCHANGED <<attempt, handle, published, stopEvent, caller, psp, out, late>>

\* No device is found, or it cannot be opened: wait for the next try.
OpenFails ==
  /\ thread = "open"
  /\ thread' = "wait"
  /\ UNCHANGED <<attempt, handle, published, stopEvent, caller, psp, out, late>>

WaitEnds ==
  /\ thread = "wait"
  /\ thread' = "loop"
  /\ UNCHANGED <<attempt, handle, published, stopEvent, caller, psp, out, late>>

\* backend.open returns: until it is published, only the thread has the device.
OpenSucceeds ==
  /\ thread = "open" /\ psp # "absent"
  /\ handle' = "open"
  /\ thread' = "publish"
  /\ UNCHANGED <<attempt, published, stopEvent, caller, psp, out, late>>

\* Fault: a device that is opened too late is dropped, without closing it.
PublishUnlessStopped ==
  /\ thread = "publish"
  /\ published' = ~stopEvent
  /\ thread' = IF stopEvent THEN "loop" ELSE "peek"
  /\ UNCHANGED <<attempt, handle, stopEvent, caller, psp, out, late>>

\* Under the device lock, whether or not a stop came while the device was opened.
Publish ==
  /\ thread = "publish"
  /\ published' = TRUE
  /\ thread' = "peek"
  /\ UNCHANGED <<attempt, handle, stopEvent, caller, psp, out, late>>

\* Fault: a session that is already active is probed again.
PeekIgnoresSession ==
  /\ thread = "peek" /\ handle = "open"
  /\ thread' = "probe"
  /\ out' = "nothing"
  /\ UNCHANGED <<attempt, handle, published, stopEvent, caller, psp, late>>

\* The first read: a frame of a session that is already active is kept, a HELLO
\* is answered, and a silent PSP probed.
Peek ==
  /\ thread = "peek" /\ handle = "open"
  /\ thread' = CASE out = "frame" -> "first" [] out = "hello" -> "reply"
                 [] OTHER -> "probe"
  /\ out' = "nothing"
  /\ UNCHANGED <<attempt, handle, published, stopEvent, caller, psp, late>>

\* The probe is written, which a linked PSP ignores.
Probe ==
  /\ thread = "probe" /\ handle = "open"
  /\ psp' = IF psp = "linked" THEN psp ELSE "probed"
  /\ attempt' = 0
  /\ thread' = "hello"
  /\ UNCHANGED <<handle, published, stopEvent, caller, out, late>>

\* One of the reads that wait for the HELLO.  A frame is no HELLO.
ReadHello ==
  /\ thread = "hello" /\ handle = "open"
  /\ IF out = "nothing" /\ attempt + 1 < Attempts
     THEN attempt' = attempt + 1 /\ thread' = thread
     ELSE attempt' = 0 /\ thread' = IF out = "hello" THEN "reply" ELSE "close"
  /\ out' = "nothing"
  /\ UNCHANGED <<handle, published, stopEvent, caller, psp, late>>

Reply ==
  /\ thread = "reply" /\ handle = "open"
  /\ psp' = "linked"
  /\ thread' = "read"
  /\ UNCHANGED <<attempt, handle, published, stopEvent, caller, out, late>>

\* A packet is handed to the receiver.
HandOn ==
  late' = IF caller["worker"] = "left" /\ late < 2 THEN late + 1 ELSE late

\* The frame that the handshake kept, if it is of the input channel.
HandOnFirst ==
  /\ thread = "first"
  /\ thread' = "read"
  /\ HandOn \/ UNCHANGED late
  /\ UNCHANGED <<attempt, handle, published, stopEvent, caller, psp, out>>

\* Fault: the reader does not look at the stop event.
ReadTurnForEver ==
  /\ thread = "read"
  /\ thread' = "reading"
  /\ UNCHANGED <<attempt, handle, published, stopEvent, caller, psp, out, late>>

\* The condition of the read loop.
ReadTurn ==
  /\ thread = "read"
  /\ thread' = IF stopEvent THEN "close" ELSE "reading"
  /\ UNCHANGED <<attempt, handle, published, stopEvent, caller, psp, out, late>>

\* The read returns a frame, or times out after 200 ms.
ReadFrame ==
  /\ thread = "reading" /\ handle = "open"
  /\ thread' = IF out = "frame" THEN "handing" ELSE "read"
  /\ out' = "nothing"
  /\ UNCHANGED <<attempt, handle, published, stopEvent, caller, psp, late>>

\* The frame, if it is of the input channel.
HandOnFrame ==
  /\ thread = "handing"
  /\ thread' = "read"
  /\ HandOn \/ UNCHANGED late
  /\ UNCHANGED <<attempt, handle, published, stopEvent, caller, psp, out>>

\* A read or a write raises UsbDisconnectedError: always if the device is gone
\* or was closed, and sometimes otherwise.
TransferFails ==
  /\ thread \in {"peek", "probe", "hello", "reply", "reading"}
  /\ attempt' = 0
  /\ thread' = "close"
  /\ UNCHANGED <<handle, published, stopEvent, caller, psp, out, late>>

\* The finally clause of run: under the device lock the device is taken back, ...
Close ==
  /\ thread = "close"
  /\ published' = FALSE
  /\ thread' = "release"
  /\ UNCHANGED <<attempt, handle, stopEvent, caller, psp, out, late>>

\* ... and after the unlock it is closed, also if a stop closed it.
Release ==
  /\ thread = "release"
  /\ handle' = "none"
  /\ thread' = "loop"
  /\ UNCHANGED <<attempt, published, stopEvent, caller, psp, out, late>>

-----------------------------------------------------------------------------
(* Stopping: the Tk thread through the receiver's request_stop, and the    *)
(* worker on its way out of run, after a stop or a failed socket.          *)

RequestStop(c) ==
  /\ caller[c] = "before"
  /\ stopEvent' = TRUE
  /\ caller' = [caller EXCEPT ![c] = "set"]
  /\ UNCHANGED <<source, psp, out, late>>

\* Under the device lock the device is taken, and closed after the unlock.
TakeDevice(c) ==
  /\ caller[c] = "set"
  /\ published' = FALSE
  /\ caller' = [caller EXCEPT ![c] = IF published THEN "closing" ELSE "done"]
  /\ UNCHANGED <<thread, attempt, handle, stopEvent, psp, out, late>>

CloseDevice(c) ==
  /\ caller[c] = "closing"
  /\ handle' = IF handle = "none" THEN "none" ELSE "closed"
  /\ caller' = [caller EXCEPT ![c] = "done"]
  /\ UNCHANGED <<thread, attempt, published, stopEvent, psp, out, late>>

\* join(timeout=1.0) returns because the thread ended, or because it expired:
\* opening the device and the handshake may take longer.
WorkerLeaves ==
  /\ caller["worker"] = "done"
  /\ caller' = [caller EXCEPT !["worker"] = "left"]
  /\ UNCHANGED <<source, stopEvent, psp, out, late>>

-----------------------------------------------------------------------------
(* The PSP: the cable, and USBHostFS on it.                                *)

Plug ==
  /\ psp = "absent"
  /\ psp' = "idle"
  /\ UNCHANGED <<source, stopEvent, caller, out, late>>

\* The cable is pulled or usb_transport_stop called: the open device is gone.
Unplug ==
  /\ psp # "absent"
  /\ psp' = "absent" /\ out' = "nothing"
  /\ handle' = IF handle = "open" THEN "gone" ELSE handle
  /\ UNCHANGED <<thread, attempt, published, stopEvent, caller, late>>

Greet ==
  /\ psp = "probed"
  /\ psp' = "greeting" /\ out' = "hello"
  /\ UNCHANGED <<source, stopEvent, caller, late>>

SendFrame ==
  /\ psp = "linked" /\ out = "nothing"
  /\ out' = "frame"
  /\ UNCHANGED <<source, stopEvent, caller, psp, late>>

ThreadSteps ==
  \/ LoopTurn \/ OpenFails \/ WaitEnds \/ OpenSucceeds \/ Publish
  \/ Peek \/ Probe \/ ReadHello \/ Reply \/ HandOnFirst
  \/ ReadTurn \/ ReadFrame \/ HandOnFrame \/ TransferFails \/ Close \/ Release

Next ==
  \/ ThreadSteps
  \/ \E c \in Callers : RequestStop(c) \/ TakeDevice(c) \/ CloseDevice(c)
  \/ WorkerLeaves
  \/ Plug \/ Unplug \/ Greet \/ SendFrame

Spec == Init /\ [][Next]_vars

-----------------------------------------------------------------------------
(* Properties.                                                             *)

\* usb_transport.py:257-314: whatever the thread does with a device, it is on its
\* way to its finally clause, and is the one to close a device that was opened after
\* both stops looked for it; a stop that comes while the thread uses an open device
\* finds it in _device, or another stop has taken it to close it; only between its
\* opening and its publication, and at the end of the finally clause, can no stop
\* find it; and what is in _device was not closed.
NoDeviceIsOrphaned ==
  /\ handle # "none" => thread \in Holding
  /\ handle = "open" => \/ thread \in {"publish", "release"}
                        \/ published
                        \/ \E c \in Callers : caller[c] = "closing"
  /\ published => handle \in {"open", "gone"}

\* receiver.py:420-423: the receiver may be gone while its USB thread still opens a
\* device, shakes hands or reads; what such a thread hands on is at most one packet,
\* the frame that the handshake kept or the one it was reading.
AtMostOneLatePacket == late <= 1

\* request_stop: the thread ends, whatever it was doing and whatever the PSP does.
ThreadEnds == stopEvent ~> thread = "ended"
=============================================================================
