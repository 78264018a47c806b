---------------------------- MODULE WinUsbSetup ----------------------------
(***************************************************************************)
(* The USB source on Windows, and the repair of the driver interface that  *)
(* it asks for (pc-server/pc_server/winusb_setup.py, PyUsbBackend.open and *)
(* UsbPacketSource.run).                                                   *)
(*                                                                         *)
(* Windows keeps an instance of the device for each port that the PSP was  *)
(* connected to, and has bound WinUSB to it.  If the PSP did not deliver   *)
(* the extended properties, the instance lacks the interface GUID and the  *)
(* device cannot be opened.  The source's thread then asks the user, once, *)
(* to run an elevated helper, a process of its own, which registers the    *)
(* GUID for the instances that are present and restarts them.              *)
(*                                                                         *)
(* Every step is one of UsbSource or none, as WinUsbSetupProofs shows.     *)
(***************************************************************************)
EXTENDS UsbSource

CONSTANT Ports  \* the physical USB ports

VARIABLES
  port,       \* where the cable is, or Nowhere
  instances,  \* the ports for which the registry has an instance with WinUSB
  registered, \* those of them that have the interface GUID
  exposed,    \* whether Windows gave the present device an interface
  askedFor,   \* the port for which _driver_repair_attempted was set, or Nowhere
  prompt,     \* ShellExecuteW waits for the user's answer
  helper,     \* the elevated process: "none", "started", "next", or the step
              \* it makes, "configure", "restart" or "return", on subject
  subject,
  todo,       \* the instances that repair_winusb_interfaces has still to visit
  spoilt      \* history: the repair was refused, failed or lost the cable

registry == <<port, instances, registered, exposed>>
repair   == <<askedFor, prompt, helper, subject, todo, spoilt>>
all      == <<vars, registry, repair>>

Nowhere == "nowhere"
ASSUME PortsAssumption == Nowhere \notin Ports

SetupInit ==
  /\ Init
  /\ instances \in SUBSET Ports /\ registered \in SUBSET instances
  /\ IF psp = "absent" THEN port = Nowhere ELSE port \in instances
  /\ exposed = (port \in registered)
  /\ askedFor = Nowhere /\ prompt = FALSE
  /\ helper = "none" /\ subject = Nowhere /\ todo = {}
  /\ spoilt = FALSE

Present(p) == psp # "absent" /\ port = p

-----------------------------------------------------------------------------
(* The source's thread.                                                    *)

\* winusb_interface_needs_repair
NeedsRepair == \E p \in instances : Present(p) /\ p \notin registered

\* The device cannot be opened, or the registry not be read.
OpenRefused ==
  /\ OpenFails /\ ~prompt
  /\ UNCHANGED <<registry, repair>>

OpenWorks ==
  /\ OpenSucceeds /\ exposed /\ ~prompt
  /\ UNCHANGED <<registry, repair>>

\* The first UsbDriverAccessError of this source: the user is asked.
AskForRepair ==
  /\ thread = "open" /\ ~prompt
  /\ psp # "absent" /\ ~exposed
  /\ NeedsRepair /\ askedFor = Nowhere
  /\ askedFor' = port /\ prompt' = TRUE
  /\ UNCHANGED <<vars, registry, helper, subject, todo, spoilt>>

\* request_elevated_winusb_repair returns, and the thread waits for its next try.
Answered(consent) ==
  /\ prompt /\ OpenFails
  /\ prompt' = FALSE
  /\ helper' = IF consent THEN "started" ELSE helper
  /\ spoilt' = (spoilt \/ ~consent)
  /\ UNCHANGED <<registry, askedFor, subject, todo>>

OtherThreadSteps ==
  /\ \/ LoopTurn \/ WaitEnds \/ Publish \/ Peek \/ Probe \/ ReadHello \/ Reply
     \/ HandOnFirst \/ ReadTurn \/ ReadFrame \/ HandOnFrame \/ TransferFails
     \/ Close \/ Release
  /\ UNCHANGED <<registry, repair>>

-----------------------------------------------------------------------------
(* The helper: repair_winusb_interfaces, and its _configure_instance and   *)
(* _restart_instance, each of which may fail.                              *)

ListInstances ==
  /\ helper = "started"
  /\ helper' = "next" /\ todo' = instances
  /\ UNCHANGED <<vars, registry, askedFor, prompt, subject, spoilt>>

Visit ==
  /\ helper = "next"
  /\ \E p \in todo :
       /\ todo' = todo \ {p}
       /\ IF Present(p) THEN helper' = "configure" /\ subject' = p
                         ELSE UNCHANGED <<helper, subject>>
  /\ UNCHANGED <<vars, registry, askedFor, prompt, spoilt>>

Configure ==
  /\ helper = "configure"
  /\ registered' = registered \cup {subject}
  /\ helper' = "restart"
  /\ UNCHANGED <<vars, port, instances, exposed, askedFor, prompt, subject, todo,
                 spoilt>>

\* Fault: the instance is configured and not restarted.
RestartForgotten ==
  /\ helper = "restart" /\ Present(subject)
  /\ helper' = "next" /\ subject' = Nowhere
  /\ UNCHANGED <<vars, registry, askedFor, prompt, todo, spoilt>>

\* pnputil takes the device down and brings it up again.
Restart ==
  /\ helper = "restart" /\ Present(subject)
  /\ Unplug
  /\ exposed' = FALSE
  /\ helper' = "return"
  /\ UNCHANGED <<port, instances, registered, askedFor, prompt, subject, todo,
                 spoilt>>

Return ==
  /\ helper = "return" /\ port = subject
  /\ Plug
  /\ exposed' = (subject \in registered)
  /\ helper' = "next" /\ subject' = Nowhere
  /\ UNCHANGED <<port, instances, registered, askedFor, prompt, todo, spoilt>>

\* An exception is noted as an error, and the next instance visited.
RepairFails ==
  /\ \/ helper \in {"configure", "restart"}
     \/ helper = "return" /\ port # subject
  /\ helper' = "next" /\ subject' = Nowhere /\ spoilt' = TRUE
  /\ UNCHANGED <<vars, registry, askedFor, prompt, todo>>

HelperEnds ==
  /\ helper = "next" /\ todo = {}
  /\ helper' = "none"
  /\ UNCHANGED <<vars, registry, askedFor, prompt, subject, todo, spoilt>>

-----------------------------------------------------------------------------
(* The cable.  A new instance may have got the extended properties.        *)

PlugIn ==
  /\ port = Nowhere
  /\ \E p \in Ports :
       /\ port' = p /\ instances' = instances \cup {p}
       /\ \/ registered' = registered
          \/ p \notin instances /\ registered' = registered \cup {p}
       /\ exposed' = (p \in registered')
  /\ Plug
  /\ UNCHANGED repair

PullOut ==
  /\ port # Nowhere
  /\ IF psp = "absent" THEN UNCHANGED vars ELSE Unplug
  /\ port' = Nowhere /\ exposed' = FALSE
  /\ spoilt' = (spoilt \/ prompt \/ helper # "none")
  /\ UNCHANGED <<instances, registered, askedFor, prompt, helper, subject, todo>>

Elsewhere ==
  /\ \/ \E c \in Callers : RequestStop(c) \/ TakeDevice(c) \/ CloseDevice(c)
     \/ WorkerLeaves \/ Greet \/ SendFrame
  /\ UNCHANGED <<registry, repair>>

SetupThread == OtherThreadSteps \/ OpenRefused \/ OpenWorks \/ AskForRepair
HelperSteps == ListInstances \/ Visit \/ Configure \/ Restart \/ Return \/ RepairFails
                 \/ HelperEnds

SetupNext ==
  \/ SetupThread \/ HelperSteps
  \/ \E consent \in BOOLEAN : Answered(consent)
  \/ PlugIn \/ PullOut \/ Elsewhere

SetupSpec == SetupInit /\ [][SetupNext]_all

\* The thread and the helper run, and the user answers; opening a device again and
\* again once succeeds, or finds the registry readable; a PSP that is probed greets,
\* and a linked one sends at least 15 times a second (NIW_PSP_TO_PC_MIN_SEND_RATE),
\* so that the first read, of 100 ms, does not always miss its frames.
Plain(A) == A /\ UNCHANGED <<registry, repair>>

SetupFairness ==
  /\ WF_all(SetupThread) /\ WF_all(HelperSteps)
  /\ WF_all(\E consent \in BOOLEAN : Answered(consent))
  /\ SF_all(OpenWorks) /\ SF_all(AskForRepair)
  /\ WF_all(Plain(Greet)) /\ WF_all(Plain(SendFrame))
  /\ SF_all(Plain(thread = "peek" /\ SendFrame))

SetupLiveSpec == SetupSpec /\ SetupFairness

-----------------------------------------------------------------------------
(* Properties.                                                             *)

\* A PSP that stays on the cable is heard again and again, whether it was linked
\* to an earlier process, was probed or greeted in vain, or has just come; and
\* whether Windows made an interface for it or the user is to be asked, provided
\* that the question was not spent on another port, the repair was not refused,
\* did not fail and kept the cable, and transfers do not fail for ever.
CableIsUsed ==
  LET Ready == /\ psp # "absent" /\ ~stopEvent
               /\ exposed \/ (askedFor \in {Nowhere, port} /\ ~spoilt)
  IN  <>[]Ready /\ <>[][~TransferFails]_vars
        => []<><<HandOnFirst \/ HandOnFrame>>_vars
=============================================================================
