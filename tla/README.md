# Verification of niwPSPtoPC

niwPSPtoPC turns a PSP into a game controller of a Windows PC.  The PSP samples its buttons
60 times a second and sends each sample, with a sequence number and a session token, over Wi-Fi
(UDP) or over the USB cable; a desktop application on the PC receives the samples, decides which
endpoint may drive the pad, and feeds a virtual Xbox 360 controller.

This directory holds TLA+ models of the parts that decide something, the TLC configurations that
check them on small instances, and proofs, checked by TLAPS, that hold for every instance.  Line
numbers are relative to `src/`; `PROJECT.json` maps every definition to the lines it stands for.

## 1. Inventory

### Components on the PC (`pc-server/pc_server/`)

| Component | State it keeps | Operations | What makes it correct |
|---|---|---|---|
| Sequence tracking (`receiver.py`, `SequenceTracker`) | last number, counters | `observe` | the verdict on a number is true across the uint32 wrap; losses are counted once |
| Receiver (`receiver.py`, `UdpReceiver`) | known clients, the active client, blocked clients, pairing token, time of the last ACK, stop event, counters, rejection caches | `run`, `_process_data`, `_handle_packet`, `_maintain_clients`, `set_pairing_token`, `disconnect_active_client`, `allow_transport`, `request_stop` | one owner of the pad; it changes hands only for the documented reasons; a disconnection and a changed code stand; the counters add up |
| USB source (`usb_transport.py`, `UsbPacketSource`) | thread, `_device`, stop event, whether a driver repair was asked for | `run`, handshake, `_read_device`, `request_stop` | no device stays open, the thread ends, a PSP on the cable is heard |
| WinUSB setup (`winusb_setup.py`) | the registry's interface GUIDs | the request, and the elevated helper that configures and restarts devices | the cable works afterwards, and the reader survives a device restarted under it |
| Controller service (`gamepad.py`, `ControllerService`) | backend, session, silence, retry | `ensure_backend`, `retry_backend`, `handle_snapshot`, `disconnect`, `stop`, `check_timeout`, `check_backend_retry` | no button stays pressed without an owner; no pad after `stop`; one automatic retry per failure |
| Desktop window (`gui.py`, `GuiApp`) | connected and selected transport, token, running receiver, pending restart, message queue | `start_receiver`, `poll_messages`, the user's clicks, `close` | one receiver at a time; the window says what is true |
| Packet codecs (`protocol.py`, the mapping in `gamepad.py`) | none | decode, encode, pairing code, axes and buttons | nothing is accepted that no sender meant; the code typed is the token; the pad shows what the stick does |
| Connection Doctor (`connection_doctor.py`, `windows_diagnostics.py`) | a checklist of stages | `mark`, `reset_pairing`, `fail_gamepad`, `guidance` | the advice converges to what is the case |
| Settings, single instance, display, simulator, soak, command line | files, mutex | | front ends and operating system calls |

### Components on the PSP (`psp-client/src/`)

| Component | State it keeps | Operations | What makes it correct |
|---|---|---|---|
| Client (`main.c`) | selector, association, socket, PC address, authorization, display, clock, chord timer | the two sender loops, discovery, reconnection, exit callback | every link is taken down; power is saved only while a PC answers; the input follows one PC; HOME always ends the program |
| USB transport (`usb_transport.c`) | five start stages | start, stop, send, poll | a failed start is undone |
| Protocol, configuration, user interface | none over time | encoding, parsing, drawing | |

### Interactions

```
 PSP main.c --UDP--> receiver thread  --\                      /--> driver (ViGEm)
     |                                   > UdpReceiver lock --+--> ControllerService lock
     +--cable--> UsbPacketSource thread-/        ^            |          ^        ^
     ^                                           |            |          |        |
     +---------- readiness ACK ------------------+            v          |     watchdog thread
                                        Tk thread <-- message queue -----+
```

* Two threads hand datagrams to the receiver.  Each reads the clock, takes the receiver's lock,
  routes the datagram, releases the lock, and *then* runs the callback into the controller service,
  which has a lock of its own, and afterwards sends an ACK without the receiver's lock.
* The service's watchdog thread times out silent sessions and retries a failed driver.
* The window is told of all this only by messages it drains every 50 ms, and calls the receiver and
  the service directly on the user's clicks.
* The USB source's thread may ask the user for an elevated helper, a process of its own that restarts
  the device which the thread goes on trying to open.
* The PSP learns from ACKs alone that a PC listens, which one, and that its pad is ready.

### Behaviours that are hard

The hazards in `PROJECT.json` list them line by line: decisions used after an unlock, arrival times
read before a lock, two transports sharing one sequence, a wrap of that sequence, operations made of
several critical sections (`stop`, the automatic retry, the USB stop), driver calls that raise,
messages queued before a click and applied after it, joins that expire, a PSP whose link is half
up or whose PC, access point or cable vanishes, local variables that survive a reconnection.

## 2. Modules

| Module | Models | Built on |
|---|---|---|
| `SequenceNumbers` | serial-number arithmetic, `observe` | |
| `SequenceTracker` | the tracker behind a network that loses, duplicates and reorders | `SequenceNumbers` |
| `SafePad` | abstract: what the service promises to the games | |
| `ControllerService` | the service with its three kinds of threads; implements `SafePad` | `SafePad` by `INSTANCE` |
| `Receiver` | `UdpReceiver` with both receiving threads and the Tk thread | `SequenceNumbers` |
| `Bridge` | one PSP session, two transports, the receiver, the state of the pad | `Receiver` |
| `GuiApp` | the window, its queue, and the receivers it starts | |
| `UsbSource` | the USB reader, its two stoppers, USBHostFS | |
| `WinUsbSetup` | the same reader on Windows, with ports, driver instances, the user's consent and the elevated helper | `UsbSource` |
| `Protocol` | the codecs of both sides, pairing codes, axis and button mapping, as operators on bytes | |
| `Wire` | one exchange at a time: code entry, datagram, damage, decoding, ACK | `Protocol` |
| `Intake` | the fate of every datagram: counters, callbacks, rejection caches | |
| `Diagnosis` | the Connection Doctor behind the window's queue | |
| `PspClient` | the PSP application with both links, firmware, access point and PCs | |
| `MCReceiver`, `MCBridge`, `MCIntake` | values and symmetry for TLC | |
| `SequenceTrackerProofs`, `ControllerServiceProofs`, `ReceiverProofs` (also `Bridge`), `IntakeProofs`, `GuiAppProofs`, `WinUsbSetupProofs` (also `UsbSource`), `WireProofs` (also `Protocol`), `PspClientProofs` | theorems | the component and `TLAPS` |

In all of them an action is what runs without another thread in between: one critical section, or
one stretch between two calls that others can observe.  Operators whose comment begins with
`Fault:` are not part of any specification: each is a plausible mistake in the definition that
follows, and serves to show that a property notices it.

### How state and actions correspond to the code

**SequenceTracker.**  `tracker` is the Python object.  Beside the wire number the model numbers the
datagrams without a wrap (`index`), which is what the tracker has to recover; `first`, `newest` and
`verdict` are history.  `Restart` stands for the places in the receiver that make a new tracker.

**ControllerService.**  Variables carry the names of the fields.  The clock enters the code only in
differences, so the model keeps the differences (`silence`, `retryDue`).  `Faults` names the driver
calls that may raise.  `stop()` is four actions and the automatic retry two, because the code takes
the lock that often; the watchdog's wait (`WaitExpires`) and its two checks are actions too, so that
a stop may come between them.  A `disconnect()` of the backend only drops references
(`gamepad.py:210-214`), and what it raised would be swallowed; it has no outcomes.  What the service
emits to the window after the unlock is part of `GuiApp`.

**Receiver.**  `clients`, `activeClient`, `blocked`, `pairingToken`, `lastAck` are the fields; `job`
is what each receiving thread is doing: arrived (time read, lock not yet taken), decided (lock
released, callback not yet run), delivered, and, without the lock, ack, send and note: the clock and
`_last_ack_sent` are read (`CheckInterval`), the ACK is sent (`SendAck`), and the time that was read
is noted (`NoteAck`), by which time the client may be forgotten.  `HandlePacket` is the whole locked section: expiry,
the sender's state, takeover, classification.  Of the tracker only the last number steers anything,
and that is all a client keeps.  The endpoint of the cable is one address, as in the code.

**Bridge.**  Adds a PSP that numbers its packets in one sequence over both transports, packets in
flight, and the number of the state that the pad was last given.  The receiver's actions are used
unchanged; the user's commands are left out.

**GuiApp.**  A *bridge* there is one pair of receiver and service.  Of their insides it keeps who owns
the pad, who is blocked, whether Wi-Fi is paired, the service's session and whether its watchdog has
released one it has yet to report.  Clocks are abstracted: the watchdog may release a session at any
time (its packets may be lost), and is fair only when the PSP does not play over that transport.  A
USB thread may outlive its bridge with a packet, and a watchdog with a report; there is one thread
per transport, so that such a packet is done with before the next bridge's first.  Left out: drawing, and what `Diagnosis` and `Wire`
have: the diagnostics page, events of a failing backend, and clearing of the pairing code outside
`disconnect_current`.

**UsbSource.**  `thread` is the place in `run`, the handshake or `_read_device`.  `handle` is the
device that was opened and `published` whether `_device` holds it.  `OpenSucceeds` and `Publish` are
two actions, as are the two halves of the `finally` clause, `Close` and `Release`: in between, the
device is open and no stop can find it.  The condition of the read loop, the read and the handing on
are three (`ReadTurn`, `ReadFrame`, `HandOnFrame`), so a stop may fall between them.  USBHostFS is not in the repository; it is modelled from how the handshake uses it
and is marked external in the map.

**WinUsbSetup.**  Extends `UsbSource` by where the cable is, which ports Windows has an instance for,
which of those have the interface GUID, and whether the present device was given an interface; and
by the request (`askedFor`, `prompt`) and the helper, one action per call it makes.  Its restart of
the device is `UsbSource`'s `Unplug` and `Plug`, so that every step is one of `UsbSource` or none.

**Protocol and Wire.**  A datagram is a sequence of bytes and a field's value its bytes, so that no
number outgrows TLC; a decoder returns the error that the code raises.  Characters of a pairing code
are indices into its alphabet.  `Wire` puts the codecs between a PSP and a PC: the simulator's demo
packets are what is sent, and `Damage` changes one byte, cuts or extends.  Ownership is left out.

**Intake.**  Each lock section of `_process_data` is an action, and the two reads of the clock are
their own.  A cache is the sequence of its entries in the order of insertion.  The three caches,
`_rejected_hosts`, `_rejected_pairings` and `_rejection_logs`, are one function.  `heard` and
`logged` are history.  The kind of a datagram is drawn when it arrives; who owns the pad plays no part.

**Diagnosis.**  `completed` and `gamepadError` are the doctor's fields.  Ticks commute and the last
gamepad event wins, so the queue is kept as what its next drain will find.  The backend is ready or
not; failures of the driver, the watchdog's retry and the user's retry decide which, and each is
reported after its lock is released.  `CODE_MATCHED` and `ACK_SENT` of one datagram are one action,
since ticks commute; the USB thread reads from before the port is bound until it is stopped (`Reads`).

**PspClient.**  `usb` and `modules` count how many stages of a start are up; the USB stages are taken
down one by one, the last first (`UsbStageStops`).  `session.held` is the chord as the code times it,
which after a reconnection is not how long the user has held it (section 3).  Time passes in turns of
a sender's loop, so the thresholds are counted in turns; pauses of the scheduler are not modelled.
The WLAN switch and the cable are read from the hardware at each use and may answer either way, so
a leave that needs one of them may always happen.  Lowering the brightness or the clock may fail;
putting them back is taken to succeed.

## 3. What the runs check

Twelve runs; those that pass fire every action of their specifications.  The type invariants of
`SequenceTracker`, `ControllerService`, `Receiver`, `UsbSource` and `PspClient`, and
`NoPadAfterStop`, are proved (section 4) and not run as well.

| Run | Question | Bounds, and why they are enough |
|---|---|---|
| `SequenceTracker` | Is the verdict true, and do the counters add up, under loss, duplication and reordering? | Space of 8, six datagrams from every start: the stream wraps with up to four numbers outstanding.  Proved for every even space. |
| `ControllerService` | Does any interleaving of three threads and failing `connect`/`apply` calls leave a pressed pad without an owner or a session after a failure?  Does silence release, a retry come, `stop` end?  Is `SafePad` implemented? | Two clients, three states of the pad; timeouts of 2, 3 and 2 ticks keep their order and let calls fall between them. The state is finite without any other bound. |
| `Receiver` | Does the pad change hands, a disconnection or a pairing end, only as documented? | One Wi-Fi endpoint, the cable, two sessions, every pairing token; sequence number 0 only, since restarts of the tracker are told apart by `last` being set; clock to 3 with retention 2 and a thread held up for at most one tick, so that expiry, takeover and a stale arrival time all occur.  Proved for every number of endpoints and sessions, any clock and any delay. |
| `Bridge` | Does the pad ever get an older state, or is the newest refused? | Three packets, clock to 5, grace 2, delay 1: packets of both transports are in flight across a switch, and a clock of 5 covers grace, timeout and retention once.  Proved for any bounds in the relation of section 4. |
| `GuiApp` | Are there never two receivers, is a restart made, is what plays or falls silent shown? | Two receivers (a restart and a failure), two messages waiting.  Every click, and a socket that may fail at any time.  The safety is proved for any number of receivers and messages. |
| `PspClient` | Are links undone on every path, is power saved only while served, does input follow one PC and find the next, does HOME end the program? | Two PCs; each threshold one turn, which keeps all of them reachable and distinct from their timers' start. |
| `WinUsbSetup` | When can a stop miss a device, and who closes it then, what outlives the receiver, does the thread end, is a PSP on the cable heard, also when its driver has to be repaired first? | Two ports, so that the PSP may move after the repair was asked for; two reads for the HELLO instead of ten: first and last.  The state is finite otherwise. |
| `Wire` | Is what is accepted what a sender meant?  Is the code the token?  Does only the code open Wi-Fi?  Does the pad follow? | Two tokens (all digits but one equal, and all different), five demo packets with the stick at both ends, next to the centre and at it; one damaged datagram in an exchange, with the bytes that are field values elsewhere in the packet.  The axes are compared with all 256 positions.  Proved for all tokens and bytes. |
| `Intake` | Do the counters add up?  Is a rejection logged exactly when it is news? | Four datagrams of four fates from two hosts and the cable, caches of two, a lifetime of 2 with a clock to 4 and a lag of 1: the bound, expiry and times that go back all occur.  Proved for any of these bounds. |
| `Diagnosis` | Does the advice converge? | One code besides none; no bound on clicks, failures or restarts. |
| `ControllerServiceNeutralizeFault` | violation | one client, `neutralize` may raise; of the steps only the snapshots, silence and the watchdog (`SilenceSpec`), so that no disconnect or stop plays a part |
| `BridgeLateDatagram` | violation | as `Bridge`, delay 2 = grace |

`RequirePairing` is TRUE in the runs, as the application passes it; the proofs cover both values.
`CHECK_DEADLOCK FALSE` stands in the runs whose clock or number of datagrams is bounded: there the
model stops where the bound does.  The other runs have it on.

### What the runs found

1. **A failed `neutralize` is not repeated** (`gamepad.py:429`; run
   `ControllerServiceNeutralizeFault`).  `check_timeout` marks the session neutralized whether or not
   the driver call raised, and releases the session later without another attempt: the last buttons
   stay pressed for as long as the PSP stays silent.
2. **A late datagram rolls input back** (`receiver.py:633`; run `BridgeLateDatagram`).  A takeover
   starts a new tracker.  If a Wi-Fi datagram is delayed by the grace period of 150 ms or more while
   the cable pauses, it is the first one of the new tracker, although the one sequence spans both
   transports.  `Bridge` shows that below that delay, and with callbacks that are not held up, the
   pad is never rolled back.

Met while modelling, and visible in the models without a run of their own:

* A v1 packet over the cable is played although pairing is required (`receiver.py:554`), against
  `docs/input-protocol.md:141-143`: the check is for Wi-Fi only.  `Wire` sends such packets.
* The window says "connected" after a disconnect (`gui.py:1704`): packets that were queued before
  the click are applied after it, and only a timeout event, which a released session never emits,
  would clear the display.  A restart, a failed socket or a failed backend leave the same.
* The menu chord survives a reconnection (`main.c:776`): the time at which L+R+START was first seen
  is kept while the PSP reconnects, so that one sample of it afterwards ends the link.
* The driver repair is asked for once per source (`usb_transport.py:270-274`): spent on one port, or
  refused, it is not asked for again until the receiver restarts, although `docs/usb.md:56-58` has
  another port "causing one more UAC prompt".  `CableIsUsed` states the condition.
* The service's events are emitted after its lock is released (`gamepad.py:354`, `415`), so the last
  event in the queue need not be the last that happened, and the gamepad's row may be wrong until the
  next one.  `GuidanceConverges` states the condition.
* A manual retry may run between the claim of an automatic one and its making
  (`gamepad.py:362-374`); a datagram routed before a disconnect is delivered after it
  (`receiver.py:721-727`) and is timed out as silence; a USB thread that outlives its receiver hands
  on at most one packet, if opening the device is slow or the thread is held up, where the comment at
  `gui.py:1508-1513` says that none comes after "stopped".

### Fairness

* `ControllerService`: the watchdog loops with a bounded wait, `stop` never blocks between its
  sections, time passes.  Snapshots, retries and the user are not fair.
* `GuiApp`: threads are scheduled, the Tk loop polls until the window closes, a PSP that plays sends
  60 packets a second.  Nothing is assumed of the user, of what the PSP plays, or of the socket.
* `PspClient`: the main thread runs (weak); a network that can always deliver input and all its ACKs
  at once sometimes does (strong).  The access point, the PCs and HOME are not fair.
* `WinUsbSetup`: the reader and the helper run and the user answers the prompt (weak); an open that is
  possible again and again once succeeds, or finds that a repair is needed (strong).  A PSP that was
  probed greets, and a linked one sends at least 15 packets a second (`main.c`, the lowest rate the
  configuration allows), so the first read, which waits 100 ms, does not always miss them (strong).
  `CableIsUsed` assumes besides that transfers do not fail for ever.
* `Diagnosis`: the window polls, the receiver's threads and its worker run (weak).  A datagram that
  may be acknowledged again and again once is (strong): 60 arrive a second, an ACK is due 0.1 s
  after the last, and a socket that refuses every one of them for ever is not assumed.  Nothing is assumed
  of the user, the driver or the watchdog.

## 4. What is proved

Each theorem holds for every value of the constants that satisfies the `ASSUME` of its module.

**`SequenceTrackerProofs`** (`VerdictIsTrue`, `LossAddsUp`; every even sequence space, so 2^32).  The
inductive invariant ties each wire number to the distance of its datagram from the sender's:
`wire = Back(sender's number, sent - index)` with the distance below half the space.  Lemma
`DeltaIsDistance` says that the subtraction modulo the space recovers the difference of two such
distances; `ClassifyIsTrue` turns it into the verdict.  Neither property is inductive alone: the
remembered number must be known to be the wire number of the newest datagram.  The assumption
about the network, that nothing is older than half the space, is a guard of `Send`.

**`ControllerServiceProofs`** (`TypeOK`, `FailureLeavesNoSession`, `NoPadAfterStop`,
`RetryBelongsToFailure`; and, if `neutralize` does not raise, `PressedPadIsOwned` and the refinement
of `SafePad`).  `IInv` adds that `stop`'s stages come after its mark and that the session fields are
set and cleared together.  The assumption `"neutralize" \notin Faults` is written in both theorems:
without it finding 1 refutes them.  `StepIsSafe` shows at once that a step keeps the pad owned and is
a step of `SafePad` or a stutter.

**`ReceiverProofs`** (`TypeOK`, `OwnerIsKnown`, `BlockedIsKnownAndIdle`, `WifiClientsArePaired`,
`OwnerKeepsPad`, `DisconnectionStands`).  The stale arrival time makes the properties depend on a
fact that is nowhere in the code: a datagram that waits for the lock is no older than anything
handled for its address, because one thread handles an address's datagrams in order
(`JobsAreDated`).  With it maintenance, done with an old time, never expires the client that owns
the pad (`ActiveAtIsRecent`) although the code does not look.  `HandlePacketEffect` sums up the
locked section once, and the invariant and the two action properties are proved from the summary.

`RelaunchIsHeard` follows from the same invariant, because only `HandlePacket` decides.
`AcksAreSpaced` needs more: the time of an ACK is read after the routing and without the lock, and is
noted after the sending.  `AcksAreDue` says that the outcome of the check still stands when the ACK
is sent.  It rests on what other threads may do between the check and the note: they forget times but
note none, since only the thread of an address notes one for it (`NotedTimes`), and they do not forget
that of a client which stays known and is not silent (`TimesAreKept`).  The times are those that
the code reads at the check; an ACK that could not be sent is not noted and does not count.

**`ReceiverProofs`, the input path of `Bridge`** (`NewestIsTaken`, `NoRollback`, `BridgeIsReceiver`).
`PathInv` adds what ties the network to the receiver: `SentBy(q, m)` says that whatever was certainly
sent after time `m` has a number above `q`, and it holds of every known client's last number and
every waiting datagram's at its own time.  `NewestIsTaken` needs no more, so it holds for every delay
and stall.  `NoRollback` is proved under `InTime`: packets are in flight, and a thread waits for
the lock, for less than the grace period, both together for less than the owner's timeout, and
callbacks are not held up.  `PadIsOwners` then says that the pad has nothing newer than its owner's
tracker, or, without an owner, that all that may still arrive is newer than the pad.  `InTime` is
not a convenience: with any one of its four parts dropped TLC finds a rollback, one of which is
finding 2.  `BridgeIsReceiver` shows that each step of `Bridge` is a step of `Receiver` or none, if
the PSP's numbers are those the receiver is offered.

**`GuiAppProofs`** (`TypeOK`, `OneReceiverRuns`; any number of receivers and messages).  The window
decides by `running`, which it clears when it reads "stopped" and no sooner; so the invariant says
that a message "stopped" in the queue is of a receiver that has ended (`StoppedHasEnded`), that every
bridge but the last has ended (`OthersHaveEnded`), and that a bridge which has not ended is the one
the window calls running (`RunningHasReceiver`).

**`WinUsbSetupProofs`**, first of `UsbSource` (`TypeOK`, `NoDeviceIsOrphaned`,
`AtMostOneLatePacket`; any number of reads in the handshake).  The first does not say that a stop
closes every open device, which is false: one that is opened while both stops go by is closed by
the thread itself, when its handshake fails or its loop sees the event.  The property says where the
thread then is.  The argument is that the stop event is final: a caller that took the device set the
event before (`StopIsFinal`), so the thread, which holds a device only between opening and releasing
it, opens no other; and what it hands on late is the last thing it does (`LateIsLast`).  Then of `WinUsbSetup` (`SetupImplementsUsbSource`, and from it the
same two properties; any set of ports): the helper's and the cable's steps are steps of `UsbSource`
or leave its variables alone, so what is proved there carries over.

**`WireProofs`**, first of `Protocol` (`HorizontalAxisFollows`, `VerticalAxisFollows`).
`RoundIsNear`: rounding is off by half a unit at most, while neighbouring positions are more than 255
units apart; hence the mapping is strictly monotone on each side and across the centre, and stays
within 16 bits.  The codecs are proved exact field by field: `ValueOfFormat` and `FormatOfValue` for
the pairing code (every token, every text of the alphabet), `InputIsCanonical`, `AckIsCanonical` and
`CableIsExact` for what a decoder accepts, `UnpackEncoded` and `UnpackLegacy` for what it makes of
what a sender encodes.

**`WireProofs`, the exchange of `Wire`** (`ExchangeInvariant`, and from it `AcceptedIsCanonical`,
`CodeIsTheToken`, `OnlyTheCodeOpensWifi`, `PadFollowsPsp`; any tokens, any bytes).  The invariant says
what the four steps of an exchange hand to each other: what is under way undamaged is the packet
that was sent in one of its versions (`UnderwayIsSent`), and what was taken passed the decoder and,
over Wi-Fi, is of the session of the code (`TakenIsAccepted`).  `OnlyTheCodeOpensWifi` adds, under
`MaxDamage <= 1`, that an answer that was not damaged names a session that was typed.  The
hypothesis is necessary: with two damaged datagrams TLC finds the packet's token changed to a
wrongly typed code on the way there and changed back on the way home.

**`IntakeProofs`** (`CountersAddUp`, `RejectionsAreLogged`; any hosts, kinds, caches and bounds).  The
equation of the counters is written as a sum over the jobs in hand (`CountersAddUpByJobs`), and a step
preserves it if what it adds to the counters is what its job no longer claims (`Balance`,
`JobMoves`).  It is not inductive alone: a thread that rejects or logs must be known to hold a
datagram whose kind agrees with the step it is at (`Jobs`).
`RejectionsAreLogged` rests on three facts of each cache (`CacheInv`): its entries have the time at
which their key was last seen; they are in the order of time up to the lag (`Ordered`), although a
thread that read the clock early may come to the lock late; and a key that is missing was seen longer
ago than the lifetime, or enough others were seen since (`MissingIsOld`).  One lemma for each
operation on the cache (`ExpireKeeps`, `WithoutKeeps`, `AppendKeeps`, `TrimIs`), `RememberedIs`
for all of them together, and `CrowdIsSince`, by which a full cache is an injection of its
places into the keys seen since.

**`PspClientProofs`** (`TypeOK`, `LinksAreTakenDown`, `SavesPowerOnlyWhileServed`,
`AuthorizedPcGetsInput`, `NoSilentSwitch`; any set of PCs and any time limits).  `LinksBelongToPhases`
says which link may be up where.  The sender's variables survive a reconnection, so that the new
socket, which broadcasts, agrees with them only because the authorization was dropped before
(`ReconnectsUnauthorized`).  One lemma per helper says what a turn does to the sender's variables;
`TurnSession` puts them together, and the two turns are proved from it.

## 5. What is only model-checked

* Everything temporal with fairness (`SilenceReleases`, `RetryIsMade`, `StopCompletes`,
  `RestartIsMade`, `PlayIsShown`, `LossIsShown`, `PcIsFound`, `ExitCompletes`, `ThreadEnds`,
  `CableIsUsed`, `GuidanceConverges`): liveness and `ENABLED` are out of the prover's reach, and so
  are induction over data and `RECURSIVE` operators, of which the project has none.
* `GuidanceConverges` is the only property of `Diagnosis`, which therefore has no theorem.

Every invariant and every action property that a run checks is stated by a theorem.

## 6. What is not modelled, and why

* The packet rate and latency the receiver computes: averages for display.
* The texts of the diagnostic report and the queries of Windows' network state
  (`windows_diagnostics.py`): one-shot reads, shown and not acted on.
* The report file that the repair helper writes (`winusb_setup.py:59-90`): nothing reads it back.
* Settings: validation of three text fields and one atomic replacement of a file.  The
  single-instance mutex: one call.  Both are without state over time.
* Drawing on both sides, parsing of `config.ini`, the command line, the loops of the simulator and
  soak tools, packaging and release scripts: text handling, operating system calls and front ends.
* In the modelled parts: how the PSP draws its pairing code (`main.c:170`), pauses of its scheduler,
  and calls that fail to restore its brightness or clock; a queue of the window that is drained in
  part (`Diagnosis`; `GuiApp` has it); datagrams with more than one damage (`Wire`).

## 7. Plan

The order in which modules were and will be written, the most important behaviour first:

1. Done: `ControllerService` and `SafePad` (a pad that is pressed for nobody is the worst that can
   happen), `SequenceTracker`, `Receiver`, `Bridge`, `GuiApp`, `PspClient`, `UsbSource`, then
   `Protocol` with `Wire`, `WinUsbSetup`, `Intake` and `Diagnosis`; the proofs of the safety of all
   of them.
2. Models next: the receiver composed with the controller service, so that the callback between the
   two locks is one behaviour; events of a failing backend in `GuiApp`.
3. Abstract specifications next: the owner of the pad as a lease that `Receiver` implements; a link
   as a resource that `PspClient` acquires and gives back; each with a theorem like
   `ServiceImplementsSafePad`.
4. Proofs next: the refinements of 3, and the safe half of the liveness properties, the invariants
   that their ranking arguments rest on.

## 8. Running it

    tlc -workers 2 -config Receiver.cfg MCReceiver      # any cfg with the module it names
    tlapm ReceiverProofs.tla

`PROJECT.json` names the module of every configuration.
