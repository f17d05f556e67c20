# Verification of the AWUS036AXM monitor application

The application captures 802.11 frames on Android without root: a Kotlin front
end opens the USB adapter (MT7921AU) and hands the file descriptor to a
foreground service, whose thread runs a user-space driver over libusb, which is
part of the tree, and streams what it receives as pcap over TCP, 127.0.0.1:37008. This directory
holds TLA+ models of that program, TLC configurations that check them on small
instances, and proofs for every size checked by TLAPS. Paths below are relative
to `src/app/src/main/`; `cpp/` is the native code, Kotlin files are in
`java/com/example/wifimonitor/`.

## 1. Inventory

| Component | State | Operations | Modelled in |
|---|---|---|---|
| Native session: `cpp/native_bridge.cpp`, `cpp/mt7921_shim.cpp/.h` | the global `g_dev`; per `mt7921_dev_t` the flag `running`, `pcap_sock`, `client_sock`, (`fw_loaded`, `channel`, written only); the static `seq` | JNI `startDriver`, `stopDriver`; open, firmware upload, monitor mode, channel, RX loop, close | NativeDriver, SequentialDriver, PcapStream, Firmware, ChannelPlan |
| `MainActivity.kt` | `driverRunning`, permission receiver, spinner | `onCreate`, START/STOP, permission answer, `onDestroy` | MonitorApp, ChannelPlan |
| `DriverForegroundService.kt` | `driverThread` | `onStartCommand`, the thread's body, `onDestroy` | MonitorApp |
| `NativeBridge.kt` | none | the two `external` functions | MonitorApp (as NativeDriver actions) |
| `FirmwareManager.kt` | the two files in `filesDir` | `ensureFirmware`, `clearCache` | Firmware |
| `cpp/compat.h` | none | type names and macros | not modelled |
| libusb, transfers and events: `cpp/libusb/libusb/io.c`, `sync.c`, `os/events_posix.c`, `os/threads_posix.c` | per transfer `state_flags`, `timeout_flags`, `transferred`; per context `flying_transfers`, `events_lock`, `device_close`, `event_flags`, the event pipe, `event_sources` | `libusb_bulk_transfer`, cancellation, time-outs, `libusb_handle_events_completed`, interruption by open and close | UsbTransfer, BulkTransfer, EventHandling |
| libusb, contexts, devices, handles: `core.c`, `hotplug.c`, `descriptor.c`, `libusbi.h` | list of active contexts, fallback context, default options; per context `usb_devs`, `hotplug_msgs`; per device `refcnt` | `libusb_init`, `libusb_set_option`, `libusb_wrap_sys_device`, `libusb_close`, `libusb_exit`; devices entered and removed | Contexts; opening and closing beside other threads in EventHandling |
| libusb, Linux back-end: `os/linux_usbfs.c`, `os/linux_netlink.c` | URBs and reap state of a transfer; `init_count`, the hotplug lock, the monitor thread | submit, discard, reap, POLLERR; the scan, the netlink monitor | UsbTransfer, Contexts |
| libusb, other platforms, examples, tests | | | not in the build, not modelled |
| firmware blobs, resources, Gradle | none | | not modelled |

**How they interact.** `MainActivity` opens the adapter and sends the descriptor
in a service intent. ActivityManager delivers `onStartCommand` and `onDestroy` on
the main thread, in order. `onStartCommand` starts a thread that calls
`startDriver`, which blocks until the session is over, and then `stopSelf()`.
`onDestroy` calls `stopDriver` (it writes `g_dev->running`) and joins the thread
for at most two seconds. Driver threads and main thread share `g_dev` and the
session with no lock. Other parties are the user, the USB bus, the permission
dialog and the TCP client.

Below the shim, `mt7921_open` creates a libusb context and wraps the descriptor in
it; each transfer is submitted as one or more URBs, and the thread that waits for
it handles the events of its whole context: it polls the descriptors and the event
pipe, reaps URBs, handles time-outs and completes transfers, its own or another
thread's. Threads that find the event lock taken sleep on a condition variable;
one that opens or closes a device writes to the event pipe to make the handler
step aside. All contexts of the process share one hotplug monitor thread, which
enters and removes devices in each of them.

**What is hard.** `g_dev` is read anew for every call in `startDriver`, while
other threads set and clear it; a stop can come before a session is published,
between its close and the clearing of the pointer, or while the thread hangs in
`accept`, `writev` or a 3 s transfer, beyond the 2 s join; a rotation resets
`driverRunning` with a session running, and the permission answer starts one
without asking; two threads can both be past `bind`, and `listen` is not checked;
a thread closes whatever session `g_dev` points to (native_bridge.cpp:63), another
thread's too, while that one is inside libusb or reading, and `mt7921_close` gives up the
port before the adapter; an old thread's `stopSelf` takes the service from under a new driver;
records are larger than the room in a socket buffer; blobs may be half copied
when they are uploaded; channel numbers of three bands overlap. In libusb a
completion races the time-out, a cancellation and the loss of the adapter, URB by
URB, and the caller frees the transfer as soon as it is told; a wake-up is lost if
a flag is cleared in the wrong order; a device can be closed while another thread
polls on it or waits for a transfer on it; contexts are created and destroyed beside each other and beside the
monitor, and every step of `libusb_init` can fail. `PROJECT.json` lists these
hazards at their lines.

**What makes each part correct.** *Native session:* whatever its callers do, two open
adapters are received from only while one of them is being closed; called one session at
a time, each thread works on its own open session, gives everything back on each
exit, receives only in monitor mode, and ends when it is stopped. *Service and
activity:* no start is lost, the service does not outlive its drivers, `onDestroy`
always gives the main thread back, and a stop does not hit a later session. *Stream:* the
client gets the header and whole records, in order, none missing. *Firmware:* what
is flagged as loaded was sent, all of it, in the right order; ready means complete. *Channel:* the radio is
tuned to what the user selected. *Transfer:* it ends once, with every byte in its
place and a true status, and neither thread nor kernel touches it afterwards, however
it is taken from under its thread. *Events:* nobody sleeps
with nobody to wake him, the handler polls what is open and nothing that is
closed, and calls return. *Contexts:* the monitor runs while it is needed, the
lists match the bus, every device reference has an owner, and no session loses its
context to the end of another.

## 2. Modules

| Module | What it is |
|---|---|
| `NativeDriver` | JNI entry points and session under an arbitrary caller |
| `SequentialDriver` | the same when one call of `startDriver` returns before the next begins |
| `MonitorApp` | activity, service and driver threads; `Native == INSTANCE NativeDriver WITH Stopper <- {Main}` |
| `CaptureFeed` | abstract: what a capture session promises its viewer |
| `PcapStream` | the data path from bulk-IN to the TCP client; implements CaptureFeed |
| `Firmware` | copying and uploading the blobs |
| `ChannelPlan` | from the channel spinner to the channel-switch command |
| `BulkTransfer` | abstract: what `libusb_bulk_transfer` promises |
| `UsbTransfer` | a bulk-IN transfer from `libusb_bulk_transfer` to the URBs; implements BulkTransfer |
| `EventHandling` | how the threads of a context share the handling of events |
| `Contexts` | `libusb_init` to `libusb_exit`, devices and the hotplug monitor |
| `NativeDriverProofs`, `MonitorAppProofs`, `PcapStreamProofs`, `FirmwareProofs`, `ChannelPlanProofs`, `EventHandlingProofs`, `ContextsProofs`, `UsbTransferProofs` | theorems about the module each is named after, those about SequentialDriver in `NativeDriverProofs` |
| `MC*` | TLC instances: symmetry sets, threads |

Where a definition is preceded by a "Variant", that variant is the definition
with a plausible mistake in it. No specification uses one. Each shows that a
property can fail: put in place of the definition, it makes the property named
with it in `PROJECT.json` ("mutants") fail.

### NativeDriver

A `Session` is one call of `startDriver`: its thread, its descriptor, the
`mt7921_dev_t` and the sockets it may create. `pc[t]` is where the thread is;
`arg[t]` is the pointer the call in progress works on, which need not be the
thread's own: `LoadDev` reads `g_dev` before each of the calls at
native_bridge.cpp:43 to 64. (For the null test and `mt7921_fw_upload` the
optimised build has the result of `mt7921_open` still in a register.) The steps
follow the C functions, split where another thread can see a difference: open,
publish, the firmware, monitor mode, channel, bind, listen, storing `pcap_sock`,
accept, header, the three steps of the loop, close, and clearing `g_dev`. `mt7921_close`
is taken apart in the order of its lines, because it may take apart a session that
another thread is working on: `CloseClient` (with `running = 0`), `ClosePort`, `CloseUsb`,
`FreeDev`; between the second and the third the port is free and the adapter open. A
socket whose descriptor is closed while a thread is blocked in `accept` on it, or in
`writev`, may stay with that thread (`orphan`, `stuck`). A `stopDriver` is two steps,
`StopRead` and `StopWrite`. A use of a null or freed session, of a closed libusb handle or
of a descriptor that has been closed is undefined: `BadUse` sets `fault` and the model
stops there; a closed descriptor may also just fail.
Memory is not reused after free. Every call to the adapter may fail; it always
does once the adapter is unplugged (`lost`). The kernel's part is what the code
relies on: `SO_REUSEADDR` lets two sockets bind as long as none listens, `listen`
fails if another does, `accept` waits for a client, `writev` blocks while the
client does not read (`stalled`) and fails when it has gone.

### SequentialDriver

The same actions, with `StartDriver` only when no other call is in progress. That
is how `NativeBridge.kt` presents the interface. `stopDriver` still comes at any
moment.

### MonitorApp

The main thread is one actor: a tap, a broadcast or a service callback is one
step, except for `onDestroy`, which driver threads run beside: entering it,
`stopDriver` in two steps, and the join, which returns or times out (a time-out
can always come before the thread's end). `SendStart` and `StopService` stand for
ActivityManager: a service that is not running is created by a start; stopping it
takes effect at once in its record, `svc`, and the callback follows through
`inbox`. `owner[t]` is the service a descriptor went to; its thread stops that
service when it ends (`stopSelf`). A driver step is a `ThreadStep` of
NativeDriver. `Happens` selects which disturbances an instance goes through:
rotation, closing the activity, plugging in without permission ("ask"),
unplugging, a client that connects. Without "ask" and "unplug" permission comes with
plugging in. The native side's variables are moved by NativeDriver's own actions, so that
what is proved of those carries over (`ImplementsNative`); that holds by construction and
is not counted among the results.

### PcapStream and CaptureFeed

A record is `Parts` units and the socket buffer holds `BufSize`, so that `writev`
copies a record piece by piece. `Connect`, `Read` and `Leave` are the client and
the kernel's accept queue. CaptureFeed is what it is to implement: one viewer,
every item once and in order, and a bound on how far the capture runs ahead. `socket`, `bind`,
`accept` and the `malloc` of the receive buffer can fail, and then there is no stream. The
refinement takes the client's whole items for `delivered` and `BufSize + 1` for
the bound: at most a full buffer, and the item being written.

### Firmware

A blob is `Size` blocks of the file, each also a chunk of the upload: 4096 bytes, the
last one whatever is left. `taken[b]` are the chunks of blob b that were sent since the
adapter last had power; the header of a chunk names an offset only, and where the chip puts it is the
chip's affair.
`ensureFirmware` runs file by file, the ROM first; opening truncates, a failed
copy leaves what was written. `Crash` kills the process at any point;
`PowerLoss` empties `taken` between two sessions; the upload reads whatever is
on disk. In the application nothing calls `ensureFirmware`, although the comment
at mt7921_shim.cpp:14-16 makes the Kotlin layer responsible for the copy: the
model lets it be called at any time, so that what it does is covered when it is.

### ChannelPlan

The labels are those of `onCreate`, `parseChannel` keeps the number and drops the
band, and the command is built as in `mt7921_set_channel`, each field at its
width. Every label is checked, so there is no bound.

### UsbTransfer and BulkTransfer

One transfer at a time, `Rounds` of them in a row, of `Length` bytes in URBs of
`UrbLength`. Which of the three ways of submitting a large transfer is used
(`mode`: one URB, continuation URBs, plain URBs) and whether URBs can be reaped after
a disconnection (`reapCap`) are capabilities of the kernel, chosen initially. Four
parties take turns: `user`, who is in `libusb_bulk_transfer`; `handler`, the
thread in `op_handle_events`; `timer`, whichever thread is in `handle_timeouts`;
and the kernel with the adapter. In the code caller and timer may be the handler
itself; apart they can do more. `itLock` is `itransfer->lock`, held over the loop of
`discard_urbs` (`cursor`), one ioctl a step, so that a URB can complete between two
ioctls; `flying_transfers_lock` is held over steps only by the timer (`FlyingFree`).
`reapAction`, `reapStatus`, `retired` are those of `linux_transfer_priv`;
`allocated` is `tpriv->urbs != NULL`. `Retire` is `handle_bulk_completion` for the
URB just reaped, up to the ioctls; `Settle`, `Unlist`, `Land` and `Callback` are
the four parts of the completion, between which another thread can come in.
`sent` numbers the bytes of the adapter, and `buffer` holds those numbers, so that
a byte lost, doubled or moved shows. A URB that ends in error takes the
continuation URBs behind it along (`Ends`): this is the kernel's side, modelled from the
comments in `submit_bulk_transfer` that rely on it. BulkTransfer is what the caller may
rely on: one end for each transfer, and what it brings is what was taken from the adapter
since the last one, unless the adapter is gone and the kernel gives nothing back, or the
handle is closed. The refinement takes `user # "idle"` for a transfer in progress.

A fifth party is the thread that closes the session in `g_dev` while its own thread is in
`libusb_bulk_transfer`: `BeginRelease` and `KillUrb` (usbfs unlinks what is queued for a
released interface), then `CloseHandle`, where `do_close` takes the transfer off the list
under the events lock, and `ReturnDropped`, where the caller finds no `dev_handle` in its
transfer and frees it. Its URBs have then not been reaped; nobody polls for them any more,
and usbfs copies into the buffer only when a URB is reaped. What a thread does with the
closed handle after that, a new transfer or a cancellation, is undefined and left out.

The program's own transfers are at most 4608 bytes, and libusb splits at 16384: each goes
out as one URB. The cases with several URBs are properties of the library in the tree, and no
hazards of this program; the time-outs, losses, cancellations and closes are both.

### EventHandling

Each `Reader` opens a device, runs transfers on it and closes it; the other threads
interrupt the handler and close a reader's device, in the middle of its transfer
perhaps, as `startDriver` does with the session in `g_dev`: `DoClose` drops what is in
flight (`dropped`), and the reader comes back when it looks at its transfer next. `pc[t]` follows
`sync_transfer_wait_for_completion`, `libusb_handle_events_timeout_completed`,
`handle_events` and `libusb_close`. `handler` owns `events_lock` from step to
step; sections under the other locks are single steps. The event pipe is a
counter: it is written when the first flag goes up and read when the last goes
down, and a read of the empty pipe blocks, since only its write end is made
non-blocking (events_posix.c:118-127): the guard of `Lower`. A time-out is a flag
`late`; `bell` is the one that bounds a thread's wait. A transfer here is with
the kernel, ready, or over. The broadcast comes after the unlock, as in
`libusb_unlock_events`. What a reader does with a closed device is left out. Since a wait that expires is followed by
`get_next_timeout` anyway, the `handle_timeouts` after it changes nothing more.

### Contexts

A `Session` is one `mt7921_open` with its `mt7921_close`; `at[s]` is where it is, split where
`default_context_lock` or the monitor lets others in. Contexts are named after the session
that created them; `alive` are those not freed. `EndSession` is a close by the session's
own thread or by another, and `using[s]` then says that the own one is still inside a
libusb call, from which it comes back by `Leaves`; a call that touches a context that is
gone is `UseAfterFree`. Each time the adapter is plugged in it
is a new device. `usbDevs`, `refcnt` and `hotplugMsgs` are of each context; the list
holds one reference of a device, and passes it to the "left" message (`Removals`).
The monitor reads one netlink message at a time under the hotplug lock. The
shim sets `LIBUSB_OPTION_NO_DEVICE_DISCOVERY` on a context after `libusb_init`, so
that discovery has already run; `op_exit` then sees the option and skips its half, so that
`init_count` is not taken back and the monitor, once started, is never stopped: the
model has this because it follows the code. A failed `libusb_init` is ignored by the
shim: the session works on the fallback context, if there is one (`UsesContext`).
Every step of `op_init` can fail. The scan is taken to find the adapter when it is there; the sessions register no
hotplug callback, so that a message only gives back its reference.

## 3. Runs

| Run | Instance | Shows |
|---|---|---|
| `native` | 2 sessions, 1 stop caller; unplugging, stalls | `TypeOK`. `StopEndsReception`: a session that is receiving and has been stopped returns, whoever closes what meanwhile, unless its client has stopped reading |
| `native_three` | 3 sessions | `OneAdapterReceiving`: overlapping sessions clobber each other's pointer and close each other's session, and the listener still keeps a second one out of the loop until the first is being closed |
| `sequential` | 3 sessions, 1 stop caller | `ThreadsUseOwnSession`, `SessionReleased`, `ReceivesAsSetUp`, and `StopReturns`: a stop at any moment after publication brings `startDriver` back, unless it waits for a client to connect or to read |
| `app` | 2 descriptors; rotation, closing, permission, unplugging | `ServiceHasDriver`, `StopSparesNewService`, `MainThreadGoesOn`, `StartsReachDriver` |
| `service_gone` (violated) | 2 descriptors; rotation, clients | `ServiceKeepsDriver`, from "Keeps the process alive while the native driver runs its USB RX loop": see below |
| `stream` | 2 clients, 4 frames, 3 units a record, 2 in the buffer | `OnlyPrefixes`, and `FeedSpec`: the stream implements CaptureFeed, its fairness included |
| `firmware` | 2 blocks a blob | `LoadedWasSent`, `PatchBeforeRom`, `ReadyUnlessCutShort`, `CopyAndUploadEnd` |
| `channels` | all 96 labels | `LowBandsTuned`, `OtherChannelOtherFrequency` |
| `transfer` | 2 transfers of 5 bytes, URBs of 4, packets of 2, all 3 modes | `NoUseAfterFree`: once the caller is told, no thread is at work on the transfer and the kernel has none of it, or, after a close by another thread, nobody reaps it any more. `BytesInOrder`, `CompleteIsComplete`, `TimeOutIsTold`: what the caller is told is true. `TransferEnds`, and `BulkSpec`: it implements BulkTransfer |
| `events` | 2 readers, one with a time-out, and 1 thread that interrupts them and closes the device of one | `PipeMatchesFlags`, `SleeperHasWaker`, `PollsAllDevices`, `ClosedNotPolled`; `TransferReturns` and `CloseReturns` |
| `contexts` | 2 sessions, closed by their own or another thread, adapter plugged in twice | `MonitorCounted`, `ListsAreCurrent`, `ReferencesOwned`, `MessagesNameDevices`, `CrashHasCause`; `CallsReturn` |
| `six_ghz` (violated) | all labels | `SixGhzTuned`, from "corresponding to 5955–6415 MHz": 6 GHz CH 37, the default, is tuned to 5185 MHz |

`ServiceKeepsDriver` fails like this: the adapter is plugged in, and the activity it starts
is rotated, so that two starts go to one service. The first thread cannot open its adapter
and ends, and its `stopSelf()` (DriverForegroundService.kt:51), which names no start, stops the
service in place. `onDestroy` calls `stopDriver` before the second thread has
stored `g_dev`, and the join gives up. The second driver goes on to receive in a process
that no service keeps, although nobody has pressed STOP. `stopSelf(startId)` would have
left the service alone. `ServiceHasDriver` is the half of the pairing that holds: no
service without a driver.

`SixGhzTuned` is stated as a lower bound; the formula the code has for numbers
outside the two lower bands, 5955 + 5n, also lies 5 MHz above the IEEE centre,
5950 + 5n. The band byte is not always right either: 2.4 GHz channels 1, 5, 9
and 13 satisfy `is_6ghz` and are sent as band 2, which is why `LowBandsTuned`
speaks of the byte for 5 GHz only.

Other behaviours the models show where a property has an exception: a stop
does not end the wait in `accept` nor one in `writev` (`StopReturns` excludes both);
the loop retries for ever when the adapter is gone, and only a stop ends it; a
second client is never served (`OnlyPrefixes` says that it has nothing); a copy cut
short is taken as ready by the next call (`ReadyUnlessCutShort` excludes it); a context
that is gone is used by the thread of a session that another has closed to the end
(`CrashHasCause` names it beside a failed `libusb_init`); a transfer may be dropped with its
handle (`TransferReturns` excludes it: the thread looks again after 60 s at the latest); a device
that leaves before its context is ready, and the devices of a context whose
`libusb_init` fails, are never released (`lost` in `ReferencesOwned`); a transfer
can be reported complete without being so (`CompleteIsComplete` excludes two cases,
below); and the data of a transfer that timed out is handed over by
`libusb_bulk_transfer` (sync.c:202) and then dropped by `mt7921_rx_loop`, which
looks at the result first.

**Claims that fail and no run keeps.** Each is stated beside the properties of its module
and fails in the way given; `six_ghz` and `service_gone` keep runs for two others.

- `StopWritesToLiveSession` (SequentialDriver), from "Safe to call from any thread"
  in NativeBridge.kt: `stopDriver` reads `g_dev`, the driver thread closes and frees
  the session, and `stopDriver` writes `running` into it.
- `StopReachesDriver` (MonitorApp), from "Signals the native driver loop to exit
  cleanly" in NativeBridge.kt: a stop that comes before `startDriver` has stored
  `g_dev` finds null and is forgotten; the driver runs on after the service is gone.
- `EndedSessionsAreClosed` (MonitorApp), from "stop the driver and free all resources"
  in mt7921_shim.h: after a rotation a second start overwrites `g_dev`; the first
  thread to end closes the session it finds there, the other's, and its own is never closed.
- `CompletedWithoutError` (UsbTransfer), from "Transfer completed without error" in
  libusb.h: after an error in an early continuation URB, usbfs refuses the later ones, the
  submission calls that an early completion, and the error is not looked at; or the
  adapter goes away while the transfer is being cancelled.
- `OpenReportsErrors` (Contexts), from "Returns NULL on error" in mt7921_shim.h:76:
  `mt7921_open` does not look at the result of `libusb_init`; with no other context in
  the process `libusb_wrap_sys_device` then works on a null context.

**Bounds.** Two sessions are enough for every race over `g_dev` and a session, since each
is between two threads; for the port it takes three: one that takes the session of
another apart and a third that finds the port free. That run leaves stops,
unplugging and stalls out, none of which makes a thread begin to receive. Three sessions,
one after the other, let a session meet what another left behind and what a late
`stopDriver` still holds. Two descriptors let a start overlap a running driver, and each can be stopped and
started again. `MaxAsks = 1` bounds the unanswered permission requests: a second
answer acts like the first. In the stream, records longer than the buffer make
every record be written in pieces, and four frames let the buffer fill and drain
several times; the second client connects while the first is served. Two blocks
make a first and a last block, and a blob cut in the middle. Transfers: 5
bytes make one URB or, in the modes that split, a full one and a short last one; packets of 2
make a URB take two of them, end in a short one, or overflow; the second
transfer meets what the first has left in the endpoint. Events: three threads are
a handler, a sleeper and one that closes; two readers, of which one has a time-out,
make either handle the other's transfer. A thread closes one device at most. Contexts: two sessions overlap in every
way, and with two plugs a device leaves and its successor comes in one session
(with one plug, three sessions were checked as well).
Deadlock is checked in `firmware` and `channels`. The other systems may stop: all
sessions used, a fault, or a stream that is over.

**Fairness.** NativeDriver: a thread that can go on does (the scheduler; every
transfer ends after 3 s), but nothing makes a client connect, read or leave, and a
listening `accept` is not assumed to fail; nothing is assumed of those who call
`stopDriver`. MonitorApp needs none: that `onDestroy` can go on and that no start is lost
are stated of states.
PcapStream: the driver thread runs, and a client that stays reads, which
`CaptureFeed` needs for delivery. Firmware: a copy and an upload go on.
UsbTransfer: the caller, the event thread and the time-out go on (the shim gives every
transfer a time-out); the adapter may be silent for ever. EventHandling: every
thread goes on and time passes, but the mutexes need not be fair; URBs need not
complete. Contexts: a library call and the monitor go on; a session need not end.

## 4. Proofs

Every theorem holds for all values of the constants that the named assumptions of
its module allow. NativeDriver, for any sets of sessions and stop callers, from
`NullAssumption` alone (`NativeDriverProofs`):

- `TypeCorrect`: `Spec => []TypeOK`.
- `OneAdapter`: `Spec => []OneAdapterReceiving`. The property is not inductive: that
  a listener exists says nothing about who receives. The invariant adds
  `PointsToOpened` (pointers lead to sessions that were opened, each once),
  `SocketOrder` (a socket is in at most one `pcap_sock`, stored after it was
  made), `OrphanClosed` (a listener that outlives its descriptor in a blocked `accept`
  leads only to a session that is closed or being closed) and `ReceivesThroughTied`:
  whoever receives from an open session that nobody is closing has a
  listener that is stored, or can be stored, in that session only. A second
  thread that accepts does so through the one listener, so it works on the same
  session. `TieStep` shows that only a close of the session gives the listener
  up, and `ClosingStays` and `DoomedStays` that a session being closed stays so until it is gone.
  That the kernel lets one socket listen at a time is what `AfterListen` says, an assumption.
- `UsesOwn`, `Released`, `ReceivesSetUp`: `SequentialSpec` implies the three safety
  properties. `SequentialIsDriver` carries over what holds of `Spec`. `OneActive`
  says that one thread at most is in `startDriver` and that `g_dev` is what that
  thread stored; `HoldsInv` says, label by label, what a thread holds: its
  session live, its sockets, monitor mode. It is inductive together with
  `OneActive` and `TypeOK`.

The application, for any set of descriptors (`MonitorAppProofs`):

- `AppOneAdapter`: `OneAdapterReceiving` holds in the application. The theorem of
  `NativeDriverProofs` is instantiated with the main thread as the one that stops
  (`Driver`), and the lemma `ImplementsNative`, that the application takes steps of
  NativeDriver only, gives the hypothesis.
- `TypeCorrect`: `Spec => []TypeOK`, the driver's variables by the same instance, the
  Kotlin side's by its own steps; it needs that `MaxAsks` is a number.
- `ServiceLasts`, `StartsArrive` and `NewServiceSpared`: `ServiceHasDriver`,
  `StartsReachDriver` and `StopSparesNewService`. They rest on the order of the callbacks: no
  destroy follows a start for the service in place (`InOrder`), so that while a driver of that
  service runs no destroy is queued or under way (`NewDriverAlone`); a service is named after
  the descriptor it was created for, whose start is queued until its thread has begun
  (`Owned`), `g_dev` and a stop under way point to threads that have begun (`Pointed`), and a
  thread that has ended took its service with it (`EndedForgotten`).

The stream, for any clients, frames, record and buffer sizes (`PcapStreamProofs`):
`PrefixesOnly` and `LosesNothing`. What the client has read followed by what the buffer
holds is a front of the capture, and as long as what the driver has written while
the client is there (`Front`); there is one client that has anything (`OneServed`).
`FeedSafety`, the safety part of `FeedSpec`: each step is a step of CaptureFeed or leaves
what it sees alone.

The channel (`ChannelPlanProofs`): `LowBandsAreTuned` and `OtherChannelIsHeard`. The last command is
always that of a label of the list (`Tuned`), so both come down to arithmetic on the
three ranges of `chan_to_freq_khz`: a 6 GHz number inside a lower range gets the
frequency of the lower band (the finding of `six_ghz`), but no other number has it.

Firmware, for blobs of any size (`FirmwareProofs`): `LoadedMeansSent`, `PatchGoesFirst`,
`ReadyIsTrue`. The upload goes from the front (`SentIsTaken`), and files are whole or
absent but for the one being copied and after a copy that was cut short (`WholeOrAbsent`).

Event handling, for any finite set of threads (`EventHandlingProofs`): `NoLostWakeUp`,
`PipeIsExact`, `AllPolled`, `NoneClosedPolled`. `Owner` says where the owner of
`events_lock` is; `device_close` counts the threads that close (`Counted`) and its flag
is up meanwhile (`Flagged`), so that a thread that sleeps because of it has its waker;
whoever changes the devices leaves a flag until they are polled anew (`Stale`).

Contexts, for any number of sessions and plugs (`ContextsProofs`). `MonitorIsCounted` and
`CrashExplained`: the lock is held by the one session inside `libusb_init` or
`libusb_exit` (`Holder`), and a session with a context of its own has it from the one to
the other and its handle in it (`Owns`), so that only a thread whose session another has
closed, or whose `libusb_init` failed, meets a context that is gone. `ReferencesAreOwned` and `MessagesHaveDevices`:
a reference is counted once, in the list, in the message of the removal or among the lost
(`Owned`), which needs that a lost device does not come back (`LostForGood`), that the
kernel tells of a removal only once the device is gone (`Reading`), and that an arrival
still to be told is listed or followed by the removal (`Announced`). `ListsStayCurrent`:
what a list has too much of or lacks, a message under way says (`Listed`, `Entered`),
and no message is lost while a list depends on it, because whether a context is scanned
is settled before the first session that does without a context (`Settled`): a monitor
that stops leaves no scanned context and no listed device behind.

`OneReference`: a device has at most one reference in a context and never less than none.
It needs more than the sum of the owners: that a device leaves a list once (`LeftOnce`),
since whoever takes it off finds it gone from the bus and a device that is plugged in again
is another one. `MonitorStays`: `init_count` is the number of contexts that were ever scanned
(`CountNeverFalls`), because a session has set the option by the time it leaves, so the
monitor that the first scan needs is never told to stop. `TypeCorrect` puts these together,
for a finite set of sessions: `TypeOK` bounds the count by their number.

The transfer, for any length and any number of URBs (`UsbTransferProofs`):
a behaviour is as it would be without a foreign close (`Sound`) until the caller finds its
handle closed, and after that the transfer is over and nothing moves but the adapter
(`Dropped`): `Inductive`. The parts of `Sound` are what follows.
`NothingFreedTooEarly` and `TimeOutTold`: a transfer ends when the last URB counts as
retired, so the count must be right at every step (`Counted`: the URBs that are retired,
out, or in the event thread's hands make up the transfer), or at an overflow, and then
it was in the last URB, because the others are whole packets long (`Filling`,
`OverflowLast`; this is where `UrbLength % PacketSize = 0` is needed). Nothing is out of a
transfer that is over (`Settled`), and the flags keep the parties apart: without URBs it
is not cancelled, off the list it does not time out (`Locks`, `Phases`). For the
time-out, a cancellation in progress means that the URBs are still allocated
(`Cancelling`), and the mark goes with the clock's cancellation (`Marked`), so the verdict
is true from `Settle` to the caller (`Verdict`).

`BytesGivenInOrder` follows the bytes through the URBs. usbfs fills URBs, and gives back
those with data, in turn, so the URBs with bytes are a front of the transfer (`Order`).
Each begins where the one before it ended; up to the first short one that is its own place
in the buffer, after it the bytes are moved up behind those that are there (`Stream`).
`BulkSafety`, the refinement `BulkSpec`, follows step by step. `StaysInBuffer`
says that nothing is written outside the caller's buffer: usbfs fills a URB within its own
place, and the bytes of a URB after a short one are moved towards the front, to where those
before it end. `TypeCorrect` bounds the counters.

`CompleteIsFull` rests on the largest invariant, `Report`, because a transfer is reported
complete for want of signs to the contrary: `reap_action` is normal and no status was
recorded. `Report` goes through the ways in which a URB comes back with less than it was to
hold, and finds in each a sign that the verdict takes up, or the short packet that excuses
it: the packet was short (`ShortTold`), the URB was taken back, by a party that has
left its mark or behind a URB with an error (`Blamed`), an error is recorded when its URB is
handled (`Noticed`), or the URB was never queued, and then the submission failed (`Begun`).
URBs end in turn, so that a cancellation that does not find the last URB queued finds none
(`EndedInTurn`, `FoundNone`). The verdict reached is kept until the caller has it (`EarlyExcused`,
`Concluded`).

Every invariant of the passing runs but `MainThreadGoesOn` is a theorem, so is `TypeOK` in
every module that states it, and so are the action property `OtherChannelOtherFrequency`, the
refinement `BulkSpec` and the safety part of `FeedSpec`. Only model-checked: the liveness
properties (`StopEndsReception`, `StopReturns`, `CopyAndUploadEnd`, `TransferEnds`,
`TransferReturns`, `CloseReturns`, `CallsReturn`), the fairness that `FeedSpec` adds, and
`MainThreadGoesOn`, which speaks of ENABLED: both are out of the prover's reach.

## 5. Not modelled

- libusb on other platforms, its examples, tests and tools: the larger part of the
  lines under `cpp/libusb/`, of which nothing goes into the Android build.
- libusb's interfaces that the program does not call: control and isochronous
  transfers, the asynchronous interface, hotplug callbacks, the device list; `os/linux_udev.c`
  and timerfd are not in the build.
- Descriptors and configurations (`descriptor.c`, sysfs): parsing of what the adapter says,
  of which the driver uses nothing but the endpoint numbers it has as constants.
- In EventHandling: `poll` interrupted by a signal or failing, the 60 seconds after which
  every wait ends. In Contexts: failures of the scan once the adapter is there,
  messages lost by a netlink socket that is full.
- In UsbTransfer, EventHandling and Contexts: what is done with a handle after another thread has
  closed it, and two threads that close the same session. Both happen when sessions overlap
  (native_bridge.cpp:63) and both are undefined; NativeDriver has them as `BadUse`.
- The kernel, the adapter and its firmware, except as the code relies on them.
- The sequence number of `mt7921_mcu_send_cmd`: nothing in the code reads it back.
- `fw_loaded` outside Firmware and `dev->channel`: written, never read for control.
- Android's limits: the time `startForeground` must be called in, background
  start restrictions, the process being killed during a session.
- `UsbDeviceConnection` is never closed, a descriptor leaked by each start.
- Reuse of an address after `free`; SIGPIPE (the Android runtime ignores it).
- The log and the status text; notifications.

## 6. Plan

Done: all modules of section 2 and the proofs of section 4. What is left, in this order:

1. Composing UsbTransfer and EventHandling, so that the close of a foreign session is followed
   through the events lock and the transfer at once.
