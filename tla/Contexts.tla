------------------------------ MODULE Contexts ------------------------------
(***************************************************************************)
(* libusb as the driver's sessions use it: mt7921_open creates a context,  *)
(* switches discovery off in it and wraps the descriptor, mt7921_close     *)
(* closes the handle and destroys the context.  Sessions overlap, and the  *)
(* thread that closes one may be another than the one that runs it.  That  *)
(* two threads close the same session is left out.                         *)
(*                                                                         *)
(* They share what the library keeps for the process: the list of active   *)
(* contexts, the fallback context, the default options, and the monitor, a *)
(* thread of the library that reads the kernel's hotplug messages and      *)
(* enters and removes devices in every active context.  A context is named *)
(* after the session that created it.  Discovery precedes the option in    *)
(* the shim, so devices are scanned and watched although nobody asks for   *)
(* them.                                                                   *)
(***************************************************************************)
EXTENDS Naturals, Sequences, FiniteSets

CONSTANTS
  Session,   \* the calls of mt7921_open
  Nobody,    \* no session, no context
  Plugs      \* bound: how often the adapter is plugged in; each time is a device of its own

ASSUME ContextsAssumption == Plugs \in Nat /\ Nobody \notin Session

VARIABLES
  at,                \* where each session is
  held,              \* the device behind the session's descriptor
  usbCtx, handleCtx, \* dev->usb_ctx is set; the context of the session's handle
  fdRemoved,         \* hpriv->fd_removed
  using,             \* a session that another thread closes: its own is in libusb
  alive, active, hotplugReady, noDiscovery,   \* contexts: allocated, listed, ready, with the option
  fallback, defaultOption, initCount,         \* usbi_fallback_context, default_context_options
  defaultLock, hotplugLock,                   \* default_context_lock, linux_hotplug_lock
  monitor, stopping, message,   \* the monitor thread, its control event, what it has read
  present, plugs, uevents,      \* the bus, and the netlink socket's queue
  usbDevs, refcnt, hotplugMsgs, \* of each context: usb_devs, the devices' refcnt, hotplug_msgs
  scanned, lost,                \* history: contexts scanned in op_init; devices never released
  crashed                       \* a thread has used a context that does not exist

session == <<at, held, usbCtx, handleCtx, fdRemoved, using>>
context == <<alive, active, hotplugReady, noDiscovery, fallback, defaultOption>>
watch   == <<initCount, monitor, stopping, message, uevents>>
bus     == <<present, plugs>>
devices == <<usbDevs, refcnt, hotplugMsgs, scanned, lost>>
locks   == <<defaultLock, hotplugLock>>
vars == <<session, context, watch, bus, devices, locks, crashed>>

Device == 1 .. Plugs
NoMessage == [act |-> "none", dev |-> 0]

Init ==
  /\ at = [s \in Session |-> "start"] /\ held = [s \in Session |-> 0]
  /\ usbCtx = [s \in Session |-> FALSE] /\ handleCtx = [s \in Session |-> Nobody]
  /\ fdRemoved = [s \in Session |-> FALSE] /\ using = [s \in Session |-> FALSE]
  /\ alive = {} /\ active = {} /\ hotplugReady = {} /\ noDiscovery = {}
  /\ fallback = Nobody /\ defaultOption = FALSE /\ initCount = 0
  /\ defaultLock = Nobody /\ hotplugLock = "free"
  /\ monitor = "off" /\ stopping = FALSE /\ message = NoMessage
  /\ present = 0 /\ plugs = 0 /\ uevents = <<>>
  /\ usbDevs = [c \in Session |-> {}]
  /\ refcnt = [c \in Session |-> [d \in Device |-> 0]]
  /\ hotplugMsgs = [c \in Session |-> <<>>]
  /\ scanned = {} /\ lost = {} /\ crashed = FALSE

Goto(s, l) == at' = [at EXCEPT ![s] = l]
UsesContext(s) == IF usbCtx[s] THEN s ELSE fallback   \* usbi_get_context
Crash == crashed' = TRUE /\ UNCHANGED <<session, context, watch, bus, devices, locks>>

-----------------------------------------------------------------------------
(* Devices of a context.  The list owns one reference; of a device taken   *)
(* off the list the message that it has left owns it.  A context that is   *)
(* not ready yet gets no messages.                                         *)

Tell(ctxs, act, d) ==
  hotplugMsgs' = [c \in Session |->
    IF c \in ctxs \cap hotplugReady
    THEN Append(hotplugMsgs[c], [act |-> act, dev |-> d]) ELSE hotplugMsgs[c]]

\* The contexts in which d is not listed yet.
Lacking(ctxs, d) == {c \in ctxs : d \notin usbDevs[c]}

\* linux_enumerate_device, in each of ctxs; it finds nothing once d is unplugged.
Enumerate(ctxs, d) ==
  LET new == IF d \in Device /\ d = present THEN Lacking(ctxs, d) ELSE {} IN
  /\ usbDevs' = [c \in Session |-> IF c \in new THEN usbDevs[c] \cup {d} ELSE usbDevs[c]]
  /\ refcnt' = [c \in Session |-> IF c \in new THEN [refcnt[c] EXCEPT ![d] = @ + 1] ELSE refcnt[c]]
  /\ Tell(new, "add", d)
  /\ UNCHANGED lost

\* Variant: a context is entered in the list once it is ready.
WatchedReady == active \cap hotplugReady
\* The contexts that hear of plugging: active_contexts_list.
Watched == active

\* linux_device_disconnected
Disconnect(d) ==
  LET gone == {c \in Watched : d \in usbDevs[c]} IN
  /\ usbDevs' = [c \in Session |-> IF c \in gone THEN usbDevs[c] \ {d} ELSE usbDevs[c]]
  /\ Tell(gone, "remove", d)
  /\ lost' = lost \cup {<<c, d>> : c \in gone \ hotplugReady}
  /\ UNCHANGED refcnt

Removals(c, d) ==
  Cardinality({i \in DOMAIN hotplugMsgs[c] : hotplugMsgs[c][i] = [act |-> "remove", dev |-> d]})

-----------------------------------------------------------------------------
(* libusb_init, under default_context_lock.                                *)

Start(s) ==
  /\ at[s] = "start" /\ present # 0
  /\ held' = [held EXCEPT ![s] = present]
  /\ Goto(s, "init")
  /\ UNCHANGED <<usbCtx, handleCtx, fdRemoved, using, context, watch, bus, devices, locks,
                 crashed>>

InitBegins(s) ==
  /\ at[s] = "init" /\ defaultLock = Nobody
  /\ \/ /\ defaultLock' = s /\ Goto(s, "backend")
        /\ alive' = alive \cup {s} /\ active' = active \cup {s}
        /\ noDiscovery' = noDiscovery \cup (IF defaultOption THEN {s} ELSE {})
     \/ /\ Goto(s, "option")   \* out of memory or descriptors
        /\ UNCHANGED <<defaultLock, alive, active, noDiscovery>>
  /\ UNCHANGED <<held, usbCtx, handleCtx, fdRemoved, using, hotplugReady, fallback,
                 defaultOption, watch, bus, devices, hotplugLock, crashed>>

\* op_init as far as the monitor; what fails is the kernel's version, the path of
\* usbfs, or the start of the monitor.
StartMonitor(s) ==
  /\ at[s] = "backend"
  /\ \/ s \in noDiscovery /\ Goto(s, "ready") /\ UNCHANGED monitor
     \/ s \notin noDiscovery /\ initCount > 0 /\ Goto(s, "scan") /\ UNCHANGED monitor
     \/ s \notin noDiscovery /\ initCount = 0 /\ Goto(s, "scan") /\ monitor' = "poll"
     \/ Goto(s, "undo") /\ UNCHANGED monitor
  /\ UNCHANGED <<held, usbCtx, handleCtx, fdRemoved, using, context, initCount, stopping,
                 message, uevents, bus, devices, locks, crashed>>

\* Variant: the monitor is left running when the first scan fails.
StopsMonitorNever(count) == FALSE
\* The monitor goes with the last context that wants it.
StopsMonitor(count) == count = 0

Scan(s) ==
  /\ at[s] = "scan" /\ hotplugLock = "free"
  /\ \/ /\ Enumerate({s}, present) /\ scanned' = scanned \cup {s}
        /\ initCount' = initCount + 1 /\ Goto(s, "ready") /\ UNCHANGED stopping
     \/ /\ stopping' = StopsMonitor(initCount)
        /\ Goto(s, IF stopping' THEN "join_undo" ELSE "undo")
        /\ UNCHANGED <<initCount, devices>>
  /\ UNCHANGED <<held, usbCtx, handleCtx, fdRemoved, using, context, monitor, message,
                 uevents, bus, locks, crashed>>

\* linux_netlink_stop_event_monitor, once pthread_join returns.
Join(s) ==
  /\ at[s] \in {"join_undo", "join_free"} /\ monitor = "ended"
  /\ monitor' = "off" /\ stopping' = FALSE /\ uevents' = <<>>
  /\ Goto(s, IF at[s] = "join_undo" THEN "undo" ELSE "free")
  /\ UNCHANGED <<held, usbCtx, handleCtx, fdRemoved, using, context, initCount, message,
                 bus, devices, locks, crashed>>

\* Variant: the path out of a failed initialisation forgets the lock.
UnlockedNot(s) == s
\* default_context_lock when libusb_init fails in s.
Unlocked(s) == Nobody

\* err_io_exit; usbi_hotplug_exit does nothing, since the context was never ready.
Undo(s) ==
  /\ at[s] = "undo"
  /\ active' = active \ {s} /\ alive' = alive \ {s}
  /\ lost' = lost \cup ({s} \X usbDevs[s])
  /\ usbDevs' = [usbDevs EXCEPT ![s] = {}]
  /\ defaultLock' = Unlocked(s) /\ Goto(s, "option")
  /\ UNCHANGED <<held, usbCtx, handleCtx, fdRemoved, using, hotplugReady, noDiscovery,
                 fallback, defaultOption, watch, bus, refcnt, hotplugMsgs, scanned,
                 hotplugLock, crashed>>

Ready(s) ==
  /\ at[s] = "ready"
  /\ hotplugReady' = hotplugReady \cup {s}
  /\ usbCtx' = [usbCtx EXCEPT ![s] = TRUE]
  /\ fallback' = IF fallback = Nobody THEN s ELSE fallback
  /\ defaultLock' = Nobody /\ Goto(s, "option")
  /\ UNCHANGED <<held, handleCtx, fdRemoved, using, alive, active, noDiscovery,
                 defaultOption, watch, bus, devices, hotplugLock, crashed>>

-----------------------------------------------------------------------------
(* The rest of mt7921_open.  Neither result is looked at: without a        *)
(* context of its own the session works on the fallback context.           *)

SetOption(s) ==
  /\ at[s] = "option" /\ (usbCtx[s] \/ defaultLock = Nobody)
  /\ defaultOption' = (defaultOption \/ ~usbCtx[s])
  /\ noDiscovery' = noDiscovery \cup ({UsesContext(s)} \ {Nobody})
  /\ Goto(s, "wrap")
  /\ UNCHANGED <<held, usbCtx, handleCtx, fdRemoved, using, alive, active, hotplugReady,
                 fallback, watch, bus, devices, locks, crashed>>

Wrap(s) ==
  /\ at[s] = "wrap" /\ held[s] = present
  /\ \/ /\ UsesContext(s) # Nobody
        /\ handleCtx' = [handleCtx EXCEPT ![s] = UsesContext(s)]
        /\ Goto(s, "open")
        /\ UNCHANGED <<held, usbCtx, fdRemoved, using, context, watch, bus, devices,
                       locks, crashed>>
     \/ /\ UsesContext(s) = Nobody   \* ctx->event_data_lock of a null context
        /\ Crash

WrapFails(s) ==
  /\ at[s] = "wrap" /\ Goto(s, "exit")
  /\ UNCHANGED <<held, usbCtx, handleCtx, fdRemoved, using, context, watch, bus, devices,
                 locks, crashed>>

-----------------------------------------------------------------------------
(* While the session is open, its thread handles the context's events, and *)
(* it may still do so while another thread closes the session.             *)

HasHandle(s) == at[s] \in {"open", "close"}
UsesHandle(s) == HasHandle(s) \/ using[s]
UseAfterFree(s) == UsesHandle(s) /\ handleCtx[s] \notin alive /\ Crash
Uses(s, c) == UsesHandle(s) /\ handleCtx[s] = c /\ c \in alive
HandlesEvents(s) == at[s] = "open" \/ using[s]

\* Variant: a message that a device has left does not give back its reference.
GivesBackNot(c, n, d) == refcnt[c][d]
\* refcnt of d once n messages that it has left are gone.
GivesBack(c, n, d) == refcnt[c][d] - n

\* Variant: every message gives back a reference.
OwesAlways(msg) == 1
\* The references a message owns.
Owes(msg) == IF msg.act = "remove" THEN 1 ELSE 0

\* usbi_hotplug_process, one message; the sessions register no callback.
HandleMessage(s) ==
  /\ HandlesEvents(s)
  /\ \E c \in alive :
       /\ Uses(s, c) /\ hotplugMsgs[c] # <<>>
       /\ LET msg == Head(hotplugMsgs[c])
          IN  refcnt' = [refcnt EXCEPT ![c][msg.dev] = GivesBack(c, Owes(msg), msg.dev)]
       /\ hotplugMsgs' = [hotplugMsgs EXCEPT ![c] = Tail(@)]
  /\ UNCHANGED <<session, context, watch, bus, usbDevs, scanned, lost, locks, crashed>>

\* POLLERR in op_handle_events
PollError(s) ==
  /\ HandlesEvents(s) /\ HasHandle(s) /\ handleCtx[s] \in alive
  /\ held[s] # present /\ ~fdRemoved[s]
  /\ hotplugLock = "free"
  /\ fdRemoved' = [fdRemoved EXCEPT ![s] = TRUE]
  /\ Disconnect(held[s])
  /\ UNCHANGED <<at, held, usbCtx, handleCtx, using, context, watch, bus, scanned, locks,
                 crashed>>

\* startDriver closes what it finds in g_dev: the thread that runs the session
\* may be another one, and in libusb.
EndSession(s) ==
  /\ at[s] = "open" /\ Goto(s, "close")
  /\ \E u \in BOOLEAN : using' = [using EXCEPT ![s] = u]
  /\ UNCHANGED <<held, usbCtx, handleCtx, fdRemoved, context, watch, bus, devices, locks, crashed>>

\* The session's own thread comes back from its call, which finds the handle
\* closed or has ended anyway.
Leaves(s) ==
  /\ using[s] /\ using' = [using EXCEPT ![s] = FALSE]
  /\ UNCHANGED <<at, held, usbCtx, handleCtx, fdRemoved, context, watch, bus, devices, locks,
                 crashed>>

CloseHandle(s) ==
  /\ at[s] = "close" /\ handleCtx[s] \in alive /\ Goto(s, "exit")
  /\ UNCHANGED <<held, usbCtx, handleCtx, fdRemoved, using, context, watch, bus, devices,
                 locks, crashed>>

-----------------------------------------------------------------------------
(* libusb_exit, under default_context_lock until the context is freed.     *)

ExitBegins(s) ==
  /\ at[s] = "exit" /\ defaultLock = Nobody
  /\ \/ /\ usbCtx[s]
        /\ defaultLock' = s /\ active' = active \ {s} /\ Goto(s, "hotplug_exit")
     \/ /\ ~usbCtx[s]
        /\ Goto(s, "done") /\ UNCHANGED <<defaultLock, active>>
  /\ UNCHANGED <<held, usbCtx, handleCtx, fdRemoved, using, alive, hotplugReady,
                 noDiscovery, fallback, defaultOption, watch, bus, devices, hotplugLock,
                 crashed>>

HotplugExit(s) ==
  /\ at[s] = "hotplug_exit"
  /\ LET left == [d \in Device |-> GivesBack(s, Removals(s, d), d)] IN
     /\ refcnt' = [refcnt EXCEPT ![s] =
                     [d \in Device |-> IF d \in usbDevs[s] THEN left[d] - 1 ELSE left[d]]]
     /\ usbDevs' = [usbDevs EXCEPT ![s] = {d \in @ : left[d] # 1}]
  /\ hotplugMsgs' = [hotplugMsgs EXCEPT ![s] = <<>>]
  /\ Goto(s, "op_exit")
  /\ UNCHANGED <<held, usbCtx, handleCtx, fdRemoved, using, context, watch, bus, scanned,
                 lost, locks, crashed>>

OpExit(s) ==
  /\ at[s] = "op_exit"
  /\ initCount' = IF s \in noDiscovery THEN initCount ELSE initCount - 1
  /\ stopping' = (s \notin noDiscovery /\ StopsMonitor(initCount'))
  /\ Goto(s, IF stopping' THEN "join_free" ELSE "free")
  /\ UNCHANGED <<held, usbCtx, handleCtx, fdRemoved, using, context, monitor, message,
                 uevents, bus, devices, locks, crashed>>

\* Variant: the implicit context is destroyed.
DestroyedImplicit(s) == fallback
\* The context that goes when s calls libusb_exit.
Destroyed(s) == s

Free(s) ==
  /\ at[s] = "free"
  /\ fallback' = (IF fallback = s THEN Nobody ELSE fallback) /\ defaultLock' = Nobody
  /\ alive' = alive \ {Destroyed(s)} /\ Goto(s, "done")
  /\ UNCHANGED <<held, usbCtx, handleCtx, fdRemoved, using, active, hotplugReady,
                 noDiscovery, defaultOption, watch, bus, devices, hotplugLock, crashed>>

-----------------------------------------------------------------------------
(* The monitor: linux_netlink_event_thread_main.  The control event comes  *)
(* before the messages of the kernel.                                      *)

MonitorPolls ==
  /\ monitor = "poll"
  /\ \/ stopping /\ monitor' = "ended"
     \/ ~stopping /\ uevents # <<>> /\ monitor' = "lock"
  /\ UNCHANGED <<session, context, initCount, stopping, message, uevents, bus, devices, locks,
                 crashed>>

MonitorReads ==
  /\ monitor = "lock" /\ hotplugLock = "free"
  /\ hotplugLock' = "monitor" /\ monitor' = "read"
  /\ message' = Head(uevents) /\ uevents' = Tail(uevents)
  /\ UNCHANGED <<session, context, initCount, stopping, bus, devices, defaultLock, crashed>>

MonitorHandles ==
  /\ monitor = "read"
  /\ \/ message.act = "add" /\ Enumerate(Watched, message.dev)
     \/ message.act = "remove" /\ Disconnect(message.dev)
  /\ hotplugLock' = "free" /\ monitor' = "poll" /\ message' = NoMessage
  /\ UNCHANGED <<session, context, initCount, stopping, uevents, bus, scanned, defaultLock,
                 crashed>>

-----------------------------------------------------------------------------
(* The bus.                                                                *)

\* The socket takes messages from the moment it is bound.
Heard == monitor # "off"

Announce(act, d) ==
  uevents' = IF Heard THEN Append(uevents, [act |-> act, dev |-> d]) ELSE uevents

Plug ==
  /\ present = 0 /\ plugs < Plugs
  /\ plugs' = plugs + 1 /\ present' = plugs' /\ Announce("add", present')
  /\ UNCHANGED <<session, context, initCount, monitor, stopping, message, devices, locks, crashed>>

Unplug ==
  /\ present # 0 /\ present' = 0 /\ Announce("remove", present)
  /\ UNCHANGED <<plugs, session, context, initCount, monitor, stopping, message, devices, locks,
                 crashed>>

-----------------------------------------------------------------------------
Monitor == MonitorPolls \/ MonitorReads \/ MonitorHandles

LibraryStep(s) ==
  \/ InitBegins(s) \/ StartMonitor(s) \/ Scan(s) \/ Join(s) \/ Undo(s) \/ Ready(s)
  \/ SetOption(s) \/ Wrap(s) \/ WrapFails(s) \/ UseAfterFree(s) \/ CloseHandle(s)
  \/ ExitBegins(s) \/ HotplugExit(s) \/ OpExit(s) \/ Free(s)

Step(s) == LibraryStep(s) \/ Start(s) \/ HandleMessage(s) \/ PollError(s) \/ EndSession(s)
           \/ Leaves(s)

Next == /\ ~crashed
        /\ Monitor \/ Plug \/ Unplug \/ \E s \in Session : Step(s)

Spec == Init /\ [][Next]_vars

\* The scheduler lets every thread that can go on go on.  Sessions need not end.
FairSpec == /\ Spec /\ WF_vars(~crashed /\ Monitor)
            /\ \A s \in Session : WF_vars(~crashed /\ LibraryStep(s))

-----------------------------------------------------------------------------
(* Properties.                                                             *)

TypeOK ==
  /\ at \in [Session -> {"start", "init", "backend", "scan", "join_undo", "join_free", "undo",
                         "ready", "option", "wrap", "open", "close", "exit", "hotplug_exit",
                         "op_exit", "free", "done"}]
  /\ held \in [Session -> 0 .. Plugs]
  /\ usbCtx \in [Session -> BOOLEAN] /\ handleCtx \in [Session -> Session \cup {Nobody}]
  /\ fdRemoved \in [Session -> BOOLEAN] /\ using \in [Session -> BOOLEAN]
  /\ alive \subseteq Session /\ active \subseteq alive
  /\ hotplugReady \subseteq Session /\ noDiscovery \subseteq Session
  /\ fallback \in Session \cup {Nobody} /\ defaultOption \in BOOLEAN
  /\ initCount \in 0 .. Cardinality(Session)
  /\ defaultLock \in Session \cup {Nobody} /\ hotplugLock \in {"free", "monitor"}
  /\ monitor \in {"off", "poll", "lock", "read", "ended"} /\ stopping \in BOOLEAN
  /\ present \in 0 .. Plugs /\ plugs \in 0 .. Plugs
  /\ usbDevs \in [Session -> SUBSET Device]
  /\ refcnt \in [Session -> [Device -> 0 .. 1]]
  /\ scanned \subseteq Session /\ lost \subseteq Session \X Device
  /\ crashed \in BOOLEAN

\* The monitor runs exactly while a context counts on it, whichever way
\* libusb_init and libusb_exit end.
MonitorCounted ==
  defaultLock = Nobody => /\ monitor # "off" <=> initCount > 0
                          /\ ~stopping

\* With no message under way, a context that was scanned lists the adapter if
\* and only if it is there, although the scan, the monitor and the thread that
\* meets POLLERR all enter and remove devices; and no context lists one that is
\* gone.
ListsAreCurrent ==
  monitor = "poll" /\ uevents = <<>> /\ ~stopping =>
    \A c \in active \cap hotplugReady :
      /\ usbDevs[c] \subseteq {present}
      /\ c \in scanned => usbDevs[c] = {present} \ {0}

\* Every reference to a device has one owner: the list, or the message that
\* the device has left.  A device that leaves before its context is ready, and
\* the devices of a context that fails to get ready, are never released.
ReferencesOwned ==
  \A c \in Session : \A d \in Device :
    refcnt[c][d] = (IF d \in usbDevs[c] THEN 1 ELSE 0) + Removals(c, d)
                   + (IF <<c, d>> \in lost THEN 1 ELSE 0)

\* A hotplug message holds a pointer to its device and no reference of its
\* own: the device must outlive the messages about it, those about its arrival too.
MessagesNameDevices ==
  \A c \in Session : \A i \in DOMAIN hotplugMsgs[c] : refcnt[c][hotplugMsgs[c][i].dev] > 0

\* A context that is gone or was never there is used for one of two reasons
\* only: libusb_init has failed in the session that uses it, or another thread
\* has closed the session to the end while its own was still in libusb.  The
\* end of one session never takes the context from under another.
CrashHasCause ==
  crashed => \E s \in Session :
               \/ ~usbCtx[s] /\ (at[s] \in {"wrap", "open", "close"} \/ using[s])
               \/ using[s] /\ at[s] = "done"

\* libusb_init, libusb_exit and the rest return: joining the monitor under the
\* lock of the default context blocks nobody for ever.
CallsReturn ==
  \A s \in Session : at[s] \notin {"start", "open", "done"} ~> at[s] \in {"open", "done"} \/ crashed

\* "Returns NULL on error" (mt7921_open in mt7921_shim.h): a context that could
\* not be created makes the call fail, and nothing worse.  This does not hold
\* and no run checks it; README.md says how it fails.
OpenReportsErrors == ~(crashed /\ \E s \in Session : at[s] = "wrap")
=============================================================================
