---------------------------- MODULE NativeDriver ----------------------------
(***************************************************************************)
(* The native half of the application: the JNI entry points startDriver    *)
(* and stopDriver (native_bridge.cpp) and the session they drive           *)
(* (mt7921_shim.cpp), under an arbitrary caller.                           *)
(*                                                                         *)
(* A member of Session stands for one call of startDriver: the thread that *)
(* makes it, the file descriptor it is given, and the mt7921_dev_t, the    *)
(* listening socket and the client socket it may create.  Every thread     *)
(* creates at most one of each, so the thread's name is also theirs.       *)
(* An address is never used again after free.  A member of Stopper is a    *)
(* thread that may call stopDriver.                                        *)
(*                                                                         *)
(* One thread can close the session another is still working on, and       *)
(* mt7921_close is not atomic: client, port, adapter and memory go one     *)
(* after the other (CloseClient, ClosePort, CloseUsb, FreeDev).  A call on *)
(* memory that has been freed, on a libusb handle that has been closed or  *)
(* with a descriptor number that has been closed (the kernel may have      *)
(* given it to another file) has no defined outcome: BadUse sets fault and *)
(* the model stops.  The number may also be still unused, and then the     *)
(* call fails with EBADF and the thread goes on.                           *)
(*                                                                         *)
(* g_dev is one static pointer.  startDriver reads it anew for every call  *)
(* it makes (each is to another translation unit), so the pointer a call   *)
(* works on, arg[t], need not be the one this thread opened.  The build is *)
(* -O2: the pointer that mt7921_open returned is still in a register for   *)
(* the null test and for mt7921_fw_upload, and stopDriver reads g_dev once *)
(* for its test and its store.                                             *)
(***************************************************************************)
EXTENDS Naturals, FiniteSets

CONSTANTS
    Session, Stopper, Null,
    Happens      \* which of "connect", "unplug" and "stall" this instance
                 \* goes through

ASSUME NullAssumption == Null \notin Session

VARIABLES
    pc,          \* where each driver thread is in startDriver
    gDev,        \* the static pointer g_dev
    arg,         \* the mt7921_dev_t* the call in progress works on
    dev,         \* each mt7921_dev_t: not yet allocated, live, its libusb
                 \* handle closed, or freed
    running,     \* dev->running
    monitorMode, \* the adapter behind this dev accepted monitor mode
    pcapSock,    \* dev->pcap_sock, Null for -1
    clientSock,  \* dev->client_sock, Null for -1
    srv,         \* the TCP server socket each thread made, on the kernel's
                 \* side: "none" before and after, "orphan" when it is closed
                 \* and kept by an accept that is blocked on it
    conn,        \* the client connection each thread accepted: "none" before
                 \* and after, "stuck" when it is closed and kept by a writev
                 \* that is blocked on it
    lost,        \* descriptors whose adapter has been unplugged, as long as
                 \* libusb has or may get them
    stopping,    \* the pointer a stopDriver call has read, Null outside one
    fault        \* something that is gone has been used

sessionVars == <<gDev, dev, running, monitorMode, pcapSock, clientSock>>
socketVars == <<srv, conn>>
vars == <<pc, gDev, arg, dev, running, monitorMode, pcapSock, clientSock, srv,
          conn, lost, stopping, fault>>

Pointer == Session \cup {Null}

Label == {"idle", "open", "publish", "upload", "loadMonitor", "monitor",
          "loadTune", "tune", "loadRx", "bind", "listen", "store", "accept",
          "header", "loop", "bulk", "send", "loadClose", "close",
          "closePort", "closeUsb", "free", "clear", "done"}

\* The labels at which the next step of the thread uses *arg[t].
InCall == {"upload", "monitor", "tune", "store", "accept", "header",
           "loop", "bulk", "send", "close", "closePort", "closeUsb", "free"}

\* Among them, those at which it hands arg[t]->dev to libusb.
InUsb == {"upload", "monitor", "tune", "bulk", "closeUsb"}

\* The labels inside the body of mt7921_rx_loop once a client is there.
Receiving == {"header", "loop", "bulk", "send"}

\* The adapter of d is open; and d has not been freed.
Live(d) == d # Null /\ dev[d] = "live"
Allocated(d) == d # Null /\ dev[d] \in {"live", "closed"}

\* The labels inside mt7921_close once it has begun to take d apart.
Closing == {"closePort", "closeUsb", "free"}
BeingClosed(d) == \E v \in Session : pc[v] \in Closing /\ arg[v] = d

Goto(t, l) == pc' = [pc EXCEPT ![t] = l]

Init ==
    /\ pc = [t \in Session |-> "idle"]
    /\ gDev = Null
    /\ arg = [t \in Session |-> Null]
    /\ dev = [d \in Session |-> "none"]
    /\ running = [d \in Session |-> FALSE]
    /\ monitorMode = [d \in Session |-> FALSE]
    /\ pcapSock = [d \in Session |-> Null]
    /\ clientSock = [d \in Session |-> Null]
    /\ srv = [t \in Session |-> "none"]
    /\ conn = [t \in Session |-> "none"]
    /\ lost = {}
    /\ stopping = [c \in Stopper |-> Null]
    /\ fault = FALSE

-----------------------------------------------------------------------------
(* startDriver, up to the RX loop.                                         *)

StartDriver(t) ==
    /\ pc[t] = "idle"
    /\ Goto(t, "open")
    /\ UNCHANGED <<sessionVars, socketVars, arg, lost, stopping, fault>>

\* mt7921_open.  libusb_wrap_sys_device can fail, and does for an adapter
\* that is no longer there; libusb_init and the claim are not checked.
OpenOk(t) ==
    /\ pc[t] = "open"
    /\ t \notin lost
    /\ dev' = [dev EXCEPT ![t] = "live"]
    /\ running' = [running EXCEPT ![t] = TRUE]
    /\ Goto(t, "publish")
    /\ UNCHANGED <<gDev, monitorMode, pcapSock, clientSock, socketVars, arg,
                   lost, stopping, fault>>

OpenFails(t) ==
    /\ pc[t] = "open"
    /\ lost' = lost \ {t}
    /\ Goto(t, "publish")
    /\ UNCHANGED <<sessionVars, socketVars, arg, stopping, fault>>

\* What mt7921_open returned.
\* Variant: an error number in place of NULL.
OpenedErrno(t) == IF dev[t] = "none" THEN 19 ELSE t
Opened(t) == IF dev[t] = "none" THEN Null ELSE t

\* Variant: without the null test.
AfterOpenUntested(d) == "upload"
AfterOpen(d) == IF d = Null THEN "done" ELSE "upload"

\* g_dev = <result of mt7921_open>; if (!g_dev) return.
Publish(t) ==
    /\ pc[t] = "publish"
    /\ gDev' = Opened(t)
    /\ arg' = [arg EXCEPT ![t] = Opened(t)]
    /\ Goto(t, AfterOpen(Opened(t)))
    /\ UNCHANGED <<dev, running, monitorMode, pcapSock, clientSock, socketVars,
                   lost, stopping, fault>>

\* mt7921_fw_upload can fail (no blob, a transfer error) and startDriver goes
\* on whatever it returns; what it sends is in Firmware.  dev->fw_loaded and
\* dev->channel are written and never read: the model leaves them out.
UploadFirmware(t) ==
    /\ pc[t] = "upload"
    /\ Allocated(arg[t])
    /\ Goto(t, "loadMonitor")
    /\ UNCHANGED <<sessionVars, socketVars, arg, lost, stopping, fault>>

\* A call with g_dev as its argument: the pointer is read here.
Loads == {"loadMonitor", "loadTune", "loadRx", "loadClose"}

AfterLoad(l) ==
    CASE l = "loadMonitor" -> "monitor" [] l = "loadTune" -> "tune"
      [] l = "loadRx" -> "bind" [] l = "loadClose" -> "close"

LoadDev(t) ==
    /\ pc[t] \in Loads
    /\ arg' = [arg EXCEPT ![t] = gDev]
    /\ Goto(t, AfterLoad(pc[t]))
    /\ UNCHANGED <<sessionVars, socketVars, lost, stopping, fault>>

\* Variant: a failure is not fatal, as for the firmware and the channel.
MonitorFailedIgnored == "loadTune"
MonitorFailed == "loadClose"

SetMonitorMode(t) ==
    /\ pc[t] = "monitor"
    /\ Allocated(arg[t])
    /\ \/ /\ Live(arg[t]) /\ arg[t] \notin lost
          /\ monitorMode' = [monitorMode EXCEPT ![arg[t]] = TRUE]
          /\ Goto(t, "loadTune")
       \/ Goto(t, MonitorFailed) /\ UNCHANGED monitorMode
    /\ UNCHANGED <<gDev, dev, running, pcapSock, clientSock, socketVars, arg,
                   lost, stopping, fault>>

\* Tuning may fail too, and startDriver goes on either way.
SetChannel(t) ==
    /\ pc[t] = "tune"
    /\ Allocated(arg[t])
    /\ Goto(t, "loadRx")
    /\ UNCHANGED <<sessionVars, socketVars, arg, lost, stopping, fault>>

-----------------------------------------------------------------------------
(* mt7921_rx_loop.                                                         *)

Listener == {s \in Session : srv[s] \in {"listen", "orphan"}}

\* socket + SO_REUSEADDR + bind: the kernel lets two sockets that both set
\* SO_REUSEADDR bind one port as long as none is listening on it.
Bind(t) ==
    /\ pc[t] = "bind"
    /\ \/ /\ Listener = {}
          /\ srv' = [srv EXCEPT ![t] = "bound"]
          /\ Goto(t, "listen")
       \/ Goto(t, "loadClose") /\ UNCHANGED srv
    /\ UNCHANGED <<sessionVars, conn, arg, lost, stopping, fault>>

\* listen, whose result is ignored: it fails when another socket listens.
\* Variant: SO_REUSEPORT, with which every listen succeeds.
AfterListenShared == "listen"
AfterListen == IF Listener = {} THEN "listen" ELSE "bound"

Listen(t) ==
    /\ pc[t] = "listen"
    /\ srv' = [srv EXCEPT ![t] = AfterListen]
    /\ Goto(t, "store")
    /\ UNCHANGED <<sessionVars, conn, arg, lost, stopping, fault>>

\* dev->pcap_sock = srv.
StoreSock(t) ==
    /\ pc[t] = "store"
    /\ Allocated(arg[t])
    /\ pcapSock' = [pcapSock EXCEPT ![arg[t]] = t]
    /\ Goto(t, "accept")
    /\ UNCHANGED <<gDev, dev, running, monitorMode, clientSock, socketVars, arg,
                   lost, stopping, fault>>

\* No other thread is in accept on d.
LastAccept(t, d) == \A u \in Session \ {t} : pc[u] = "accept" => arg[u] # d

\* A listener that was kept for this accept alone ends with it.
LeaveAccept(t) ==
    srv' = [s \in Session |->
        IF /\ srv[s] = "orphan"
           /\ s \in {t, pcapSock[arg[t]]}
           /\ s = pcapSock[arg[t]] => LastAccept(t, arg[t])
        THEN "none" ELSE srv[s]]

\* The listeners the thread may be blocked on: the socket it stored or, if
\* another thread on the same dev stored after it, that one.
AcceptsFrom(t) == {t, pcapSock[arg[t]]} \cap Listener

\* accept(dev->pcap_sock): returns when a client connects.
Accept(t) ==
    /\ "connect" \in Happens
    /\ pc[t] = "accept"
    /\ Allocated(arg[t])
    /\ AcceptsFrom(t) # {}
    /\ conn' = [conn EXCEPT ![t] = "open"]
    /\ clientSock' = [clientSock EXCEPT ![arg[t]] = t]
    /\ LeaveAccept(t)
    /\ Goto(t, "header")
    /\ UNCHANGED <<gDev, dev, running, monitorMode, pcapSock, arg, lost,
                   stopping, fault>>

\* accept fails: the socket does not listen (EINVAL), its descriptor is
\* closed (EBADF), or a kernel error.
AcceptFails(t) ==
    /\ pc[t] = "accept"
    /\ Allocated(arg[t])
    /\ clientSock' = [clientSock EXCEPT ![arg[t]] = Null]
    /\ LeaveAccept(t)
    /\ Goto(t, "loadClose")
    /\ UNCHANGED <<gDev, dev, running, monitorMode, pcapSock, conn, arg, lost,
                   stopping, fault>>

\* Write the pcap header (never blocks: the buffer is empty), malloc rxbuf.
SendHeader(t) ==
    /\ pc[t] = "header"
    /\ Allocated(arg[t])
    /\ \/ Goto(t, "loop")
       \/ Goto(t, "loadClose")
    /\ UNCHANGED <<sessionVars, socketVars, arg, lost, stopping, fault>>

\* Variant: for (;;).
GoesOnAlways(d) == TRUE
GoesOn(d) == running[d]

LoopTest(t) ==
    /\ pc[t] = "loop"
    /\ Allocated(arg[t])
    /\ Goto(t, IF GoesOn(arg[t]) THEN "bulk" ELSE "loadClose")
    /\ UNCHANGED <<sessionVars, socketVars, arg, lost, stopping, fault>>

\* usb_bulk_in: a timeout, an error (retried after 100 ms) or a frame too
\* short to carry a payload goes round the loop; a frame goes to the client.
BulkIn(t) ==
    /\ pc[t] = "bulk"
    /\ Allocated(arg[t])
    /\ \/ Goto(t, "loop")
       \/ Live(arg[t]) /\ arg[t] \notin lost /\ Goto(t, "send")
    /\ UNCHANGED <<sessionVars, socketVars, arg, lost, stopping, fault>>

\* The writev of pcap_send_frame blocks while the client does not read; to a
\* client that left it fails, which nobody looks at.
Blocked(t) ==
    /\ pc[t] = "send"
    /\ Allocated(arg[t])
    /\ clientSock[arg[t]] # Null
    /\ conn[clientSock[arg[t]]] \in {"stalled", "stuck"}

SendFrame(t) ==
    /\ pc[t] = "send"
    /\ Allocated(arg[t])
    /\ ~Blocked(t)
    /\ Goto(t, "loop")
    /\ UNCHANGED <<sessionVars, socketVars, arg, lost, stopping, fault>>

-----------------------------------------------------------------------------
(* The end of startDriver, and stopDriver.                                 *)

\* mt7921_close(arg) with a null pointer does nothing.
CloseNull(t) ==
    /\ pc[t] = "close"
    /\ arg[t] = Null
    /\ Goto(t, "clear")
    /\ UNCHANGED <<sessionVars, socketVars, arg, lost, stopping, fault>>

\* What becomes of a connection whose descriptor is closed.
ConnClosed(s) ==
    {"none"} \cup
    (IF conn[s] \in {"stalled", "stuck"}
        /\ \E u \in Session : pc[u] = "send" /\ clientSock[arg[u]] = s
     THEN {"stuck"} ELSE {})

\* dev->running = 0, and the client's socket is closed.
CloseClient(t) ==
    /\ pc[t] = "close"
    /\ Allocated(arg[t])
    /\ running' = [running EXCEPT ![arg[t]] = FALSE]
    /\ IF clientSock[arg[t]] = Null
       THEN UNCHANGED conn
       ELSE \E c \in ConnClosed(clientSock[arg[t]]) :
               conn' = [conn EXCEPT ![clientSock[arg[t]]] = c]
    /\ Goto(t, "closePort")
    /\ UNCHANGED <<gDev, dev, monitorMode, pcapSock, clientSock, srv, arg, lost,
                   stopping, fault>>

\* What becomes of a server socket whose descriptor is closed: the kernel
\* keeps it for an accept that is already blocked on it.
\* Variant: without close(dev->pcap_sock).
SrvClosedNever(d, s) == {srv[s]}
SrvClosed(d, s) ==
    {"none"} \cup
    (IF s \in Listener /\ \E u \in Session : pc[u] = "accept" /\ arg[u] = d
     THEN {"orphan"} ELSE {})

\* The server socket is closed: the port is free while the adapter is not.
ClosePort(t) ==
    /\ pc[t] = "closePort"
    /\ Allocated(arg[t])
    /\ IF pcapSock[arg[t]] = Null
       THEN UNCHANGED srv
       ELSE \E c \in SrvClosed(arg[t], pcapSock[arg[t]]) :
               srv' = [srv EXCEPT ![pcapSock[arg[t]]] = c]
    /\ Goto(t, "closeUsb")
    /\ UNCHANGED <<sessionVars, conn, arg, lost, stopping, fault>>

\* libusb_release_interface and libusb_close: what other threads have under
\* way on the adapter fails.
CloseUsb(t) ==
    /\ pc[t] = "closeUsb"
    /\ Live(arg[t])
    /\ dev' = [dev EXCEPT ![arg[t]] = "closed"]
    /\ lost' = lost \ {arg[t]}
    /\ Goto(t, "free")
    /\ UNCHANGED <<gDev, running, monitorMode, pcapSock, clientSock, socketVars,
                   arg, stopping, fault>>

\* libusb_exit and free: what the memory held is gone with it.
FreeDev(t) ==
    /\ pc[t] = "free"
    /\ Allocated(arg[t])
    /\ dev' = [dev EXCEPT ![arg[t]] = "freed"]
    /\ monitorMode' = [monitorMode EXCEPT ![arg[t]] = FALSE]
    /\ pcapSock' = [pcapSock EXCEPT ![arg[t]] = Null]
    /\ clientSock' = [clientSock EXCEPT ![arg[t]] = Null]
    /\ Goto(t, "clear")
    /\ UNCHANGED <<gDev, running, socketVars, arg, lost, stopping, fault>>

ClearDev(t) ==
    /\ pc[t] = "clear"
    /\ gDev' = Null
    /\ arg' = [arg EXCEPT ![t] = Null]
    /\ Goto(t, "done")
    /\ UNCHANGED <<dev, running, monitorMode, pcapSock, clientSock, socketVars,
                   lost, stopping, fault>>

\* The call in progress uses a socket descriptor that has been closed.
UsesClosedSocket(t) ==
    \/ /\ pc[t] \in {"header", "send", "close"}
       /\ clientSock[arg[t]] # Null
       /\ conn[clientSock[arg[t]]] \in {"none", "stuck"}
    \/ /\ pc[t] \in {"accept", "closePort"}
       /\ pcapSock[arg[t]] # Null
       /\ srv[pcapSock[arg[t]]] \in {"none", "orphan"}

\* A call in progress uses a dev that is null or freed, a libusb handle or a
\* descriptor that has been closed.
BadUse(t) ==
    /\ pc[t] \in InCall
    /\ ~(pc[t] = "close" /\ arg[t] = Null)
    /\ Allocated(arg[t]) =>
          (pc[t] \in InUsb /\ ~Live(arg[t])) \/ UsesClosedSocket(t)
    /\ fault' = TRUE
    /\ UNCHANGED <<pc, sessionVars, socketVars, arg, lost, stopping>>

\* stopDriver: if (g_dev) ... -- with g_dev null it does nothing.
StopRead(c) ==
    /\ stopping[c] = Null
    /\ gDev # Null
    /\ stopping' = [stopping EXCEPT ![c] = gDev]
    /\ UNCHANGED <<pc, sessionVars, socketVars, arg, lost, fault>>

\* ... g_dev->running = 0.
StopWrite(c) ==
    /\ stopping[c] # Null
    /\ stopping' = [stopping EXCEPT ![c] = Null]
    /\ IF Allocated(stopping[c])
       THEN /\ running' = [running EXCEPT ![stopping[c]] = FALSE]
            /\ UNCHANGED fault
       ELSE fault' = TRUE /\ UNCHANGED running
    /\ UNCHANGED <<pc, gDev, dev, monitorMode, pcapSock, clientSock, socketVars,
                   arg, lost>>

-----------------------------------------------------------------------------
(* The environment: the adapter and the TCP client.                        *)

\* The descriptors libusb has or may still be given.
InUse == {t \in Session : pc[t] \in {"idle", "open"} \/ Live(t)}

\* The adapter behind these descriptors is unplugged.
Unplug(S) ==
    /\ S \subseteq InUse
    /\ ~(S \subseteq lost)
    /\ lost' = lost \cup S
    /\ UNCHANGED <<pc, sessionVars, socketVars, arg, stopping, fault>>

\* A client stops reading, or it reads again or disconnects: either way the
\* next writev returns at once.
ClientStep(s) ==
    /\ \/ conn[s] = "open" /\ conn' = [conn EXCEPT ![s] = "stalled"]
       \/ conn[s] = "stalled" /\ conn' = [conn EXCEPT ![s] = "open"]
       \/ conn[s] = "stuck" /\ conn' = [conn EXCEPT ![s] = "none"]
    /\ UNCHANGED <<pc, sessionVars, srv, arg, lost, stopping, fault>>

-----------------------------------------------------------------------------
\* What a driver thread does by itself once it is in startDriver.
ThreadStep(t) ==
    \/ OpenOk(t) \/ OpenFails(t) \/ Publish(t)
    \/ UploadFirmware(t) \/ LoadDev(t)
    \/ SetMonitorMode(t) \/ SetChannel(t)
    \/ Bind(t) \/ Listen(t) \/ StoreSock(t) \/ Accept(t) \/ AcceptFails(t)
    \/ SendHeader(t) \/ LoopTest(t) \/ BulkIn(t) \/ SendFrame(t)
    \/ CloseNull(t) \/ CloseClient(t) \/ ClosePort(t) \/ CloseUsb(t)
    \/ FreeDev(t) \/ ClearDev(t) \/ BadUse(t)

Environment ==
    \/ "unplug" \in Happens /\ \E S \in SUBSET Session : Unplug(S)
    \/ "stall" \in Happens /\ \E s \in Session : ClientStep(s)

Next ==
    /\ ~fault
    /\ \/ \E t \in Session : StartDriver(t) \/ ThreadStep(t)
       \/ \E c \in Stopper : StopRead(c) \/ StopWrite(c)
       \/ Environment

Spec == Init /\ [][Next]_vars

\* accept blocks for as long as no client connects to a listening socket.
WaitsForClient(t) ==
    /\ pc[t] = "accept"
    /\ Allocated(arg[t])
    /\ AcceptsFrom(t) # {}

\* Driver threads are scheduled and every USB transfer ends (3 s timeout).
\* No client has to connect, read or leave, a listening accept does not fail
\* by itself, and nothing is assumed of the callers of stopDriver.
Fairness ==
    \A t \in Session :
        WF_vars(~fault /\ ~WaitsForClient(t) /\ ThreadStep(t))

FairSpec == Spec /\ Fairness

-----------------------------------------------------------------------------
(* Properties that hold however the entry points are called.               *)

TypeOK ==
    /\ pc \in [Session -> Label]
    /\ gDev \in Pointer
    /\ arg \in [Session -> Pointer]
    /\ dev \in [Session -> {"none", "live", "closed", "freed"}]
    /\ running \in [Session -> BOOLEAN]
    /\ monitorMode \in [Session -> BOOLEAN]
    /\ pcapSock \in [Session -> Pointer]
    /\ clientSock \in [Session -> Pointer]
    /\ srv \in [Session -> {"none", "bound", "listen", "orphan"}]
    /\ conn \in [Session -> {"none", "open", "stalled", "stuck"}]
    /\ lost \subseteq Session
    /\ stopping \in [Stopper -> Pointer]
    /\ fault \in BOOLEAN

\* Two open adapters are received from at a time only while one of them is
\* being closed: the listener keeps a second session out of mt7921_rx_loop
\* until mt7921_close, by whichever thread, has given up the port.
OneAdapterReceiving ==
    \A t, u \in Session :
        /\ pc[t] \in Receiving /\ Live(arg[t])
        /\ pc[u] \in Receiving /\ Live(arg[u])
        /\ arg[t] # arg[u]
        => BeingClosed(arg[t]) \/ BeingClosed(arg[u])

\* A session that is receiving and has been told to stop returns from
\* startDriver, unless its client has stopped reading.
StopEndsReception ==
    \A t \in Session :
        (pc[t] \in Receiving /\ Live(arg[t]) /\ ~running[arg[t]])
            ~> (pc[t] = "done" \/ Blocked(t) \/ fault)
=============================================================================
