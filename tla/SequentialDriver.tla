-------------------------- MODULE SequentialDriver --------------------------
(***************************************************************************)
(* NativeDriver under the use its documentation describes: startDriver is  *)
(* called on a dedicated thread and not again before that call has         *)
(* returned.  stopDriver still comes at any moment, from any thread.       *)
(* MonitorApp shows that the application does not keep to this; what       *)
(* follows is what the native code is good for if its callers do.          *)
(***************************************************************************)
EXTENDS NativeDriver

Over == {"idle", "done"}

SequentialNext ==
    /\ ~fault
    /\ \/ \E t \in Session :
             \/ StartDriver(t) /\ \A u \in Session : pc[u] \in Over
             \/ ThreadStep(t)
       \/ \E c \in Stopper : StopRead(c) \/ StopWrite(c)
       \/ Environment

SequentialSpec == Init /\ [][SequentialNext]_vars

FairSequentialSpec == SequentialSpec /\ Fairness

-----------------------------------------------------------------------------
\* No driver thread ever uses a session that is not its own, after it has been
\* freed, or its libusb handle after that has been closed: the reload of g_dev
\* before each call of startDriver finds what this thread stored, whatever
\* earlier sessions and concurrent stops did.
ThreadsUseOwnSession ==
    \A t \in Session :
        pc[t] \in InCall \cup {"bind", "listen"} =>
            arg[t] = t /\ Allocated(t) /\ (pc[t] # "free" => Live(t))

\* A call of startDriver that has returned has given back everything it took:
\* the mt7921_dev_t, the port, the client connection and g_dev, on each of
\* its exits (open, monitor mode, bind, accept or malloc failed; stopped).
SessionReleased ==
    \A t \in Session : pc[t] = "done" =>
        /\ dev[t] \in {"none", "freed"}
        /\ srv[t] = "none"
        /\ conn[t] = "none"
        /\ gDev # t

\* A thread receives only from an adapter that accepted monitor mode in this
\* very session, through a listener and to a client of this session.
ReceivesAsSetUp ==
    \A t \in Session : pc[t] \in Receiving =>
        /\ monitorMode[arg[t]]
        /\ pcapSock[arg[t]] = t /\ srv[t] = "listen"
        /\ clientSock[arg[t]] = t /\ conn[t] \in {"open", "stalled"}

\* A stop takes effect: a session that has been told to stop returns from
\* startDriver unless it waits for a client to connect or to read.
StopReturns ==
    \A t \in Session :
        (dev[t] = "live" /\ pc[t] # "publish" /\ ~running[t])
            ~> (pc[t] = "done" \/ WaitsForClient(t) \/ Blocked(t) \/ fault)

-----------------------------------------------------------------------------
(* A claim of the documentation that the code does not meet.  No run       *)
(* checks it; README.md says how it fails.                                 *)

\* "Safe to call from any thread" (NativeBridge.kt): the session stopDriver
\* writes to is still open when it writes.
StopWritesToLiveSession ==
    \A c \in Stopper : stopping[c] # Null => Allocated(stopping[c])
=============================================================================
