----------------------------- MODULE MonitorApp -----------------------------
(***************************************************************************)
(* The whole application: MainActivity and DriverForegroundService on the  *)
(* Android main thread, composed with the native sessions of NativeDriver, *)
(* each on the driver thread that onStartCommand creates for it.           *)
(*                                                                         *)
(* A member of Session is also the file descriptor one openDevice call     *)
(* returned: it travels from MainActivity in a service intent to the       *)
(* driver thread.  A running service (ActivityManager's record of it) is   *)
(* named after the descriptor whose intent created it.                     *)
(*                                                                         *)
(* The main thread handles one thing at a time: a tap, a broadcast or a    *)
(* service callback, when it is "idle"; onDestroy is the one handler that  *)
(* other threads' steps interleave with.  ActivityManager delivers service *)
(* callbacks in the order it was asked for them (inbox).                   *)
(***************************************************************************)
EXTENDS Naturals, Sequences, FiniteSets

CONSTANTS
    Session, Null, Main,
    MaxAsks,     \* bound on USB permission requests not yet answered
    Happens      \* which of Events this instance goes through

\* What may happen besides launching, tapping and plugging in; an instance
\* that leaves some out is smaller.
Events == {"rotate", "finish", "ask", "unplug", "connect"}

ASSUME EventsAssumption == MaxAsks \in Nat /\ Happens \subseteq Events
ASSUME SessionAssumption == Null \notin Session

VARIABLES
    activity,        \* "none", or how it was launched: "manual" or "auto"
    attached,        \* the adapter is on the USB bus
    granted,         \* the app holds permission for the attached adapter
    asks,            \* permission requests not yet answered
    driverRunning,   \* MainActivity.driverRunning
    owner,           \* the service each descriptor was sent to, if it was
    svc,             \* the service ActivityManager holds as started
    inbox,           \* service callbacks on their way to the main thread
    driverThread,    \* DriverForegroundService.driverThread
    main,            \* where the main thread is in onDestroy
    exited           \* driver threads that have ended

VARIABLES pc, gDev, arg, dev, running, monitorMode, pcapSock, clientSock, srv,
          conn, lost, stopping, fault

Native == INSTANCE NativeDriver WITH Stopper <- {Main}

uiVars == <<activity, attached, granted, asks, driverRunning>>
serviceVars == <<owner, svc, inbox, driverThread, main, exited>>
nativeVars == <<pc, gDev, arg, dev, running, monitorMode, pcapSock,
                clientSock, srv, conn, lost, stopping, fault>>
vars == <<uiVars, serviceVars, nativeVars>>

Callback == [kind : {"start"}, fd : Session] \cup [kind : {"destroy"}]

TypeOK ==
    /\ activity \in {"none", "manual", "auto"}
    /\ attached \in BOOLEAN /\ granted \in BOOLEAN /\ driverRunning \in BOOLEAN
    /\ asks \in 0..MaxAsks
    /\ owner \in [Session -> Session \cup {Null}]
    /\ svc \in Session \cup {Null}
    /\ inbox \in Seq(Callback)
    /\ driverThread \in Session \cup {Null}
    /\ main \in {"idle", "stop", "store", "join"}
    /\ exited \subseteq Session
    /\ Native!TypeOK

Init ==
    /\ activity = "none"
    /\ attached = FALSE
    /\ granted = FALSE
    /\ asks = 0
    /\ driverRunning = FALSE
    /\ owner = [t \in Session |-> Null]
    /\ svc = Null
    /\ inbox = <<>>
    /\ driverThread = Null
    /\ main = "idle"
    /\ exited = {}
    /\ Native!Init

-----------------------------------------------------------------------------
(* What the handlers of MainActivity are made of.                          *)

\* Variant: the activity calls the service object itself, past the queue.
WithStartAtOnce(t) == <<[kind |-> "start", fd |-> t]>> \o inbox
WithStart(t) == Append(inbox, [kind |-> "start", fd |-> t])

\* openDevice and startForegroundService with the new descriptor; a service
\* that is not running is created.
SendStart(t) ==
    LET r == IF svc = Null THEN t ELSE svc
    IN  /\ owner[t] = Null
        /\ owner' = [owner EXCEPT ![t] = r]
        /\ svc' = r
        /\ inbox' = WithStart(t)

\* startNativeDriver, in an activity whose driverRunning is was; openDevice
\* may return null.
StartNativeDriver(was) ==
    \/ driverRunning' = was /\ UNCHANGED <<owner, svc, inbox>>
    \/ driverRunning' = TRUE /\ \E t \in Session : SendStart(t)

\* checkAndRequestUsb with the adapter found and permission held or not.
CheckAndRequestUsb(was, permission) ==
    \/ /\ permission
       /\ StartNativeDriver(was)
       /\ UNCHANGED asks
    \/ /\ ~permission
       /\ asks < MaxAsks
       /\ asks' = asks + 1
       /\ driverRunning' = was
       /\ UNCHANGED <<owner, svc, inbox>>

\* Variant: the intents still on their way are dropped.
WithDestroyAlone == <<[kind |-> "destroy"]>>
WithDestroy == Append(inbox, [kind |-> "destroy"])

\* stopService, or stopSelf of the service r itself: ActivityManager forgets
\* the service at once and has it destroyed.
StopService(r) ==
    IF svc = r /\ r # Null
    THEN svc' = Null /\ inbox' = WithDestroy
    ELSE UNCHANGED <<svc, inbox>>

-----------------------------------------------------------------------------
(* MainActivity on the main thread.                                        *)

\* onCreate from the launcher.
Launch ==
    /\ main = "idle"
    /\ activity = "none"
    /\ activity' = "manual"
    /\ driverRunning' = FALSE
    /\ UNCHANGED <<attached, granted, asks, serviceVars, nativeVars>>

\* START; without an adapter on the bus nothing happens.
TapStart ==
    /\ main = "idle"
    /\ activity # "none"
    /\ ~driverRunning
    /\ attached
    /\ CheckAndRequestUsb(FALSE, granted)
    /\ UNCHANGED <<activity, attached, granted, driverThread, main, exited,
                   nativeVars>>

AnswerDue == asks > 0

\* The user answers a permission request: onReceive starts the driver when
\* granted, whether or not one is running.  The broadcast is lost when no
\* activity has its receiver registered.
PermissionAnswer ==
    /\ main = "idle"
    /\ AnswerDue
    /\ asks' = asks - 1
    /\ \/ /\ attached
          /\ granted' = TRUE
          /\ IF activity = "none"
             THEN UNCHANGED <<driverRunning, owner, svc, inbox>>
             ELSE StartNativeDriver(driverRunning)
       \/ UNCHANGED <<granted, driverRunning, owner, svc, inbox>>
    /\ UNCHANGED <<activity, attached, driverThread, main, exited, nativeVars>>

\* STOP.
TapStop ==
    /\ main = "idle"
    /\ activity # "none"
    /\ driverRunning
    /\ driverRunning' = FALSE
    /\ StopService(svc)
    /\ UNCHANGED <<activity, attached, granted, asks, owner, driverThread,
                   main, exited, nativeVars>>

\* A configuration change: the activity is destroyed and created again with
\* the same intent and driverRunning back at its initial value.
Rotate ==
    /\ "rotate" \in Happens
    /\ main = "idle"
    /\ activity # "none"
    /\ IF activity = "auto" /\ attached
       THEN CheckAndRequestUsb(FALSE, granted)
       ELSE driverRunning' = FALSE /\ UNCHANGED <<asks, owner, svc, inbox>>
    /\ UNCHANGED <<activity, attached, granted, driverThread, main, exited,
                   nativeVars>>

\* The activity is closed; the service and its thread stay.
Finish ==
    /\ "finish" \in Happens
    /\ main = "idle"
    /\ activity # "none"
    /\ activity' = "none"
    /\ driverRunning' = FALSE
    /\ UNCHANGED <<attached, granted, asks, serviceVars, nativeVars>>

-----------------------------------------------------------------------------
(* The adapter.                                                            *)

\* The attach intent launches the activity, with permission; one that is
\* there already is singleTask and does not look at a new intent.
Plug ==
    /\ main = "idle"
    /\ ~attached
    /\ attached' = TRUE
    /\ \/ /\ activity = "none"
          /\ activity' = "auto"
          /\ granted' = TRUE
          /\ CheckAndRequestUsb(FALSE, TRUE)
       \/ /\ granted' \in (IF "ask" \in Happens THEN BOOLEAN ELSE {TRUE})
          /\ UNCHANGED <<activity, asks, driverRunning, owner, svc, inbox>>
    /\ UNCHANGED <<driverThread, main, exited, nativeVars>>

Unplug ==
    /\ "unplug" \in Happens
    /\ attached
    /\ attached' = FALSE
    /\ granted' = FALSE
    /\ lost' = lost \cup {t \in Native!InUse : owner[t] # Null}
    /\ UNCHANGED <<activity, asks, driverRunning, serviceVars, pc, gDev, arg,
                   dev, running, monitorMode, pcapSock, clientSock, srv, conn,
                   stopping, fault>>

-----------------------------------------------------------------------------
(* DriverForegroundService on the main thread.                             *)

\* onStartCommand: a new driver thread, whatever threads there are already.
OnStartCommand ==
    /\ main = "idle"
    /\ inbox # <<>>
    /\ Head(inbox).kind = "start"
    /\ inbox' = Tail(inbox)
    /\ driverThread' = Head(inbox).fd
    /\ Native!StartDriver(Head(inbox).fd)
    /\ UNCHANGED <<uiVars, owner, svc, main, exited>>

\* onDestroy: stopDriver, then join for at most two seconds.
OnDestroy ==
    /\ main = "idle"
    /\ inbox # <<>>
    /\ Head(inbox).kind = "destroy"
    /\ inbox' = Tail(inbox)
    /\ main' = "stop"
    /\ UNCHANGED <<uiVars, owner, svc, driverThread, exited, nativeVars>>

CallStopDriver ==
    /\ main = "stop"
    /\ IF gDev = Null
       THEN main' = "join" /\ UNCHANGED nativeVars
       ELSE main' = "store" /\ Native!StopRead(Main)
    /\ UNCHANGED <<uiVars, owner, svc, inbox, driverThread, exited>>

FinishStopDriver ==
    /\ main = "store"
    /\ main' = "join"
    /\ Native!StopWrite(Main)
    /\ UNCHANGED <<uiVars, owner, svc, inbox, driverThread, exited>>

JoinReturns ==
    /\ main = "join"
    /\ driverThread \in exited \cup {Null}
    /\ main' = "idle"
    /\ driverThread' = Null
    /\ UNCHANGED <<uiVars, owner, svc, inbox, exited, nativeVars>>

JoinTimesOut ==
    /\ main = "join"
    /\ driverThread \notin exited \cup {Null}
    /\ main' = "idle"
    /\ driverThread' = Null
    /\ UNCHANGED <<uiVars, owner, svc, inbox, exited, nativeVars>>

-----------------------------------------------------------------------------
(* The driver threads.                                                     *)

DriverStep(t) == Native!ThreadStep(t) /\ UNCHANGED <<uiVars, serviceVars>>

\* Variant: without stopSelf.
StopSelfNever(t) == UNCHANGED <<svc, inbox>>
StopSelf(t) == StopService(owner[t])

\* startDriver has returned: stopSelf, and the thread ends.
ThreadEnds(t) ==
    /\ pc[t] = "done"
    /\ t \notin exited
    /\ exited' = exited \cup {t}
    /\ StopSelf(t)
    /\ UNCHANGED <<uiVars, owner, driverThread, main, nativeVars>>

-----------------------------------------------------------------------------
ServiceCallback == OnStartCommand \/ OnDestroy
OnDestroyStep == CallStopDriver \/ FinishStopDriver \/ JoinReturns
                 \/ JoinTimesOut

Next ==
    /\ ~fault
    /\ \/ Launch \/ TapStart \/ PermissionAnswer \/ TapStop \/ Rotate
       \/ Finish \/ Plug \/ Unplug
       \/ ServiceCallback \/ OnDestroyStep
       \/ \E t \in Session : DriverStep(t) \/ ThreadEnds(t)

Spec == Init /\ [][Next]_vars

-----------------------------------------------------------------------------
(* Properties the application keeps.                                       *)

\* onDestroy never waits for a driver thread that hangs in accept, in a writev
\* or in a USB transfer: whatever the thread does, the main thread can go on.
MainThreadGoesOn == main # "idle" => ENABLED OnDestroyStep

\* A descriptor handed to startForegroundService reaches startDriver, however
\* often the service is stopped and created again in between: until its thread
\* has begun, its start is among the callbacks the looper has yet to handle.
StartsReachDriver ==
    \A t \in Session : owner[t] # Null /\ pc[t] = "idle" =>
        \E i \in 1..Len(inbox) : inbox[i] = [kind |-> "start", fd |-> t]

\* The foreground service does not outlive its drivers: it is in place only
\* as long as a thread it was started for has not ended, or not begun.
ServiceHasDriver ==
    svc # Null => \E t \in Session : owner[t] = svc /\ t \notin exited

\* The stop of a service on its way out never reaches the driver of the
\* service the user has started since, although both go through the one g_dev:
\* the new driver thread is not there before onDestroy has returned.
StopSparesNewService ==
    main = "store" => owner[stopping[Main]] # svc

-----------------------------------------------------------------------------
(* Claims of the documentation that the code does not meet.  A run shows   *)
(* how the first one fails, README.md how the others do.                   *)

\* "Keeps the process alive while the native driver runs its USB RX loop"
\* (DriverForegroundService): as long as the user has not pressed STOP, and
\* with no callback left to be handled, a driver that is receiving and has not
\* been told to stop has a service in place.
ServiceKeepsDriver ==
    driverRunning /\ main = "idle" /\ inbox = <<>> =>
        \A t \in Session :
            /\ pc[t] \in Native!Receiving
            /\ Native!Live(arg[t]) /\ running[arg[t]]
            => svc # Null

\* "stop the driver and free all resources" (mt7921_close), which every exit
\* of startDriver calls: a thread that has ended leaves no open session.
EndedSessionsAreClosed ==
    \A t \in exited : dev[t] # "live"

\* "Signals the native driver loop to exit cleanly" (NativeBridge.stopDriver):
\* the session of the thread onDestroy waits for has got the signal.
StopReachesDriver ==
    \A t \in Session :
        main = "join" /\ driverThread = t => pc[t] = "done" \/ ~running[t]
=============================================================================
