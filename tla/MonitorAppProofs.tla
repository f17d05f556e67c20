-------------------------- MODULE MonitorAppProofs --------------------------
(***************************************************************************)
(* Proofs about MonitorApp, for any number of descriptors: a descriptor    *)
(* that was sent reaches its driver thread; the foreground service does    *)
(* not outlive its drivers; the stop of an old service does not reach the  *)
(* driver of a new one; and, from NativeDriverProofs, the application      *)
(* never receives from two adapters neither of which is being closed.      *)
(*                                                                         *)
(* The third one rests on the order of the callbacks: a start for the       *)
(* service in place is never followed by a destroy (InOrder), and a driver *)
(* of that service runs only when no destroy is left or under way          *)
(* (NewDriverAlone).                                                       *)
(***************************************************************************)
EXTENDS MonitorApp, SequenceTheorems, TLAPS

Pointer == Session \cup {Null}

\* What the argument needs of the types.
Types ==
    /\ owner \in [Session -> Pointer] /\ svc \in Pointer
    /\ inbox \in Seq(Callback) /\ exited \subseteq Session
    /\ pc \in [Session -> Native!Label] /\ gDev \in Pointer
    /\ stopping \in [{Main} -> Pointer]

\* A service is named after the descriptor it was created for, and whatever was
\* started has a service.
Owned ==
    /\ \A t \in Session : owner[t] # Null => owner[owner[t]] = owner[t]
    /\ svc # Null => owner[svc] = svc
    /\ \A t \in Session : pc[t] # "idle" => owner[t] # Null
    /\ \A t \in exited : pc[t] # "idle"
    /\ \A i \in 1..Len(inbox) : inbox[i].kind = "start" => owner[inbox[i].fd] # Null

\* g_dev, and the pointer stopDriver has read, belong to threads that were started.
Pointed ==
    /\ gDev # Null => pc[gDev] # "idle"
    /\ stopping[Main] # Null => pc[stopping[Main]] # "idle"
    /\ main = "store" => stopping[Main] # Null

\* No destroy follows a start for the service in place.
InOrder ==
    svc # Null =>
        \A i, j \in 1..Len(inbox) :
            /\ inbox[i].kind = "start" /\ owner[inbox[i].fd] = svc
            /\ i < j
            => inbox[j].kind = "start"

\* While a driver of the service in place runs, nothing is being destroyed.
NewDriverAlone ==
    svc # Null /\ (\E t \in Session : pc[t] # "idle" /\ owner[t] = svc) =>
        /\ main = "idle"
        /\ \A j \in 1..Len(inbox) : inbox[j].kind = "start"

\* A thread that has ended took its service with it.
EndedForgotten == svc # Null => \A t \in exited : owner[t] # svc

IInv == Types /\ Owned /\ Pointed /\ InOrder /\ NewDriverAlone /\ EndedForgotten
        /\ StartsReachDriver

-----------------------------------------------------------------------------
(* What the steps do to the queue of callbacks and to the driver threads.  *)

\* The callback at the head of the queue, and the queue without it.
LEMMA NextStart ==
  ASSUME inbox \in Seq(Callback), inbox # <<>>
  PROVE  /\ Head(inbox) = inbox[1] /\ 1 \in 1..Len(inbox)
         /\ Head(inbox).kind = "start" => Head(inbox).fd \in Session
         /\ Tail(inbox) \in Seq(Callback) /\ Len(Tail(inbox)) = Len(inbox) - 1
         /\ Len(inbox) \in Nat
         /\ \A i \in 1..Len(Tail(inbox)) : Tail(inbox)[i] = inbox[i + 1] /\ i + 1 \in 1..Len(inbox)
<1>1. Len(inbox) \in Nat /\ Len(inbox) # 0
  BY EmptySeq, LenProperties
<1>2. Head(inbox) \in Callback /\ Head(inbox) = inbox[1]
  BY HeadTailProperties
<1> QED
  BY <1>1, <1>2, HeadTailProperties DEF Callback

\* A callback asked for comes after those that are waiting.
LEMMA LastAsked ==
  ASSUME inbox \in Seq(Callback), NEW e \in Callback
  PROVE  /\ Append(inbox, e) \in Seq(Callback) /\ Len(Append(inbox, e)) = Len(inbox) + 1
         /\ Len(inbox) \in Nat
         /\ \A i \in 1..Len(inbox) : Append(inbox, e)[i] = inbox[i]
         /\ Append(inbox, e)[Len(inbox) + 1] = e
  BY AppendProperties, LenProperties

\* A driver thread moves itself, and g_dev to itself or to null.
LEMMA DriverMoves ==
  ASSUME Types, NEW t \in Session, Native!ThreadStep(t)
  PROVE  /\ pc[t] # "idle" /\ pc' \in [Session -> Native!Label]
         /\ pc'[t] # "idle" /\ \A s \in Session \ {t} : pc'[s] = pc[s]
         /\ gDev' \in {gDev, t, Null} /\ stopping' = stopping
  BY SessionAssumption
  DEF Types, Native!ThreadStep, Native!OpenOk, Native!OpenFails, Native!Publish, Native!Opened,
      Native!AfterOpen, Native!UploadFirmware, Native!LoadDev, Native!AfterLoad,
      Native!Loads, Native!SetMonitorMode, Native!MonitorFailed, Native!SetChannel, Native!Bind,
      Native!Listen, Native!StoreSock, Native!Accept, Native!AcceptFails, Native!SendHeader,
      Native!LoopTest, Native!BulkIn, Native!SendFrame, Native!CloseNull, Native!CloseClient,
      Native!ClosePort, Native!CloseUsb, Native!FreeDev, Native!ClearDev,
      Native!BadUse, Native!InCall, Native!Goto, Native!sessionVars, Native!Label

-----------------------------------------------------------------------------
(* The kinds of steps, as far as the argument is concerned.                *)

OwnState == <<owner, svc, inbox, exited>>
Others   == <<pc, gDev, stopping>>

\* MainActivity sends a start for a descriptor that has not been used.
Sends == /\ \E t \in Session : SendStart(t)
         /\ UNCHANGED <<exited, main, Others>>

\* stopService or stopSelf, and perhaps the end of a thread of that service.
Stops == /\ svc # Null /\ svc' = Null /\ inbox' = WithDestroy
         /\ exited' \subseteq {t \in Session : t \in exited \/ pc[t] # "idle"}
         /\ UNCHANGED <<owner, main, Others>>

\* Such a step that finds the service gone.
Ends == /\ exited' \subseteq {t \in Session : t \in exited \/ (pc[t] # "idle" /\ owner[t] # svc)}
        /\ UNCHANGED <<owner, svc, inbox, main, Others>>

\* Steps of the driver threads, and of the main thread in onDestroy.
Drives == /\ \E t \in Session : Native!ThreadStep(t)
          /\ UNCHANGED <<OwnState, main>>

\* Every step is of one of these kinds, a service callback or a step of onDestroy.
LEMMA StepKinds ==
  ASSUME IInv, Next
  PROVE  \/ Sends \/ Stops \/ Ends \/ Drives \/ UNCHANGED <<OwnState, main, Others>>
         \/ ServiceCallback \/ OnDestroyStep
<1> USE DEF OwnState, Others, nativeVars, serviceVars, uiVars
<1>1. CASE Launch \/ Finish
  BY <1>1 DEF Launch, Finish
<1>2. CASE TapStart \/ PermissionAnswer \/ Rotate \/ Plug
  BY <1>2
  DEF TapStart, PermissionAnswer, Rotate, Plug, CheckAndRequestUsb, StartNativeDriver, Sends
<1>3. CASE TapStop
  BY <1>3 DEF TapStop, StopService, Stops, IInv, Types
<1>4. CASE Unplug
  BY <1>4 DEF Unplug
<1>5. ASSUME NEW t \in Session, DriverStep(t) PROVE Drives
  BY <1>5 DEF DriverStep, Drives
<1>6. ASSUME NEW t \in Session, ThreadEnds(t) PROVE Stops \/ Ends
  <2>1. pc[t] # "idle" /\ owner[t] # Null /\ exited \subseteq Session
    BY <1>6 DEF ThreadEnds, IInv, Owned, Types
  <2>2. CASE svc = owner[t]
    BY <1>6, <2>1, <2>2 DEF ThreadEnds, StopSelf, StopService, Stops
  <2>3. CASE svc # owner[t]
    BY <1>6, <2>1, <2>3 DEF ThreadEnds, StopSelf, StopService, Ends
  <2> QED
    BY <2>2, <2>3
<1> QED
  BY <1>1, <1>2, <1>3, <1>4, <1>5, <1>6 DEF Next

-----------------------------------------------------------------------------
\* Nothing is started and nothing asked for at first.
LEMMA InitInv == Init => IInv
<1> SUFFICES ASSUME Init PROVE IInv
  OBVIOUS
<1>1. /\ <<>> \in Seq(Callback) /\ Len(<<>>) = 0
  BY EmptySeq
<1> QED
  BY <1>1, SessionAssumption
  DEF Init, Native!Init, IInv, Types, Pointer, Native!Label, Owned, Pointed, InOrder,
      NewDriverAlone, EndedForgotten, StartsReachDriver

\* A start is sent: the new descriptor's service is the one in place, or a new
\* one that no earlier descriptor has.
LEMMA SendsStep ==
  ASSUME IInv, Sends
  PROVE  IInv'
<1>1. PICK t \in Session : SendStart(t)
  BY DEF Sends
<1> DEFINE r == IF svc = Null THEN t ELSE svc
           e == [kind |-> "start", fd |-> t]
<1>2. /\ owner[t] = Null /\ owner' = [owner EXCEPT ![t] = r] /\ svc' = r
      /\ inbox' = Append(inbox, e) /\ UNCHANGED <<exited, main, pc, gDev, stopping>>
  BY <1>1 DEF Sends, SendStart, WithStart, Others
<1>3. e \in Callback /\ r \in Session /\ r # Null /\ e.kind = "start" /\ e.fd = t
  BY SessionAssumption DEF Callback, IInv, Types, Pointer
<1>4. /\ inbox' \in Seq(Callback) /\ Len(inbox') = Len(inbox) + 1 /\ Len(inbox) \in Nat
      /\ \A i \in 1..Len(inbox) : inbox'[i] = inbox[i]
      /\ inbox'[Len(inbox) + 1] = e
  BY <1>2, <1>3, LastAsked DEF IInv, Types
<1>5. Types'
  BY <1>2, <1>3, <1>4 DEF IInv, Types, Pointer
<1>6. \A s \in Session \ {t} : owner'[s] = owner[s] /\ (svc = Null => owner[s] # t)
  BY <1>2, SessionAssumption DEF IInv, Types, Owned
<1>7. owner'[t] = r /\ owner'[r] = r
  BY <1>2, <1>3 DEF IInv, Types, Owned
<1> HIDE DEF r, e
<1>8. \A i \in 1..Len(inbox') : i \in 1..Len(inbox) \/ i = Len(inbox) + 1
  BY <1>4
<1>9. \A i \in 1..Len(inbox) : inbox[i].kind = "start" => inbox[i].fd \in Session /\ inbox[i].fd # t
  BY <1>2, ElementOfSeq DEF IInv, Types, Owned, Callback
<1>10. Owned'
  BY <1>2, <1>3, <1>4, <1>6, <1>7, <1>8, <1>9, SessionAssumption DEF IInv, Types, Owned
<1>11. Pointed'
  BY <1>2 DEF IInv, Pointed
<1>12. InOrder'
  <2> SUFFICES ASSUME NEW i \in 1..Len(inbox'), NEW j \in 1..Len(inbox'), i < j,
                      inbox'[i].kind = "start", owner'[inbox'[i].fd] = svc'
               PROVE  inbox'[j].kind = "start"
    BY DEF InOrder
  <2>1. CASE j = Len(inbox) + 1
    BY <2>1, <1>3, <1>4
  <2>2. CASE j # Len(inbox) + 1
    <3>1. i \in 1..Len(inbox) /\ j \in 1..Len(inbox)
      BY <2>2, <1>4, <1>8
    <3>2. inbox[i].fd \in Session \ {t} /\ inbox[i].kind = "start" /\ owner[inbox[i].fd] = r
      BY <3>1, <1>2, <1>4, <1>6, <1>9
    <3>3. svc # Null /\ r = svc
      BY <3>2, <1>6 DEF r
    <3> QED
      BY <3>1, <3>2, <3>3, <1>4 DEF IInv, InOrder
  <2> QED
    BY <2>1, <2>2
<1>13. \A s \in Session : pc[s] # "idle" => s # t
  BY <1>2 DEF IInv, Owned
<1>14. NewDriverAlone'
  <2> SUFFICES ASSUME NEW s \in Session, pc'[s] # "idle", owner'[s] = svc'
               PROVE  main' = "idle" /\ \A j \in 1..Len(inbox') : inbox'[j].kind = "start"
    BY DEF NewDriverAlone
  <2>1. s # t /\ owner[s] = r /\ pc[s] # "idle"
    BY <1>2, <1>6, <1>13
  <2>2. svc # Null /\ r = svc
    BY <2>1, <1>6 DEF r
  <2>3. main = "idle" /\ \A j \in 1..Len(inbox) : inbox[j].kind = "start"
    BY <2>1, <2>2 DEF IInv, NewDriverAlone
  <2> QED
    BY <2>3, <1>2, <1>3, <1>4, <1>8
<1>15. EndedForgotten'
  BY <1>2, <1>6, <1>13 DEF IInv, Types, Owned, EndedForgotten, r
<1>16. StartsReachDriver'
  <2> SUFFICES ASSUME NEW s \in Session, owner'[s] # Null, pc'[s] = "idle"
               PROVE  \E i \in 1..Len(inbox') : inbox'[i] = [kind |-> "start", fd |-> s]
    BY DEF StartsReachDriver
  <2>1. CASE s = t
    BY <2>1, <1>4 DEF e
  <2>2. CASE s # t
    <3>1. PICK i \in 1..Len(inbox) : inbox[i] = [kind |-> "start", fd |-> s]
      BY <2>2, <1>2, <1>6 DEF IInv, StartsReachDriver
    <3> QED
      BY <3>1, <1>4
  <2> QED
    BY <2>1, <2>2
<1> QED
  BY <1>5, <1>10, <1>11, <1>12, <1>14, <1>15, <1>16 DEF IInv

\* The service is stopped: a destroy is asked for, and no service is in place.
LEMMA StopsStep ==
  ASSUME IInv, Stops
  PROVE  IInv'
<1> DEFINE e == [kind |-> "destroy"]
<1>1. /\ svc' = Null /\ inbox' = Append(inbox, e)
      /\ exited' \subseteq {t \in Session : t \in exited \/ pc[t] # "idle"}
      /\ UNCHANGED <<owner, main, pc, gDev, stopping>>
  BY DEF Stops, WithDestroy, Others
<1>2. e \in Callback /\ e.kind = "destroy"
  BY DEF Callback
<1>3. /\ inbox' \in Seq(Callback) /\ Len(inbox') = Len(inbox) + 1 /\ Len(inbox) \in Nat
      /\ \A i \in 1..Len(inbox) : inbox'[i] = inbox[i]
      /\ inbox'[Len(inbox) + 1] = e
  BY <1>1, <1>2, LastAsked DEF IInv, Types
<1>4. Types'
  BY <1>1, <1>3 DEF IInv, Types, Pointer
<1> HIDE DEF e
<1>5. \A i \in 1..Len(inbox') : i \in 1..Len(inbox) \/ i = Len(inbox) + 1
  BY <1>3
<1>6. Owned'
  BY <1>1, <1>2, <1>3, <1>5 DEF IInv, Owned
<1>7. Pointed' /\ InOrder' /\ NewDriverAlone' /\ EndedForgotten'
  BY <1>1 DEF IInv, Pointed, InOrder, NewDriverAlone, EndedForgotten
<1>8. StartsReachDriver'
  BY <1>1, <1>3 DEF IInv, StartsReachDriver
<1> QED
  BY <1>4, <1>6, <1>7, <1>8 DEF IInv

\* A thread of an older service ends, or the driver threads go on.
LEMMA ThreadsStep ==
  ASSUME IInv, Ends \/ Drives
  PROVE  IInv'
<1>1. CASE Ends
  BY <1>1
  DEF Ends, Others, IInv, Types, Pointer, Owned, Pointed, InOrder, NewDriverAlone,
      EndedForgotten, StartsReachDriver
<1>2. CASE Drives
  <2>1. PICK t \in Session : Native!ThreadStep(t)
    BY <1>2 DEF Drives
  <2>2. /\ pc' \in [Session -> Native!Label]
        /\ \A s \in Session : pc'[s] # "idle" <=> pc[s] # "idle"
        /\ gDev' \in {gDev, t, Null} /\ stopping' = stopping /\ pc[t] # "idle"
    BY <2>1, DriverMoves DEF IInv
  <2>3. UNCHANGED <<owner, svc, inbox, exited, main>>
    BY <1>2 DEF Drives, OwnState
  <2>4. Types'
    BY <2>2, <2>3 DEF IInv, Types, Pointer
  <2>5. Owned' /\ Pointed'
    BY <2>2, <2>3 DEF IInv, Types, Pointer, Owned, Pointed
  <2>6. InOrder' /\ NewDriverAlone' /\ EndedForgotten' /\ StartsReachDriver'
    BY <2>2, <2>3 DEF IInv, InOrder, NewDriverAlone, EndedForgotten, StartsReachDriver, Types
  <2> QED
    BY <2>4, <2>5, <2>6 DEF IInv
<1> QED
  BY <1>1, <1>2

\* The main thread takes the next callback: a start makes a driver thread.
LEMMA CallbackStep ==
  ASSUME IInv, ServiceCallback
  PROVE  IInv'
<1>1. /\ inbox \in Seq(Callback) /\ inbox # <<>> /\ main = "idle" /\ inbox' = Tail(inbox)
      /\ UNCHANGED <<owner, svc, exited, gDev, stopping>>
  BY DEF ServiceCallback, OnStartCommand, OnDestroy, IInv, Types, serviceVars, nativeVars,
         Native!StartDriver, Native!sessionVars
<1>2. /\ Head(inbox) = inbox[1] /\ 1 \in 1..Len(inbox) /\ Len(inbox) \in Nat
      /\ inbox' \in Seq(Callback) /\ Len(inbox') = Len(inbox) - 1
      /\ \A i \in 1..Len(inbox') : inbox'[i] = inbox[i + 1] /\ i + 1 \in 1..Len(inbox)
  BY <1>1, NextStart
<1>3. \A i, j \in 1..Len(inbox') : i < j => i + 1 < j + 1
  BY <1>2
<1>4. InOrder' /\ EndedForgotten'
  BY <1>1, <1>2, <1>3 DEF IInv, InOrder, EndedForgotten
<1>5. CASE OnStartCommand
  <2> DEFINE t == Head(inbox).fd
  <2>1. /\ Head(inbox).kind = "start" /\ t \in Session
        /\ pc' = [pc EXCEPT ![t] = "open"] /\ UNCHANGED main
    BY <1>1, <1>5, NextStart DEF OnStartCommand, Native!StartDriver, Native!Goto
  <2>2. owner[t] # Null
    BY <1>2, <2>1 DEF IInv, Owned
  <2>3. Types'
    BY <1>1, <1>2, <2>1 DEF IInv, Types, Pointer, Native!Label
  <2>4. \A s \in Session : pc'[s] # "idle" <=> pc[s] # "idle" \/ s = t
    BY <2>1 DEF IInv, Types
  <2>5. Owned' /\ Pointed'
    <3> HIDE DEF t
    <3> QED
      BY <1>1, <1>2, <2>1, <2>2, <2>4 DEF IInv, Types, Pointer, Owned, Pointed
  <2>6. NewDriverAlone'
    <3> SUFFICES ASSUME svc # Null, NEW s \in Session, pc'[s] # "idle", owner[s] = svc,
                        NEW j \in 1..Len(inbox')
                 PROVE  inbox'[j].kind = "start"
      BY <1>1, <2>1 DEF NewDriverAlone
    <3>1. inbox'[j] = inbox[j + 1] /\ j + 1 \in 1..Len(inbox) /\ 1 < j + 1
      BY <1>2
    <3>2. CASE s = t
      BY <3>1, <3>2, <1>2, <2>1 DEF IInv, InOrder
    <3>3. CASE s # t
      BY <3>1, <3>3, <2>4 DEF IInv, NewDriverAlone
    <3> QED
      BY <3>2, <3>3
  <2>7. StartsReachDriver'
    <3> SUFFICES ASSUME NEW s \in Session, owner[s] # Null, pc'[s] = "idle"
                 PROVE  \E i \in 1..Len(inbox') : inbox'[i] = [kind |-> "start", fd |-> s]
      BY <1>1 DEF StartsReachDriver
    <3>1. s # t /\ pc[s] = "idle"
      BY <2>1 DEF IInv, Types
    <3>2. PICK i \in 1..Len(inbox) : inbox[i] = [kind |-> "start", fd |-> s]
      BY <3>1 DEF IInv, StartsReachDriver
    <3>3. i # 1
      BY <3>1, <3>2, <1>2
    <3>4. i - 1 \in 1..Len(inbox') /\ (i - 1) + 1 = i
      BY <3>3, <1>2
    <3> QED
      BY <3>2, <3>4, <1>2
  <2> QED
    BY <1>4, <2>3, <2>5, <2>6, <2>7 DEF IInv
<1>6. CASE OnDestroy
  <2>1. /\ inbox[1].kind = "destroy" /\ main' = "stop" /\ UNCHANGED pc
    BY <1>2, <1>6 DEF OnDestroy, nativeVars
  <2>2. Types' /\ Owned' /\ Pointed'
    BY <1>1, <1>2, <2>1 DEF IInv, Types, Pointer, Owned, Pointed
  <2>3. NewDriverAlone'
    BY <1>1, <1>2, <2>1 DEF IInv, NewDriverAlone
  <2>4. StartsReachDriver'
    <3> SUFFICES ASSUME NEW s \in Session, owner[s] # Null, pc[s] = "idle"
                 PROVE  \E i \in 1..Len(inbox') : inbox'[i] = [kind |-> "start", fd |-> s]
      BY <1>1, <2>1 DEF StartsReachDriver
    <3>1. PICK i \in 1..Len(inbox) : inbox[i] = [kind |-> "start", fd |-> s]
      BY DEF IInv, StartsReachDriver
    <3>2. i # 1
      BY <3>1, <2>1
    <3>3. i - 1 \in 1..Len(inbox') /\ (i - 1) + 1 = i
      BY <3>2, <1>2
    <3> QED
      BY <3>1, <3>3, <1>2
  <2> QED
    BY <1>4, <2>2, <2>3, <2>4 DEF IInv
<1> QED
  BY <1>5, <1>6 DEF ServiceCallback

\* onDestroy goes on: only then does stopDriver read and use g_dev.
LEMMA DestroyStep ==
  ASSUME IInv, OnDestroyStep
  PROVE  IInv'
<1>1. /\ UNCHANGED <<owner, svc, inbox, exited, pc, gDev>> /\ main # "idle"
      /\ stopping' \in [{Main} -> Pointer]
      /\ main' = "store" => gDev # Null /\ stopping'[Main] = gDev
      /\ stopping'[Main] \in {stopping[Main], gDev, Null}
  <2> USE DEF IInv, Types, Pointer, nativeVars, uiVars
  <2>1. CASE CallStopDriver
    BY <2>1 DEF CallStopDriver, Native!StopRead, Native!sessionVars
  <2>2. CASE FinishStopDriver
    BY <2>2 DEF FinishStopDriver, Native!StopWrite, Native!sessionVars
  <2>3. CASE JoinReturns \/ JoinTimesOut
    BY <2>3 DEF JoinReturns, JoinTimesOut
  <2> QED
    BY <2>1, <2>2, <2>3 DEF OnDestroyStep
<1>2. Types' /\ Owned' /\ Pointed'
  BY <1>1 DEF IInv, Types, Owned, Pointed
<1>3. InOrder' /\ NewDriverAlone' /\ EndedForgotten' /\ StartsReachDriver'
  BY <1>1 DEF IInv, InOrder, NewDriverAlone, EndedForgotten, StartsReachDriver
<1> QED
  BY <1>2, <1>3 DEF IInv

\* The invariant holds of every behaviour.
THEOREM Inductive == Spec => []IInv
<1>1. ASSUME IInv, UNCHANGED <<OwnState, main, Others>> PROVE IInv'
  BY <1>1
  DEF OwnState, Others, IInv, Types, Owned, Pointed, InOrder, NewDriverAlone, EndedForgotten,
      StartsReachDriver
<1>2. ASSUME IInv, [Next]_vars PROVE IInv'
  <2>1. CASE UNCHANGED vars
    BY <1>1, <1>2, <2>1 DEF vars, serviceVars, nativeVars, OwnState, Others
  <2>2. CASE Next
    BY <1>1, <1>2, <2>2, StepKinds, SendsStep, StopsStep, ThreadsStep, CallbackStep, DestroyStep
  <2> QED
    BY <1>2, <2>1, <2>2
<1> QED
  BY <1>2, InitInv, PTL DEF Spec

\* The service in place has a driver thread that has not ended, or has yet to
\* begin: the one it was created for.
THEOREM ServiceLasts == Spec => []ServiceHasDriver
<1>1. IInv => ServiceHasDriver
  <2> SUFFICES ASSUME IInv, svc # Null
               PROVE  \E t \in Session : owner[t] = svc /\ t \notin exited
    BY DEF ServiceHasDriver
  <2>1. svc \in Session /\ owner[svc] = svc
    BY DEF IInv, Types, Pointer, Owned
  <2> QED
    BY <2>1 DEF IInv, EndedForgotten
<1> QED
  BY <1>1, Inductive, PTL

\* A descriptor that was sent to the service is on its way to onStartCommand
\* for as long as its driver thread has not begun.
THEOREM StartsArrive == Spec => []StartsReachDriver
<1>1. IInv => StartsReachDriver
  BY DEF IInv
<1> QED
  BY <1>1, Inductive, PTL

\* The pointer that onDestroy's stopDriver writes through never belongs to a driver
\* of the service that is in place by then.
THEOREM NewServiceSpared == Spec => []StopSparesNewService
<1>1. IInv => StopSparesNewService
  <2> SUFFICES ASSUME IInv, main = "store", owner[stopping[Main]] = svc PROVE FALSE
    BY DEF StopSparesNewService
  <2>1. stopping[Main] \in Session /\ pc[stopping[Main]] # "idle"
    BY DEF IInv, Types, Pointer, Pointed
  <2>2. svc # Null
    BY <2>1 DEF IInv, Owned
  <2> QED
    BY <2>1, <2>2 DEF IInv, NewDriverAlone
<1> QED
  BY <1>1, Inductive, PTL

-----------------------------------------------------------------------------
(* The application implements NativeDriver.                                *)

\* A step of the application is one of NativeDriver or leaves it alone.
LEMMA StepImplements ==
  Types /\ [Next]_vars => [Native!Next]_(Native!vars)
<1> SUFFICES ASSUME Types, [Next]_vars PROVE [Native!Next]_(Native!vars)
  OBVIOUS
<1>1. CASE UNCHANGED vars
  BY <1>1 DEF vars, nativeVars, Native!vars
<1>2. CASE Next
  <2> ~fault
    BY <1>2 DEF Next
  <2>1. CASE Launch \/ TapStart \/ PermissionAnswer \/ TapStop \/ Rotate \/ Finish \/ Plug
    BY <2>1
    DEF Launch, TapStart, PermissionAnswer, TapStop, Rotate, Finish, Plug, nativeVars, Native!vars
  <2>2. CASE Unplug
    <3> DEFINE S == {t \in Native!InUse : owner[t] # Null}
    <3>1. CASE S \subseteq lost
      BY <2>2, <3>1 DEF Unplug, Native!vars
    <3>2. CASE ~(S \subseteq lost)
      <4>1. Native!Unplug(S)
        BY <2>2, <3>2 DEF Unplug, Native!Unplug, Native!sessionVars, Native!socketVars
      <4>2. S \in SUBSET Session
        BY DEF Native!InUse
      <4> QED
        BY <2>2, <4>1, <4>2 DEF Native!Next, Native!Environment, Unplug
    <3> QED
      BY <3>1, <3>2
  <2>3. CASE OnDestroy \/ JoinReturns \/ JoinTimesOut
    BY <2>3 DEF OnDestroy, JoinReturns, JoinTimesOut, nativeVars, Native!vars
  <2>4. CASE OnStartCommand
    <3>1. Head(inbox).fd \in Session
      BY <2>4, NextStart DEF OnStartCommand, Types
    <3> QED
      BY <2>4, <3>1 DEF OnStartCommand, Native!Next
  <2>5. CASE CallStopDriver \/ FinishStopDriver
    BY <2>5 DEF CallStopDriver, FinishStopDriver, nativeVars, Native!vars, Native!Next
  <2>6. CASE \E t \in Session : DriverStep(t)
    BY <2>6 DEF DriverStep, Native!Next
  <2>7. CASE \E t \in Session : ThreadEnds(t)
    BY <2>7 DEF ThreadEnds, nativeVars, Native!vars
  <2> QED
    BY <1>2, <2>1, <2>2, <2>3, <2>4, <2>5, <2>6, <2>7 DEF Next, ServiceCallback, OnDestroyStep
<1> QED
  BY <1>1, <1>2

\* The behaviours of the native variables are behaviours of NativeDriver, whose
\* caller may do anything; what is proved of that holds here.
LEMMA ImplementsNative == Spec => Native!Spec
<1>1. Init => Native!Init
  BY DEF Init
<1>2. IInv => Types
  BY DEF IInv
<1> QED
  BY <1>1, <1>2, StepImplements, Inductive, PTL DEF Spec, Native!Spec
-----------------------------------------------------------------------------
(* What is proved of the native side holds of it in the application.  The  *)
(* instance brings in the theorems of NativeDriverProofs; its actions are  *)
(* those of Native under another name.                                     *)

Driver == INSTANCE NativeDriverProofs WITH Stopper <- {Main}

\* They begin alike.
LEMMA SameInit == Native!Init <=> Driver!Init
  BY DEF Native!Init, Driver!Init

\* A driver thread takes the same steps in both.
LEMMA SameThread ==
  ASSUME NEW t \in Session, Native!ThreadStep(t)
  PROVE  Driver!ThreadStep(t)
<1> USE DEF Native!Goto, Driver!Goto, Native!sessionVars, Driver!sessionVars, Native!socketVars,
            Driver!socketVars, Native!Live, Driver!Live, Native!Allocated, Driver!Allocated,
            Native!Listener, Driver!Listener
<1>1. Native!OpenOk(t) \/ Native!OpenFails(t) \/ Native!Publish(t)
      => Driver!OpenOk(t) \/ Driver!OpenFails(t) \/ Driver!Publish(t)
  BY DEF Native!OpenOk, Native!OpenFails, Native!Publish, Native!Opened, Native!AfterOpen,
         Driver!OpenOk, Driver!OpenFails, Driver!Publish, Driver!Opened, Driver!AfterOpen
<1>2. Native!UploadFirmware(t) => Driver!UploadFirmware(t)
  BY DEF Native!UploadFirmware, Driver!UploadFirmware
<1>3. Native!LoadDev(t) => Driver!LoadDev(t)
  <2>1. Native!AfterLoad(pc[t]) = Driver!AfterLoad(pc[t])
    BY Zenon DEF Native!AfterLoad, Driver!AfterLoad
  <2> QED
    BY <2>1 DEF Native!LoadDev, Native!Loads, Driver!LoadDev, Driver!Loads
<1>4. Native!SetMonitorMode(t) => Driver!SetMonitorMode(t)
  BY DEF Native!SetMonitorMode, Native!MonitorFailed, Driver!SetMonitorMode, Driver!MonitorFailed
<1>5. Native!SetChannel(t) => Driver!SetChannel(t)
  BY DEF Native!SetChannel, Driver!SetChannel
<1>6. Native!Bind(t) \/ Native!Listen(t) \/ Native!StoreSock(t)
      => Driver!Bind(t) \/ Driver!Listen(t) \/ Driver!StoreSock(t)
  BY DEF Native!Bind, Native!Listen, Native!AfterListen, Native!StoreSock,
         Driver!Bind, Driver!Listen, Driver!AfterListen, Driver!StoreSock
<1>7. Native!Accept(t) \/ Native!AcceptFails(t) => Driver!Accept(t) \/ Driver!AcceptFails(t)
  BY DEF Native!Accept, Native!AcceptFails, Native!AcceptsFrom, Native!LeaveAccept,
         Native!LastAccept, Driver!Accept, Driver!AcceptFails, Driver!AcceptsFrom,
         Driver!LeaveAccept, Driver!LastAccept
<1>8. Native!SendHeader(t) \/ Native!SendFrame(t) => Driver!SendHeader(t) \/ Driver!SendFrame(t)
  BY DEF Native!SendHeader, Native!SendFrame, Native!Blocked,
         Driver!SendHeader, Driver!SendFrame, Driver!Blocked
<1>9. Native!LoopTest(t) \/ Native!BulkIn(t) => Driver!LoopTest(t) \/ Driver!BulkIn(t)
  BY DEF Native!LoopTest, Native!BulkIn, Native!GoesOn, Driver!LoopTest, Driver!BulkIn, Driver!GoesOn
<1>10. Native!CloseNull(t) \/ Native!CloseClient(t) => Driver!CloseNull(t) \/ Driver!CloseClient(t)
  BY DEF Native!CloseNull, Native!CloseClient, Native!ConnClosed,
         Driver!CloseNull, Driver!CloseClient, Driver!ConnClosed
<1>11. Native!ClosePort(t) => Driver!ClosePort(t)
  BY DEF Native!ClosePort, Native!SrvClosed, Driver!ClosePort, Driver!SrvClosed
<1>12. Native!CloseUsb(t) \/ Native!FreeDev(t) => Driver!CloseUsb(t) \/ Driver!FreeDev(t)
  BY DEF Native!CloseUsb, Native!FreeDev, Driver!CloseUsb, Driver!FreeDev
<1>13. Native!ClearDev(t) \/ Native!BadUse(t) => Driver!ClearDev(t) \/ Driver!BadUse(t)
  BY DEF Native!ClearDev, Native!BadUse, Native!InCall, Native!InUsb, Native!UsesClosedSocket,
         Driver!ClearDev, Driver!BadUse, Driver!InCall, Driver!InUsb, Driver!UsesClosedSocket
<1> QED
  BY <1>1, <1>2, <1>3, <1>4, <1>5, <1>6, <1>7, <1>8, <1>9, <1>10, <1>11, <1>12,
     <1>13
  DEF Native!ThreadStep, Driver!ThreadStep

\* So does everybody else.
LEMMA SameNext == [Native!Next]_(Native!vars) => [Driver!Next]_(Driver!vars)
  BY SameThread
  DEF Native!Next, Native!Environment, Native!StartDriver, Native!ClientStep, Native!Unplug,
      Native!StopRead, Native!StopWrite, Native!vars, Native!sessionVars, Native!socketVars,
      Native!Goto, Native!Live, Native!Allocated, Native!InUse, Driver!Next, Driver!Environment, Driver!StartDriver,
      Driver!ClientStep, Driver!Unplug, Driver!StopRead, Driver!StopWrite, Driver!vars,
      Driver!sessionVars, Driver!socketVars, Driver!Goto, Driver!Live, Driver!Allocated,
      Driver!InUse

\* Every behaviour of the application is one of the native driver.
LEMMA RunsDriver == Spec => Driver!Spec
<1>1. Native!Spec => Driver!Spec
  BY SameInit, SameNext, PTL DEF Native!Spec, Driver!Spec
<1> QED
  BY <1>1, ImplementsNative

\* However the user rotates, stops and starts, and although each start makes a
\* new thread whatever threads there are (DriverForegroundService.onStartCommand),
\* two adapters are received from at a time only while one is being closed.
THEOREM AppOneAdapter == Spec => []Native!OneAdapterReceiving
<1>1. Driver!Spec => []Driver!OneAdapterReceiving
  BY Driver!OneAdapter, SessionAssumption
<1>2. Driver!OneAdapterReceiving => Native!OneAdapterReceiving
  BY DEF Driver!OneAdapterReceiving, Native!OneAdapterReceiving, Driver!Receiving,
         Native!Receiving, Driver!Live, Native!Live, Driver!BeingClosed, Native!BeingClosed,
         Driver!Closing, Native!Closing
<1> QED
  BY <1>1, <1>2, RunsDriver, PTL

\* The variables of the user interface and of onDestroy.
UiTypes ==
    /\ activity \in {"none", "manual", "auto"}
    /\ attached \in BOOLEAN /\ granted \in BOOLEAN /\ driverRunning \in BOOLEAN
    /\ asks \in 0..MaxAsks
    /\ driverThread \in Pointer
    /\ main \in {"idle", "stop", "store", "join"}

\* Every step keeps their types.
LEMMA UiTypesStep ==
  ASSUME IInv, UiTypes, [Next]_vars
  PROVE  UiTypes'
<1> USE DEF UiTypes, uiVars, serviceVars
<1>1. CASE Launch \/ TapStop \/ Finish \/ Unplug
  BY <1>1 DEF Launch, TapStop, Finish, Unplug
<1>2. ASSUME TapStart \/ Rotate \/ Plug \/ PermissionAnswer PROVE UiTypes'
  <2>1. asks' = asks \/ (asks' = asks + 1 /\ asks < MaxAsks) \/ (asks' = asks - 1 /\ asks > 0)
    BY <1>2, Zenon
    DEF TapStart, Rotate, Plug, PermissionAnswer, AnswerDue, CheckAndRequestUsb
  <2>2. asks' \in 0..MaxAsks
    BY <2>1, EventsAssumption
  <2>3. attached' \in BOOLEAN /\ granted' \in BOOLEAN
    BY <1>2, Zenon DEF TapStart, Rotate, Plug, PermissionAnswer
  <2>4. driverRunning' \in BOOLEAN
    BY <1>2, Zenon
    DEF TapStart, Rotate, Plug, PermissionAnswer, CheckAndRequestUsb, StartNativeDriver
  <2>5. activity' \in {"none", "manual", "auto"} /\ UNCHANGED <<driverThread, main>>
    BY <1>2 DEF TapStart, Rotate, Plug, PermissionAnswer
  <2> QED
    BY <2>2, <2>3, <2>4, <2>5
<1>3. CASE OnStartCommand
  BY <1>3, NextStart DEF OnStartCommand, IInv, Types, Pointer
<1>4. CASE OnDestroy \/ OnDestroyStep
  BY <1>4
  DEF OnDestroy, OnDestroyStep, CallStopDriver, FinishStopDriver, JoinReturns, JoinTimesOut,
      Pointer
<1>5. CASE \E t \in Session : DriverStep(t) \/ ThreadEnds(t)
  BY <1>5 DEF DriverStep, ThreadEnds
<1>6. CASE UNCHANGED vars
  BY <1>6 DEF vars
<1> QED
  BY <1>1, <1>2, <1>3, <1>4, <1>5, <1>6 DEF Next, ServiceCallback

\* Every variable of the application has its type.
THEOREM TypeCorrect == Spec => []TypeOK
<1>1. Init => UiTypes
  <2>1. 0 \in 0..MaxAsks
    BY EventsAssumption
  <2> QED
    BY <2>1, Zenon DEF Init, UiTypes, Pointer
<1>2. Driver!Spec => []Driver!TypeOK
  BY Driver!TypeCorrect, SessionAssumption
<1>3. Driver!TypeOK => Native!TypeOK
  BY DEF Driver!TypeOK, Native!TypeOK, Driver!Label, Native!Label, Driver!Pointer, Native!Pointer
<1>4. IInv /\ UiTypes /\ Native!TypeOK => TypeOK
  BY DEF IInv, Types, UiTypes, Pointer, TypeOK
<1> QED
  BY <1>1, <1>2, <1>3, <1>4, UiTypesStep, Inductive, RunsDriver, PTL DEF Spec
=============================================================================
