------------------------- MODULE NativeDriverProofs -------------------------
(***************************************************************************)
(* Safety of NativeDriver for any set of sessions and of stopDriver        *)
(* callers: type correctness, and the exclusion that pcap_server_init      *)
(* gives the second of two overlapping sessions until the first is being   *)
(* closed.                                                                 *)
(*                                                                         *)
(* And of SequentialDriver: with one driver thread at a time the native    *)
(* code is right, whatever stopDriver calls come in between.  Each thread  *)
(* works on its own session only and gives everything back.                *)
(***************************************************************************)
EXTENDS SequentialDriver, TLAPS

\* Every step keeps the variables in their types.
LEMMA TypeStep == TypeOK /\ [Next]_vars => TypeOK'
<1> SUFFICES ASSUME TypeOK, [Next]_vars PROVE TypeOK'
  OBVIOUS
<1> USE DEF TypeOK, Label, Pointer, Goto, sessionVars, socketVars
<1>1. ASSUME NEW t \in Session, StartDriver(t)
      PROVE  TypeOK'
  BY <1>1 DEF StartDriver
<1>2. ASSUME NEW t \in Session, OpenOk(t)
      PROVE  TypeOK'
  BY <1>2 DEF OpenOk
<1>3. ASSUME NEW t \in Session, OpenFails(t)
      PROVE  TypeOK'
  BY <1>3 DEF OpenFails
<1>4. ASSUME NEW t \in Session, Publish(t)
      PROVE  TypeOK'
  BY <1>4 DEF Publish, Opened, AfterOpen
<1>5. ASSUME NEW t \in Session, UploadFirmware(t)
      PROVE  TypeOK'
  BY <1>5 DEF UploadFirmware
<1>6. ASSUME NEW t \in Session, LoadDev(t)
      PROVE  TypeOK'
  <2>1. AfterLoad(pc[t]) \in Label
    BY <1>6 DEF LoadDev, Loads, AfterLoad
  <2> QED BY <1>6, <2>1 DEF LoadDev
<1>7. ASSUME NEW t \in Session, SetMonitorMode(t) \/ SetChannel(t)
      PROVE  TypeOK'
  BY <1>7 DEF SetMonitorMode, MonitorFailed, SetChannel
<1>8. ASSUME NEW t \in Session, Bind(t)
      PROVE  TypeOK'
  BY <1>8 DEF Bind
<1>9. ASSUME NEW t \in Session, Listen(t)
      PROVE  TypeOK'
  BY <1>9 DEF Listen, AfterListen
<1>10. ASSUME NEW t \in Session, StoreSock(t)
      PROVE  TypeOK'
  BY <1>10 DEF StoreSock
<1>11. ASSUME NEW t \in Session, Accept(t) \/ AcceptFails(t)
      PROVE  TypeOK'
  <2>1. srv' \in [Session -> {"none", "bound", "listen", "orphan"}]
    BY <1>11 DEF Accept, AcceptFails, LeaveAccept
  <2>2. /\ clientSock' \in [Session -> Pointer]
        /\ conn' \in [Session -> {"none", "open", "stalled", "stuck"}]
        /\ pc' \in [Session -> Label]
    BY <1>11 DEF Accept, AcceptFails
  <2>3. UNCHANGED <<gDev, dev, running, monitorMode, pcapSock, arg, lost,
                    stopping, fault>>
    BY <1>11 DEF Accept, AcceptFails
  <2> QED
    BY <2>1, <2>2, <2>3
<1>12. ASSUME NEW t \in Session, SendHeader(t) \/ LoopTest(t)
                 \/ BulkIn(t) \/ SendFrame(t)
      PROVE  TypeOK'
  BY <1>12 DEF SendHeader, LoopTest, GoesOn, BulkIn, SendFrame
<1>13. ASSUME NEW t \in Session, CloseNull(t) \/ CloseClient(t)
      PROVE  TypeOK'
  <2>1. CASE CloseNull(t)
    BY <2>1 DEF CloseNull
  <2>2. CASE CloseClient(t)
    <3>1. conn' \in [Session -> {"none", "open", "stalled", "stuck"}]
      BY <2>2 DEF CloseClient, ConnClosed
    <3>2. running' \in [Session -> BOOLEAN] /\ pc' \in [Session -> Label]
      BY <2>2 DEF CloseClient
    <3> QED
      BY <2>2, <3>1, <3>2 DEF CloseClient
  <2> QED
    BY <1>13, <2>1, <2>2
<1>14. ASSUME NEW t \in Session, ClosePort(t)
      PROVE  TypeOK'
  <2>1. srv' \in [Session -> {"none", "bound", "listen", "orphan"}]
    BY <1>14 DEF ClosePort, SrvClosed
  <2> QED
    BY <1>14, <2>1 DEF ClosePort
<1>15. ASSUME NEW t \in Session, CloseUsb(t)
      PROVE  TypeOK'
  BY <1>15 DEF CloseUsb
<1>16. ASSUME NEW t \in Session, FreeDev(t)
      PROVE  TypeOK'
  BY <1>16 DEF FreeDev
<1>17. ASSUME NEW t \in Session, ClearDev(t) \/ BadUse(t)
      PROVE  TypeOK'
  BY <1>17 DEF ClearDev, BadUse
<1>18. ASSUME NEW c \in Stopper, StopRead(c) \/ StopWrite(c)
      PROVE  TypeOK'
  BY <1>18 DEF StopRead, StopWrite
<1>19. ASSUME Environment PROVE TypeOK'
  BY <1>19 DEF Environment, Unplug, ClientStep
<1>20. CASE UNCHANGED vars
  BY <1>20 DEF vars
<1> QED
  BY <1>1, <1>2, <1>3, <1>4, <1>5, <1>6, <1>7, <1>8, <1>9, <1>10, <1>11,
     <1>12, <1>13, <1>14, <1>15, <1>16, <1>17, <1>18, <1>19, <1>20
  DEF Next, ThreadStep

\* The variables always have their types.
THEOREM TypeCorrect == Spec => []TypeOK
<1>1. Init => TypeOK
  <2> SUFFICES ASSUME Init PROVE TypeOK
    OBVIOUS
  <2>1. running \in [Session -> BOOLEAN] /\ monitorMode \in [Session -> BOOLEAN]
    BY Zenon DEF Init
  <2> QED
    BY <2>1 DEF Init, TypeOK, Label, Pointer
<1> QED
  BY <1>1, TypeStep, PTL DEF Spec

-----------------------------------------------------------------------------
(* OneAdapterReceiving.  The kernel lets one socket listen on the port at  *)
(* a time (AfterListen).  What has to be shown is that this keeps one dev  *)
(* to receive from: that a thread which begins to receive does so through  *)
(* a listener that is tied to its dev, that only taking the dev apart      *)
(* breaks the tie, and that a listener which outlives its descriptor in a  *)
(* blocked accept leads to no dev but one that is being taken apart.       *)

\* What the kernel guarantees, and what the exclusion starts from.
AtMostOneListener == \A s1, s2 \in Listener : s1 = s2

\* The labels before the server socket of the thread is in dev->pcap_sock.
Unstored == {"idle", "open", "publish", "upload", "loadMonitor", "monitor",
             "loadTune", "tune", "loadRx", "bind", "listen", "store"}

\* The only dev that server socket s is or can still be stored in is d.
TiedTo(s, d) ==
    /\ \A e \in Session : pcapSock[e] = s => e = d
    /\ pc[s] \in {"store", "accept"} => arg[s] = d

\* The adapter of d is closed, or a thread is on its way to close it.
Doomed(d) == dev[d] \in {"closed", "freed"} \/ BeingClosed(d)

\* A pointer to a dev is there only after the dev has been allocated, once.
PointsToOpened ==
    /\ \A t \in Session : pc[t] \in {"idle", "open"} => dev[t] = "none"
    /\ \A t \in Session : arg[t] # Null => dev[arg[t]] # "none"
    /\ gDev # Null => dev[gDev] # "none"

SocketOrder ==
    /\ \A t \in Session : pc[t] \in Unstored \ {"store"} => srv[t] # "listen"
    /\ \A t \in Session : pc[t] \in Unstored => srv[t] # "orphan"
    /\ \A t, e \in Session : pc[t] \in Unstored => pcapSock[e] # t
    /\ \A t, e \in Session :
          pc[t] = "accept" /\ pcapSock[e] = t => e = arg[t]
    /\ \A d, e \in Session :
          pcapSock[d] = pcapSock[e] /\ pcapSock[d] # Null => d = e

OrphanClosed ==
    \A s \in Session : srv[s] = "orphan" =>
        /\ \A e \in Session : pcapSock[e] = s => Doomed(e)
        /\ pc[s] = "accept" => arg[s] # Null /\ Doomed(arg[s])

ReceivesThroughTied ==
    \A t \in Session :
        pc[t] \in Receiving /\ Live(arg[t]) /\ ~BeingClosed(arg[t]) =>
            \E s \in Session : srv[s] = "listen" /\ TiedTo(s, arg[t])

\* Only Listen creates a listener, and it finds none when it does.
LEMMA ListenerStep ==
    TypeOK /\ AtMostOneListener /\ [Next]_vars => AtMostOneListener'
<1> SUFFICES ASSUME TypeOK, AtMostOneListener, [Next]_vars
             PROVE  AtMostOneListener'
  OBVIOUS
<1> USE DEF AtMostOneListener, Listener, TypeOK, sessionVars, socketVars
<1>1. ASSUME NEW t \in Session, StartDriver(t)
      PROVE  AtMostOneListener'
  BY <1>1 DEF StartDriver
<1>2. ASSUME NEW t \in Session, OpenOk(t)
      PROVE  AtMostOneListener'
  BY <1>2 DEF OpenOk
<1>3. ASSUME NEW t \in Session, OpenFails(t)
      PROVE  AtMostOneListener'
  BY <1>3 DEF OpenFails
<1>4. ASSUME NEW t \in Session, Publish(t)
      PROVE  AtMostOneListener'
  BY <1>4 DEF Publish, Opened, AfterOpen
<1>5. ASSUME NEW t \in Session, UploadFirmware(t)
      PROVE  AtMostOneListener'
  BY <1>5 DEF UploadFirmware
<1>6. ASSUME NEW t \in Session, LoadDev(t)
      PROVE  AtMostOneListener'
  BY <1>6 DEF LoadDev, Loads, AfterLoad
<1>7. ASSUME NEW t \in Session, SetMonitorMode(t) \/ SetChannel(t)
      PROVE  AtMostOneListener'
  BY <1>7 DEF SetMonitorMode, MonitorFailed, SetChannel
<1>8. ASSUME NEW t \in Session, Bind(t)
      PROVE  AtMostOneListener'
  BY <1>8 DEF Bind
<1>9. ASSUME NEW t \in Session, Listen(t)
      PROVE  AtMostOneListener'
  BY <1>9 DEF Listen, AfterListen
<1>10. ASSUME NEW t \in Session, StoreSock(t)
      PROVE  AtMostOneListener'
  BY <1>10 DEF StoreSock
<1>11. ASSUME NEW t \in Session, Accept(t) \/ AcceptFails(t)
      PROVE  AtMostOneListener'
  BY <1>11 DEF Accept, AcceptFails, LeaveAccept
<1>12. ASSUME NEW t \in Session, SendHeader(t) \/ LoopTest(t)
                 \/ BulkIn(t) \/ SendFrame(t)
      PROVE  AtMostOneListener'
  BY <1>12 DEF SendHeader, LoopTest, GoesOn, BulkIn, SendFrame
<1>13. ASSUME NEW t \in Session, CloseNull(t) \/ CloseClient(t)
      PROVE  AtMostOneListener'
  BY <1>13 DEF CloseNull, CloseClient
<1>14. ASSUME NEW t \in Session, ClosePort(t)
      PROVE  AtMostOneListener'
  BY <1>14 DEF ClosePort, SrvClosed
<1>15. ASSUME NEW t \in Session, CloseUsb(t)
      PROVE  AtMostOneListener'
  BY <1>15 DEF CloseUsb
<1>16. ASSUME NEW t \in Session, FreeDev(t)
      PROVE  AtMostOneListener'
  BY <1>16 DEF FreeDev
<1>17. ASSUME NEW t \in Session, ClearDev(t) \/ BadUse(t)
      PROVE  AtMostOneListener'
  BY <1>17 DEF ClearDev, BadUse
<1>18. ASSUME NEW c \in Stopper, StopRead(c) \/ StopWrite(c)
      PROVE  AtMostOneListener'
  BY <1>18 DEF StopRead, StopWrite
<1>19. ASSUME Environment PROVE AtMostOneListener'
  BY <1>19 DEF Environment, Unplug, ClientStep
<1>20. CASE UNCHANGED vars
  BY <1>20 DEF vars
<1> QED
  BY <1>1, <1>2, <1>3, <1>4, <1>5, <1>6, <1>7, <1>8, <1>9, <1>10, <1>11,
     <1>12, <1>13, <1>14, <1>15, <1>16, <1>17, <1>18, <1>19, <1>20
  DEF Next, ThreadStep

\* Pointers to sessions are made by Publish alone, from an allocated one.
LEMMA PointsToOpenedStep ==
    TypeOK /\ PointsToOpened /\ [Next]_vars => PointsToOpened'
<1> SUFFICES ASSUME TypeOK, PointsToOpened, [Next]_vars PROVE PointsToOpened'
  OBVIOUS
<1> USE DEF PointsToOpened, TypeOK, Pointer, Label, Goto, sessionVars,
            socketVars
<1>1. ASSUME NEW t \in Session, StartDriver(t)
      PROVE  PointsToOpened'
  BY <1>1 DEF StartDriver
<1>2. ASSUME NEW t \in Session, OpenOk(t)
      PROVE  PointsToOpened'
  BY <1>2 DEF OpenOk
<1>3. ASSUME NEW t \in Session, OpenFails(t)
      PROVE  PointsToOpened'
  BY <1>3 DEF OpenFails
<1>4. ASSUME NEW t \in Session, Publish(t)
      PROVE  PointsToOpened'
  BY <1>4 DEF Publish, Opened, AfterOpen
<1>5. ASSUME NEW t \in Session, UploadFirmware(t)
      PROVE  PointsToOpened'
  BY <1>5 DEF UploadFirmware
<1>6. ASSUME NEW t \in Session, LoadDev(t)
      PROVE  PointsToOpened'
  BY <1>6 DEF LoadDev, Loads, AfterLoad
<1>7. ASSUME NEW t \in Session, SetMonitorMode(t) \/ SetChannel(t)
      PROVE  PointsToOpened'
  BY <1>7 DEF SetMonitorMode, MonitorFailed, SetChannel
<1>8. ASSUME NEW t \in Session, Bind(t)
      PROVE  PointsToOpened'
  BY <1>8 DEF Bind
<1>9. ASSUME NEW t \in Session, Listen(t)
      PROVE  PointsToOpened'
  BY <1>9 DEF Listen, AfterListen
<1>10. ASSUME NEW t \in Session, StoreSock(t)
      PROVE  PointsToOpened'
  BY <1>10 DEF StoreSock
<1>11. ASSUME NEW t \in Session, Accept(t) \/ AcceptFails(t)
      PROVE  PointsToOpened'
  BY <1>11 DEF Accept, AcceptFails, LeaveAccept
<1>12. ASSUME NEW t \in Session, SendHeader(t) \/ LoopTest(t)
                 \/ BulkIn(t) \/ SendFrame(t)
      PROVE  PointsToOpened'
  BY <1>12 DEF SendHeader, LoopTest, GoesOn, BulkIn, SendFrame
<1>13. ASSUME NEW t \in Session, CloseNull(t) \/ CloseClient(t)
      PROVE  PointsToOpened'
  BY <1>13 DEF CloseNull, CloseClient
<1>14. ASSUME NEW t \in Session, ClosePort(t)
      PROVE  PointsToOpened'
  BY <1>14 DEF ClosePort, SrvClosed
<1>15. ASSUME NEW t \in Session, CloseUsb(t)
      PROVE  PointsToOpened'
  BY <1>15 DEF CloseUsb, Live
<1>16. ASSUME NEW t \in Session, FreeDev(t)
      PROVE  PointsToOpened'
  BY <1>16 DEF FreeDev, Allocated
<1>17. ASSUME NEW t \in Session, ClearDev(t) \/ BadUse(t)
      PROVE  PointsToOpened'
  BY <1>17 DEF ClearDev, BadUse
<1>18. ASSUME NEW c \in Stopper, StopRead(c) \/ StopWrite(c)
      PROVE  PointsToOpened'
  BY <1>18 DEF StopRead, StopWrite
<1>19. ASSUME Environment PROVE PointsToOpened'
  BY <1>19 DEF Environment, Unplug, ClientStep
<1>20. CASE UNCHANGED vars
  BY <1>20 DEF vars
<1> QED
  BY <1>1, <1>2, <1>3, <1>4, <1>5, <1>6, <1>7, <1>8, <1>9, <1>10, <1>11,
     <1>12, <1>13, <1>14, <1>15, <1>16, <1>17, <1>18, <1>19, <1>20
  DEF Next, ThreadStep

\* A socket gets into one dev->pcap_sock only, and only by StoreSock.
LEMMA SocketOrderStep ==
    TypeOK /\ SocketOrder /\ [Next]_vars => SocketOrder'
<1> SUFFICES ASSUME TypeOK, SocketOrder, [Next]_vars PROVE SocketOrder'
  OBVIOUS
<1> USE DEF SocketOrder, Unstored, TypeOK, Pointer, Label, Goto, sessionVars,
            socketVars
<1>1. ASSUME NEW t \in Session, StartDriver(t)
      PROVE  SocketOrder'
  BY <1>1 DEF StartDriver
<1>2. ASSUME NEW t \in Session, OpenOk(t)
      PROVE  SocketOrder'
  BY <1>2 DEF OpenOk
<1>3. ASSUME NEW t \in Session, OpenFails(t)
      PROVE  SocketOrder'
  BY <1>3 DEF OpenFails
<1>4. ASSUME NEW t \in Session, Publish(t)
      PROVE  SocketOrder'
  BY <1>4 DEF Publish, Opened, AfterOpen
<1>5. ASSUME NEW t \in Session, UploadFirmware(t)
      PROVE  SocketOrder'
  BY <1>5 DEF UploadFirmware
<1>6. ASSUME NEW t \in Session, LoadDev(t)
      PROVE  SocketOrder'
  BY <1>6 DEF LoadDev, Loads, AfterLoad
<1>7. ASSUME NEW t \in Session, SetMonitorMode(t) \/ SetChannel(t)
      PROVE  SocketOrder'
  BY <1>7 DEF SetMonitorMode, MonitorFailed, SetChannel
<1>8. ASSUME NEW t \in Session, Bind(t)
      PROVE  SocketOrder'
  BY <1>8 DEF Bind
<1>9. ASSUME NEW t \in Session, Listen(t)
      PROVE  SocketOrder'
  BY <1>9 DEF Listen, AfterListen
<1>10. ASSUME NEW t \in Session, StoreSock(t)
      PROVE  SocketOrder'
  BY <1>10 DEF StoreSock
<1>11. ASSUME NEW t \in Session, Accept(t) \/ AcceptFails(t)
      PROVE  SocketOrder'
  <2>1. \A s \in Session : srv'[s] = srv[s] \/ srv'[s] = "none"
    BY <1>11 DEF Accept, AcceptFails, LeaveAccept
  <2>2. PICK l \in {"header", "loadClose"} : pc' = [pc EXCEPT ![t] = l]
    BY <1>11 DEF Accept, AcceptFails
  <2>3. UNCHANGED <<pcapSock, arg>>
    BY <1>11 DEF Accept, AcceptFails
  <2> QED
    BY <2>1, <2>2, <2>3
<1>12. ASSUME NEW t \in Session, SendHeader(t) \/ LoopTest(t)
                 \/ BulkIn(t) \/ SendFrame(t)
      PROVE  SocketOrder'
  <2>1. PICK l \in {"loop", "bulk", "send", "loadClose"} :
           pc' = [pc EXCEPT ![t] = l]
    BY <1>12 DEF SendHeader, LoopTest, GoesOn, BulkIn, SendFrame
  <2>2. UNCHANGED <<srv, pcapSock, arg>>
    BY <1>12 DEF SendHeader, LoopTest, GoesOn, BulkIn, SendFrame
  <2> QED
    BY <2>1, <2>2
<1>13. ASSUME NEW t \in Session, CloseNull(t) \/ CloseClient(t)
      PROVE  SocketOrder'
  BY <1>13 DEF CloseNull, CloseClient
<1>14. ASSUME NEW t \in Session, ClosePort(t)
      PROVE  SocketOrder'
  <2>1. \A s \in Session : srv'[s] = "listen" => srv[s] = "listen"
    BY <1>14 DEF ClosePort, SrvClosed
  <2>2. \A s \in Session :
           srv'[s] = "orphan" => srv[s] = "orphan" \/ s = pcapSock[arg[t]]
    BY <1>14 DEF ClosePort, SrvClosed
  <2>3. /\ pc[t] = "closePort" /\ pc' = [pc EXCEPT ![t] = "closeUsb"]
        /\ arg[t] \in Session
        /\ UNCHANGED <<pcapSock, arg>>
    BY <1>14 DEF ClosePort, Allocated
  <2> QED
    BY <2>1, <2>2, <2>3
<1>15. ASSUME NEW t \in Session, CloseUsb(t)
      PROVE  SocketOrder'
  BY <1>15 DEF CloseUsb
<1>16. ASSUME NEW t \in Session, FreeDev(t)
      PROVE  SocketOrder'
  BY <1>16, NullAssumption DEF FreeDev, Allocated
<1>17. ASSUME NEW t \in Session, ClearDev(t) \/ BadUse(t)
      PROVE  SocketOrder'
  BY <1>17 DEF ClearDev, BadUse
<1>18. ASSUME NEW c \in Stopper, StopRead(c) \/ StopWrite(c)
      PROVE  SocketOrder'
  BY <1>18 DEF StopRead, StopWrite
<1>19. ASSUME Environment PROVE SocketOrder'
  BY <1>19 DEF Environment, Unplug, ClientStep
<1>20. CASE UNCHANGED vars
  BY <1>20 DEF vars
<1> QED
  BY <1>1, <1>2, <1>3, <1>4, <1>5, <1>6, <1>7, <1>8, <1>9, <1>10, <1>11,
     <1>12, <1>13, <1>14, <1>15, <1>16, <1>17, <1>18, <1>19, <1>20
  DEF Next, ThreadStep

\* A thread that goes on receiving keeps its pointer and has been receiving
\* from an open session: only Accept makes a thread receive, LoadDev and
\* Publish alone change pointers, and no session is opened twice.
LEMMA StillReceiving ==
    ASSUME TypeOK, PointsToOpened, [Next]_vars,
           NEW u \in Session, pc'[u] \in Receiving, Live(arg[u])', ~Accept(u)
    PROVE  pc[u] \in Receiving /\ arg'[u] = arg[u] /\ Live(arg[u])
<1> USE DEF PointsToOpened, Live, Receiving, TypeOK, Pointer, Label, Goto,
            sessionVars, socketVars
<1>1. ASSUME NEW t \in Session, StartDriver(t)
      PROVE  pc[u] \in Receiving /\ arg'[u] = arg[u] /\ Live(arg[u])
  BY <1>1 DEF StartDriver
<1>2. ASSUME NEW t \in Session, OpenOk(t)
      PROVE  pc[u] \in Receiving /\ arg'[u] = arg[u] /\ Live(arg[u])
  BY <1>2 DEF OpenOk
<1>3. ASSUME NEW t \in Session, OpenFails(t)
      PROVE  pc[u] \in Receiving /\ arg'[u] = arg[u] /\ Live(arg[u])
  BY <1>3 DEF OpenFails
<1>4. ASSUME NEW t \in Session, Publish(t)
      PROVE  pc[u] \in Receiving /\ arg'[u] = arg[u] /\ Live(arg[u])
  BY <1>4 DEF Publish, Opened, AfterOpen
<1>5. ASSUME NEW t \in Session, UploadFirmware(t)
      PROVE  pc[u] \in Receiving /\ arg'[u] = arg[u] /\ Live(arg[u])
  BY <1>5 DEF UploadFirmware
<1>6. ASSUME NEW t \in Session, LoadDev(t)
      PROVE  pc[u] \in Receiving /\ arg'[u] = arg[u] /\ Live(arg[u])
  BY <1>6 DEF LoadDev, Loads, AfterLoad
<1>7. ASSUME NEW t \in Session, SetMonitorMode(t) \/ SetChannel(t)
      PROVE  pc[u] \in Receiving /\ arg'[u] = arg[u] /\ Live(arg[u])
  BY <1>7 DEF SetMonitorMode, MonitorFailed, SetChannel
<1>8. ASSUME NEW t \in Session, Bind(t)
      PROVE  pc[u] \in Receiving /\ arg'[u] = arg[u] /\ Live(arg[u])
  BY <1>8 DEF Bind
<1>9. ASSUME NEW t \in Session, Listen(t)
      PROVE  pc[u] \in Receiving /\ arg'[u] = arg[u] /\ Live(arg[u])
  BY <1>9 DEF Listen, AfterListen
<1>10. ASSUME NEW t \in Session, StoreSock(t)
      PROVE  pc[u] \in Receiving /\ arg'[u] = arg[u] /\ Live(arg[u])
  BY <1>10 DEF StoreSock
<1>11. ASSUME NEW t \in Session, Accept(t) \/ AcceptFails(t)
      PROVE  pc[u] \in Receiving /\ arg'[u] = arg[u] /\ Live(arg[u])
  BY <1>11 DEF Accept, AcceptFails, LeaveAccept
<1>12. ASSUME NEW t \in Session, SendHeader(t) \/ LoopTest(t)
                 \/ BulkIn(t) \/ SendFrame(t)
      PROVE  pc[u] \in Receiving /\ arg'[u] = arg[u] /\ Live(arg[u])
  BY <1>12 DEF SendHeader, LoopTest, GoesOn, BulkIn, SendFrame
<1>13. ASSUME NEW t \in Session, CloseNull(t) \/ CloseClient(t)
      PROVE  pc[u] \in Receiving /\ arg'[u] = arg[u] /\ Live(arg[u])
  BY <1>13 DEF CloseNull, CloseClient
<1>14. ASSUME NEW t \in Session, ClosePort(t)
      PROVE  pc[u] \in Receiving /\ arg'[u] = arg[u] /\ Live(arg[u])
  BY <1>14 DEF ClosePort, SrvClosed
<1>15. ASSUME NEW t \in Session, CloseUsb(t)
      PROVE  pc[u] \in Receiving /\ arg'[u] = arg[u] /\ Live(arg[u])
  BY <1>15 DEF CloseUsb
<1>16. ASSUME NEW t \in Session, FreeDev(t)
      PROVE  pc[u] \in Receiving /\ arg'[u] = arg[u] /\ Live(arg[u])
  BY <1>16 DEF FreeDev
<1>17. ASSUME NEW t \in Session, ClearDev(t) \/ BadUse(t)
      PROVE  pc[u] \in Receiving /\ arg'[u] = arg[u] /\ Live(arg[u])
  BY <1>17 DEF ClearDev, BadUse
<1>18. ASSUME NEW c \in Stopper, StopRead(c) \/ StopWrite(c)
      PROVE  pc[u] \in Receiving /\ arg'[u] = arg[u] /\ Live(arg[u])
  BY <1>18 DEF StopRead, StopWrite
<1>19. ASSUME Environment PROVE pc[u] \in Receiving /\ arg'[u] = arg[u] /\ Live(arg[u])
  BY <1>19 DEF Environment, Unplug, ClientStep
<1>20. CASE UNCHANGED vars
  BY <1>20 DEF vars
<1> QED
  BY <1>1, <1>2, <1>3, <1>4, <1>5, <1>6, <1>7, <1>8, <1>9, <1>10, <1>11,
     <1>12, <1>13, <1>14, <1>15, <1>16, <1>17, <1>18, <1>19, <1>20
  DEF Next, ThreadStep

\* A session that a thread is taking apart is being taken apart until it is
\* freed.
LEMMA ClosingStays ==
    ASSUME TypeOK, [Next]_vars, NEW d \in Session, BeingClosed(d)
    PROVE  BeingClosed(d)' \/ dev'[d] = "freed"
<1>0. PICK v \in Session : pc[v] \in Closing /\ arg[v] = d
  BY DEF BeingClosed
<1> SUFFICES (pc'[v] \in Closing /\ arg'[v] = d) \/ dev'[d] = "freed"
  BY DEF BeingClosed
<1> USE <1>0 DEF Closing, TypeOK, Pointer, Label, Goto, sessionVars, socketVars
<1>1. ASSUME NEW t \in Session, StartDriver(t)
      PROVE  (pc'[v] \in Closing /\ arg'[v] = d) \/ dev'[d] = "freed"
  BY <1>1 DEF StartDriver
<1>2. ASSUME NEW t \in Session, OpenOk(t)
      PROVE  (pc'[v] \in Closing /\ arg'[v] = d) \/ dev'[d] = "freed"
  BY <1>2 DEF OpenOk
<1>3. ASSUME NEW t \in Session, OpenFails(t)
      PROVE  (pc'[v] \in Closing /\ arg'[v] = d) \/ dev'[d] = "freed"
  BY <1>3 DEF OpenFails
<1>4. ASSUME NEW t \in Session, Publish(t)
      PROVE  (pc'[v] \in Closing /\ arg'[v] = d) \/ dev'[d] = "freed"
  BY <1>4 DEF Publish, Opened, AfterOpen
<1>5. ASSUME NEW t \in Session, UploadFirmware(t)
      PROVE  (pc'[v] \in Closing /\ arg'[v] = d) \/ dev'[d] = "freed"
  BY <1>5 DEF UploadFirmware
<1>6. ASSUME NEW t \in Session, LoadDev(t)
      PROVE  (pc'[v] \in Closing /\ arg'[v] = d) \/ dev'[d] = "freed"
  BY <1>6 DEF LoadDev, Loads, AfterLoad
<1>7. ASSUME NEW t \in Session, SetMonitorMode(t) \/ SetChannel(t)
      PROVE  (pc'[v] \in Closing /\ arg'[v] = d) \/ dev'[d] = "freed"
  BY <1>7 DEF SetMonitorMode, MonitorFailed, SetChannel
<1>8. ASSUME NEW t \in Session, Bind(t)
      PROVE  (pc'[v] \in Closing /\ arg'[v] = d) \/ dev'[d] = "freed"
  BY <1>8 DEF Bind
<1>9. ASSUME NEW t \in Session, Listen(t)
      PROVE  (pc'[v] \in Closing /\ arg'[v] = d) \/ dev'[d] = "freed"
  BY <1>9 DEF Listen, AfterListen
<1>10. ASSUME NEW t \in Session, StoreSock(t)
      PROVE  (pc'[v] \in Closing /\ arg'[v] = d) \/ dev'[d] = "freed"
  BY <1>10 DEF StoreSock
<1>11. ASSUME NEW t \in Session, Accept(t) \/ AcceptFails(t)
      PROVE  (pc'[v] \in Closing /\ arg'[v] = d) \/ dev'[d] = "freed"
  BY <1>11 DEF Accept, AcceptFails, LeaveAccept
<1>12. ASSUME NEW t \in Session, SendHeader(t) \/ LoopTest(t)
                 \/ BulkIn(t) \/ SendFrame(t)
      PROVE  (pc'[v] \in Closing /\ arg'[v] = d) \/ dev'[d] = "freed"
  BY <1>12 DEF SendHeader, LoopTest, GoesOn, BulkIn, SendFrame
<1>13. ASSUME NEW t \in Session, CloseNull(t) \/ CloseClient(t)
      PROVE  (pc'[v] \in Closing /\ arg'[v] = d) \/ dev'[d] = "freed"
  BY <1>13 DEF CloseNull, CloseClient
<1>14. ASSUME NEW t \in Session, ClosePort(t)
      PROVE  (pc'[v] \in Closing /\ arg'[v] = d) \/ dev'[d] = "freed"
  BY <1>14 DEF ClosePort, SrvClosed
<1>15. ASSUME NEW t \in Session, CloseUsb(t)
      PROVE  (pc'[v] \in Closing /\ arg'[v] = d) \/ dev'[d] = "freed"
  BY <1>15 DEF CloseUsb
<1>16. ASSUME NEW t \in Session, FreeDev(t)
      PROVE  (pc'[v] \in Closing /\ arg'[v] = d) \/ dev'[d] = "freed"
  BY <1>16 DEF FreeDev
<1>17. ASSUME NEW t \in Session, ClearDev(t) \/ BadUse(t)
      PROVE  (pc'[v] \in Closing /\ arg'[v] = d) \/ dev'[d] = "freed"
  BY <1>17 DEF ClearDev, BadUse
<1>18. ASSUME NEW c \in Stopper, StopRead(c) \/ StopWrite(c)
      PROVE  (pc'[v] \in Closing /\ arg'[v] = d) \/ dev'[d] = "freed"
  BY <1>18 DEF StopRead, StopWrite
<1>19. ASSUME Environment PROVE (pc'[v] \in Closing /\ arg'[v] = d) \/ dev'[d] = "freed"
  BY <1>19 DEF Environment, Unplug, ClientStep
<1>20. CASE UNCHANGED vars
  BY <1>20 DEF vars
<1> QED
  BY <1>1, <1>2, <1>3, <1>4, <1>5, <1>6, <1>7, <1>8, <1>9, <1>10, <1>11,
     <1>12, <1>13, <1>14, <1>15, <1>16, <1>17, <1>18, <1>19, <1>20
  DEF Next, ThreadStep

\* Nothing opens a session again.
LEMMA DoomedStays ==
    ASSUME TypeOK, PointsToOpened, [Next]_vars, NEW d \in Session, Doomed(d)
    PROVE  Doomed(d)'
<1> SUFFICES ASSUME dev[d] \in {"closed", "freed"}
             PROVE  dev'[d] \in {"closed", "freed"}
  BY ClosingStays DEF Doomed
<1> USE DEF PointsToOpened, TypeOK, Pointer, Label, Goto, sessionVars,
            socketVars
<1>1. ASSUME NEW t \in Session, StartDriver(t)
      PROVE  dev'[d] \in {"closed", "freed"}
  BY <1>1 DEF StartDriver
<1>2. ASSUME NEW t \in Session, OpenOk(t)
      PROVE  dev'[d] \in {"closed", "freed"}
  BY <1>2 DEF OpenOk
<1>3. ASSUME NEW t \in Session, OpenFails(t)
      PROVE  dev'[d] \in {"closed", "freed"}
  BY <1>3 DEF OpenFails
<1>4. ASSUME NEW t \in Session, Publish(t)
      PROVE  dev'[d] \in {"closed", "freed"}
  BY <1>4 DEF Publish, Opened, AfterOpen
<1>5. ASSUME NEW t \in Session, UploadFirmware(t)
      PROVE  dev'[d] \in {"closed", "freed"}
  BY <1>5 DEF UploadFirmware
<1>6. ASSUME NEW t \in Session, LoadDev(t)
      PROVE  dev'[d] \in {"closed", "freed"}
  BY <1>6 DEF LoadDev, Loads, AfterLoad
<1>7. ASSUME NEW t \in Session, SetMonitorMode(t) \/ SetChannel(t)
      PROVE  dev'[d] \in {"closed", "freed"}
  BY <1>7 DEF SetMonitorMode, MonitorFailed, SetChannel
<1>8. ASSUME NEW t \in Session, Bind(t)
      PROVE  dev'[d] \in {"closed", "freed"}
  BY <1>8 DEF Bind
<1>9. ASSUME NEW t \in Session, Listen(t)
      PROVE  dev'[d] \in {"closed", "freed"}
  BY <1>9 DEF Listen, AfterListen
<1>10. ASSUME NEW t \in Session, StoreSock(t)
      PROVE  dev'[d] \in {"closed", "freed"}
  BY <1>10 DEF StoreSock
<1>11. ASSUME NEW t \in Session, Accept(t) \/ AcceptFails(t)
      PROVE  dev'[d] \in {"closed", "freed"}
  BY <1>11 DEF Accept, AcceptFails, LeaveAccept
<1>12. ASSUME NEW t \in Session, SendHeader(t) \/ LoopTest(t)
                 \/ BulkIn(t) \/ SendFrame(t)
      PROVE  dev'[d] \in {"closed", "freed"}
  BY <1>12 DEF SendHeader, LoopTest, GoesOn, BulkIn, SendFrame
<1>13. ASSUME NEW t \in Session, CloseNull(t) \/ CloseClient(t)
      PROVE  dev'[d] \in {"closed", "freed"}
  BY <1>13 DEF CloseNull, CloseClient
<1>14. ASSUME NEW t \in Session, ClosePort(t)
      PROVE  dev'[d] \in {"closed", "freed"}
  BY <1>14 DEF ClosePort, SrvClosed
<1>15. ASSUME NEW t \in Session, CloseUsb(t)
      PROVE  dev'[d] \in {"closed", "freed"}
  BY <1>15 DEF CloseUsb, Live
<1>16. ASSUME NEW t \in Session, FreeDev(t)
      PROVE  dev'[d] \in {"closed", "freed"}
  BY <1>16 DEF FreeDev
<1>17. ASSUME NEW t \in Session, ClearDev(t) \/ BadUse(t)
      PROVE  dev'[d] \in {"closed", "freed"}
  BY <1>17 DEF ClearDev, BadUse
<1>18. ASSUME NEW c \in Stopper, StopRead(c) \/ StopWrite(c)
      PROVE  dev'[d] \in {"closed", "freed"}
  BY <1>18 DEF StopRead, StopWrite
<1>19. ASSUME Environment PROVE dev'[d] \in {"closed", "freed"}
  BY <1>19 DEF Environment, Unplug, ClientStep
<1>20. CASE UNCHANGED vars
  BY <1>20 DEF vars
<1> QED
  BY <1>1, <1>2, <1>3, <1>4, <1>5, <1>6, <1>7, <1>8, <1>9, <1>10, <1>11,
     <1>12, <1>13, <1>14, <1>15, <1>16, <1>17, <1>18, <1>19, <1>20
  DEF Next, ThreadStep

\* What keeps a listener tied to a session e that somebody receives from: only
\* a thread that takes e apart gives it up, and no other dev gets it.
LEMMA TieStep ==
    ASSUME TypeOK, SocketOrder, [Next]_vars,
           NEW e \in Session, NEW s \in Session, srv[s] = "listen",
           TiedTo(s, e), ~BeingClosed(e)', dev'[e] # "freed"
    PROVE  srv'[s] = "listen" /\ TiedTo(s, e)'
<1> USE DEF TiedTo, SocketOrder, Unstored, TypeOK, Pointer, Label, Goto,
            sessionVars, socketVars
<1>1. ASSUME NEW t \in Session, StartDriver(t)
      PROVE  srv'[s] = "listen" /\ TiedTo(s, e)'
  BY <1>1 DEF StartDriver
<1>2. ASSUME NEW t \in Session, OpenOk(t)
      PROVE  srv'[s] = "listen" /\ TiedTo(s, e)'
  BY <1>2 DEF OpenOk
<1>3. ASSUME NEW t \in Session, OpenFails(t)
      PROVE  srv'[s] = "listen" /\ TiedTo(s, e)'
  BY <1>3 DEF OpenFails
<1>4. ASSUME NEW t \in Session, Publish(t)
      PROVE  srv'[s] = "listen" /\ TiedTo(s, e)'
  BY <1>4 DEF Publish, Opened, AfterOpen
<1>5. ASSUME NEW t \in Session, UploadFirmware(t)
      PROVE  srv'[s] = "listen" /\ TiedTo(s, e)'
  BY <1>5 DEF UploadFirmware
<1>6. ASSUME NEW t \in Session, LoadDev(t)
      PROVE  srv'[s] = "listen" /\ TiedTo(s, e)'
  BY <1>6 DEF LoadDev, Loads, AfterLoad
<1>7. ASSUME NEW t \in Session, SetMonitorMode(t) \/ SetChannel(t)
      PROVE  srv'[s] = "listen" /\ TiedTo(s, e)'
  BY <1>7 DEF SetMonitorMode, MonitorFailed, SetChannel
<1>8. ASSUME NEW t \in Session, Bind(t)
      PROVE  srv'[s] = "listen" /\ TiedTo(s, e)'
  BY <1>8 DEF Bind
<1>9. ASSUME NEW t \in Session, Listen(t)
      PROVE  srv'[s] = "listen" /\ TiedTo(s, e)'
  BY <1>9 DEF Listen, AfterListen, Listener
<1>10. ASSUME NEW t \in Session, StoreSock(t)
      PROVE  srv'[s] = "listen" /\ TiedTo(s, e)'
  BY <1>10 DEF StoreSock
<1>11. ASSUME NEW t \in Session, Accept(t) \/ AcceptFails(t)
      PROVE  srv'[s] = "listen" /\ TiedTo(s, e)'
  <2>1. srv'[s] = srv[s]
    BY <1>11 DEF Accept, AcceptFails, LeaveAccept
  <2>2. PICK l \in {"header", "loadClose"} : pc' = [pc EXCEPT ![t] = l]
    BY <1>11 DEF Accept, AcceptFails
  <2>3. UNCHANGED <<pcapSock, arg>>
    BY <1>11 DEF Accept, AcceptFails
  <2> QED
    BY <2>1, <2>2, <2>3
<1>12. ASSUME NEW t \in Session, SendHeader(t) \/ LoopTest(t)
                 \/ BulkIn(t) \/ SendFrame(t)
      PROVE  srv'[s] = "listen" /\ TiedTo(s, e)'
  BY <1>12 DEF SendHeader, LoopTest, GoesOn, BulkIn, SendFrame
<1>13. ASSUME NEW t \in Session, CloseNull(t) \/ CloseClient(t)
      PROVE  srv'[s] = "listen" /\ TiedTo(s, e)'
  BY <1>13 DEF CloseNull, CloseClient
<1>14. ASSUME NEW t \in Session, ClosePort(t)
      PROVE  srv'[s] = "listen" /\ TiedTo(s, e)'
  <2>1. /\ arg[t] \in Session /\ pc' = [pc EXCEPT ![t] = "closeUsb"]
        /\ UNCHANGED <<arg, pcapSock>>
    BY <1>14 DEF ClosePort, Allocated
  <2>2. arg[t] # e
    BY <2>1 DEF BeingClosed, Closing
  <2>3. pcapSock[arg[t]] # s
    BY <2>1, <2>2
  <2> QED
    BY <1>14, <2>1, <2>3 DEF ClosePort
<1>15. ASSUME NEW t \in Session, CloseUsb(t)
      PROVE  srv'[s] = "listen" /\ TiedTo(s, e)'
  BY <1>15 DEF CloseUsb
<1>16. ASSUME NEW t \in Session, FreeDev(t)
      PROVE  srv'[s] = "listen" /\ TiedTo(s, e)'
  BY <1>16, NullAssumption DEF FreeDev, Allocated
<1>17. ASSUME NEW t \in Session, ClearDev(t) \/ BadUse(t)
      PROVE  srv'[s] = "listen" /\ TiedTo(s, e)'
  BY <1>17 DEF ClearDev, BadUse
<1>18. ASSUME NEW c \in Stopper, StopRead(c) \/ StopWrite(c)
      PROVE  srv'[s] = "listen" /\ TiedTo(s, e)'
  BY <1>18 DEF StopRead, StopWrite
<1>19. ASSUME Environment PROVE srv'[s] = "listen" /\ TiedTo(s, e)'
  BY <1>19 DEF Environment, Unplug, ClientStep
<1>20. CASE UNCHANGED vars
  BY <1>20 DEF vars
<1> QED
  BY <1>1, <1>2, <1>3, <1>4, <1>5, <1>6, <1>7, <1>8, <1>9, <1>10, <1>11,
     <1>12, <1>13, <1>14, <1>15, <1>16, <1>17, <1>18, <1>19, <1>20
  DEF Next, ThreadStep

\* Only the close of a dev's server socket makes an orphan.
LEMMA OrphansMade ==
    ASSUME TypeOK, [Next]_vars, NEW s \in Session,
           srv[s] # "orphan", srv'[s] = "orphan"
    PROVE  \E t \in Session : ClosePort(t) /\ pcapSock[arg[t]] = s
<1> USE DEF TypeOK, Pointer, sessionVars, socketVars
<1>1. ASSUME NEW t \in Session, StartDriver(t)
      PROVE  \E v \in Session : ClosePort(v) /\ pcapSock[arg[v]] = s
  BY <1>1 DEF StartDriver
<1>2. ASSUME NEW t \in Session, OpenOk(t)
      PROVE  \E v \in Session : ClosePort(v) /\ pcapSock[arg[v]] = s
  BY <1>2 DEF OpenOk
<1>3. ASSUME NEW t \in Session, OpenFails(t)
      PROVE  \E v \in Session : ClosePort(v) /\ pcapSock[arg[v]] = s
  BY <1>3 DEF OpenFails
<1>4. ASSUME NEW t \in Session, Publish(t)
      PROVE  \E v \in Session : ClosePort(v) /\ pcapSock[arg[v]] = s
  BY <1>4 DEF Publish, Opened, AfterOpen
<1>5. ASSUME NEW t \in Session, UploadFirmware(t)
      PROVE  \E v \in Session : ClosePort(v) /\ pcapSock[arg[v]] = s
  BY <1>5 DEF UploadFirmware
<1>6. ASSUME NEW t \in Session, LoadDev(t)
      PROVE  \E v \in Session : ClosePort(v) /\ pcapSock[arg[v]] = s
  BY <1>6 DEF LoadDev, Loads, AfterLoad
<1>7. ASSUME NEW t \in Session, SetMonitorMode(t) \/ SetChannel(t)
      PROVE  \E v \in Session : ClosePort(v) /\ pcapSock[arg[v]] = s
  BY <1>7 DEF SetMonitorMode, MonitorFailed, SetChannel
<1>8. ASSUME NEW t \in Session, Bind(t)
      PROVE  \E v \in Session : ClosePort(v) /\ pcapSock[arg[v]] = s
  BY <1>8 DEF Bind
<1>9. ASSUME NEW t \in Session, Listen(t)
      PROVE  \E v \in Session : ClosePort(v) /\ pcapSock[arg[v]] = s
  BY <1>9 DEF Listen, AfterListen
<1>10. ASSUME NEW t \in Session, StoreSock(t)
      PROVE  \E v \in Session : ClosePort(v) /\ pcapSock[arg[v]] = s
  BY <1>10 DEF StoreSock
<1>11. ASSUME NEW t \in Session, Accept(t) \/ AcceptFails(t)
      PROVE  \E v \in Session : ClosePort(v) /\ pcapSock[arg[v]] = s
  BY <1>11 DEF Accept, AcceptFails, LeaveAccept
<1>12. ASSUME NEW t \in Session, SendHeader(t) \/ LoopTest(t)
                 \/ BulkIn(t) \/ SendFrame(t)
      PROVE  \E v \in Session : ClosePort(v) /\ pcapSock[arg[v]] = s
  BY <1>12 DEF SendHeader, LoopTest, GoesOn, BulkIn, SendFrame
<1>13. ASSUME NEW t \in Session, CloseNull(t) \/ CloseClient(t)
      PROVE  \E v \in Session : ClosePort(v) /\ pcapSock[arg[v]] = s
  BY <1>13 DEF CloseNull, CloseClient
<1>14. ASSUME NEW t \in Session, ClosePort(t)
      PROVE  \E v \in Session : ClosePort(v) /\ pcapSock[arg[v]] = s
  BY <1>14 DEF ClosePort, SrvClosed
<1>15. ASSUME NEW t \in Session, CloseUsb(t)
      PROVE  \E v \in Session : ClosePort(v) /\ pcapSock[arg[v]] = s
  BY <1>15 DEF CloseUsb
<1>16. ASSUME NEW t \in Session, FreeDev(t)
      PROVE  \E v \in Session : ClosePort(v) /\ pcapSock[arg[v]] = s
  BY <1>16 DEF FreeDev
<1>17. ASSUME NEW t \in Session, ClearDev(t) \/ BadUse(t)
      PROVE  \E v \in Session : ClosePort(v) /\ pcapSock[arg[v]] = s
  BY <1>17 DEF ClearDev, BadUse
<1>18. ASSUME NEW c \in Stopper, StopRead(c) \/ StopWrite(c)
      PROVE  \E v \in Session : ClosePort(v) /\ pcapSock[arg[v]] = s
  BY <1>18 DEF StopRead, StopWrite
<1>19. ASSUME Environment PROVE \E v \in Session : ClosePort(v) /\ pcapSock[arg[v]] = s
  BY <1>19 DEF Environment, Unplug, ClientStep
<1>20. CASE UNCHANGED vars
  BY <1>20 DEF vars
<1> QED
  BY <1>1, <1>2, <1>3, <1>4, <1>5, <1>6, <1>7, <1>8, <1>9, <1>10, <1>11,
     <1>12, <1>13, <1>14, <1>15, <1>16, <1>17, <1>18, <1>19, <1>20
  DEF Next, ThreadStep

\* No dev gets hold of an orphan, and its thread does not go on to accept.
LEMMA OrphanKept ==
    ASSUME TypeOK, SocketOrder, [Next]_vars, NEW s \in Session,
           srv[s] = "orphan"
    PROVE  /\ \A e \in Session : pcapSock'[e] = s => pcapSock[e] = s
           /\ pc'[s] = "accept" => pc[s] = "accept" /\ arg'[s] = arg[s]
<1> USE DEF SocketOrder, Unstored, TypeOK, Pointer, Label, Goto, sessionVars,
            socketVars
<1> DEFINE Kept ==
        /\ \A e \in Session : pcapSock'[e] = s => pcapSock[e] = s
        /\ pc'[s] = "accept" => pc[s] = "accept" /\ arg'[s] = arg[s]
<1>1. ASSUME NEW t \in Session, StartDriver(t)
      PROVE  Kept
  BY <1>1 DEF StartDriver
<1>2. ASSUME NEW t \in Session, OpenOk(t)
      PROVE  Kept
  BY <1>2 DEF OpenOk
<1>3. ASSUME NEW t \in Session, OpenFails(t)
      PROVE  Kept
  BY <1>3 DEF OpenFails
<1>4. ASSUME NEW t \in Session, Publish(t)
      PROVE  Kept
  BY <1>4 DEF Publish, Opened, AfterOpen
<1>5. ASSUME NEW t \in Session, UploadFirmware(t)
      PROVE  Kept
  BY <1>5 DEF UploadFirmware
<1>6. ASSUME NEW t \in Session, LoadDev(t)
      PROVE  Kept
  BY <1>6 DEF LoadDev, Loads, AfterLoad
<1>7. ASSUME NEW t \in Session, SetMonitorMode(t) \/ SetChannel(t)
      PROVE  Kept
  BY <1>7 DEF SetMonitorMode, MonitorFailed, SetChannel
<1>8. ASSUME NEW t \in Session, Bind(t)
      PROVE  Kept
  BY <1>8 DEF Bind
<1>9. ASSUME NEW t \in Session, Listen(t)
      PROVE  Kept
  BY <1>9 DEF Listen, AfterListen
<1>10. ASSUME NEW t \in Session, StoreSock(t)
      PROVE  Kept
  BY <1>10 DEF StoreSock
<1>11. ASSUME NEW t \in Session, Accept(t) \/ AcceptFails(t)
      PROVE  Kept
  BY <1>11 DEF Accept, AcceptFails, LeaveAccept
<1>12. ASSUME NEW t \in Session, SendHeader(t) \/ LoopTest(t)
                 \/ BulkIn(t) \/ SendFrame(t)
      PROVE  Kept
  BY <1>12 DEF SendHeader, LoopTest, GoesOn, BulkIn, SendFrame
<1>13. ASSUME NEW t \in Session, CloseNull(t) \/ CloseClient(t)
      PROVE  Kept
  BY <1>13 DEF CloseNull, CloseClient
<1>14. ASSUME NEW t \in Session, ClosePort(t)
      PROVE  Kept
  BY <1>14 DEF ClosePort, SrvClosed
<1>15. ASSUME NEW t \in Session, CloseUsb(t)
      PROVE  Kept
  BY <1>15 DEF CloseUsb
<1>16. ASSUME NEW t \in Session, FreeDev(t)
      PROVE  Kept
  BY <1>16, NullAssumption DEF FreeDev, Allocated
<1>17. ASSUME NEW t \in Session, ClearDev(t) \/ BadUse(t)
      PROVE  Kept
  BY <1>17 DEF ClearDev, BadUse
<1>18. ASSUME NEW c \in Stopper, StopRead(c) \/ StopWrite(c)
      PROVE  Kept
  BY <1>18 DEF StopRead, StopWrite
<1>19. ASSUME Environment PROVE Kept
  BY <1>19 DEF Environment, Unplug, ClientStep
<1>20. CASE UNCHANGED vars
  BY <1>20 DEF vars
<1> QED
  BY <1>1, <1>2, <1>3, <1>4, <1>5, <1>6, <1>7, <1>8, <1>9, <1>10, <1>11,
     <1>12, <1>13, <1>14, <1>15, <1>16, <1>17, <1>18, <1>19, <1>20
  DEF Next, ThreadStep

\* A listener becomes an orphan when the one dev that holds it is being taken
\* apart, and nothing stores it anywhere after that.
LEMMA OrphanClosedStep ==
    TypeOK /\ PointsToOpened /\ SocketOrder /\ OrphanClosed /\ [Next]_vars
        => OrphanClosed'
<1> SUFFICES ASSUME TypeOK, PointsToOpened, SocketOrder, OrphanClosed,
                    [Next]_vars, NEW s \in Session, srv'[s] = "orphan"
             PROVE  /\ \A e \in Session : pcapSock'[e] = s => Doomed(e)'
                    /\ pc'[s] = "accept" => arg'[s] # Null /\ Doomed(arg[s])'
  BY DEF OrphanClosed
<1>1. CASE srv[s] = "orphan"
  <2>1. /\ \A e \in Session : pcapSock'[e] = s => pcapSock[e] = s
        /\ pc'[s] = "accept" => pc[s] = "accept" /\ arg'[s] = arg[s]
    BY <1>1, OrphanKept
  <2>2. ASSUME NEW e \in Session, pcapSock'[e] = s PROVE Doomed(e)'
    BY <1>1, <2>1, <2>2, DoomedStays DEF OrphanClosed
  <2>3. ASSUME pc'[s] = "accept" PROVE arg'[s] # Null /\ Doomed(arg[s])'
    <3>1. arg'[s] = arg[s] /\ arg[s] \in Session /\ Doomed(arg[s])
      BY <1>1, <2>1, <2>3 DEF OrphanClosed, TypeOK, Pointer
    <3>2. \A d \in Session : d = arg[s] => Doomed(d)'
      BY <3>1, DoomedStays
    <3> QED
      BY <3>1, <3>2, NullAssumption DEF Doomed, BeingClosed
  <2> QED
    BY <2>2, <2>3
<1>2. CASE srv[s] # "orphan"
  <2>1. PICK t \in Session : ClosePort(t) /\ pcapSock[arg[t]] = s
    BY <1>2, OrphansMade
  <2>2. /\ pc' = [pc EXCEPT ![t] = "closeUsb"] /\ pc[t] = "closePort"
        /\ arg[t] \in Session /\ UNCHANGED <<pcapSock, arg>>
    BY <2>1 DEF ClosePort, Goto, sessionVars, Allocated, TypeOK, Pointer
  <2>3. pc'[t] \in Closing /\ arg'[t] = arg[t]
    BY <2>2 DEF TypeOK, Closing
  <2>4. ASSUME NEW e \in Session, pcapSock'[e] = s PROVE Doomed(e)'
    <3>1. e = arg[t]
      BY <2>1, <2>2, <2>4, NullAssumption DEF SocketOrder
    <3> QED
      BY <2>3, <3>1 DEF Doomed, BeingClosed
  <2>5. ASSUME pc'[s] = "accept" PROVE arg'[s] # Null /\ Doomed(arg[s])'
    <3>1. pc[s] = "accept"
      BY <2>2, <2>5 DEF TypeOK
    <3>2. arg[s] = arg[t]
      BY <2>1, <2>2, <3>1 DEF SocketOrder
    <3> QED
      BY <2>2, <2>3, <3>2, NullAssumption DEF Doomed, BeingClosed
  <2> QED
    BY <2>4, <2>5
<1> QED
  BY <1>1, <1>2

\* The listener a thread accepts from is tied to the session it works on,
\* unless that session is being taken apart.
LEMMA AcceptTied ==
    ASSUME TypeOK, SocketOrder, OrphanClosed, NEW t \in Session, Accept(t),
           Live(arg[t]), ~BeingClosed(arg[t]),
           NEW s \in AcceptsFrom(t)
    PROVE  srv[s] = "listen" /\ TiedTo(s, arg[t])
<1>1. /\ s \in Session /\ s \in {t, pcapSock[arg[t]]}
      /\ srv[s] \in {"listen", "orphan"}
  BY DEF AcceptsFrom, Listener
<1>2. arg[t] \in Session /\ pc[t] = "accept"
  BY DEF Accept, Live, TypeOK, Pointer
<1>3. srv[s] # "orphan"
  BY <1>1, <1>2 DEF OrphanClosed, Doomed, Live
<1>4. TiedTo(s, arg[t])
  <2>1. CASE s = t
    BY <1>2, <2>1 DEF TiedTo, SocketOrder
  <2>2. CASE s = pcapSock[arg[t]]
    BY <1>1, <1>2, <2>2, NullAssumption DEF TiedTo, SocketOrder, Unstored
  <2> QED
    BY <1>1, <2>1, <2>2
<1> QED
  BY <1>1, <1>3, <1>4

\* Every thread that receives from a session nobody takes apart keeps a
\* listener tied to it: a thread that begins to receive accepted through one,
\* the others keep theirs.
LEMMA ReceivesThroughTiedStep ==
    TypeOK /\ PointsToOpened /\ SocketOrder /\ OrphanClosed
        /\ ReceivesThroughTied /\ [Next]_vars
        => ReceivesThroughTied'
<1> SUFFICES ASSUME TypeOK, PointsToOpened, SocketOrder, OrphanClosed,
                    ReceivesThroughTied, [Next]_vars, NEW u \in Session,
                    pc'[u] \in Receiving, Live(arg[u])', ~BeingClosed(arg[u])'
             PROVE  \E s \in Session : srv'[s] = "listen" /\ TiedTo(s, arg[u])'
  BY DEF ReceivesThroughTied
<1>1. Live(arg[u]) /\ arg'[u] = arg[u]
  BY StillReceiving DEF Accept, Live
<1>2. arg[u] \in Session
  BY <1>1 DEF Live, TypeOK, Pointer
<1>3. \A d \in Session : d = arg[u] =>
          /\ ~BeingClosed(d)' /\ dev'[d] = "live"
  BY <1>1 DEF BeingClosed, Live
<1>4. ~BeingClosed(arg[u])
  BY <1>2, <1>3, ClosingStays
<1>5. PICK s \in Session : srv[s] = "listen" /\ TiedTo(s, arg[u])
  <2>1. CASE Accept(u)
    <3>1. PICK s \in AcceptsFrom(u) : TRUE
      BY <2>1 DEF Accept
    <3>2. s \in Session
      BY <3>1 DEF AcceptsFrom, Listener
    <3> QED
      BY <1>1, <1>4, <2>1, <3>1, <3>2, AcceptTied
  <2>2. CASE ~Accept(u)
    BY <1>4, <2>2, StillReceiving DEF ReceivesThroughTied
  <2> QED
    BY <2>1, <2>2
<1>6. \A e \in Session : e = arg[u] =>
          (srv'[s] = "listen" /\ TiedTo(s, e)')
  BY <1>3, <1>5, TieStep
<1> QED
  BY <1>1, <1>2, <1>6 DEF TiedTo

\* Of two sessions that are received from and that nobody takes apart each is
\* tied to a listener; there is only one, and it is tied to one session: they
\* are the same.
LEMMA OneAdapterStep ==
    TypeOK /\ AtMostOneListener /\ PointsToOpened /\ SocketOrder
        /\ OrphanClosed /\ ReceivesThroughTied /\ OneAdapterReceiving
        /\ [Next]_vars
        => OneAdapterReceiving'
<1> SUFFICES ASSUME TypeOK, AtMostOneListener, PointsToOpened, SocketOrder,
                    OrphanClosed, ReceivesThroughTied, OneAdapterReceiving,
                    [Next]_vars, NEW t \in Session, NEW u \in Session,
                    pc'[t] \in Receiving, Live(arg[t])',
                    pc'[u] \in Receiving, Live(arg[u])',
                    ~BeingClosed(arg[t])', ~BeingClosed(arg[u])'
             PROVE  arg'[t] = arg'[u]
  BY DEF OneAdapterReceiving
<1> DEFINE Was(v) == pc[v] \in Receiving /\ Live(arg[v])
<1>1. \A v \in {t, u} :
          /\ Was(v) \/ Accept(v)
          /\ arg'[v] = arg[v] /\ Live(arg[v])
  BY StillReceiving DEF Accept, Live
<1>2. \A v \in {t, u} : arg[v] \in Session /\ ~BeingClosed(arg[v])
  <2>1. ASSUME NEW v \in {t, u}
        PROVE  arg[v] \in Session /\ ~BeingClosed(arg[v])
    <3>1. arg[v] \in Session
      BY <1>1 DEF Live, TypeOK, Pointer
    <3>2. \A d \in Session : d = arg[v] => ~BeingClosed(d)' /\ dev'[d] = "live"
      BY <1>1 DEF BeingClosed, Live
    <3> QED
      BY <3>1, <3>2, ClosingStays
  <2> QED
    BY <2>1
<1>3. CASE Was(t) /\ Was(u)
  BY <1>1, <1>2, <1>3 DEF OneAdapterReceiving
<1>4. ASSUME NEW v \in {t, u}, NEW w \in {t, u}, Accept(v), Was(w)
      PROVE  arg'[v] = arg'[w]
  <2>1. PICK s \in Session : srv[s] = "listen" /\ TiedTo(s, arg[w])
    BY <1>2, <1>4 DEF ReceivesThroughTied
  <2>2. PICK r \in AcceptsFrom(v) : TRUE
    BY <1>4 DEF Accept
  <2>3. /\ r \in Session /\ r \in {v, pcapSock[arg[v]]}
        /\ r \in Listener /\ s \in Listener
    BY <2>1, <2>2 DEF AcceptsFrom, Listener
  <2>4. r = s
    BY <2>3 DEF AtMostOneListener
  <2>5. pc[v] = "accept"
    BY <1>4 DEF Accept
  <2>6. arg[v] = arg[w]
    BY <1>2, <2>1, <2>3, <2>4, <2>5 DEF TiedTo
  <2> QED
    BY <1>1, <2>6
<1>5. CASE Accept(t) /\ Accept(u)
  <2>1. t = u
    BY <1>5 DEF Accept, Goto, TypeOK, Receiving
  <2> QED
    BY <2>1
<1> QED
  BY <1>1, <1>3, <1>4, <1>5

\* Whatever sessions overlap, two open adapters are received from at a time
\* only while a thread is taking one of them apart.
THEOREM OneAdapter == Spec => []OneAdapterReceiving
<1> DEFINE IInv == /\ AtMostOneListener /\ PointsToOpened /\ SocketOrder
                   /\ OrphanClosed /\ ReceivesThroughTied
                   /\ OneAdapterReceiving
<1>1. Init => IInv
  <2> SUFFICES ASSUME Init PROVE IInv
    OBVIOUS
  <2>1. \A t \in Session : pc[t] = "idle" /\ arg[t] = Null /\ srv[t] = "none"
    BY DEF Init
  <2>2. PointsToOpened
    BY DEF Init, PointsToOpened
  <2>3. SocketOrder
    BY NullAssumption DEF Init, SocketOrder
  <2> QED
    BY <2>1, <2>2, <2>3
    DEF AtMostOneListener, Listener, OrphanClosed, ReceivesThroughTied,
        OneAdapterReceiving, Receiving
<1>2. TypeOK /\ IInv /\ [Next]_vars => IInv'
  BY ListenerStep, PointsToOpenedStep, SocketOrderStep, OrphanClosedStep,
     ReceivesThroughTiedStep, OneAdapterStep
<1>3. IInv => OneAdapterReceiving
  OBVIOUS
<1> HIDE DEF IInv
<1> QED
  BY <1>1, <1>2, <1>3, TypeCorrect, PTL DEF Spec

-----------------------------------------------------------------------------
(* One driver thread at a time.                                            *)

\* From the store into g_dev until it is cleared.
Owning == Label \ {"idle", "open", "publish", "clear", "done"}

\* Only one thread is in startDriver, and g_dev is its session if any.
OneActive ==
    /\ \A t, u \in Session : pc[t] \notin Over /\ pc[u] \notin Over => t = u
    /\ \A t \in Session : pc[t] \in Owning => gDev = t
    /\ gDev # Null => pc[gDev] \in Owning \cup {"clear"}

\* The sockets of a thread that is at one of these labels.
NoSock(t) == srv[t] = "none" /\ pcapSock[t] = Null
HasSock(t) == srv[t] = "listen" /\ pcapSock[t] = t
NoConn(t) == conn[t] = "none" /\ clientSock[t] = Null
HasConn(t) == conn[t] \in {"open", "stalled"} /\ clientSock[t] = t

Setup == {"upload", "loadMonitor", "monitor", "loadTune", "tune", "loadRx",
          "bind", "listen", "store"}

\* What a thread has, by where it is.
Holds(t) ==
    /\ pc[t] \in {"idle", "open"} => dev[t] = "none"
    /\ pc[t] = "publish" => dev[t] \in {"none", "live"}
    /\ pc[t] \in {"idle", "open", "publish"} => NoSock(t) /\ NoConn(t)
    /\ pc[t] \in Owning \ {"free"} => dev[t] = "live"
    /\ pc[t] = "free" => dev[t] = "closed"
    /\ pc[t] \in InCall \cup {"bind", "listen"} => arg[t] = t
    /\ pc[t] \in Setup \ {"listen", "store"} => NoSock(t)
    /\ pc[t] = "listen" => srv[t] = "bound" /\ pcapSock[t] = Null
    /\ pc[t] = "store" => srv[t] = "listen" /\ pcapSock[t] = Null
    /\ pc[t] \in {"accept"} \cup Receiving => HasSock(t)
    /\ pc[t] \in Setup \cup {"accept"} => NoConn(t)
    /\ pc[t] \in Receiving => HasConn(t)
    /\ pc[t] \in {"loadClose", "close", "closePort"} => NoSock(t) \/ HasSock(t)
    /\ pc[t] \in {"loadClose", "close"} => NoConn(t) \/ HasConn(t)
    /\ pc[t] \in {"closePort", "closeUsb", "free", "clear", "done"} =>
          conn[t] = "none"
    /\ pc[t] \in {"closeUsb", "free", "clear", "done"} => srv[t] = "none"
    /\ pc[t] \in {"clear", "done"} => dev[t] \in {"none", "freed"}
    /\ pc[t] \in {"loadTune", "tune", "loadRx", "bind", "listen", "store",
                  "accept"} \cup Receiving => monitorMode[t]

HoldsInv == \A t \in Session : Holds(t)

-----------------------------------------------------------------------------
\* What holds of the native code for every caller holds here.
LEMMA SequentialIsDriver == SequentialSpec => Spec
<1>1. [SequentialNext]_vars => [Next]_vars
  BY DEF SequentialNext, Next
<1> QED
  BY <1>1, PTL DEF SequentialSpec, Spec

\* A second thread never enters startDriver, so g_dev stays what the one
\* thread in it stored.
LEMMA OneActiveStep ==
    ASSUME TypeOK, OneActive, HoldsInv, [SequentialNext]_vars
    PROVE  OneActive'
<1> USE DEF OneActive, Owning, Over, TypeOK, Pointer, Label, Goto,
            sessionVars, socketVars
<1>1. ASSUME NEW t \in Session, StartDriver(t),
                 \A w \in Session : pc[w] \in Over
      PROVE  OneActive'
  BY <1>1 DEF StartDriver
<1>2. ASSUME NEW t \in Session, OpenOk(t)
      PROVE  OneActive'
  BY <1>2 DEF OpenOk
<1>3. ASSUME NEW t \in Session, OpenFails(t)
      PROVE  OneActive'
  BY <1>3 DEF OpenFails
<1>4. ASSUME NEW t \in Session, Publish(t)
      PROVE  OneActive'
  BY <1>4 DEF Publish, Opened, AfterOpen
<1>5. ASSUME NEW t \in Session, UploadFirmware(t)
      PROVE  OneActive'
  BY <1>5 DEF UploadFirmware
<1>6. ASSUME NEW t \in Session, LoadDev(t)
      PROVE  OneActive'
  BY <1>6 DEF LoadDev, Loads, AfterLoad
<1>7. ASSUME NEW t \in Session, SetMonitorMode(t) \/ SetChannel(t)
      PROVE  OneActive'
  BY <1>7 DEF SetMonitorMode, MonitorFailed, SetChannel
<1>8. ASSUME NEW t \in Session, Bind(t)
      PROVE  OneActive'
  BY <1>8 DEF Bind
<1>9. ASSUME NEW t \in Session, Listen(t)
      PROVE  OneActive'
  BY <1>9 DEF Listen, AfterListen
<1>10. ASSUME NEW t \in Session, StoreSock(t)
      PROVE  OneActive'
  BY <1>10 DEF StoreSock
<1>11. ASSUME NEW t \in Session, Accept(t) \/ AcceptFails(t)
      PROVE  OneActive'
  BY <1>11 DEF Accept, AcceptFails, LeaveAccept
<1>12. ASSUME NEW t \in Session, SendHeader(t) \/ LoopTest(t)
                 \/ BulkIn(t) \/ SendFrame(t)
      PROVE  OneActive'
  BY <1>12 DEF SendHeader, LoopTest, GoesOn, BulkIn, SendFrame
<1>13. ASSUME NEW t \in Session, CloseNull(t) \/ CloseClient(t)
      PROVE  OneActive'
  BY <1>13 DEF CloseNull, CloseClient
<1>14. ASSUME NEW t \in Session, ClosePort(t)
      PROVE  OneActive'
  BY <1>14 DEF ClosePort, SrvClosed
<1>15. ASSUME NEW t \in Session, CloseUsb(t)
      PROVE  OneActive'
  BY <1>15 DEF CloseUsb
<1>16. ASSUME NEW t \in Session, FreeDev(t)
      PROVE  OneActive'
  BY <1>16 DEF FreeDev
<1>17. ASSUME NEW t \in Session, ClearDev(t) \/ BadUse(t)
      PROVE  OneActive'
  BY <1>17 DEF ClearDev, BadUse
<1>18. ASSUME NEW c \in Stopper, StopRead(c) \/ StopWrite(c)
      PROVE  OneActive'
  BY <1>18 DEF StopRead, StopWrite
<1>19. ASSUME Environment PROVE OneActive'
  BY <1>19 DEF Environment, Unplug, ClientStep
<1>20. CASE UNCHANGED vars
  BY <1>20 DEF vars
<1> QED
  BY <1>1, <1>2, <1>3, <1>4, <1>5, <1>6, <1>7, <1>8, <1>9, <1>10, <1>11,
     <1>12, <1>13, <1>14, <1>15, <1>16, <1>17, <1>18, <1>19, <1>20
  DEF SequentialNext, ThreadStep

\* The thread that makes a step has what its next label says it has; a
\* thread that is not in startDriver is not touched by it.
LEMMA HoldsStep ==
    ASSUME TypeOK, OneActive, HoldsInv, [SequentialNext]_vars,
           NEW v \in Session
    PROVE  Holds(v)'
<1> USE DEF HoldsInv, Holds, Owning, InCall, Receiving, Setup, NoSock,
            HasSock, NoConn, HasConn, Over, OneActive, TypeOK, Pointer,
            Label, Goto, sessionVars, socketVars
<1>1. ASSUME NEW t \in Session, StartDriver(t),
                 \A w \in Session : pc[w] \in Over
      PROVE  Holds(v)'
  BY <1>1 DEF StartDriver
<1>2. ASSUME NEW t \in Session, OpenOk(t)
      PROVE  Holds(v)'
  BY <1>2 DEF OpenOk
<1>3. ASSUME NEW t \in Session, OpenFails(t)
      PROVE  Holds(v)'
  BY <1>3 DEF OpenFails
<1>4. ASSUME NEW t \in Session, Publish(t)
      PROVE  Holds(v)'
  <2>1. pc[t] = "publish" /\ dev[t] \in {"none", "live"}
    BY <1>4 DEF Publish, Opened, AfterOpen
  <2>2. UNCHANGED <<dev, srv, conn, pcapSock, clientSock, monitorMode>>
    BY <1>4 DEF Publish, Opened, AfterOpen
  <2>3. CASE v # t
    BY <1>4, <2>1, <2>2, <2>3 DEF Publish, Opened, AfterOpen
  <2>4. CASE v = t /\ dev[t] = "none"
    <3>1. pc'[t] = "done"
      BY <1>4, <2>1, <2>4 DEF Publish, Opened, AfterOpen
    <3> QED
      BY <2>1, <2>2, <2>4, <3>1
  <2>5. CASE v = t /\ dev[t] = "live"
    <3>1. pc'[t] = "upload" /\ arg'[t] = t
      BY <1>4, <2>1, <2>5, NullAssumption DEF Publish, Opened, AfterOpen
    <3> QED
      BY <2>1, <2>2, <2>5, <3>1
  <2> QED
    BY <2>1, <2>3, <2>4, <2>5
<1>5. ASSUME NEW t \in Session, UploadFirmware(t)
      PROVE  Holds(v)'
  BY <1>5 DEF UploadFirmware
<1>6. ASSUME NEW t \in Session, LoadDev(t)
      PROVE  Holds(v)'
  BY <1>6 DEF LoadDev, Loads, AfterLoad
<1>7. ASSUME NEW t \in Session, SetMonitorMode(t) \/ SetChannel(t)
      PROVE  Holds(v)'
  BY <1>7 DEF SetMonitorMode, MonitorFailed, SetChannel
<1>8. ASSUME NEW t \in Session, Bind(t)
      PROVE  Holds(v)'
  BY <1>8 DEF Bind
<1>9. ASSUME NEW t \in Session, Listen(t)
      PROVE  Holds(v)'
  BY <1>9 DEF Listen, AfterListen, Listener
<1>10. ASSUME NEW t \in Session, StoreSock(t)
      PROVE  Holds(v)'
  BY <1>10 DEF StoreSock
<1>11. ASSUME NEW t \in Session, Accept(t) \/ AcceptFails(t)
      PROVE  Holds(v)'
  <2>1. pc[t] = "accept" /\ arg[t] = t
    BY <1>11 DEF Accept, AcceptFails
  <2>2. UNCHANGED srv
    BY <1>11, NullAssumption DEF Accept, AcceptFails, LeaveAccept
  <2>3. CASE v # t
    BY <1>11, <2>1, <2>2, <2>3 DEF Accept, AcceptFails
  <2>4. CASE v = t
    BY <1>11, <2>1, <2>2, <2>4 DEF Accept, AcceptFails
  <2> QED
    BY <2>3, <2>4
<1>12. ASSUME NEW t \in Session, SendHeader(t) \/ LoopTest(t)
                 \/ BulkIn(t) \/ SendFrame(t)
      PROVE  Holds(v)'
  BY <1>12 DEF SendHeader, LoopTest, GoesOn, BulkIn, SendFrame
<1>13. ASSUME NEW t \in Session, CloseNull(t) \/ CloseClient(t)
      PROVE  Holds(v)'
  <2>1. arg[t] = t /\ pc[t] = "close" /\ t # Null
    BY <1>13, NullAssumption DEF CloseNull, CloseClient
  <2>2. CloseClient(t)
    BY <1>13, <2>1 DEF CloseNull
  <2>3. \A u \in Session : pc[u] # "send"
    BY <2>1
  <2>4. /\ pc' = [pc EXCEPT ![t] = "closePort"]
        /\ UNCHANGED <<dev, arg, srv, pcapSock, clientSock, monitorMode>>
    BY <2>2 DEF CloseClient
  <2>5. conn'[t] = "none" /\ (v # t => conn'[v] = conn[v])
    BY <2>1, <2>2, <2>3 DEF CloseClient, ConnClosed
  <2>6. CASE v = t
    BY <2>1, <2>4, <2>5, <2>6
  <2>7. CASE v # t
    <3>1. pc[v] \in Over /\ pc'[v] = pc[v]
      BY <2>1, <2>4, <2>7
    <3> QED
      BY <2>4, <2>5, <2>7, <3>1
  <2> QED
    BY <2>6, <2>7
<1>14. ASSUME NEW t \in Session, ClosePort(t)
      PROVE  Holds(v)'
  <2>1. arg[t] = t /\ pc[t] = "closePort" /\ t # Null
    BY <1>14, NullAssumption DEF ClosePort
  <2>2. \A u \in Session : pc[u] # "accept"
    BY <2>1
  <2>3. /\ pc' = [pc EXCEPT ![t] = "closeUsb"]
        /\ UNCHANGED <<dev, arg, conn, pcapSock, clientSock, monitorMode>>
    BY <1>14 DEF ClosePort
  <2>4. srv'[t] = "none" /\ (v # t => srv'[v] = srv[v])
    BY <1>14, <2>1, <2>2 DEF ClosePort, SrvClosed
  <2>5. CASE v = t
    BY <2>1, <2>3, <2>4, <2>5
  <2>6. CASE v # t
    <3>1. pc[v] \in Over /\ pc'[v] = pc[v]
      BY <2>1, <2>3, <2>6
    <3> QED
      BY <2>3, <2>4, <2>6, <3>1
  <2> QED
    BY <2>5, <2>6
<1>15. ASSUME NEW t \in Session, CloseUsb(t)
      PROVE  Holds(v)'
  BY <1>15 DEF CloseUsb, Live
<1>16. ASSUME NEW t \in Session, FreeDev(t)
      PROVE  Holds(v)'
  BY <1>16 DEF FreeDev, Allocated
<1>17. ASSUME NEW t \in Session, ClearDev(t) \/ BadUse(t)
      PROVE  Holds(v)'
  BY <1>17 DEF ClearDev, BadUse
<1>18. ASSUME NEW c \in Stopper, StopRead(c) \/ StopWrite(c)
      PROVE  Holds(v)'
  BY <1>18 DEF StopRead, StopWrite
<1>19. ASSUME Environment PROVE Holds(v)'
  BY <1>19 DEF Environment, Unplug, ClientStep
<1>20. CASE UNCHANGED vars
  BY <1>20 DEF vars
<1> QED
  BY <1>1, <1>2, <1>3, <1>4, <1>5, <1>6, <1>7, <1>8, <1>9, <1>10, <1>11,
     <1>12, <1>13, <1>14, <1>15, <1>16, <1>17, <1>18, <1>19, <1>20
  DEF SequentialNext, ThreadStep

-----------------------------------------------------------------------------
\* The two invariants hold together.
LEMMA SequentialInv == SequentialSpec => [](TypeOK /\ OneActive /\ HoldsInv)
<1>1. Init => OneActive /\ HoldsInv
  BY NullAssumption
  DEF Init, OneActive, HoldsInv, Holds, Owning, Over, InCall, Receiving,
      Setup, NoSock, NoConn
<1>2. TypeOK /\ OneActive /\ HoldsInv /\ [SequentialNext]_vars
        => OneActive' /\ HoldsInv'
  BY OneActiveStep, HoldsStep DEF HoldsInv
<1> QED
  BY <1>1, <1>2, SequentialIsDriver, TypeCorrect, PTL DEF SequentialSpec

\* No thread uses a session that is not its own open one.
THEOREM UsesOwn == SequentialSpec => []ThreadsUseOwnSession
<1>1. TypeOK /\ OneActive /\ HoldsInv => ThreadsUseOwnSession
  BY NullAssumption
  DEF HoldsInv, Holds, ThreadsUseOwnSession, Owning, InCall, Label, Live,
      Allocated
<1> QED
  BY <1>1, SequentialInv, PTL

\* A call of startDriver that has returned has given everything back.
THEOREM Released == SequentialSpec => []SessionReleased
<1>1. TypeOK /\ OneActive /\ HoldsInv => SessionReleased
  BY NullAssumption
  DEF HoldsInv, Holds, OneActive, Owning, SessionReleased
<1> QED
  BY <1>1, SequentialInv, PTL

\* A thread receives in monitor mode, through its own listener, for its own
\* client.
THEOREM ReceivesSetUp == SequentialSpec => []ReceivesAsSetUp
<1>1. TypeOK /\ OneActive /\ HoldsInv => ReceivesAsSetUp
  BY DEF HoldsInv, Holds, ReceivesAsSetUp, HasSock, HasConn, Receiving, InCall
<1> QED
  BY <1>1, SequentialInv, PTL
=============================================================================
