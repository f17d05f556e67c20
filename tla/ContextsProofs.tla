--------------------------- MODULE ContextsProofs ---------------------------
(***************************************************************************)
(* Proofs about Contexts, for any number of sessions and however often the *)
(* adapter comes and goes: the monitor runs while somebody counts on it;   *)
(* no session loses its context through the end of another one;            *)
(* every reference to a device has one owner, and no device more than one; *)
(* the lists of devices are current; and a monitor that runs after the     *)
(* first scan is never stopped.                                            *)
(*                                                                         *)
(* All rest on who is where.  default_context_lock is held by the one      *)
(* session that is inside libusb_init or inside libusb_exit, and a session *)
(* with a context of its own has it from libusb_init to libusb_exit.  What *)
(* is said of devices rests on what is under way besides: the messages of  *)
(* the kernel that the monitor has still to read, and its own that a       *)
(* context has still to handle.                                            *)
(***************************************************************************)
EXTENDS Contexts, FiniteSetTheorems, SequenceTheorems, TLAPS

Inside   == {"backend", "scan", "join_undo", "undo", "ready"}   \* libusb_init
Outbound == {"hotplug_exit", "op_exit", "free"}                 \* libusb_exit
Place == Inside \cup Outbound \cup
         {"start", "init", "option", "wrap", "open", "close", "exit", "done"}

Shape ==
  /\ at \in [Session -> Place] /\ usbCtx \in [Session -> BOOLEAN]
  /\ handleCtx \in [Session -> Session \cup {Nobody}] /\ using \in [Session -> BOOLEAN]
  /\ defaultLock \in Session \cup {Nobody} /\ fallback \in Session \cup {Nobody}
  /\ initCount \in Nat

Holder == \A s \in Session : (defaultLock = s) <=> (at[s] \in Inside \cup Outbound)

Owns(s) ==
  /\ at[s] \in Outbound => usbCtx[s]
  /\ usbCtx[s] => at[s] \notin Inside \cup {"start", "init"}
  /\ at[s] \in Inside => s \in alive
  /\ usbCtx[s] /\ at[s] # "done" => s \in alive
  /\ usbCtx[s] /\ at[s] # "option" => s \in noDiscovery
  /\ at[s] \in Inside \cup {"start", "init"} => handleCtx[s] = Nobody
  /\ usbCtx[s] => handleCtx[s] = s \/ handleCtx[s] = Nobody
  /\ at[s] \in {"open", "close"} \/ using[s] => handleCtx[s] # Nobody

OwnContext == \A s \in Session : Owns(s)

SessionInv == Shape /\ Holder /\ OwnContext

AtRest == ((monitor # "off") <=> (initCount > 0)) /\ ~stopping

MonitorInv ==
  /\ (\A s \in Session : at[s] \notin {"scan", "join_undo"}) => AtRest
  /\ \A s \in Session : at[s] = "scan" => monitor # "off" /\ ~stopping
  /\ \A s \in Session : at[s] = "join_undo" => monitor # "off" /\ stopping /\ initCount = 0

IInv == SessionInv /\ MonitorInv /\ CrashHasCause

-----------------------------------------------------------------------------
\* The invariant holds before the first session.
LEMMA InitInv == Init => IInv
<1> SUFFICES ASSUME Init PROVE IInv
  OBVIOUS
<1>1. Shape
  BY DEF Init, Shape, Place
<1>2. Holder
  BY ContextsAssumption DEF Init, Holder, Inside, Outbound
<1>3. OwnContext
  BY DEF Init, OwnContext, Owns, Inside, Outbound
<1>4. MonitorInv
  BY DEF Init, MonitorInv, AtRest
<1>5. CrashHasCause
  BY DEF Init, CrashHasCause
<1> QED
  BY <1>1, <1>2, <1>3, <1>4, <1>5 DEF IInv, SessionInv

\* What a session does that keeps the lock, or does without, and what it has.
Moves(s) ==
  /\ at' \in [Session -> Place] /\ \A t \in Session \ {s} : at'[t] = at[t]
  /\ UNCHANGED <<usbCtx, handleCtx, defaultLock, alive>>
  /\ initCount' \in Nat /\ UNCHANGED fallback /\ noDiscovery \subseteq noDiscovery'
  /\ at[s] \in Inside <=> at'[s] \in Inside
  /\ at[s] \in Outbound <=> at'[s] \in Outbound
  /\ at[s] # "done" /\ (at'[s] = "init" => at[s] = "start") /\ at'[s] # "start"
  /\ at'[s] \in {"open", "close"} => at[s] = "open"
  /\ usbCtx[s] /\ at[s] = "option" => s \in noDiscovery'
  /\ using' \in [Session -> BOOLEAN]
  /\ \A t \in Session : using'[t] => using[t] \/ (t = s /\ at[s] = "open")

\* A step that takes no lock and gives none up leaves everybody where the
\* invariant wants them.
LEMMA Move ==
  ASSUME SessionInv, NEW s \in Session, Moves(s)
  PROVE  SessionInv'
<1>1. Shape'
  BY DEF SessionInv, Shape, Moves
<1>2. Holder'
  BY DEF SessionInv, Holder, Moves
<1>3. OwnContext'
  <2> SUFFICES ASSUME NEW t \in Session PROVE Owns(t)'
    BY DEF OwnContext
  <2> QED
    BY DEF SessionInv, OwnContext, Owns, Moves
<1> QED
  BY <1>1, <1>2, <1>3 DEF SessionInv

\* So does a step that moves nobody.
LEMMA Stay ==
  ASSUME SessionInv, UNCHANGED <<at, usbCtx, handleCtx, defaultLock, alive, noDiscovery, initCount,
                                 fallback, using>>
  PROVE  SessionInv'
  BY DEF SessionInv, Shape, Holder, OwnContext, Owns

\* Every step of a session keeps the lock with the one session that is inside
\* libusb_init or libusb_exit, and each context with its session.
LEMMA SessionStep ==
  ASSUME SessionInv, NEW s \in Session, Step(s)
  PROVE  SessionInv'
<1>1. CASE Start(s)
  <2>1. Moves(s)
    BY <1>1
    DEF Start, Moves, Goto, SessionInv, Shape, Place, Inside, Outbound, context, watch,
        locks
  <2> QED
    BY <2>1, Move
<1>2. CASE InitBegins(s)
  <2>1. CASE Goto(s, "option") /\ UNCHANGED <<defaultLock, alive, noDiscovery>>
    <3>1. Moves(s)
      BY <1>2, <2>1
      DEF InitBegins, Moves, Goto, SessionInv, Shape, Place, Inside, Outbound, watch
    <3> QED
      BY <3>1, Move
  <2>2. CASE /\ Goto(s, "backend") /\ defaultLock' = s /\ defaultLock = Nobody
            /\ alive' = alive \cup {s} /\ noDiscovery \subseteq noDiscovery'
    <3>1. /\ at' \in [Session -> Place] /\ at'[s] = "backend"
          /\ \A t \in Session \ {s} : at'[t] = at[t]
      BY <1>2, <2>2 DEF InitBegins, Goto, SessionInv, Shape, Place, Inside, Outbound
    <3>2. Shape'
      BY <1>2, <2>2, <3>1 DEF InitBegins, SessionInv, Shape, watch
    <3>3. Holder'
      BY <2>2, <3>1, ContextsAssumption DEF SessionInv, Holder, Inside, Outbound
    <3>4. OwnContext'
      <4> SUFFICES ASSUME NEW t \in Session PROVE Owns(t)'
        BY DEF OwnContext
      <4> QED
        BY <1>2, <2>2, <3>1 DEF InitBegins, SessionInv, OwnContext, Owns, Inside, Outbound
    <3> QED
      BY <3>2, <3>3, <3>4 DEF SessionInv
  <2> QED
    BY <1>2, <2>1, <2>2 DEF InitBegins
<1>3. CASE StartMonitor(s)
  <2>1. Moves(s)
    BY <1>3
    DEF StartMonitor, Moves, Goto, SessionInv, Shape, Place, Inside, Outbound, context,
        locks
  <2> QED
    BY <2>1, Move
<1>4. CASE Scan(s)
  <2>1. Moves(s)
    BY <1>4 DEF Scan, Moves, Goto, SessionInv, Shape, Place, Inside, Outbound, context, locks
  <2> QED
    BY <2>1, Move
<1>5. CASE Join(s)
  <2>1. Moves(s)
    BY <1>5 DEF Join, Moves, Goto, SessionInv, Shape, Place, Inside, Outbound, context, locks
  <2> QED
    BY <2>1, Move
<1>6. CASE Undo(s)
  <2>1. /\ at' \in [Session -> Place] /\ at'[s] = "option"
        /\ \A t \in Session \ {s} : at'[t] = at[t]
    BY <1>6 DEF Undo, Goto, SessionInv, Shape, Place, Inside, Outbound, watch
  <2>2. Shape'
    BY <1>6, <2>1 DEF Undo, SessionInv, Shape, watch, Unlocked
  <2>3. Holder'
    BY <1>6, <2>1, ContextsAssumption
    DEF Undo, SessionInv, Shape, Holder, Inside, Outbound, watch, Unlocked
  <2>4. OwnContext'
    <3> SUFFICES ASSUME NEW t \in Session PROVE Owns(t)'
      BY DEF OwnContext
    <3> QED
      BY <1>6, <2>1
      DEF Undo, SessionInv, Shape, OwnContext, Owns, Inside, Outbound, watch, Unlocked
  <2> QED
    BY <2>2, <2>3, <2>4 DEF SessionInv
<1>7. CASE Ready(s)
  <2>1. /\ at' \in [Session -> Place] /\ at'[s] = "option"
        /\ \A t \in Session \ {s} : at'[t] = at[t]
    BY <1>7 DEF Ready, Goto, SessionInv, Shape, Place, Inside, Outbound, watch
  <2>2. Shape'
    BY <1>7, <2>1 DEF Ready, SessionInv, Shape, watch
  <2>3. Holder'
    BY <1>7, <2>1, ContextsAssumption
    DEF Ready, SessionInv, Shape, Holder, Inside, Outbound, watch
  <2>4. OwnContext'
    <3> SUFFICES ASSUME NEW t \in Session PROVE Owns(t)'
      BY DEF OwnContext
    <3> QED
      BY <1>7, <2>1
      DEF Ready, SessionInv, Shape, OwnContext, Owns, Inside, Outbound, watch
  <2> QED
    BY <2>2, <2>3, <2>4 DEF SessionInv
<1>8. CASE SetOption(s)
  <2>1. Moves(s)
    BY <1>8, ContextsAssumption
    DEF SetOption, Moves, Goto, SessionInv, Shape, Place, Inside, Outbound, UsesContext,
        watch, locks
  <2> QED
    BY <2>1, Move
<1>9. CASE Wrap(s)
  <2>1. /\ at' \in [Session -> Place] /\ at'[s] \in {"wrap", "open"}
        /\ \A t \in Session \ {s} : at'[t] = at[t]
    BY <1>9
    DEF Wrap, Goto, SessionInv, Shape, Place, Inside, Outbound, Crash, UsesContext, session,
        context, watch, locks
  <2>2. Shape'
    BY <1>9, <2>1
    DEF Wrap, SessionInv, Shape, Crash, UsesContext, session, context, watch, locks
  <2>3. Holder'
    BY <1>9, <2>1, ContextsAssumption
    DEF Wrap, SessionInv, Shape, Holder, Inside, Outbound, Crash, UsesContext, session,
        context, watch, locks
  <2>4. OwnContext'
    <3> SUFFICES ASSUME NEW t \in Session PROVE Owns(t)'
      BY DEF OwnContext
    <3> QED
      BY <1>9, <2>1
      DEF Wrap, SessionInv, Shape, OwnContext, Owns, Inside, Outbound, Crash, UsesContext,
          session, context, watch, locks
  <2> QED
    BY <2>2, <2>3, <2>4 DEF SessionInv
<1>10. CASE WrapFails(s)
  <2>1. Moves(s)
    BY <1>10
    DEF WrapFails, Moves, Goto, SessionInv, Shape, Place, Inside, Outbound, context, watch,
        locks
  <2> QED
    BY <2>1, Move
<1>11. CASE EndSession(s)
  <2>1. Moves(s)
    BY <1>11
    DEF EndSession, Moves, Goto, SessionInv, Shape, Place, Inside, Outbound, context, watch,
        locks
  <2> QED
    BY <2>1, Move
<1>12. CASE CloseHandle(s)
  <2>1. /\ at' \in [Session -> Place] /\ at'[s] = "exit"
        /\ \A t \in Session \ {s} : at'[t] = at[t]
    BY <1>12
    DEF CloseHandle, Goto, SessionInv, Shape, Place, Inside, Outbound, context, watch, locks
  <2>2. Shape'
    BY <1>12, <2>1 DEF CloseHandle, SessionInv, Shape, context, watch, locks
  <2>3. Holder'
    BY <1>12, <2>1, ContextsAssumption
    DEF CloseHandle, SessionInv, Shape, Holder, Inside, Outbound, context, watch, locks
  <2>4. OwnContext'
    <3> SUFFICES ASSUME NEW t \in Session PROVE Owns(t)'
      BY DEF OwnContext
    <3> QED
      BY <1>12, <2>1
      DEF CloseHandle, SessionInv, Shape, OwnContext, Owns, Inside, Outbound, context,
          watch, locks
  <2> QED
    BY <2>2, <2>3, <2>4 DEF SessionInv
<1>13. CASE ExitBegins(s)
  <2>1. CASE Goto(s, "done") /\ UNCHANGED <<defaultLock, alive, noDiscovery>>
    <3>1. Moves(s)
      BY <1>13, <2>1
      DEF ExitBegins, Moves, Goto, SessionInv, Shape, Place, Inside, Outbound, watch
    <3> QED
      BY <3>1, Move
  <2>2. CASE /\ Goto(s, "hotplug_exit") /\ usbCtx[s] /\ defaultLock' = s
            /\ defaultLock = Nobody /\ UNCHANGED <<alive, noDiscovery>>
    <3>1. /\ at' \in [Session -> Place] /\ at'[s] = "hotplug_exit"
          /\ \A t \in Session \ {s} : at'[t] = at[t]
      BY <1>13, <2>2 DEF ExitBegins, Goto, SessionInv, Shape, Place, Inside, Outbound
    <3>2. Shape'
      BY <1>13, <2>2, <3>1 DEF ExitBegins, SessionInv, Shape, watch
    <3>3. Holder'
      BY <2>2, <3>1, ContextsAssumption DEF SessionInv, Holder, Inside, Outbound
    <3>4. OwnContext'
      <4> SUFFICES ASSUME NEW t \in Session PROVE Owns(t)'
        BY DEF OwnContext
      <4> QED
        BY <1>13, <2>2, <3>1 DEF ExitBegins, SessionInv, OwnContext, Owns, Inside, Outbound
    <3> QED
      BY <3>2, <3>3, <3>4 DEF SessionInv
  <2> QED
    BY <1>13, <2>1, <2>2 DEF ExitBegins
<1>14. CASE HotplugExit(s)
  <2>1. Moves(s)
    BY <1>14
    DEF HotplugExit, Moves, Goto, SessionInv, Shape, Place, Inside, Outbound, context,
        watch, locks
  <2> QED
    BY <2>1, Move
<1>15. CASE OpExit(s)
  <2>1. Moves(s)
    BY <1>15
    DEF OpExit, Moves, Goto, SessionInv, Shape, Place, Inside, Outbound, context, locks,
        OwnContext, Owns
  <2> QED
    BY <2>1, Move
<1>16. CASE Free(s)
  <2>1. /\ at' \in [Session -> Place] /\ at'[s] = "done"
        /\ \A t \in Session \ {s} : at'[t] = at[t]
    BY <1>16 DEF Free, Goto, SessionInv, Shape, Place, Inside, Outbound, watch
  <2>2. Shape'
    BY <1>16, <2>1 DEF Free, SessionInv, Shape, watch, Destroyed
  <2>3. Holder'
    BY <1>16, <2>1, ContextsAssumption
    DEF Free, SessionInv, Shape, Holder, Inside, Outbound, watch, Destroyed
  <2>4. OwnContext'
    <3> SUFFICES ASSUME NEW t \in Session PROVE Owns(t)'
      BY DEF OwnContext
    <3> QED
      BY <1>16, <2>1
      DEF Free, SessionInv, Shape, OwnContext, Owns, Inside, Outbound, watch, Destroyed
  <2> QED
    BY <2>2, <2>3, <2>4 DEF SessionInv
<1>17. CASE UseAfterFree(s)
  BY <1>17, Stay DEF UseAfterFree, session, context, watch, locks, Crash
<1>18. CASE HandleMessage(s)
  BY <1>18, Stay DEF HandleMessage, session, context, watch, locks
<1>19. CASE PollError(s)
  BY <1>19, Stay DEF PollError, session, context, watch, locks
<1>20. CASE Leaves(s)
  <2>1. /\ UNCHANGED <<at, usbCtx, handleCtx, defaultLock, alive, noDiscovery, initCount, fallback>>
        /\ using' \in [Session -> BOOLEAN] /\ \A t \in Session : using'[t] => using[t]
    BY <1>20 DEF Leaves, SessionInv, Shape, context, watch, locks
  <2>2. Shape' /\ Holder'
    BY <2>1 DEF SessionInv, Shape, Holder
  <2>3. OwnContext'
    BY <2>1 DEF SessionInv, OwnContext, Owns
  <2> QED
    BY <2>2, <2>3 DEF SessionInv
<1> QED
  BY <1>1, <1>2, <1>3, <1>4, <1>5, <1>6, <1>7, <1>8, <1>9, <1>10, <1>11, <1>12, <1>13,
     <1>14, <1>15, <1>16, <1>17, <1>18, <1>19, <1>20
  DEF Step, LibraryStep

\* A session that uses a handle has opened one.
LEMMA UserOpened ==
  ASSUME SessionInv, NEW s \in Session, UseAfterFree(s) \/ Leaves(s)
  PROVE  at[s] \notin Inside \cup {"start", "init"}
  BY DEF UseAfterFree, UsesHandle, HasHandle, Leaves, SessionInv, OwnContext, Owns

-----------------------------------------------------------------------------
(* The monitor.                                                            *)

\* default_context_lock lets one session in at a time.
LEMMA OneInside ==
  ASSUME SessionInv, NEW s \in Session, NEW t \in Session,
         at[s] \in Inside \cup Outbound, at[t] \in Inside \cup Outbound
  PROVE  s = t
  BY DEF SessionInv, Holder

\* Where Goto leads.
LEMMA There ==
  ASSUME SessionInv, NEW s \in Session, NEW l, Goto(s, l)
  PROVE  at'[s] = l
  BY DEF SessionInv, Shape, Goto

\* A step of a session that neither starts, stops nor counts.
Quiet(s) ==
  /\ at' \in [Session -> Place] /\ \A t \in Session \ {s} : at'[t] = at[t]
  /\ at[s] \notin {"scan", "join_undo"} /\ at'[s] \notin {"scan", "join_undo"}
  /\ UNCHANGED <<monitor, initCount>> /\ (stopping' <=> stopping)

\* A quiet step leaves the monitor and its count as they are.
LEMMA QuietStep ==
  ASSUME MonitorInv, NEW s \in Session, Quiet(s)
  PROVE  MonitorInv'
<1>1. \A t \in Session : (at[t] \in {"scan", "join_undo"} \/ at'[t] \in {"scan", "join_undo"})
                         => at'[t] = at[t]
  BY DEF Quiet
<1> QED
  BY <1>1 DEF MonitorInv, AtRest, Quiet

\* libusb_init and libusb_exit start, stop and count the monitor alike, on the
\* ways that fail as well.
LEMMA MonitorStep ==
  ASSUME SessionInv, MonitorInv, NEW s \in Session, Step(s)
  PROVE  MonitorInv'
<1>0. SessionInv'
  BY SessionStep
<1>1. CASE StartMonitor(s)
  <2>1. \A t \in Session : at[t] \notin {"scan", "join_undo"}
    BY <1>1, OneInside DEF StartMonitor, Inside
  <2>2. AtRest
    BY <2>1 DEF MonitorInv
  <2>3. at' \in [Session -> Place] /\ \A t \in Session \ {s} : at'[t] = at[t]
    BY <1>1, <1>0 DEF StartMonitor, Goto, SessionInv, Shape
  <2>4. /\ UNCHANGED <<initCount, stopping>>
        /\ \/ (Goto(s, "ready") \/ Goto(s, "undo")) /\ UNCHANGED monitor
           \/ Goto(s, "scan") /\ (monitor' = "poll" \/ (initCount > 0 /\ UNCHANGED monitor))
    BY <1>1 DEF StartMonitor
  <2>5. \/ at'[s] \in {"ready", "undo"} /\ UNCHANGED monitor
        \/ at'[s] = "scan" /\ (monitor' = "poll" \/ (initCount > 0 /\ UNCHANGED monitor))
    <3>1. CASE Goto(s, "ready") /\ UNCHANGED monitor
      BY <3>1, There
    <3>2. CASE Goto(s, "undo") /\ UNCHANGED monitor
      BY <3>2, There
    <3>3. CASE Goto(s, "scan")
      BY <3>3, <2>4, There
    <3> QED
      BY <2>4, <3>1, <3>2, <3>3
  <2> QED
    BY <2>1, <2>2, <2>3, <2>4, <2>5 DEF MonitorInv, AtRest
<1>2. CASE Scan(s)
  <2>1. \A t \in Session \ {s} : at[t] \notin {"scan", "join_undo"}
    BY <1>2, OneInside DEF Scan, Inside
  <2>2. at[s] = "scan" /\ monitor # "off" /\ ~stopping /\ initCount \in Nat
    BY <1>2 DEF Scan, MonitorInv, SessionInv, Shape
  <2>3. at' \in [Session -> Place] /\ \A t \in Session \ {s} : at'[t] = at[t]
    BY <1>2, <1>0 DEF Scan, Goto, SessionInv, Shape
  <2>4. /\ UNCHANGED monitor
        /\ \/ Goto(s, "ready") /\ initCount' = initCount + 1 /\ ~stopping'
           \/ Goto(s, "undo") /\ UNCHANGED initCount /\ ~stopping' /\ initCount # 0
           \/ Goto(s, "join_undo") /\ UNCHANGED initCount /\ stopping' /\ initCount = 0
    <3>1. CASE /\ stopping' = StopsMonitor(initCount) /\ UNCHANGED initCount
               /\ Goto(s, IF stopping' THEN "join_undo" ELSE "undo")
      <4>1. UNCHANGED monitor
        BY <1>2 DEF Scan
      <4>2. CASE initCount = 0
        BY <3>1, <4>1, <4>2 DEF StopsMonitor
      <4>3. CASE initCount # 0
        BY <3>1, <4>1, <4>3 DEF StopsMonitor
      <4> QED
        BY <4>2, <4>3
    <3>2. CASE initCount' = initCount + 1 /\ Goto(s, "ready") /\ UNCHANGED stopping
      BY <1>2, <2>2, <3>2 DEF Scan
    <3> QED
      BY <1>2, <3>1, <3>2 DEF Scan
  <2>5. at'[s] \in {"ready", "undo", "join_undo"}
        /\ (at'[s] = "ready" <=> Goto(s, "ready")) /\ (at'[s] = "undo" <=> Goto(s, "undo"))
        /\ (at'[s] = "join_undo" <=> Goto(s, "join_undo"))
    BY <2>4, There
  <2> QED
    BY <2>1, <2>2, <2>3, <2>4, <2>5 DEF MonitorInv, AtRest
<1>3. CASE Join(s)
  <2>1. at[s] = "join_undo"
    BY <1>3 DEF Join, SessionInv, Shape, Place, Inside, Outbound
  <2>2. \A t \in Session \ {s} : at[t] \notin {"scan", "join_undo"}
    BY <2>1, OneInside DEF Inside
  <2>3. /\ at' \in [Session -> Place] /\ at'[s] = "undo"
        /\ \A t \in Session \ {s} : at'[t] = at[t]
    BY <1>3, <1>0, <2>1 DEF Join, Goto, SessionInv, Shape
  <2>4. monitor' = "off" /\ ~stopping' /\ initCount' = 0
    BY <1>3, <2>1 DEF Join, MonitorInv
  <2> QED
    BY <2>2, <2>3, <2>4 DEF MonitorInv, AtRest
<1>4. CASE OpExit(s)
  <2>1. s \in noDiscovery
    BY <1>4 DEF OpExit, SessionInv, OwnContext, Owns, Outbound
  <2>2. \A t \in Session : at[t] \notin {"scan", "join_undo"}
    BY <1>4, OneInside DEF OpExit, Inside, Outbound
  <2>3. AtRest
    BY <2>2 DEF MonitorInv
  <2>4. Quiet(s)
    <3>1. /\ ~stopping' /\ UNCHANGED <<monitor, initCount>> /\ at[s] = "op_exit"
          /\ Goto(s, "free")
      BY <1>4, <2>1 DEF OpExit
    <3> QED
      BY <3>1, <2>3, <1>0 DEF AtRest, Quiet, Goto, SessionInv, Shape
  <2> QED
    BY <2>4, QuietStep
<1>5. CASE HandleMessage(s) \/ PollError(s) \/ UseAfterFree(s) \/ Leaves(s)
  BY <1>5 DEF HandleMessage, PollError, UseAfterFree, Leaves, Crash, session, watch, MonitorInv, AtRest
<1>6. CASE InitBegins(s) \/ ExitBegins(s)
  <2>1. Quiet(s)
    BY <1>6, <1>0 DEF InitBegins, ExitBegins, Quiet, Goto, SessionInv, Shape, watch
  <2> QED
    BY <2>1, QuietStep
<1>7. CASE Start(s) \/ Undo(s) \/ Ready(s) \/ SetOption(s) \/ WrapFails(s) \/ EndSession(s)
  <2>1. Quiet(s)
    BY <1>7, <1>0 DEF Start, Undo, Ready, SetOption, WrapFails, EndSession, Quiet, Goto,
                      SessionInv, Shape, watch
  <2> QED
    BY <2>1, QuietStep
<1>8. CASE Wrap(s) \/ CloseHandle(s) \/ HotplugExit(s) \/ Free(s)
  <2>1. Quiet(s)
    BY <1>8, <1>0
    DEF Wrap, Crash, CloseHandle, HotplugExit, Free, Quiet, Goto, SessionInv, Shape,
                      session, watch
  <2> QED
    BY <2>1, QuietStep
<1> QED
  BY <1>1, <1>2, <1>3, <1>4, <1>5, <1>6, <1>7, <1>8 DEF Step, LibraryStep

-----------------------------------------------------------------------------
(* Contexts that are gone.                                                 *)

\* A session uses a context that does not exist only without one of its own, or
\* when another thread has closed it.
LEMMA CrashStep ==
  ASSUME SessionInv, ~crashed, NEW s \in Session, Step(s)
  PROVE  CrashHasCause'
<1>1. CASE Crash /\ at[s] = "wrap" /\ UsesContext(s) = Nobody
  <2>1. ~usbCtx[s]
    BY <1>1, ContextsAssumption DEF UsesContext
  <2> QED
    BY <1>1, <2>1 DEF Crash, CrashHasCause, session
<1>2. CASE UseAfterFree(s)
  <2>1. \/ ~usbCtx[s] /\ (at[s] \in {"open", "close"} \/ using[s])
        \/ using[s] /\ at[s] = "done"
    BY <1>2 DEF UseAfterFree, UsesHandle, HasHandle, SessionInv, Shape, OwnContext, Owns
  <2> QED
    BY <1>2, <2>1 DEF UseAfterFree, Crash, CrashHasCause, session
<1>3. CASE UNCHANGED crashed
  BY <1>3 DEF CrashHasCause
<1> QED
  BY <1>1, <1>2, <1>3
  DEF Step, LibraryStep, Start, InitBegins, StartMonitor, Scan, Join, Undo, Ready,
      SetOption, Wrap,
      WrapFails, CloseHandle, ExitBegins, HotplugExit, OpExit, Free, EndSession, Leaves,
      HandleMessage, PollError

-----------------------------------------------------------------------------
\* The steps of the monitor and of the bus.
LEMMA WorldStep ==
  ASSUME IInv, Monitor \/ Plug \/ Unplug
  PROVE  IInv'
<1>1. /\ UNCHANGED <<at, usbCtx, handleCtx, defaultLock, alive, noDiscovery, initCount, fallback,
                     using, stopping, crashed>>
      /\ (monitor' = "off") <=> (monitor = "off")
  BY DEF Monitor, MonitorPolls, MonitorReads, MonitorHandles, Plug, Unplug, session, context,
      locks
<1>2. SessionInv'
  BY <1>1, Stay DEF IInv
<1>3. MonitorInv'
  BY <1>1 DEF IInv, MonitorInv, AtRest
<1>4. CrashHasCause'
  BY <1>1 DEF IInv, CrashHasCause
<1> QED
  BY <1>2, <1>3, <1>4 DEF IInv

\* The invariant: who holds default_context_lock, which contexts exist, and
\* what the monitor's count says.
THEOREM Inductive == Spec => []IInv
<1>1. Init => IInv
  BY InitInv
<1>2. IInv /\ [Next]_vars => IInv'
  <2> SUFFICES ASSUME IInv, [Next]_vars PROVE IInv'
    OBVIOUS
  <2>1. CASE UNCHANGED vars
    <3>1. UNCHANGED <<at, usbCtx, handleCtx, defaultLock, alive, noDiscovery, initCount, fallback,
                      using, monitor, stopping, crashed>>
      BY <2>1 DEF vars, session, context, watch, locks
    <3>2. SessionInv'
      BY <3>1, Stay DEF IInv
    <3> QED
      BY <3>1, <3>2 DEF IInv, MonitorInv, AtRest, CrashHasCause
  <2>2. CASE Monitor \/ Plug \/ Unplug
    BY <2>2, WorldStep
  <2>3. ASSUME NEW s \in Session, Step(s), ~crashed PROVE IInv'
    BY <2>3, SessionStep, MonitorStep, CrashStep DEF IInv
  <2> QED
    BY <2>1, <2>2, <2>3 DEF Next
<1> QED
  BY <1>1, <1>2, PTL DEF Spec

\* The monitor runs exactly while a context counts on it, whenever no thread is
\* inside libusb_init or libusb_exit: for any number of sessions.
THEOREM MonitorIsCounted == Spec => []MonitorCounted
<1>1. IInv => MonitorCounted
  <2> SUFFICES ASSUME IInv, defaultLock = Nobody PROVE AtRest
    BY DEF MonitorCounted, AtRest
  <2>1. \A s \in Session : at[s] \notin Inside
    BY ContextsAssumption DEF IInv, SessionInv, Holder
  <2> QED
    BY <2>1 DEF IInv, MonitorInv, Inside
<1> QED
  BY <1>1, Inductive, PTL

\* A context that is gone or was never there is used only by a session whose
\* libusb_init has failed, or that another thread has closed to the end: for any
\* number of overlapping sessions.
THEOREM CrashExplained == Spec => []CrashHasCause
<1>1. IInv => CrashHasCause
  BY DEF IInv
<1> QED
  BY <1>1, Inductive, PTL
-----------------------------------------------------------------------------
(* Counting in a queue.                                                    *)

HotplugMsg == [act : {"add", "remove"}, dev : Device]
Gone(d) == [act |-> "remove", dev |-> d]
Places(q, m) == {i \in 1 .. Len(q) : q[i] = m}

\* A queue has finitely many places.
LEMMA PlacesFinite ==
  ASSUME NEW q \in Seq(HotplugMsg), NEW m
  PROVE  IsFiniteSet(Places(q, m)) /\ Cardinality(Places(q, m)) \in Nat
<1>1. IsFiniteSet(1 .. Len(q))
  BY LenProperties, FS_Interval
<1>2. IsFiniteSet(Places(q, m))
  BY <1>1, FS_Subset DEF Places
<1> QED
  BY <1>2, FS_CardinalityType

\* One message more.
LEMMA CountAppend ==
  ASSUME NEW q \in Seq(HotplugMsg), NEW x \in HotplugMsg, NEW m
  PROVE  Cardinality(Places(Append(q, x), m)) =
           Cardinality(Places(q, m)) + (IF x = m THEN 1 ELSE 0)
<1> DEFINE n == Len(q)
<1>1. n \in Nat /\ IsFiniteSet(Places(q, m)) /\ Cardinality(Places(q, m)) \in Nat
  BY LenProperties, PlacesFinite
<1>2. /\ Len(Append(q, x)) = n + 1 /\ Append(q, x)[n + 1] = x
      /\ \A i \in 1 .. n : Append(q, x)[i] = q[i]
  BY AppendProperties
<1> HIDE DEF n
<1>3. n + 1 \notin Places(q, m)
  BY <1>1 DEF Places, n
<1>4. CASE x = m
  <2>1. Places(Append(q, x), m) = Places(q, m) \cup {n + 1}
    BY <1>1, <1>2, <1>4 DEF Places, n
  <2> QED
    BY <1>1, <1>3, <1>4, <2>1, FS_AddElement
<1>5. CASE x # m
  <2>1. Places(Append(q, x), m) = Places(q, m)
    BY <1>1, <1>2, <1>5 DEF Places, n
  <2> QED
    BY <1>1, <1>5, <2>1
<1> QED
  BY <1>4, <1>5

\* The first message is gone.
LEMMA CountTail ==
  ASSUME NEW q \in Seq(HotplugMsg), q # <<>>, NEW m
  PROVE  Cardinality(Places(Tail(q), m)) =
           Cardinality(Places(q, m)) - (IF Head(q) = m THEN 1 ELSE 0)
<1> DEFINE n == Len(q)
           T == Places(Tail(q), m)
           S == Places(q, m)
           f == [i \in T |-> i + 1]
<1>1. n \in Nat /\ n >= 1 /\ Head(q) = q[1]
  BY EmptySeq, LenProperties
<1>2. Tail(q) \in Seq(HotplugMsg) /\ Len(Tail(q)) = n - 1
      /\ \A i \in 1 .. n - 1 : Tail(q)[i] = q[i + 1]
  BY HeadTailProperties
<1>3. IsFiniteSet(S) /\ Cardinality(S) \in Nat /\ IsFiniteSet(T)
  BY <1>2, PlacesFinite
<1>4. T = {i \in 1 .. n - 1 : q[i + 1] = m}
  BY <1>2 DEF Places
<1>5. S = {i \in 1 .. n : q[i] = m}
  BY DEF Places
<1> HIDE DEF n, T, S
<1>6. f \in [T -> S \ {1}]
  BY <1>1, <1>4, <1>5
<1>7. \A i, j \in T : f[i] = f[j] => i = j
  BY <1>1, <1>4
<1>8. \A k \in S \ {1} : \E i \in T : f[i] = k
  <2> SUFFICES ASSUME NEW k \in S \ {1} PROVE \E i \in T : f[i] = k
    OBVIOUS
  <2>1. k - 1 \in T
    BY <1>1, <1>4, <1>5
  <2>2. f[k - 1] = k
    BY <1>1, <1>5, <2>1
  <2> QED
    BY <2>1, <2>2
<1>9. f \in Bijection(T, S \ {1})
  BY <1>6, <1>7, <1>8 DEF Bijection, Injection, Surjection, IsInjective
<1>10. Cardinality(S \ {1}) = Cardinality(T)
  BY <1>3, <1>9, FS_Bijection DEF ExistsBijection
<1>11. CASE q[1] = m
  <2>1. 1 \in S
    BY <1>1, <1>5, <1>11
  <2>2. Cardinality(S \ {1}) = Cardinality(S) - 1
    BY <1>3, <2>1, FS_RemoveElement
  <2> QED
    BY <1>1, <1>10, <1>11, <2>2 DEF S, T
<1>12. CASE q[1] # m
  <2>1. S \ {1} = S
    BY <1>5, <1>12
  <2>2. Cardinality(T) = Cardinality(S)
    BY <1>10, <2>1
  <2> QED
    BY <1>1, <1>3, <1>12, <2>2 DEF S, T
<1> QED
  BY <1>11, <1>12

\* An empty queue has none, one with the message at least one.
LEMMA CountSome ==
  ASSUME NEW q \in Seq(HotplugMsg), NEW m
  PROVE  /\ q = <<>> => Cardinality(Places(q, m)) = 0
         /\ \A i \in 1 .. Len(q) : q[i] = m => Cardinality(Places(q, m)) > 0
<1>1. IsFiniteSet(Places(q, m)) /\ Cardinality(Places(q, m)) \in Nat
  BY PlacesFinite
<1>2. ASSUME q = <<>> PROVE Cardinality(Places(q, m)) = 0
  <2>1. Places(q, m) = {}
    BY <1>2, EmptySeq DEF Places
  <2> QED
    BY <2>1, FS_EmptySet
<1>3. ASSUME NEW i \in 1 .. Len(q), q[i] = m PROVE Cardinality(Places(q, m)) > 0
  <2>1. Places(q, m) # {}
    BY <1>3 DEF Places
  <2>2. Cardinality(Places(q, m)) # 0
    BY <1>1, <2>1, FS_EmptySet
  <2> QED
    BY <1>1, <2>2
<1> QED
  BY <1>2, <1>3

-----------------------------------------------------------------------------
(* Devices.                                                                *)

DeviceTypes ==
  /\ present \in 0 .. plugs /\ plugs \in 0 .. Plugs
  /\ usbDevs \in [Session -> SUBSET (1 .. plugs)]
  /\ refcnt \in [Session -> [Device -> Int]]
  /\ hotplugMsgs \in [Session -> Seq(HotplugMsg)]
  /\ uevents \in Seq(HotplugMsg) /\ message \in HotplugMsg \cup {NoMessage}
  /\ lost \subseteq Session \X (1 .. plugs)
  /\ active \subseteq Session /\ alive \subseteq Session

\* A kernel message that the monitor has still to handle.
Pending(act, d) ==
  LET m == [act |-> act, dev |-> d]
  IN  message = m \/ \E i \in 1 .. Len(uevents) : uevents[i] = m

Reading ==
  /\ monitor = "lock" => uevents # <<>>
  /\ monitor = "read" <=> message # NoMessage
  /\ \A d \in Device : Pending("remove", d) => d # present /\ d <= plugs

\* A context comes and goes once, and gets messages once it is ready.
Passing ==
  \A c \in Session :
    /\ at[c] \in {"start", "init"} => c \notin active \cup scanned /\ usbDevs[c] = {}
    /\ at[c] \in Inside => c \in active
    /\ c \in hotplugReady => usbCtx[c]
    /\ c \notin hotplugReady => hotplugMsgs[c] = <<>>

\* A device that was lost is not listed again.
LostForGood ==
  \A c \in Session, d \in Device : <<c, d>> \in lost =>
    /\ d \notin usbDevs[c]
    /\ d # present \/ (c \notin active /\ at[c] \notin {"start", "init"})

\* ReferencesOwned, for one context.
Owned(c) ==
  \A d \in Device :
    refcnt[c][d] = (IF d \in usbDevs[c] THEN 1 ELSE 0)
                   + Cardinality(Places(hotplugMsgs[c], Gone(d)))
                   + (IF <<c, d>> \in lost THEN 1 ELSE 0)

\* A device whose arrival is still to be told is listed, or its going is told later.
Announced(c) ==
  \A i \in 1 .. Len(hotplugMsgs[c]) :
    hotplugMsgs[c][i].act = "add" =>
      \/ hotplugMsgs[c][i].dev \in usbDevs[c]
      \/ \E j \in i .. Len(hotplugMsgs[c]) : hotplugMsgs[c][j] = Gone(hotplugMsgs[c][i].dev)

Accounted == \A c \in Session : Owned(c) /\ Announced(c)
DeviceInv == DeviceTypes /\ Reading /\ Passing /\ LostForGood /\ Accounted

\* The devices of a context that no step touches.
LEMMA SameKept ==
  ASSUME NEW c \in Session, Owned(c), Announced(c),
         usbDevs'[c] = usbDevs[c], refcnt'[c] = refcnt[c], hotplugMsgs'[c] = hotplugMsgs[c],
         \A d \in Device : <<c, d>> \in lost' <=> <<c, d>> \in lost
  PROVE  Owned(c)' /\ Announced(c)'
  BY DEF Owned, Announced

\* A device enters the list of a context, which is told if it is ready.
LEMMA AddKept ==
  ASSUME DeviceTypes, NEW c \in Session, Owned(c), Announced(c),
         NEW d \in Device, d \notin usbDevs[c],
         usbDevs'[c] = usbDevs[c] \cup {d}, refcnt'[c] = [refcnt[c] EXCEPT ![d] = @ + 1],
         \/ hotplugMsgs'[c] = hotplugMsgs[c]
         \/ hotplugMsgs'[c] = Append(hotplugMsgs[c], [act |-> "add", dev |-> d]),
         \A e \in Device : <<c, e>> \in lost' <=> <<c, e>> \in lost
  PROVE  Owned(c)' /\ Announced(c)'
<1> DEFINE q == hotplugMsgs[c]
           x == [act |-> "add", dev |-> d]
<1>1. q \in Seq(HotplugMsg) /\ x \in HotplugMsg /\ Len(q) \in Nat
  BY LenProperties DEF DeviceTypes, HotplugMsg
<1>2. \A e \in Device : refcnt[c][e] \in Int /\ Cardinality(Places(q, Gone(e))) \in Nat
  BY <1>1, PlacesFinite DEF DeviceTypes
<1>3. \A e \in Device : Cardinality(Places(hotplugMsgs'[c], Gone(e)))
                          = Cardinality(Places(q, Gone(e)))
  <2> SUFFICES ASSUME NEW e \in Device
               PROVE  Cardinality(Places(Append(q, x), Gone(e))) = Cardinality(Places(q, Gone(e)))
    OBVIOUS
  <2>1. x # Gone(e)
    BY DEF Gone
  <2> QED
    BY <1>1, <1>2, <2>1, CountAppend
<1>4. \A e \in Device : refcnt'[c][e] = IF e = d THEN refcnt[c][e] + 1 ELSE refcnt[c][e]
  BY DEF DeviceTypes
<1>5. Owned(c)'
  <2> SUFFICES ASSUME NEW e \in Device
               PROVE  refcnt'[c][e] = (IF e \in usbDevs'[c] THEN 1 ELSE 0)
                                      + Cardinality(Places(hotplugMsgs'[c], Gone(e)))
                                      + (IF <<c, e>> \in lost' THEN 1 ELSE 0)
    BY DEF Owned
  <2>1. refcnt[c][e] = (IF e \in usbDevs[c] THEN 1 ELSE 0) + Cardinality(Places(q, Gone(e)))
                       + (IF <<c, e>> \in lost THEN 1 ELSE 0)
    BY DEF Owned
  <2> QED
    BY <1>2, <1>3, <1>4, <2>1
<1>6. Announced(c)'
  <2>1. CASE hotplugMsgs'[c] = q
    BY <2>1 DEF Announced
  <2>2. CASE hotplugMsgs'[c] = Append(q, x)
    <3> SUFFICES ASSUME NEW i \in 1 .. Len(q) + 1, Append(q, x)[i].act = "add"
                 PROVE  \/ Append(q, x)[i].dev \in usbDevs'[c]
                        \/ \E j \in i .. Len(q) + 1 :
                             Append(q, x)[j] = Gone(Append(q, x)[i].dev)
      BY <1>1, <2>2, AppendProperties DEF Announced
    <3>1. CASE i = Len(q) + 1
      BY <1>1, <3>1, AppendProperties
    <3>2. CASE i \in 1 .. Len(q)
      <4>1. \A j \in 1 .. Len(q) : Append(q, x)[j] = q[j]
        BY <1>1, AppendProperties
      <4>2. q[i].dev \in usbDevs[c] \/ \E j \in i .. Len(q) : q[j] = Gone(q[i].dev)
        BY <3>2, <4>1 DEF Announced
      <4> QED
        BY <1>1, <3>2, <4>1, <4>2
    <3> QED
      BY <1>1, <3>1, <3>2
  <2> QED
    BY <2>1, <2>2
<1> QED
  BY <1>5, <1>6

\* A device leaves the list: its reference goes to the message or is lost.
LEMMA RemoveKept ==
  ASSUME DeviceTypes, NEW c \in Session, Owned(c), Announced(c),
         NEW d \in Device, d \in usbDevs[c], <<c, d>> \notin lost,
         usbDevs'[c] = usbDevs[c] \ {d}, refcnt'[c] = refcnt[c],
         \/ /\ hotplugMsgs'[c] = Append(hotplugMsgs[c], Gone(d)) /\ <<c, d>> \notin lost'
         \/ /\ hotplugMsgs'[c] = hotplugMsgs[c] /\ hotplugMsgs[c] = <<>> /\ <<c, d>> \in lost',
         \A e \in Device \ {d} : <<c, e>> \in lost' <=> <<c, e>> \in lost
  PROVE  Owned(c)' /\ Announced(c)'
<1> DEFINE q == hotplugMsgs[c]
           x == Gone(d)
<1>1. q \in Seq(HotplugMsg) /\ x \in HotplugMsg /\ Len(q) \in Nat
  BY LenProperties DEF DeviceTypes, HotplugMsg, Gone
<1>2. \A e \in Device : refcnt[c][e] \in Int /\ Cardinality(Places(q, Gone(e))) \in Nat
  BY <1>1, PlacesFinite DEF DeviceTypes
<1>3. \A e \in Device : Gone(e) = Gone(d) <=> e = d
  <2> SUFFICES ASSUME NEW e \in Device, Gone(e) = Gone(d) PROVE e = d
    OBVIOUS
  <2> QED
    BY DEF Gone
<1>4. Owned(c)'
  <2> SUFFICES ASSUME NEW e \in Device
               PROVE  refcnt'[c][e] = (IF e \in usbDevs'[c] THEN 1 ELSE 0)
                                      + Cardinality(Places(hotplugMsgs'[c], Gone(e)))
                                      + (IF <<c, e>> \in lost' THEN 1 ELSE 0)
    BY DEF Owned
  <2>1. refcnt[c][e] = (IF e \in usbDevs[c] THEN 1 ELSE 0) + Cardinality(Places(q, Gone(e)))
                       + (IF <<c, e>> \in lost THEN 1 ELSE 0)
    BY DEF Owned
  <2>2. CASE hotplugMsgs'[c] = Append(q, x) /\ <<c, d>> \notin lost'
    <3>1. Cardinality(Places(Append(q, x), Gone(e))) =
            Cardinality(Places(q, Gone(e))) + (IF x = Gone(e) THEN 1 ELSE 0)
      BY <1>1, CountAppend
    <3>2. CASE e = d
      BY <1>2, <2>1, <2>2, <3>1, <3>2
    <3>3. CASE e # d
      <4>1. x # Gone(e)
        BY <1>3, <3>3
      <4> QED
        BY <1>2, <2>1, <2>2, <3>1, <3>3, <4>1
    <3> QED
      BY <3>2, <3>3
  <2>3. CASE hotplugMsgs'[c] = q /\ <<c, d>> \in lost'
    BY <1>2, <2>1, <2>3
  <2> QED
    BY <2>2, <2>3
<1>5. Announced(c)'
  <2>1. CASE hotplugMsgs'[c] = Append(q, x)
    <3> SUFFICES ASSUME NEW i \in 1 .. Len(q) + 1, Append(q, x)[i].act = "add"
                 PROVE  \/ Append(q, x)[i].dev \in usbDevs'[c]
                        \/ \E j \in i .. Len(q) + 1 :
                             Append(q, x)[j] = Gone(Append(q, x)[i].dev)
      BY <1>1, <2>1, AppendProperties DEF Announced
    <3>1. \A j \in 1 .. Len(q) : Append(q, x)[j] = q[j]
      BY <1>1, AppendProperties
    <3>2. Append(q, x)[Len(q) + 1] = x /\ x.act = "remove"
      BY <1>1, AppendProperties DEF Gone
    <3>3. i \in 1 .. Len(q)
      BY <1>1, <3>2
    <3>4. q[i].dev \in usbDevs[c] \/ \E j \in i .. Len(q) : q[j] = Gone(q[i].dev)
      BY <3>1, <3>3 DEF Announced
    <3>5. CASE q[i].dev \in usbDevs[c] \ {d}
      BY <3>1, <3>3, <3>5
    <3>6. CASE q[i].dev = d
      BY <1>1, <3>1, <3>2, <3>3, <3>6
    <3>7. ASSUME NEW j \in i .. Len(q), q[j] = Gone(q[i].dev)
          PROVE  \E k \in i .. Len(q) + 1 : Append(q, x)[k] = Gone(Append(q, x)[i].dev)
      BY <1>1, <3>1, <3>3, <3>7
    <3> QED
      BY <3>4, <3>5, <3>6, <3>7
  <2>2. CASE hotplugMsgs'[c] = <<>>
    BY <2>2 DEF Announced
  <2> QED
    BY <2>1, <2>2
<1> QED
  BY <1>4, <1>5

\* A message is handled; one that a device has left gives back its reference.
LEMMA HandleKept ==
  ASSUME DeviceTypes, NEW c \in Session, Owned(c), Announced(c), hotplugMsgs[c] # <<>>,
         usbDevs'[c] = usbDevs[c], hotplugMsgs'[c] = Tail(hotplugMsgs[c]),
         refcnt'[c] = [refcnt[c] EXCEPT ![Head(hotplugMsgs[c]).dev] =
                         @ - Owes(Head(hotplugMsgs[c]))],
         \A e \in Device : <<c, e>> \in lost' <=> <<c, e>> \in lost
  PROVE  Owned(c)' /\ Announced(c)'
<1> DEFINE q == hotplugMsgs[c]
           x == Head(q)
<1>1. /\ q \in Seq(HotplugMsg) /\ x \in HotplugMsg /\ Len(q) \in Nat /\ Len(q) >= 1 /\ x = q[1]
      /\ Tail(q) \in Seq(HotplugMsg) /\ Len(Tail(q)) = Len(q) - 1
      /\ \A i \in 1 .. Len(q) - 1 : Tail(q)[i] = q[i + 1]
  <2>1. q \in Seq(HotplugMsg)
    BY DEF DeviceTypes
  <2> QED
    BY <2>1, HeadTailProperties, EmptySeq, LenProperties
<1>2. \A e \in Device : refcnt[c][e] \in Int /\ Cardinality(Places(q, Gone(e))) \in Nat
  BY <1>1, PlacesFinite DEF DeviceTypes
<1>3. Owned(c)'
  <2> SUFFICES ASSUME NEW e \in Device
               PROVE  refcnt'[c][e] = (IF e \in usbDevs'[c] THEN 1 ELSE 0)
                                      + Cardinality(Places(Tail(q), Gone(e)))
                                      + (IF <<c, e>> \in lost' THEN 1 ELSE 0)
    BY DEF Owned
  <2>1. refcnt[c][e] = (IF e \in usbDevs[c] THEN 1 ELSE 0) + Cardinality(Places(q, Gone(e)))
                       + (IF <<c, e>> \in lost THEN 1 ELSE 0)
    BY DEF Owned
  <2>2. Cardinality(Places(Tail(q), Gone(e))) =
          Cardinality(Places(q, Gone(e))) - (IF x = Gone(e) THEN 1 ELSE 0)
    BY <1>1, CountTail
  <2>3. refcnt'[c][e] = refcnt[c][e] - (IF x = Gone(e) THEN 1 ELSE 0)
    <3>1. refcnt[c] \in [Device -> Int] /\ x.dev \in Device /\ x.act \in {"add", "remove"}
      BY <1>1 DEF DeviceTypes, HotplugMsg
    <3>2. x = Gone(e) <=> x.act = "remove" /\ x.dev = e
      BY <1>1 DEF Gone, HotplugMsg
    <3> QED
      BY <1>2, <3>1, <3>2 DEF Owes
  <2> QED
    BY <1>2, <2>1, <2>2, <2>3
<1>4. Announced(c)'
  <2> SUFFICES ASSUME NEW i \in 1 .. Len(q) - 1, q[i + 1].act = "add"
               PROVE  \/ q[i + 1].dev \in usbDevs[c]
                      \/ \E j \in i .. Len(q) - 1 : q[j + 1] = Gone(q[i + 1].dev)
    BY <1>1 DEF Announced
  <2>1. i + 1 \in 1 .. Len(q)
    BY <1>1
  <2>2. q[i + 1].dev \in usbDevs[c] \/ \E j \in i + 1 .. Len(q) : q[j] = Gone(q[i + 1].dev)
    BY <2>1 DEF Announced
  <2>3. ASSUME NEW j \in i + 1 .. Len(q), q[j] = Gone(q[i + 1].dev)
        PROVE  \E k \in i .. Len(q) - 1 : q[k + 1] = Gone(q[i + 1].dev)
    <3>1. j - 1 \in i .. Len(q) - 1 /\ (j - 1) + 1 = j
      BY <1>1, <2>1
    <3> QED
      BY <2>3, <3>1
  <2> QED
    BY <2>2, <2>3
<1> QED
  BY <1>3, <1>4

\* What linux_enumerate_device leaves, in whichever contexts it looks.
LEMMA EnumerateKept ==
  ASSUME DeviceTypes, Accounted, NEW ctxs \in SUBSET Session, NEW d, Enumerate(ctxs, d),
         UNCHANGED <<present, plugs>>
  PROVE  /\ Accounted' /\ lost' = lost
         /\ usbDevs' \in [Session -> SUBSET (1 .. plugs)]
         /\ refcnt' \in [Session -> [Device -> Int]]
         /\ hotplugMsgs' \in [Session -> Seq(HotplugMsg)]
         /\ \A c \in Session :
              /\ \/ usbDevs'[c] = usbDevs[c]
                 \/ c \in ctxs /\ d = present /\ usbDevs'[c] = usbDevs[c] \cup {d}
              /\ c \in ctxs /\ d = present /\ d \in Device => d \in usbDevs'[c]
              /\ c \notin hotplugReady => hotplugMsgs'[c] = hotplugMsgs[c]
<1> DEFINE new == IF d \in Device /\ d = present THEN Lacking(ctxs, d) ELSE {}
           x == [act |-> "add", dev |-> d]
<1>1. /\ usbDevs' = [c \in Session |-> IF c \in new THEN usbDevs[c] \cup {d} ELSE usbDevs[c]]
      /\ refcnt' = [c \in Session |->
                      IF c \in new THEN [refcnt[c] EXCEPT ![d] = @ + 1] ELSE refcnt[c]]
      /\ hotplugMsgs' = [c \in Session |-> IF c \in new \cap hotplugReady
                           THEN Append(hotplugMsgs[c], x) ELSE hotplugMsgs[c]]
      /\ lost' = lost
  BY DEF Enumerate, Tell
<1>2. \A c \in new : /\ c \in ctxs /\ d \in Device /\ d = present /\ d \notin usbDevs[c]
                     /\ d \in 1 .. plugs /\ x \in HotplugMsg
  BY DEF Lacking, Device, DeviceTypes, HotplugMsg
<1>3. \A c \in ctxs \ new : d \in Device /\ d = present => d \in usbDevs[c]
  BY DEF Lacking
<1> HIDE DEF new
<1>4. ASSUME NEW c \in Session PROVE (Owned(c) /\ Announced(c))'
  <2>1. Owned(c) /\ Announced(c)
    BY DEF Accounted
  <2>2. CASE c \in new
    <3>1. /\ usbDevs'[c] = usbDevs[c] \cup {d} /\ refcnt'[c] = [refcnt[c] EXCEPT ![d] = @ + 1]
          /\ \/ hotplugMsgs'[c] = hotplugMsgs[c]
             \/ hotplugMsgs'[c] = Append(hotplugMsgs[c], x)
      BY <1>1, <2>2
    <3> QED
      BY <1>1, <1>2, <2>1, <2>2, <3>1, AddKept
  <2>3. CASE c \notin new
    <3>1. usbDevs'[c] = usbDevs[c] /\ refcnt'[c] = refcnt[c] /\ hotplugMsgs'[c] = hotplugMsgs[c]
      BY <1>1, <2>3
    <3> QED
      BY <1>1, <2>1, <3>1, SameKept
  <2> QED
    BY <2>2, <2>3
<1>5. usbDevs' \in [Session -> SUBSET (1 .. plugs)] /\ refcnt' \in [Session -> [Device -> Int]]
  BY <1>1, <1>2 DEF DeviceTypes
<1>6. hotplugMsgs' \in [Session -> Seq(HotplugMsg)]
  <2>1. \A c \in new : Append(hotplugMsgs[c], x) \in Seq(HotplugMsg)
    <3> SUFFICES ASSUME NEW c \in new PROVE Append(hotplugMsgs[c], x) \in Seq(HotplugMsg)
      OBVIOUS
    <3>1. hotplugMsgs[c] \in Seq(HotplugMsg) /\ x \in HotplugMsg
      BY <1>2 DEF DeviceTypes
    <3> QED
      BY <3>1, AppendProperties
  <2> QED
    BY <1>1, <2>1 DEF DeviceTypes
<1>7. ASSUME NEW c \in Session
      PROVE  /\ \/ usbDevs'[c] = usbDevs[c]
                \/ c \in ctxs /\ d = present /\ usbDevs'[c] = usbDevs[c] \cup {d}
             /\ c \in ctxs /\ d = present /\ d \in Device => d \in usbDevs'[c]
             /\ c \notin hotplugReady => hotplugMsgs'[c] = hotplugMsgs[c]
  BY <1>1, <1>2, <1>3
<1> QED
  BY <1>1, <1>4, <1>5, <1>6, <1>7 DEF Accounted

\* What linux_device_disconnected leaves.
LEMMA DisconnectKept ==
  ASSUME DeviceTypes, Passing, LostForGood, Accounted,
         NEW d, Disconnect(d), UNCHANGED <<present, plugs>>
  PROVE  /\ Accounted'
         /\ usbDevs' \in [Session -> SUBSET (1 .. plugs)]
         /\ refcnt' \in [Session -> [Device -> Int]]
         /\ hotplugMsgs' \in [Session -> Seq(HotplugMsg)]
         /\ lost' \subseteq Session \X (1 .. plugs)
         /\ \A c \in Session :
              /\ usbDevs'[c] = IF c \in active THEN usbDevs[c] \ {d} ELSE usbDevs[c]
              /\ c \notin hotplugReady => hotplugMsgs'[c] = hotplugMsgs[c]
              /\ \A e \in Device : <<c, e>> \in lost' => <<c, e>> \in lost \/ (e = d /\ c \in active)
<1> DEFINE gone == {c \in active : d \in usbDevs[c]}
<1>1. /\ usbDevs' = [c \in Session |-> IF c \in gone THEN usbDevs[c] \ {d} ELSE usbDevs[c]]
      /\ hotplugMsgs' = [c \in Session |-> IF c \in gone \cap hotplugReady
                           THEN Append(hotplugMsgs[c], Gone(d)) ELSE hotplugMsgs[c]]
      /\ lost' = lost \cup {<<c, d>> : c \in gone \ hotplugReady}
      /\ refcnt' = refcnt
  BY DEF Disconnect, Tell, Watched, Gone
<1>2. \A c \in gone : /\ c \in Session /\ c \in active /\ d \in usbDevs[c] /\ d \in 1 .. plugs
                      /\ d \in Device /\ Gone(d) \in HotplugMsg /\ <<c, d>> \notin lost
  <2> SUFFICES ASSUME NEW c \in gone
               PROVE  /\ c \in Session /\ c \in active /\ d \in usbDevs[c] /\ d \in 1 .. plugs
                      /\ d \in Device /\ Gone(d) \in HotplugMsg /\ <<c, d>> \notin lost
    OBVIOUS
  <2>0. c \in Session /\ c \in active /\ d \in usbDevs[c]
    BY DEF DeviceTypes
  <2>1. d \in 1 .. plugs
    BY <2>0 DEF DeviceTypes
  <2>2. d \in Device
    BY <2>1, ContextsAssumption DEF DeviceTypes, Device
  <2>3. Gone(d) \in HotplugMsg
    BY <2>2 DEF HotplugMsg, Gone
  <2>4. <<c, d>> \notin lost
    BY <2>0, <2>2 DEF LostForGood
  <2> QED
    BY <2>0, <2>1, <2>2, <2>3, <2>4
<1>3. \A c \in active \ gone : d \notin usbDevs[c]
  OBVIOUS
<1> HIDE DEF gone
<1>4. ASSUME NEW c \in Session PROVE (Owned(c) /\ Announced(c))'
  <2>1. Owned(c) /\ Announced(c)
    BY DEF Accounted
  <2>2. CASE c \in gone
    <3>1. usbDevs'[c] = usbDevs[c] \ {d} /\ refcnt'[c] = refcnt[c]
      BY <1>1, <2>2
    <3>2. \A e \in Device \ {d} : <<c, e>> \in lost' <=> <<c, e>> \in lost
      BY <1>1
    <3>3. CASE c \in hotplugReady
      <4>1. hotplugMsgs'[c] = Append(hotplugMsgs[c], Gone(d)) /\ <<c, d>> \notin lost'
        BY <1>1, <1>2, <2>2, <3>3
      <4> QED
        BY <1>2, <2>1, <2>2, <3>1, <3>2, <4>1, RemoveKept
    <3>4. CASE c \notin hotplugReady
      <4>1. hotplugMsgs'[c] = hotplugMsgs[c] /\ hotplugMsgs[c] = <<>> /\ <<c, d>> \in lost'
        BY <1>1, <2>2, <3>4 DEF Passing
      <4> QED
        BY <1>2, <2>1, <2>2, <3>1, <3>2, <4>1, RemoveKept
    <3> QED
      BY <3>3, <3>4
  <2>3. CASE c \notin gone
    <3>1. usbDevs'[c] = usbDevs[c] /\ refcnt'[c] = refcnt[c] /\ hotplugMsgs'[c] = hotplugMsgs[c]
          /\ \A e \in Device : <<c, e>> \in lost' <=> <<c, e>> \in lost
      BY <1>1, <2>3
    <3> QED
      BY <2>1, <3>1, SameKept
  <2> QED
    BY <2>2, <2>3
<1>5. /\ usbDevs' \in [Session -> SUBSET (1 .. plugs)] /\ refcnt' \in [Session -> [Device -> Int]]
      /\ lost' \subseteq Session \X (1 .. plugs)
  BY <1>1, <1>2 DEF DeviceTypes
<1>6. hotplugMsgs' \in [Session -> Seq(HotplugMsg)]
  <2>1. \A c \in gone : Append(hotplugMsgs[c], Gone(d)) \in Seq(HotplugMsg)
    <3> SUFFICES ASSUME NEW c \in gone PROVE Append(hotplugMsgs[c], Gone(d)) \in Seq(HotplugMsg)
      OBVIOUS
    <3>1. hotplugMsgs[c] \in Seq(HotplugMsg) /\ Gone(d) \in HotplugMsg
      BY <1>2 DEF DeviceTypes
    <3> QED
      BY <3>1, AppendProperties
  <2> QED
    BY <1>1, <2>1 DEF DeviceTypes
<1>7. ASSUME NEW c \in Session
      PROVE  /\ usbDevs'[c] = IF c \in active THEN usbDevs[c] \ {d} ELSE usbDevs[c]
             /\ c \notin hotplugReady => hotplugMsgs'[c] = hotplugMsgs[c]
             /\ \A e \in Device : <<c, e>> \in lost' => <<c, e>> \in lost \/ (e = d /\ c \in active)
  <2>1. usbDevs'[c] = IF c \in active THEN usbDevs[c] \ {d} ELSE usbDevs[c]
    BY <1>1, <1>2, <1>3
  <2>2. c \notin hotplugReady => hotplugMsgs'[c] = hotplugMsgs[c]
    BY <1>1
  <2>3. \A e \in Device : <<c, e>> \in lost' => <<c, e>> \in lost \/ (e = d /\ c \in active)
    BY <1>1, <1>2
  <2> QED
    BY <2>1, <2>2, <2>3
<1> QED
  BY <1>4, <1>5, <1>6, <1>7 DEF Accounted

\* A step of a session that leaves the devices and the kernel's messages alone.
Walks(s) ==
  /\ UNCHANGED <<present, plugs, usbDevs, refcnt, hotplugMsgs, uevents, message, lost, scanned>>
  /\ monitor' = monitor \/ (monitor = "off" /\ monitor' = "poll")
  /\ alive' \subseteq alive \cup {s}
  /\ \A t \in Session \ {s} : at'[t] = at[t] /\ usbCtx'[t] = usbCtx[t]
  /\ at'[s] # "start" /\ (at'[s] = "init" => at[s] = "start" /\ active' = active)
  /\ at'[s] \in Inside => s \in active'
  /\ active \ {s} \subseteq active' /\ active' \subseteq active \cup {s}
  /\ s \in active' \ active => at[s] \in {"start", "init"}
  /\ hotplugReady \subseteq hotplugReady' /\ hotplugReady' \subseteq hotplugReady \cup {s}
  /\ s \in hotplugReady' => usbCtx'[s]

\* Such a step disturbs nothing.
LEMMA WalkKept ==
  ASSUME DeviceInv, NEW s \in Session, Walks(s)
  PROVE  DeviceInv'
<1>1. DeviceTypes'
  BY DEF DeviceInv, DeviceTypes, Walks
<1>2. Reading'
  BY DEF DeviceInv, Reading, Pending, Walks
<1>3. Passing'
  <2> SUFFICES ASSUME NEW c \in Session
               PROVE  /\ at'[c] \in {"start", "init"} =>
                           c \notin active' \cup scanned' /\ usbDevs'[c] = {}
                      /\ at'[c] \in Inside => c \in active'
                      /\ c \in hotplugReady' => usbCtx'[c]
                      /\ c \notin hotplugReady' => hotplugMsgs'[c] = <<>>
    BY DEF Passing
  <2> QED
    BY DEF DeviceInv, Passing, Walks
<1>4. LostForGood'
  BY DEF DeviceInv, LostForGood, Walks
<1>5. Accounted'
  BY DEF DeviceInv, Accounted, Owned, Announced, Walks
<1> QED
  BY <1>1, <1>2, <1>3, <1>4, <1>5 DEF DeviceInv

\* The steps of a session that leave the devices alone.
LEMMA SessionWalks ==
  ASSUME IInv, DeviceInv, NEW s \in Session, SessionInv',
         \/ Start(s) \/ InitBegins(s) \/ StartMonitor(s) \/ Ready(s) \/ SetOption(s) \/ Wrap(s)
         \/ WrapFails(s) \/ UseAfterFree(s) \/ EndSession(s) \/ Leaves(s) \/ CloseHandle(s)
         \/ ExitBegins(s) \/ OpExit(s) \/ Free(s) \/ (Scan(s) /\ UNCHANGED devices)
  PROVE  Walks(s)
<1>1. /\ at \in [Session -> Place] /\ usbCtx \in [Session -> BOOLEAN]
      /\ (at[s] \in Inside => s \in active) /\ (s \in hotplugReady => usbCtx[s])
  BY DEF IInv, SessionInv, Shape, DeviceInv, Passing
<1>2. CASE Start(s) \/ WrapFails(s) \/ EndSession(s) \/ CloseHandle(s) \/ SetOption(s)
  BY <1>1, <1>2 DEF Start, WrapFails, EndSession, CloseHandle, SetOption, Goto, context, watch, bus,
                    devices, Walks, Inside
<1>3. CASE InitBegins(s)
  BY <1>1, <1>3 DEF InitBegins, Goto, context, watch, bus, devices, Walks, Inside
<1>4. CASE StartMonitor(s)
  <2>1. at[s] = "backend" /\ s \in active
    BY <1>1, <1>4 DEF StartMonitor, Inside
  <2>2. AtRest
    <3>1. \A t \in Session : at[t] \notin {"scan", "join_undo"}
      BY <2>1, OneInside DEF IInv, Inside
    <3> QED
      BY <3>1 DEF IInv, MonitorInv
  <2>3. monitor' = monitor \/ (monitor = "off" /\ monitor' = "poll")
    BY <1>4, <2>2 DEF StartMonitor, AtRest
  <2>4. /\ UNCHANGED <<present, plugs, usbDevs, refcnt, hotplugMsgs, uevents, message, lost, scanned,
                       usbCtx, alive, active, hotplugReady>>
        /\ \A t \in Session \ {s} : at'[t] = at[t]
        /\ at'[s] \in {"ready", "scan", "undo"}
    BY <1>1, <1>4 DEF StartMonitor, Goto, context, bus, devices
  <2> QED
    BY <1>1, <2>1, <2>3, <2>4 DEF Walks
<1>5. CASE Ready(s)
  BY <1>1, <1>5 DEF Ready, Goto, watch, bus, devices, Walks, Inside
<1>6. CASE Wrap(s)
  BY <1>1, <1>6 DEF Wrap, Crash, Goto, session, context, watch, bus, devices, Walks, Inside
<1>7. CASE ExitBegins(s) \/ Free(s)
  BY <1>1, <1>7 DEF ExitBegins, Free, Goto, watch, bus, devices, Walks, Inside
<1>8. CASE OpExit(s)
  <2>1. at'[s] \in {"join_free", "free"} /\ \A t \in Session \ {s} : at'[t] = at[t]
    BY <1>1, <1>8 DEF OpExit, Goto
  <2> QED
    BY <1>1, <1>8, <2>1 DEF OpExit, context, bus, devices, Walks, Inside
<1>9. CASE Scan(s) /\ UNCHANGED devices
  <2>1. /\ at[s] = "scan" /\ at'[s] \in {"ready", "undo", "join_undo"}
        /\ \A t \in Session \ {s} : at'[t] = at[t]
    BY <1>1, <1>9 DEF Scan, Goto
  <2> QED
    BY <1>1, <1>9, <2>1 DEF Scan, context, bus, devices, Walks, Inside
<1>10. CASE UseAfterFree(s) \/ Leaves(s)
  <2>1. at[s] \notin {"start", "init"}
    BY <1>10, UserOpened DEF IInv
  <2> QED
    BY <1>1, <1>10, <2>1 DEF UseAfterFree, Crash, Leaves, session, context, watch, bus, devices, Walks,
                             Inside
<1> QED
  BY <1>2, <1>3, <1>4, <1>5, <1>6, <1>7, <1>8, <1>9, <1>10

\* The first scan of a context.
LEMMA ScanStep ==
  ASSUME IInv, DeviceInv, NEW s \in Session, Scan(s), Enumerate({s}, present)
  PROVE  DeviceInv' \/ UNCHANGED devices
<1> SUFFICES ASSUME scanned' = scanned \cup {s}, Goto(s, "ready") PROVE DeviceInv'
  BY DEF Scan
<1>1. /\ at[s] = "scan" /\ at'[s] = "ready" /\ \A c \in Session \ {s} : at'[c] = at[c]
      /\ UNCHANGED <<usbCtx, alive, active, hotplugReady, monitor, message, uevents, present, plugs>>
      /\ s \in active
  BY DEF Scan, Goto, IInv, SessionInv, Shape, context, bus, Inside, DeviceInv, Passing
<1>2. /\ Accounted' /\ lost' = lost /\ usbDevs' \in [Session -> SUBSET (1 .. plugs)]
      /\ refcnt' \in [Session -> [Device -> Int]] /\ hotplugMsgs' \in [Session -> Seq(HotplugMsg)]
      /\ \A c \in Session :
           /\ usbDevs'[c] = usbDevs[c] \/ (c = s /\ usbDevs'[c] = usbDevs[c] \cup {present})
           /\ c \notin hotplugReady => hotplugMsgs'[c] = hotplugMsgs[c]
  BY <1>1, EnumerateKept DEF DeviceInv
<1>3. DeviceTypes' /\ Reading'
  BY <1>1, <1>2 DEF DeviceInv, DeviceTypes, Reading, Pending
<1>4. Passing'
  BY <1>1, <1>2 DEF DeviceInv, Passing, Inside
<1>5. LostForGood'
  BY <1>1, <1>2 DEF DeviceInv, LostForGood
<1> QED
  BY <1>2, <1>3, <1>4, <1>5 DEF DeviceInv

\* The messages that a monitor has not read go with it.
LEMMA JoinStep ==
  ASSUME IInv, DeviceInv, NEW s \in Session, Join(s)
  PROVE  DeviceInv'
<1>1. /\ at[s] \in {"join_undo", "join_free"} /\ at'[s] \in {"undo", "free"}
      /\ at'[s] = "undo" => at[s] = "join_undo"
      /\ \A c \in Session \ {s} : at'[c] = at[c]
      /\ UNCHANGED <<usbCtx, alive, active, hotplugReady, message, present, plugs, usbDevs, refcnt,
                     hotplugMsgs, lost, scanned>>
      /\ monitor = "ended" /\ monitor' = "off" /\ uevents' = <<>>
  BY DEF Join, Goto, IInv, SessionInv, Shape, context, bus, devices
<1>2. message = NoMessage
  BY <1>1 DEF DeviceInv, Reading
<1>3. DeviceTypes'
  BY <1>1 DEF DeviceInv, DeviceTypes
<1>4. Reading'
  BY <1>1, <1>2, EmptySeq DEF Reading, Pending, NoMessage
<1>5. Passing'
  BY <1>1 DEF DeviceInv, Passing, Inside
<1>6. LostForGood'
  BY <1>1 DEF DeviceInv, LostForGood
<1>7. Accounted'
  BY <1>1 DEF DeviceInv, Accounted, Owned, Announced
<1> QED
  BY <1>3, <1>4, <1>5, <1>6, <1>7 DEF DeviceInv

\* What a context has that fails to get ready is lost.
LEMMA UndoStep ==
  ASSUME IInv, DeviceInv, NEW s \in Session, Undo(s)
  PROVE  DeviceInv'
<1>1. /\ at[s] = "undo" /\ at'[s] = "option" /\ \A c \in Session \ {s} : at'[c] = at[c]
      /\ UNCHANGED <<usbCtx, hotplugReady, monitor, message, uevents, present, plugs, refcnt,
                     hotplugMsgs, scanned>>
      /\ alive' = alive \ {s} /\ active' = active \ {s} /\ lost' = lost \cup ({s} \X usbDevs[s])
      /\ usbDevs' = [usbDevs EXCEPT ![s] = {}]
  BY DEF Undo, Goto, IInv, SessionInv, Shape, watch, bus
<1>2. /\ hotplugMsgs[s] = <<>> /\ usbDevs'[s] = {}
      /\ \A c \in Session \ {s} : usbDevs'[c] = usbDevs[c]
      /\ \A c \in Session, d \in Device :
           <<c, d>> \in lost' <=> <<c, d>> \in lost \/ (c = s /\ d \in usbDevs[s])
  BY <1>1 DEF DeviceInv, Passing, DeviceTypes, IInv, SessionInv, OwnContext, Owns, Inside
<1>3. DeviceTypes'
  BY <1>1 DEF DeviceInv, DeviceTypes
<1>4. Reading'
  BY <1>1 DEF DeviceInv, Reading, Pending
<1>5. Passing'
  BY <1>1, <1>2 DEF DeviceInv, Passing, Inside
<1>6. LostForGood'
  BY <1>1, <1>2 DEF DeviceInv, LostForGood
<1>7. ASSUME NEW c \in Session PROVE (Owned(c) /\ Announced(c))'
  <2>1. Owned(c) /\ Announced(c)
    BY DEF DeviceInv, Accounted
  <2>2. CASE c # s
    BY <1>1, <1>2, <2>1, <2>2 DEF Owned, Announced
  <2>3. CASE c = s
    <3>1. Announced(c)'
      BY <1>1, <1>2, <2>3, EmptySeq DEF Announced
    <3>2. \A d \in Device : d \in usbDevs[s] => <<s, d>> \notin lost
      BY DEF DeviceInv, LostForGood
    <3>3. \A d \in Device : refcnt[s][d] \in Int /\ Cardinality(Places(<<>>, Gone(d))) = 0
      <4>1. <<>> \in Seq(HotplugMsg) /\ <<>> = <<>>
        BY EmptySeq
      <4> QED
        BY <4>1, CountSome DEF DeviceInv, DeviceTypes
    <3>4. \A d \in Device : refcnt[s][d] = (IF d \in usbDevs[s] THEN 1 ELSE 0) + 0
                                           + (IF <<s, d>> \in lost THEN 1 ELSE 0)
      BY <1>2, <2>1, <2>3, <3>3 DEF Owned
    <3>5. \A d \in Device : refcnt'[s][d] = 0 + 0 + (IF <<s, d>> \in lost' THEN 1 ELSE 0)
      BY <1>1, <1>2, <3>2, <3>4
    <3>6. Owned(c)'
      BY <1>1, <1>2, <2>3, <3>3, <3>5 DEF Owned
    <3> QED
      BY <3>1, <3>6
  <2> QED
    BY <2>2, <2>3
<1> QED
  BY <1>3, <1>4, <1>5, <1>6, <1>7 DEF DeviceInv, Accounted

\* A session handles a message of its context.
LEMMA HandleStep ==
  ASSUME IInv, DeviceInv, NEW s \in Session, HandleMessage(s)
  PROVE  DeviceInv'
<1>1. PICK c \in Session :
        /\ hotplugMsgs[c] # <<>>
        /\ refcnt' = [refcnt EXCEPT ![c][Head(hotplugMsgs[c]).dev] =
                        refcnt[c][Head(hotplugMsgs[c]).dev] - Owes(Head(hotplugMsgs[c]))]
        /\ hotplugMsgs' = [hotplugMsgs EXCEPT ![c] = Tail(@)]
  BY DEF HandleMessage, GivesBack, DeviceInv, DeviceTypes
<1>2. UNCHANGED <<at, usbCtx, alive, active, hotplugReady, monitor, message, uevents, present, plugs,
                  usbDevs, scanned, lost>>
  BY DEF HandleMessage, session, context, watch, bus
<1> DEFINE q == hotplugMsgs[c]
<1>3. /\ q \in Seq(HotplugMsg) /\ Head(q) \in HotplugMsg /\ Tail(q) \in Seq(HotplugMsg)
      /\ Owes(Head(q)) \in Int
  <2>1. q \in Seq(HotplugMsg)
    BY DEF DeviceInv, DeviceTypes
  <2> QED
    BY <1>1, <2>1, HeadTailProperties DEF Owes
<1>4. /\ refcnt'[c] = [refcnt[c] EXCEPT ![Head(q).dev] = @ - Owes(Head(q))]
      /\ hotplugMsgs'[c] = Tail(q)
      /\ \A b \in Session \ {c} : refcnt'[b] = refcnt[b] /\ hotplugMsgs'[b] = hotplugMsgs[b]
  BY <1>1, <1>3 DEF DeviceInv, DeviceTypes, HotplugMsg
<1>5. DeviceTypes'
  <2>1. refcnt' \in [Session -> [Device -> Int]]
    <3>1. Head(q).dev \in Device
      BY <1>3 DEF HotplugMsg
    <3> QED
      BY <1>1, <1>3, <3>1 DEF DeviceInv, DeviceTypes
  <2>2. hotplugMsgs' \in [Session -> Seq(HotplugMsg)]
    BY <1>1, <1>3 DEF DeviceInv, DeviceTypes
  <2> QED
    BY <1>2, <2>1, <2>2 DEF DeviceInv, DeviceTypes
<1>6. Reading' /\ LostForGood'
  BY <1>2 DEF DeviceInv, Reading, Pending, LostForGood
<1>7. Passing'
  BY <1>1, <1>2, <1>4 DEF DeviceInv, Passing
<1>8. ASSUME NEW b \in Session PROVE (Owned(b) /\ Announced(b))'
  <2>1. Owned(b) /\ Announced(b) /\ DeviceTypes
    BY DEF DeviceInv, Accounted
  <2>2. CASE b = c
    BY <1>1, <1>2, <1>4, <2>1, <2>2, HandleKept
  <2>3. CASE b # c
    BY <1>2, <1>4, <2>1, <2>3, SameKept
  <2> QED
    BY <2>2, <2>3
<1> QED
  BY <1>5, <1>6, <1>7, <1>8 DEF DeviceInv, Accounted

\* linux_device_disconnected, for a device that is gone; whoever calls it.
LEMMA DisconnectStep ==
  ASSUME DeviceInv, NEW d, d # present, Disconnect(d), Reading',
         message' \in HotplugMsg \cup {NoMessage},
         UNCHANGED <<at, usbCtx, alive, active, hotplugReady, uevents, present, plugs, scanned>>
  PROVE  DeviceInv'
<1>1. /\ Accounted'
      /\ usbDevs' \in [Session -> SUBSET (1 .. plugs)] /\ refcnt' \in [Session -> [Device -> Int]]
      /\ hotplugMsgs' \in [Session -> Seq(HotplugMsg)] /\ lost' \subseteq Session \X (1 .. plugs)
      /\ \A c \in Session :
           /\ usbDevs'[c] = IF c \in active THEN usbDevs[c] \ {d} ELSE usbDevs[c]
           /\ c \notin hotplugReady => hotplugMsgs'[c] = hotplugMsgs[c]
           /\ \A e \in Device : <<c, e>> \in lost' => <<c, e>> \in lost \/ (e = d /\ c \in active)
  BY DisconnectKept DEF DeviceInv
<1>2. DeviceTypes'
  BY <1>1 DEF DeviceInv, DeviceTypes
<1>3. Passing'
  BY <1>1 DEF DeviceInv, Passing
<1>4. LostForGood'
  BY <1>1 DEF DeviceInv, LostForGood
<1> QED
  BY <1>1, <1>2, <1>3, <1>4 DEF DeviceInv

\* POLLERR: the session's own device is gone.
LEMMA PollErrorStep ==
  ASSUME DeviceInv, NEW s \in Session, PollError(s)
  PROVE  DeviceInv'
<1>1. /\ held[s] # present /\ Disconnect(held[s])
      /\ UNCHANGED <<at, usbCtx, alive, active, hotplugReady, monitor, message, uevents, present,
                     plugs, scanned>>
  BY DEF PollError, context, watch, bus
<1>2. Reading' /\ message' \in HotplugMsg \cup {NoMessage}
  BY <1>1 DEF DeviceInv, Reading, Pending, DeviceTypes
<1> QED
  BY <1>1, <1>2, DisconnectStep

\* libusb_exit releases the messages and then the list.
LEMMA HotplugExitStep ==
  ASSUME IInv, DeviceInv, NEW s \in Session, HotplugExit(s)
  PROVE  DeviceInv'
<1> DEFINE left == [d \in Device |-> GivesBack(s, Removals(s, d), d)]
<1>1. /\ at[s] = "hotplug_exit" /\ at'[s] = "op_exit" /\ \A c \in Session \ {s} : at'[c] = at[c]
      /\ UNCHANGED <<usbCtx, alive, active, hotplugReady, monitor, message, uevents, present, plugs,
                     scanned, lost>>
  BY DEF HotplugExit, Goto, IInv, SessionInv, Shape, context, watch, bus
<1>2. /\ refcnt' = [refcnt EXCEPT ![s] =
                      [d \in Device |-> IF d \in usbDevs[s] THEN left[d] - 1 ELSE left[d]]]
      /\ usbDevs' = [usbDevs EXCEPT ![s] = {d \in @ : left[d] # 1}]
      /\ hotplugMsgs' = [hotplugMsgs EXCEPT ![s] = <<>>]
  BY DEF HotplugExit
<1> HIDE DEF left
<1>3. /\ DeviceTypes /\ Owned(s) /\ hotplugMsgs[s] \in Seq(HotplugMsg)
      /\ <<>> \in Seq(HotplugMsg) /\ \A d \in usbDevs[s] : d \in Device
  <2>1. DeviceTypes /\ Owned(s)
    BY DEF DeviceInv, Accounted
  <2>2. \A d \in usbDevs[s] : d \in 1 .. plugs
    BY <2>1 DEF DeviceTypes
  <2>3. \A d \in usbDevs[s] : d \in Device
    BY <2>1, <2>2, ContextsAssumption DEF DeviceTypes, Device
  <2> QED
    BY <2>1, <2>3, EmptySeq DEF DeviceTypes
<1>4. \A d \in Device : Removals(s, d) = Cardinality(Places(hotplugMsgs[s], Gone(d)))
  BY <1>3, LenProperties DEF Removals, Places, Gone
<1>5. ASSUME NEW d \in Device
      PROVE  left[d] = IF d \in usbDevs[s] \/ <<s, d>> \in lost THEN 1 ELSE 0
  <2>1. refcnt[s][d] \in Int /\ Cardinality(Places(hotplugMsgs[s], Gone(d))) \in Nat
    BY <1>3, PlacesFinite DEF DeviceTypes
  <2>2. refcnt[s][d] = (IF d \in usbDevs[s] THEN 1 ELSE 0)
                       + Cardinality(Places(hotplugMsgs[s], Gone(d)))
                       + (IF <<s, d>> \in lost THEN 1 ELSE 0)
    BY <1>3 DEF Owned
  <2>3. left[d] = refcnt[s][d] - Cardinality(Places(hotplugMsgs[s], Gone(d)))
    BY <1>4 DEF left, GivesBack
  <2>4. d \in usbDevs[s] => <<s, d>> \notin lost
    BY DEF DeviceInv, LostForGood
  <2> QED
    BY <2>1, <2>2, <2>3, <2>4
<1>6. /\ usbDevs'[s] = {} /\ hotplugMsgs'[s] = <<>>
      /\ \A d \in Device : refcnt'[s][d] = IF <<s, d>> \in lost THEN 1 ELSE 0
      /\ \A c \in Session \ {s} : /\ usbDevs'[c] = usbDevs[c] /\ refcnt'[c] = refcnt[c]
                                  /\ hotplugMsgs'[c] = hotplugMsgs[c]
  <2>1. usbDevs'[s] = {}
    BY <1>2, <1>3, <1>5 DEF DeviceTypes
  <2>2. ASSUME NEW d \in Device PROVE refcnt'[s][d] = IF <<s, d>> \in lost THEN 1 ELSE 0
    <3>1. refcnt'[s][d] = IF d \in usbDevs[s] THEN left[d] - 1 ELSE left[d]
      BY <1>2, <1>3 DEF DeviceTypes
    <3>2. d \in usbDevs[s] => <<s, d>> \notin lost
      BY DEF DeviceInv, LostForGood
    <3> QED
      BY <1>5, <3>1, <3>2
  <2> QED
    BY <1>2, <1>3, <2>1, <2>2 DEF DeviceTypes
<1>7. DeviceTypes'
  <2>1. refcnt' \in [Session -> [Device -> Int]]
    <3>1. ASSUME NEW d \in Device PROVE left[d] \in Int
      <4>1. left[d] = 1 \/ left[d] = 0
        BY <1>5
      <4> QED
        BY <4>1
    <3> QED
      BY <1>2, <1>3, <3>1 DEF DeviceTypes
  <2>2. usbDevs' \in [Session -> SUBSET (1 .. plugs)] /\ hotplugMsgs' \in [Session -> Seq(HotplugMsg)]
    BY <1>2, <1>3 DEF DeviceTypes
  <2> QED
    BY <1>1, <1>3, <2>1, <2>2 DEF DeviceTypes
<1>8. Reading'
  BY <1>1 DEF DeviceInv, Reading, Pending
<1>9. Passing'
  BY <1>1, <1>6 DEF DeviceInv, Passing, Inside
<1>10. LostForGood'
  BY <1>1, <1>6 DEF DeviceInv, LostForGood
<1>11. ASSUME NEW c \in Session PROVE (Owned(c) /\ Announced(c))'
  <2>1. CASE c # s
    BY <1>1, <1>6, <2>1, SameKept DEF DeviceInv, Accounted
  <2>2. CASE c = s
    <3>1. Announced(c)'
      BY <1>6, <2>2, EmptySeq DEF Announced
    <3>2. \A d \in Device : Cardinality(Places(<<>>, Gone(d))) = 0
      BY <1>3, CountSome
    <3>3. Owned(c)'
      BY <1>1, <1>6, <2>2, <3>2 DEF Owned
    <3> QED
      BY <3>1, <3>3
  <2> QED
    BY <2>1, <2>2
<1> QED
  BY <1>7, <1>8, <1>9, <1>10, <1>11 DEF DeviceInv, Accounted

\* The monitor reads what the kernel said and follows it.
LEMMA MonitorTurn ==
  ASSUME DeviceInv, Monitor
  PROVE  DeviceInv'
<1>1. CASE MonitorPolls
  <2>1. /\ UNCHANGED <<at, usbCtx, alive, active, hotplugReady, message, uevents, present, plugs,
                       usbDevs, refcnt, hotplugMsgs, scanned, lost>>
        /\ monitor = "poll" /\ (monitor' = "ended" \/ (monitor' = "lock" /\ uevents # <<>>))
    BY <1>1 DEF MonitorPolls, session, context, bus, devices
  <2>2. Reading'
    BY <2>1 DEF DeviceInv, Reading, Pending
  <2>3. DeviceTypes' /\ Passing' /\ LostForGood'
    BY <2>1 DEF DeviceInv, DeviceTypes, Passing, LostForGood
  <2>4. Accounted'
    BY <2>1 DEF DeviceInv, Accounted, Owned, Announced
  <2> QED
    BY <2>2, <2>3, <2>4 DEF DeviceInv
<1>2. CASE MonitorReads
  <2>1. /\ UNCHANGED <<at, usbCtx, alive, active, hotplugReady, present, plugs, usbDevs, refcnt,
                       hotplugMsgs, scanned, lost>>
        /\ monitor = "lock" /\ monitor' = "read" /\ uevents # <<>>
        /\ message' = Head(uevents) /\ uevents' = Tail(uevents)
    BY <1>2 DEF MonitorReads, session, context, bus, devices, DeviceInv, Reading
  <2>2. /\ uevents \in Seq(HotplugMsg) /\ Head(uevents) \in HotplugMsg /\ Head(uevents) = uevents[1]
        /\ Tail(uevents) \in Seq(HotplugMsg) /\ Len(Tail(uevents)) = Len(uevents) - 1
        /\ \A i \in 1 .. Len(uevents) - 1 : Tail(uevents)[i] = uevents[i + 1]
        /\ Len(uevents) \in Nat /\ Len(uevents) >= 1
    <3>1. uevents \in Seq(HotplugMsg)
      BY DEF DeviceInv, DeviceTypes
    <3> QED
      BY <2>1, <3>1, HeadTailProperties, EmptySeq, LenProperties
  <2>3. \A d \in Device : Pending("remove", d)' => Pending("remove", d)
    BY <2>1, <2>2 DEF Pending
  <2>4. message' # NoMessage
    BY <2>1, <2>2 DEF HotplugMsg, NoMessage
  <2>5. Reading'
    BY <2>1, <2>3, <2>4 DEF DeviceInv, Reading
  <2> QED
    BY <2>1, <2>2, <2>5
    DEF DeviceInv, DeviceTypes, Passing, LostForGood, Accounted, Owned, Announced
<1>3. CASE MonitorHandles
  <2>1. /\ UNCHANGED <<at, usbCtx, alive, active, hotplugReady, uevents, present, plugs, scanned>>
        /\ monitor = "read" /\ monitor' = "poll" /\ message' = NoMessage
        /\ message \in HotplugMsg
    BY <1>3 DEF MonitorHandles, session, context, bus, DeviceInv, Reading, DeviceTypes
  <2>2. Reading'
    BY <2>1 DEF DeviceInv, Reading, Pending, NoMessage
  <2>3. CASE message.act = "remove" /\ Disconnect(message.dev)
    <3>1. message.dev \in Device /\ message = [act |-> "remove", dev |-> message.dev]
      BY <2>1, <2>3 DEF HotplugMsg
    <3>2. message.dev # present
      BY <3>1 DEF DeviceInv, Reading, Pending
    <3> QED
      BY <2>1, <2>2, <2>3, <3>2, DisconnectStep
  <2>4. CASE message.act = "add" /\ Enumerate(active, message.dev)
    <3>1. /\ Accounted' /\ lost' = lost /\ usbDevs' \in [Session -> SUBSET (1 .. plugs)]
          /\ refcnt' \in [Session -> [Device -> Int]]
          /\ hotplugMsgs' \in [Session -> Seq(HotplugMsg)]
          /\ \A c \in Session :
               /\ usbDevs'[c] = usbDevs[c] \/ (c \in active /\ usbDevs'[c] = usbDevs[c] \cup {present})
               /\ c \notin hotplugReady => hotplugMsgs'[c] = hotplugMsgs[c]
      <4>1. active \in SUBSET Session
        BY DEF DeviceInv, DeviceTypes
      <4> QED
        BY <2>1, <2>4, <4>1, EnumerateKept DEF DeviceInv
    <3>2. DeviceTypes'
      BY <2>1, <3>1 DEF DeviceInv, DeviceTypes
    <3>3. Passing'
      BY <2>1, <3>1 DEF DeviceInv, Passing
    <3>4. LostForGood'
      BY <2>1, <3>1 DEF DeviceInv, LostForGood
    <3> QED
      BY <2>2, <3>1, <3>2, <3>3, <3>4 DEF DeviceInv
  <2> QED
    BY <1>3, <2>3, <2>4 DEF MonitorHandles, Watched
<1> QED
  BY <1>1, <1>2, <1>3 DEF Monitor

\* What a queue holds with a message more.
LEMMA Appended ==
  ASSUME NEW q \in Seq(HotplugMsg), NEW x \in HotplugMsg
  PROVE  /\ Append(q, x) \in Seq(HotplugMsg) /\ Append(q, x) # <<>>
         /\ \A m : (\E i \in 1 .. Len(Append(q, x)) : Append(q, x)[i] = m)
                    <=> (\E i \in 1 .. Len(q) : q[i] = m) \/ m = x
<1>1. /\ Len(q) \in Nat /\ Append(q, x) \in Seq(HotplugMsg)
      /\ Len(Append(q, x)) = Len(q) + 1 /\ Append(q, x)[Len(q) + 1] = x
      /\ \A i \in 1 .. Len(q) : Append(q, x)[i] = q[i]
  BY AppendProperties, LenProperties
<1>2. Append(q, x) # <<>>
  BY <1>1, EmptySeq
<1>3. ASSUME NEW m, NEW i \in 1 .. Len(q) + 1, Append(q, x)[i] = m
      PROVE  (\E j \in 1 .. Len(q) : q[j] = m) \/ m = x
  BY <1>1, <1>3
<1>4. ASSUME NEW m, (\E j \in 1 .. Len(q) : q[j] = m) \/ m = x
      PROVE  \E i \in 1 .. Len(q) + 1 : Append(q, x)[i] = m
  BY <1>1, <1>4
<1> QED
  BY <1>1, <1>2, <1>3, <1>4

\* The adapter comes and goes.
LEMMA BusStep ==
  ASSUME DeviceInv, Plug \/ Unplug
  PROVE  DeviceInv'
<1>1. UNCHANGED <<at, usbCtx, alive, active, hotplugReady, monitor, message, usbDevs, refcnt,
                  hotplugMsgs, scanned, lost>>
  BY DEF Plug, Unplug, session, context, devices
<1>2. /\ Passing' /\ Accounted'
  BY <1>1 DEF DeviceInv, Passing, Accounted, Owned, Announced
<1>3. CASE Plug
  <2>1. /\ present = 0 /\ plugs' = plugs + 1 /\ present' = plugs + 1 /\ plugs < Plugs
        /\ plugs \in Nat /\ present' \in Device
        /\ \/ uevents' = Append(uevents, [act |-> "add", dev |-> present'])
           \/ uevents' = uevents
    BY <1>3, ContextsAssumption DEF Plug, Announce, DeviceInv, DeviceTypes, Device
  <2>2. [act |-> "add", dev |-> present'] \in HotplugMsg /\ uevents \in Seq(HotplugMsg)
    BY <2>1 DEF HotplugMsg, DeviceInv, DeviceTypes
  <2>3. /\ uevents' \in Seq(HotplugMsg)
        /\ \A d \in Device : Pending("remove", d)' => Pending("remove", d)
        /\ uevents # <<>> => uevents' # <<>>
    <3>1. CASE uevents' = uevents
      BY <1>1, <2>2, <3>1 DEF Pending
    <3>2. CASE uevents' = Append(uevents, [act |-> "add", dev |-> present'])
      BY <1>1, <2>2, <3>2, Appended DEF Pending
    <3> QED
      BY <2>1, <3>1, <3>2
  <2>4. DeviceTypes'
    <3>1. 1 .. plugs \subseteq 1 .. plugs'
      BY <2>1
    <3>2. usbDevs' \in [Session -> SUBSET (1 .. plugs')] /\ lost' \subseteq Session \X (1 .. plugs')
      BY <1>1, <3>1 DEF DeviceInv, DeviceTypes
    <3>3. present' \in 0 .. plugs' /\ plugs' \in 0 .. Plugs
      BY <2>1, ContextsAssumption
    <3> QED
      BY <1>1, <2>3, <3>2, <3>3 DEF DeviceInv, DeviceTypes
  <2>5. Reading'
    BY <1>1, <2>1, <2>3 DEF DeviceInv, Reading, Device
  <2>6. LostForGood'
    BY <1>1, <2>1 DEF DeviceInv, DeviceTypes, LostForGood
  <2> QED
    BY <1>2, <2>4, <2>5, <2>6 DEF DeviceInv
<1>4. CASE Unplug
  <2>1. /\ present # 0 /\ present' = 0 /\ plugs' = plugs /\ present \in Device
        /\ present <= plugs
        /\ \/ uevents' = Append(uevents, [act |-> "remove", dev |-> present])
           \/ uevents' = uevents
    BY <1>4, ContextsAssumption DEF Unplug, Announce, DeviceInv, DeviceTypes, Device
  <2>2. [act |-> "remove", dev |-> present] \in HotplugMsg /\ uevents \in Seq(HotplugMsg)
    BY <2>1 DEF HotplugMsg, DeviceInv, DeviceTypes
  <2>3. /\ uevents' \in Seq(HotplugMsg)
        /\ \A d \in Device : Pending("remove", d)' => Pending("remove", d) \/ d = present
        /\ uevents # <<>> => uevents' # <<>>
    <3>1. CASE uevents' = uevents
      BY <1>1, <2>2, <3>1 DEF Pending
    <3>2. CASE uevents' = Append(uevents, [act |-> "remove", dev |-> present])
      BY <1>1, <2>2, <3>2, Appended DEF Pending
    <3> QED
      BY <2>1, <3>1, <3>2
  <2>4. DeviceTypes'
    BY <1>1, <2>1, <2>3 DEF DeviceInv, DeviceTypes
  <2>5. Reading'
    BY <1>1, <2>1, <2>3 DEF DeviceInv, Reading, Device
  <2>6. LostForGood'
    BY <1>1, <2>1 DEF DeviceInv, LostForGood, Device
  <2> QED
    BY <1>2, <2>4, <2>5, <2>6 DEF DeviceInv
<1> QED
  BY <1>3, <1>4

\* The devices before the first session.
LEMMA InitDevices == Init => DeviceInv
<1> SUFFICES ASSUME Init PROVE DeviceInv
  OBVIOUS
<1>1. <<>> \in Seq(HotplugMsg) /\ Len(<<>>) = 0
  BY EmptySeq
<1>2. DeviceTypes
  BY <1>1, ContextsAssumption DEF Init, DeviceTypes
<1>3. Reading
  BY <1>1 DEF Init, Reading, Pending, NoMessage
<1>4. Passing /\ LostForGood
  BY DEF Init, Passing, LostForGood, Inside
<1>5. \A d \in Device : Cardinality(Places(<<>>, Gone(d))) = 0
  BY <1>1, CountSome
<1>6. Accounted
  BY <1>1, <1>5 DEF Init, Accounted, Owned, Announced
<1> QED
  BY <1>2, <1>3, <1>4, <1>6 DEF DeviceInv

\* The invariant of the devices: who owns each reference, in every context.
THEOREM DevicesInductive == Spec => []DeviceInv
<1>1. Init => DeviceInv
  BY InitDevices
<1>2. IInv /\ DeviceInv /\ [Next]_vars /\ IInv' => DeviceInv'
  <2> SUFFICES ASSUME IInv, DeviceInv, [Next]_vars, IInv' PROVE DeviceInv'
    OBVIOUS
  <2>1. CASE UNCHANGED vars
    BY <2>1 DEF vars, session, context, watch, bus, devices, DeviceInv, DeviceTypes, Reading, Pending,
                Passing, LostForGood, Accounted, Owned, Announced
  <2>2. CASE Monitor \/ Plug \/ Unplug
    BY <2>2, MonitorTurn, BusStep
  <2>3. ASSUME NEW s \in Session, Step(s) PROVE DeviceInv'
    <3>1. CASE \/ Start(s) \/ InitBegins(s) \/ StartMonitor(s) \/ Ready(s) \/ SetOption(s) \/ Wrap(s)
               \/ WrapFails(s) \/ UseAfterFree(s) \/ EndSession(s) \/ Leaves(s) \/ CloseHandle(s)
               \/ ExitBegins(s) \/ OpExit(s) \/ Free(s)
      <4>1. SessionInv'
        BY DEF IInv
      <4> QED
        BY <3>1, <4>1, SessionWalks, WalkKept
    <3>2. CASE Scan(s)
      <4>1. CASE UNCHANGED devices
        <5>1. SessionInv'
          BY DEF IInv
        <5> QED
          BY <3>2, <4>1, <5>1, SessionWalks, WalkKept
      <4>2. CASE ~UNCHANGED devices
        <5>1. Enumerate({s}, present)
          BY <3>2, <4>2 DEF Scan
        <5> QED
          BY <3>2, <4>2, <5>1, ScanStep
      <4> QED
        BY <4>1, <4>2
    <3>3. CASE Join(s) \/ Undo(s) \/ HandleMessage(s) \/ PollError(s) \/ HotplugExit(s)
      BY <3>3, JoinStep, UndoStep, HandleStep, PollErrorStep, HotplugExitStep
    <3> QED
      BY <2>3, <3>1, <3>2, <3>3 DEF Step, LibraryStep
  <2> QED
    BY <2>1, <2>2, <2>3 DEF Next
<1> QED
  BY <1>1, <1>2, Inductive, PTL DEF Spec

\* Every reference to a device has one owner, in every context of any number of
\* overlapping sessions and however often the adapter comes and goes.
THEOREM ReferencesAreOwned == Spec => []ReferencesOwned
<1>1. DeviceInv => ReferencesOwned
  <2> SUFFICES ASSUME DeviceInv, NEW c \in Session, NEW d \in Device
               PROVE  refcnt[c][d] = (IF d \in usbDevs[c] THEN 1 ELSE 0) + Removals(c, d)
                                     + (IF <<c, d>> \in lost THEN 1 ELSE 0)
    BY DEF ReferencesOwned
  <2>1. hotplugMsgs[c] \in Seq(HotplugMsg) /\ Owned(c)
    BY DEF DeviceInv, DeviceTypes, Accounted
  <2>2. Removals(c, d) = Cardinality(Places(hotplugMsgs[c], Gone(d)))
    BY <2>1, LenProperties DEF Removals, Places, Gone
  <2> QED
    BY <2>1, <2>2 DEF Owned
<1> QED
  BY <1>1, DevicesInductive, PTL

\* A hotplug message never outlives its device, although it owns none of the
\* references that keep the device: what it tells of is listed, or a message that
\* tells of its going, which owns one, comes after it.
THEOREM MessagesHaveDevices == Spec => []MessagesNameDevices
<1>1. DeviceInv => MessagesNameDevices
  <2> SUFFICES ASSUME DeviceInv, NEW c \in Session, NEW i \in DOMAIN hotplugMsgs[c]
               PROVE  refcnt[c][hotplugMsgs[c][i].dev] > 0
    BY DEF MessagesNameDevices
  <2> DEFINE q == hotplugMsgs[c]
             d == q[i].dev
  <2>1. q \in Seq(HotplugMsg) /\ Owned(c) /\ Announced(c)
    BY DEF DeviceInv, DeviceTypes, Accounted
  <2>2. i \in 1 .. Len(q) /\ Len(q) \in Nat /\ q[i] \in HotplugMsg
    BY <2>1, LenProperties, ElementOfSeq
  <2>3. d \in Device /\ q[i].act \in {"add", "remove"} /\ (q[i].act = "remove" => q[i] = Gone(d))
    BY <2>2 DEF HotplugMsg, Gone
  <2>4. d \in usbDevs[c] \/ \E j \in 1 .. Len(q) : q[j] = Gone(d)
    <3>1. CASE q[i].act = "remove"
      BY <2>2, <2>3, <3>1
    <3>2. CASE q[i].act = "add"
      BY <2>1, <2>2, <3>2 DEF Announced
    <3> QED
      BY <2>3, <3>1, <3>2
  <2>5. /\ Cardinality(Places(q, Gone(d))) \in Nat
        /\ (\E j \in 1 .. Len(q) : q[j] = Gone(d)) => Cardinality(Places(q, Gone(d))) > 0
    BY <2>1, PlacesFinite, CountSome
  <2>6. refcnt[c][d] = (IF d \in usbDevs[c] THEN 1 ELSE 0) + Cardinality(Places(q, Gone(d)))
                       + (IF <<c, d>> \in lost THEN 1 ELSE 0)
    BY <2>1, <2>3 DEF Owned
  <2> QED
    BY <2>4, <2>5, <2>6
<1> QED
  BY <1>1, DevicesInductive, PTL

-----------------------------------------------------------------------------
(* Lists.                                                                  *)

\* Whether a context is scanned is settled by the option before the first
\* session that has to do without a context of its own.
Settled(s) ==
  /\ at[s] \in Inside \ {"ready"} /\ s \notin noDiscovery => ~defaultOption
  /\ at[s] \in {"scan", "join_undo"} => s \notin noDiscovery
  /\ at[s] = "ready" /\ s \notin scanned => s \in noDiscovery
  /\ s \in noDiscovery /\ at[s] \in Inside \cup {"start", "init"} => defaultOption
  /\ s \in active \ scanned => at[s] \in Inside \/ defaultOption
  /\ at[s] \in Outbound => s \notin active

Options ==
  /\ scanned # {} => initCount > 0
  /\ \A s \in Session : Settled(s)

Failing == {"join_undo", "undo"}

\* A listed device is there, or word of its going is under way.
Listed ==
  \A c \in active : at[c] \notin Failing =>
    \A d \in usbDevs[c] : monitor # "off" /\ (d = present \/ Pending("remove", d))

\* A context that was scanned lists what is there, or word of it is under way.
Entered ==
  \A c \in active \cap scanned :
    present # 0 => present \in usbDevs[c] \/ Pending("add", present)

ListInv == Options /\ Listed /\ Entered

\* The sessions settle it one at a time.
LEMMA OptionsStep ==
  ASSUME IInv, DeviceInv, Options, NEW s \in Session, Step(s)
  PROVE  Options'
<1>1. /\ at \in [Session -> Place] /\ usbCtx \in [Session -> BOOLEAN] /\ initCount \in Nat
      /\ Settled(s) /\ (at[s] \in {"start", "init"} => s \notin active \cup scanned)
      /\ (at[s] \in Outbound => s \in noDiscovery)
  BY DEF IInv, SessionInv, Shape, OwnContext, Owns, Options, DeviceInv, Passing, Outbound, Place, Inside
<1> DEFINE Others == \A t \in Session \ {s} : Settled(t)'
<1>2. ASSUME UNCHANGED <<noDiscovery, defaultOption>>, active' \ {s} = active \ {s},
             scanned' \ {s} = scanned \ {s}, \A t \in Session \ {s} : at'[t] = at[t]
      PROVE  Others
  BY <1>2 DEF Options, Settled
<1> SUFFICES (scanned' # {} => initCount' > 0) /\ Settled(s)' /\ Others
  BY DEF Options
<1> HIDE DEF Others
<1>3. CASE \/ Start(s) \/ WrapFails(s) \/ EndSession(s) \/ Leaves(s) \/ CloseHandle(s) \/ StartMonitor(s)
           \/ Join(s) \/ HotplugExit(s) \/ OpExit(s) \/ Ready(s)
  <2>1. /\ UNCHANGED <<noDiscovery, defaultOption, active, scanned, initCount>>
        /\ \A t \in Session \ {s} : at'[t] = at[t]
    BY <1>1, <1>3 DEF Start, WrapFails, EndSession, Leaves, CloseHandle, StartMonitor, Join,
                      HotplugExit, OpExit, Ready, Goto, context, watch, devices, Outbound
  <2>2. Settled(s)'
    BY <1>1, <1>3, <2>1 DEF Start, WrapFails, EndSession, Leaves, CloseHandle, StartMonitor, Join,
                      HotplugExit, OpExit, Ready, Goto, Settled, Inside, Outbound, Place
  <2> QED
    BY <1>2, <2>1, <2>2 DEF Options
<1>4. CASE HandleMessage(s) \/ PollError(s) \/ UseAfterFree(s)
  <2>1. UNCHANGED <<at, noDiscovery, defaultOption, active, scanned, initCount>>
    BY <1>4 DEF HandleMessage, PollError, UseAfterFree, Crash, session, context, watch, devices
  <2> QED
    BY <1>2, <2>1 DEF Options, Settled
<1>5. CASE Wrap(s) \/ Free(s) \/ ExitBegins(s)
  <2>1. /\ UNCHANGED <<noDiscovery, defaultOption, scanned, initCount>>
        /\ \A t \in Session \ {s} : at'[t] = at[t]
        /\ at'[s] \in {"wrap", "open", "done", "hotplug_exit"}
        /\ active' \subseteq active /\ active' \ {s} = active \ {s}
        /\ at'[s] = "hotplug_exit" => s \notin active'
        /\ at[s] \notin Inside
    BY <1>1, <1>5 DEF Wrap, Crash, Free, ExitBegins, Goto, session, context, watch, devices, Inside
  <2>2. Settled(s)'
    BY <1>1, <2>1 DEF Settled, Inside, Outbound
  <2> QED
    BY <1>2, <2>1, <2>2 DEF Options
<1>6. CASE InitBegins(s)
  <2>1. /\ UNCHANGED <<defaultOption, scanned, initCount>> /\ at[s] = "init"
        /\ \A t \in Session \ {s} : at'[t] = at[t]
        /\ \/ at'[s] = "option" /\ UNCHANGED <<active, noDiscovery>>
           \/ /\ at'[s] = "backend" /\ active' = active \cup {s}
              /\ noDiscovery' = noDiscovery \cup (IF defaultOption THEN {s} ELSE {})
    BY <1>1, <1>6 DEF InitBegins, Goto, watch, devices
  <2>2. Settled(s)'
    BY <1>1, <2>1 DEF Settled, Inside, Outbound
  <2>3. Others
    BY <2>1 DEF Options, Settled, Others
  <2> QED
    BY <2>1, <2>2, <2>3 DEF Options
<1>7. CASE Scan(s)
  <2>1. /\ UNCHANGED <<noDiscovery, defaultOption, active>> /\ at[s] = "scan"
        /\ \A t \in Session \ {s} : at'[t] = at[t]
        /\ \/ at'[s] = "ready" /\ scanned' = scanned \cup {s} /\ initCount' = initCount + 1
           \/ at'[s] \in {"undo", "join_undo"} /\ UNCHANGED <<scanned, initCount>>
    BY <1>1, <1>7 DEF Scan, Goto, context, devices
  <2>2. Settled(s)'
    BY <1>1, <2>1 DEF Settled, Inside, Outbound
  <2> QED
    BY <1>1, <1>2, <2>1, <2>2 DEF Options
<1>8. CASE Undo(s)
  <2>1. /\ UNCHANGED <<noDiscovery, defaultOption, scanned, initCount>> /\ at[s] = "undo"
        /\ at'[s] = "option" /\ active' = active \ {s}
        /\ \A t \in Session \ {s} : at'[t] = at[t]
    BY <1>1, <1>8 DEF Undo, Goto, watch
  <2>2. Settled(s)'
    BY <2>1 DEF Settled, Inside, Outbound
  <2> QED
    BY <1>2, <2>1, <2>2 DEF Options
<1>9. CASE SetOption(s)
  <2>1. /\ UNCHANGED <<active, scanned, initCount>> /\ at[s] = "option" /\ at'[s] = "wrap"
        /\ \A t \in Session \ {s} : at'[t] = at[t]
    BY <1>1, <1>9 DEF SetOption, Goto, watch, devices
  <2>2. CASE usbCtx[s]
    <3>1. /\ defaultOption' <=> defaultOption
          /\ \A t \in Session : t \in noDiscovery' <=> t \in noDiscovery \/ t = s
      BY <1>9, <2>2, ContextsAssumption DEF SetOption, UsesContext
    <3>2. Settled(s)' /\ Others
      BY <1>1, <2>1, <3>1 DEF Options, Settled, Inside, Outbound, Others
    <3> QED
      BY <2>1, <3>2 DEF Options
  <2>3. CASE ~usbCtx[s]
    <3>1. defaultOption' /\ defaultLock = Nobody
      BY <1>9, <2>3 DEF SetOption
    <3>2. \A t \in Session : at[t] \notin Inside
      BY <3>1, ContextsAssumption DEF IInv, SessionInv, Holder
    <3>3. Settled(s)' /\ Others
      BY <1>1, <2>1, <3>1, <3>2 DEF Options, Settled, Inside, Outbound, Others
    <3> QED
      BY <2>1, <3>3 DEF Options
  <2> QED
    BY <1>1, <2>2, <2>3
<1> QED
  BY <1>3, <1>4, <1>5, <1>6, <1>7, <1>8, <1>9 DEF Step, LibraryStep

\* A session that does nothing to the devices disturbs no list.
LEMMA WalkLists ==
  ASSUME DeviceInv, Listed, Entered, NEW s \in Session, Walks(s), at[s] \notin Failing
  PROVE  Listed' /\ Entered'
<1>1. /\ UNCHANGED <<usbDevs, present, scanned>> /\ (monitor # "off" => monitor' # "off")
      /\ \A act, d : Pending(act, d)' <=> Pending(act, d)
      /\ \A c \in active' : \/ c \in active /\ (at[c] \in Failing => at'[c] \in Failing)
                            \/ c = s /\ at[s] \in {"start", "init"}
  BY DEF Walks, Pending, DeviceInv, DeviceTypes
<1>2. at[s] \in {"start", "init"} => usbDevs[s] = {} /\ s \notin scanned
  BY DEF DeviceInv, Passing
<1>3. Listed'
  BY <1>1, <1>2 DEF Listed
<1>4. Entered'
  BY <1>1, <1>2 DEF Entered
<1> QED
  BY <1>3, <1>4

\* A device that is gone leaves every list.
LEMMA DisconnectLists ==
  ASSUME DeviceInv, Listed, Entered, NEW d, d # present, Disconnect(d),
         monitor' # "off" \/ monitor' = monitor,
         UNCHANGED <<at, active, present, plugs, scanned>>,
         \A e \in Device : Pending("remove", e) => Pending("remove", e)' \/ e = d,
         Pending("add", present) => Pending("add", present)'
  PROVE  Listed' /\ Entered'
<1>1. \A c \in active : c \in Session /\ usbDevs'[c] = usbDevs[c] \ {d}
  BY DisconnectKept DEF DeviceInv, DeviceTypes
<1>2. \A c \in active : \A e \in usbDevs[c] : e \in Device
  BY ContextsAssumption DEF DeviceInv, DeviceTypes, Device
<1>3. Listed'
  BY <1>1, <1>2 DEF Listed
<1>4. Entered'
  BY <1>1 DEF Entered
<1> QED
  BY <1>3, <1>4

\* A device that is there enters the lists of some contexts.
LEMMA EnumerateLists ==
  ASSUME DeviceInv, Listed, Entered, NEW ctxs \in SUBSET Session, NEW d, Enumerate(ctxs, d),
         monitor # "off", monitor' # "off",
         UNCHANGED <<active, present, plugs>>,
         scanned' \subseteq scanned \cup ctxs, present # 0 => d = present \/ UNCHANGED scanned,
         \A c \in active : at'[c] \notin Failing => at[c] \notin Failing,
         \A e \in Device : Pending("remove", e) => Pending("remove", e)',
         Pending("add", present) =>
           Pending("add", present)' \/ (d = present /\ active \cap scanned \subseteq ctxs)
  PROVE  Listed' /\ Entered'
<1>1. \A c \in Session :
        /\ \/ usbDevs'[c] = usbDevs[c]
           \/ c \in ctxs /\ d = present /\ usbDevs'[c] = usbDevs[c] \cup {d}
        /\ c \in ctxs /\ d = present /\ d \in Device => d \in usbDevs'[c]
  BY EnumerateKept DEF DeviceInv
<1>2. \A c \in active : c \in Session /\ \A e \in usbDevs[c] : e \in Device
  BY ContextsAssumption DEF DeviceInv, DeviceTypes, Device
<1>3. present # 0 => present \in Device
  BY ContextsAssumption DEF DeviceInv, DeviceTypes, Device
<1>4. Listed'
  BY <1>1, <1>2 DEF Listed
<1>5. Entered'
  BY <1>1, <1>2, <1>3 DEF Entered
<1> QED
  BY <1>4, <1>5

\* The steps of a session.
LEMMA ListsStep ==
  ASSUME IInv, IInv', DeviceInv, ListInv, NEW s \in Session, Step(s)
  PROVE  Listed' /\ Entered'
<1>0. Listed /\ Entered /\ Options /\ SessionInv' /\ at \in [Session -> Place]
  BY DEF ListInv, IInv, SessionInv, Shape
<1>1. CASE \/ Start(s) \/ InitBegins(s) \/ StartMonitor(s) \/ Ready(s) \/ SetOption(s) \/ Wrap(s)
           \/ WrapFails(s) \/ UseAfterFree(s) \/ EndSession(s) \/ Leaves(s) \/ CloseHandle(s)
           \/ ExitBegins(s) \/ OpExit(s) \/ Free(s) \/ (Scan(s) /\ UNCHANGED devices)
  <2>1. at[s] \notin Failing
    <3>1. CASE UseAfterFree(s) \/ Leaves(s)
      BY <3>1, UserOpened DEF IInv, Inside, Failing
    <3> QED
      BY <1>1, <3>1
      DEF Start, InitBegins, StartMonitor, Ready, SetOption, Wrap, WrapFails, EndSession, CloseHandle,
          ExitBegins, OpExit, Free, Scan, Failing
  <2> QED
    BY <1>0, <1>1, <2>1, SessionWalks, WalkLists
<1>2. CASE Scan(s) /\ ~UNCHANGED devices
  <2>1. /\ Enumerate({s}, present) /\ scanned' = scanned \cup {s} /\ Goto(s, "ready")
        /\ UNCHANGED <<monitor, message, uevents, active, present, plugs>> /\ at[s] = "scan"
    BY <1>2 DEF Scan, context, bus
  <2>2. monitor # "off" /\ \A c \in active : at'[c] \notin Failing => at[c] \notin Failing
    BY <1>0, <2>1 DEF IInv, MonitorInv, Goto, Failing, DeviceInv, DeviceTypes
  <2>3. \A act, d : Pending(act, d)' <=> Pending(act, d)
    BY <2>1 DEF Pending
  <2> QED
    BY <1>0, <2>1, <2>2, <2>3, EnumerateLists
<1>3. CASE Join(s)
  <2>1. at[s] = "join_undo" /\ at'[s] = "undo" /\ UNCHANGED <<active, scanned, initCount>>
        /\ \A t \in Session \ {s} : at'[t] = at[t]
    BY <1>0, <1>3 DEF Join, Goto, Place, Inside, Outbound, context, devices
  <2>2. initCount = 0 /\ scanned = {}
    BY <1>0, <2>1 DEF IInv, MonitorInv, Options
  <2>3. ~defaultOption
    BY <1>0, <2>1 DEF Options, Settled, Inside
  <2>4. \A c \in active : c = s
    <3>1. \A c \in active : c \in Session /\ at[c] \in Inside
      BY <1>0, <2>2, <2>3 DEF Options, Settled, DeviceInv, DeviceTypes
    <3> QED
      BY <2>1, <3>1, OneInside DEF IInv, Inside
  <2> QED
    BY <2>1, <2>2, <2>4 DEF Listed, Entered, Failing
<1>4. CASE Undo(s)
  <2>1. /\ UNCHANGED <<monitor, message, uevents, present, scanned>> /\ active' = active \ {s}
        /\ \A t \in Session \ {s} : at'[t] = at[t] /\ usbDevs'[t] = usbDevs[t]
    BY <1>0, <1>4 DEF Undo, Goto, watch, bus, DeviceInv, DeviceTypes
  <2> QED
    BY <1>0, <2>1 DEF Listed, Entered, Pending, DeviceInv, DeviceTypes
<1>5. CASE HandleMessage(s)
  <2>1. UNCHANGED <<at, active, usbDevs, monitor, message, uevents, present, scanned>>
    BY <1>5 DEF HandleMessage, session, context, watch, bus
  <2> QED
    BY <1>0, <2>1 DEF Listed, Entered, Pending
<1>6. CASE PollError(s)
  <2>1. /\ held[s] # present /\ Disconnect(held[s])
        /\ UNCHANGED <<at, active, monitor, message, uevents, present, plugs, scanned>>
    BY <1>6 DEF PollError, context, watch, bus
  <2>2. \A act, d : Pending(act, d)' <=> Pending(act, d)
    BY <2>1 DEF Pending
  <2> QED
    BY <1>0, <2>1, <2>2, DisconnectLists
<1>7. CASE HotplugExit(s)
  <2>1. /\ UNCHANGED <<active, monitor, message, uevents, present, scanned>> /\ at[s] = "hotplug_exit"
        /\ \A t \in Session \ {s} : at'[t] = at[t] /\ usbDevs'[t] = usbDevs[t]
    BY <1>0, <1>7 DEF HotplugExit, Goto, context, watch, bus, DeviceInv, DeviceTypes
  <2>2. s \notin active
    BY <1>0, <2>1 DEF Options, Settled, Outbound
  <2> QED
    BY <1>0, <2>1, <2>2 DEF Listed, Entered, Pending, DeviceInv, DeviceTypes
<1> QED
  BY <1>1, <1>2, <1>3, <1>4, <1>5, <1>6, <1>7 DEF Step, LibraryStep

\* The turns of the monitor.
LEMMA ListsTurn ==
  ASSUME DeviceInv, ListInv, Monitor
  PROVE  ListInv'
<1>1. /\ UNCHANGED <<at, active, noDiscovery, defaultOption, scanned, initCount, present, plugs>>
      /\ monitor # "off" /\ monitor' # "off"
  BY DEF Monitor, MonitorPolls, MonitorReads, MonitorHandles, session, context, bus, devices
<1>2. Options'
  BY <1>1 DEF ListInv, Options, Settled
<1>3. Listed /\ Entered
  BY DEF ListInv
<1>4. CASE MonitorPolls
  <2>1. UNCHANGED <<message, uevents, usbDevs>>
    BY <1>4 DEF MonitorPolls, devices
  <2> QED
    BY <1>1, <1>2, <1>3, <2>1 DEF ListInv, Listed, Entered, Pending
<1>5. CASE MonitorReads
  <2>1. /\ UNCHANGED usbDevs /\ message = NoMessage /\ uevents # <<>>
        /\ message' = Head(uevents) /\ uevents' = Tail(uevents)
    BY <1>5 DEF MonitorReads, devices, DeviceInv, Reading
  <2>2. /\ uevents \in Seq(HotplugMsg) /\ Head(uevents) = uevents[1]
        /\ Tail(uevents) \in Seq(HotplugMsg) /\ Len(Tail(uevents)) = Len(uevents) - 1
        /\ \A i \in 1 .. Len(uevents) - 1 : Tail(uevents)[i] = uevents[i + 1]
        /\ Len(uevents) \in Nat /\ Len(uevents) >= 1
    <3>1. uevents \in Seq(HotplugMsg)
      BY DEF DeviceInv, DeviceTypes
    <3> QED
      BY <2>1, <3>1, HeadTailProperties, EmptySeq, LenProperties
  <2>3. ASSUME NEW act \in {"add", "remove"}, NEW d, Pending(act, d) PROVE Pending(act, d)'
    <3> DEFINE m == [act |-> act, dev |-> d]
    <3>1. m # NoMessage
      BY <2>3 DEF NoMessage
    <3>2. PICK i \in 1 .. Len(uevents) : uevents[i] = m
      BY <2>1, <2>3, <3>1 DEF Pending
    <3>3. CASE i = 1
      BY <2>1, <2>2, <3>2, <3>3 DEF Pending
    <3>4. CASE i # 1
      <4>1. i - 1 \in 1 .. Len(Tail(uevents)) /\ Tail(uevents)[i - 1] = m
        BY <2>2, <3>2, <3>4
      <4> QED
        BY <2>1, <4>1 DEF Pending
    <3> QED
      BY <3>3, <3>4
  <2>4. Listed'
    BY <1>1, <1>3, <2>1, <2>3 DEF Listed
  <2>5. Entered'
    BY <1>1, <1>3, <2>1, <2>3 DEF Entered
  <2> QED
    BY <1>2, <2>4, <2>5 DEF ListInv
<1>6. CASE MonitorHandles
  <2>1. /\ UNCHANGED uevents /\ message \in HotplugMsg
        /\ \/ message.act = "add" /\ Enumerate(active, message.dev)
           \/ message.act = "remove" /\ Disconnect(message.dev)
    BY <1>6 DEF MonitorHandles, Watched, DeviceInv, Reading, DeviceTypes
  <2>2. message.dev \in Device
    BY <2>1 DEF HotplugMsg
  <2>3. CASE message.act = "add" /\ Enumerate(active, message.dev)
    <3>1. \A d : Pending("remove", d) => Pending("remove", d)'
      BY <2>1, <2>3 DEF Pending
    <3>2. Pending("add", present) => Pending("add", present)' \/ message.dev = present
      BY <1>1, <2>1, <2>3 DEF Pending
    <3>3. active \in SUBSET Session /\ \A c \in active : at'[c] \notin Failing => at[c] \notin Failing
      BY <1>1 DEF DeviceInv, DeviceTypes
    <3> QED
      BY <1>1, <1>2, <1>3, <2>3, <3>1, <3>2, <3>3, EnumerateLists DEF ListInv
  <2>4. CASE message.act = "remove" /\ Disconnect(message.dev)
    <3>1. message = [act |-> "remove", dev |-> message.dev]
      BY <2>1, <2>4 DEF HotplugMsg
    <3>2. message.dev # present
      BY <2>2, <3>1 DEF DeviceInv, Reading, Pending
    <3>3. \A d : Pending("remove", d) => Pending("remove", d)' \/ d = message.dev
      BY <2>1, <3>1 DEF Pending
    <3>4. Pending("add", present) => Pending("add", present)'
      BY <1>1, <2>1, <3>1 DEF Pending
    <3> QED
      BY <1>1, <1>2, <1>3, <2>4, <3>2, <3>3, <3>4, DisconnectLists DEF ListInv
  <2> QED
    BY <2>1, <2>3, <2>4
<1> QED
  BY <1>4, <1>5, <1>6 DEF Monitor

\* The bus: as long as a context has been scanned or lists a device, the monitor
\* is there to hear of it.
LEMMA ListsBus ==
  ASSUME IInv, DeviceInv, ListInv, Plug \/ Unplug
  PROVE  ListInv'
<1>1. UNCHANGED <<at, active, noDiscovery, defaultOption, scanned, initCount, usbDevs, monitor, message>>
  BY DEF Plug, Unplug, session, context, devices
<1>2. Options'
  BY <1>1 DEF ListInv, Options, Settled
<1>3. Listed /\ Entered /\ uevents \in Seq(HotplugMsg)
  BY DEF ListInv, DeviceInv, DeviceTypes
<1>4. CASE Plug
  <2>1. present = 0 /\ present' = plugs + 1 /\ Announce("add", present') /\ present' \in Device
    BY <1>4, ContextsAssumption DEF Plug, DeviceInv, DeviceTypes, Device
  <2>2. scanned # {} => monitor # "off"
    BY DEF ListInv, Options, IInv, MonitorInv, AtRest, SessionInv, Shape
  <2>3. [act |-> "add", dev |-> present'] \in HotplugMsg
    BY <2>1 DEF HotplugMsg
  <2>4. scanned # {} => Pending("add", present)'
    BY <1>3, <2>1, <2>2, <2>3, Appended DEF Pending, Announce, Heard
  <2>5. \A d \in Device : Pending("remove", d) => Pending("remove", d)'
    <3>1. CASE uevents' = uevents
      BY <1>1, <3>1 DEF Pending
    <3>2. CASE uevents' = Append(uevents, [act |-> "add", dev |-> present'])
      BY <1>1, <1>3, <2>3, <3>2, Appended DEF Pending
    <3> QED
      BY <2>1, <3>1, <3>2 DEF Announce
  <2>6. \A c \in active : \A d \in usbDevs[c] : d \in Device /\ d # 0
    BY ContextsAssumption DEF DeviceInv, DeviceTypes, Device
  <2>7. Listed'
    BY <1>1, <1>3, <2>1, <2>5, <2>6 DEF Listed
  <2>8. Entered'
    BY <1>1, <2>4 DEF Entered
  <2> QED
    BY <1>2, <2>7, <2>8 DEF ListInv
<1>5. CASE Unplug
  <2>1. present # 0 /\ present' = 0 /\ Announce("remove", present) /\ present \in Device
    BY <1>5, ContextsAssumption DEF Unplug, DeviceInv, DeviceTypes, Device
  <2>2. [act |-> "remove", dev |-> present] \in HotplugMsg
    BY <2>1 DEF HotplugMsg
  <2>3. monitor # "off" =>
          \A d \in Device : Pending("remove", d) \/ d = present => Pending("remove", d)'
    BY <1>1, <1>3, <2>1, <2>2, Appended DEF Pending, Announce, Heard
  <2>4. \A c \in active : \A d \in usbDevs[c] : d \in Device
    BY ContextsAssumption DEF DeviceInv, DeviceTypes, Device
  <2>5. Listed'
    <3> SUFFICES ASSUME NEW c \in active, at[c] \notin Failing, NEW d \in usbDevs[c]
                 PROVE  monitor # "off" /\ Pending("remove", d)'
      BY <1>1 DEF Listed
    <3>1. monitor # "off" /\ (d = present \/ Pending("remove", d)) /\ d \in Device
      BY <1>3, <2>4 DEF Listed
    <3> QED
      BY <2>3, <3>1
  <2>6. Entered'
    BY <2>1 DEF Entered
  <2> QED
    BY <1>2, <2>5, <2>6 DEF ListInv
<1> QED
  BY <1>4, <1>5

\* The invariant of the lists: what a list lacks or has too much of, the monitor
\* is about to be told or has been told.
THEOREM ListsInductive == Spec => []ListInv
<1>1. Init => ListInv
  BY DEF Init, ListInv, Options, Settled, Listed, Entered, Inside, Outbound
<1>2. IInv /\ DeviceInv /\ ListInv /\ [Next]_vars /\ IInv' => ListInv'
  <2> SUFFICES ASSUME IInv, DeviceInv, ListInv, [Next]_vars, IInv' PROVE ListInv'
    OBVIOUS
  <2>1. CASE UNCHANGED vars
    BY <2>1 DEF vars, session, context, watch, bus, devices, ListInv, Options, Settled, Listed,
                Entered, Pending
  <2>2. CASE Monitor \/ Plug \/ Unplug
    BY <2>2, ListsTurn, ListsBus
  <2>3. ASSUME NEW s \in Session, Step(s) PROVE ListInv'
    BY <2>3, OptionsStep, ListsStep DEF ListInv
  <2> QED
    BY <2>1, <2>2, <2>3 DEF Next
<1> QED
  BY <1>1, <1>2, Inductive, DevicesInductive, PTL DEF Spec

\* With nothing under way the lists are current: for any number of sessions and
\* however often the adapter comes and goes.
THEOREM ListsStayCurrent == Spec => []ListsAreCurrent
<1>1. IInv /\ DeviceInv /\ ListInv => ListsAreCurrent
  <2> SUFFICES ASSUME IInv, DeviceInv, ListInv, monitor = "poll", uevents = <<>>,
                      NEW c \in active \cap hotplugReady
               PROVE  /\ usbDevs[c] \subseteq {present}
                      /\ c \in scanned => usbDevs[c] = {present} \ {0}
    BY DEF ListsAreCurrent
  <2>1. \A act \in {"add", "remove"} : \A d : ~Pending(act, d)
    <3>1. message = NoMessage /\ Len(uevents) = 0
      BY EmptySeq DEF DeviceInv, Reading
    <3> QED
      BY <3>1 DEF Pending, NoMessage
  <2>2. c \in Session /\ usbDevs[c] \subseteq 1 .. plugs /\ at[c] \notin Failing
    BY DEF DeviceInv, DeviceTypes, Passing, IInv, SessionInv, OwnContext, Owns, Inside, Failing
  <2>3. usbDevs[c] \subseteq {present}
    BY <2>1, <2>2 DEF ListInv, Listed
  <2>4. c \in scanned /\ present # 0 => present \in usbDevs[c]
    BY <2>1 DEF ListInv, Entered
  <2>5. 0 \notin usbDevs[c]
    BY <2>2 DEF DeviceInv, DeviceTypes
  <2> QED
    BY <2>3, <2>4, <2>5
<1> QED
  BY <1>1, Inductive, DevicesInductive, ListsInductive, PTL

-----------------------------------------------------------------------------
(* A device leaves a list once.                                            *)

Left(c, d) == Cardinality(Places(hotplugMsgs[c], Gone(d)))   \* messages that d has left c

\* Once is for ever: a device that is plugged in again is another device.
Once(c, d) ==
  Left(c, d) # 0 =>
    /\ Left(c, d) = 1 /\ d \notin usbDevs[c] /\ <<c, d>> \notin lost
    /\ d # present /\ d <= plugs

LeftOnce == \A c \in Session, d \in Device : Once(c, d)

\* A step after which d has left c no more often than before disturbs nothing, if
\* it enters no device but the one that is there and loses none that was not listed.
LEMMA OnceKept ==
  ASSUME NEW c \in Session, NEW d \in Device, Once(c, d),
         plugs \in Nat, plugs' \in Nat, plugs <= plugs', present' \in {present, 0, plugs + 1},
         d \in usbDevs'[c] => d \in usbDevs[c] \/ d = present,
         <<c, d>> \in lost' => <<c, d>> \in lost \/ d \in usbDevs[c],
         Left(c, d)' = Left(c, d) \/ Left(c, d)' = 0
  PROVE  Once(c, d)'
<1>1. d \in Nat /\ d # 0
  BY ContextsAssumption DEF Device
<1> QED
  BY <1>1 DEF Once

\* Entering a device in a list is no leaving.
LEMMA EnumerateOnce ==
  ASSUME DeviceInv, LeftOnce, NEW ctxs \in SUBSET Session, NEW e, Enumerate(ctxs, e),
         UNCHANGED <<present, plugs>>
  PROVE  LeftOnce'
<1> DEFINE new == IF e \in Device /\ e = present THEN Lacking(ctxs, e) ELSE {}
           x == [act |-> "add", dev |-> e]
<1>1. /\ usbDevs' = [c \in Session |-> IF c \in new THEN usbDevs[c] \cup {e} ELSE usbDevs[c]]
      /\ hotplugMsgs' = [c \in Session |-> IF c \in new \cap hotplugReady
                           THEN Append(hotplugMsgs[c], x) ELSE hotplugMsgs[c]]
      /\ lost' = lost
  BY DEF Enumerate, Tell
<1>2. \A c \in new : e \in Device /\ e = present /\ x \in HotplugMsg
  BY DEF HotplugMsg
<1> HIDE DEF new, x
<1> SUFFICES ASSUME NEW c \in Session, NEW d \in Device PROVE Once(c, d)'
  BY DEF LeftOnce
<1>3. /\ Once(c, d) /\ plugs \in Nat /\ plugs' = plugs /\ present' = present
      /\ hotplugMsgs[c] \in Seq(HotplugMsg) /\ Left(c, d) \in Nat
  BY ContextsAssumption, PlacesFinite DEF LeftOnce, DeviceInv, DeviceTypes, Left
<1>4. /\ d \in usbDevs'[c] => d \in usbDevs[c] \/ d = present
      /\ <<c, d>> \in lost' => <<c, d>> \in lost
  BY <1>1, <1>2
<1>5. Left(c, d)' = Left(c, d)
  <2>1. CASE hotplugMsgs'[c] = hotplugMsgs[c]
    BY <2>1 DEF Left
  <2>2. CASE c \in new /\ hotplugMsgs'[c] = Append(hotplugMsgs[c], x)
    <3>1. x # Gone(d)
      BY DEF x, Gone
    <3>2. Cardinality(Places(Append(hotplugMsgs[c], x), Gone(d))) = Left(c, d) + 0
      BY <1>2, <1>3, <2>2, <3>1, CountAppend DEF Left
    <3> QED
      BY <1>3, <2>2, <3>2 DEF Left
  <2> QED
    BY <1>1, <2>1, <2>2
<1> QED
  BY <1>3, <1>4, <1>5, OnceKept

\* A device is taken off a list that it is on, and is not there any more.
LEMMA DisconnectOnce ==
  ASSUME DeviceInv, LeftOnce, NEW e, e # present, Disconnect(e), UNCHANGED <<present, plugs>>
  PROVE  LeftOnce'
<1> DEFINE gone == {c \in active : e \in usbDevs[c]}
<1>1. /\ usbDevs' = [c \in Session |-> IF c \in gone THEN usbDevs[c] \ {e} ELSE usbDevs[c]]
      /\ hotplugMsgs' = [c \in Session |-> IF c \in gone \cap hotplugReady
                           THEN Append(hotplugMsgs[c], Gone(e)) ELSE hotplugMsgs[c]]
      /\ lost' = lost \cup {<<c, e>> : c \in gone \ hotplugReady}
  BY DEF Disconnect, Tell, Watched, Gone
<1>2. \A c \in gone : e \in usbDevs[c]
  OBVIOUS
<1> HIDE DEF gone
<1> SUFFICES ASSUME NEW c \in Session, NEW d \in Device PROVE Once(c, d)'
  BY DEF LeftOnce
<1>3. /\ Once(c, d) /\ plugs \in Nat /\ plugs' = plugs /\ present' = present
      /\ hotplugMsgs[c] \in Seq(HotplugMsg) /\ Left(c, d) \in Nat
      /\ usbDevs[c] \subseteq 1 .. plugs /\ plugs <= Plugs
  BY ContextsAssumption, PlacesFinite DEF LeftOnce, DeviceInv, DeviceTypes, Left
<1>4. /\ d \in usbDevs'[c] => d \in usbDevs[c]
      /\ <<c, d>> \in lost' => <<c, d>> \in lost \/ d \in usbDevs[c]
  BY <1>1, <1>2
<1>5. CASE hotplugMsgs'[c] = hotplugMsgs[c]
  <2>1. Left(c, d)' = Left(c, d)
    BY <1>5 DEF Left
  <2> QED
    BY <1>3, <1>4, <2>1, OnceKept
<1>6. CASE c \in gone \cap hotplugReady
  <2>1. /\ hotplugMsgs'[c] = Append(hotplugMsgs[c], Gone(e)) /\ e \in usbDevs[c]
        /\ usbDevs'[c] = usbDevs[c] \ {e} /\ (<<c, d>> \in lost' => <<c, d>> \in lost)
    BY <1>1, <1>2, <1>6
  <2>2. e \in 1 .. plugs /\ Gone(e) \in HotplugMsg
    BY <1>3, <2>1, ContextsAssumption DEF HotplugMsg, Gone, Device
  <2>3. Left(c, d)' = Left(c, d) + (IF Gone(e) = Gone(d) THEN 1 ELSE 0)
    BY <1>3, <2>1, <2>2, CountAppend DEF Left
  <2>4. CASE d = e
    <3>1. Left(c, d) = 0 /\ <<c, d>> \notin lost
      BY <1>3, <2>1, <2>4 DEF Once, DeviceInv, LostForGood
    <3> QED
      BY <1>3, <2>1, <2>2, <2>3, <2>4, <3>1 DEF Once
  <2>5. CASE d # e
    <3>1. Gone(e) # Gone(d)
      BY <2>5 DEF Gone
    <3>2. Left(c, d)' = Left(c, d)
      BY <1>3, <2>3, <3>1
    <3> QED
      BY <1>3, <1>4, <3>2, OnceKept
  <2> QED
    BY <2>4, <2>5
<1> QED
  BY <1>1, <1>5, <1>6

\* Every other step of a session, and of the bus, leaves the messages of a context
\* alone, takes the first, or drops them all.
LEMMA OthersOnce ==
  ASSUME DeviceInv, LeftOnce,
         \/ \E s \in Session :
              \/ Walks(s) \/ Join(s) \/ Undo(s) \/ HandleMessage(s) \/ HotplugExit(s)
         \/ Plug \/ Unplug
  PROVE  LeftOnce'
<1> SUFFICES ASSUME NEW c \in Session, NEW d \in Device PROVE Once(c, d)'
  BY DEF LeftOnce
<1>1. /\ Once(c, d) /\ plugs \in Nat
      /\ hotplugMsgs \in [Session -> Seq(HotplugMsg)] /\ usbDevs \in [Session -> SUBSET (1 .. plugs)]
      /\ hotplugMsgs[c] \in Seq(HotplugMsg) /\ Left(c, d) \in Nat
  BY PlacesFinite DEF LeftOnce, DeviceInv, DeviceTypes, Left
<1>2. ASSUME hotplugMsgs' = hotplugMsgs PROVE Left(c, d)' = Left(c, d)
  BY <1>2 DEF Left
<1>3. ASSUME hotplugMsgs'[c] = <<>> PROVE Left(c, d)' = 0
  <2>1. <<>> \in Seq(HotplugMsg)
    BY EmptySeq
  <2>2. Cardinality(Places(<<>>, Gone(d))) = 0
    BY <2>1, CountSome
  <2> QED
    BY <1>3, <2>2 DEF Left
<1>4. CASE Plug \/ Unplug
  <2>1. UNCHANGED <<usbDevs, lost, hotplugMsgs>> /\ plugs' \in Nat /\ plugs <= plugs'
        /\ present' \in {0, plugs + 1}
    BY <1>1, <1>4 DEF Plug, Unplug, devices
  <2> QED
    BY <1>1, <1>2, <2>1, OnceKept
<1>5. ASSUME NEW s \in Session, Walks(s) \/ Join(s) \/ Undo(s) PROVE Once(c, d)'
  <2>1. UNCHANGED <<present, plugs, hotplugMsgs>>
        /\ (UNCHANGED <<usbDevs, lost>> \/
             /\ lost' = lost \cup ({s} \X usbDevs[s]) /\ usbDevs' = [usbDevs EXCEPT ![s] = {}])
    BY <1>5 DEF Walks, Join, Undo, bus, devices
  <2>2. /\ d \in usbDevs'[c] => d \in usbDevs[c]
        /\ <<c, d>> \in lost' => <<c, d>> \in lost \/ d \in usbDevs[c]
    BY <1>1, <2>1
  <2> QED
    BY <1>1, <1>2, <2>1, <2>2, OnceKept
<1>6. ASSUME NEW s \in Session, HotplugExit(s) PROVE Once(c, d)'
  <2>1. /\ UNCHANGED <<present, plugs, lost>> /\ hotplugMsgs' = [hotplugMsgs EXCEPT ![s] = <<>>]
        /\ usbDevs' = [usbDevs EXCEPT ![s] = {e \in usbDevs[s] :
              [f \in Device |-> GivesBack(s, Removals(s, f), f)][e] # 1}]
    BY <1>6 DEF HotplugExit, bus
  <2>2. /\ d \in usbDevs'[c] => d \in usbDevs[c]
        /\ <<c, d>> \in lost' => <<c, d>> \in lost
        /\ plugs' = plugs /\ present' = present
        /\ hotplugMsgs'[c] = hotplugMsgs[c] \/ hotplugMsgs'[c] = <<>>
    BY <1>1, <2>1
  <2>3. Left(c, d)' = Left(c, d) \/ Left(c, d)' = 0
    BY <1>3, <2>2 DEF Left
  <2> QED
    BY <1>1, <2>2, <2>3, OnceKept
<1>7. ASSUME NEW s \in Session, HandleMessage(s) PROVE Once(c, d)'
  <2>1. PICK b \in alive : hotplugMsgs[b] # <<>> /\ hotplugMsgs' = [hotplugMsgs EXCEPT ![b] = Tail(@)]
    BY <1>7 DEF HandleMessage
  <2>2. /\ plugs' = plugs /\ present' = present
        /\ d \in usbDevs'[c] => d \in usbDevs[c]
        /\ <<c, d>> \in lost' => <<c, d>> \in lost
    BY <1>7 DEF HandleMessage, bus
  <2>3. Left(c, d)' = Left(c, d) \/ Left(c, d)' = 0
    <3>1. CASE hotplugMsgs'[c] = hotplugMsgs[c]
      BY <3>1 DEF Left
    <3>2. CASE hotplugMsgs[c] # <<>> /\ hotplugMsgs'[c] = Tail(hotplugMsgs[c])
      <4>1. Left(c, d)' = Left(c, d) - (IF Head(hotplugMsgs[c]) = Gone(d) THEN 1 ELSE 0)
        BY <1>1, <3>2, CountTail DEF Left
      <4>2. hotplugMsgs'[c] \in Seq(HotplugMsg)
        BY <1>1, <3>2, HeadTailProperties
      <4>3. Left(c, d)' \in Nat
        BY <4>2, PlacesFinite DEF Left
      <4> QED
        BY <1>1, <4>1, <4>3 DEF Once
    <3> QED
      BY <1>1, <2>1, <3>1, <3>2
  <2> QED
    BY <1>1, <2>2, <2>3, OnceKept
<1> QED
  BY <1>4, <1>5, <1>6, <1>7

\* No device leaves a list twice.
LEMMA OnceInductive == Spec => []LeftOnce
<1>1. Init => LeftOnce
  <2>1. <<>> \in Seq(HotplugMsg)
    BY EmptySeq
  <2>2. \A d \in Device : Cardinality(Places(<<>>, Gone(d))) = 0
    BY <2>1, CountSome
  <2> QED
    BY <2>2 DEF Init, LeftOnce, Once, Left
<1>2. IInv /\ DeviceInv /\ LeftOnce /\ [Next]_vars /\ IInv' => LeftOnce'
  <2> SUFFICES ASSUME IInv, DeviceInv, LeftOnce, [Next]_vars, IInv' PROVE LeftOnce'
    OBVIOUS
  <2>1. CASE UNCHANGED vars
    BY <2>1 DEF vars, bus, devices, LeftOnce, Once, Left
  <2>2. CASE Plug \/ Unplug
    BY <2>2, OthersOnce
  <2>3. CASE Monitor
    <3>1. CASE MonitorPolls \/ MonitorReads
      BY <3>1 DEF MonitorPolls, MonitorReads, bus, devices, LeftOnce, Once, Left
    <3>2. CASE MonitorHandles /\ Enumerate(active, message.dev)
      <4>1. active \in SUBSET Session /\ UNCHANGED <<present, plugs>>
        BY <3>2 DEF MonitorHandles, bus, DeviceInv, DeviceTypes
      <4> QED
        BY <3>2, <4>1, EnumerateOnce
    <3>3. CASE MonitorHandles /\ message.act = "remove" /\ Disconnect(message.dev)
      <4>1. message # NoMessage /\ message \in HotplugMsg \cup {NoMessage}
        BY <3>3 DEF MonitorHandles, DeviceInv, Reading, DeviceTypes
      <4>2. message.dev \in Device /\ message = [act |-> "remove", dev |-> message.dev]
        BY <3>3, <4>1 DEF HotplugMsg
      <4>3. message.dev # present
        BY <4>2 DEF DeviceInv, Reading, Pending
      <4>4. UNCHANGED <<present, plugs>>
        BY <3>3 DEF MonitorHandles, bus
      <4> QED
        BY <3>3, <4>3, <4>4, DisconnectOnce
    <3> QED
      BY <2>3, <3>1, <3>2, <3>3 DEF Monitor, MonitorHandles, Watched
  <2>4. ASSUME NEW s \in Session, Step(s) PROVE LeftOnce'
    <3>1. SessionInv'
      BY DEF IInv
    <3>2. CASE \/ Start(s) \/ InitBegins(s) \/ StartMonitor(s) \/ Ready(s) \/ SetOption(s) \/ Wrap(s)
               \/ WrapFails(s) \/ UseAfterFree(s) \/ EndSession(s) \/ Leaves(s) \/ CloseHandle(s)
               \/ ExitBegins(s) \/ OpExit(s) \/ Free(s) \/ (Scan(s) /\ UNCHANGED devices)
      BY <3>1, <3>2, SessionWalks, OthersOnce
    <3>3. CASE Scan(s) /\ Enumerate({s}, present)
      BY <3>3, EnumerateOnce DEF Scan, bus
    <3>4. CASE PollError(s)
      <4>1. held[s] # present /\ Disconnect(held[s]) /\ UNCHANGED <<present, plugs>>
        BY <3>4 DEF PollError, bus
      <4> QED
        BY <4>1, DisconnectOnce
    <3>5. CASE Scan(s)
      BY <3>2, <3>3, <3>5 DEF Scan
    <3>6. CASE Join(s) \/ Undo(s) \/ HandleMessage(s) \/ HotplugExit(s)
      BY <3>6, OthersOnce
    <3> QED
      BY <2>4, <3>2, <3>4, <3>5, <3>6 DEF Step, LibraryStep
  <2> QED
    BY <2>1, <2>2, <2>3, <2>4 DEF Next
<1> QED
  BY <1>1, <1>2, Inductive, DevicesInductive, PTL DEF Spec

-----------------------------------------------------------------------------
(* The rest of the types, and a count that never goes down.                *)

RestTypes ==
  /\ held \in [Session -> 0 .. Plugs] /\ fdRemoved \in [Session -> BOOLEAN]
  /\ hotplugReady \subseteq Session /\ noDiscovery \subseteq Session
  /\ defaultOption \in BOOLEAN /\ stopping \in BOOLEAN /\ crashed \in BOOLEAN
  /\ hotplugLock \in {"free", "monitor"}
  /\ monitor \in {"off", "poll", "lock", "read", "ended"}
  /\ active \subseteq alive /\ \A s \in Session : at[s] \in Outbound => s \notin active

\* Every context that was scanned counts, also when it is gone.
CountNeverFalls ==
  /\ scanned \subseteq Session /\ IsFiniteSet(scanned) /\ initCount = Cardinality(scanned)
  /\ \A s \in Session : at[s] \in {"start", "init", "backend", "scan"} => s \notin scanned
  /\ stopping => scanned = {}
  /\ monitor = "ended" => stopping
  /\ scanned # {} => monitor # "off"

\* Each step of a session leaves the types of the rest.
LEMMA RestStep ==
  ASSUME IInv, DeviceInv, RestTypes, NEW s \in Session, Step(s)
  PROVE  RestTypes'
<1>1. /\ at \in [Session -> Place] /\ present \in 0 .. Plugs
      /\ (at[s] \in {"start", "init"} => s \notin active)
  BY ContextsAssumption DEF IInv, SessionInv, Shape, DeviceInv, DeviceTypes, Passing
<1>2. CASE Start(s) \/ WrapFails(s) \/ EndSession(s) \/ Leaves(s) \/ CloseHandle(s)
  BY <1>1, <1>2 DEF Start, WrapFails, EndSession, Leaves, CloseHandle, Goto, context, watch, locks,
                    RestTypes, Outbound
<1>3. CASE InitBegins(s)
  BY <1>1, <1>3 DEF InitBegins, Goto, watch, RestTypes, Outbound
<1>4. CASE StartMonitor(s) \/ Scan(s)
  BY <1>1, <1>4 DEF StartMonitor, Scan, StopsMonitor, Goto, context, locks, RestTypes, Outbound
<1>5. CASE Join(s)
  BY <1>1, <1>5 DEF Join, Goto, context, locks, RestTypes, Outbound, Place, Inside
<1>6. CASE Undo(s) \/ Ready(s)
  BY <1>1, <1>6 DEF Undo, Ready, Goto, watch, RestTypes, Outbound
<1>7. CASE SetOption(s)
  <2>1. UsesContext(s) \in Session \cup {Nobody}
    BY DEF UsesContext, IInv, SessionInv, Shape
  <2> QED
    BY <1>1, <1>7, <2>1 DEF SetOption, Goto, watch, locks, RestTypes, Outbound
<1>8. CASE Wrap(s) \/ UseAfterFree(s)
  BY <1>1, <1>8 DEF Wrap, UseAfterFree, Crash, Goto, session, context, watch, locks, RestTypes, Outbound
<1>9. CASE HandleMessage(s) \/ PollError(s)
  BY <1>1, <1>9 DEF HandleMessage, PollError, session, context, watch, locks, RestTypes, Outbound
<1>10. CASE ExitBegins(s)
  BY <1>1, <1>10 DEF ExitBegins, Goto, watch, RestTypes, Outbound
<1>11. CASE HotplugExit(s) \/ OpExit(s)
  BY <1>1, <1>11 DEF HotplugExit, OpExit, StopsMonitor, Goto, context, watch, locks, RestTypes, Outbound
<1>12. CASE Free(s)
  BY <1>1, <1>12 DEF Free, Destroyed, Goto, watch, RestTypes, Outbound
<1> QED
  BY <1>2, <1>3, <1>4, <1>5, <1>6, <1>7, <1>8, <1>9, <1>10, <1>11, <1>12 DEF Step, LibraryStep

\* Each step of a session leaves the count with the contexts that were scanned.
LEMMA CountStep ==
  ASSUME IInv, DeviceInv, CountNeverFalls, NEW s \in Session, Step(s)
  PROVE  CountNeverFalls'
<1>1. at \in [Session -> Place]
  BY DEF IInv, SessionInv, Shape
<1>2. CASE Start(s) \/ WrapFails(s) \/ EndSession(s) \/ Leaves(s) \/ CloseHandle(s) \/ SetOption(s)
  BY <1>1, <1>2 DEF Start, WrapFails, EndSession, Leaves, CloseHandle, SetOption, Goto, watch, devices,
                    CountNeverFalls
<1>3. CASE InitBegins(s) \/ Ready(s) \/ ExitBegins(s) \/ Free(s)
  BY <1>1, <1>3 DEF InitBegins, Ready, ExitBegins, Free, Goto, watch, devices, CountNeverFalls
<1>4. CASE StartMonitor(s)
  BY <1>1, <1>4 DEF StartMonitor, Goto, devices, CountNeverFalls
<1>5. CASE Scan(s)
  <2>1. at[s] = "scan" /\ monitor # "off" /\ ~stopping /\ s \notin scanned
    BY <1>5 DEF Scan, IInv, MonitorInv, CountNeverFalls
  <2>2. CASE scanned' = scanned \cup {s} /\ initCount' = initCount + 1 /\ Goto(s, "ready")
             /\ UNCHANGED stopping
    <3>1. IsFiniteSet(scanned') /\ Cardinality(scanned') = Cardinality(scanned) + 1
      BY <2>1, <2>2, FS_AddElement DEF CountNeverFalls
    <3> QED
      BY <1>1, <1>5, <2>1, <2>2, <3>1 DEF Scan, Goto, CountNeverFalls
  <2>3. CASE stopping' = (initCount = 0) /\ UNCHANGED <<initCount, scanned>>
             /\ Goto(s, IF stopping' THEN "join_undo" ELSE "undo")
    <3>1. initCount = 0 => scanned = {}
      BY FS_EmptySet DEF CountNeverFalls
    <3> QED
      BY <1>1, <1>5, <2>1, <2>3, <3>1 DEF Scan, Goto, CountNeverFalls
  <2> QED
    BY <1>5, <2>2, <2>3 DEF Scan, StopsMonitor, devices
<1>6. CASE Join(s)
  BY <1>1, <1>6 DEF Join, Goto, devices, CountNeverFalls
<1>7. CASE Undo(s) \/ HotplugExit(s)
  BY <1>1, <1>7 DEF Undo, HotplugExit, Goto, watch, CountNeverFalls
<1>8. CASE Wrap(s) \/ UseAfterFree(s)
  BY <1>1, <1>8 DEF Wrap, UseAfterFree, Crash, Goto, session, watch, devices, CountNeverFalls
<1>9. CASE HandleMessage(s) \/ PollError(s)
  BY <1>1, <1>9 DEF HandleMessage, PollError, session, watch, CountNeverFalls
<1>10. CASE OpExit(s)
  <2>1. s \in noDiscovery
    BY <1>10 DEF OpExit, IInv, SessionInv, OwnContext, Owns, Outbound
  <2>2. UNCHANGED <<initCount, monitor, scanned>> /\ ~stopping' /\ at' = [at EXCEPT ![s] = "free"]
    BY <1>10, <2>1 DEF OpExit, Goto, devices
  <2>3. ~stopping
    <3>1. at[s] = "op_exit"
      BY <1>10 DEF OpExit
    <3>2. \A t \in Session : at[t] \notin {"scan", "join_undo"}
      BY <3>1, OneInside DEF IInv, Inside, Outbound
    <3> QED
      BY <3>2 DEF IInv, MonitorInv, AtRest
  <2> QED
    BY <1>1, <2>2, <2>3 DEF CountNeverFalls
<1> QED
  BY <1>2, <1>3, <1>4, <1>5, <1>6, <1>7, <1>8, <1>9, <1>10 DEF Step, LibraryStep

\* Both hold all along.
LEMMA RestInductive == Spec => [](RestTypes /\ CountNeverFalls)
<1>1. Init => RestTypes /\ CountNeverFalls
  <2>1. IsFiniteSet({}) /\ Cardinality({}) = 0
    BY FS_EmptySet
  <2>2. Init => CountNeverFalls
    BY <2>1 DEF Init, CountNeverFalls
  <2>3. 0 \in 0 .. Plugs
    BY ContextsAssumption
  <2>4. Init => RestTypes
    BY <2>3 DEF Init, RestTypes, Outbound
  <2> QED
    BY <2>2, <2>4
<1>2. IInv /\ DeviceInv /\ RestTypes /\ CountNeverFalls /\ [Next]_vars
        => (RestTypes /\ CountNeverFalls)'
  <2> SUFFICES ASSUME IInv, DeviceInv, RestTypes, CountNeverFalls, [Next]_vars
               PROVE  RestTypes' /\ CountNeverFalls'
    OBVIOUS
  <2>1. CASE UNCHANGED vars
    BY <2>1 DEF vars, session, context, watch, devices, locks, RestTypes, CountNeverFalls
  <2>2. CASE Plug \/ Unplug
    BY <2>2 DEF Plug, Unplug, session, context, devices, locks, RestTypes, CountNeverFalls
  <2>3. CASE Monitor
    BY <2>3 DEF Monitor, MonitorPolls, MonitorReads, MonitorHandles, session, context, devices, locks,
                RestTypes, CountNeverFalls
  <2>4. ASSUME NEW s \in Session, Step(s) PROVE RestTypes' /\ CountNeverFalls'
    BY <2>4, RestStep, CountStep
  <2> QED
    BY <2>1, <2>2, <2>3, <2>4 DEF Next
<1> QED
  BY <1>1, <1>2, Inductive, DevicesInductive, PTL DEF Spec

\* The list or a message keeps a device, or it was lost; never two of them at once.
OneReferenceEach == \A c \in Session : \A d \in Device : refcnt[c][d] \in 0 .. 1

\* A device of a context never has more than one reference, and never less than
\* none: it is not released twice, whoever takes it off the list and however
\* often it is met there.
THEOREM OneReference == Spec => []OneReferenceEach
<1>1. DeviceInv /\ LeftOnce => OneReferenceEach
  <2> SUFFICES ASSUME DeviceInv, LeftOnce, NEW c \in Session, NEW d \in Device
               PROVE  refcnt[c][d] \in 0 .. 1
    BY DEF OneReferenceEach
  <2>1. /\ hotplugMsgs[c] \in Seq(HotplugMsg) /\ Owned(c) /\ Once(c, d)
        /\ (<<c, d>> \in lost => d \notin usbDevs[c])
    BY DEF DeviceInv, DeviceTypes, Accounted, LeftOnce, LostForGood
  <2>2. refcnt[c][d] = (IF d \in usbDevs[c] THEN 1 ELSE 0) + Left(c, d)
                       + (IF <<c, d>> \in lost THEN 1 ELSE 0)
    BY <2>1 DEF Owned, Left
  <2>3. Left(c, d) \in Nat
    BY <2>1, PlacesFinite DEF Left
  <2> QED
    BY <2>1, <2>2, <2>3 DEF Once
<1> QED
  BY <1>1, DevicesInductive, OnceInductive, PTL

\* The monitor that the first scanned context starts runs for as long as the
\* process, also when every session is over: each session sets the option that
\* switches discovery off after libusb_init has counted it, and op_exit counts
\* down only without the option.
MonitorForGood == scanned # {} => monitor \in {"poll", "lock", "read"}

\* Once a context was scanned the monitor is never stopped.
THEOREM MonitorStays == Spec => []MonitorForGood
<1>1. RestTypes /\ CountNeverFalls => MonitorForGood
  BY DEF RestTypes, CountNeverFalls, MonitorForGood
<1> QED
  BY <1>1, RestInductive, PTL

\* Every variable keeps to its type, with finitely many sessions; the count is
\* that of the contexts that were scanned, and so at most one for each session.
THEOREM TypeCorrect ==
  ASSUME IsFiniteSet(Session)
  PROVE  Spec => []TypeOK
<1>1. IInv /\ DeviceInv /\ RestTypes /\ CountNeverFalls /\ OneReferenceEach => TypeOK
  <2> SUFFICES ASSUME IInv, DeviceInv, RestTypes, CountNeverFalls, OneReferenceEach PROVE TypeOK
    OBVIOUS
  <2>1. initCount \in 0 .. Cardinality(Session)
    BY FS_Subset, FS_CardinalityType DEF CountNeverFalls
  <2>2. refcnt \in [Session -> [Device -> 0 .. 1]]
    <3>1. refcnt \in [Session -> [Device -> Int]]
      BY DEF DeviceInv, DeviceTypes
    <3>2. ASSUME NEW c \in Session PROVE refcnt[c] \in [Device -> 0 .. 1]
      BY <3>1 DEF OneReferenceEach
    <3> QED
      BY <3>1, <3>2
  <2>3. /\ present \in 0 .. Plugs /\ plugs \in 0 .. Plugs /\ lost \subseteq Session \X Device
        /\ usbDevs \in [Session -> SUBSET Device]
    <3>1. plugs \in 0 .. Plugs /\ present \in 0 .. plugs
      BY DEF DeviceInv, DeviceTypes
    <3>2. 1 .. plugs \subseteq Device
      BY <3>1, ContextsAssumption DEF Device
    <3> QED
      BY <3>1, <3>2, ContextsAssumption DEF DeviceInv, DeviceTypes
  <2>4. /\ at \in [Session -> Place] /\ usbCtx \in [Session -> BOOLEAN]
        /\ handleCtx \in [Session -> Session \cup {Nobody}] /\ using \in [Session -> BOOLEAN]
        /\ defaultLock \in Session \cup {Nobody} /\ fallback \in Session \cup {Nobody}
    BY DEF IInv, SessionInv, Shape
  <2>5. alive \subseteq Session
    BY DEF DeviceInv, DeviceTypes
  <2>6. at \in [Session -> {"start", "init", "backend", "scan", "join_undo", "join_free", "undo",
                            "ready", "option", "wrap", "open", "close", "exit", "hotplug_exit",
                            "op_exit", "free", "done"}]
    BY <2>4 DEF Place, Inside, Outbound
  <2> QED
    BY <2>1, <2>2, <2>3, <2>4, <2>5, <2>6 DEF TypeOK, RestTypes, CountNeverFalls
<1> QED
  BY <1>1, Inductive, DevicesInductive, RestInductive, OneReference, PTL
=============================================================================
