------------------------ MODULE EventHandlingProofs -------------------------
(***************************************************************************)
(* Proofs about EventHandling, for any finite set of threads: every thread *)
(* that sleeps has one that will wake it, the event pipe never holds more  *)
(* or less than one message for the flags that are up, and the handler     *)
(* polls the devices that are open and none that has been closed.          *)
(*                                                                         *)
(* What carries them is who owns events_lock (Owner), that device_close    *)
(* counts the threads that are closing (Counted), and that whoever changes *)
(* the devices leaves a flag behind (Stale).                               *)
(***************************************************************************)
EXTENDS EventHandling, FiniteSetTheorems, TLAPS

Owning  == {"handle", "poll", "timeouts", "trigger", "reap", "unlock", "do_close", "closed"}
Closers == {t \in Thread : pc[t] \in {"closing", "do_close", "closed"}}

\* events_lock is held by the thread that is past taking it and has not given it back.
Owner == \A t \in Thread : handler = t <=> pc[t] \in Owning

\* device_close is the number of threads that are closing, and its flag is up meanwhile.
Counted == closing = Cardinality(Closers)
Flagged == closing > 0 <=> "close" \in flags

\* The array handed to poll is the list of devices, or the flag says that it is not.
Stale == polled = sources \/ "sources" \in flags

IInv == /\ TypeOK /\ Owner /\ Counted /\ Flagged /\ PipeMatchesFlags /\ Stale
        /\ ClosedNotPolled /\ SleeperHasWaker

-----------------------------------------------------------------------------
\* A step moves one thread; Broadcast also moves those that sleep.
LEMMA GoMoves ==
  ASSUME TypeOK, NEW t \in Thread, NEW from, NEW to, Go(t, from, to)
  PROVE  /\ pc[t] = from /\ pc'[t] = to
         /\ \A s \in Thread \ {t} : pc'[s] = pc[s]
  BY DEF Go, TypeOK

\* The number of threads that close changes by one at either end of libusb_close.
LEMMA CountUp ==
  ASSUME TypeOK, Counted, NEW t \in Thread, t \notin Closers, Closers' = Closers \cup {t}
  PROVE  Cardinality(Closers') = closing + 1
<1>1. IsFiniteSet(Closers)
  BY ThreadAssumption, FS_Subset DEF Closers
<1> QED
  BY <1>1, FS_AddElement DEF Counted

\* ... and goes down by one at its end.
LEMMA CountDown ==
  ASSUME TypeOK, Counted, NEW t \in Thread, t \in Closers, Closers' = Closers \ {t}
  PROVE  closing > 0 /\ Cardinality(Closers') = closing - 1
<1>1. IsFiniteSet(Closers)
  BY ThreadAssumption, FS_Subset DEF Closers
<1>2. closing \in Nat
  BY <1>1, FS_CardinalityType DEF Counted
<1>3. Cardinality(Closers') = closing - 1
  BY <1>1, FS_RemoveElement DEF Counted
<1>4. Cardinality(Closers) # 0
  BY <1>1, FS_EmptySet
<1> QED
  BY <1>2, <1>3, <1>4 DEF Counted

\* A thread is closing if and only if the count is not zero.
LEMMA CountZero ==
  ASSUME TypeOK, Counted
  PROVE  closing > 0 <=> Closers # {}
<1>1. IsFiniteSet(Closers)
  BY ThreadAssumption, FS_Subset DEF Closers
<1> QED
  BY <1>1, FS_EmptySet DEF Counted, TypeOK

-----------------------------------------------------------------------------
\* No device is open, no flag is up and nobody has the lock at first.
LEMMA InitInv == Init => IInv
<1> SUFFICES ASSUME Init PROVE IInv
  OBVIOUS
<1>1. Closers = {}
  BY DEF Init, Closers
<1>2. Cardinality({}) = 0 /\ Cardinality(Thread) \in Nat
  BY ThreadAssumption, FS_EmptySet, FS_CardinalityType
<1>3. TypeOK
  BY <1>2, ThreadAssumption, BoundAssumption DEF Init, TypeOK
<1>4. Owner
  BY ThreadAssumption DEF Init, Owner, Owning
<1>5. Counted /\ Flagged /\ PipeMatchesFlags /\ Stale /\ ClosedNotPolled /\ SleeperHasWaker
  BY <1>1, <1>2
  DEF Init, Counted, Flagged, PipeMatchesFlags, Stale, ClosedNotPolled, SleeperHasWaker
<1> QED
  BY <1>3, <1>4, <1>5 DEF IInv
-----------------------------------------------------------------------------
\* A step that neither takes nor gives events_lock and neither begins nor ends a close.
Plain(t) ==
  /\ \A s \in Thread \ {t} : pc'[s] = pc[s]
  /\ pc[t] \in Owning <=> pc'[t] \in Owning
  /\ pc[t] \in {"closing", "do_close", "closed"} <=> pc'[t] \in {"closing", "do_close", "closed"}
  /\ UNCHANGED <<handler, closing>>

\* Such a step leaves the owner and the count right.
LEMMA PlainStep ==
  ASSUME Owner, Counted, NEW t \in Thread, Plain(t)
  PROVE  Owner' /\ Counted'
<1>1. Owner'
  BY DEF Owner, Plain
<1>2. Closers' = Closers
  BY DEF Closers, Plain
<1> QED
  BY <1>1, <1>2 DEF Counted, Plain

\* Every step keeps track of who owns events_lock and how many threads are closing.
LEMMA OwnerStep ==
  ASSUME IInv, Next
  PROVE  Owner' /\ Counted'
<1> USE DEF Owning
<1>1. ASSUME NEW t \in Thread, Open(t) \/ Submit(t) \/ TransferOver(t) PROVE Owner' /\ Counted'
  <2>1. Plain(t)
    BY <1>1 DEF IInv, TypeOK, Open, Submit, TransferOver, Go, Plain, AddSource, Raise, signals
  <2> QED
    BY <2>1, PlainStep DEF IInv
<1>2. ASSUME NEW t \in Thread,
             NextTimeout(t) \/ TryLock(t) \/ WaitForEvent(t) \/ WaitExpires(t) \/ Expired(t)
      PROVE  Owner' /\ Counted'
  <2>1. Plain(t)
    BY <1>2
    DEF IInv, TypeOK, NextTimeout, TryLock, WaitForEvent, WaitExpires, Expired, Go, Plain, signals
  <2> QED
    BY <2>1, PlainStep DEF IInv
<1>3. ASSUME NEW t \in Thread, LockOrWait(t) PROVE Owner' /\ Counted'
  <2>1. CASE handler # Nobody
    <3>1. Plain(t)
      BY <1>3, <2>1 DEF IInv, TypeOK, LockOrWait, Go, Plain, signals
    <3> QED
      BY <3>1, PlainStep DEF IInv
  <2>2. CASE handler = Nobody
    <3>1. /\ handler' = t /\ pc'[t] = "handle" /\ pc[t] = "lock" /\ UNCHANGED closing
          /\ \A s \in Thread \ {t} : pc'[s] = pc[s]
      BY <1>3, <2>2 DEF IInv, TypeOK, LockOrWait, Go, signals
    <3>2. Closers' = Closers
      BY <3>1 DEF Closers
    <3> QED
      BY <2>2, <3>1, <3>2, ThreadAssumption DEF IInv, Owner, Counted
  <2> QED
    BY <2>1, <2>2
<1>4. ASSUME NEW t \in Thread, Handling(t) PROVE Owner' /\ Counted'
  <2>1. Plain(t)
    BY <1>4
    DEF IInv, TypeOK, Handling, HandleEvents, PollReturns, PollTimesOut, EventTrigger, AllReaped,
        ReapTransfer, Go, Plain, Lower, signals
  <2> QED
    BY <2>1, PlainStep DEF IInv
<1>5. ASSUME NEW t \in Thread, Unlock(t) PROVE Owner' /\ Counted'
  <2>1. /\ handler' = Nobody /\ pc'[t] = "broadcast" /\ pc[t] = "unlock" /\ UNCHANGED closing
        /\ \A s \in Thread \ {t} : pc'[s] = pc[s]
    BY <1>5 DEF IInv, TypeOK, Unlock, Go, signals
  <2>2. Closers' = Closers
    BY <2>1 DEF Closers
  <2> QED
    BY <2>1, <2>2, ThreadAssumption DEF IInv, Owner, Counted
<1>6. ASSUME NEW t \in Thread, Broadcast(t) PROVE Owner' /\ Counted'
  <2>1. /\ UNCHANGED <<handler, closing>>
        /\ \A s \in Thread : \/ pc'[s] = pc[s]
                              \/ {pc[s], pc'[s]} \subseteq {"asleep", "broadcast", "loop", "end"}
    BY <1>6 DEF IInv, TypeOK, Broadcast, Wake, signals
  <2>2. Closers' = Closers
    BY <2>1 DEF Closers
  <2> QED
    BY <2>1, <2>2 DEF IInv, Owner, Counted
<1>7. ASSUME NEW t \in Thread, NEW d \in Thread, CloseBegins(t, d) PROVE Owner' /\ Counted'
  <2>1. /\ UNCHANGED handler /\ pc'[t] = "closing" /\ pc[t] = "idle" /\ closing' = closing + 1
        /\ \A s \in Thread \ {t} : pc'[s] = pc[s]
    BY <1>7 DEF IInv, TypeOK, CloseBegins, Go
  <2>2. t \notin Closers /\ Closers' = Closers \cup {t}
    BY <2>1 DEF Closers
  <2>3. Cardinality(Closers') = closing + 1
    BY <2>2, CountUp DEF IInv
  <2> QED
    BY <2>1, <2>3 DEF IInv, Owner, Counted
<1>8. ASSUME NEW t \in Thread, CloseLocks(t) PROVE Owner' /\ Counted'
  <2>1. /\ handler = Nobody /\ handler' = t /\ pc'[t] = "do_close" /\ pc[t] = "closing"
        /\ UNCHANGED closing /\ \A s \in Thread \ {t} : pc'[s] = pc[s]
    BY <1>8 DEF IInv, TypeOK, CloseLocks, CloseLockFree, Go, signals
  <2>2. Closers' = Closers
    BY <2>1 DEF Closers
  <2> QED
    BY <2>1, <2>2, ThreadAssumption DEF IInv, Owner, Counted
<1>9. ASSUME NEW t \in Thread, DoClose(t) PROVE Owner' /\ Counted'
  <2>1. Plain(t)
    BY <1>9 DEF IInv, TypeOK, DoClose, Go, Plain
  <2> QED
    BY <2>1, PlainStep DEF IInv
<1>10. ASSUME NEW t \in Thread, CloseEnds(t) PROVE Owner' /\ Counted'
  <2>1. /\ UNCHANGED handler /\ pc'[t] = "unlock" /\ pc[t] = "closed" /\ closing' = closing - 1
        /\ \A s \in Thread \ {t} : pc'[s] = pc[s]
    BY <1>10 DEF IInv, TypeOK, CloseEnds, Go
  <2>2. t \in Closers /\ Closers' = Closers \ {t}
    BY <2>1 DEF Closers
  <2>3. Cardinality(Closers') = closing - 1
    BY <2>2, CountDown DEF IInv
  <2> QED
    BY <2>1, <2>3 DEF IInv, Owner, Counted
<1>11. ASSUME NEW t \in Thread, Interrupt(t) \/ UrbsComplete(t) \/ TimePasses(t)
       PROVE  Owner' /\ Counted'
  <2>1. Plain(t)
    BY <1>11 DEF Interrupt, UrbsComplete, TimePasses, Plain, signals
  <2> QED
    BY <2>1, PlainStep DEF IInv
<1> QED
  BY <1>1, <1>2, <1>3, <1>4, <1>5, <1>6, <1>7, <1>8, <1>9, <1>10, <1>11
  DEF Next, Step, Waiting, Closing

-----------------------------------------------------------------------------
\* Raising a flag and lowering flags that are up keep one message for them all.
LEMMA RaiseOne ==
  ASSUME PipeMatchesFlags, NEW f, Raise(f)
  PROVE  PipeMatchesFlags' /\ flags' = flags \cup {f}
  BY DEF PipeMatchesFlags, Raise

\* ... and so does lowering some, whether the pipe is emptied by it or not.
LEMMA LowerSome ==
  ASSUME PipeMatchesFlags, NEW S, Lower(S)
  PROVE  PipeMatchesFlags' /\ flags' = flags \ S
  BY DEF PipeMatchesFlags, Lower

Signals == PipeMatchesFlags /\ Flagged /\ Stale

\* A step that touches neither flags, pipe nor devices leaves the signals right.
LEMMA SignalsStay ==
  ASSUME Signals, UNCHANGED <<closing, flags, pipe, sources, polled>>
  PROVE  Signals'
  BY DEF Signals, PipeMatchesFlags, Flagged, Stale

\* Every step keeps flags and pipe together, and the array of poll marked when it is old.
LEMMA SignalStep ==
  ASSUME IInv, Next
  PROVE  Signals'
<1>1. PipeMatchesFlags /\ Flagged /\ Stale /\ Signals
  BY DEF IInv, Signals
<1>2. ASSUME NEW t \in Thread, Open(t) \/ DoClose(t) PROVE Signals'
  <2>1. PipeMatchesFlags' /\ flags' = flags \cup {"sources"}
    BY <1>1, <1>2, RaiseOne DEF Open, DoClose, AddSource
  <2> QED
    BY <1>1, <1>2, <2>1 DEF Open, DoClose, Signals, Flagged, Stale
<1>3. ASSUME NEW t \in Thread, Interrupt(t) PROVE Signals'
  <2>1. PipeMatchesFlags' /\ flags' = flags \cup {"interrupt"}
    BY <1>1, <1>3, RaiseOne DEF Interrupt
  <2> QED
    BY <1>1, <1>3, <2>1 DEF Interrupt, Signals, Flagged, Stale, polling
<1>4. ASSUME NEW t \in Thread, HandleEvents(t) PROVE Signals'
  <2>1. CASE UNCHANGED <<flags, pipe, polled>>
    BY <1>1, <1>4, <2>1, SignalsStay DEF HandleEvents, signals
  <2>2. CASE Lower({"sources"}) /\ polled' = sources
    <3>1. PipeMatchesFlags' /\ flags' = flags \ {"sources"}
      BY <1>1, <2>2, LowerSome
    <3> QED
      BY <1>1, <1>4, <2>2, <3>1 DEF HandleEvents, Signals, Flagged, Stale
  <2> QED
    BY <1>4, <2>1, <2>2 DEF HandleEvents
<1>5. ASSUME NEW t \in Thread, EventTrigger(t) PROVE Signals'
  <2>1. PipeMatchesFlags' /\ flags' = flags \ {"interrupt"}
    BY <1>1, <1>5, LowerSome DEF EventTrigger
  <2> QED
    BY <1>1, <1>5, <2>1 DEF EventTrigger, Signals, Flagged, Stale, polling
<1>6. ASSUME NEW t \in Thread, NEW d \in Thread, CloseBegins(t, d) PROVE Signals'
  <2>1. closing' = closing + 1 /\ closing \in Nat /\ UNCHANGED <<sources, polled>>
    BY <1>6 DEF CloseBegins, IInv, TypeOK, polling
  <2>2. CASE closing = 0
    <3>1. PipeMatchesFlags' /\ flags' = flags \cup {"close"}
      BY <1>1, <1>6, <2>2, RaiseOne DEF CloseBegins
    <3> QED
      BY <1>1, <2>1, <3>1 DEF Signals, Flagged, Stale
  <2>3. CASE closing # 0
    <3>1. "close" \in flags
      BY <1>1, <2>1, <2>3 DEF Flagged
    <3>2. UNCHANGED <<flags, pipe>>
      BY <1>6, <2>3, <3>1 DEF CloseBegins
    <3> QED
      BY <1>1, <2>1, <3>1, <3>2 DEF Signals, Flagged, Stale, PipeMatchesFlags
  <2> QED
    BY <2>2, <2>3
<1>7. ASSUME NEW t \in Thread, CloseEnds(t) PROVE Signals'
  <2>1. closing' = closing - 1 /\ closing \in Nat /\ UNCHANGED <<sources, polled>>
    BY <1>7 DEF CloseEnds, IInv, TypeOK, polling
  <2>2. closing > 0
    BY <1>7, CountZero DEF CloseEnds, Go, Closers, IInv
  <2>3. PipeMatchesFlags' /\ flags' = flags \ (IF closing = 1 THEN {"close"} ELSE {})
    BY <1>1, <1>7, LowerSome DEF CloseEnds
  <2> QED
    BY <1>1, <2>1, <2>2, <2>3 DEF Signals, Flagged, Stale
<1>8. ASSUME NEW t \in Thread,
             \/ Submit(t) \/ TransferOver(t) \/ Waiting(t) \/ Unlock(t) \/ Broadcast(t)
             \/ CloseLocks(t) \/ UrbsComplete(t) \/ TimePasses(t)
      PROVE  Signals'
  BY <1>1, <1>8, SignalsStay
  DEF Submit, TransferOver, Waiting, NextTimeout, TryLock, LockOrWait, WaitForEvent, WaitExpires,
      Expired, Unlock, Broadcast, CloseLocks, UrbsComplete, TimePasses, signals, polling
<1>9. ASSUME NEW t \in Thread,
             \/ PollReturns(t) \/ PollTimesOut(t) \/ AllReaped(t)
             \/ \E d \in Thread : ReapTransfer(t, d)
      PROVE  Signals'
  BY <1>1, <1>9, SignalsStay
  DEF PollReturns, PollTimesOut, AllReaped, ReapTransfer, signals, polling
<1> QED
  BY <1>2, <1>3, <1>4, <1>5, <1>6, <1>7, <1>8, <1>9 DEF Next, Step, Handling, Closing

-----------------------------------------------------------------------------
\* While a thread owns events_lock, nobody else closes a device.
LEMMA PolledStep ==
  ASSUME IInv, Next
  PROVE  ClosedNotPolled'
<1> DEFINE At == {"poll", "trigger", "reap"}
<1>1. ASSUME NEW t \in Thread, HandleEvents(t) PROVE ClosedNotPolled'
  <2>1. \A s \in Thread \ {t} : pc[s] \notin At /\ pc'[s] = pc[s]
    BY <1>1 DEF HandleEvents, Go, IInv, TypeOK, Owner, Owning
  <2>2. pc'[t] = "poll" => polled' = sources'
    BY <1>1 DEF HandleEvents, Go, IInv, TypeOK, Stale
  <2>3. pc'[t] \in {"poll", "unlock"}
    BY <1>1 DEF HandleEvents, Go, IInv, TypeOK
  <2> QED
    BY <2>1, <2>2, <2>3 DEF ClosedNotPolled
<1>2. ASSUME NEW t \in Thread, DoClose(t) PROVE ClosedNotPolled'
  <2>1. \A s \in Thread : pc[s] \notin At
    BY <1>2 DEF DoClose, Go, IInv, Owner, Owning
  <2>2. \A s \in Thread : pc'[s] \notin At
    BY <1>2, <2>1 DEF DoClose, Go, IInv, TypeOK
  <2> QED
    BY <2>2 DEF ClosedNotPolled
<1>3. ASSUME NEW t \in Thread, polled' = polled, sources \subseteq sources',
             \A s \in Thread : pc'[s] \in At => pc[s] \in At
      PROVE  ClosedNotPolled'
  BY <1>3 DEF IInv, ClosedNotPolled
<1>4. ASSUME NEW t \in Thread,
             \/ Open(t) \/ Submit(t) \/ (\E d \in Thread : CloseBegins(t, d)) \/ TransferOver(t) \/ Unlock(t) \/ Interrupt(t)
             \/ UrbsComplete(t) \/ TimePasses(t) \/ CloseLocks(t) \/ CloseEnds(t)
      PROVE  ClosedNotPolled'
  BY <1>3, <1>4
  DEF IInv, TypeOK, Open, AddSource, Submit, CloseBegins, TransferOver, Unlock, Interrupt,
      UrbsComplete, TimePasses, CloseLocks, CloseEnds, Go, polling
<1>5. ASSUME NEW t \in Thread, Waiting(t) PROVE ClosedNotPolled'
  BY <1>3, <1>5
  DEF IInv, TypeOK, Waiting, NextTimeout, TryLock, LockOrWait, WaitForEvent, WaitExpires, Expired, Go,
      polling
<1>6. ASSUME NEW t \in Thread, Broadcast(t) PROVE ClosedNotPolled'
  BY <1>3, <1>6 DEF IInv, TypeOK, Broadcast, Wake, polling
<1>7. ASSUME NEW t \in Thread,
             \/ PollReturns(t) \/ PollTimesOut(t) \/ EventTrigger(t) \/ AllReaped(t)
             \/ \E d \in Thread : ReapTransfer(t, d)
      PROVE  ClosedNotPolled'
  BY <1>3, <1>7
  DEF IInv, TypeOK, PollReturns, PollTimesOut, EventTrigger, AllReaped, ReapTransfer, Go, polling
<1> QED
  BY <1>1, <1>2, <1>4, <1>5, <1>6, <1>7 DEF Next, Step, Handling, Closing

-----------------------------------------------------------------------------
\* Whoever stops being the one to wake the sleepers hands that on or wakes them.
Waker(t) == handler = t \/ pc[t] \in {"unlock", "broadcast", "closing"}
\* As long as nobody else goes to sleep and whoever wakes the sleepers still will.
LEMMA WakerKept ==
  ASSUME SleeperHasWaker, \A s \in Thread : Waker(s) => Waker(s)',
         \A s \in Thread : pc'[s] = "asleep" => pc[s] = "asleep"
  PROVE  SleeperHasWaker'
  BY DEF SleeperHasWaker, Waker

\* Every step leaves the sleepers somebody to wake them.
LEMMA WakerStep ==
  ASSUME IInv, Next
  PROVE  SleeperHasWaker'
<1>1. ASSUME NEW t \in Thread,
             \/ Open(t) \/ Submit(t) \/ TransferOver(t) \/ Interrupt(t) \/ UrbsComplete(t)
             \/ TimePasses(t) \/ (\E d \in Thread : CloseBegins(t, d)) \/ DoClose(t) \/ CloseEnds(t)
      PROVE  SleeperHasWaker'
  BY <1>1, WakerKept
  DEF IInv, TypeOK, Waker, Open, Submit, TransferOver, Interrupt, UrbsComplete, TimePasses,
      CloseBegins, DoClose, CloseEnds, Go
<1>2. ASSUME NEW t \in Thread, LockOrWait(t) \/ CloseLocks(t) PROVE SleeperHasWaker'
  BY <1>2, WakerKept, ThreadAssumption DEF IInv, TypeOK, Waker, LockOrWait, CloseLocks, CloseLockFree, Go
<1>3. ASSUME NEW t \in Thread,
             NextTimeout(t) \/ TryLock(t) \/ WaitExpires(t) \/ Expired(t) \/ Handling(t)
      PROVE  SleeperHasWaker'
  BY <1>3, WakerKept
  DEF IInv, TypeOK, Waker, NextTimeout, TryLock, WaitExpires, Expired, Handling, HandleEvents,
      PollReturns, PollTimesOut, EventTrigger, ReapTransfer, AllReaped, Go
<1>4. ASSUME NEW t \in Thread, WaitForEvent(t) PROVE SleeperHasWaker'
  <2>1. CASE pc'[t] # "asleep"
    BY <1>4, <2>1, WakerKept DEF IInv, TypeOK, Waker, WaitForEvent, Go
  <2>2. CASE HandlerActive
    <3>1. \E s \in Thread : Waker(s)
      <4>1. CASE handler # Nobody
        BY <4>1 DEF IInv, TypeOK, Waker
      <4>2. CASE closing > 0
        <5>1. PICK s \in Thread : pc[s] \in {"closing", "do_close", "closed"}
          BY <4>2, CountZero DEF IInv, Closers
        <5> QED
          BY <5>1 DEF IInv, Owner, Owning, Waker
      <4> QED
        BY <2>2, <4>1, <4>2 DEF HandlerActive
    <3>2. \A s \in Thread : Waker(s) => Waker(s)'
      BY <1>4 DEF IInv, TypeOK, Waker, WaitForEvent, Go
    <3> QED
      BY <3>1, <3>2 DEF SleeperHasWaker, Waker
  <2> QED
    BY <1>4, <2>1, <2>2 DEF WaitForEvent, Go, IInv, TypeOK
<1>5. ASSUME NEW t \in Thread, Unlock(t) PROVE SleeperHasWaker'
  BY <1>5 DEF IInv, TypeOK, SleeperHasWaker, Unlock, Go
<1>6. ASSUME NEW t \in Thread, Broadcast(t) PROVE SleeperHasWaker'
  <2>1. \A s \in Thread : pc'[s] # "asleep"
    BY <1>6 DEF IInv, TypeOK, Broadcast, Wake
  <2> QED
    BY <2>1 DEF SleeperHasWaker
<1> QED
  BY <1>1, <1>2, <1>3, <1>4, <1>5, <1>6 DEF Next, Step, Waiting, Closing

-----------------------------------------------------------------------------
\* Types: device_close needs Counted, the pipe the guard on reading it.
LEMMA TypeStep ==
  ASSUME IInv, Next
  PROVE  TypeOK'
<1>1. closing' \in 0 .. Cardinality(Thread)
  <2>1. IsFiniteSet(Closers') /\ Cardinality(Closers') <= Cardinality(Thread)
    BY ThreadAssumption, FS_Subset DEF Closers
  <2>2. Cardinality(Closers') \in Nat /\ Cardinality(Thread) \in Nat
    BY <2>1, ThreadAssumption, FS_CardinalityType
  <2> QED
    BY <2>1, <2>2, OwnerStep DEF Counted
<1>2. pipe' \in Nat /\ flags' \subseteq {"sources", "close", "interrupt"}
  <2>1. PipeMatchesFlags'
    BY SignalStep DEF Signals
  <2>2. pipe' \in Nat
    BY <2>1 DEF PipeMatchesFlags
  <2>3. \/ flags' \subseteq flags
        \/ flags' = flags \cup {"sources"} \/ flags' = flags \cup {"close"}
        \/ flags' = flags \cup {"interrupt"}
    <3>1. CASE \E t \in Thread : Waiting(t)
      BY <3>1 DEF Waiting, NextTimeout, TryLock, LockOrWait, WaitForEvent, WaitExpires, Expired,
                  signals
    <3>2. CASE \E t \in Thread : Handling(t)
      BY <3>2 DEF Handling, HandleEvents, PollReturns, PollTimesOut, EventTrigger, AllReaped,
                  ReapTransfer, Lower, signals
    <3>3. CASE \E t \in Thread : Closing(t)
      BY <3>3 DEF Closing, CloseLocks, DoClose, CloseEnds, Raise, Lower, signals
    <3>4. CASE \E t \in Thread : \/ Open(t) \/ Submit(t) \/ (\E d \in Thread : CloseBegins(t, d)) \/ TransferOver(t)
                                 \/ Unlock(t) \/ Broadcast(t)
                                 \/ Interrupt(t) \/ UrbsComplete(t) \/ TimePasses(t)
      BY <3>4 DEF Open, AddSource, Submit, CloseBegins, TransferOver, Unlock, Broadcast, Interrupt,
                  UrbsComplete, TimePasses, Raise, signals
    <3> QED
      BY <3>1, <3>2, <3>3, <3>4 DEF Next, Step
  <2> QED
    BY <2>2, <2>3 DEF IInv, TypeOK
<1>3. pc' \in [Thread -> {"new", "idle", "begin", "loop", "try", "lock", "wait", "asleep", "expired",
                          "handle", "poll", "timeouts", "trigger", "reap", "unlock", "broadcast",
                          "closing", "do_close", "closed", "end"}]
      /\ handler' \in Thread \cup {Nobody}
  <2>1. CASE \E t \in Thread : Waiting(t)
    BY <2>1 DEF IInv, TypeOK, Waiting, NextTimeout, TryLock, LockOrWait, WaitForEvent, WaitExpires,
                Expired, Go
  <2>2. CASE \E t \in Thread : Handling(t)
    BY <2>2 DEF IInv, TypeOK, Handling, HandleEvents, PollReturns, PollTimesOut, EventTrigger,
                AllReaped, ReapTransfer, Go
  <2>3. CASE \E t \in Thread : Closing(t) \/ Unlock(t) \/ Broadcast(t)
    BY <2>3 DEF IInv, TypeOK, Closing, CloseLocks, DoClose, CloseEnds, Unlock, Broadcast, Wake, Go
  <2>4. CASE \E t \in Thread : \/ Open(t) \/ Submit(t) \/ (\E d \in Thread : CloseBegins(t, d)) \/ TransferOver(t)
                               \/ Interrupt(t) \/ UrbsComplete(t) \/ TimePasses(t)
    BY <2>4 DEF IInv, TypeOK, Open, Submit, CloseBegins, TransferOver, Interrupt, UrbsComplete,
                TimePasses, Go
  <2> QED
    BY <2>1, <2>2, <2>3, <2>4 DEF Next, Step
<1>4. /\ \A S \in {sources', polled', seen', flying', ready', late', handled', completed',
                dropped'} :
           S \subseteq Thread
      /\ bell' \in [Thread -> Thread \cup {Nobody}] /\ closes' \in [Thread -> Thread \cup {Nobody}]
      /\ rounds' \in [Thread -> 0 .. Rounds] /\ interrupts' \in 0 .. Interrupts
  <2> USE ThreadAssumption, BoundAssumption DEF transfers, signals, polling, bounds
  <2>1. CASE \E t \in Thread : Waiting(t)
    BY <2>1 DEF IInv, TypeOK, Waiting, NextTimeout, TryLock, LockOrWait, WaitForEvent, WaitExpires,
                Expired, HandleTimeouts, Bells, Running
  <2>2. CASE \E t \in Thread : Handling(t)
    BY <2>2 DEF IInv, TypeOK, Handling, HandleEvents, PollReturns, PollTimesOut, EventTrigger,
                AllReaped, ReapTransfer, HandleTimeouts, Running, Events
  <2>3. CASE \E t \in Thread : Closing(t) \/ Unlock(t) \/ Broadcast(t)
    BY <2>3 DEF IInv, TypeOK, Closing, CloseLocks, DoClose, CloseEnds, Unlock, Broadcast
  <2>4. CASE \E t \in Thread : \/ Open(t) \/ Submit(t) \/ (\E d \in Thread : CloseBegins(t, d)) \/ TransferOver(t)
                               \/ Interrupt(t) \/ UrbsComplete(t) \/ TimePasses(t)
    BY <2>4 DEF IInv, TypeOK, Open, AddSource, Submit, CloseBegins, TransferOver, Interrupt,
                UrbsComplete, TimePasses
  <2> QED
    BY <2>1, <2>2, <2>3, <2>4 DEF Next, Step
<1> QED
  BY <1>1, <1>2, <1>3, <1>4 DEF TypeOK

-----------------------------------------------------------------------------
\* The invariant holds of every behaviour.
THEOREM Inductive == Spec => []IInv
<1>1. IInv /\ [Next]_vars => IInv'
  <2>1. ASSUME IInv, Next PROVE IInv'
    BY <2>1, TypeStep, OwnerStep, SignalStep, PolledStep, WakerStep DEF IInv, Signals
  <2>2. ASSUME IInv, UNCHANGED vars PROVE IInv'
    BY <2>2
    DEF IInv, TypeOK, Owner, Counted, Closers, Flagged, PipeMatchesFlags, Stale, ClosedNotPolled,
        SleeperHasWaker, vars, signals, polling, transfers, bounds
  <2> QED
    BY <2>1, <2>2
<1> QED
  BY <1>1, InitInv, PTL DEF Spec

\* Every variable keeps its type; in particular device_close never exceeds the
\* number of threads.
THEOREM TypeCorrect == Spec => []TypeOK
<1>1. IInv => TypeOK
  BY DEF IInv
<1> QED
  BY <1>1, Inductive, PTL

\* The event pipe holds one message while a flag is up and none otherwise, so
\* that reading it never blocks and poll is interrupted when it has to be.
THEOREM PipeIsExact == Spec => []PipeMatchesFlags
<1>1. IInv => PipeMatchesFlags
  BY DEF IInv
<1> QED
  BY <1>1, Inductive, PTL

\* No wake-up is lost: a thread that sleeps on event_waiters_cond has another
\* that owns the event lock, is about to broadcast or is closing a device.
THEOREM NoLostWakeUp == Spec => []SleeperHasWaker
<1>1. IInv => SleeperHasWaker
  BY DEF IInv
<1> QED
  BY <1>1, Inductive, PTL

\* The handler polls every open device, or its poll is about to be interrupted.
THEOREM AllPolled == Spec => []PollsAllDevices
<1>1. IInv => PollsAllDevices
  BY DEF IInv, Stale, PipeMatchesFlags, PollsAllDevices
<1> QED
  BY <1>1, Inductive, PTL

\* No thread polls or reaps on a device that has been closed.
THEOREM NoneClosedPolled == Spec => []ClosedNotPolled
<1>1. IInv => ClosedNotPolled
  BY DEF IInv
<1> QED
  BY <1>1, Inductive, PTL
=============================================================================
