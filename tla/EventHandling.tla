--------------------------- MODULE EventHandling ----------------------------
(***************************************************************************)
(* How the threads of a libusb context share the work of handling events.  *)
(* A reader opens a device, runs synchronous transfers on it one after the *)
(* other and closes it again.  While its transfer is out, it handles the   *)
(* events of the whole context if no other thread does, and sleeps on      *)
(* event_waiters_cond otherwise; closing a device makes the handler step   *)
(* aside.  A thread without a device may close the one of a reader, as     *)
(* startDriver does with the session it finds in g_dev; the reader may be  *)
(* in the middle of a transfer, which is dropped.  What is done with a     *)
(* device that is closed is undefined and left out.  A thread closes one   *)
(* device at most, which is a bound.                                       *)
(*                                                                         *)
(* Sections under event_data_lock, flying_transfers_lock and               *)
(* event_waiters_lock are single steps.  events_lock is held from step to  *)
(* step by `handler'; event_handler_active, which is set and cleared by    *)
(* its owner only, is that it has one.  A transfer's own life is           *)
(* UsbTransfer's subject: here it is in the kernel, ready to be reaped, or *)
(* over.  The 60 seconds after which every wait ends anyway are left out,  *)
(* so that each wait must be ended by what it waits for.                   *)
(***************************************************************************)
EXTENDS Naturals, FiniteSets

CONSTANTS
  Thread,      \* the threads that use the context
  Reader,      \* those that open a device and run transfers on it; the others
               \* interrupt the event handler and close a device of a reader
  Timed,       \* those whose transfers have a time-out
  Nobody,      \* no thread
  Rounds,      \* bound: transfers of a thread
  Interrupts   \* bound: calls of libusb_interrupt_event_handler

ASSUME ThreadAssumption ==
  /\ IsFiniteSet(Thread) /\ Nobody \notin Thread
  /\ Reader \subseteq Thread /\ Timed \subseteq Reader
ASSUME BoundAssumption == Rounds \in Nat /\ Interrupts \in Nat

VARIABLES
  pc,         \* where each thread is
  handler,    \* owner of events_lock
  closing,    \* device_close: closes in progress
  closes,     \* whose device each thread is closing
  flags,      \* event_flags
  pipe,       \* messages in the event pipe
  sources,    \* event_sources: the devices that are open
  polled,     \* event_data: the devices handed to poll
  seen,       \* devices for which poll has reported an event, to be dealt with
  flying,     \* threads whose transfer is on flying_transfers
  ready,      \* those whose URBs wait to be reaped
  late,       \* those whose time-out has passed
  handled,    \* those with USBI_TRANSFER_TIMEOUT_HANDLED
  completed,  \* those whose completed flag is set
  dropped,    \* those whose transfer lost its dev_handle: do_close
  bell,       \* the transfer whose time-out bounds each thread's wait
  rounds, interrupts

transfers == <<flying, ready, late, handled, completed, dropped>>
signals   == <<closing, closes, flags, pipe>>
polling   == <<sources, polled, seen>>
bounds    == <<rounds, interrupts>>
vars == <<pc, handler, signals, polling, transfers, bell, bounds>>

\* Nobody has opened a device.
Init ==
  /\ pc = [t \in Thread |-> IF t \in Reader THEN "new" ELSE "idle"] /\ handler = Nobody
  /\ closing = 0 /\ closes = [t \in Thread |-> Nobody] /\ flags = {} /\ pipe = 0
  /\ sources = {} /\ polled = {} /\ seen = {}
  /\ flying = {} /\ ready = {} /\ late = {} /\ handled = {} /\ completed = {}
  /\ dropped = {}
  /\ bell = [t \in Thread |-> Nobody]
  /\ rounds = [t \in Thread |-> 0] /\ interrupts = 0

Go(t, from, to) == pc[t] = from /\ pc' = [pc EXCEPT ![t] = to]

-----------------------------------------------------------------------------
(* The event pipe.  It is written when the first flag is raised and read   *)
(* when the last is cleared; its read end blocks while it is empty.        *)

\* Variant: the pipe is written for every flag.
RaiseAlways(f) == flags' = flags \cup {f} /\ pipe' = pipe + 1
Raise(f) == /\ flags' = flags \cup {f}
            /\ pipe' = IF flags = {} THEN pipe + 1 ELSE pipe

Lower(f) == /\ flags' = flags \ f
            /\ flags' = {} => pipe > 0
            /\ pipe' = IF flags' = {} THEN pipe - 1 ELSE pipe

Interrupt(t) ==
  /\ pc[t] = "idle" /\ t \notin Reader
  /\ interrupts < Interrupts /\ interrupts' = interrupts + 1
  /\ Raise("interrupt")
  /\ UNCHANGED <<pc, handler, closing, closes, polling, transfers, bell, rounds>>

-----------------------------------------------------------------------------
(* A thread's calls: open, transfer, close.                                *)

\* Variant: nobody is told that there is a new device.
AddSourceQuietly(t) == sources' = sources \cup {t} /\ UNCHANGED <<flags, pipe>>
AddSource(t) == sources' = sources \cup {t} /\ Raise("sources")

Open(t) ==
  /\ Go(t, "new", "idle") /\ AddSource(t)
  /\ UNCHANGED <<handler, closing, closes, polled, seen, transfers, bell, bounds>>

BeingClosed == {closes[t] : t \in Thread}

Submit(t) ==
  /\ Go(t, "idle", "begin") /\ t \in Reader \cap sources /\ rounds[t] < Rounds
  /\ rounds' = [rounds EXCEPT ![t] = @ + 1]
  /\ flying' = flying \cup {t}
  /\ UNCHANGED <<handler, signals, polling, ready, late, handled, completed, dropped, bell,
                 interrupts>>

\* sync_transfer_wait_for_completion: the transfer is freed when it is over, or
\* has no dev_handle any more, which is looked at when events have been handled.
TransferOver(t) ==
  /\ t \in completed \cup dropped /\ Go(t, "loop", "idle")
  /\ late' = late \ {t} /\ handled' = handled \ {t}
  /\ completed' = completed \ {t} /\ dropped' = dropped \ {t}
  /\ bell' = [bell EXCEPT ![t] = Nobody]
  /\ UNCHANGED <<handler, signals, polling, flying, ready, bounds>>

-----------------------------------------------------------------------------
(* libusb_handle_events_completed.                                         *)

Running == {t \in flying \cap Timed : t \notin handled}

HandleTimeouts ==
  /\ handled' = handled \cup (Running \cap late)
  /\ ready' = ready \cup (Running \cap late)    \* the URBs are discarded, hence ready

\* Variant: no time-out bounds the wait.
BellsNone == {Nobody}
Bells == IF Running = {} THEN {Nobody} ELSE Running

\* get_next_timeout: a time-out that has passed is handled at once, otherwise
\* one that has not bounds the wait.
NextTimeout(t) ==
  /\ pc[t] = "begin" \/ (pc[t] = "loop" /\ t \notin completed \cup dropped)
  /\ \/ /\ Running \cap late # {} /\ HandleTimeouts /\ Go(t, pc[t], "loop")
        /\ UNCHANGED bell
     \/ /\ Running \cap late = {} /\ Go(t, pc[t], "try")
        /\ \E b \in Bells : bell' = [bell EXCEPT ![t] = b]
        /\ UNCHANGED <<handled, ready>>
  /\ UNCHANGED <<handler, signals, polling, flying, late, completed, dropped, bounds>>

\* Variant: whoever comes first gets the lock.
StepAsideNever == FALSE
\* libusb_try_lock_events: leave it to a thread that wants to close a device.
StepAside == closing > 0

TryLock(t) ==
  /\ \/ StepAside /\ Go(t, "try", "wait")
     \/ ~StepAside /\ Go(t, "try", "lock")
  /\ UNCHANGED <<handler, signals, polling, transfers, bell, bounds>>

LockOrWait(t) ==
  /\ \/ handler = Nobody /\ handler' = t /\ Go(t, "lock", "handle")
     \/ handler # Nobody /\ Go(t, "lock", "wait") /\ UNCHANGED handler
  /\ UNCHANGED <<signals, polling, transfers, bell, bounds>>

HandlerActive == handler # Nobody \/ closing > 0

\* Under event_waiters_lock: done, try again, or sleep.
WaitForEvent(t) ==
  /\ \/ t \in completed /\ Go(t, "wait", "loop")
     \/ t \notin completed /\ ~HandlerActive /\ Go(t, "wait", "try")
     \/ t \notin completed /\ HandlerActive /\ Go(t, "wait", "asleep")
  /\ UNCHANGED <<handler, signals, polling, transfers, bell, bounds>>

\* The wait times out: libusb_wait_for_event returns 1.
WaitExpires(t) ==
  /\ bell[t] \in late /\ Go(t, "asleep", "expired")
  /\ UNCHANGED <<handler, signals, polling, transfers, bell, bounds>>

Expired(t) ==
  /\ Go(t, "expired", "loop") /\ HandleTimeouts
  /\ UNCHANGED <<handler, signals, polling, flying, late, completed, dropped, bell, bounds>>

-----------------------------------------------------------------------------
(* handle_events, by the owner of events_lock.                             *)

HandleEvents(t) ==
  /\ handler = t
  /\ \/ t \in completed /\ Go(t, "handle", "unlock") /\ UNCHANGED <<flags, pipe, polled>>
     \/ /\ t \notin completed /\ Go(t, "handle", "poll")
        /\ \/ "sources" \in flags /\ Lower({"sources"}) /\ polled' = sources
           \/ "sources" \notin flags /\ UNCHANGED <<flags, pipe, polled>>
  /\ UNCHANGED <<handler, closing, closes, sources, seen, transfers, bell, bounds>>

Events == polled \cap ready

PollReturns(t) ==
  /\ \/ /\ pipe > 0 /\ Go(t, "poll", "trigger") /\ seen' = Events
     \/ /\ pipe = 0 /\ Events # {} /\ Go(t, "poll", "reap") /\ seen' = Events
     \/ /\ pipe = 0 /\ Events = {} /\ bell[t] \in late /\ Go(t, "poll", "timeouts")
        /\ UNCHANGED seen
  /\ UNCHANGED <<handler, signals, sources, polled, transfers, bell, bounds>>

PollTimesOut(t) ==
  /\ Go(t, "timeouts", "unlock") /\ HandleTimeouts
  /\ UNCHANGED <<handler, signals, polling, flying, late, completed, dropped, bell, bounds>>

\* handle_event_trigger clears the interrupt; the other flags stay, and with
\* them the message in the pipe.
EventTrigger(t) ==
  /\ Go(t, "trigger", "reap") /\ Lower({"interrupt"})
  /\ UNCHANGED <<handler, closing, closes, polling, transfers, bell, bounds>>

\* op_handle_events: reap, complete, call back.
ReapTransfer(t, d) ==
  /\ pc[t] = "reap" /\ d \in seen
  /\ seen' = seen \ {d}
  /\ ready' = ready \ {d} /\ flying' = flying \ {d} /\ completed' = completed \cup {d}
  /\ UNCHANGED <<pc, handler, signals, sources, polled, late, handled, dropped, bell,
                 bounds>>

AllReaped(t) ==
  /\ seen = {} /\ Go(t, "reap", "unlock")
  /\ UNCHANGED <<handler, signals, polling, transfers, bell, bounds>>

-----------------------------------------------------------------------------
(* libusb_unlock_events: the lock first, then the broadcast.               *)

Unlock(t) ==
  /\ Go(t, "unlock", "broadcast") /\ handler' = Nobody
  /\ UNCHANGED <<signals, polling, transfers, bell, bounds>>

\* Variant: nobody is told.
WakeNobody(p) == p
Wake(p) == [s \in Thread |-> IF p[s] = "asleep" THEN "loop" ELSE p[s]]

Broadcast(t) ==
  /\ pc[t] = "broadcast"
  /\ pc' = [Wake(pc) EXCEPT ![t] = IF closes[t] = Nobody THEN "loop" ELSE "end"]
  /\ closes' = [closes EXCEPT ![t] = Nobody]
  /\ bell' = [s \in Thread |-> IF pc'[s] = "loop" THEN Nobody ELSE bell[s]]
  /\ UNCHANGED <<handler, closing, flags, pipe, polling, transfers, bounds>>

-----------------------------------------------------------------------------
(* libusb_close.                                                           *)

CloseBegins(t, d) ==
  /\ Go(t, "idle", "closing")
  /\ d = t \/ t \notin Reader
  /\ d \in sources \ BeingClosed
  /\ closes' = [closes EXCEPT ![t] = d]
  /\ closing' = closing + 1
  /\ IF closing = 0 THEN Raise("close")
     ELSE flags' = flags /\ pipe' = IF flags = {} THEN pipe + 1 ELSE pipe
  /\ UNCHANGED <<handler, polling, transfers, bell, bounds>>

\* Variant: the handle is closed beside the event handler.
CloseLockNone == TRUE
\* libusb_lock_events.
CloseLockFree == handler = Nobody

CloseLocks(t) ==
  /\ Go(t, "closing", "do_close") /\ CloseLockFree
  /\ handler' = t
  /\ UNCHANGED <<signals, polling, transfers, bell, bounds>>

\* do_close: the transfer that is in flight loses its dev_handle.
DoClose(t) ==
  /\ Go(t, "do_close", "closed")
  /\ dropped' = dropped \cup (flying \cap {closes[t]})
  /\ flying' = flying \ {closes[t]} /\ ready' = ready \ {closes[t]}
  /\ sources' = sources \ {closes[t]} /\ Raise("sources")
  /\ UNCHANGED <<handler, closing, closes, polled, seen, late, handled, completed, bell, bounds>>

CloseEnds(t) ==
  /\ Go(t, "closed", "unlock")
  /\ closing' = closing - 1
  /\ Lower(IF closing = 1 THEN {"close"} ELSE {})
  /\ UNCHANGED <<handler, closes, polling, transfers, bell, bounds>>

-----------------------------------------------------------------------------
(* The kernel and the clock.                                               *)

UrbsComplete(t) ==
  /\ t \in flying \ ready
  /\ ready' = ready \cup {t}
  /\ UNCHANGED <<pc, handler, signals, polling, flying, late, handled, completed, dropped, bell,
                 bounds>>

TimePasses(t) ==
  /\ t \in (flying \cap Timed) \ late
  /\ late' = late \cup {t}
  /\ UNCHANGED <<pc, handler, signals, polling, flying, ready, handled, completed, dropped, bell,
                 bounds>>

-----------------------------------------------------------------------------

Handling(t) == \/ HandleEvents(t) \/ PollReturns(t) \/ PollTimesOut(t) \/ EventTrigger(t)
               \/ AllReaped(t) \/ \E d \in Thread : ReapTransfer(t, d)
Waiting(t)  == \/ NextTimeout(t) \/ TryLock(t) \/ LockOrWait(t) \/ WaitForEvent(t)
               \/ WaitExpires(t) \/ Expired(t)
Closing(t)  == CloseLocks(t) \/ DoClose(t) \/ CloseEnds(t)

\* A step that a thread takes once it has begun a call.
Step(t) == TransferOver(t) \/ Handling(t) \/ Waiting(t) \/ Closing(t) \/ Unlock(t) \/ Broadcast(t)

Next == \/ \E t \in Thread : Open(t) \/ Submit(t) \/ Step(t)
        \/ \E t, d \in Thread : CloseBegins(t, d)
        \/ \E t \in Thread : Interrupt(t) \/ UrbsComplete(t) \/ TimePasses(t)

Spec == Init /\ [][Next]_vars

\* Threads run and time passes; the mutexes need not be fair.
FairSpec == /\ Spec
            /\ \A t \in Thread : WF_vars(Step(t)) /\ WF_vars(TimePasses(t))

-----------------------------------------------------------------------------
TypeOK ==
  /\ pc \in [Thread -> {"new", "idle", "begin", "loop", "try", "lock", "wait", "asleep", "expired",
                        "handle", "poll", "timeouts", "trigger", "reap", "unlock", "broadcast",
                        "closing", "do_close", "closed", "end"}]
  /\ handler \in Thread \cup {Nobody}
  /\ closing \in 0 .. Cardinality(Thread) /\ closes \in [Thread -> Thread \cup {Nobody}]
  /\ flags \subseteq {"sources", "close", "interrupt"}
  /\ pipe \in Nat
  /\ \A S \in {sources, polled, seen, flying, ready, late, handled, completed, dropped} :
       S \subseteq Thread
  /\ bell \in [Thread -> Thread \cup {Nobody}]
  /\ rounds \in [Thread -> 0 .. Rounds] /\ interrupts \in 0 .. Interrupts

\* The pipe holds one message while a flag is up, and none otherwise.  One too
\* few and usbi_clear_event would block with event_data_lock held; one too many
\* and poll would never wait again.
PipeMatchesFlags == pipe = IF flags = {} THEN 0 ELSE 1

\* A thread that sleeps on event_waiters_cond has somebody to wake it: an event
\* handler, a thread about to broadcast, or one that is closing a device.
SleeperHasWaker ==
  (\E t \in Thread : pc[t] = "asleep") =>
    \E t \in Thread : handler = t \/ pc[t] \in {"unlock", "broadcast", "closing"}

\* While a thread polls, every open device is polled, or the poll is about to be
\* interrupted because one was opened or closed.
PollsAllDevices ==
  \A t \in Thread : pc[t] = "poll" => polled = sources \/ pipe > 0

\* No thread polls or reaps on a device that has been closed, whose descriptor
\* number may by then belong to another file.
ClosedNotPolled ==
  \A t \in Thread : pc[t] \in {"poll", "trigger", "reap"} => polled \subseteq sources

Calling(t) == pc[t] \notin {"new", "idle", "end"}

\* A transfer whose URBs the kernel has given back, or that has a time-out,
\* returns to its caller, whoever handles the events; unless it is dropped
\* because another thread closes its device: a thread that is about to handle
\* events then may do so for the 60 seconds before it looks.
TransferReturns ==
  \A t \in Reader :
    (t \in flying /\ (t \in ready \/ t \in Timed)) ~> (~Calling(t) \/ t \in dropped)

\* libusb_close returns although other threads want to go on handling events.
CloseReturns == \A t \in Thread : pc[t] = "closing" ~> ~Calling(t)
=============================================================================
