---------------------------- MODULE UsbTransfer -----------------------------
(***************************************************************************)
(* One bulk-IN transfer of libusb on Linux, from libusb_bulk_transfer down *)
(* to the URBs of usbfs: submission (split into several URBs where the     *)
(* kernel's capabilities ask for it), reaping, time-out, cancellation,     *)
(* unplugging, and the completion that lets the caller free the transfer.  *)
(*                                                                         *)
(* Four parties work on it: the caller, the thread that handles events,    *)
(* whichever thread finds that the time-out has passed, and the kernel.    *)
(* They share the transfer under two locks, itransfer->lock (itLock) and   *)
(* ctx->flying_transfers_lock.  Only the thread in handle_timeouts keeps   *)
(* the second one from one step to the next: FlyingFree.                   *)
(*                                                                         *)
(* A fifth one may take the device away: startDriver closes the session it *)
(* finds in g_dev, which may be that of another thread, and that thread is *)
(* here then.                                                              *)
(***************************************************************************)
EXTENDS Naturals, Sequences, FiniteSets

CONSTANTS
  Length,      \* bytes asked for by each transfer
  UrbLength,   \* MAX_BULK_BUFFER_LENGTH, the limit on a URB without scatter-gather
  PacketSize,  \* wMaxPacketSize of the endpoint
  Rounds,      \* bound: transfers one after the other
  Modes        \* how the kernel takes large transfers: "whole", "continuation", "plain"

ASSUME TransferAssumption ==
  /\ Length \in Nat \ {0} /\ UrbLength \in Nat \ {0} /\ PacketSize \in Nat \ {0}
  /\ Rounds \in Nat
  /\ UrbLength % PacketSize = 0
  /\ Modes \subseteq {"whole", "continuation", "plain"}

VARIABLES
  mode, reapCap,            \* hpriv->caps: splitting, REAP_AFTER_DISCONNECT
  user, timer, handler,     \* where the caller, the timing-out thread and the event thread are
  path,                     \* event thread: plain "events", "drain" after POLLERR, or "sweep"
  current,                  \* the URB the event thread has reaped
  outcome,                  \* the status usbi_handle_transfer_completion is called with
  itLock, cursor, found,    \* itransfer->lock; its owner's loop in discard_urbs: next URB, result 0
  inFlight, cancelling, timeout, listed,   \* state_flags, timeout_flags, on flying_transfers
  transferred, buffer,      \* itransfer->transferred, transfer->buffer
  allocated, retired, reapAction, reapStatus,   \* linux_transfer_priv
  completed, status,        \* user_data and transfer->status
  urb, done,                \* usbfs: the URBs, and those to be reaped, in order of completion
  connected, halted, refusing, removed,    \* adapter, endpoint, usbfs endpoint, fd no longer polled
  handle,                   \* the libusb_device_handle: "open", "releasing", "closed"
  sent, given, short, cancelledBy, round   \* bytes taken and handed over; history and bound

device  == <<mode, reapCap, connected, halted, refusing>>
history == <<sent, given, short, cancelledBy, round>>
tpriv   == <<allocated, retired, reapAction, reapStatus>>
flags   == <<inFlight, cancelling, timeout, listed>>
event   == <<handler, path, current, outcome, removed>>
result  == <<completed, status>>
data    == <<transferred, buffer>>
kernel  == <<urb, done>>
locking == <<itLock, cursor, found>>
transfer == <<device, history, tpriv, flags, event, result, data, kernel, locking, user, timer>>
vars == <<transfer, handle>>

-----------------------------------------------------------------------------
(* URBs.                                                                   *)

BulkBufferLen == IF mode = "whole" THEN Length ELSE UrbLength
NumUrbs == (Length + BulkBufferLen - 1) \div BulkBufferLen
UrbLen(i) == IF i < NumUrbs \/ Length % BulkBufferLen = 0
             THEN BulkBufferLen ELSE Length % BulkBufferLen
Offset(i) == (i - 1) * BulkBufferLen

Fresh == [state |-> "unsent", status |-> "ok", from |-> 0, actual |-> 0]
MaxUrbs == (Length + UrbLength - 1) \div UrbLength
Bytes(u) == [k \in 1 .. u.actual |-> u.from + k]

\* The bytes of s written into the buffer after the first n.
Put(buf, n, s) == [k \in 1 .. Length |-> IF k \in n + 1 .. n + Len(s) THEN s[k - n] ELSE buf[k]]

Queued == {i \in 1 .. NumUrbs : urb[i].state = "queued"}
Heads  == {i \in Queued : \A j \in Queued : i <= j}
Later(i) == {j \in Queued : j > i}

Init ==
  /\ mode \in Modes /\ reapCap \in BOOLEAN
  /\ user = "idle" /\ timer = "idle" /\ handler = "poll" /\ path = "events"
  /\ current = 0 /\ outcome = "completed"
  /\ itLock = "none" /\ cursor = 0 /\ found = TRUE
  /\ inFlight = FALSE /\ cancelling = FALSE /\ timeout = "running" /\ listed = FALSE
  /\ transferred = 0 /\ buffer = [k \in 1 .. Length |-> 0]
  /\ allocated = FALSE /\ retired = 0 /\ reapAction = "normal" /\ reapStatus = "completed"
  /\ completed = FALSE /\ status = "completed"
  /\ urb = [i \in 1 .. MaxUrbs |-> Fresh] /\ done = <<>>
  /\ connected = TRUE /\ halted = FALSE /\ refusing = FALSE /\ removed = FALSE
  /\ handle = "open"
  /\ sent = 0 /\ given = 0 /\ short = FALSE /\ cancelledBy = "none" /\ round = 0

FlyingFree == timer = "idle"

-----------------------------------------------------------------------------
(* The kernel's side.  A URB is filled packet by packet, the first one in  *)
(* the queue first.  A URB that ends with an error takes the continuation  *)
(* URBs behind it along, and the endpoint then refuses further ones until  *)
(* a new transfer begins (USBFS_URB_BULK_CONTINUATION).                    *)

\* The one sequence of the members of S from the smallest to the largest.
Ascending(S) ==
  {s \in [1 .. Cardinality(S) -> S] : \A k, l \in DOMAIN s : k < l => s[k] < s[l]}

Ends(i, u) ==
  LET broken == mode = "continuation" /\ u.status # "ok"
      along  == IF broken THEN Later(i) ELSE {}
  IN  /\ urb' = [j \in DOMAIN urb |-> IF j = i THEN u
                   ELSE IF j \in along THEN [urb[j] EXCEPT !.state = "done", !.status = "cancelled"]
                   ELSE urb[j]]
      /\ \E later \in Ascending(along) : done' = done \o <<i>> \o later
      /\ refusing' = (refusing \/ broken)

Kernel == UNCHANGED <<mode, reapCap, given, cancelledBy, round, tpriv, flags, event,
                      result, data, locking, user, timer>>

Receive(i, n) ==
  /\ connected /\ ~halted /\ i \in Heads
  /\ LET room == UrbLen(i) - urb[i].actual
         u == [urb[i] EXCEPT !.from = IF urb[i].actual = 0 THEN sent ELSE @,
                             !.actual = IF n > room THEN UrbLen(i) ELSE @ + n]
         notOk == mode = "continuation" /\ i < NumUrbs   \* USBFS_URB_SHORT_NOT_OK
     IN  /\ sent' = sent + (u.actual - urb[i].actual)
         /\ short' = (short \/ n < PacketSize)
         /\ \/ /\ n > room
               /\ Ends(i, [u EXCEPT !.state = "done", !.status = "overflow"])
            \/ /\ n <= room /\ (n = room \/ n < PacketSize)
               /\ Ends(i, [u EXCEPT !.state = "done",
                             !.status = IF notOk /\ n < room THEN "remoteio" ELSE "ok"])
            \/ /\ n < room /\ n = PacketSize
               /\ urb' = [urb EXCEPT ![i] = u]
               /\ UNCHANGED <<done, refusing>>
  /\ Kernel /\ UNCHANGED <<connected, halted>>

Fault(i, s) ==
  /\ connected /\ i \in Heads
  /\ \/ s = "stall" /\ halted' = TRUE
     \/ s = "error" /\ ~halted /\ UNCHANGED halted
  /\ Ends(i, [urb[i] EXCEPT !.state = "done", !.status = s])
  /\ Kernel /\ UNCHANGED <<connected, sent, short>>

Unplug ==
  /\ connected /\ connected' = FALSE
  /\ urb' = [j \in DOMAIN urb |->
               IF j \in Queued THEN [urb[j] EXCEPT !.state = "done", !.status = "shutdown"]
               ELSE urb[j]]
  /\ \E later \in Ascending(Queued) : done' = done \o later
  /\ Kernel /\ UNCHANGED <<halted, refusing, sent, short>>

-----------------------------------------------------------------------------
(* discard_urbs, one ioctl at a time, last URB first, under itLock.  The   *)
(* result is 0 unless the device is gone or the last URB was not there.    *)

Kill(i) ==
  /\ urb' = [urb EXCEPT ![i].state = "done", ![i].status = "cancelled"]
  /\ done' = Append(done, i)

DiscardOne ==
  LET u == urb[cursor] IN
  /\ \/ /\ connected /\ u.state = "queued"
        /\ Kill(cursor) /\ UNCHANGED found
     \/ /\ connected /\ u.state # "queued"
        /\ found' = (found /\ cursor # NumUrbs)
        /\ UNCHANGED kernel
     \/ /\ ~connected
        /\ found' = FALSE
        /\ UNCHANGED kernel
  /\ cursor' = cursor - 1

-----------------------------------------------------------------------------
(* libusb_submit_transfer and submit_bulk_transfer.  The transfer is a new *)
(* one: Blank is what libusb_alloc_transfer and the resets at the start of *)
(* a submission leave, taken at once when the old transfer is freed.       *)

Blank ==
  /\ timeout' = "running" /\ cancelling' = FALSE
  /\ retired' = 0 /\ reapAction' = "normal" /\ reapStatus' = "completed"
  /\ transferred' = 0 /\ buffer' = [k \in 1 .. Length |-> 0]
  /\ completed' = FALSE /\ status' = "completed"
  /\ urb' = [i \in 1 .. MaxUrbs |-> Fresh]
  /\ short' = FALSE /\ cancelledBy' = "none"

Submit ==
  /\ user = "idle" /\ round < Rounds /\ handle # "closed"
  /\ FlyingFree /\ itLock = "none"
  /\ user' = "submit" /\ itLock' = "user" /\ cursor' = 1 /\ UNCHANGED found
  /\ listed' = TRUE /\ allocated' = TRUE
  /\ round' = round + 1
  /\ UNCHANGED <<device, sent, given, short, cancelledBy, retired, reapAction, reapStatus,
                 inFlight, cancelling, timeout, event, result, data, kernel, timer>>

Release == itLock' = "none" /\ cursor' = 0 /\ found' = TRUE
Flies == user' = "wait" /\ inFlight' = TRUE /\ Release

SubmitUrb ==
  /\ user = "submit" /\ connected
  /\ ~(mode = "continuation" /\ cursor > 1 /\ refusing)
  /\ urb' = [urb EXCEPT ![cursor].state = "queued"]
  /\ refusing' = (refusing /\ cursor > 1)
  /\ \/ cursor = NumUrbs /\ Flies
     \/ cursor < NumUrbs /\ cursor' = cursor + 1 /\ UNCHANGED <<user, inFlight, itLock, found>>
  /\ UNCHANGED <<mode, reapCap, connected, halted, history, tpriv, cancelling, timeout, listed,
                 event, result, data, done, timer>>

\* Variant: the URBs that were not submitted are not counted.
CountUnsentNone(i) == retired
\* The URBs that count as retired once URB i > 1 is refused: it and those after it.
CountUnsent(i) == retired + NumUrbs - i + 1

SubmitFails(errno) ==
  /\ user = "submit"
  /\ CASE errno = "nodev" -> ~connected
       [] errno = "remoteio" -> connected /\ mode = "continuation" /\ cursor > 1 /\ refusing
       [] errno = "nomem" -> connected
  /\ \/ /\ cursor = 1
        /\ allocated' = FALSE /\ Release /\ user' = "undo"
        /\ UNCHANGED <<retired, reapAction, inFlight>>
     \/ /\ cursor > 1
        /\ retired' = CountUnsent(cursor)
        /\ \/ /\ errno = "remoteio"
              /\ reapAction' = "completed_early" /\ Flies
           \/ /\ errno # "remoteio"
              /\ reapAction' = "submit_failed"
              /\ user' = "discard" /\ cursor' = cursor - 1
              /\ UNCHANGED <<inFlight, itLock, found>>
        /\ UNCHANGED allocated
  /\ UNCHANGED <<device, history, reapStatus, cancelling, timeout, listed, event, result, data,
                 kernel, timer>>

SubmitDiscard ==
  /\ user = "discard"
  /\ \/ /\ cursor > 0 /\ DiscardOne
        /\ UNCHANGED <<user, inFlight, itLock>>
     \/ /\ cursor = 0 /\ Flies
        /\ UNCHANGED kernel
  /\ UNCHANGED <<device, history, tpriv, cancelling, timeout, listed, event, result, data, timer>>

SubmitUndo ==
  /\ user = "undo" /\ FlyingFree
  /\ listed' = FALSE /\ user' = "idle" /\ Blank
  /\ UNCHANGED <<device, sent, given, round, allocated, inFlight, event, done, locking, timer>>

-----------------------------------------------------------------------------
(* The event thread: op_handle_events and reap_for_handle.  usbfs copies   *)
(* the data into the caller's buffer when the URB is reaped.               *)

Reap ==
  /\ \/ handler = "poll" /\ ~removed
     \/ handler = "drain"
  /\ done # <<>> /\ (connected \/ reapCap)
  /\ handler' = "reaped" /\ current' = Head(done) /\ done' = Tail(done)
  /\ urb' = [urb EXCEPT ![current'].state = "reaped"]
  /\ buffer' = Put(buffer, Offset(current'), Bytes(urb[current']))
  /\ UNCHANGED <<device, history, tpriv, flags, path, outcome, removed, result, transferred,
                 locking, user, timer>>

PollError ==
  /\ handler = "poll" /\ ~connected /\ ~removed
  /\ removed' = TRUE
  /\ handler' = "drain" /\ path' = "drain"
  /\ UNCHANGED <<device, history, tpriv, flags, current, outcome, result, data, kernel,
                 locking, user, timer>>

\* usbi_handle_disconnect, its search through the flying transfers.
Drained == handler = "drain" /\ (done = <<>> \/ ~reapCap)
Sweep ==
  /\ Drained \/ handler = "sweep"
  /\ FlyingFree /\ (listed => itLock = "none")
  /\ \/ listed /\ inFlight /\ handler' = "seize" /\ path' = "sweep"
     \/ ~(listed /\ inFlight) /\ handler' = "poll" /\ path' = "events"
  /\ UNCHANGED <<device, history, tpriv, flags, current, outcome, removed, result, data, kernel,
                 locking, user, timer>>

Seize ==
  /\ handler = "seize" /\ itLock = "none"
  /\ allocated' = FALSE
  /\ handler' = "unlist" /\ outcome' = "no_device"
  /\ UNCHANGED <<device, history, retired, reapAction, reapStatus, flags, path, current, removed,
                 result, data, kernel, locking, user, timer>>

-----------------------------------------------------------------------------
(* handle_bulk_completion, up to the ioctls of discard_urbs.               *)

Back == CASE path = "events" -> "poll" [] path = "drain" -> "drain" [] path = "sweep" -> "sweep"

\* Variant: the transfer is complete when one URB is still out.
AllRetiredEarly == retired + 2 >= NumUrbs
AllRetired == retired + 1 = NumUrbs

\* Variant: the holes are left open.
MovedNot(u) == buffer
\* Where the data of a URB ends up once an earlier one came back short.
Moved(u) == Put(buffer, transferred, Bytes(u))

\* Variant: a transfer that was cut short counts as complete.
AbnormalStatusKept == reapStatus
\* The verdict when the last URB of a transfer comes back that was cut short.
AbnormalStatus ==
  IF reapAction # "completed_early" /\ reapStatus = "completed" THEN "error" ELSE reapStatus

NormalStatus(s) ==
  CASE s = "shutdown" -> "no_device"
    [] s = "stall" /\ reapStatus = "completed" -> "stall"
    [] s = "overflow" /\ reapStatus = "completed" -> "overflow"
    [] s = "error" /\ reapStatus = "completed" -> "error"
    [] OTHER -> reapStatus

NormalAction(u, i) ==
  IF u.status = "error" THEN "error"
  ELSE IF u.status \in {"ok", "remoteio", "cancelled"} /\ ~AllRetired /\ u.actual < UrbLen(i)
       THEN "completed_early" ELSE "normal"

Finishes(u) == AllRetired \/ (reapAction = "normal" /\ u.status = "overflow")

\* The rest is cancelled: cancel_remaining.
CutsShort(u, i) ==
  reapAction = "normal" /\ (NormalAction(u, i) # "normal" \/ u.status \in {"shutdown", "stall"})

\* Variant: what comes in after the transfer was cut short is dropped.
SurplusDropped(u) == IF reapAction = "normal" THEN u.actual ELSE 0
\* The bytes of u that count, also when the transfer was cut short before.
Surplus(u) == u.actual

Retire ==
  /\ handler = "reaped" /\ itLock = "none"
  /\ LET u == urb[current] IN
     /\ retired' = retired + 1
     /\ transferred' = transferred + Surplus(u)
     /\ buffer' = IF reapAction # "normal" THEN Moved(u) ELSE buffer
     /\ reapAction' = IF reapAction # "normal" THEN reapAction ELSE NormalAction(u, current)
     /\ reapStatus' = IF reapAction = "normal" THEN NormalStatus(u.status)
                      ELSE IF AllRetired THEN AbnormalStatus ELSE reapStatus
     /\ \/ /\ Finishes(u)
           /\ allocated' = FALSE
           /\ handler' = IF reapAction = "cancelled" THEN "settle" ELSE "unlist"
           /\ outcome' = reapStatus'
           /\ UNCHANGED <<itLock, cursor>>
        \/ /\ ~Finishes(u) /\ CutsShort(u, current)
           /\ handler' = "discard" /\ itLock' = "handler" /\ cursor' = NumUrbs
           /\ UNCHANGED <<allocated, outcome>>
        \/ /\ ~Finishes(u) /\ ~CutsShort(u, current)
           /\ handler' = Back
           /\ UNCHANGED <<allocated, outcome, itLock, cursor>>
  /\ UNCHANGED <<device, history, flags, path, current, removed, result, kernel, found,
                 user, timer>>

Discard ==
  /\ handler = "discard"
  /\ \/ /\ cursor > current /\ DiscardOne
        /\ UNCHANGED <<handler, itLock>>
     \/ /\ cursor = current
        /\ handler' = Back /\ Release
        /\ UNCHANGED kernel
  /\ UNCHANGED <<device, history, tpriv, flags, path, current, outcome, removed, result, data,
                 user, timer>>

\* Variant: timeout_flags is read without flying_transfers_lock.
SettleGuardNone == TRUE
\* usbi_handle_transfer_cancellation: was it the time-out?
SettleGuard == FlyingFree

Settle ==
  /\ handler = "settle" /\ SettleGuard
  /\ handler' = "unlist"
  /\ outcome' = IF timeout = "timed_out" THEN "timed_out" ELSE "cancelled"
  /\ UNCHANGED <<device, history, tpriv, flags, path, current, removed, result, data, kernel,
                 locking, user, timer>>

\* usbi_handle_transfer_completion, its two critical sections and the callback.
Unlist ==
  /\ handler = "unlist" /\ FlyingFree
  /\ listed' = FALSE /\ handler' = "land"
  /\ UNCHANGED <<device, history, tpriv, inFlight, cancelling, timeout, path, current, outcome,
                 removed, result, data, kernel, locking, user, timer>>

Land ==
  /\ handler = "land" /\ itLock = "none"
  /\ inFlight' = FALSE /\ handler' = "callback"
  /\ UNCHANGED <<device, history, tpriv, cancelling, timeout, listed, path, current, outcome,
                 removed, result, data, kernel, locking, user, timer>>

Callback ==
  /\ handler = "callback"
  /\ status' = outcome /\ completed' = TRUE
  /\ handler' = Back /\ current' = 0 /\ outcome' = "completed"
  /\ UNCHANGED <<device, history, tpriv, flags, path, removed, data, kernel,
                 locking, user, timer>>

-----------------------------------------------------------------------------
(* libusb_cancel_transfer and op_cancel_transfer, by the caller whose wait *)
(* for events failed, or by the thread that runs handle_timeouts.          *)

CancelRefused == /\ itLock = "none"
                 /\ ~inFlight \/ cancelling \/ ~allocated
                 /\ cancelling' = (cancelling \/ inFlight)
                 /\ UNCHANGED locking

CancelBegins(who) == /\ itLock = "none" /\ inFlight /\ ~cancelling /\ allocated
                     /\ itLock' = who /\ cursor' = NumUrbs /\ found' = TRUE
                     /\ UNCHANGED cancelling

CancelEnds(who) == /\ cursor = 0
                   /\ Release /\ cancelling' = TRUE
                   /\ reapAction' = IF found /\ reapAction # "error" THEN "cancelled" ELSE reapAction
                   /\ cancelledBy' = IF found THEN who ELSE cancelledBy

UserCancel ==
  /\ handle # "closed"
  /\ \/ user = "wait" /\ CancelRefused /\ UNCHANGED <<user, kernel, reapAction, cancelledBy>>
     \/ /\ user = "wait" /\ CancelBegins("user") /\ user' = "cancel"
        /\ UNCHANGED <<kernel, reapAction, cancelledBy>>
     \/ /\ user = "cancel" /\ cursor > 0 /\ DiscardOne
        /\ UNCHANGED <<user, itLock, cancelling, reapAction, cancelledBy>>
     \/ /\ user = "cancel" /\ CancelEnds("user") /\ user' = "wait" /\ UNCHANGED kernel
  /\ UNCHANGED <<device, sent, given, short, round, allocated, retired, reapStatus,
                 inFlight, timeout, listed, event, result, data, timer>>

TimeOut ==
  /\ timer = "idle" /\ listed /\ timeout = "running"
  /\ timer' = "cancel" /\ timeout' = "handled"
  /\ UNCHANGED <<device, history, tpriv, inFlight, cancelling, listed, event, result, data,
                 kernel, locking, user>>

TimerCancel ==
  /\ \/ timer = "cancel" /\ CancelRefused /\ timer' = "idle"
        /\ UNCHANGED <<kernel, reapAction, cancelledBy>>
     \/ timer = "cancel" /\ CancelBegins("timer") /\ timer' = "discard"
        /\ UNCHANGED <<kernel, reapAction, cancelledBy>>
     \/ timer = "discard" /\ cursor > 0 /\ DiscardOne
        /\ UNCHANGED <<timer, itLock, cancelling, reapAction, cancelledBy>>
     \/ /\ timer = "discard" /\ CancelEnds("timer")
        /\ timer' = IF found THEN "mark" ELSE "idle"
        /\ UNCHANGED kernel
  /\ UNCHANGED <<device, sent, given, short, round, allocated, retired, reapStatus,
                 inFlight, timeout, listed, event, result, data, user>>

TimerMark ==
  /\ timer = "mark" /\ timer' = "idle" /\ timeout' = "timed_out"
  /\ UNCHANGED <<device, history, tpriv, inFlight, cancelling, listed, event, result, data,
                 kernel, locking, user>>

\* do_sync_bulk_transfer takes the result and frees the transfer.
Return ==
  /\ user = "wait" /\ completed
  /\ user' = "idle" /\ given' = given + transferred /\ Blank
  /\ UNCHANGED <<device, sent, round, allocated, inFlight, listed, event, done, locking, timer>>

-----------------------------------------------------------------------------
(* mt7921_close by another thread: libusb_release_interface, upon which    *)
(* usbfs kills what is queued for the interface, from the last URB on, and *)
(* libusb_close, which takes the transfer off the list with its URBs still *)
(* in the kernel.  What a thread does with a handle that is closed, a new  *)
(* transfer or a cancellation, is undefined and left out, and so is a      *)
(* failed submission that is taken off the list twice.                     *)

BeginRelease ==
  /\ handle = "open" /\ handle' = "releasing"
  /\ UNCHANGED transfer

KillUrb(i) ==
  /\ handle = "releasing" /\ connected
  /\ i \in Queued /\ Later(i) = {} /\ Kill(i)
  /\ UNCHANGED <<device, history, tpriv, flags, event, result, data, locking, user, timer, handle>>

\* libusb_close has the events lock, and do_close each of the two locks.
CloseHandle ==
  /\ handle = "releasing" /\ handle' = "closed"
  /\ handler = "poll" /\ FlyingFree /\ (listed => itLock = "none") /\ user # "undo"
  /\ listed' = FALSE /\ removed' = TRUE
  /\ UNCHANGED <<device, history, tpriv, inFlight, cancelling, timeout, handler, path, current,
                 outcome, result, data, kernel, locking, user, timer>>

\* sync_transfer_wait_for_completion finds no dev_handle in the transfer.
ReturnDropped ==
  /\ user = "wait" /\ ~completed /\ handle = "closed"
  /\ completed' = TRUE /\ status' = "no_device" /\ user' = "idle"
  /\ UNCHANGED <<device, history, tpriv, flags, event, data, kernel, locking, timer, handle>>

-----------------------------------------------------------------------------

Adapter == \/ \E i \in 1 .. NumUrbs, n \in 0 .. PacketSize : Receive(i, n)
           \/ \E i \in 1 .. NumUrbs, s \in {"stall", "error"} : Fault(i, s)
           \/ Unplug
Caller == \/ SubmitUrb \/ SubmitDiscard \/ SubmitUndo \/ Return
          \/ \E errno \in {"nodev", "remoteio", "nomem"} : SubmitFails(errno)
EventThread == \/ Reap \/ PollError \/ Sweep \/ Seize
               \/ Retire \/ Discard \/ Settle \/ Unlist \/ Land \/ Callback
Timer == TimeOut \/ TimerCancel \/ TimerMark

Closing == BeginRelease \/ CloseHandle \/ \E i \in 1 .. NumUrbs : KillUrb(i)

\* A step of those who work on the transfer.
Work == Adapter \/ Submit \/ Caller \/ UserCancel \/ EventThread \/ Timer

Next == (Work /\ UNCHANGED handle) \/ Closing \/ ReturnDropped

\* The adapter may say nothing for ever; the threads of the program go on.
Spec == Init /\ [][Next]_vars
FairSpec == /\ Spec
            /\ WF_transfer(Caller \/ (user = "cancel" /\ UserCancel) \/ ReturnDropped)
            /\ WF_transfer(EventThread) /\ WF_transfer(Timer)

-----------------------------------------------------------------------------
TypeOK ==
  /\ user \in {"idle", "submit", "discard", "undo", "wait", "cancel"}
  /\ timer \in {"idle", "cancel", "discard", "mark"}
  /\ handler \in {"poll", "drain", "sweep", "seize", "reaped", "discard", "settle", "unlist",
                  "land", "callback"}
  /\ path \in {"events", "drain", "sweep"}
  /\ itLock \in {"none", "user", "handler", "timer"}
  /\ cursor \in 0 .. NumUrbs + 1 /\ retired \in 0 .. NumUrbs
  /\ transferred \in 0 .. Length
  /\ timeout \in {"running", "handled", "timed_out"}
  /\ reapAction \in {"normal", "submit_failed", "cancelled", "completed_early", "error"}
  /\ {reapStatus, outcome, status} \subseteq
       {"completed", "error", "timed_out", "cancelled", "stall", "no_device", "overflow"}
  /\ handle \in {"open", "releasing", "closed"}
  /\ \A i \in DOMAIN urb : urb[i].state \in {"unsent", "queued", "done", "reaped"}
  /\ \A i \in 1 .. NumUrbs : urb[i].actual \in 0 .. UrbLen(i)

\* When the caller is told that the transfer is over, which lets it free the
\* transfer and its buffer, no thread is still at work on it, and the kernel
\* has none of its URBs left (sync.c frees at once; see linux_usbfs.c:2104) or,
\* once the handle is closed (sync.c:64), nobody polls for them any more: usbfs
\* writes to the buffer only when a URB is reaped.
NoUseAfterFree ==
  completed \/ user = "idle" =>
    /\ timer = "idle" /\ ~listed /\ itLock # "handler"
    /\ handler \in {"poll", "drain", "sweep"}
    /\ \/ Queued = {} /\ (connected \/ reapCap => done = <<>>)
       \/ handle = "closed" /\ removed /\ handler = "poll"

\* The caller gets the bytes the adapter sent, from where the last transfer
\* left off, in order and without a hole (linux_usbfs.c:2416).
BytesInOrder ==
  user = "wait" /\ completed => \A k \in 1 .. transferred : buffer[k] = given + k

\* A transfer that is reported complete is full, or ended by a short packet, as
\* long as nobody has begun to close the handle: of a URB that is killed then
\* libusb thinks that it was discarded.  Two more cases are left out, which
\* CompletedWithoutError is about: usbfs refused the later URBs of the
\* transfer, or the adapter went away while the transfer was being cancelled.
CompleteIsComplete ==
  completed /\ status = "completed" /\ handle = "open" =>
    \/ transferred = Length \/ short
    \/ refusing /\ urb[NumUrbs].state = "unsent"
    \/ cancelling /\ ~connected

\* "Transfer completed without error" (libusb.h, LIBUSB_TRANSFER_COMPLETED):
\* none of the URBs of a transfer reported complete ended with an error.  This
\* does not hold and no run checks it; README.md says how it fails.
CompletedWithoutError ==
  completed /\ status = "completed" =>
    \A i \in 1 .. NumUrbs : urb[i].status \notin {"stall", "error", "shutdown", "overflow"}

\* "Timed out" is reported when and only when the time-out's cancellation is
\* what stopped the transfer, never for a cancellation by the caller; a bus
\* error and the loss of the adapter go before it.
TimeOutIsTold ==
  user = "wait" /\ completed =>
    /\ status = "timed_out" => cancelledBy = "timer"
    /\ cancelledBy = "timer" => status \in {"timed_out", "no_device"} \/ reapAction = "error"

\* A transfer that was submitted ends, whatever the adapter does: its time-out
\* sees to it, and the event thread is never left waiting for a URB.
TransferEnds == user # "idle" ~> user = "idle"

Bulk == INSTANCE BulkTransfer WITH
          pending <- user # "idle", taken <- sent, 
          losing <- ~(connected \/ reapCap) \/ handle = "closed"
BulkSpec == Bulk!Spec
=============================================================================
