------------------------- MODULE UsbTransferProofs --------------------------
(***************************************************************************)
(* Proofs about UsbTransfer, for transfers of any length, in any number of *)
(* URBs: when the caller is told that its transfer is over, nobody is at   *)
(* work on it any more (NoUseAfterFree), what it is told of a time-out is  *)
(* true (TimeOutIsTold), the bytes it gets are those the adapter sent, in  *)
(* order (BytesInOrder), they are all of them (BulkTransfer), and as many  *)
(* as it asked for where it is told so (CompleteIsComplete).               *)
(*                                                                         *)
(* A transfer is completed when the last URB counts as retired, so the     *)
(* count must be right at every moment (Counted), or at an overflow, which *)
(* must then have been in the last URB (OverflowLast).  From there on the  *)
(* four parties keep out of each other's way by the flags: a transfer that *)
(* has lost its URBs is not cancelled, one that is no longer listed does   *)
(* not time out (Phases).                                                  *)
(*                                                                         *)
(* The bytes follow the URBs.  URBs are filled, and those with data given  *)
(* back, in turn (Order).  Each begins where the one before ended; as long *)
(* as all came back full that is its own place in the buffer, and once one *)
(* came back short its bytes are moved up behind what is there (Stream).   *)
(*                                                                         *)
(* A transfer is reported complete for the absence of signs to the         *)
(* contrary.  So the last invariant goes through the ways in which a URB   *)
(* can come back with less than it was to hold, and finds in each a sign   *)
(* that the verdict takes up, or an excuse (Report).                       *)
(*                                                                         *)
(* And that nothing is written outside the caller's buffer (InBuffer)      *)
(* follows from where the bytes of each URB go.                            *)
(***************************************************************************)
EXTENDS UsbTransfer, FiniteSetTheorems, SequenceTheorems, TLAPS

Resting == {"poll", "drain", "sweep"}
Ending  == {"settle", "unlist", "land", "callback"}

\* URBs that usbfs has not given back, and whether they still can come back.
Out  == {i \in 1 .. NumUrbs : urb[i].state \in {"queued", "done"}}
Live == connected \/ reapCap
NoneOut == Queued = {} /\ (Live => done = <<>>)

Urb == [state  : {"unsent", "queued", "done", "reaped"},
        status : {"ok", "stall", "error", "shutdown", "overflow", "remoteio", "cancelled"},
        from   : Int, actual : Nat]

Types ==
  /\ mode \in {"whole", "continuation", "plain"}
  /\ user \in {"idle", "submit", "discard", "undo", "wait", "cancel"}
  /\ timer \in {"idle", "cancel", "discard", "mark"}
  /\ handler \in Resting \cup Ending \cup {"seize", "reaped", "discard"}
  /\ path \in {"events", "drain", "sweep"}
  /\ itLock \in {"none", "user", "handler", "timer"}
  /\ cursor \in Nat /\ retired \in Nat /\ current \in Nat /\ sent \in Int
  /\ urb \in [1 .. MaxUrbs -> Urb]
  /\ done \in Seq(Nat)

\* Who holds itransfer->lock, and what a loop of discard_urbs goes through.
Locks ==
  /\ itLock = "user" <=> user \in {"submit", "discard", "cancel"}
  /\ itLock = "timer" <=> timer = "discard"
  /\ itLock = "handler" <=> handler = "discard"
  /\ itLock # "none" => cursor <= NumUrbs

\* Who may be where while the others are where they are.
Phases ==
  /\ handler \notin Resting => user \notin {"idle", "undo"} /\ ~completed
  /\ handler \notin Resting \cup {"reaped"} => user \in {"wait", "cancel"}
  /\ handler \in Ending => user = "wait" /\ ~allocated
  /\ handler = "reaped" => current \in 1 .. NumUrbs
  /\ completed => user = "wait"
  /\ user = "idle" \/ completed \/ handler \in {"land", "callback"} => ~listed
  /\ timer # "idle" => listed
  /\ inFlight => user \in {"wait", "cancel"} /\ ~completed /\ handler # "callback"

\* After the adapter has gone no URB is queued, and the sweep comes last.
Gone ==
  /\ connected \/ Queued = {}
  /\ handler \in {"drain", "sweep", "seize"} \/ path # "events" => ~connected
  /\ handler \in {"sweep", "seize"} \/ path = "sweep" => done = <<>> \/ ~reapCap

\* num_retired and the URBs that are out, or being handled, make up the transfer.
Flag == IF handler = "reaped" THEN 1 ELSE 0
Unsent == {i \in 1 .. NumUrbs : urb[i].state = "unsent"}
Counted ==
  /\ user \in {"idle", "undo"} => retired = 0 /\ 1 .. NumUrbs \subseteq Unsent
  /\ user = "submit" => /\ retired = 0 /\ cursor >= 1
                        /\ cursor .. NumUrbs \subseteq Unsent
                        /\ Cardinality(Out) + Flag = cursor - 1
  /\ user \in {"discard", "wait", "cancel"} /\ ~completed /\ handler \notin Ending =>
       retired + Cardinality(Out) + Flag = NumUrbs
  /\ handler = "reaped" => urb[current].state = "reaped"

\* Nothing is out of a transfer that is over.
Settled == handler \in Ending \/ completed \/ user \in {"idle", "undo"} => NoneOut

\* What usbfs lists as done are URBs that are done, each once.
Distinct(s) == \A k, l \in 1 .. Len(s) : k # l => s[k] # s[l]
DoneAreDone ==
  Live => /\ \A k \in 1 .. Len(done) : done[k] \in 1 .. NumUrbs /\ urb[done[k]].state = "done"
          /\ Distinct(done)

\* A URB but the last is a number of whole packets, so it cannot overflow.
Filling ==
  \A i \in Queued \cup Unsent : i < NumUrbs =>
    urb[i].actual < UrbLength /\ urb[i].actual % PacketSize = 0

\* An overflow is in the last URB, behind which nothing is queued or done.
OverflowLast ==
  \A i \in 1 .. NumUrbs : urb[i].status = "overflow" =>
    /\ i = NumUrbs /\ Queued = {} /\ urb[i].state \in {"done", "reaped"}
    /\ Live => \/ urb[i].state = "done" /\ done # <<>> /\ done[Len(done)] = i
               \/ urb[i].state = "reaped" /\ done = <<>>

Control == Locks /\ Phases
Data    == DoneAreDone /\ Filling /\ OverflowLast
Kept    == Gone /\ Counted /\ Settled /\ Data
IInv == Types /\ Control /\ Kept

-----------------------------------------------------------------------------
(* Sizes.                                                                  *)

\* Division and remainder, for a sum of two numbers less than the divisor apart.
LEMMA DivOnce ==
  ASSUME NEW a \in Nat \ {0}
  PROVE  (a + a - 1) \div a = 1
<1>1. a + a - 1 = 1 * a + (a - 1) /\ a - 1 \in 0 .. a - 1
  OBVIOUS
<1> QED
  BY <1>1

\* Rounding up divides into at least one part.
LEMMA DivSome ==
  ASSUME NEW a \in Nat \ {0}, NEW b \in Nat \ {0}
  PROVE  (a + b - 1) \div b \in Nat /\ (a + b - 1) \div b >= 1
<1> DEFINE q == (a + b - 1) \div b
           r == (a + b - 1) % b
<1>1. q \in Int /\ r \in 0 .. b - 1 /\ a + b - 1 = b * q + r
  OBVIOUS
<1>2. q >= 1
  <2> SUFFICES ASSUME q <= 0 PROVE FALSE
    BY <1>1
  <2>1. b * q <= 0
    BY <1>1
  <2> QED
    BY <1>1, <2>1
<1> QED
  BY <1>1, <1>2

\* There is at least one URB, and each but the last is of full length.
LEMMA Sizes ==
  ASSUME Types
  PROVE  /\ NumUrbs \in Nat /\ NumUrbs >= 1
         /\ MaxUrbs \in Nat /\ NumUrbs <= MaxUrbs
         /\ \A i \in 1 .. NumUrbs : UrbLen(i) \in Nat
         /\ \A i \in 1 .. NumUrbs : i < NumUrbs => UrbLen(i) = UrbLength
<1>1. MaxUrbs \in Nat /\ MaxUrbs >= 1
  BY DivSome, TransferAssumption DEF MaxUrbs
<1>2. CASE mode = "whole"
  <2>1. BulkBufferLen = Length
    BY <1>2 DEF BulkBufferLen
  <2>2. NumUrbs = 1
    BY <2>1, DivOnce, TransferAssumption DEF NumUrbs
  <2>3. UrbLen(1) \in Nat
    BY <2>1, <2>2, TransferAssumption DEF UrbLen
  <2> QED
    BY <1>1, <2>2, <2>3
<1>3. CASE mode # "whole"
  <2>1. BulkBufferLen = UrbLength
    BY <1>3 DEF BulkBufferLen
  <2>2. NumUrbs = MaxUrbs
    BY <2>1 DEF NumUrbs, MaxUrbs
  <2>3. \A i \in 1 .. NumUrbs : UrbLen(i) \in Nat
    BY <2>1, TransferAssumption DEF UrbLen
  <2>4. \A i \in 1 .. NumUrbs : i < NumUrbs => UrbLen(i) = UrbLength
    BY <2>1 DEF UrbLen
  <2> QED
    BY <1>1, <2>2, <2>3, <2>4
<1> QED
  BY <1>2, <1>3

\* Between two multiples of the packet size there is room for a packet.
LEMMA RoomForPacket ==
  ASSUME NEW a \in Nat, a < UrbLength, a % PacketSize = 0
  PROVE  /\ UrbLength - a >= PacketSize
         /\ (a + PacketSize) % PacketSize = 0
<1> DEFINE p == PacketSize
           q == a \div p
           m == UrbLength \div p
<1>1. p \in Nat /\ p > 0 /\ UrbLength \in Nat /\ UrbLength % p = 0
  BY TransferAssumption
<1>2. q \in Int /\ m \in Int /\ a = p * q /\ UrbLength = p * m
  BY <1>1
<1> HIDE DEF p, q, m
<1>3. m > q
  <2> SUFFICES ASSUME m <= q PROVE FALSE
    BY <1>2
  <2>1. p * m <= p * q
    BY <1>1, <1>2
  <2> QED
    BY <1>2, <2>1
<1>4. p * m >= p * (q + 1)
  BY <1>1, <1>2, <1>3
<1>5. p * (q + 1) = a + p
  BY <1>1, <1>2
<1>6. (p * (q + 1)) % p = 0
  BY <1>1, <1>2
<1> QED
  BY <1>1, <1>2, <1>4, <1>5, <1>6 DEF p

\* A URB without data holds a number of whole packets: none.
LEMMA NoneFilled == 0 < UrbLength /\ 0 % PacketSize = 0
  BY TransferAssumption

\* The way transfers are split does not change.
LEMMA ModeKept ==
  ASSUME [Work]_transfer
  PROVE  /\ mode' = mode /\ reapCap' = reapCap
         /\ NumUrbs' = NumUrbs
         /\ connected' => connected
<1> DEFINE Same == mode' = mode /\ reapCap' = reapCap /\ (connected' => connected)
<1>1. ASSUME Adapter PROVE Same
  BY <1>1 DEF Adapter, Receive, Fault, Unplug, Kernel
<1>2. ASSUME Submit \/ Caller PROVE Same
  BY <1>2 DEF Submit, Caller, SubmitUrb, SubmitDiscard, SubmitUndo, Return, SubmitFails, device
<1>3. ASSUME UserCancel PROVE Same
  BY <1>3 DEF UserCancel, device
<1>4. ASSUME EventThread PROVE Same
  BY <1>4 DEF EventThread, Reap, PollError, Sweep, Seize, Retire, Discard, Settle, Unlist, Land,
              Callback, device
<1>5. ASSUME Timer PROVE Same
  BY <1>5 DEF Timer, TimeOut, TimerCancel, TimerMark, device
<1>6. Same
  BY <1>1, <1>2, <1>3, <1>4, <1>5 DEF Work, transfer, device
<1> QED
  BY <1>6 DEF NumUrbs, BulkBufferLen

-----------------------------------------------------------------------------
(* The initial states.                                                     *)

\* The invariant holds at the start.
LEMMA InitInv == Init => IInv
<1> SUFFICES ASSUME Init PROVE IInv
  OBVIOUS
<1>1. urb = [i \in 1 .. MaxUrbs |-> Fresh]
  BY DEF Init
<1>2. Types
  BY <1>1, TransferAssumption, EmptySeq DEF Init, Types, Urb, Fresh, Resting
<1>3. NumUrbs <= MaxUrbs /\ NumUrbs \in Nat /\ MaxUrbs \in Nat
  BY <1>2, Sizes
<1>4. \A i \in 1 .. NumUrbs : urb[i] = Fresh
  BY <1>1, <1>3
<1>5. Control
  BY DEF Init, Control, Locks, Phases, Resting, Ending
<1>6. Queued = {} /\ 1 .. NumUrbs \subseteq Unsent
  BY <1>4 DEF Queued, Unsent, Fresh
<1>7. Gone /\ Settled /\ DoneAreDone
  BY <1>6 DEF Init, Gone, Settled, NoneOut, DoneAreDone, Distinct
<1>8. Counted
  BY <1>6 DEF Init, Counted
<1>9. Filling /\ OverflowLast
  BY <1>4, <1>6, NoneFilled DEF Filling, OverflowLast, Fresh, Unsent
<1> QED
  BY <1>2, <1>5, <1>7, <1>8, <1>9 DEF IInv, Kept, Data

-----------------------------------------------------------------------------
(* Types.                                                                  *)

\* Killing a URB keeps the types.
LEMMA KillTypes ==
  ASSUME Types, NEW i \in Nat, Kill(i)
  PROVE  urb' \in [1 .. MaxUrbs -> Urb] /\ done' \in Seq(Nat)
<1>1. [urb EXCEPT ![i].state = "done", ![i].status = "cancelled"] \in [1 .. MaxUrbs -> Urb]
  BY DEF Types, Urb
<1>2. Append(done, i) \in Seq(Nat)
  BY AppendProperties DEF Types
<1> QED
  BY <1>1, <1>2 DEF Kill

\* So does discarding one.
LEMMA DiscardTypes ==
  ASSUME Types, DiscardOne, cursor > 0
  PROVE  urb' \in [1 .. MaxUrbs -> Urb] /\ done' \in Seq(Nat) /\ cursor' \in Nat
<1>1. cursor \in Nat /\ cursor' \in Nat
  BY DEF DiscardOne, Types
<1>2. Kill(cursor) \/ (urb' = urb /\ done' = done)
  BY DEF DiscardOne, kernel
<1> QED
  BY <1>1, <1>2, KillTypes DEF Types

\* URBs in a set, in order.
LEMMA AscendingTypes ==
  ASSUME Types, NEW S \in SUBSET (1 .. NumUrbs), NEW s \in Ascending(S)
  PROVE  s \in Seq(Nat) /\ s \in Seq(S)
<1>1. NumUrbs \in Nat
  BY Sizes
<1>2. IsFiniteSet(1 .. NumUrbs)
  BY <1>1, FS_Interval
<1>3. IsFiniteSet(S)
  BY <1>2, FS_Subset
<1>4. Cardinality(S) \in Nat
  BY <1>3, FS_CardinalityType
<1>5. s \in [1 .. Cardinality(S) -> S]
  BY DEF Ascending
<1>6. s \in [1 .. Cardinality(S) -> Nat]
  <2>1. S \subseteq Nat
    BY <1>1
  <2> QED
    BY <1>5, <2>1
<1> QED
  BY <1>4, <1>5, <1>6, SeqDef

\* So does the end of one, with the URBs it takes along.
LEMMA EndsTypes ==
  ASSUME Types, NEW i \in 1 .. NumUrbs, NEW u \in Urb, Ends(i, u)
  PROVE  urb' \in [1 .. MaxUrbs -> Urb] /\ done' \in Seq(Nat)
<1> DEFINE along == IF mode = "continuation" /\ u.status # "ok" THEN Later(i) ELSE {}
<1>1. urb' = [j \in DOMAIN urb |-> IF j = i THEN u
                ELSE IF j \in along THEN [urb[j] EXCEPT !.state = "done", !.status = "cancelled"]
                ELSE urb[j]]
  BY DEF Ends
<1>2. \A j \in 1 .. MaxUrbs : [urb[j] EXCEPT !.state = "done", !.status = "cancelled"] \in Urb
  BY DEF Types, Urb
<1>3. PICK later \in Ascending(along) : done' = done \o <<i>> \o later
  BY DEF Ends
<1>4. along \in SUBSET (1 .. NumUrbs)
  BY DEF Later, Queued
<1>5. later \in Seq(Nat)
  BY <1>3, <1>4, AscendingTypes
<1>6. done' \in Seq(Nat)
  BY <1>3, <1>5, ConcatProperties DEF Types
<1> QED
  BY <1>1, <1>2, <1>6 DEF Types

\* What the adapter does to the URBs keeps their types.
LEMMA AdapterTypes ==
  ASSUME Types, Adapter
  PROVE  urb' \in [1 .. MaxUrbs -> Urb] /\ done' \in Seq(Nat) /\ sent' \in Int
<1>1. ASSUME NEW i \in 1 .. NumUrbs, NEW n \in 0 .. PacketSize, Receive(i, n)
      PROVE  urb' \in [1 .. MaxUrbs -> Urb] /\ done' \in Seq(Nat) /\ sent' \in Int
  <2> DEFINE room == UrbLen(i) - urb[i].actual
             u == [urb[i] EXCEPT !.from = IF urb[i].actual = 0 THEN sent ELSE @,
                                 !.actual = IF n > room THEN UrbLen(i) ELSE @ + n]
  <2>1. n \in Nat /\ UrbLen(i) \in Nat /\ i \in 1 .. MaxUrbs
    BY Sizes, TransferAssumption
  <2>2. urb[i] \in Urb
    BY <2>1 DEF Types
  <2>3. (IF n > room THEN UrbLen(i) ELSE urb[i].actual + n) \in Nat
    BY <2>1, <2>2 DEF Urb
  <2>4. (IF urb[i].actual = 0 THEN sent ELSE urb[i].from) \in Int
    BY <2>2 DEF Types, Urb
  <2>5. u \in Urb
    BY <2>2, <2>3, <2>4 DEF Urb
  <2>6. sent' \in Int
    BY <1>1, <2>1, <2>2, <2>5 DEF Receive, Types, Urb
  <2>7. ASSUME NEW s \in {"ok", "remoteio", "overflow"}
        PROVE  [u EXCEPT !.state = "done", !.status = s] \in Urb
    BY <2>5 DEF Urb
  <2> HIDE DEF u
  <2>8. [urb EXCEPT ![i] = u] \in [1 .. MaxUrbs -> Urb]
    BY <2>5 DEF Types
  <2> QED
    BY <1>1, <2>6, <2>7, <2>8, EndsTypes DEF Receive, Types, u
<1>2. ASSUME NEW i \in 1 .. NumUrbs, NEW s \in {"stall", "error"}, Fault(i, s)
      PROVE  urb' \in [1 .. MaxUrbs -> Urb] /\ done' \in Seq(Nat) /\ sent' \in Int
  <2>1. i \in 1 .. MaxUrbs /\ urb[i] \in Urb
    BY Sizes DEF Types
  <2>2. [urb[i] EXCEPT !.state = "done", !.status = s] \in Urb
    BY <2>1 DEF Urb
  <2> QED
    BY <1>2, <2>2, EndsTypes DEF Fault, Types
<1>3. ASSUME Unplug
      PROVE  urb' \in [1 .. MaxUrbs -> Urb] /\ done' \in Seq(Nat) /\ sent' \in Int
  <2>1. PICK later \in Ascending(Queued) : done' = done \o later
    BY <1>3 DEF Unplug
  <2>2. Queued \in SUBSET (1 .. NumUrbs)
    BY DEF Queued
  <2>3. later \in Seq(Nat)
    BY <2>1, <2>2, AscendingTypes
  <2>4. \A j \in 1 .. MaxUrbs : [urb[j] EXCEPT !.state = "done", !.status = "shutdown"] \in Urb
    BY DEF Types, Urb
  <2> QED
    BY <1>3, <2>1, <2>3, <2>4, ConcatProperties DEF Unplug, Types
<1> QED
  BY <1>1, <1>2, <1>3 DEF Adapter

\* What a new transfer starts with has its types.
LEMMA BlankTypes ==
  ASSUME Blank
  PROVE  urb' \in [1 .. MaxUrbs -> Urb] /\ retired' \in Nat
  BY DEF Blank, Urb, Fresh

\* The adapter and usbfs change URBs and nothing of the transfer.
LEMMA AdapterKernel ==
  ASSUME Adapter
  PROVE  Kernel
  BY DEF Adapter, Receive, Fault, Unplug

\* Every step keeps the types.
LEMMA TypesStep ==
  ASSUME Types, Locks, Phases, Work
  PROVE  Types'
<1>1. CASE Adapter
  <2>1. UNCHANGED <<mode, user, timer, handler, path, itLock, cursor, retired, current>>
    BY <1>1, AdapterKernel DEF Kernel, event, locking, tpriv
  <2> QED
    BY <1>1, <2>1, AdapterTypes, ModeKept DEF Types
<1>2. CASE Submit
  BY <1>2 DEF Submit, Types, event, kernel, device
<1>3. CASE SubmitUrb
  <2>1. [urb EXCEPT ![cursor].state = "queued"] \in [1 .. MaxUrbs -> Urb]
    BY DEF Types, Urb
  <2> QED
    BY <1>3, <2>1 DEF SubmitUrb, Types, Flies, Release, history, event, tpriv
<1>4. CASE SubmitDiscard
  BY <1>4, DiscardTypes DEF SubmitDiscard, Flies, Release, Types, device, history, tpriv, event,
                            kernel
<1>5. CASE SubmitUndo
  BY <1>5, BlankTypes DEF SubmitUndo, Types, device, event, locking
<1>6. CASE Return
  BY <1>6, BlankTypes DEF Return, Types, device, event, locking
<1>7. ASSUME NEW e, SubmitFails(e) PROVE Types'
  <2>1. retired + NumUrbs - cursor + 1 \in Nat
    BY <1>7, Sizes DEF SubmitFails, Types, Locks
  <2> QED
    BY <1>7, <2>1 DEF SubmitFails, CountUnsent, Flies, Release, Types, device, history, event,
                     kernel
<1>8. CASE UserCancel
  <2>1. NumUrbs \in Nat
    BY Sizes
  <2> QED
    BY <1>8, <2>1, DiscardTypes DEF UserCancel, CancelRefused, CancelBegins, CancelEnds, Release,
                                    Types, device, event, kernel, locking
<1>9. CASE Reap
  <2>1. current' \in Nat /\ done' \in Seq(Nat)
    BY <1>9, HeadTailProperties DEF Reap, Types
  <2>2. urb' \in [1 .. MaxUrbs -> Urb]
    BY <1>9 DEF Reap, Types, Urb
  <2> QED
    BY <1>9, <2>1, <2>2 DEF Reap, Types, device, history, tpriv, locking
<1>10. CASE PollError \/ Sweep \/ Seize \/ Settle \/ Unlist \/ Land
  BY <1>10 DEF PollError, Sweep, Seize, Settle, Unlist, Land, Types, Resting, Ending,
               device, history, tpriv, kernel, locking
<1>11. CASE Callback
  BY <1>11 DEF Callback, Back, Types, Resting, Ending, device, history, tpriv, kernel, locking
<1>12. CASE Retire
  BY <1>12, Sizes DEF Retire, Back, Types, Resting, Ending, device, history, kernel
<1>13. CASE Discard
  <2>1. cursor > 0 \/ cursor = current
    BY <1>13 DEF Discard, Types
  <2> QED
    BY <1>13, <2>1, DiscardTypes DEF Discard, Back, Release, Types, Resting, device, history,
                                     tpriv, kernel
<1>14. CASE TimeOut \/ TimerMark
  BY <1>14 DEF TimeOut, TimerMark, Types, device, history, tpriv, event, kernel, locking
<1>15. CASE TimerCancel
  <2>1. NumUrbs \in Nat
    BY Sizes
  <2> QED
    BY <1>15, <2>1, DiscardTypes DEF TimerCancel, CancelRefused, CancelBegins, CancelEnds, Release,
                                     Types, device, event, kernel, locking
<1> QED
  BY <1>1, <1>2, <1>3, <1>4, <1>5, <1>6, <1>7, <1>8, <1>9, <1>10, <1>11, <1>12, <1>13, <1>14, <1>15
  DEF Work, Caller, EventThread, Timer

-----------------------------------------------------------------------------
(* Who may be where.                                                       *)

\* The adapter leaves the parties where they are.
LEMMA AdapterFrame ==
  ASSUME Adapter
  PROVE  UNCHANGED <<user, timer, handler, path, itLock, cursor, current, completed, listed,
                     allocated, inFlight, retired, removed>>
<1>1. Kernel
  BY AdapterKernel
<1> QED
  BY <1>1 DEF Kernel, event, locking, tpriv, flags, result

\* There are finitely many URBs.
LEMMA OutFinite ==
  ASSUME Types
  PROVE  IsFiniteSet(Out) /\ Cardinality(Out) \in Nat
<1>1. IsFiniteSet(1 .. NumUrbs)
  BY Sizes, FS_Interval
<1>2. IsFiniteSet(Out)
  BY <1>1, FS_Subset DEF Out
<1> QED
  BY <1>2, FS_CardinalityType

\* A URB is reaped only from a transfer that is under way.
LEMMA ReapWhileOut ==
  ASSUME IInv, Reap
  PROVE  /\ user \notin {"idle", "undo"} /\ ~completed /\ handler \in Resting
         /\ current' \in 1 .. NumUrbs /\ urb[current'].state = "done"
<1>1. done # <<>> /\ Live /\ handler \in Resting /\ current' = Head(done)
  BY DEF Reap, Live, Resting
<1>2. ~NoneOut
  BY <1>1 DEF NoneOut
<1>3. done \in Seq(Nat) /\ Len(done) \in Nat /\ Len(done) >= 1 /\ Head(done) = done[1]
  BY <1>1 DEF IInv, Types
<1>4. done[1] \in 1 .. NumUrbs /\ urb[done[1]].state = "done"
  BY <1>1, <1>3 DEF IInv, Kept, Data, DoneAreDone
<1> QED
  BY <1>1, <1>2, <1>3, <1>4 DEF IInv, Kept, Settled

\* Every step keeps the owner of the lock and the phases of the parties.
LEMMA ControlStep ==
  ASSUME IInv, Work
  PROVE  Control'
<1> USE ModeKept
<1>0. Types /\ Locks /\ Phases /\ NumUrbs' = NumUrbs /\ NumUrbs \in Nat /\ NumUrbs >= 1
  BY Sizes DEF IInv, Control
<1>1. CASE Adapter
  <2>1. UNCHANGED <<user, timer, handler, itLock, cursor, current, completed, listed, allocated,
                    inFlight>>
    BY <1>1, AdapterFrame
  <2> QED
    BY <1>0, <2>1 DEF Control, Locks, Phases
<1>2. CASE Submit
  BY <1>0, <1>2 DEF Submit, event, result, Control, Locks, Phases, Types, Resting, Ending
<1>3. CASE SubmitUrb
  BY <1>0, <1>3 DEF SubmitUrb, Flies, Release, history, event, tpriv, result,
                    Control, Locks, Phases, Types, Resting, Ending
<1>4. CASE SubmitDiscard
  <2>1. cursor' <= NumUrbs
    BY <1>0, <1>4 DEF SubmitDiscard, DiscardOne, Kill, Flies, Release, Locks, Types
  <2> QED
    BY <1>0, <1>4, <2>1
    DEF SubmitDiscard, DiscardOne, Kill, Flies, Release, history, tpriv, event, result,
        Control, Locks, Phases, Types, Resting, Ending
<1>5. CASE SubmitUndo
  BY <1>0, <1>5 DEF SubmitUndo, Blank, FlyingFree, event, locking,
                    Control, Locks, Phases, Types, Resting, Ending
<1>6. CASE Return
  BY <1>0, <1>6 DEF Return, Blank, event, locking, Control, Locks, Phases, Types, Resting, Ending
<1>7. ASSUME NEW e, SubmitFails(e) PROVE Control'
  <2>1. CASE cursor = 1
    <3>1. handler \in Resting
      <4>1. Cardinality(Out) + Flag = 0
        BY <1>7, <2>1 DEF SubmitFails, IInv, Kept, Counted
      <4>2. Cardinality(Out) \in Nat
        BY <1>0, OutFinite
      <4>3. handler # "reaped"
        BY <4>1, <4>2 DEF Flag
      <4> QED
        BY <1>0, <1>7, <4>3 DEF SubmitFails, Phases, Types
    <3> QED
      BY <1>0, <1>7, <2>1, <3>1 DEF SubmitFails, Release, event, result,
                    Control, Locks, Phases, Types, Resting, Ending
  <2>2. CASE cursor # 1
    BY <1>0, <1>7, <2>2 DEF SubmitFails, Release, Flies, event, result,
                    Control, Locks, Phases, Types, Resting, Ending
  <2> QED
    BY <2>1, <2>2
<1>8. CASE UserCancel
  BY <1>0, <1>8 DEF UserCancel, CancelRefused, CancelBegins, CancelEnds, DiscardOne, Kill, Release,
                    event, result, locking, Control, Locks, Phases, Types, Resting, Ending
<1>9. CASE Reap
  BY <1>0, <1>9, ReapWhileOut DEF Reap, flags, result, locking, tpriv,
                    Control, Locks, Phases, Resting, Ending
<1>10. CASE PollError \/ Sweep
  BY <1>0, <1>10 DEF PollError, Sweep, FlyingFree, Drained, flags, tpriv, result, locking,
                    Control, Locks, Phases, Types, Resting, Ending
<1>11. CASE Seize \/ Settle \/ Unlist
  BY <1>0, <1>11 DEF Seize, Settle, SettleGuard, Unlist, FlyingFree, flags, tpriv, result, locking,
                    Control, Locks, Phases, Types, Resting, Ending
<1>12. CASE Land \/ Callback
  BY <1>0, <1>12 DEF Land, Callback, Back, flags, tpriv, result, locking,
                    Control, Locks, Phases, Types, Resting, Ending
<1>13. CASE Retire
  BY <1>0, <1>13 DEF Retire, Back, flags, result,
                    Control, Locks, Phases, Types, Resting, Ending
<1>14. CASE Discard
  BY <1>0, <1>14 DEF Discard, DiscardOne, Kill, Release, Back, flags, tpriv, result,
                    Control, Locks, Phases, Types, Resting, Ending
<1>15. CASE TimeOut \/ TimerMark
  BY <1>0, <1>15 DEF TimeOut, TimerMark, event, tpriv, result, locking,
                    Control, Locks, Phases, Types, Resting, Ending
<1>16. CASE TimerCancel
  BY <1>0, <1>16 DEF TimerCancel, CancelRefused, CancelBegins, CancelEnds, DiscardOne, Kill, Release,
                    event, result, locking, Control, Locks, Phases, Types, Resting, Ending
<1> QED
  BY <1>1, <1>2, <1>3, <1>4, <1>5, <1>6, <1>7, <1>8, <1>9, <1>10, <1>11, <1>12, <1>13, <1>14, <1>15,
     <1>16
  DEF Work, Caller, EventThread, Timer

-----------------------------------------------------------------------------
(* The URBs.                                                               *)

\* Two sequences with no member in common, put together.
LEMMA DistinctConcat ==
  ASSUME NEW s \in Seq(Nat), NEW t \in Seq(Nat), Distinct(s), Distinct(t),
         \A k \in 1 .. Len(s), l \in 1 .. Len(t) : s[k] # t[l]
  PROVE  Distinct(s \o t)
<1>1. Len(s) \in Nat /\ Len(t) \in Nat
  BY LenProperties
<1>2. Len(s \o t) = Len(s) + Len(t)
  BY ConcatProperties
<1>3. \A k \in 1 .. Len(s) + Len(t) :
        (s \o t)[k] = IF k <= Len(s) THEN s[k] ELSE t[k - Len(s)]
  BY ConcatProperties
<1> SUFFICES ASSUME NEW k \in 1 .. Len(s) + Len(t), NEW l \in 1 .. Len(s) + Len(t), k < l
             PROVE  (s \o t)[k] # (s \o t)[l]
  BY <1>1, <1>2 DEF Distinct
<1>4. CASE l <= Len(s)
  BY <1>1, <1>3, <1>4 DEF Distinct
<1>5. CASE k <= Len(s) /\ l > Len(s)
  <2>1. (s \o t)[k] = s[k] /\ (s \o t)[l] = t[l - Len(s)] /\ l - Len(s) \in 1 .. Len(t)
    BY <1>1, <1>3, <1>5
  <2> QED
    BY <1>1, <1>5, <2>1
<1>6. CASE k > Len(s)
  <2>1. /\ (s \o t)[k] = t[k - Len(s)] /\ (s \o t)[l] = t[l - Len(s)]
        /\ l - Len(s) \in 1 .. Len(t) /\ k - Len(s) \in 1 .. Len(t) /\ k - Len(s) # l - Len(s)
    BY <1>1, <1>3, <1>6
  <2> QED
    BY <2>1 DEF Distinct
<1> QED
  BY <1>1, <1>4, <1>5, <1>6

\* URBs in order are distinct members of their set.
LEMMA AscendingDistinct ==
  ASSUME Types, NEW S \in SUBSET (1 .. NumUrbs), NEW s \in Ascending(S)
  PROVE  s \in Seq(Nat) /\ Distinct(s) /\ \A k \in 1 .. Len(s) : s[k] \in S
<1>1. s \in Seq(Nat) /\ s \in Seq(S)
  BY AscendingTypes
<1>2. DOMAIN s = 1 .. Len(s) /\ Len(s) \in Nat
  BY <1>1, LenProperties
<1>3. \A k \in 1 .. Len(s) : s[k] \in S /\ s[k] \in Nat
  BY <1>1
<1>4. \A k, l \in 1 .. Len(s) : k < l => s[k] < s[l]
  BY <1>2 DEF Ascending
<1>5. Distinct(s)
  <2> SUFFICES ASSUME NEW k \in 1 .. Len(s), NEW l \in 1 .. Len(s), k # l PROVE s[k] # s[l]
    BY DEF Distinct
  <2>1. k < l \/ l < k
    BY <1>2
  <2> QED
    BY <1>3, <1>4, <2>1
<1> QED
  BY <1>1, <1>3, <1>5

SameOut ==
  /\ Out' = Out /\ Queued' \subseteq Queued /\ Unsent' = Unsent
  /\ \A i \in 1 .. NumUrbs : urb[i].state = "reaped" => urb'[i].state = "reaped"

\* URBs that become done are listed once more.
LEMMA ListDone ==
  ASSUME Types, DoneAreDone, NumUrbs' = NumUrbs, Live' => Live,
         NEW t \in Seq(Nat), Distinct(t), done' = done \o t,
         \A k \in 1 .. Len(t) : t[k] \in Queued /\ urb'[t[k]].state = "done",
         \A j \in 1 .. NumUrbs : urb[j].state = "done" => urb'[j].state = "done"
  PROVE  DoneAreDone'
<1> SUFFICES ASSUME Live' PROVE
      /\ \A k \in 1 .. Len(done') : done'[k] \in 1 .. NumUrbs /\ urb'[done'[k]].state = "done"
      /\ Distinct(done')
  BY DEF DoneAreDone, Distinct
<1>1. done \in Seq(Nat) /\ Len(done) \in Nat /\ Len(t) \in Nat
  BY LenProperties DEF Types
<1>2. /\ \A k \in 1 .. Len(done) : done[k] \in 1 .. NumUrbs /\ urb[done[k]].state = "done"
      /\ Distinct(done)
  BY DEF DoneAreDone
<1>3. \A k \in 1 .. Len(t) : t[k] \in 1 .. NumUrbs /\ urb[t[k]].state = "queued"
  BY DEF Queued
<1>4. \A k \in 1 .. Len(done), l \in 1 .. Len(t) : done[k] # t[l]
  BY <1>2, <1>3
<1>5. Distinct(done \o t)
  BY <1>1, <1>2, <1>4, DistinctConcat
<1>6. /\ Len(done') = Len(done) + Len(t)
      /\ \A k \in 1 .. Len(done) + Len(t) :
           done'[k] = IF k <= Len(done) THEN done[k] ELSE t[k - Len(done)]
  BY <1>1, ConcatProperties
<1>7. \A k \in 1 .. Len(done') : done'[k] \in 1 .. NumUrbs /\ urb'[done'[k]].state = "done"
  <2> SUFFICES ASSUME NEW k \in 1 .. Len(done')
               PROVE  done'[k] \in 1 .. NumUrbs /\ urb'[done'[k]].state = "done"
    OBVIOUS
  <2>1. CASE k <= Len(done)
    <3>1. k \in 1 .. Len(done) /\ done'[k] = done[k]
      BY <1>1, <1>6, <2>1
    <3> QED
      BY <1>2, <3>1
  <2>2. CASE k > Len(done)
    <3>1. k - Len(done) \in 1 .. Len(t) /\ done'[k] = t[k - Len(done)]
      BY <1>1, <1>6, <2>2
    <3> QED
      BY <1>3, <3>1
  <2> QED
    BY <1>1, <1>6, <2>1, <2>2
<1> QED
  BY <1>5, <1>7

\* What killing one URB leaves.
LEMMA KillData ==
  ASSUME Types, Data, NEW i \in Queued, Kill(i), UNCHANGED <<connected, reapCap>>,
         NumUrbs' = NumUrbs
  PROVE  Data' /\ SameOut /\ (NoneOut => NoneOut')
<1>1. i \in Queued /\ i \in 1 .. MaxUrbs /\ i \in Nat
  BY Sizes DEF Queued
<1>2. /\ urb'[i].state = "done" /\ urb'[i].status = "cancelled"
      /\ \A j \in 1 .. NumUrbs : j # i => urb'[j] = urb[j]
  <2>1. urb \in [1 .. MaxUrbs -> Urb] /\ \A j \in 1 .. NumUrbs : j \in 1 .. MaxUrbs
    BY Sizes DEF Types
  <2> QED
    BY <1>1, <2>1 DEF Urb, Kill
<1>3. SameOut
  BY <1>1, <1>2 DEF SameOut, Out, Queued, Unsent
<1>4. done' = done \o <<i>> /\ <<i>> \in Seq(Nat) /\ Distinct(<<i>>)
      /\ \A k \in 1 .. Len(<<i>>) : <<i>>[k] = i
  <2>1. done' = Append(done, i)
    BY DEF Kill
  <2> QED
    BY <1>1, <2>1, AppendIsConcat DEF Types, Distinct
<1>5. DoneAreDone'
  BY <1>1, <1>2, <1>4, ListDone DEF Data, Live
<1>6. Filling'
  BY <1>1, <1>2, <1>3 DEF Data, Filling, SameOut, Queued, Unsent
<1>7. \A j \in 1 .. NumUrbs : urb[j].status # "overflow"
  BY <1>1 DEF Data, OverflowLast
<1>8. OverflowLast'
  BY <1>2, <1>7 DEF OverflowLast
<1> QED
  BY <1>1, <1>3, <1>5, <1>6, <1>8 DEF Data, NoneOut

\* What discarding one URB leaves.
LEMMA DiscardData ==
  ASSUME Types, Data, DiscardOne, cursor \in 1 .. NumUrbs, UNCHANGED <<connected, reapCap>>,
         NumUrbs' = NumUrbs
  PROVE  Data' /\ SameOut /\ (NoneOut => NoneOut')
<1>1. CASE UNCHANGED kernel
  BY <1>1 DEF kernel, Data, DoneAreDone, Distinct, Filling, OverflowLast, SameOut, NoneOut, Out,
              Queued, Unsent, Live
<1>2. CASE urb[cursor].state = "queued" /\ Kill(cursor)
  BY <1>2, KillData DEF Queued
<1> QED
  BY <1>1, <1>2 DEF DiscardOne

\* What the end of a URB leaves.
LEMMA EndsData ==
  ASSUME Types, Data, NumUrbs' = NumUrbs, UNCHANGED <<mode, connected, reapCap>>,
         NEW i \in Heads, NEW u \in Urb, u.state = "done", Ends(i, u),
         u.status = "overflow" => i = NumUrbs
  PROVE  Data' /\ SameOut
<1> DEFINE along == IF mode = "continuation" /\ u.status # "ok" THEN Later(i) ELSE {}
<1>1. urb' = [j \in DOMAIN urb |-> IF j = i THEN u
                ELSE IF j \in along THEN [urb[j] EXCEPT !.state = "done", !.status = "cancelled"]
                ELSE urb[j]]
  BY DEF Ends
<1>2. PICK later \in Ascending(along) : done' = done \o <<i>> \o later
  BY DEF Ends
<1>3. i \in 1 .. NumUrbs /\ i \in Queued /\ i \in Nat /\ i \notin along
  BY Sizes DEF Heads, Queued, Later
<1>4. along \in SUBSET (1 .. NumUrbs) /\ along \subseteq Queued
  BY DEF Later, Queued
<1> HIDE DEF along
<1>5. later \in Seq(Nat) /\ Distinct(later) /\ \A k \in 1 .. Len(later) : later[k] \in along
  BY <1>2, <1>4, AscendingDistinct
<1>6. /\ urb'[i] = u
      /\ \A j \in along : urb'[j].state = "done" /\ urb'[j].status = "cancelled"
      /\ \A j \in 1 .. NumUrbs : j # i /\ j \notin along => urb'[j] = urb[j]
  <2>1. \A j \in 1 .. NumUrbs : j \in DOMAIN urb /\ urb[j] \in Urb
    BY Sizes DEF Types
  <2> QED
    BY <1>1, <1>3, <1>4, <2>1 DEF Urb
<1>7. SameOut
  BY <1>3, <1>4, <1>6 DEF SameOut, Out, Queued, Unsent
<1>8. DoneAreDone'
  <2> DEFINE t == <<i>> \o later
  <2>1. <<i>> \in Seq(Nat) /\ Distinct(<<i>>) /\ Len(<<i>>) = 1 /\ <<i>>[1] = i
    BY <1>3 DEF Distinct
  <2>2. t \in Seq(Nat) /\ Distinct(t)
    <3>1. \A k \in 1 .. Len(<<i>>), l \in 1 .. Len(later) : <<i>>[k] # later[l]
      BY <1>3, <1>5, <2>1
    <3> QED
      BY <1>5, <2>1, <3>1, DistinctConcat, ConcatProperties
  <2>3. \A k \in 1 .. Len(t) : t[k] = i \/ t[k] \in along
    <3>1. Len(later) \in Nat /\ Len(t) = 1 + Len(later)
      BY <1>5, <2>1, ConcatProperties, LenProperties
    <3>2. \A k \in 1 .. 1 + Len(later) : t[k] = IF k <= 1 THEN i ELSE later[k - 1]
      BY <1>5, <2>1, ConcatProperties
    <3> QED
      BY <1>5, <3>1, <3>2
  <2>4. done' = done \o t
    BY <1>2, <1>5, <2>1, ConcatAssociative DEF Types
  <2> HIDE DEF t
  <2>5. \A k \in 1 .. Len(t) : t[k] \in Queued /\ urb'[t[k]].state = "done"
    BY <1>3, <1>4, <1>6, <2>3
  <2>6. \A j \in 1 .. NumUrbs : urb[j].state = "done" => urb'[j].state = "done"
    BY <1>6
  <2> QED
    BY <2>2, <2>4, <2>5, <2>6, ListDone DEF Data, Live
<1>9. Filling'
  <2>1. \A j \in Queued' \cup Unsent' : urb'[j] = urb[j] /\ j \in Queued \cup Unsent
    <3>1. \A j \in Queued' \cup Unsent' : j \in 1 .. NumUrbs /\ j \in Queued \cup Unsent
      BY <1>7 DEF Queued, Unsent, SameOut
    <3>2. \A j \in Queued' \cup Unsent' : urb'[j].state # "done"
      BY DEF Queued, Unsent
    <3> QED
      BY <1>6, <3>1, <3>2
  <2> QED
    BY <2>1 DEF Data, Filling
<1>10. OverflowLast'
  <2>1. \A j \in 1 .. NumUrbs : urb[j].status # "overflow"
    BY <1>3 DEF Data, OverflowLast
  <2>2. \A j \in 1 .. NumUrbs : urb'[j].status = "overflow" => j = i /\ u.status = "overflow"
    BY <1>6, <2>1
  <2>3. ASSUME u.status = "overflow"
        PROVE  Queued' = {} /\ done' # <<>> /\ done'[Len(done')] = i
    <3>1. \A j \in 1 .. NumUrbs : j \in Queued => j = NumUrbs
      BY <1>3, <2>3, Sizes DEF Heads, Queued
    <3>2. along = {}
      BY <1>3, <1>4, <2>3, <3>1
    <3>3. Len(later) = 0 /\ later = <<>>
      BY <1>5, <3>2, EmptySeq, LenProperties
    <3>4. done' = Append(done, i)
      BY <1>2, <1>3, <3>3, ConcatEmptySeq, AppendIsConcat, AppendProperties DEF Types
    <3>5. Queued' = {}
      BY <1>6, <1>7, <2>3, <3>1 DEF SameOut, Queued
    <3> QED
      BY <1>3, <3>4, <3>5, AppendProperties, LenProperties DEF Types
  <2> QED
    BY <1>6, <2>2, <2>3 DEF OverflowLast
<1> QED
  BY <1>7, <1>8, <1>9, <1>10 DEF Data

\* The count does not change as long as the same URBs are out.
LEMMA CountKept ==
  ASSUME Phases, Counted, SameOut, NumUrbs' = NumUrbs,
         UNCHANGED <<user, retired, cursor, completed, handler, current>>
  PROVE  Counted'
  BY DEF Phases, Counted, SameOut, Flag

\* A packet comes in; it overflows a URB only if that is the last one.
LEMMA ReceiveKept ==
  ASSUME IInv, Work, NEW i \in 1 .. NumUrbs, NEW n \in 0 .. PacketSize, Receive(i, n)
  PROVE  Kept'
<1> DEFINE room == UrbLen(i) - urb[i].actual
           u == [urb[i] EXCEPT !.from = IF urb[i].actual = 0 THEN sent ELSE @,
                               !.actual = IF n > room THEN UrbLen(i) ELSE @ + n]
<1>1. Types /\ Phases /\ Gone /\ Counted /\ Settled /\ Data
  BY DEF IInv, Control, Kept
<1>2. /\ NumUrbs' = NumUrbs /\ UNCHANGED <<mode, connected, reapCap>> /\ connected
      /\ UNCHANGED <<user, handler, path, cursor, current, completed, retired>>
  BY ModeKept, AdapterFrame DEF Adapter, Receive
<1>3. i \in Heads /\ i \in Queued /\ i \in 1 .. MaxUrbs /\ urb[i] \in Urb /\ n \in Nat
      /\ UrbLen(i) \in Nat /\ PacketSize \in Nat
  BY <1>1, Sizes, TransferAssumption DEF Receive, Heads, Types
<1>4. u \in Urb /\ u.status = urb[i].status /\ u.state = "queued"
      /\ u.actual = IF n > room THEN UrbLen(i) ELSE urb[i].actual + n
  <2>1. (IF n > room THEN UrbLen(i) ELSE urb[i].actual + n) \in Nat
    BY <1>3 DEF Urb
  <2>2. (IF urb[i].actual = 0 THEN sent ELSE urb[i].from) \in Int
    BY <1>1, <1>3 DEF Types, Urb
  <2> QED
    BY <1>3, <2>1, <2>2 DEF Urb, Queued
<1>5. i < NumUrbs => n <= room
  <2> SUFFICES ASSUME i < NumUrbs PROVE n <= room
    OBVIOUS
  <2>1. urb[i].actual \in Nat /\ urb[i].actual < UrbLength /\ urb[i].actual % PacketSize = 0
    BY <1>1, <1>3 DEF Data, Filling, Urb
  <2>2. UrbLen(i) = UrbLength /\ UrbLength \in Nat
    BY <1>1, Sizes, TransferAssumption
  <2> QED
    BY <1>3, <2>1, <2>2, RoomForPacket
<1>6. Data' /\ SameOut
  <2>1. ASSUME NEW s \in {"ok", "remoteio", "overflow"}, s = "overflow" => n > room,
               Ends(i, [u EXCEPT !.state = "done", !.status = s])
        PROVE  Data' /\ SameOut
    <3> DEFINE v == [u EXCEPT !.state = "done", !.status = s]
    <3>1. v \in Urb /\ v.state = "done" /\ v.status = s
      BY <1>4 DEF Urb
    <3>2. s = "overflow" => i = NumUrbs
      BY <1>3, <1>5, <2>1, Sizes, <1>1 DEF Urb
    <3> HIDE DEF v, u
    <3> QED
      BY <1>1, <1>2, <1>3, <2>1, <3>1, <3>2, EndsData DEF v
  <2>2. ASSUME n < room, n = PacketSize, urb' = [urb EXCEPT ![i] = u], done' = done
        PROVE  Data' /\ SameOut
    <3> HIDE DEF u
    <3>1. urb'[i] = u /\ \A j \in 1 .. NumUrbs : j # i => urb'[j] = urb[j]
      BY <1>1, <1>3, <2>2 DEF Types
    <3>2. SameOut
      BY <1>2, <1>3, <1>4, <3>1 DEF SameOut, Out, Queued, Unsent
    <3>3. DoneAreDone'
      BY <1>1, <1>2, <1>3, <2>2, <3>1 DEF Data, DoneAreDone, Distinct, Live, Queued
    <3>4. i < NumUrbs => u.actual < UrbLength /\ u.actual % PacketSize = 0
      <4> SUFFICES ASSUME i < NumUrbs
                   PROVE  u.actual < UrbLength /\ u.actual % PacketSize = 0
        OBVIOUS
      <4>1. urb[i].actual \in Nat /\ urb[i].actual < UrbLength /\ urb[i].actual % PacketSize = 0
        BY <1>1, <1>3 DEF Data, Filling, Urb
      <4>2. UrbLen(i) = UrbLength /\ UrbLength \in Nat
        BY <1>1, Sizes, TransferAssumption
      <4>3. u.actual = urb[i].actual + PacketSize /\ u.actual < UrbLength
        BY <1>3, <1>4, <2>2, <4>1, <4>2
      <4> QED
        BY <4>1, <4>3, RoomForPacket
    <3>5. Filling'
      BY <1>1, <1>2, <3>1, <3>2, <3>4 DEF Data, Filling, SameOut, Queued, Unsent
    <3>6. OverflowLast'
      BY <1>1, <1>2, <1>3, <1>4, <3>1 DEF Data, OverflowLast
    <3> QED
      BY <3>2, <3>3, <3>5, <3>6 DEF Data
  <2> HIDE DEF u
  <2>3. \/ n > room /\ Ends(i, [u EXCEPT !.state = "done", !.status = "overflow"])
        \/ Ends(i, [u EXCEPT !.state = "done", !.status = "remoteio"])
        \/ Ends(i, [u EXCEPT !.state = "done", !.status = "ok"])
        \/ n < room /\ n = PacketSize /\ urb' = [urb EXCEPT ![i] = u] /\ done' = done
    BY DEF Receive, u
  <2> QED
    BY <2>1, <2>2, <2>3
<1> HIDE DEF u
<1>7. Gone'
  BY <1>1, <1>2 DEF Gone
<1>8. Counted'
  BY <1>1, <1>2, <1>6, CountKept
<1>9. Settled'
  BY <1>1, <1>2, <1>3 DEF Settled, NoneOut
<1> QED
  BY <1>6, <1>7, <1>8, <1>9 DEF Kept

\* A URB ends with an error.
LEMMA FaultKept ==
  ASSUME IInv, Work, NEW i \in 1 .. NumUrbs, NEW s \in {"stall", "error"}, Fault(i, s)
  PROVE  Kept'
<1>1. Types /\ Phases /\ Gone /\ Counted /\ Settled /\ Data
  BY DEF IInv, Control, Kept
<1>2. /\ NumUrbs' = NumUrbs /\ UNCHANGED <<mode, connected, reapCap>> /\ connected
      /\ UNCHANGED <<user, handler, path, cursor, current, completed, retired>>
  BY ModeKept, AdapterFrame DEF Adapter, Fault
<1>3. i \in Heads /\ i \in Queued /\ i \in 1 .. MaxUrbs /\ urb[i] \in Urb
  BY <1>1, Sizes DEF Fault, Heads, Types
<1>4. Data' /\ SameOut
  <2> DEFINE v == [urb[i] EXCEPT !.state = "done", !.status = s]
  <2>1. v \in Urb /\ v.state = "done" /\ v.status # "overflow"
    BY <1>3 DEF Urb
  <2>2. Ends(i, v)
    BY DEF Fault
  <2> HIDE DEF v
  <2> QED
    BY <1>1, <1>2, <1>3, <2>1, <2>2, EndsData
<1>5. Gone'
  BY <1>1, <1>2 DEF Gone
<1>6. Counted'
  BY <1>1, <1>2, <1>4, CountKept
<1>7. Settled'
  BY <1>1, <1>2, <1>3 DEF Settled, NoneOut
<1> QED
  BY <1>4, <1>5, <1>6, <1>7 DEF Kept

\* The adapter goes away, and every queued URB ends.
LEMMA UnplugKept ==
  ASSUME IInv, Work, Unplug
  PROVE  Kept'
<1>1. Types /\ Phases /\ Gone /\ Counted /\ Settled /\ Data
  BY DEF IInv, Control, Kept
<1>2. /\ NumUrbs' = NumUrbs /\ UNCHANGED <<mode, reapCap>> /\ connected /\ ~connected'
      /\ UNCHANGED <<user, handler, path, cursor, current, completed, retired>>
  BY ModeKept, AdapterFrame DEF Adapter, Unplug
<1>3. PICK later \in Ascending(Queued) : done' = done \o later
  BY DEF Unplug
<1>4. Queued \in SUBSET (1 .. NumUrbs)
  BY DEF Queued
<1>5. later \in Seq(Nat) /\ Distinct(later) /\ \A k \in 1 .. Len(later) : later[k] \in Queued
  BY <1>1, <1>3, <1>4, AscendingDistinct
<1>6. /\ \A j \in Queued : urb'[j].state = "done"
      /\ \A j \in 1 .. NumUrbs : j \notin Queued => urb'[j] = urb[j]
  <2>1. \A j \in 1 .. NumUrbs : j \in DOMAIN urb /\ urb[j] \in Urb
    BY <1>1, Sizes DEF Types
  <2> QED
    BY <1>4, <2>1 DEF Unplug, Urb
<1>7. SameOut /\ Queued' = {}
  BY <1>2, <1>4, <1>6 DEF SameOut, Out, Queued, Unsent
<1>8. DoneAreDone'
  <2>1. \A j \in 1 .. NumUrbs : urb[j].state = "done" => urb'[j].state = "done"
    BY <1>4, <1>6
  <2> QED
    BY <1>1, <1>2, <1>3, <1>5, <1>6, <2>1, ListDone DEF Data, Live
<1>9. Queued = {} => done' = done /\ \A j \in 1 .. NumUrbs : urb'[j] = urb[j]
  <2> SUFFICES ASSUME Queued = {}
               PROVE  done' = done /\ \A j \in 1 .. NumUrbs : urb'[j] = urb[j]
    OBVIOUS
  <2>1. later = <<>>
    BY <1>5, EmptySeq, LenProperties
  <2> QED
    BY <1>1, <1>3, <1>6, <2>1, ConcatEmptySeq DEF Types
<1>10. Filling'
  BY <1>1, <1>2, <1>4, <1>6, <1>7 DEF Data, Filling, SameOut, Queued, Unsent
<1>11. OverflowLast'
  <2>1. \A j \in 1 .. NumUrbs : urb'[j].status = "overflow" => urb[j].status = "overflow"
    <3>1. \A j \in Queued : urb'[j].status = "shutdown"
      <4>1. \A j \in 1 .. NumUrbs : j \in DOMAIN urb /\ urb[j] \in Urb
        BY <1>1, Sizes DEF Types
      <4> QED
        BY <1>4, <4>1 DEF Unplug, Urb
    <3> QED
      BY <1>6, <3>1
  <2> QED
    BY <1>1, <1>2, <1>7, <1>9, <2>1 DEF Data, OverflowLast, Live
<1>12. Gone'
  BY <1>1, <1>2, <1>7 DEF Gone
<1>13. Counted'
  BY <1>1, <1>2, <1>7, CountKept
<1>14. Settled'
  BY <1>1, <1>2, <1>7, <1>9 DEF Settled, NoneOut, Live
<1> QED
  BY <1>8, <1>10, <1>11, <1>12, <1>13, <1>14 DEF Kept, Data

\* Steps that leave the URBs alone.
LEMMA DataSame ==
  ASSUME Data, NumUrbs' = NumUrbs, UNCHANGED <<urb, done, connected, reapCap>>
  PROVE  /\ Data' /\ SameOut /\ Queued' = Queued
         /\ NoneOut <=> NoneOut'
  BY DEF Data, DoneAreDone, Distinct, Filling, OverflowLast, SameOut, NoneOut, Out, Queued, Unsent,
         Live

\* With nothing out there is nothing to be reaped.
LEMMA NothingOut ==
  ASSUME Types, DoneAreDone, Out = {}
  PROVE  NoneOut
<1>1. Queued = {}
  BY DEF Out, Queued
<1>2. ASSUME Live, done # <<>> PROVE FALSE
  <2>1. done \in Seq(Nat) /\ Len(done) \in Nat /\ Len(done) >= 1
    BY <1>2 DEF Types
  <2>2. done[1] \in Out
    BY <1>2, <2>1 DEF DoneAreDone, Out
  <2> QED
    BY <2>2
<1> QED
  BY <1>1, <1>2 DEF NoneOut

\* Submission, URB by URB, or up to the one that is refused.
LEMMA SubmitKept ==
  ASSUME IInv, Work,
         \/ Submit \/ SubmitUrb
         \/ \E e \in {"nodev", "remoteio", "nomem"} : SubmitFails(e)
  PROVE  Kept'
<1>1. Types /\ Locks /\ Phases /\ Gone /\ Counted /\ Settled /\ Data
  BY DEF IInv, Control, Kept
<1>2. /\ NumUrbs' = NumUrbs /\ reapCap' = reapCap
      /\ NumUrbs \in Nat /\ NumUrbs >= 1 /\ NumUrbs <= MaxUrbs /\ MaxUrbs \in Nat
      /\ IsFiniteSet(Out) /\ Cardinality(Out) \in Nat
  BY <1>1, ModeKept, Sizes, OutFinite
<1>3. CASE Submit
  <2>1. UNCHANGED <<urb, done, connected, handler, path, retired, current, completed>>
    BY <1>3 DEF Submit, kernel, device, event, result
  <2>2. Data' /\ SameOut /\ Queued' = Queued
    BY <1>1, <1>2, <2>1, DataSame
  <2>3. Out = {}
    BY <1>1, <1>3 DEF Submit, Counted, Unsent, Out
  <2>4. Cardinality(Out) = 0
    BY <2>3, FS_EmptySet
  <2>5. Counted'
    BY <1>1, <1>2, <1>3, <2>1, <2>2, <2>4
    DEF Submit, Counted, Phases, SameOut, Flag, Resting
  <2>6. Gone' /\ Settled'
    BY <1>1, <1>2, <1>3, <2>1, <2>2 DEF Submit, Gone, Settled, Phases, Ending, Resting
  <2> QED
    BY <2>2, <2>5, <2>6 DEF Kept
<1>4. CASE SubmitUrb
  <2>1. /\ UNCHANGED <<done, connected, handler, path, retired, current, completed>> /\ connected
        /\ user = "submit" /\ user' \in {"submit", "wait"}
    BY <1>4 DEF SubmitUrb, event, tpriv, result, Flies
  <2>2. cursor \in 1 .. NumUrbs /\ cursor \in Unsent /\ NumUrbs \in Unsent /\ retired = 0
    BY <1>1, <1>2, <2>1 DEF Counted, Locks, Types
  <2>3. /\ urb'[cursor].state = "queued" /\ urb'[cursor].actual = urb[cursor].actual
        /\ urb'[cursor].status = urb[cursor].status
        /\ \A j \in 1 .. NumUrbs : j # cursor => urb'[j] = urb[j]
    <3>1. \A j \in 1 .. NumUrbs : j \in 1 .. MaxUrbs /\ urb[j] \in Urb
      BY <1>1, <1>2 DEF Types
    <3>2. urb' = [urb EXCEPT ![cursor] = [urb[cursor] EXCEPT !.state = "queued"]]
      BY <1>4 DEF SubmitUrb
    <3> QED
      BY <1>1, <2>2, <3>1, <3>2 DEF Types, Urb
  <2>4. /\ Out' = Out \cup {cursor} /\ cursor \notin Out
        /\ Queued' = Queued \cup {cursor} /\ Unsent' = Unsent \ {cursor}
    BY <1>2, <2>2, <2>3 DEF Out, Queued, Unsent
  <2>5. Cardinality(Out') = Cardinality(Out) + 1
    BY <1>2, <2>4, FS_AddElement
  <2>6. DoneAreDone'
    BY <1>1, <1>2, <2>1, <2>2, <2>3 DEF Data, DoneAreDone, Distinct, Live, Unsent
  <2>7. Filling'
    BY <1>1, <1>2, <2>2, <2>3, <2>4 DEF Data, Filling, Queued, Unsent
  <2>8. OverflowLast'
    <3>1. \A j \in 1 .. NumUrbs : urb[j].status # "overflow"
      BY <1>1, <2>2 DEF Data, OverflowLast, Unsent
    <3> QED
      BY <1>2, <2>3, <3>1 DEF OverflowLast
  <2>9. handler \in Resting \cup {"reaped"} /\ ~completed
    BY <1>1, <2>1 DEF Phases
  <2>10. Counted'
    <3>1. handler = "reaped" => urb'[current].state = "reaped"
      BY <1>1, <2>2, <2>3 DEF Counted, Phases, Unsent
    <3>2. Cardinality(Out) + Flag = cursor - 1 /\ Flag \in {0, 1} /\ Flag' = Flag
      BY <1>1, <2>1 DEF Counted, Flag
    <3>3. cursor \in Nat /\ cursor .. NumUrbs \subseteq Unsent
      BY <1>1, <2>1 DEF Counted, Types
    <3>4. CASE cursor = NumUrbs /\ user' = "wait"
      BY <1>2, <2>1, <2>2, <2>5, <3>1, <3>2, <3>3, <3>4 DEF Counted
    <3>5. CASE cursor < NumUrbs /\ user' = "submit" /\ cursor' = cursor + 1
      <4>1. cursor' .. NumUrbs' \subseteq Unsent'
        BY <1>2, <2>4, <3>3, <3>5
      <4>2. Cardinality(Out') + Flag' = cursor' - 1
        BY <1>2, <2>5, <3>2, <3>3, <3>5
      <4> QED
        BY <2>1, <2>2, <3>1, <3>3, <3>5, <4>1, <4>2 DEF Counted
    <3> QED
      BY <1>4, <2>1, <3>4, <3>5 DEF SubmitUrb, Flies
  <2>11. Gone' /\ Settled'
    BY <1>1, <1>2, <2>1, <2>9 DEF Gone, Settled, Resting, Ending
  <2> QED
    BY <2>6, <2>7, <2>8, <2>10, <2>11 DEF Kept, Data
<1>5. ASSUME NEW e, SubmitFails(e) PROVE Kept'
  <2>1. /\ UNCHANGED <<urb, done, connected, handler, path, current, completed>>
        /\ user = "submit" /\ cursor >= 1 /\ cursor <= NumUrbs /\ cursor \in Nat
    BY <1>1, <1>2, <1>5 DEF SubmitFails, kernel, device, event, result, Counted, Locks, Types
  <2>2. Data' /\ SameOut /\ Queued' = Queued /\ (NoneOut <=> NoneOut')
    BY <1>1, <1>2, <2>1, DataSame
  <2>3. handler \in Resting \cup {"reaped"} /\ ~completed
    BY <1>1, <2>1 DEF Phases
  <2>4. Gone'
    BY <1>1, <1>2, <2>1, <2>2 DEF Gone
  <2>5. CASE cursor = 1
    <3>1. user' = "undo" /\ retired' = retired /\ retired = 0
      BY <1>1, <1>5, <2>1, <2>5 DEF SubmitFails, Counted
    <3>2. 1 .. NumUrbs \subseteq Unsent
      BY <1>1, <2>1, <2>5 DEF Counted
    <3>3. Out = {}
      BY <3>2 DEF Out, Unsent
    <3>4. NoneOut
      BY <1>1, <3>3, NothingOut DEF Data
    <3>5. Counted' /\ Settled'
      BY <1>1, <1>2, <2>1, <2>2, <3>1, <3>2, <3>4 DEF Counted, Settled, SameOut, Phases
    <3> QED
      BY <2>2, <2>4, <3>5 DEF Kept
  <2>6. CASE cursor > 1
    <3>1. user' \in {"wait", "discard"} /\ retired' = NumUrbs - cursor + 1 /\ retired = 0
      BY <1>1, <1>2, <1>5, <2>1, <2>6 DEF SubmitFails, Flies, CountUnsent, Counted
    <3>2. Counted' /\ Settled'
      BY <1>1, <1>2, <2>1, <2>2, <2>3, <3>1
      DEF Counted, Settled, SameOut, Phases, Flag, Resting, Ending
    <3> QED
      BY <2>2, <2>4, <3>2 DEF Kept
  <2> QED
    BY <2>1, <2>5, <2>6
<1> QED
  BY <1>3, <1>4, <1>5

\* A step of discard_urbs that leaves everything else of the count.
LEMMA DiscardKept ==
  ASSUME IInv, DiscardOne, cursor \in 1 .. NumUrbs, NumUrbs' = NumUrbs,
         UNCHANGED <<connected, reapCap, user, handler, path, current, completed, retired>>,
         user # "submit"
  PROVE  Kept'
<1>1. Types /\ Phases /\ Gone /\ Counted /\ Settled /\ Data
  BY DEF IInv, Control, Kept
<1>2. Data' /\ SameOut /\ (NoneOut => NoneOut')
  BY <1>1, DiscardData
<1>3. ~connected => UNCHANGED kernel
  BY DEF DiscardOne, Kill
<1>4. Gone'
  BY <1>1, <1>2, <1>3 DEF Gone, SameOut, kernel
<1>5. Counted'
  BY <1>1, <1>2 DEF Counted, SameOut, Flag, Phases
<1>6. Settled'
  BY <1>1, <1>2 DEF Settled
<1> QED
  BY <1>2, <1>4, <1>5, <1>6 DEF Kept

\* A step that leaves the URBs and where the handler is alone.
LEMMA QuietKept ==
  ASSUME IInv, NumUrbs' = NumUrbs,
         UNCHANGED <<urb, done, connected, reapCap, handler, path, current, completed, retired>>,
         \/ user' = user /\ user # "submit"
         \/ UNCHANGED <<user, cursor>>
         \/ {user, user'} \subseteq {"discard", "wait", "cancel"}
  PROVE  Kept'
<1>1. Types /\ Phases /\ Gone /\ Counted /\ Settled /\ Data
  BY DEF IInv, Control, Kept
<1>2. Data' /\ SameOut /\ Queued' = Queued /\ (NoneOut <=> NoneOut')
  BY <1>1, DataSame
<1>3. Gone' /\ Settled'
  BY <1>1, <1>2 DEF Gone, Settled
<1>4. Counted'
  BY <1>1, <1>2 DEF Counted, SameOut, Flag, Phases
<1> QED
  BY <1>2, <1>3, <1>4 DEF Kept

\* The transfer is freed, and another one may begin.
LEMMA BlankKept ==
  ASSUME IInv, Work, SubmitUndo \/ Return
  PROVE  Kept'
<1>1. Types /\ Locks /\ Phases /\ Gone /\ Counted /\ Settled /\ Data
  BY DEF IInv, Control, Kept
<1>2. /\ NumUrbs' = NumUrbs /\ reapCap' = reapCap
      /\ NumUrbs \in Nat /\ NumUrbs <= MaxUrbs /\ MaxUrbs \in Nat
  BY <1>1, ModeKept, Sizes
<1>3. /\ UNCHANGED <<done, connected, handler, path, current>>
      /\ user' = "idle" /\ Blank /\ (user = "undo" \/ completed)
  BY DEF SubmitUndo, Return, device, event
<1>4. NoneOut /\ handler \in Resting
  BY <1>1, <1>3 DEF Settled, Phases
<1>5. retired' = 0 /\ ~completed' /\ \A i \in 1 .. NumUrbs : urb'[i] = Fresh
  BY <1>2, <1>3 DEF Blank
<1>6. Queued' = {} /\ 1 .. NumUrbs \subseteq Unsent'
  BY <1>2, <1>5 DEF Queued, Unsent, Fresh
<1>7. Gone' /\ Settled'
  BY <1>1, <1>2, <1>3, <1>4, <1>6 DEF Gone, Settled, NoneOut, Live
<1>8. Counted'
  BY <1>2, <1>3, <1>4, <1>5, <1>6 DEF Counted, Resting, Ending
<1>9. DoneAreDone'
  BY <1>2, <1>3, <1>4 DEF DoneAreDone, Distinct, NoneOut, Live
<1>10. Filling' /\ OverflowLast'
  BY <1>2, <1>5, <1>6, NoneFilled DEF Filling, OverflowLast, Unsent, Fresh
<1> QED
  BY <1>7, <1>8, <1>9, <1>10 DEF Kept, Data

\* A cancellation, by the submission that failed, the caller or the clock.
LEMMA CancelKept ==
  ASSUME IInv, Work, SubmitDiscard \/ UserCancel \/ TimerCancel
  PROVE  Kept'
<1>1. Types /\ Locks
  BY DEF IInv, Control
<1>2. NumUrbs' = NumUrbs /\ reapCap' = reapCap /\ NumUrbs \in Nat
  BY <1>1, ModeKept, Sizes
<1>3. UNCHANGED <<connected, handler, path, current, completed, retired>>
  BY DEF SubmitDiscard, UserCancel, TimerCancel, device, event, result, tpriv
<1>4. CASE SubmitDiscard
  <2>1. CASE cursor > 0 /\ DiscardOne /\ user' = user
    BY <1>1, <1>2, <1>3, <1>4, <2>1, DiscardKept DEF SubmitDiscard, Locks, Types
  <2>2. CASE user' = "wait" /\ UNCHANGED kernel
    BY <1>2, <1>3, <1>4, <2>2, QuietKept DEF SubmitDiscard, kernel
  <2> QED
    BY <1>4, <2>1, <2>2 DEF SubmitDiscard, Flies
<1>5. CASE UserCancel
  <2>1. CASE user = "cancel" /\ cursor > 0 /\ DiscardOne /\ user' = user
    BY <1>1, <1>2, <1>3, <2>1, DiscardKept DEF Locks, Types
  <2>2. CASE {user, user'} \subseteq {"wait", "cancel"} /\ UNCHANGED kernel
    BY <1>2, <1>3, <2>2, QuietKept DEF kernel
  <2> QED
    BY <1>5, <2>1, <2>2 DEF UserCancel
<1>6. CASE TimerCancel
  <2>1. user' = user
    BY <1>6 DEF TimerCancel
  <2>2. CASE timer = "discard" /\ cursor > 0 /\ DiscardOne
    BY <1>1, <1>2, <1>3, <2>1, <2>2, DiscardKept DEF Locks, Types
  <2>3. CASE CancelRefused /\ UNCHANGED kernel
    BY <1>2, <1>3, <2>1, <2>3, QuietKept DEF CancelRefused, locking, kernel
  <2>4. CASE (itLock = "none" \/ timer = "discard") /\ UNCHANGED kernel
    BY <1>1, <1>2, <1>3, <2>1, <2>4, QuietKept DEF Locks, kernel
  <2> QED
    BY <1>6, <2>2, <2>3, <2>4 DEF TimerCancel, CancelBegins
<1> QED
  BY <1>4, <1>5, <1>6

\* A URB leaves the list of those that are done, and is being handled.
LEMMA ReapKept ==
  ASSUME IInv, Work, Reap
  PROVE  Kept'
<1>1. Types /\ Phases /\ Gone /\ Counted /\ Settled /\ Data
  BY DEF IInv, Control, Kept
<1>2. /\ NumUrbs' = NumUrbs /\ reapCap' = reapCap /\ NumUrbs \in Nat
      /\ NumUrbs <= MaxUrbs /\ MaxUrbs \in Nat
      /\ IsFiniteSet(Out) /\ Cardinality(Out) \in Nat
  BY <1>1, ModeKept, Sizes, OutFinite
<1>3. /\ UNCHANGED <<connected, path, user, cursor, completed, retired>> /\ handler' = "reaped"
      /\ done # <<>> /\ Live /\ current' = Head(done) /\ done' = Tail(done)
  BY DEF Reap, device, result, tpriv, locking, Live
<1>4. /\ user \notin {"idle", "undo"} /\ ~completed /\ handler \in Resting
      /\ current' \in 1 .. NumUrbs /\ urb[current'].state = "done"
  BY ReapWhileOut
<1>5. /\ urb'[current'].state = "reaped" /\ urb'[current'].status = urb[current'].status
      /\ \A j \in 1 .. NumUrbs : j # current' => urb'[j] = urb[j]
  <2>1. \A j \in 1 .. NumUrbs : j \in 1 .. MaxUrbs /\ urb[j] \in Urb
    BY <1>1, <1>2 DEF Types
  <2>2. urb' = [urb EXCEPT ![current'] = [urb[current'] EXCEPT !.state = "reaped"]]
    BY DEF Reap
  <2> QED
    BY <1>1, <1>4, <2>1, <2>2 DEF Types, Urb
<1>6. /\ Out' = Out \ {current'} /\ current' \in Out
      /\ Queued' = Queued /\ Unsent' = Unsent
  BY <1>2, <1>4, <1>5 DEF Out, Queued, Unsent
<1>7. Cardinality(Out') = Cardinality(Out) - 1
  BY <1>2, <1>6, FS_RemoveElement
<1>8. Counted'
  <2>1. Flag = 0 /\ Flag' = 1 /\ handler \notin Ending
    BY <1>3, <1>4 DEF Flag, Resting, Ending
  <2>2. Cardinality(Out') + Flag' = Cardinality(Out) + Flag
    BY <1>2, <1>7, <2>1
  <2>3. user = "submit" => /\ retired' = 0 /\ cursor' >= 1
                           /\ cursor' .. NumUrbs' \subseteq Unsent'
                           /\ Cardinality(Out') + Flag' = cursor' - 1
    BY <1>1, <1>2, <1>3, <1>6, <2>2 DEF Counted
  <2>4. user \in {"discard", "wait", "cancel"} => retired' + Cardinality(Out') + Flag' = NumUrbs'
    <3>1. user \in {"discard", "wait", "cancel"} => retired + Cardinality(Out) + Flag = NumUrbs
      BY <1>1, <1>4, <2>1 DEF Counted
    <3>2. retired \in Nat
      BY <1>1 DEF Types
    <3> QED
      BY <1>2, <1>3, <1>7, <2>1, <3>1, <3>2
  <2>5. urb'[current'].state = "reaped"
    BY <1>5
  <2> QED
    BY <1>3, <1>4, <2>3, <2>4, <2>5 DEF Counted
<1>9. /\ done \in Seq(Nat) /\ Len(done) \in Nat /\ Len(done) >= 1 /\ Head(done) = done[1]
      /\ Len(done') = Len(done) - 1
      /\ \A k \in 1 .. Len(done) - 1 : done'[k] = done[k + 1]
  BY <1>1, <1>3, HeadTailProperties DEF Types
<1>10. DoneAreDone'
  <2>1. /\ \A k \in 1 .. Len(done) : done[k] \in 1 .. NumUrbs /\ urb[done[k]].state = "done"
        /\ \A k, l \in 1 .. Len(done) : k # l => done[k] # done[l]
    BY <1>1, <1>3 DEF Data, DoneAreDone, Distinct
  <2>2. \A k \in 1 .. Len(done') : done'[k] \in 1 .. NumUrbs /\ done'[k] # current'
                                   /\ urb[done'[k]].state = "done"
    <3> SUFFICES ASSUME NEW k \in 1 .. Len(done')
                 PROVE  done'[k] \in 1 .. NumUrbs /\ done'[k] # current'
                        /\ urb[done'[k]].state = "done"
      OBVIOUS
    <3>1. k + 1 \in 1 .. Len(done) /\ k + 1 # 1 /\ 1 \in 1 .. Len(done) /\ done'[k] = done[k + 1]
      BY <1>9
    <3> QED
      BY <1>3, <1>9, <2>1, <3>1
  <2>3. Distinct(done')
    <3> SUFFICES ASSUME NEW k \in 1 .. Len(done'), NEW l \in 1 .. Len(done'), k # l
                 PROVE  done'[k] # done'[l]
      BY DEF Distinct
    <3>1. k \in 1 .. Len(done) - 1 /\ l \in 1 .. Len(done) - 1
      BY <1>9
    <3>2. k + 1 \in 1 .. Len(done) /\ l + 1 \in 1 .. Len(done) /\ k + 1 # l + 1
      BY <1>9, <3>1
    <3>3. done'[k] = done[k + 1] /\ done'[l] = done[l + 1]
      BY <1>9, <3>1
    <3> QED
      BY <2>1, <3>2, <3>3
  <2> QED
    BY <1>2, <1>5, <2>2, <2>3 DEF DoneAreDone
<1>11. Filling'
  BY <1>1, <1>2, <1>4, <1>5, <1>6 DEF Data, Filling, Queued, Unsent
<1>12. OverflowLast'
  <2> SUFFICES ASSUME NEW i \in 1 .. NumUrbs, urb'[i].status = "overflow"
               PROVE  /\ i = NumUrbs /\ Queued' = {} /\ urb'[i].state \in {"done", "reaped"}
                      /\ \/ urb'[i].state = "done" /\ done' # <<>> /\ done'[Len(done')] = i
                         \/ urb'[i].state = "reaped" /\ done' = <<>>
    BY <1>2 DEF OverflowLast
  <2>1. urb[i].status = "overflow"
    BY <1>5
  <2>2. i = NumUrbs /\ Queued = {} /\ urb[i].state = "done" /\ done[Len(done)] = i
    BY <1>1, <1>3, <2>1 DEF Data, OverflowLast
  <2>3. CASE Len(done) = 1
    <3>1. done' = <<>> /\ i = current'
      BY <1>1, <1>3, <1>9, <2>2, <2>3, EmptySeq, HeadTailProperties DEF Types
    <3> QED
      BY <1>5, <1>6, <2>2, <3>1
  <2>4. CASE Len(done) > 1
    <3>1. done' # <<>> /\ Len(done') \in 1 .. Len(done) - 1 /\ done'[Len(done')] = i
      BY <1>9, <2>2, <2>4, EmptySeq
    <3>2. i # current'
      <4>1. 1 \in 1 .. Len(done) /\ Len(done) \in 1 .. Len(done) /\ Len(done) # 1
        BY <1>9, <2>4
      <4> QED
        BY <1>1, <1>3, <1>9, <2>2, <4>1 DEF Data, DoneAreDone, Distinct
    <3> QED
      BY <1>5, <1>6, <2>2, <3>1, <3>2
  <2> QED
    BY <1>9, <2>3, <2>4
<1>13. Gone'
  BY <1>1, <1>3, <1>6 DEF Gone, Live
<1>14. Settled'
  BY <1>3, <1>4 DEF Settled, Ending
<1> QED
  BY <1>8, <1>10, <1>11, <1>12, <1>13, <1>14 DEF Kept, Data

\* The event thread goes back to where it looks for the next URB.
LEMMA BackTo ==
  ASSUME Types, Gone, handler' = Back, UNCHANGED <<path, connected, reapCap, done>>,
         Queued' = Queued
  PROVE  Gone' /\ handler' \in Resting /\ handler' \notin Ending \cup {"reaped"}
<1>1. CASE path = "events"
  BY <1>1 DEF Gone, Back, Resting, Ending
<1>2. CASE path = "drain"
  BY <1>2 DEF Gone, Back, Resting, Ending
<1>3. CASE path = "sweep"
  BY <1>3 DEF Gone, Back, Resting, Ending
<1> QED
  BY <1>1, <1>2, <1>3 DEF Types

\* The event thread goes from one phase to the next; the URBs stay as they are.
LEMMA PassOnKept ==
  ASSUME IInv, Work, PollError \/ Sweep \/ Seize \/ Settle \/ Unlist \/ Land \/ Callback
  PROVE  Kept'
<1>1. Types /\ Phases /\ Gone /\ Counted /\ Settled /\ Data
  BY DEF IInv, Control, Kept
<1>2. /\ NumUrbs' = NumUrbs
      /\ UNCHANGED <<urb, done, connected, reapCap, user, cursor, retired>>
  BY ModeKept DEF PollError, Sweep, Seize, Settle, Unlist, Land, Callback, kernel, device, tpriv,
                  locking
<1>3. Data' /\ SameOut /\ Queued' = Queued /\ (NoneOut <=> NoneOut')
  BY <1>1, <1>2, DataSame
<1>4. CASE PollError \/ Sweep
  <2>1. /\ handler \in Resting /\ handler' \in {"drain", "seize", "poll"}
        /\ completed' = completed /\ handler \notin Ending /\ handler' \notin Ending
    BY <1>4 DEF PollError, Sweep, Drained, result, Resting, Ending
  <2>2. Counted' /\ Settled'
    BY <1>1, <1>2, <1>3, <2>1 DEF Counted, Settled, SameOut, Flag, Resting
  <2>3. Gone'
    BY <1>1, <1>2, <1>3, <1>4 DEF Gone, PollError, Sweep, Drained
  <2> QED
    BY <1>3, <2>2, <2>3 DEF Kept
<1>5. CASE Seize \/ Settle \/ Unlist \/ Land
  <2>1. /\ handler \in Ending \cup {"seize"} /\ handler' \in {"unlist", "land", "callback"}
        /\ UNCHANGED <<completed, path>>
    BY <1>5 DEF Seize, Settle, Unlist, Land, result, Ending
  <2>2. NoneOut
    BY <1>1, <2>1 DEF Gone, Settled, NoneOut, Live
  <2>3. Counted' /\ Settled'
    BY <1>1, <1>2, <1>3, <2>1, <2>2 DEF Counted, Settled, SameOut, Flag, Phases, Ending, Resting
  <2>4. Gone'
    BY <1>1, <1>2, <1>3, <2>1 DEF Gone
  <2> QED
    BY <1>3, <2>3, <2>4 DEF Kept
<1>6. CASE Callback
  <2>1. handler = "callback" /\ handler' = Back /\ completed' /\ path' = path
    BY <1>6 DEF Callback
  <2>2. NoneOut /\ user = "wait"
    BY <1>1, <2>1 DEF Settled, Phases, Ending
  <2>3. Gone' /\ handler' \notin Ending \cup {"reaped"}
    BY <1>1, <1>2, <1>3, <2>1, BackTo
  <2>4. Counted' /\ Settled'
    BY <1>1, <1>2, <1>3, <2>1, <2>2, <2>3 DEF Counted, Settled
  <2> QED
    BY <1>3, <2>3, <2>4 DEF Kept
<1> QED
  BY <1>4, <1>5, <1>6

\* While the event thread has the transfer, its caller waits.
LEMMA HandledWhileWaiting ==
  ASSUME Types, Locks, Phases, Counted,
         (handler = "reaped" /\ itLock = "none") \/ handler = "discard"
  PROVE  user = "wait" /\ ~completed /\ retired + Cardinality(Out) + Flag = NumUrbs
<1>1. user = "wait" /\ ~completed
  BY DEF Types, Locks, Phases, Resting
<1> QED
  BY <1>1 DEF Counted, Ending

\* Counting a URB as retired: the transfer is over when that was the last one,
\* or when it overflowed.
LEMMA RetireKept ==
  ASSUME IInv, Work, Retire
  PROVE  Kept'
<1>1. Types /\ Locks /\ Phases /\ Gone /\ Counted /\ Settled /\ Data
  BY DEF IInv, Control, Kept
<1>2. /\ NumUrbs' = NumUrbs /\ NumUrbs \in Nat /\ IsFiniteSet(Out) /\ Cardinality(Out) \in Nat
      /\ retired \in Nat
  BY <1>1, ModeKept, Sizes, OutFinite DEF Types
<1>3. /\ UNCHANGED <<urb, done, connected, reapCap, user, path, current, completed>>
      /\ handler = "reaped" /\ itLock = "none" /\ retired' = retired + 1
  BY DEF Retire, kernel, device, result
<1>4. Data' /\ SameOut /\ Queued' = Queued /\ (NoneOut <=> NoneOut')
  BY <1>1, <1>2, <1>3, DataSame
<1>5. user = "wait" /\ ~completed /\ retired + Cardinality(Out) + 1 = NumUrbs
  BY <1>1, <1>3, HandledWhileWaiting DEF Flag
<1>6. current \in 1 .. NumUrbs /\ urb[current].state = "reaped"
  BY <1>1, <1>3 DEF Phases, Counted
<1>7. CASE Finishes(urb[current])
  <2>1. handler' \in {"settle", "unlist"}
    BY <1>7 DEF Retire
  <2>2. NoneOut
    <3>1. CASE AllRetired
      <4>1. Cardinality(Out) = 0
        BY <1>2, <1>5, <3>1 DEF AllRetired
      <4>2. Out = {}
        BY <1>2, <4>1, FS_EmptySet
      <4> QED
        BY <1>1, <4>2, NothingOut DEF Data
    <3>2. CASE urb[current].status = "overflow"
      BY <1>1, <1>6, <3>2 DEF Data, OverflowLast, NoneOut
    <3> QED
      BY <1>7, <3>1, <3>2 DEF Finishes
  <2>3. Gone' /\ Settled' /\ Counted'
    BY <1>1, <1>3, <1>4, <1>5, <2>1, <2>2 DEF Gone, Settled, Counted, Ending
  <2> QED
    BY <1>4, <2>3 DEF Kept
<1>8. CASE ~Finishes(urb[current])
  <2>1. handler' = "discard" \/ handler' = Back
    BY <1>8 DEF Retire
  <2>2. Gone' /\ handler' \notin Ending \cup {"reaped"}
    <3>1. CASE handler' = "discard"
      BY <1>1, <1>3, <1>4, <3>1 DEF Gone, Ending
    <3>2. CASE handler' = Back
      BY <1>1, <1>3, <1>4, <3>2, BackTo
    <3> QED
      BY <2>1, <3>1, <3>2
  <2>3. retired' + Cardinality(Out') + Flag' = NumUrbs'
    BY <1>2, <1>3, <1>4, <1>5, <2>2 DEF SameOut, Flag
  <2>4. Counted' /\ Settled'
    BY <1>3, <1>5, <2>2, <2>3 DEF Counted, Settled
  <2> QED
    BY <1>4, <2>2, <2>4 DEF Kept
<1> QED
  BY <1>7, <1>8

\* Cancelling the rest of a transfer that was cut short.
LEMMA CutShortKept ==
  ASSUME IInv, Work, Discard
  PROVE  Kept'
<1>1. Types /\ Locks /\ Phases /\ Gone /\ Counted /\ Settled /\ Data
  BY DEF IInv, Control, Kept
<1>2. NumUrbs' = NumUrbs /\ NumUrbs \in Nat
  BY <1>1, ModeKept, Sizes
<1>3. /\ UNCHANGED <<connected, reapCap, user, path, current, completed, retired>>
      /\ handler = "discard"
  BY DEF Discard, device, result, tpriv
<1>4. user = "wait" /\ ~completed /\ retired + Cardinality(Out) + Flag = NumUrbs
  BY <1>1, <1>3, HandledWhileWaiting
<1>5. CASE cursor > current /\ DiscardOne /\ handler' = handler
  <2>1. cursor \in 1 .. NumUrbs
    BY <1>1, <1>2, <1>3, <1>5 DEF Types, Locks
  <2> QED
    BY <1>2, <1>3, <1>4, <1>5, <2>1, DiscardKept
<1>6. CASE handler' = Back /\ UNCHANGED kernel
  <2>1. UNCHANGED <<urb, done>>
    BY <1>6 DEF kernel
  <2>2. Data' /\ SameOut /\ Queued' = Queued
    BY <1>1, <1>2, <1>3, <2>1, DataSame
  <2>3. Gone' /\ handler' \notin Ending \cup {"reaped"}
    BY <1>1, <1>3, <1>6, <2>1, <2>2, BackTo
  <2>4. Flag' = Flag
    BY <1>3, <2>3 DEF Flag
  <2>5. Counted' /\ Settled'
    BY <1>2, <1>3, <1>4, <2>2, <2>3, <2>4 DEF Counted, Settled, SameOut
  <2> QED
    BY <2>2, <2>3, <2>5 DEF Kept
<1> QED
  BY <1>5, <1>6 DEF Discard

\* The clock: handle_timeouts before and after the cancellation.
LEMMA ClockKept ==
  ASSUME IInv, Work, TimeOut \/ TimerMark
  PROVE  Kept'
<1>1. NumUrbs' = NumUrbs
  BY ModeKept
<1>2. UNCHANGED <<urb, done, connected, reapCap, handler, path, current, completed, retired, user,
                  cursor>>
  BY DEF TimeOut, TimerMark, device, tpriv, event, result, kernel, locking
<1> QED
  BY <1>1, <1>2, QuietKept

\* Every step keeps what the parties rely on.
LEMMA KeptStep ==
  ASSUME IInv, Work
  PROVE  Kept'
<1>1. CASE Adapter
  BY <1>1, ReceiveKept, FaultKept, UnplugKept DEF Adapter
<1>2. CASE Submit \/ Caller
  BY <1>2, SubmitKept, BlankKept, CancelKept DEF Caller
<1>3. CASE UserCancel
  BY <1>3, CancelKept
<1>4. CASE EventThread
  BY <1>4, ReapKept, PassOnKept, RetireKept, CutShortKept DEF EventThread
<1>5. CASE Timer
  BY <1>5, ClockKept, CancelKept DEF Timer
<1> QED
  BY <1>1, <1>2, <1>3, <1>4, <1>5 DEF Work

\* A step in which nothing changes.
LEMMA Stutter ==
  ASSUME IInv, UNCHANGED transfer
  PROVE  IInv'
<1>1. UNCHANGED <<mode, reapCap, connected, user, timer, handler, path, itLock, cursor, retired,
                  current, sent, urb, done, completed, allocated, listed, inFlight>>
  BY DEF transfer, device, history, tpriv, flags, event, result, kernel, locking
<1>2. NumUrbs' = NumUrbs
  BY <1>1 DEF NumUrbs, BulkBufferLen
<1>3. Types' /\ Control'
  BY <1>1, <1>2 DEF IInv, Types, Control, Locks, Phases
<1>4. Data' /\ SameOut /\ Queued' = Queued /\ (NoneOut <=> NoneOut')
  BY <1>1, <1>2, DataSame DEF IInv, Kept
<1>5. Gone' /\ Counted' /\ Settled'
  BY <1>1, <1>2, <1>4 DEF IInv, Kept, Gone, Counted, Settled, SameOut, Flag, Control, Phases
<1> QED
  BY <1>3, <1>4, <1>5 DEF IInv, Kept

\* A step of those who work on the transfer keeps the invariant.
LEMMA InvStep ==
  ASSUME IInv, [Work]_transfer
  PROVE  IInv'
<1>1. CASE Work
  <2>1. Types'
    BY <1>1, TypesStep DEF IInv, Control
  <2> QED
    BY <1>1, <2>1, ControlStep, KeptStep DEF IInv
<1>2. CASE UNCHANGED transfer
  BY <1>2, Stutter
<1> QED
  BY <1>1, <1>2

-----------------------------------------------------------------------------
(* What the caller is told about a time-out.                               *)

\* A cancellation begins with the URBs allocated, and none does afterwards.
Cancelling ==
  /\ user = "cancel" \/ timer = "discard" => allocated /\ ~cancelling
  /\ completed \/ user \in {"idle", "undo"} => ~allocated
  /\ cancelledBy # "none" => /\ cancelling /\ reapAction \in {"cancelled", "error"}
                             /\ user \in {"wait", "cancel"}

\* The clock marks the transfer it has cancelled, and no other.
Marked == timer = "mark" \/ timeout = "timed_out" <=> cancelledBy = "timer"

\* The verdict, while it is on its way to the caller.
Truthful(s) ==
  /\ s = "timed_out" => cancelledBy = "timer"
  /\ cancelledBy = "timer" => s \in {"timed_out", "no_device"} \/ reapAction = "error"
Verdict ==
  /\ reapStatus # "timed_out"
  /\ handler = "settle" => reapAction = "cancelled"
  /\ handler \in {"unlist", "land", "callback"} => Truthful(outcome)
  /\ completed => Truthful(status)

Told == Cancelling /\ Marked /\ Verdict

\* Every step keeps the verdict true.
LEMMA ToldStep ==
  ASSUME IInv, Told, Work
  PROVE  Told'
<1>1. Types /\ Locks /\ Phases
  BY DEF IInv, Control
<1>2. CASE Adapter
  <2>1. Kernel
    BY <1>2, AdapterKernel
  <2> QED
    BY <2>1 DEF Kernel, tpriv, flags, event, result, Told, Cancelling, Marked, Verdict, Truthful
<1>3. CASE Submit
  BY <1>1, <1>3 DEF Submit, event, result, Phases, Told, Cancelling, Marked, Verdict, Truthful
<1>4. CASE SubmitUrb \/ SubmitDiscard
  BY <1>1, <1>4 DEF SubmitUrb, SubmitDiscard, Flies, history, tpriv, event, result, Locks, Phases,
                    Told, Cancelling, Marked, Verdict, Truthful
<1>5. ASSUME NEW e, SubmitFails(e) PROVE Told'
  BY <1>1, <1>5 DEF SubmitFails, Flies, history, event, result, Locks, Phases, Types, Resting,
                    Ending, Told, Cancelling, Marked, Verdict, Truthful
<1>6. CASE SubmitUndo \/ Return
  <2>1. timer = "idle" /\ handler \in Resting /\ ~allocated
    BY <1>1, <1>6 DEF SubmitUndo, Return, FlyingFree, Phases, Told, Cancelling
  <2> QED
    BY <1>6, <2>1 DEF SubmitUndo, Return, Blank, event, Resting, Told, Cancelling, Marked, Verdict,
                      Truthful
<1>7. CASE UserCancel
  <2>1. (handler \notin Ending /\ ~completed) \/ ~allocated
    BY <1>1 DEF Phases, Told, Cancelling
  <2>2. UNCHANGED <<allocated, reapStatus, timeout, timer, handler, outcome, completed, status>>
    BY <1>7 DEF UserCancel, event, result
  <2>3. CASE CancelRefused /\ user' = user /\ UNCHANGED <<reapAction, cancelledBy>>
    <3>1. cancelling => cancelling'
      BY <2>3, Zenon DEF CancelRefused
    <3>2. user # "cancel" /\ timer # "discard"
      BY <1>1, <2>3 DEF CancelRefused, Locks
    <3> QED
      BY <2>2, <2>3, <3>1, <3>2 DEF Told, Cancelling, Marked, Verdict, Truthful
  <2>4. CASE /\ CancelBegins("user") /\ user = "wait" /\ user' = "cancel"
             /\ UNCHANGED <<reapAction, cancelledBy>>
    BY <1>1, <2>2, <2>4 DEF CancelBegins, Told, Cancelling, Marked, Verdict, Truthful
  <2>5. CASE UNCHANGED <<user, cancelling, reapAction, cancelledBy>>
    BY <2>2, <2>5 DEF Told, Cancelling, Marked, Verdict, Truthful
  <2>6. CASE user = "cancel" /\ CancelEnds("user") /\ user' = "wait"
    <3>1. allocated /\ cancelledBy = "none" /\ timer # "discard" /\ cancelling'
          /\ cancelledBy' \in {"none", "user"}
          /\ (cancelledBy' # "none" => reapAction' \in {"cancelled", "error"})
      BY <1>1, <2>6 DEF CancelEnds, Locks, Told, Cancelling
    <3> QED
      BY <2>1, <2>2, <2>6, <3>1 DEF Told, Cancelling, Marked, Verdict, Truthful, Ending
  <2> QED
    BY <1>7, <2>3, <2>4, <2>5, <2>6 DEF UserCancel
<1>8. CASE Reap \/ PollError \/ Sweep
  BY <1>8 DEF Reap, PollError, Sweep, history, tpriv, flags, result,
              Told, Cancelling, Marked, Verdict, Truthful
<1>9. CASE Seize
  BY <1>1, <1>9 DEF Seize, history, flags, result, Locks, Told, Cancelling, Marked, Verdict,
                    Truthful
<1>10. CASE Retire
  <2>1. NormalStatus(urb[current].status) # "timed_out" /\ AbnormalStatus # "timed_out"
    BY DEF NormalStatus, AbnormalStatus, Told, Verdict
  <2>2. reapStatus' # "timed_out" /\ (reapAction # "normal" => reapAction' = reapAction)
    BY <1>10, <2>1 DEF Retire, Told, Verdict
  <2>3. user # "cancel" /\ timer # "discard" /\ ~completed
    BY <1>1, <1>10 DEF Retire, Locks, Phases, Resting
  <2>4. UNCHANGED <<user, timer, cancelling, timeout, completed, cancelledBy>>
        /\ (allocated' = allocated \/ ~allocated')
    BY <1>10 DEF Retire, flags, result, history
  <2>5. Cancelling' /\ Marked'
    BY <2>2, <2>3, <2>4 DEF Told, Cancelling, Marked
  <2>6. \/ handler' = "settle" /\ reapAction = "cancelled"
        \/ handler' = "unlist" /\ reapAction # "cancelled" /\ outcome' = reapStatus'
        \/ handler' \in Resting \cup {"discard"}
    BY <1>1, <1>10 DEF Retire, Back, Types, Resting
  <2>7. Verdict'
    BY <2>2, <2>3, <2>4, <2>6 DEF Told, Cancelling, Verdict, Truthful, Resting
  <2> QED
    BY <2>5, <2>7 DEF Told
<1>11. CASE Discard
  BY <1>1, <1>11 DEF Discard, Back, history, tpriv, flags, result, Types,
                     Told, Cancelling, Marked, Verdict, Truthful
<1>12. CASE Settle \/ Unlist \/ Land
  BY <1>12 DEF Settle, SettleGuard, FlyingFree, Unlist, Land, history, tpriv, flags, result,
               Told, Cancelling, Marked, Verdict, Truthful
<1>13. CASE Callback
  BY <1>1, <1>13 DEF Callback, Back, history, tpriv, flags, Types, Phases, Ending,
                     Told, Cancelling, Marked, Verdict, Truthful
<1>14. CASE TimeOut \/ TimerMark
  BY <1>14 DEF TimeOut, TimerMark, history, tpriv, event, result, Told, Cancelling, Marked, Verdict,
               Truthful
<1>15. CASE TimerCancel
  <2>1. (handler \notin Ending /\ ~completed) \/ ~allocated
    BY <1>1 DEF Phases, Told, Cancelling
  <2>2. timer = "discard" => user \in {"wait", "cancel"}
    BY <1>1 DEF Types, Locks, Told, Cancelling
  <2>3. UNCHANGED <<allocated, reapStatus, timeout, user, handler, outcome, completed, status>>
    BY <1>15 DEF TimerCancel, event, result
  <2>4. CASE /\ CancelRefused /\ timer = "cancel" /\ timer' = "idle"
             /\ UNCHANGED <<reapAction, cancelledBy>>
    <3>1. cancelling => cancelling'
      BY <2>4, Zenon DEF CancelRefused
    <3>2. user # "cancel"
      BY <1>1, <2>4 DEF CancelRefused, Locks
    <3> QED
      BY <2>3, <2>4, <3>1, <3>2 DEF Told, Cancelling, Marked, Verdict, Truthful
  <2>5. CASE /\ CancelBegins("timer") /\ timer = "cancel" /\ timer' = "discard"
             /\ UNCHANGED <<reapAction, cancelledBy>>
    BY <1>1, <2>3, <2>5 DEF CancelBegins, Locks, Told, Cancelling, Marked, Verdict, Truthful
  <2>6. CASE UNCHANGED <<timer, cancelling, reapAction, cancelledBy>>
    BY <2>3, <2>6 DEF Told, Cancelling, Marked, Verdict, Truthful
  <2>7. CASE /\ timer = "discard" /\ CancelEnds("timer")
             /\ timer' = IF found THEN "mark" ELSE "idle"
    <3>1. allocated /\ cancelledBy = "none" /\ user = "wait" /\ cancelling'
      BY <1>1, <2>2, <2>7 DEF CancelEnds, Locks, Told, Cancelling
    <3>2. timeout # "timed_out"
      BY <3>1 DEF Told, Marked
    <3>3. \/ timer' = "mark" /\ cancelledBy' = "timer" /\ reapAction' \in {"cancelled", "error"}
          \/ timer' = "idle" /\ cancelledBy' = "none" /\ reapAction' = reapAction
      BY <2>7, <3>1 DEF CancelEnds
    <3> QED
      BY <2>1, <2>3, <3>1, <3>2, <3>3 DEF Told, Cancelling, Marked, Verdict, Truthful, Ending
  <2> QED
    BY <1>15, <2>4, <2>5, <2>6, <2>7 DEF TimerCancel
<1> QED
  BY <1>2, <1>3, <1>4, <1>5, <1>6, <1>7, <1>8, <1>9, <1>10, <1>11, <1>12, <1>13, <1>14, <1>15
  DEF Work, Caller, EventThread, Timer

-----------------------------------------------------------------------------
(* The bytes.  URBs with data are filled in turn, reaped in turn, and what *)
(* they hold follows on from one to the next.                              *)

\* URBs that hold data, and where in the stream from the adapter it ends.
Loaded == {i \in 1 .. NumUrbs : urb[i].actual > 0}
End(i) == urb[i].from + urb[i].actual

\* URBs the adapter is through with; URBs that count as retired; URBs behind
\* which the data of the next one does not belong at that one's own place.
Over(i)    == urb[i].state \in {"done", "reaped"}
Through(i) == urb[i].state = "reaped" /\ ~(handler = "reaped" /\ current = i)
Breaks(i)  == /\ urb[i].actual < UrbLen(i)
              /\ urb[i].status \in {"ok", "remoteio", "cancelled", "error"}

\* URBs are submitted and filled in turn.
InTurn ==
  /\ \A i \in 1 .. NumUrbs : urb[i].actual <= UrbLen(i)
  /\ \A i, j \in 1 .. NumUrbs : j < i /\ j \in Unsent => i \in Unsent
  /\ user = "submit" => \A j \in 1 .. NumUrbs : j < cursor => j \notin Unsent
  /\ \A i \in Loaded : i \notin Unsent /\ \A j \in 1 .. NumUrbs : j < i => Over(j)

\* What the status of a URB says of the adapter.
Signs ==
  \A i \in 1 .. NumUrbs : /\ urb[i].status = "stall" => halted
                          /\ urb[i].status = "shutdown" => ~connected
                          /\ urb[i].state \in {"unsent", "queued"} => urb[i].status = "ok"

\* URBs that are done are listed, those before one with data before it.
Listed ==
  Live => /\ \A i \in 1 .. NumUrbs : urb[i].state = "done" => \E k \in 1 .. Len(done) : done[k] = i
          /\ \A l \in 1 .. Len(done) : done[l] \in Loaded =>
               \A j \in 1 .. NumUrbs : j < done[l] =>
                 urb[j].state = "reaped" \/ \E k \in 1 .. l - 1 : done[k] = j

\* URBs with data are reaped in turn.
ReapedInTurn ==
  /\ \A i \in Loaded : urb[i].state = "reaped" =>
       \A j \in 1 .. NumUrbs : j < i => urb[j].state = "reaped"
  /\ handler = "reaped" => \A i \in Loaded : i > current => urb[i].state # "reaped"

\* The data of one URB ends where that of the next begins, and the last one's
\* with what the adapter has sent.
Contiguous ==
  /\ \A i \in Loaded :
       \/ \A j \in Loaded : j <= i
       \/ \E j \in Loaded : /\ i < j /\ End(i) = urb[j].from
                            /\ \A k \in Loaded : k <= i \/ k >= j
  /\ Loaded = {} \/ \E i \in Loaded : (\A j \in Loaded : j <= i) /\ End(i) = sent
  /\ \A i \in Loaded : End(i) <= sent

\* Data is in its own place in the buffer, unless a URB before it came back short.
Placed ==
  \A i \in Loaded :
    /\ urb[i].from <= given + Offset(i)
    /\ urb[i].from = given + Offset(i) \/ \E j \in 1 .. NumUrbs : j < i /\ Breaks(j)

\* The count of bytes transferred is right.
Total ==
  /\ given \in Int /\ transferred \in 0 .. Length
  /\ given + transferred <= sent
  /\ \A i \in Loaded : ~Through(i) /\ (\A j \in Loaded : j < i => Through(j)) =>
       urb[i].from = given + transferred
  /\ Live /\ (\A i \in Loaded : Through(i)) => sent = given + transferred
  /\ Loaded = {} => transferred = 0

\* As long as nothing is out of the ordinary no URB has come back short.
Straight ==
  reapAction = "normal" /\ retired # NumUrbs =>
    \A j \in 1 .. NumUrbs : Through(j) => ~Breaks(j)

\* The buffer holds what has been transferred, and the URB that is handled.
Delivered ==
  /\ \A k \in 1 .. transferred : buffer[k] = given + k
  /\ handler = "reaped" =>
       \A k \in 1 .. urb[current].actual : buffer[Offset(current) + k] = urb[current].from + k

Order == InTurn /\ Signs /\ Listed /\ ReapedInTurn
Stream == Contiguous /\ Placed /\ Total /\ Straight /\ Delivered

-----------------------------------------------------------------------------
(* Places in the buffer.                                                   *)

\* A number is divided in one way only.
LEMMA DivUnique ==
  ASSUME NEW a \in Int, NEW b \in Nat \ {0}, NEW q \in Int, NEW r \in 0 .. b - 1, a = b * q + r
  PROVE  a \div b = q /\ a % b = r
<1> DEFINE p == a \div b
           s == a % b
<1>1. p \in Int /\ s \in 0 .. b - 1 /\ a = b * p + s
  OBVIOUS
<1> HIDE DEF p, s
<1>2. p <= q
  <2> SUFFICES ASSUME p >= q + 1 PROVE FALSE
    BY <1>1
  <2>1. b * p >= b * (q + 1)
    BY <1>1
  <2>2. b * (q + 1) = b * q + b
    OBVIOUS
  <2> QED
    BY <1>1, <2>1, <2>2
<1>3. q <= p
  <2> SUFFICES ASSUME q >= p + 1 PROVE FALSE
    BY <1>1
  <2>1. b * q >= b * (p + 1)
    BY <1>1
  <2>2. b * (p + 1) = b * p + b
    BY <1>1
  <2> QED
    BY <1>1, <2>1, <2>2
<1>4. p = q /\ s = r
  BY <1>1, <1>2, <1>3
<1> QED
  BY <1>4 DEF p, s

\* Parts of length b: all but the last are full, and the last takes the rest.
LEMMA Parts ==
  ASSUME NEW a \in Nat \ {0}, NEW b \in Nat \ {0}
  PROVE  LET q == (a + b - 1) \div b
             r == IF a % b = 0 THEN b ELSE a % b
         IN  q \in Nat /\ r \in 1 .. b /\ (q - 1) * b + r = a
<1> DEFINE m == a \div b
           s == a % b
<1>1. m \in Int /\ s \in 0 .. b - 1 /\ a = b * m + s
  OBVIOUS
<1>2. m >= 0
  <2> SUFFICES ASSUME m <= -1 PROVE FALSE
    BY <1>1
  <2>1. b * m <= b * (-1)
    BY <1>1
  <2> QED
    BY <1>1, <2>1
<1> HIDE DEF m, s
<1>3. CASE s = 0
  <2>1. a + b - 1 = b * m + (b - 1) /\ b - 1 \in 0 .. b - 1 /\ a + b - 1 \in Int
    BY <1>1, <1>3
  <2>2. (a + b - 1) \div b = m
    BY <1>1, <2>1, DivUnique
  <2>3. (m - 1) * b + b = b * m
    BY <1>1
  <2> QED
    BY <1>1, <1>2, <1>3, <2>2, <2>3 DEF s
<1>4. CASE s # 0
  <2>1. b * (m + 1) = b * m + b
    BY <1>1
  <2>2. a + b - 1 = b * (m + 1) + (s - 1) /\ s - 1 \in 0 .. b - 1 /\ a + b - 1 \in Int
    BY <1>1, <1>4, <2>1
  <2>3. (a + b - 1) \div b = m + 1
    BY <1>1, <2>2, DivUnique
  <2>4. (m + 1 - 1) * b + s = b * m + s
    BY <1>1
  <2> QED
    BY <1>1, <1>2, <1>4, <2>3, <2>4 DEF s
<1> QED
  BY <1>3, <1>4

\* Every URB but the last fills its place, and the last ends with the buffer.
LEMMA Places ==
  ASSUME Types
  PROVE  /\ \A i \in 1 .. NumUrbs : /\ Offset(i) \in Nat /\ UrbLen(i) \in Nat /\ UrbLen(i) >= 1
                                    /\ Offset(i) + UrbLen(i) <= Length
         /\ \A i \in 1 .. NumUrbs, j \in 1 .. NumUrbs : j < i => Offset(j) + UrbLen(j) <= Offset(i)
         /\ \A i \in 1 .. NumUrbs, j \in 1 .. NumUrbs : i = j + 1 => Offset(j) + UrbLen(j) = Offset(i)
         /\ Offset(1) = 0 /\ Offset(NumUrbs) + UrbLen(NumUrbs) = Length
<1> DEFINE B == BulkBufferLen
           q == NumUrbs
           r == IF Length % B = 0 THEN B ELSE Length % B
<1>1. B \in Nat \ {0} /\ Length \in Nat \ {0} /\ q \in Nat
  BY Sizes, TransferAssumption DEF BulkBufferLen
<1>2. r \in 1 .. B /\ (q - 1) * B + r = Length
  <2>1. q = (Length + B - 1) \div B
    BY DEF NumUrbs
  <2> QED
    BY <1>1, <2>1, Parts
<1>3. \A i \in 1 .. q : /\ UrbLen(i) = IF i < q THEN B ELSE r
                        /\ Offset(i) = (i - 1) * B
  BY DEF UrbLen, Offset
<1> HIDE DEF B, q, r
<1>4. ASSUME NEW i \in 1 .. q, NEW j \in 1 .. q, j < i
      PROVE  (j - 1) * B + B <= (i - 1) * B
  <2>1. (j - 1) * B + B = j * B
    BY <1>1
  <2>2. j * B <= (i - 1) * B
    BY <1>1, <1>4
  <2> QED
    BY <2>1, <2>2
<1>5. \A j \in 1 .. q : (j - 1) * B + B = (j + 1 - 1) * B /\ (j - 1) * B \in Nat
  BY <1>1
<1>6. ASSUME NEW i \in 1 .. q, NEW j \in 1 .. q, j < i
      PROVE  Offset(j) + UrbLen(j) <= Offset(i)
  BY <1>1, <1>3, <1>4, <1>6
<1>7. ASSUME NEW i \in 1 .. q, NEW j \in 1 .. q, i = j + 1
      PROVE  Offset(j) + UrbLen(j) = Offset(i)
  BY <1>1, <1>3, <1>5, <1>7
<1>8. ASSUME NEW i \in 1 .. q
      PROVE  /\ Offset(i) \in Nat /\ UrbLen(i) \in Nat /\ UrbLen(i) >= 1
             /\ Offset(i) + UrbLen(i) <= Length
  <2>1. Offset(i) \in Nat /\ UrbLen(i) \in Nat /\ UrbLen(i) >= 1
    BY <1>1, <1>2, <1>3, <1>5
  <2>2. CASE i = q
    <3>1. Offset(i) + UrbLen(i) = Length
      BY <1>2, <1>3, <2>2
    <3> QED
      BY <1>1, <2>1, <3>1
  <2>3. CASE i < q
    <3>1. q \in 1 .. q /\ Offset(i) + UrbLen(i) <= Offset(q) /\ Offset(q) + r = Length
      BY <1>1, <1>2, <1>3, <1>6, <2>3
    <3> QED
      BY <1>1, <1>2, <1>3, <1>5, <2>1, <3>1
  <2> QED
    BY <1>1, <2>1, <2>2, <2>3
<1>9. Offset(1) = 0
  BY <1>1 DEF Offset, B
<1>10. Offset(q) + UrbLen(q) = Length
  <2>1. q \in 1 .. q
    BY <1>1, Sizes DEF q
  <2> QED
    BY <1>2, <1>3, <2>1
<1> QED
  BY <1>6, <1>7, <1>8, <1>9, <1>10 DEF q

\* The URBs of the transfer are URBs.
LEMMA UrbsTyped ==
  ASSUME Types
  PROVE  \A i \in 1 .. NumUrbs : i \in DOMAIN urb /\ urb[i] \in Urb
<1>1. urb \in [1 .. MaxUrbs -> Urb] /\ 1 .. NumUrbs \subseteq 1 .. MaxUrbs
  BY Sizes DEF Types
<1> QED
  BY <1>1

-----------------------------------------------------------------------------
(* URBs that are done, in turn.                                            *)

\* What becomes done together is listed whole.
LEMMA AscendingOnto ==
  ASSUME Types, NEW S \in SUBSET (1 .. NumUrbs), NEW s \in Ascending(S)
  PROVE  \A i \in S : \E k \in 1 .. Len(s) : s[k] = i
<1>1. NumUrbs \in Nat /\ IsFiniteSet(1 .. NumUrbs)
  BY Sizes, FS_Interval
<1>2. IsFiniteSet(S)
  BY <1>1, FS_Subset
<1> DEFINE n == Cardinality(S)
<1>3. n \in Nat
  BY <1>2, FS_CardinalityType
<1>4. IsFiniteSet(1 .. n) /\ Cardinality(1 .. n) = n
  BY <1>3, FS_Interval
<1>5. s \in [1 .. n -> S] /\ DOMAIN s = 1 .. n
  BY DEF Ascending
<1>6. \A k, l \in 1 .. n : k < l => s[k] < s[l]
  BY <1>5 DEF Ascending
<1>7. S \subseteq Nat
  BY <1>1
<1> HIDE DEF n
<1>8. s \in Injection(1 .. n, S)
  <2> SUFFICES ASSUME NEW k \in 1 .. n, NEW l \in 1 .. n, s[k] = s[l] PROVE k = l
    BY <1>5 DEF Injection, IsInjective
  <2>1. k < l \/ l < k \/ k = l
    BY <1>3
  <2>2. s[k] \in Nat /\ s[l] \in Nat
    BY <1>5, <1>7
  <2> QED
    BY <1>6, <2>1, <2>2
<1>9. s \in Surjection(1 .. n, S)
  <2>1. Cardinality(1 .. n) = Cardinality(S)
    BY <1>4 DEF n
  <2> QED
    BY <1>2, <1>8, <2>1, FS_Injection
<1>10. Len(s) = n
  BY <1>3, <1>5, AscendingTypes, LenProperties
<1> QED
  BY <1>9, <1>10 DEF Surjection

\* URBs that become done, each with those before it done or reaped already.
LEMMA ListedStep ==
  ASSUME Types, DoneAreDone, Listed, NumUrbs' = NumUrbs, Live' => Live,
         NEW t \in Seq(Nat), done' = done \o t,
         \A j \in 1 .. NumUrbs : urb'[j].state = "done" =>
           urb[j].state = "done" \/ \E k \in 1 .. Len(t) : t[k] = j,
         \A j \in 1 .. NumUrbs : urb[j].state = "reaped" => urb'[j].state = "reaped",
         \A j \in Loaded' : j \in Loaded \/ urb[j].state # "done",
         \A l \in 1 .. Len(t) : t[l] \in Loaded' => \A j \in 1 .. NumUrbs : j < t[l] => Over(j)
  PROVE  Listed'
<1> SUFFICES ASSUME Live
             PROVE  /\ \A i \in 1 .. NumUrbs : urb'[i].state = "done" =>
                         \E k \in 1 .. Len(done') : done'[k] = i
                    /\ \A l \in 1 .. Len(done') : done'[l] \in Loaded' =>
                         \A j \in 1 .. NumUrbs : j < done'[l] =>
                           urb'[j].state = "reaped" \/ \E k \in 1 .. l - 1 : done'[k] = j
  BY DEF Listed
<1>1. /\ Len(done) \in Nat /\ Len(t) \in Nat /\ Len(done') = Len(done) + Len(t)
      /\ \A k \in 1 .. Len(done) + Len(t) :
           done'[k] = IF k <= Len(done) THEN done[k] ELSE t[k - Len(done)]
  BY LenProperties, ConcatProperties DEF Types
<1>2. \A k \in 1 .. Len(done) : k \in 1 .. Len(done') /\ done'[k] = done[k]
  BY <1>1
<1>3. \A k \in 1 .. Len(t) : k + Len(done) \in 1 .. Len(done') /\ done'[k + Len(done)] = t[k]
  BY <1>1
<1>4. /\ \A i \in 1 .. NumUrbs : urb[i].state = "done" => \E k \in 1 .. Len(done) : done[k] = i
      /\ \A l \in 1 .. Len(done) : done[l] \in Loaded =>
           \A j \in 1 .. NumUrbs : j < done[l] =>
             urb[j].state = "reaped" \/ \E k \in 1 .. l - 1 : done[k] = j
  BY DEF Listed
<1>5. ASSUME NEW i \in 1 .. NumUrbs, urb'[i].state = "done"
      PROVE  \E k \in 1 .. Len(done') : done'[k] = i
  <2>1. CASE \E k \in 1 .. Len(done) : done[k] = i
    BY <1>2, <2>1
  <2>2. CASE \E k \in 1 .. Len(t) : t[k] = i
    BY <1>3, <2>2
  <2> QED
    BY <1>4, <1>5, <2>1, <2>2
<1>6. ASSUME NEW l \in 1 .. Len(done'), done'[l] \in Loaded', NEW j \in 1 .. NumUrbs, j < done'[l]
      PROVE  urb'[j].state = "reaped" \/ \E k \in 1 .. l - 1 : done'[k] = j
  <2>1. CASE l <= Len(done)
    <3>1. l \in 1 .. Len(done) /\ done'[l] = done[l] /\ \A k \in 1 .. l - 1 : k \in 1 .. Len(done)
      BY <1>1, <2>1
    <3>2. done[l] \in Loaded
      BY <1>6, <3>1 DEF DoneAreDone
    <3>3. urb[j].state = "reaped" \/ \E k \in 1 .. l - 1 : done[k] = j
      BY <1>4, <1>6, <3>1, <3>2
    <3> QED
      BY <1>2, <3>1, <3>3
  <2>2. CASE l > Len(done)
    <3>1. l - Len(done) \in 1 .. Len(t) /\ done'[l] = t[l - Len(done)]
          /\ \A k \in 1 .. Len(done) : k \in 1 .. l - 1
      BY <1>1, <2>2
    <3>2. Over(j)
      BY <1>6, <3>1
    <3>3. urb[j].state = "reaped" \/ \E k \in 1 .. Len(done) : done[k] = j
      BY <1>4, <3>2 DEF Over
    <3> QED
      BY <1>2, <3>1, <3>3
  <2> QED
    BY <1>1, <2>1, <2>2
<1> QED
  BY <1>5, <1>6

-----------------------------------------------------------------------------
(* Steps that move no bytes.                                               *)

\* What is where in the buffer does not change.
LEMMA SamePlaces ==
  ASSUME mode' = mode
  PROVE  /\ NumUrbs' = NumUrbs
         /\ \A i \in 1 .. NumUrbs : UrbLen(i)' = UrbLen(i) /\ Offset(i)' = Offset(i)
  BY DEF NumUrbs, BulkBufferLen, UrbLen, Offset

\* A URB that is queued ends without more data, or stays as it is.
MayEnd(i) ==
  \/ urb'[i] = urb[i]
  \/ /\ urb[i].state = "queued" /\ urb'[i].state = "done"
     /\ urb'[i].from = urb[i].from /\ urb'[i].actual = urb[i].actual
     /\ urb'[i].status = "stall" => halted'
     /\ urb'[i].status = "shutdown" => ~connected'

\* What is known of the bytes, where each URB keeps its data and counts as before.
LEMMA SameStream ==
  ASSUME Types, InTurn, Stream, mode' = mode,
         UNCHANGED <<sent, given, transferred>>,
         Live' => Live,
         \A i \in 1 .. NumUrbs :
           /\ urb'[i].from = urb[i].from /\ urb'[i].actual = urb[i].actual
           /\ Over(i) => urb'[i].status = urb[i].status
           /\ Through(i)' <=> Through(i),
         reapAction' = "normal" /\ retired' # NumUrbs => reapAction = "normal" /\ retired # NumUrbs
  PROVE  Contiguous' /\ Placed' /\ Total' /\ Straight'
<1>1. Contiguous /\ Placed /\ Total /\ Straight
  BY DEF Stream
<1>2. /\ NumUrbs' = NumUrbs
      /\ \A i \in 1 .. NumUrbs : UrbLen(i)' = UrbLen(i) /\ Offset(i)' = Offset(i)
  BY SamePlaces
<1>3. Loaded' = Loaded /\ \A i \in 1 .. NumUrbs : End(i)' = End(i)
  BY <1>2 DEF Loaded, End
<1>4. \A i \in 1 .. NumUrbs : Over(i) => (Breaks(i) <=> Breaks(i)')
  BY <1>2 DEF Breaks
<1>5. Contiguous'
  BY <1>1, <1>3 DEF Contiguous, Loaded
<1>6. Placed'
  <2> SUFFICES ASSUME NEW i \in Loaded
               PROVE  /\ urb'[i].from <= given + Offset(i)
                      /\ \/ urb'[i].from = given + Offset(i)
                         \/ \E j \in 1 .. NumUrbs : j < i /\ Breaks(j)'
    BY <1>2, <1>3 DEF Placed, Loaded
  <2>1. \A j \in 1 .. NumUrbs : j < i /\ Breaks(j) => Breaks(j)'
    BY <1>4 DEF InTurn
  <2> QED
    BY <1>1, <2>1 DEF Placed, Loaded
<1>7. Total'
  BY <1>1, <1>3 DEF Total, Loaded
<1>8. Straight'
  <2>1. \A j \in 1 .. NumUrbs : Through(j) => (Breaks(j) <=> Breaks(j)')
    BY <1>4 DEF Through, Over
  <2> QED
    BY <1>1, <1>2, <2>1 DEF Straight
<1> QED
  BY <1>5, <1>6, <1>7, <1>8

\* Such steps keep the order of the URBs and what is known of the bytes.
LEMMA Unmoved ==
  ASSUME IInv, Order, Stream, mode' = mode,
         UNCHANGED <<sent, given, transferred, buffer>>,
         Live' => Live, connected' => connected, halted => halted',
         \A i \in 1 .. NumUrbs : MayEnd(i),
         Listed',
         handler' = "reaped" <=> handler = "reaped",
         handler = "reaped" => current' = current,
         user' = "submit" => \A j \in 1 .. NumUrbs : j < cursor' => j \notin Unsent,
         reapAction' = "normal" /\ retired' # NumUrbs => reapAction = "normal" /\ retired # NumUrbs
  PROVE  Order' /\ Stream'
<1>1. Types /\ InTurn /\ Signs /\ ReapedInTurn /\ Contiguous /\ Placed /\ Total /\ Straight
      /\ Delivered /\ (handler = "reaped" => current \in 1 .. NumUrbs /\ urb[current].state = "reaped")
  BY DEF IInv, Order, Stream, Control, Phases, Kept, Counted
<1>2. /\ NumUrbs' = NumUrbs
      /\ \A i \in 1 .. NumUrbs : UrbLen(i)' = UrbLen(i) /\ Offset(i)' = Offset(i)
  BY SamePlaces
<1>3. /\ \A i \in 1 .. NumUrbs : urb'[i].from = urb[i].from /\ urb'[i].actual = urb[i].actual
      /\ \A i \in 1 .. NumUrbs : urb[i].state # "queued" => urb'[i] = urb[i]
      /\ \A i \in 1 .. NumUrbs : urb'[i].state = "unsent" <=> urb[i].state = "unsent"
      /\ \A i \in 1 .. NumUrbs : urb'[i].state = "reaped" <=> urb[i].state = "reaped"
      /\ \A i \in 1 .. NumUrbs : urb'[i].state = "queued" => urb'[i] = urb[i]
  BY DEF MayEnd
<1>4. Loaded' = Loaded /\ Unsent' = Unsent
  BY <1>2, <1>3 DEF Loaded, Unsent
<1>5. \A i \in 1 .. NumUrbs : (Through(i)' <=> Through(i)) /\ (Over(i) => Over(i)')
  BY <1>2, <1>3 DEF Through, Over
<1>6. InTurn'
  <2>1. \A i \in 1 .. NumUrbs : urb'[i].actual <= UrbLen(i)'
    BY <1>1, <1>2, <1>3 DEF InTurn
  <2>2. \A i \in Loaded' : i \notin Unsent' /\ \A j \in 1 .. NumUrbs' : j < i => Over(j)'
    BY <1>1, <1>2, <1>4, <1>5 DEF InTurn
  <2> QED
    BY <1>1, <1>2, <1>4, <2>1, <2>2 DEF InTurn
<1>7. Signs'
  BY <1>1, <1>2, <1>3 DEF Signs, MayEnd
<1>8. ReapedInTurn'
  BY <1>1, <1>2, <1>3, <1>4 DEF ReapedInTurn, Loaded
<1>9. Contiguous' /\ Placed' /\ Total' /\ Straight'
  <2>1. \A i \in 1 .. NumUrbs : Over(i) => urb'[i] = urb[i]
    BY <1>3 DEF Over
  <2> QED
    BY <1>1, <1>2, <1>3, <1>5, <2>1, SameStream
<1>10. Delivered'
  <2>1. handler' = "reaped" => /\ urb'[current'] = urb[current]
                               /\ Offset(current)' = Offset(current) /\ current' = current
    BY <1>1, <1>2, <1>3
  <2> QED
    BY <1>1, <2>1 DEF Delivered
<1> QED
  BY <1>6, <1>7, <1>8, <1>9, <1>10 DEF Order, Stream

\* The end of a URB, and what it does to the others.
LEMMA EndsUrbs ==
  ASSUME Types, NumUrbs' = NumUrbs, Live' => Live, DoneAreDone, Listed, InTurn,
         NEW i \in Heads, NEW u \in Urb, u.state = "done", Ends(i, u)
  PROVE  /\ urb'[i] = u
         /\ \A j \in 1 .. NumUrbs : j # i => MayEnd(j)
         /\ \A j \in 1 .. NumUrbs : j < i => urb'[j] = urb[j] /\ Over(j)
         /\ \A j \in 1 .. NumUrbs : j # i /\ urb'[j] # urb[j] => urb'[j].status = "cancelled"
         /\ Listed'
<1> DEFINE along == IF mode = "continuation" /\ u.status # "ok" THEN Later(i) ELSE {}
<1>1. urb' = [j \in DOMAIN urb |-> IF j = i THEN u
                ELSE IF j \in along THEN [urb[j] EXCEPT !.state = "done", !.status = "cancelled"]
                ELSE urb[j]]
  BY DEF Ends
<1>2. PICK later \in Ascending(along) : done' = done \o <<i>> \o later
  BY DEF Ends
<1>3. i \in 1 .. NumUrbs /\ i \in Queued /\ i \in Nat /\ i \notin along
      /\ \A j \in along : j > i
  BY Sizes DEF Heads, Queued, Later
<1>4. along \in SUBSET (1 .. NumUrbs) /\ along \subseteq Queued
  BY DEF Later, Queued
<1> HIDE DEF along
<1>5. /\ later \in Seq(Nat) /\ \A k \in 1 .. Len(later) : later[k] \in along
      /\ \A j \in along : \E k \in 1 .. Len(later) : later[k] = j
  BY <1>2, <1>4, AscendingDistinct, AscendingOnto
<1>6. /\ urb'[i] = u
      /\ \A j \in along : /\ urb'[j].state = "done" /\ urb'[j].status = "cancelled"
                          /\ urb'[j].from = urb[j].from /\ urb'[j].actual = urb[j].actual
      /\ \A j \in 1 .. NumUrbs : j # i /\ j \notin along => urb'[j] = urb[j]
  <2>1. \A j \in 1 .. NumUrbs : j \in DOMAIN urb /\ urb[j] \in Urb
    <3>1. urb \in [1 .. MaxUrbs -> Urb] /\ 1 .. NumUrbs \subseteq 1 .. MaxUrbs
      BY Sizes DEF Types
    <3> QED
      BY <3>1
  <2>2. /\ urb'[i] = u
        /\ \A j \in 1 .. NumUrbs : j # i /\ j \notin along => urb'[j] = urb[j]
        /\ \A j \in along : urb'[j] = [urb[j] EXCEPT !.state = "done", !.status = "cancelled"]
    BY <1>1, <1>3, <1>4, <2>1
  <2>3. ASSUME NEW j \in along
        PROVE  /\ urb'[j].state = "done" /\ urb'[j].status = "cancelled"
               /\ urb'[j].from = urb[j].from /\ urb'[j].actual = urb[j].actual
    <3>1. urb[j] \in Urb /\ urb'[j] = [urb[j] EXCEPT !.state = "done", !.status = "cancelled"]
      BY <1>4, <2>1, <2>2
    <3> QED
      BY <3>1 DEF Urb
  <2> QED
    BY <2>2, <2>3
<1>7. \A j \in 1 .. NumUrbs : j # i => MayEnd(j)
  BY <1>4, <1>6 DEF MayEnd, Queued
<1>8. \A j \in 1 .. NumUrbs : j < i => urb'[j] = urb[j] /\ Over(j)
  <2> SUFFICES ASSUME NEW j \in 1 .. NumUrbs, j < i PROVE urb'[j] = urb[j] /\ Over(j)
    OBVIOUS
  <2>1. j \notin along /\ j # i
    BY <1>3
  <2>2. j \notin Queued
    BY <1>3 DEF Heads
  <2>3. j \notin Unsent
    BY <1>3 DEF InTurn, Queued, Unsent
  <2>4. urb[j].state \in {"unsent", "queued", "done", "reaped"}
    BY Sizes DEF Types, Urb
  <2> QED
    BY <1>6, <2>1, <2>2, <2>3, <2>4 DEF Over, Queued, Unsent
<1>9. Listed'
  <2> DEFINE t == <<i>> \o later
  <2>1. <<i>> \in Seq(Nat) /\ Len(<<i>>) = 1 /\ <<i>>[1] = i
    BY <1>3
  <2>2. t \in Seq(Nat) /\ done' = done \o t
    BY <1>2, <1>5, <2>1, ConcatProperties, ConcatAssociative DEF Types
  <2>3. Len(later) \in Nat /\ Len(t) = 1 + Len(later)
    BY <1>5, <2>1, ConcatProperties, LenProperties
  <2>4. \A k \in 1 .. 1 + Len(later) : t[k] = IF k <= 1 THEN i ELSE later[k - 1]
    BY <1>5, <2>1, ConcatProperties
  <2>5. \A k \in 1 .. Len(t) : t[k] = i \/ t[k] \in along
    BY <1>5, <2>3, <2>4
  <2>6. /\ 1 \in 1 .. Len(t) /\ t[1] = i
        /\ \A k \in 1 .. Len(later) : k + 1 \in 1 .. Len(t) /\ t[k + 1] = later[k]
    BY <2>3, <2>4
  <2> HIDE DEF t
  <2>7. \A j \in 1 .. NumUrbs : urb'[j].state = "done" =>
          urb[j].state = "done" \/ \E k \in 1 .. Len(t) : t[k] = j
    <3>1. \A j \in along : \E k \in 1 .. Len(t) : t[k] = j
      BY <1>5, <2>6
    <3>2. \E k \in 1 .. Len(t) : t[k] = i
      BY <2>6
    <3> QED
      BY <1>6, <3>1, <3>2
  <2>8. \A j \in 1 .. NumUrbs : urb[j].state = "reaped" => urb'[j].state = "reaped"
    BY <1>3, <1>4, <1>6 DEF Queued
  <2>9. \A j \in 1 .. NumUrbs : j \in Loaded' /\ j # i => j \in Loaded
    BY <1>6 DEF Loaded
  <2>10. \A j \in along : j \notin Loaded
    BY <1>3 DEF InTurn, Queued, Over
  <2>11. \A l \in 1 .. Len(t) : t[l] \in Loaded' => \A j \in 1 .. NumUrbs : j < t[l] => Over(j)
    BY <1>4, <1>8, <2>5, <2>9, <2>10
  <2>12. \A j \in Loaded' : j \in Loaded \/ urb[j].state # "done"
    BY <1>3, <2>9 DEF Queued, Loaded
  <2> QED
    BY <2>2, <2>7, <2>8, <2>11, <2>12, ListedStep
<1> QED
  BY <1>6, <1>7, <1>8, <1>9

\* A URB that is killed may end.
LEMMA KillEnds ==
  ASSUME IInv, Order, NEW p \in Queued, Kill(p), UNCHANGED <<mode, reapCap, connected>>
  PROVE  Listed' /\ \A i \in 1 .. NumUrbs : MayEnd(i)
<1>1. /\ Types /\ DoneAreDone /\ Listed /\ InTurn /\ NumUrbs' = NumUrbs /\ Live' = Live
      /\ p \in 1 .. NumUrbs /\ urb[p].state = "queued"
  BY SamePlaces DEF IInv, Kept, Data, Order, Live, Queued
<1>2. urb \in [1 .. MaxUrbs -> Urb] /\ p \in 1 .. MaxUrbs /\ p \in Nat
      /\ \A j \in 1 .. NumUrbs : j \in 1 .. MaxUrbs
  BY <1>1, Sizes DEF Types
<1>3. /\ urb'[p].state = "done" /\ urb'[p].status = "cancelled"
      /\ urb'[p].from = urb[p].from /\ urb'[p].actual = urb[p].actual
      /\ \A j \in 1 .. NumUrbs : j # p => urb'[j] = urb[j]
  BY <1>2 DEF Urb, Kill
<1>4. \A i \in 1 .. NumUrbs : MayEnd(i)
  BY <1>1, <1>3 DEF MayEnd
<1> DEFINE t == <<p>>
<1>5. /\ done' = done \o t /\ t \in Seq(Nat) /\ 1 \in 1 .. Len(t)
      /\ \A k \in 1 .. Len(t) : t[k] = p
  BY <1>1, <1>2, AppendIsConcat DEF Types, Kill
<1> HIDE DEF t
<1>6. Loaded' = Loaded
  BY <1>1, <1>3 DEF Loaded
<1>7. p \in Loaded => \A j \in 1 .. NumUrbs : j < p => Over(j)
  BY <1>1 DEF InTurn
<1>8. \A j \in 1 .. NumUrbs : /\ urb'[j].state = "done" => urb[j].state = "done" \/ j = p
                              /\ urb[j].state = "reaped" => urb'[j].state = "reaped"
  BY <1>1, <1>3
<1>9. Listed'
  BY <1>1, <1>5, <1>6, <1>7, <1>8, ListedStep
<1> QED
  BY <1>4, <1>9

\* Discarding a URB moves no bytes.
LEMMA DiscardEnds ==
  ASSUME IInv, Order, DiscardOne, cursor \in 1 .. NumUrbs, UNCHANGED <<mode, reapCap, connected>>
  PROVE  Listed' /\ \A i \in 1 .. NumUrbs : MayEnd(i)
<1>1. Types /\ DoneAreDone /\ Listed /\ InTurn /\ NumUrbs' = NumUrbs /\ Live' = Live
  BY SamePlaces DEF IInv, Kept, Data, Order, Live
<1>2. CASE UNCHANGED kernel
  BY <1>1, <1>2 DEF kernel, MayEnd, Listed, Loaded
<1>3. CASE urb[cursor].state = "queued" /\ Kill(cursor)
  BY <1>3, KillEnds DEF Queued
<1> QED
  BY <1>2, <1>3 DEF DiscardOne

\* A URB that ends with an error brings no bytes.
LEMMA FaultBytes ==
  ASSUME IInv, Order, Stream, Work, NEW i \in 1 .. NumUrbs, NEW s \in {"stall", "error"}, Fault(i, s)
  PROVE  Order' /\ Stream'
<1>1. /\ UNCHANGED <<mode, reapCap, connected, sent, given, transferred, buffer, handler, current,
                     user, cursor, reapAction, retired>>
      /\ NumUrbs' = NumUrbs /\ Live' = Live /\ (halted => halted') /\ (s = "stall" => halted')
  BY SamePlaces DEF Fault, Kernel, tpriv, event, data, locking, Live
<1>2. Types /\ DoneAreDone /\ Listed /\ InTurn
  BY DEF IInv, Kept, Data, Order
<1>3. i \in Heads /\ i \in Queued /\ urb[i] \in Urb
  BY <1>2, Sizes DEF Fault, Heads, Types
<1> DEFINE u == [urb[i] EXCEPT !.state = "done", !.status = s]
<1>4. /\ u \in Urb /\ u.state = "done" /\ u.status = s
      /\ u.from = urb[i].from /\ u.actual = urb[i].actual
  BY <1>3 DEF Urb
<1>5. Ends(i, u)
  BY DEF Fault
<1> HIDE DEF u
<1>6. urb'[i] = u /\ Listed' /\ \A j \in 1 .. NumUrbs : j # i => MayEnd(j)
  BY <1>1, <1>2, <1>3, <1>4, <1>5, EndsUrbs
<1>7. MayEnd(i)
  BY <1>1, <1>3, <1>4, <1>6 DEF MayEnd, Queued
<1>8. user' = "submit" => \A j \in 1 .. NumUrbs : j < cursor' => j \notin Unsent
  BY <1>1, <1>2 DEF InTurn
<1> QED
  BY <1>1, <1>6, <1>7, <1>8, Unmoved

\* Neither does the end of all.
LEMMA UnplugBytes ==
  ASSUME IInv, Order, Stream, Work, Unplug
  PROVE  Order' /\ Stream'
<1>1. /\ UNCHANGED <<mode, reapCap, sent, given, transferred, buffer, handler, current,
                     user, cursor, reapAction, retired, halted>>
      /\ NumUrbs' = NumUrbs /\ connected /\ ~connected' /\ (Live' => Live)
  BY SamePlaces DEF Unplug, Kernel, tpriv, event, data, locking, Live
<1>2. Types /\ DoneAreDone /\ Listed /\ InTurn
  BY DEF IInv, Kept, Data, Order
<1>3. PICK later \in Ascending(Queued) : done' = done \o later
  BY DEF Unplug
<1>4. Queued \in SUBSET (1 .. NumUrbs)
  BY DEF Queued
<1>5. /\ later \in Seq(Nat) /\ \A k \in 1 .. Len(later) : later[k] \in Queued
      /\ \A j \in Queued : \E k \in 1 .. Len(later) : later[k] = j
  BY <1>2, <1>3, <1>4, AscendingDistinct, AscendingOnto
<1>6. \A j \in 1 .. NumUrbs : /\ j \in DOMAIN urb /\ urb[j] \in Urb
  <2>1. urb \in [1 .. MaxUrbs -> Urb] /\ 1 .. NumUrbs \subseteq 1 .. MaxUrbs
    BY <1>2, Sizes DEF Types
  <2> QED
    BY <2>1
<1>7. /\ \A j \in Queued : urb'[j] = [urb[j] EXCEPT !.state = "done", !.status = "shutdown"]
      /\ \A j \in 1 .. NumUrbs : j \notin Queued => urb'[j] = urb[j]
  BY <1>4, <1>6 DEF Unplug
<1>8. ASSUME NEW j \in Queued
      PROVE  /\ urb'[j].state = "done" /\ urb'[j].status = "shutdown"
             /\ urb'[j].from = urb[j].from /\ urb'[j].actual = urb[j].actual
  <2>1. urb[j] \in Urb
    BY <1>4, <1>6
  <2> QED
    BY <1>7, <2>1 DEF Urb
<1>9. \A j \in 1 .. NumUrbs : MayEnd(j)
  BY <1>1, <1>7, <1>8 DEF MayEnd, Queued
<1>10. Loaded' = Loaded
  BY <1>1, <1>7, <1>8 DEF Loaded
<1>11. Listed'
  <2>1. \A j \in 1 .. NumUrbs : /\ urb'[j].state = "done" => urb[j].state = "done" \/ j \in Queued
                                /\ urb[j].state = "reaped" => urb'[j].state = "reaped"
    BY <1>7 DEF Queued
  <2>2. \A l \in Loaded : \A j \in 1 .. NumUrbs : j < l => Over(j)
    BY <1>2 DEF InTurn
  <2> QED
    BY <1>1, <1>2, <1>3, <1>5, <1>10, <2>1, <2>2, ListedStep
<1>12. user' = "submit" => \A j \in 1 .. NumUrbs : j < cursor' => j \notin Unsent
  BY <1>1, <1>2 DEF InTurn
<1> QED
  BY <1>1, <1>9, <1>11, <1>12, Unmoved

-----------------------------------------------------------------------------
(* A packet comes in.                                                      *)

\* Where the first byte of a URB belongs: at its own place, unless one of the
\* URBs before it came back short.
LEMMA NextPlace ==
  ASSUME Types, OverflowLast, Order, Stream, connected, ~halted, NEW i \in 1 .. NumUrbs,
         \A j \in Loaded : j < i, \A j \in 1 .. NumUrbs : j < i => Over(j)
  PROVE  /\ sent <= given + Offset(i)
         /\ sent = given + Offset(i) \/ \E j \in 1 .. NumUrbs : j < i /\ Breaks(j)
<1>1. InTurn /\ Signs /\ Contiguous /\ Placed /\ Total /\ Live
  BY DEF Order, Stream, Live
<1>2. NumUrbs \in Nat /\ Offset(1) = 0
  BY Sizes, Places
<1>3. \A j \in 1 .. NumUrbs : /\ urb[j] \in Urb /\ UrbLen(j) \in Nat /\ UrbLen(j) >= 1
                              /\ Offset(j) \in Nat
  <2>1. urb \in [1 .. MaxUrbs -> Urb] /\ 1 .. NumUrbs \subseteq 1 .. MaxUrbs
    BY Sizes DEF Types
  <2> QED
    BY <2>1, Places
<1>4. ASSUME NEW j \in 1 .. NumUrbs, j < i, urb[j].actual < UrbLen(j)
      PROVE  Breaks(j)
  <2>1. urb[j].status \notin {"stall", "shutdown", "overflow"}
    BY <1>1, <1>4 DEF Signs, OverflowLast
  <2> QED
    BY <1>3, <1>4, <2>1 DEF Breaks, Urb
<1>5. CASE Loaded = {}
  <2>1. sent = given /\ given \in Int
    BY <1>1, <1>5 DEF Total
  <2>2. CASE i = 1
    BY <1>2, <2>1, <2>2
  <2>3. CASE i > 1
    <3>1. 1 \in 1 .. NumUrbs /\ 1 < i /\ urb[1].actual = 0
      BY <1>2, <1>3, <1>5, <2>3 DEF Loaded, Urb
    <3>2. Breaks(1)
      BY <1>3, <1>4, <3>1
    <3> QED
      BY <1>3, <2>1, <3>1, <3>2
  <2> QED
    BY <2>2, <2>3
<1>6. CASE Loaded # {}
  <2>1. PICK m \in Loaded : (\A j \in Loaded : j <= m) /\ End(m) = sent
    BY <1>1, <1>6 DEF Contiguous
  <2>2. /\ m \in 1 .. NumUrbs /\ m < i /\ urb[m].actual <= UrbLen(m)
        /\ sent = urb[m].from + urb[m].actual
        /\ urb[m].from \in Int /\ urb[m].actual \in Nat /\ given \in Int
    BY <1>1, <1>3, <2>1 DEF Loaded, InTurn, End, Urb, Total
  <2>3. Offset(m) + UrbLen(m) <= Offset(i)
    BY <2>2, Places
  <2>4. urb[m].from <= given + Offset(m)
    BY <1>1 DEF Placed
  <2>5. sent <= given + Offset(i)
    BY <1>3, <2>2, <2>3, <2>4
  <2>6. CASE \E j \in 1 .. NumUrbs : j < m /\ Breaks(j)
    BY <2>2, <2>5, <2>6
  <2>7. CASE urb[m].actual < UrbLen(m)
    BY <1>4, <2>2, <2>5, <2>7
  <2>8. CASE m + 1 < i
    <3>1. m + 1 \in 1 .. NumUrbs /\ m + 1 \notin Loaded
      BY <1>2, <2>1, <2>2, <2>8
    <3>2. urb[m + 1].actual = 0
      BY <1>3, <3>1 DEF Loaded, Urb
    <3>3. Breaks(m + 1)
      BY <1>3, <1>4, <2>8, <3>1, <3>2
    <3> QED
      BY <2>5, <2>8, <3>1, <3>3
  <2>9. CASE i = m + 1 /\ urb[m].actual = UrbLen(m) /\ urb[m].from = given + Offset(m)
    <3>1. Offset(m) + UrbLen(m) = Offset(i)
      BY <2>2, <2>9, Places
    <3> QED
      BY <1>3, <2>2, <2>5, <2>9, <3>1
  <2>10. urb[m].from = given + Offset(m) \/ \E j \in 1 .. NumUrbs : j < m /\ Breaks(j)
    BY <1>1 DEF Placed
  <2> QED
    BY <1>3, <2>2, <2>6, <2>7, <2>8, <2>9, <2>10
<1> QED
  BY <1>5, <1>6

\* What a packet does to the URBs: the head of the queue takes it, and may end.
LEMMA ReceiveUrbs ==
  ASSUME IInv, Order, Work, NEW i \in 1 .. NumUrbs, NEW n \in 0 .. PacketSize, Receive(i, n)
  PROVE  /\ urb[i].state = "queued" /\ urb[i].actual \in Nat /\ urb[i].from \in Int
         /\ urb'[i].actual \in Nat /\ urb'[i].actual >= urb[i].actual /\ urb'[i].actual <= UrbLen(i)
         /\ sent' = sent + (urb'[i].actual - urb[i].actual)
         /\ urb'[i].from = IF urb[i].actual = 0 THEN sent ELSE urb[i].from
         /\ urb'[i].state \in {"queued", "done"} /\ urb'[i].status \notin {"stall", "shutdown"}
         /\ urb'[i].state = "queued" => urb'[i].status = "ok"
         /\ \A j \in 1 .. NumUrbs : j # i => MayEnd(j)
         /\ \A j \in 1 .. NumUrbs : j < i => urb'[j] = urb[j] /\ Over(j)
         /\ Listed'
<1> DEFINE room == UrbLen(i) - urb[i].actual
           u == [urb[i] EXCEPT !.from = IF urb[i].actual = 0 THEN sent ELSE @,
                               !.actual = IF n > room THEN UrbLen(i) ELSE @ + n]
<1>1. Types /\ InTurn /\ Signs /\ Listed /\ DoneAreDone
  BY DEF IInv, Order, Kept, Data
<1>2. /\ NumUrbs' = NumUrbs /\ (Live' => Live) /\ Live
  BY SamePlaces DEF Receive, Kernel, Live
<1>3. /\ i \in Heads /\ i \in Queued /\ i \in 1 .. MaxUrbs /\ urb[i] \in Urb /\ n \in Nat
      /\ UrbLen(i) \in Nat /\ urb[i].state = "queued" /\ urb[i].status = "ok"
      /\ urb[i].actual <= UrbLen(i) /\ urb \in [1 .. MaxUrbs -> Urb]
  BY <1>1, Sizes, TransferAssumption DEF Receive, Heads, Queued, Types, InTurn, Signs
<1>4. /\ u \in Urb /\ u.status = "ok" /\ u.state = "queued"
      /\ u.from = IF urb[i].actual = 0 THEN sent ELSE urb[i].from
      /\ u.actual = IF n > room THEN UrbLen(i) ELSE urb[i].actual + n
  <2>1. (IF n > room THEN UrbLen(i) ELSE urb[i].actual + n) \in Nat
    BY <1>3 DEF Urb
  <2>2. (IF urb[i].actual = 0 THEN sent ELSE urb[i].from) \in Int
    BY <1>1, <1>3 DEF Types, Urb
  <2> QED
    BY <1>3, <2>1, <2>2 DEF Urb
<1>5. u.actual \in Nat /\ u.actual >= urb[i].actual /\ u.actual <= UrbLen(i)
  BY <1>3, <1>4 DEF Urb
<1>6. /\ sent' = sent + (u.actual - urb[i].actual)
      /\ \/ Ends(i, [u EXCEPT !.state = "done", !.status = "overflow"])
         \/ Ends(i, [u EXCEPT !.state = "done", !.status = "remoteio"])
         \/ Ends(i, [u EXCEPT !.state = "done", !.status = "ok"])
         \/ urb' = [urb EXCEPT ![i] = u] /\ done' = done
  BY DEF Receive
<1> HIDE DEF u
<1>7. ASSUME NEW s \in {"ok", "remoteio", "overflow"},
             Ends(i, [u EXCEPT !.state = "done", !.status = s])
      PROVE  /\ urb'[i].from = u.from /\ urb'[i].actual = u.actual
             /\ urb'[i].state = "done" /\ urb'[i].status \notin {"stall", "shutdown"}
             /\ \A j \in 1 .. NumUrbs : j # i => MayEnd(j)
             /\ \A j \in 1 .. NumUrbs : j < i => urb'[j] = urb[j] /\ Over(j)
             /\ Listed'
  <2> DEFINE v == [u EXCEPT !.state = "done", !.status = s]
  <2>1. /\ v \in Urb /\ v.state = "done" /\ v.status = s /\ v.from = u.from /\ v.actual = u.actual
    BY <1>4 DEF Urb
  <2>2. Ends(i, v)
    BY <1>7
  <2> HIDE DEF v
  <2>3. urb'[i] = v /\ Listed' /\ (\A j \in 1 .. NumUrbs : j # i => MayEnd(j))
        /\ \A j \in 1 .. NumUrbs : j < i => urb'[j] = urb[j] /\ Over(j)
    BY <1>1, <1>2, <1>3, <2>1, <2>2, EndsUrbs
  <2> QED
    BY <2>1, <2>3
<1>8. ASSUME urb' = [urb EXCEPT ![i] = u], done' = done
      PROVE  /\ urb'[i].from = u.from /\ urb'[i].actual = u.actual
             /\ urb'[i].state = "queued" /\ urb'[i].status = "ok"
             /\ \A j \in 1 .. NumUrbs : j # i => MayEnd(j)
             /\ \A j \in 1 .. NumUrbs : j < i => urb'[j] = urb[j] /\ Over(j)
             /\ Listed'
  <2>1. urb'[i] = u /\ \A j \in 1 .. NumUrbs : j # i => urb'[j] = urb[j]
    BY <1>3, <1>8, <1>1, Sizes
  <2>2. ASSUME NEW j \in 1 .. NumUrbs, j < i PROVE urb'[j] = urb[j] /\ Over(j)
    <3>1. j # i /\ j \notin Queued
      BY <1>1, <1>3, <2>2, Sizes DEF Heads
    <3>2. j \notin Unsent
      BY <1>1, <1>3, <2>2 DEF InTurn, Unsent
    <3>3. urb[j].state \in {"unsent", "queued", "done", "reaped"}
      BY <1>1, Sizes DEF Types, Urb
    <3> QED
      BY <2>1, <3>1, <3>2, <3>3 DEF Over, Queued, Unsent
  <2>3. \A j \in Loaded' : j # i => j \in Loaded
    BY <1>2, <2>1 DEF Loaded
  <2>4. Listed'
    <3>1. \A l \in 1 .. Len(done) : done[l] # i
      BY <1>1, <1>2, <1>3 DEF DoneAreDone
    <3>2. \A j \in 1 .. NumUrbs : urb'[j].state = urb[j].state
      BY <1>3, <1>4, <2>1
    <3> QED
      BY <1>1, <1>2, <1>8, <2>3, <3>1, <3>2 DEF Listed
  <2> QED
    BY <1>4, <2>1, <2>2, <2>4 DEF MayEnd
<1> QED
  BY <1>3, <1>4, <1>5, <1>6, <1>7, <1>8 DEF Urb

\* A packet keeps the order of the URBs and adds its bytes to the stream.
LEMMA ReceiveBytes ==
  ASSUME IInv, Order, Stream, Work, NEW i \in 1 .. NumUrbs, NEW n \in 0 .. PacketSize, Receive(i, n)
  PROVE  Order' /\ Stream'
<1>1. /\ UNCHANGED <<mode, reapCap, connected, given, transferred, buffer, handler, current, user,
                     cursor, reapAction, retired, halted>>
      /\ connected /\ ~halted /\ Live /\ NumUrbs \in Nat
  BY Sizes DEF Receive, Kernel, tpriv, event, data, locking, Live, IInv
<1>2. /\ Types /\ InTurn /\ Signs /\ ReapedInTurn /\ Contiguous /\ Placed /\ Total /\ Straight
      /\ Delivered /\ OverflowLast
      /\ (handler = "reaped" => current \in 1 .. NumUrbs /\ urb[current].state = "reaped")
  BY DEF IInv, Order, Stream, Control, Phases, Kept, Counted, Data
<1>3. /\ NumUrbs' = NumUrbs
      /\ \A j \in 1 .. NumUrbs : UrbLen(j)' = UrbLen(j) /\ Offset(j)' = Offset(j)
  BY <1>1, SamePlaces
<1>4. /\ urb[i].state = "queued" /\ urb[i].actual \in Nat /\ urb[i].from \in Int
      /\ urb'[i].actual \in Nat /\ urb'[i].actual >= urb[i].actual /\ urb'[i].actual <= UrbLen(i)
      /\ sent' = sent + (urb'[i].actual - urb[i].actual)
      /\ urb'[i].from = IF urb[i].actual = 0 THEN sent ELSE urb[i].from
      /\ urb'[i].state \in {"queued", "done"} /\ urb'[i].status \notin {"stall", "shutdown"}
      /\ urb'[i].state = "queued" => urb'[i].status = "ok"
  BY ReceiveUrbs
<1>5. /\ \A j \in 1 .. NumUrbs : j # i => MayEnd(j)
      /\ \A j \in 1 .. NumUrbs : j < i => urb'[j] = urb[j] /\ Over(j)
      /\ Listed'
  BY ReceiveUrbs
<1>6. /\ \A j \in 1 .. NumUrbs : j # i => urb'[j].from = urb[j].from /\ urb'[j].actual = urb[j].actual
      /\ \A j \in 1 .. NumUrbs : urb[j].state # "queued" => urb'[j] = urb[j]
      /\ \A j \in 1 .. NumUrbs : urb'[j].state = "unsent" <=> urb[j].state = "unsent"
      /\ \A j \in 1 .. NumUrbs : urb'[j].state = "reaped" <=> urb[j].state = "reaped"
      /\ \A j \in 1 .. NumUrbs : Over(j) => Over(j)'
  BY <1>4, <1>5 DEF MayEnd, Over
<1>7. /\ Unsent' = Unsent /\ Loaded \subseteq 1 .. NumUrbs
      /\ \A j \in Loaded : j <= i
      /\ Loaded' = IF urb'[i].actual > 0 THEN Loaded \cup {i} ELSE Loaded
      /\ urb'[i].actual = 0 => i \notin Loaded
      /\ i \in Loaded <=> urb[i].actual > 0
  <2>1. \A j \in Loaded : j <= i
    BY <1>1, <1>2, <1>4 DEF InTurn, Loaded, Over
  <2> QED
    BY <1>3, <1>4, <1>6, <2>1 DEF Unsent, Loaded
<1>8. \A j \in Loaded : j # i => j < i /\ urb'[j] = urb[j]
  BY <1>1, <1>5, <1>7
<1>9. \A j \in 1 .. NumUrbs : (Through(j)' <=> Through(j)) /\ (Through(j) => (Breaks(j)' <=> Breaks(j)))
                              /\ (j < i => (Breaks(j)' <=> Breaks(j)))
  <2>1. \A j \in 1 .. NumUrbs : Through(j)' <=> Through(j)
    BY <1>1, <1>6 DEF Through
  <2>2. \A j \in 1 .. NumUrbs : Through(j) \/ j < i => urb'[j] = urb[j]
    BY <1>5, <1>6 DEF Through
  <2> QED
    BY <1>3, <2>1, <2>2 DEF Breaks
<1>10. ~Through(i)
  BY <1>4 DEF Through
<1>11. InTurn'
  <2>1. \A j \in 1 .. NumUrbs : urb'[j].actual <= UrbLen(j)'
    BY <1>2, <1>3, <1>4, <1>6 DEF InTurn
  <2>2. \A k \in Loaded' : k \notin Unsent' /\ \A j \in 1 .. NumUrbs' : j < k => Over(j)'
    BY <1>2, <1>3, <1>4, <1>5, <1>6, <1>7 DEF InTurn, Unsent
  <2> QED
    BY <1>1, <1>2, <1>3, <1>7, <2>1, <2>2 DEF InTurn
<1>12. Signs'
  BY <1>1, <1>2, <1>3, <1>4, <1>5 DEF Signs, MayEnd
<1>13. ReapedInTurn'
  BY <1>1, <1>2, <1>3, <1>4, <1>6, <1>7 DEF ReapedInTurn, Loaded
<1>14. Straight'
  BY <1>1, <1>2, <1>3, <1>9 DEF Straight
<1>15. Delivered'
  <2>1. handler' = "reaped" => urb'[current] = urb[current] /\ Offset(current)' = Offset(current)
    BY <1>1, <1>2, <1>3, <1>6
  <2> QED
    BY <1>1, <1>2, <2>1 DEF Delivered
<1>16. CASE urb'[i].actual = urb[i].actual
  <2>1. sent' = sent /\ Loaded' = Loaded
    BY <1>2, <1>4, <1>7, <1>16 DEF Types
  <2>2. \A j \in Loaded : urb'[j].from = urb[j].from /\ urb'[j].actual = urb[j].actual
                          /\ End(j)' = End(j)
    BY <1>4, <1>6, <1>7, <1>16 DEF End
  <2>3. Contiguous'
    BY <1>2, <2>1, <2>2 DEF Contiguous
  <2>4. Placed'
    BY <1>1, <1>2, <1>3, <1>7, <1>9, <2>1, <2>2 DEF Placed
  <2>5. Total'
    BY <1>1, <1>2, <1>7, <1>9, <2>1, <2>2 DEF Total, Live
  <2> QED
    BY <1>5, <1>11, <1>12, <1>13, <1>14, <1>15, <2>3, <2>4, <2>5 DEF Order, Stream
<1>17. CASE urb'[i].actual > urb[i].actual
  <2>1. Loaded' = Loaded \cup {i} /\ i \in Loaded'
    BY <1>4, <1>7, <1>17
  <2>2. End(i)' = sent' /\ (i \in Loaded => urb'[i].from = urb[i].from)
        /\ (i \notin Loaded => urb'[i].from = sent)
    <3>1. CASE i \in Loaded
      <4>1. PICK m \in Loaded : (\A j \in Loaded : j <= m) /\ End(m) = sent
        BY <1>2, <3>1 DEF Contiguous
      <4>2. m = i
        BY <1>1, <1>7, <3>1, <4>1
      <4> QED
        BY <1>2, <1>4, <1>7, <3>1, <4>1, <4>2 DEF End, Types
    <3>2. CASE i \notin Loaded
      BY <1>2, <1>4, <1>7, <3>2 DEF End, Types
    <3> QED
      BY <3>1, <3>2
  <2>3. \A j \in Loaded : j # i => End(j)' = End(j) /\ urb'[j].from = urb[j].from
    BY <1>7, <1>8 DEF End
  <2>4. Contiguous'
    <3>1. ASSUME NEW k \in Loaded', k # i
          PROVE  \E j \in Loaded' : /\ k < j /\ End(k)' = urb'[j].from
                                    /\ \A l \in Loaded' : l <= k \/ l >= j
      <4>1. k \in Loaded /\ k < i /\ k \in Int /\ i \in Int
        <5>1. k \in Loaded
          BY <2>1, <3>1
        <5>2. k \in 1 .. NumUrbs /\ k < i
          BY <1>7, <1>8, <3>1, <5>1
        <5> QED
          BY <1>1, <5>1, <5>2
      <4>2. CASE \A j \in Loaded : j <= k
        <5>1. i \notin Loaded
          BY <4>1, <4>2
        <5>2. PICK m \in Loaded : (\A j \in Loaded : j <= m) /\ End(m) = sent
          BY <1>2, <4>1 DEF Contiguous
        <5>3. m = k
          BY <1>1, <1>7, <4>1, <4>2, <5>2
        <5>4. i \in Loaded' /\ k < i /\ End(k)' = urb'[i].from
          BY <2>1, <2>2, <2>3, <3>1, <4>1, <5>1, <5>2, <5>3
        <5>5. \A l \in Loaded' : l <= k \/ l >= i
          BY <2>1, <4>1, <4>2
        <5> QED
          BY <5>4, <5>5
      <4>3. CASE \E j \in Loaded : /\ k < j /\ End(k) = urb[j].from
                                   /\ \A l \in Loaded : l <= k \/ l >= j
        <5>1. PICK j \in Loaded : /\ k < j /\ End(k) = urb[j].from
                                  /\ \A l \in Loaded : l <= k \/ l >= j
          BY <4>3
        <5>2. j <= i /\ urb'[j].from = urb[j].from
          BY <1>7, <2>2, <2>3, <5>1
        <5> QED
          BY <2>1, <2>3, <3>1, <4>1, <5>1, <5>2
      <4> QED
        BY <1>2, <4>1, <4>2, <4>3 DEF Contiguous
    <3>2. \A j \in Loaded' : j <= i
      BY <1>1, <1>7, <2>1
    <3>3. ASSUME NEW k \in Loaded'
          PROVE  \/ \A j \in Loaded' : j <= k
                 \/ \E j \in Loaded' : /\ k < j /\ End(k)' = urb'[j].from
                                       /\ \A l \in Loaded' : l <= k \/ l >= j
      BY <3>1, <3>2
    <3>4. \E k \in Loaded' : (\A j \in Loaded' : j <= k) /\ End(k)' = sent'
      BY <2>1, <2>2, <3>2
    <3>5. ASSUME NEW k \in Loaded' PROVE End(k)' <= sent'
      <4>1. CASE k = i
        BY <1>2, <1>4, <2>2, <4>1 DEF Types
      <4>2. CASE k # i
        <5>1. k \in Loaded /\ End(k)' = End(k)
          BY <2>1, <2>3, <4>2
        <5>2. End(k) \in Int /\ End(k) <= sent
          BY <1>2, <1>6, <1>7, <5>1, UrbsTyped DEF Contiguous, End, Urb
        <5> QED
          BY <1>2, <1>4, <1>17, <5>1, <5>2 DEF Types
      <4> QED
        BY <4>1, <4>2
    <3> QED
      BY <3>3, <3>4, <3>5 DEF Contiguous
  <2>5. Placed'
    <3>1. ASSUME NEW k \in Loaded
          PROVE  /\ urb'[k].from <= given + Offset(k)
                 /\ urb'[k].from = given + Offset(k) \/ \E j \in 1 .. NumUrbs : j < k /\ Breaks(j)'
      <4>1. urb'[k].from = urb[k].from
        BY <2>2, <2>3
      <4>2. \A j \in 1 .. NumUrbs : j < k => j < i
        BY <1>1, <1>7
      <4> QED
        BY <1>2, <1>9, <4>1, <4>2 DEF Placed
    <3>2. ASSUME i \notin Loaded
          PROVE  /\ urb'[i].from <= given + Offset(i)
                 /\ urb'[i].from = given + Offset(i) \/ \E j \in 1 .. NumUrbs : j < i /\ Breaks(j)'
      <4>1. (\A j \in Loaded : j < i) /\ \A j \in 1 .. NumUrbs : j < i => Over(j)
        BY <1>5, <1>8, <3>2
      <4>2. /\ sent <= given + Offset(i)
            /\ sent = given + Offset(i) \/ \E j \in 1 .. NumUrbs : j < i /\ Breaks(j)
        BY <1>1, <1>2, <4>1, NextPlace
      <4> QED
        BY <1>9, <2>2, <3>2, <4>2
    <3> QED
      BY <1>1, <1>3, <1>7, <2>1, <3>1, <3>2 DEF Placed
  <2>6. Total'
    <3>1. given' \in Int /\ transferred' \in 0 .. Length /\ given' + transferred' <= sent'
      BY <1>1, <1>2, <1>4 DEF Total, Types
    <3>2. ASSUME NEW k \in Loaded', ~Through(k)', \A j \in Loaded' : j < k => Through(j)'
          PROVE  urb'[k].from = given + transferred
      <4>1. CASE k \in Loaded
        <5>1. ~Through(k) /\ \A j \in Loaded : j < k => Through(j)
          BY <1>7, <1>9, <2>1, <3>2, <4>1
        <5>2. urb'[k].from = urb[k].from
          BY <2>2, <2>3, <4>1
        <5> QED
          BY <1>2, <4>1, <5>1, <5>2 DEF Total
      <4>2. CASE k \notin Loaded
        <5>1. k = i /\ \A j \in Loaded : Through(j)
          BY <1>7, <1>8, <1>9, <2>1, <3>2, <4>2
        <5> QED
          BY <1>1, <1>2, <2>2, <4>2, <5>1 DEF Total
      <4> QED
        BY <4>1, <4>2
    <3>3. \E j \in Loaded' : ~Through(j)'
      BY <1>9, <1>10, <2>1
    <3> QED
      BY <1>1, <2>1, <3>1, <3>2, <3>3 DEF Total
  <2> QED
    BY <1>5, <1>11, <1>12, <1>13, <1>14, <1>15, <2>4, <2>5, <2>6 DEF Order, Stream
<1> QED
  BY <1>4, <1>16, <1>17

-----------------------------------------------------------------------------
(* The steps in between.                                                   *)

\* Steps that do no more to the URBs than to discard one.
LEMMA StillBytes ==
  ASSUME IInv, Order, Stream,
         UNCHANGED <<mode, reapCap, connected, halted, sent, given, transferred, buffer>>,
         UNCHANGED kernel \/ (DiscardOne /\ cursor > 0 /\ itLock # "none"),
         (handler' # "reaped" /\ handler # "reaped") \/ UNCHANGED <<handler, current>>,
         user' = "submit" => (user = "submit" /\ cursor' = cursor) \/ cursor' = 1,
         reapAction' = "normal" => UNCHANGED <<reapAction, retired>>
  PROVE  Order' /\ Stream'
<1>1. Types /\ Locks /\ Listed /\ InTurn /\ NumUrbs \in Nat
  BY Sizes DEF IInv, Control, Order
<1>2. Listed' /\ \A i \in 1 .. NumUrbs : MayEnd(i)
  <2>1. CASE UNCHANGED kernel
    <3>1. urb' = urb /\ done' = done /\ NumUrbs' = NumUrbs /\ Live' = Live
      BY <2>1, SamePlaces DEF kernel, Live
    <3>2. Loaded' = Loaded
      BY <3>1 DEF Loaded
    <3> QED
      BY <1>1, <3>1, <3>2 DEF Listed, MayEnd
  <2>2. CASE DiscardOne /\ cursor > 0 /\ itLock # "none"
    <3>1. cursor \in 1 .. NumUrbs
      BY <1>1, <2>2 DEF Locks, Types
    <3> QED
      BY <2>2, <3>1, DiscardEnds
  <2> QED
    BY <2>1, <2>2
<1>3. user' = "submit" => \A j \in 1 .. NumUrbs : j < cursor' => j \notin Unsent
  BY <1>1 DEF InTurn
<1>4. NumUrbs' = NumUrbs /\ (Live' => Live)
  BY SamePlaces DEF Live
<1> QED
  BY <1>2, <1>3, <1>4, Unmoved

\* A transfer begins, or is refused.
LEMMA BeginBytes ==
  ASSUME IInv, Order, Stream, Submit \/ \E e \in {"nodev", "remoteio", "nomem"} : SubmitFails(e)
  PROVE  Order' /\ Stream'
<1>1. UNCHANGED <<mode, reapCap, connected, halted, sent, given, transferred, buffer, urb, done,
                  handler, current>>
  BY DEF Submit, SubmitFails, device, history, event, data, kernel
<1>2. user' = "submit" => cursor' = 1
  BY DEF Submit, SubmitFails, Flies
<1>3. reapAction' = "normal" => UNCHANGED <<reapAction, retired>>
  BY DEF Submit, SubmitFails
<1> QED
  BY <1>1, <1>2, <1>3, StillBytes DEF kernel

\* A cancellation, of all that is left or of the transfer.
LEMMA CancelBytes ==
  ASSUME IInv, Order, Stream, SubmitDiscard \/ UserCancel \/ TimerCancel
  PROVE  Order' /\ Stream'
<1>1. Locks
  BY DEF IInv, Control
<1>2. UNCHANGED <<mode, reapCap, connected, halted, sent, given, transferred, buffer,
                  handler, current, retired>>
  BY DEF SubmitDiscard, UserCancel, TimerCancel, device, history, event, data, tpriv
<1>3. reapAction' = "normal" => UNCHANGED <<reapAction, retired>>
  BY <1>2 DEF SubmitDiscard, UserCancel, TimerCancel, CancelEnds, tpriv
<1>4. UNCHANGED kernel \/ (DiscardOne /\ cursor > 0 /\ itLock # "none")
  BY <1>1 DEF SubmitDiscard, UserCancel, TimerCancel, Locks
<1>5. user' = "submit" => user = "submit" /\ cursor' = cursor
  BY <1>1 DEF SubmitDiscard, UserCancel, TimerCancel, CancelRefused, CancelBegins, CancelEnds,
              Flies, Locks, locking
<1> QED
  BY <1>2, <1>3, <1>4, <1>5, StillBytes

\* The event thread goes from one phase to the next, or discards what is left.
LEMMA PassOnBytes ==
  ASSUME IInv, Order, Stream,
         \/ PollError \/ Sweep \/ Seize \/ Discard \/ Settle \/ Unlist \/ Land \/ Callback
  PROVE  Order' /\ Stream'
<1>1. Types /\ Locks
  BY DEF IInv, Control
<1>2. UNCHANGED <<mode, reapCap, connected, halted, sent, given, transferred, buffer, user,
                  retired, reapAction>>
  BY DEF PollError, Sweep, Seize, Discard, Settle, Unlist, Land, Callback,
         device, history, data, tpriv
<1>3. handler' # "reaped" /\ handler # "reaped"
  BY <1>1 DEF PollError, Sweep, Drained, Seize, Discard, Settle, Unlist, Land, Callback, Back, Types
<1>4. UNCHANGED kernel \/ (DiscardOne /\ cursor > 0 /\ itLock # "none")
  BY <1>1 DEF PollError, Sweep, Seize, Discard, Settle, Unlist, Land, Callback, Locks, Types
<1>5. user' = "submit" => user = "submit" /\ cursor' = cursor
  BY <1>1, <1>2 DEF PollError, Sweep, Seize, Discard, Settle, Unlist, Land, Callback, Locks, locking
<1> QED
  BY <1>2, <1>3, <1>4, <1>5, StillBytes

\* The clock.
LEMMA ClockBytes ==
  ASSUME IInv, Order, Stream, TimeOut \/ TimerMark
  PROVE  Order' /\ Stream'
<1>1. UNCHANGED <<mode, reapCap, connected, halted, sent, given, transferred, buffer, urb, done,
                  handler, current, user, cursor, retired, reapAction>>
  BY DEF TimeOut, TimerMark, device, history, event, data, kernel, tpriv, locking
<1> QED
  BY <1>1, StillBytes DEF kernel

\* A URB is submitted: the next one, and it holds nothing.
LEMMA SubmitUrbBytes ==
  ASSUME IInv, Order, Stream, SubmitUrb
  PROVE  Order' /\ Stream'
<1>1. /\ UNCHANGED <<mode, reapCap, connected, halted, sent, given, transferred, buffer, done,
                     handler, current, retired, reapAction>>
      /\ user = "submit" /\ urb' = [urb EXCEPT ![cursor].state = "queued"]
      /\ user' = "submit" => cursor' = cursor + 1
  BY DEF SubmitUrb, Flies, history, event, data, tpriv
<1>2. /\ Types /\ InTurn /\ Signs /\ Listed /\ ReapedInTurn /\ Delivered
      /\ (handler = "reaped" => current \in 1 .. NumUrbs /\ urb[current].state = "reaped")
  BY DEF IInv, Order, Stream, Control, Phases, Kept, Counted
<1>3. /\ NumUrbs' = NumUrbs /\ Live' = Live
      /\ \A i \in 1 .. NumUrbs : UrbLen(i)' = UrbLen(i) /\ Offset(i)' = Offset(i)
  BY <1>1, SamePlaces DEF Live
<1>4. cursor \in 1 .. NumUrbs /\ cursor \in Unsent
  <2>1. cursor >= 1 /\ cursor <= NumUrbs /\ cursor .. NumUrbs \subseteq Unsent
    BY <1>1 DEF IInv, Control, Kept, Locks, Counted
  <2> QED
    BY <1>2, <2>1, Sizes DEF Types
<1>5. /\ urb'[cursor].state = "queued" /\ urb'[cursor].status = "ok"
      /\ urb'[cursor].from = urb[cursor].from /\ urb'[cursor].actual = urb[cursor].actual
      /\ \A j \in 1 .. NumUrbs : j # cursor => urb'[j] = urb[j]
  <2>1. urb \in [1 .. MaxUrbs -> Urb] /\ \A j \in 1 .. NumUrbs : j \in 1 .. MaxUrbs
    BY <1>2, Sizes DEF Types
  <2>2. urb[cursor].state = "unsent" /\ urb[cursor].status = "ok"
    BY <1>2, <1>4 DEF Unsent, Signs
  <2> QED
    BY <1>1, <1>4, <2>1, <2>2 DEF Urb
<1>6. Loaded' = Loaded /\ Unsent' = Unsent \ {cursor}
  BY <1>3, <1>4, <1>5 DEF Loaded, Unsent
<1>7. \A i \in 1 .. NumUrbs : /\ Over(i) => urb'[i] = urb[i] /\ Over(i)'
                              /\ urb'[i].state \in {"done", "reaped"} => urb'[i] = urb[i]
                              /\ Through(i)' <=> Through(i)
  BY <1>1, <1>4, <1>5 DEF Over, Through, Unsent
<1>8. InTurn'
  <2>1. \A i \in 1 .. NumUrbs : urb'[i].actual <= UrbLen(i)'
    BY <1>2, <1>3, <1>5 DEF InTurn
  <2>2. \A i, j \in 1 .. NumUrbs : j < i /\ j \in Unsent' => i \in Unsent'
    BY <1>1, <1>2, <1>6 DEF InTurn
  <2>3. user' = "submit" => \A j \in 1 .. NumUrbs : j < cursor' => j \notin Unsent'
    <3>1. \A j \in 1 .. NumUrbs : j < cursor + 1 => j < cursor \/ j = cursor
      BY <1>2, Sizes DEF Types
    <3> QED
      BY <1>1, <1>2, <1>6, <3>1 DEF InTurn
  <2>4. \A i \in Loaded' : i \notin Unsent' /\ \A j \in 1 .. NumUrbs : j < i => Over(j)'
    BY <1>2, <1>6, <1>7 DEF InTurn
  <2> QED
    BY <1>3, <2>1, <2>2, <2>3, <2>4 DEF InTurn
<1>9. Signs'
  BY <1>1, <1>2, <1>3, <1>5 DEF Signs
<1>10. Listed'
  BY <1>1, <1>2, <1>3, <1>6, <1>7 DEF Listed, Over
<1>11. ReapedInTurn'
  <2>1. \A i \in 1 .. NumUrbs : urb'[i].state = "reaped" <=> urb[i].state = "reaped"
    BY <1>7 DEF Over
  <2> QED
    BY <1>1, <1>2, <1>3, <1>6, <2>1 DEF ReapedInTurn, Loaded
<1>12. Contiguous' /\ Placed' /\ Total' /\ Straight'
  BY <1>1, <1>2, <1>3, <1>5, <1>7, SameStream
<1>13. Delivered'
  BY <1>1, <1>2, <1>3, <1>7 DEF Delivered, Over
<1> QED
  BY <1>8, <1>9, <1>10, <1>11, <1>12, <1>13 DEF Order, Stream

\* The transfer is freed: what it brought is given, and nothing is left behind.
LEMMA BlankBytes ==
  ASSUME IInv, Order, Stream, SubmitUndo \/ Return
  PROVE  Order' /\ Stream'
<1>1. /\ Types /\ Phases /\ Counted /\ Settled /\ InTurn /\ Listed /\ Total
  BY DEF IInv, Order, Stream, Control, Kept
<1>2. /\ UNCHANGED <<mode, reapCap, connected, halted, sent, done, handler>>
      /\ user' = "idle" /\ Blank /\ (user = "undo" \/ completed)
      /\ given' = IF user = "undo" THEN given ELSE given + transferred
  BY <1>1 DEF SubmitUndo, Return, device, event, Phases
<1>3. NumUrbs' = NumUrbs /\ Live' = Live
  BY <1>2, SamePlaces DEF Live
<1>4. handler \in Resting /\ handler # "reaped"
  BY <1>1, <1>2 DEF Phases, Resting
<1>5. \A i \in 1 .. NumUrbs : urb'[i] = Fresh
  <2>1. 1 .. NumUrbs \subseteq 1 .. MaxUrbs
    BY <1>1, Sizes
  <2> QED
    BY <1>2, <2>1 DEF Blank
<1>6. Loaded' = {} /\ \A i \in 1 .. NumUrbs : i \in Unsent' /\ ~Through(i)'
  BY <1>3, <1>5 DEF Loaded, Unsent, Through, Fresh
<1>7. /\ given' \in Int /\ given' = given + transferred
      /\ Live => sent = given'
  <2>1. CASE user = "undo"
    <3>1. Loaded = {}
      BY <1>1, <2>1 DEF Counted, InTurn, Loaded
    <3> QED
      BY <1>1, <1>2, <2>1, <3>1 DEF Total
  <2>2. CASE user # "undo"
    <3>1. ASSUME Live, NEW i \in Loaded PROVE Through(i)
      <4>1. NoneOut /\ i \in 1 .. NumUrbs
        BY <1>1, <1>2, <2>2 DEF Settled, Loaded
      <4>2. done = <<>> /\ Len(done) = 0 /\ i \notin Queued
        BY <3>1, <4>1 DEF NoneOut
      <4>3. urb[i].state # "done"
        BY <1>1, <3>1, <4>1, <4>2 DEF Listed
      <4>4. urb[i].state # "unsent"
        BY <1>1, <3>1, <4>1 DEF InTurn, Unsent
      <4>5. urb[i].state \in {"unsent", "queued", "done", "reaped"}
        BY <1>1, <4>1, Sizes DEF Types, Urb
      <4> QED
        BY <1>4, <4>1, <4>2, <4>3, <4>4, <4>5 DEF Through, Queued
    <3> QED
      BY <1>1, <1>2, <2>2, <3>1 DEF Total
  <2> QED
    BY <2>1, <2>2
<1>8. InTurn'
  <2>1. \A i \in 1 .. NumUrbs : urb'[i].actual <= UrbLen(i)'
    <3>1. \A i \in 1 .. NumUrbs : urb'[i].actual = 0 /\ UrbLen(i)' = UrbLen(i) /\ UrbLen(i) \in Nat
      BY <1>1, <1>2, <1>5, SamePlaces, Sizes DEF Fresh
    <3> QED
      BY <3>1
  <2> QED
    BY <1>2, <1>3, <1>6, <2>1 DEF InTurn
<1>9. Signs' /\ Listed' /\ ReapedInTurn'
  BY <1>2, <1>3, <1>4, <1>5, <1>6 DEF Signs, Listed, ReapedInTurn, Fresh
<1>10. Contiguous' /\ Placed' /\ Straight'
  BY <1>3, <1>6 DEF Contiguous, Placed, Straight
<1>11. Total'
  <2>1. transferred' = 0 /\ Length \in Nat
    BY <1>2, TransferAssumption DEF Blank
  <2>2. given' + 0 <= sent' /\ (Live' => sent' = given' + 0)
    BY <1>1, <1>2, <1>3, <1>7 DEF Total, Types
  <2> QED
    BY <1>6, <1>7, <2>1, <2>2 DEF Total
<1>12. Delivered'
  BY <1>2, <1>4 DEF Delivered, Blank
<1> QED
  BY <1>8, <1>9, <1>10, <1>11, <1>12 DEF Order, Stream

\* What is written into the buffer, and what stays.
LEMMA PutBytes ==
  ASSUME NEW buf, NEW n \in Nat, NEW u \in Urb, Length \in Nat
  PROVE  \A k \in 1 .. Length :
           Put(buf, n, Bytes(u))[k] = IF k \in n + 1 .. n + u.actual THEN u.from + (k - n) ELSE buf[k]
<1>1. u.actual \in Nat /\ u.from \in Int
  BY DEF Urb
<1>2. Bytes(u) \in [1 .. u.actual -> Int]
  BY <1>1 DEF Bytes
<1>3. Bytes(u) \in Seq(Int) /\ Len(Bytes(u)) = u.actual
  <2>1. Bytes(u) \in Seq(Int)
    BY <1>1, <1>2, SeqDef
  <2>2. DOMAIN Bytes(u) = 1 .. u.actual /\ DOMAIN Bytes(u) = 1 .. Len(Bytes(u))
    BY <1>2, <2>1, LenProperties
  <2> QED
    BY <1>1, <2>1, <2>2, LenProperties
<1>4. ASSUME NEW k \in n + 1 .. n + u.actual PROVE Bytes(u)[k - n] = u.from + (k - n)
  <2>1. k - n \in 1 .. u.actual
    BY <1>1
  <2> QED
    BY <2>1 DEF Bytes
<1> QED
  BY <1>3, <1>4 DEF Put

\* usbfs gives back the next URB, and its data are in place.
LEMMA ReapBytes ==
  ASSUME IInv, Order, Stream, Reap
  PROVE  Order' /\ Stream'
<1>1. PICK c \in 1 .. NumUrbs : c = current' /\ urb[c].state = "done"
  BY ReapWhileOut
<1>2. /\ UNCHANGED <<mode, reapCap, connected, halted, sent, given, transferred, user, cursor,
                     retired, reapAction>>
      /\ handler' = "reaped" /\ handler # "reaped" /\ Live
      /\ done # <<>> /\ c = Head(done) /\ done' = Tail(done)
      /\ urb' = [urb EXCEPT ![c].state = "reaped"]
      /\ buffer' = Put(buffer, Offset(c), Bytes(urb[c]))
  BY <1>1 DEF Reap, Live, device, history, tpriv, locking
<1>3. /\ Types /\ InTurn /\ Signs /\ Listed /\ ReapedInTurn /\ Placed /\ Total /\ Delivered
  BY DEF IInv, Order, Stream
<1>4. /\ NumUrbs' = NumUrbs /\ Live' = Live /\ NumUrbs \in Nat
      /\ \A i \in 1 .. NumUrbs : UrbLen(i)' = UrbLen(i) /\ Offset(i)' = Offset(i)
  BY <1>2, <1>3, SamePlaces, Sizes DEF Live
<1>5. /\ urb'[c].state = "reaped" /\ urb'[c].status = urb[c].status
      /\ urb'[c].from = urb[c].from /\ urb'[c].actual = urb[c].actual
      /\ \A j \in 1 .. NumUrbs : j # c => urb'[j] = urb[j]
      /\ urb[c] \in Urb
  <2>1. urb \in [1 .. MaxUrbs -> Urb] /\ \A j \in 1 .. NumUrbs : j \in 1 .. MaxUrbs
    BY <1>3, Sizes DEF Types
  <2> QED
    BY <1>2, <1>1, <2>1 DEF Urb
<1>6. Loaded' = Loaded /\ Unsent' = Unsent
  BY <1>1, <1>4, <1>5 DEF Loaded, Unsent
<1>7. \A i \in 1 .. NumUrbs : /\ Over(i)' <=> Over(i)
                              /\ urb'[i].status = urb[i].status
                              /\ Through(i) <=> urb[i].state = "reaped"
                              /\ Through(i)' <=> Through(i)
  BY <1>2, <1>1, <1>5 DEF Over, Through
<1>8. /\ Len(done) \in Nat /\ Len(done) >= 1 /\ done[1] = c /\ Len(done') = Len(done) - 1
      /\ \A k \in 1 .. Len(done) - 1 : done'[k] = done[k + 1]
  <2>1. done \in Seq(Nat)
    BY <1>3 DEF Types
  <2> QED
    BY <1>2, <2>1
<1>9. \A j \in 1 .. NumUrbs : j < c /\ c \in Loaded => urb[j].state = "reaped"
  <2>1. 1 \in 1 .. Len(done) /\ 1 .. 1 - 1 = {}
    BY <1>8
  <2> QED
    BY <1>2, <1>3, <1>8, <2>1 DEF Listed
<1>10. InTurn'
  BY <1>2, <1>3, <1>1, <1>4, <1>5, <1>6, <1>7 DEF InTurn
<1>11. Signs'
  BY <1>2, <1>3, <1>1, <1>4, <1>5 DEF Signs
<1>12. Listed'
  <2>1. ASSUME NEW j \in 1 .. NumUrbs, j # c, NEW k \in 1 .. Len(done), done[k] = j
        PROVE  k - 1 \in 1 .. Len(done') /\ done'[k - 1] = j
    BY <1>8, <2>1
  <2>2. ASSUME NEW j \in 1 .. NumUrbs, urb'[j].state = "done"
        PROVE  \E k \in 1 .. Len(done') : done'[k] = j
    <3>1. j # c /\ urb[j].state = "done"
      BY <1>5, <2>2
    <3>2. PICK k \in 1 .. Len(done) : done[k] = j
      BY <1>2, <1>3, <3>1 DEF Listed
    <3> QED
      BY <2>1, <3>1, <3>2
  <2>3. ASSUME NEW l \in 1 .. Len(done'), done'[l] \in Loaded, NEW j \in 1 .. NumUrbs,
               j < done'[l]
        PROVE  urb'[j].state = "reaped" \/ \E k \in 1 .. l - 1 : done'[k] = j
    <3>1. l + 1 \in 1 .. Len(done) /\ done[l + 1] = done'[l]
      BY <1>8
    <3>2. CASE urb[j].state = "reaped"
      BY <1>1, <1>5, <3>2
    <3>3. CASE \E k \in 1 .. l + 1 - 1 : done[k] = j
      <4>1. PICK k \in 1 .. l : done[k] = j
        BY <1>8, <3>3
      <4>2. CASE j = c
        BY <1>5, <4>2
      <4>3. CASE j # c
        <5>1. k \in 1 .. Len(done) /\ k # 1
          BY <1>8, <4>1, <4>3
        <5>2. k - 1 \in 1 .. l - 1 /\ done'[k - 1] = j
          BY <1>8, <2>1, <4>1, <4>3, <5>1
        <5> QED
          BY <5>2
      <4> QED
        BY <4>2, <4>3
    <3>4. urb[j].state = "reaped" \/ \E k \in 1 .. l + 1 - 1 : done[k] = j
      BY <1>2, <1>3, <2>3, <3>1 DEF Listed
    <3> QED
      BY <3>2, <3>3, <3>4
  <2> QED
    BY <1>4, <1>6, <2>2, <2>3 DEF Listed
<1>13. ReapedInTurn'
  <2>1. \A i \in Loaded : urb'[i].state = "reaped" =>
          \A j \in 1 .. NumUrbs : j < i => urb'[j].state = "reaped"
    BY <1>3, <1>5, <1>9 DEF ReapedInTurn, Loaded
  <2>2. \A i \in Loaded : i > c => urb'[i].state # "reaped"
    <3> SUFFICES ASSUME NEW i \in Loaded, i > c, urb'[i].state = "reaped" PROVE FALSE
      OBVIOUS
    <3>1. i \in 1 .. NumUrbs /\ i # c
      BY <1>1 DEF Loaded
    <3>2. urb[i].state = "reaped"
      BY <1>5, <3>1
    <3> QED
      BY <1>3, <1>1, <3>2 DEF ReapedInTurn
  <2> QED
    BY <1>1, <1>4, <1>6, <2>1, <2>2 DEF ReapedInTurn
<1>14. Contiguous' /\ Placed' /\ Total' /\ Straight'
  <2>1. \A i \in 1 .. NumUrbs : urb'[i].from = urb[i].from /\ urb'[i].actual = urb[i].actual
    BY <1>5
  <2> QED
    BY <1>2, <1>3, <1>4, <1>7, <2>1, SameStream
<1>15. Delivered'
  <2> DEFINE n == Offset(c)
             u == urb[c]
  <2>1. /\ n \in Nat /\ n + UrbLen(c) <= Length /\ UrbLen(c) \in Nat /\ u \in Urb
        /\ u.actual \in Nat /\ u.from \in Int /\ u.actual <= UrbLen(c) /\ Length \in Nat
    BY <1>3, <1>1, <1>5, Places, TransferAssumption DEF Urb, InTurn
  <2>2. \A k \in 1 .. Length :
          buffer'[k] = IF k \in n + 1 .. n + u.actual THEN u.from + (k - n) ELSE buffer[k]
    <3>1. \A k \in 1 .. Length : Put(buffer, n, Bytes(u))[k] =
            IF k \in n + 1 .. n + u.actual THEN u.from + (k - n) ELSE buffer[k]
      <4> HIDE DEF n, u
      <4> QED
        BY <2>1, PutBytes
    <3> QED
      BY <1>2, <3>1
  <2>3. u.actual = 0 \/ transferred <= n
    <3>1. CASE c \in Loaded
      <4>1. \A j \in Loaded : j < c => Through(j)
        BY <1>7, <1>9, <3>1 DEF Loaded
      <4>2. ~Through(c)
        BY <1>1, <1>7
      <4>3. u.from = given + transferred
        BY <1>3, <3>1, <4>1, <4>2 DEF Total
      <4>4. u.from <= given + n
        BY <1>3, <3>1 DEF Placed
      <4> QED
        BY <1>3, <2>1, <4>3, <4>4 DEF Total
    <3>2. CASE c \notin Loaded
      BY <1>1, <2>1, <3>2 DEF Loaded
    <3> QED
      BY <3>1, <3>2
  <2> HIDE DEF n, u
  <2>4. ASSUME NEW k \in 1 .. transferred PROVE buffer'[k] = given + k
    <3>1. k \in 1 .. Length /\ k \notin n + 1 .. n + u.actual
      BY <1>3, <2>1, <2>3 DEF Total
    <3>2. buffer'[k] = buffer[k]
      BY <2>2, <3>1
    <3> QED
      BY <1>3, <3>2 DEF Delivered
  <2>5. ASSUME NEW k \in 1 .. u.actual PROVE buffer'[n + k] = u.from + k
    <3>1. n + k \in 1 .. Length /\ n + k \in n + 1 .. n + u.actual /\ (n + k) - n = k
      BY <2>1
    <3> QED
      BY <2>2, <3>1
  <2>6. urb'[c].actual = u.actual /\ urb'[c].from = u.from /\ Offset(c)' = n
    BY <1>1, <1>4, <1>5 DEF n, u
  <2> QED
    BY <1>2, <1>1, <2>4, <2>5, <2>6 DEF Delivered
<1> QED
  BY <1>10, <1>11, <1>12, <1>13, <1>14, <1>15 DEF Order, Stream

\* The URB that is handled is the next one that counts.
LEMMA HandledNext ==
  ASSUME IInv, Order, Stream, handler = "reaped", current \in Loaded
  PROVE  /\ urb[current].from = given + transferred /\ urb[current].actual \in Nat
         /\ transferred \in Nat /\ given \in Int /\ sent \in Int
         /\ End(current) = given + transferred + urb[current].actual
         /\ transferred + urb[current].actual <= Length
         /\ \A j \in 1 .. NumUrbs : j < current => Through(j)
         /\ \A j \in Loaded : j > current => ~Through(j)
<1>1. /\ Types /\ InTurn /\ ReapedInTurn /\ Contiguous /\ Placed /\ Total
      /\ current \in 1 .. NumUrbs /\ urb[current].state = "reaped" /\ NumUrbs \in Nat
  BY Sizes DEF IInv, Order, Stream, Control, Phases, Kept, Counted
<1>2. urb[current].actual \in Nat /\ sent \in Int /\ transferred \in Nat /\ given \in Int
  BY <1>1, UrbsTyped DEF Urb, Types, Total
<1>3. \A j \in 1 .. NumUrbs : j < current => Through(j)
  BY <1>1 DEF ReapedInTurn, Through
<1>4. \A j \in Loaded : j > current => ~Through(j)
  BY <1>1 DEF ReapedInTurn, Through
<1>5. urb[current].from = given + transferred
  <2>1. ~Through(current) /\ \A j \in Loaded : j < current => Through(j)
    BY <1>3 DEF Through, Loaded
  <2> QED
    BY <1>1, <2>1 DEF Total
<1>6. transferred + urb[current].actual <= Length
  <2>1. urb[current].from <= given + Offset(current)
    BY <1>1 DEF Placed
  <2>2. urb[current].actual <= UrbLen(current)
    BY <1>1 DEF InTurn
  <2>3. /\ Offset(current) \in Nat /\ UrbLen(current) \in Nat /\ Length \in Nat
        /\ Offset(current) + UrbLen(current) <= Length
    BY <1>1, Places, TransferAssumption
  <2> QED
    BY <1>2, <1>5, <2>1, <2>2, <2>3
<1> QED
  BY <1>2, <1>3, <1>4, <1>5, <1>6 DEF End

\* Counting it in, the total is still right.
LEMMA RetireTotal ==
  ASSUME IInv, Order, Stream, handler = "reaped", handler' # "reaped",
         UNCHANGED <<mode, reapCap, connected, sent, given, urb>>,
         transferred' = transferred + urb[current].actual
  PROVE  Total'
<1>1. /\ Types /\ Contiguous /\ Total /\ NumUrbs' = NumUrbs /\ Live' = Live
      /\ current \in 1 .. NumUrbs /\ urb[current].state = "reaped" /\ NumUrbs \in Nat
  BY SamePlaces, Sizes DEF IInv, Order, Stream, Control, Phases, Kept, Counted, Live
<1>2. /\ Loaded' = Loaded /\ Loaded \subseteq 1 .. NumUrbs
      /\ \A i \in 1 .. NumUrbs : Through(i)' <=> Through(i) \/ i = current
  BY <1>1 DEF Loaded, Through
<1>3. CASE current \notin Loaded
  <2>1. urb[current].actual = 0
    BY <1>1, <1>3, UrbsTyped DEF Loaded, Urb
  <2>2. transferred' = transferred
    BY <1>1, <2>1 DEF Total
  <2>3. \A i \in Loaded : Through(i)' <=> Through(i)
    BY <1>2, <1>3
  <2> QED
    BY <1>1, <1>2, <2>2, <2>3 DEF Total
<1>4. CASE current \in Loaded
  <2>1. /\ urb[current].from = given + transferred /\ urb[current].actual \in Nat
        /\ transferred \in Nat /\ given \in Int /\ sent \in Int
        /\ End(current) = given + transferred'
        /\ transferred + urb[current].actual <= Length
        /\ \A j \in 1 .. NumUrbs : j < current => Through(j)
        /\ \A j \in Loaded : j > current => ~Through(j)
    BY <1>4, HandledNext
  <2>2. given' \in Int /\ transferred' \in 0 .. Length /\ given' + transferred' <= sent'
    BY <1>1, <1>4, <2>1, TransferAssumption DEF Contiguous
  <2>3. ASSUME NEW i \in Loaded, ~Through(i)', \A j \in Loaded : j < i => Through(j)'
        PROVE  urb[i].from = given + transferred'
    <3>1. i > current
      BY <1>1, <1>2, <2>1, <2>3
    <3>2. PICK j \in Loaded : /\ current < j /\ End(current) = urb[j].from
                              /\ \A k \in Loaded : k <= current \/ k >= j
      BY <1>1, <1>2, <1>4, <3>1 DEF Contiguous
    <3>3. j <= i /\ ~(j < i)
      BY <1>1, <1>2, <2>1, <2>3, <3>1, <3>2
    <3>4. j = i
      BY <1>1, <1>2, <3>3
    <3> QED
      BY <2>1, <3>2, <3>4
  <2>4. ASSUME \A i \in Loaded : Through(i)'
        PROVE  sent = given + transferred'
    <3>1. \A i \in Loaded : i <= current
      BY <1>1, <1>2, <2>1, <2>4
    <3>2. PICK m \in Loaded : (\A j \in Loaded : j <= m) /\ End(m) = sent
      BY <1>1, <1>4 DEF Contiguous
    <3>3. m = current
      BY <1>1, <1>2, <1>4, <3>1, <3>2
    <3> QED
      BY <2>1, <3>2, <3>3
  <2> QED
    BY <1>1, <1>2, <1>4, <2>2, <2>3, <2>4 DEF Total
<1> QED
  BY <1>3, <1>4

\* A URB counts as retired, and its bytes follow on those before it.
LEMMA RetireBytes ==
  ASSUME IInv, Order, Stream, Retire
  PROVE  Order' /\ Stream'
<1> DEFINE u == urb[current]
<1>1. /\ UNCHANGED <<mode, reapCap, connected, halted, sent, given, urb, done, user>>
      /\ handler = "reaped" /\ itLock = "none" /\ retired' = retired + 1
      /\ transferred' = transferred + u.actual
      /\ buffer' = IF reapAction # "normal" THEN Put(buffer, transferred, Bytes(u)) ELSE buffer
      /\ reapAction' = IF reapAction # "normal" THEN reapAction ELSE NormalAction(u, current)
  BY DEF Retire, Surplus, Moved, device, history, kernel
<1>2. /\ Types /\ Locks /\ Phases /\ Counted /\ InTurn /\ Signs /\ Listed /\ ReapedInTurn
      /\ Contiguous /\ Placed /\ Total /\ Straight /\ Delivered
      /\ current \in 1 .. NumUrbs /\ u.state = "reaped" /\ u \in Urb
  BY <1>1, UrbsTyped DEF IInv, Order, Stream, Control, Phases, Kept, Counted
<1>3. handler' # "reaped"
  BY <1>2 DEF Retire, Back, Types
<1>4. /\ NumUrbs' = NumUrbs /\ Live' = Live /\ NumUrbs \in Nat
      /\ \A i \in 1 .. NumUrbs : UrbLen(i)' = UrbLen(i) /\ Offset(i)' = Offset(i)
  BY <1>1, <1>2, SamePlaces, Sizes DEF Live
<1>5. user = "wait" /\ retired # NumUrbs
  <2>1. user = "wait" /\ retired + Cardinality(Out) + 1 = NumUrbs
    BY <1>1, <1>2, HandledWhileWaiting DEF Flag
  <2> QED
    BY <1>2, <1>4, <2>1, OutFinite DEF Types
<1>6. /\ Loaded' = Loaded /\ Unsent' = Unsent
      /\ \A i \in 1 .. NumUrbs : /\ Over(i)' <=> Over(i)
                                 /\ Breaks(i)' <=> Breaks(i)
                                 /\ End(i)' = End(i)
                                 /\ Through(i)' <=> Through(i) \/ i = current
  BY <1>1, <1>2, <1>3, <1>4 DEF Loaded, Unsent, Over, Breaks, End, Through
<1>7. Order'
  <2>1. InTurn'
    BY <1>1, <1>2, <1>4, <1>5, <1>6 DEF InTurn
  <2>2. Signs' /\ Listed' /\ ReapedInTurn'
    BY <1>1, <1>2, <1>3, <1>4, <1>6 DEF Signs, Listed, ReapedInTurn
  <2> QED
    BY <2>1, <2>2 DEF Order
<1>8. Contiguous' /\ Placed'
  BY <1>1, <1>2, <1>4, <1>6 DEF Contiguous, Placed, Loaded
<1>9. Total'
  BY <1>1, <1>3, RetireTotal
<1>10. Straight'
  <2> SUFFICES ASSUME reapAction' = "normal", retired' # NumUrbs,
                      NEW j \in 1 .. NumUrbs, Through(j)'
               PROVE  ~Breaks(j)
    BY <1>4, <1>6 DEF Straight
  <2>1. reapAction = "normal" /\ NormalAction(u, current) = "normal" /\ ~AllRetired
    BY <1>1 DEF AllRetired
  <2>2. CASE Through(j)
    BY <1>2, <1>5, <2>1, <2>2 DEF Straight
  <2>3. CASE j = current
    BY <2>1, <2>3 DEF NormalAction, Breaks
  <2> QED
    BY <1>6, <2>2, <2>3
<1>11. Delivered'
  <2> SUFFICES ASSUME NEW k \in 1 .. transferred' PROVE buffer'[k] = given + k
    BY <1>1, <1>3 DEF Delivered
  <2>1. /\ transferred \in Nat /\ given \in Int /\ u.actual \in Nat /\ Length \in Nat
        /\ k \in 1 .. Length
    BY <1>2, <1>9, TransferAssumption DEF Total, Urb
  <2>2. Put(buffer, transferred, Bytes(u))[k] =
          IF k \in transferred + 1 .. transferred + u.actual
          THEN u.from + (k - transferred) ELSE buffer[k]
    <3> HIDE DEF u
    <3> QED
      BY <1>2, <2>1, PutBytes
  <2>3. CASE current \notin Loaded
    <3>1. u.actual = 0
      BY <1>2, <2>1, <2>3 DEF Loaded
    <3>2. buffer'[k] = buffer[k]
      <4>1. CASE reapAction = "normal"
        BY <1>1, <4>1
      <4>2. CASE reapAction # "normal"
        BY <1>1, <2>1, <2>2, <3>1, <4>2
      <4> QED
        BY <4>1, <4>2
    <3> QED
      BY <1>1, <1>2, <2>1, <3>1, <3>2 DEF Delivered
  <2>4. CASE current \in Loaded
    <3>1. u.from = given + transferred /\ \A j \in 1 .. NumUrbs : j < current => Through(j)
      BY <1>1, <2>4, HandledNext
    <3>2. CASE reapAction = "normal"
      <4>1. \A j \in 1 .. NumUrbs : j < current => ~Breaks(j)
        BY <1>2, <1>5, <3>1, <3>2 DEF Straight
      <4>2. u.from = given + Offset(current) /\ Offset(current) \in Nat
        BY <1>2, <2>4, <4>1, Places DEF Placed
      <4>3. Offset(current) = transferred
        BY <2>1, <3>1, <4>2
      <4>4. CASE k <= transferred
        BY <1>1, <1>2, <2>1, <3>2, <4>4 DEF Delivered
      <4>5. CASE k > transferred
        <5>1. k - transferred \in 1 .. u.actual /\ transferred + (k - transferred) = k
          BY <1>1, <2>1, <4>5
        <5>2. buffer[k] = u.from + (k - transferred)
          BY <1>1, <1>2, <4>3, <5>1 DEF Delivered
        <5> QED
          BY <1>1, <2>1, <3>1, <3>2, <5>2
      <4> QED
        BY <2>1, <4>4, <4>5
    <3>3. CASE reapAction # "normal"
      <4>1. buffer'[k] = IF k \in transferred + 1 .. transferred + u.actual
                         THEN u.from + (k - transferred) ELSE buffer[k]
        BY <1>1, <2>2, <3>3
      <4>2. CASE k <= transferred
        BY <1>2, <2>1, <4>1, <4>2 DEF Delivered
      <4>3. CASE k > transferred
        BY <1>1, <2>1, <3>1, <4>1, <4>3
      <4> QED
        BY <2>1, <4>2, <4>3
    <3> QED
      BY <3>2, <3>3
  <2> QED
    BY <2>3, <2>4
<1> QED
  BY <1>7, <1>8, <1>9, <1>10, <1>11 DEF Stream

-----------------------------------------------------------------------------
(* All together.                                                           *)

\* At the start no byte has come.
LEMMA InitBytes == Init => Order /\ Stream
<1> SUFFICES ASSUME Init PROVE Order /\ Stream
  OBVIOUS
<1>1. Types
  BY InitInv DEF IInv
<1>2. /\ \A i \in 1 .. NumUrbs : urb[i] = Fresh /\ UrbLen(i) \in Nat
      /\ user = "idle" /\ handler = "poll" /\ done = <<>> /\ Len(done) = 0
  BY <1>1, Sizes DEF Init
<1>3. Loaded = {} /\ \A i \in 1 .. NumUrbs : i \in Unsent /\ ~Through(i)
  BY <1>2 DEF Loaded, Unsent, Through, Fresh
<1>4. InTurn
  <2>1. \A i \in 1 .. NumUrbs : urb[i].actual <= UrbLen(i)
    BY <1>2 DEF Fresh
  <2> QED
    BY <1>2, <1>3, <2>1 DEF InTurn
<1>5. Signs /\ Listed /\ ReapedInTurn
  <2>1. \A i \in 1 .. NumUrbs : urb[i].state = "unsent" /\ urb[i].status = "ok"
    BY <1>2 DEF Fresh
  <2> QED
    BY <1>2, <1>3, <2>1 DEF Signs, Listed, ReapedInTurn
<1>6. Contiguous /\ Placed /\ Straight
  BY <1>3 DEF Contiguous, Placed, Straight
<1>7. Total /\ Delivered
  BY <1>3, TransferAssumption DEF Init, Total, Delivered
<1> QED
  BY <1>4, <1>5, <1>6, <1>7 DEF Order, Stream

\* Every step keeps the bytes in order.
LEMMA BytesStep ==
  ASSUME IInv, Order, Stream, Work
  PROVE  Order' /\ Stream'
<1>1. CASE Adapter
  BY <1>1, ReceiveBytes, FaultBytes, UnplugBytes DEF Adapter
<1>2. CASE Submit \/ Caller
  BY <1>2, BeginBytes, SubmitUrbBytes, CancelBytes, BlankBytes DEF Caller
<1>3. CASE UserCancel
  BY <1>3, CancelBytes
<1>4. CASE EventThread
  BY <1>4, ReapBytes, RetireBytes, PassOnBytes DEF EventThread
<1>5. CASE Timer
  BY <1>5, ClockBytes, CancelBytes DEF Timer
<1> QED
  BY <1>1, <1>2, <1>3, <1>4, <1>5 DEF Work

\* So does a step in which nothing changes.
LEMMA BytesStutter ==
  ASSUME IInv, Order, Stream, UNCHANGED transfer
  PROVE  Order' /\ Stream'
<1>1. UNCHANGED <<mode, reapCap, connected, halted, sent, given, transferred, buffer, urb, done,
                  handler, current, user, cursor, retired, reapAction>>
  BY DEF transfer, device, history, tpriv, event, data, kernel, locking
<1> QED
  BY <1>1, StillBytes DEF kernel

-----------------------------------------------------------------------------
(* The transfer implements BulkTransfer, as far as safety goes.            *)

\* A packet is bytes taken, while a transfer is in progress.
LEMMA ReceiveTakes ==
  ASSUME IInv, Order, Work, UNCHANGED handle,
         NEW i \in 1 .. NumUrbs, NEW n \in 0 .. PacketSize, Receive(i, n)
  PROVE  \E k \in 0 .. Length : Bulk!Take(k)
<1>1. /\ urb[i].state = "queued" /\ urb[i].actual \in Nat
      /\ urb'[i].actual \in Nat /\ urb'[i].actual >= urb[i].actual /\ urb'[i].actual <= UrbLen(i)
      /\ sent' = sent + (urb'[i].actual - urb[i].actual)
  BY ReceiveUrbs
<1>2. UNCHANGED <<user, given, connected, reapCap>> /\ connected
  BY DEF Receive, Kernel
<1>3. user # "idle"
  BY <1>1 DEF IInv, Kept, Settled, NoneOut, Queued
<1>4. /\ Offset(i) \in Nat /\ UrbLen(i) \in Nat /\ Offset(i) + UrbLen(i) <= Length
      /\ Length \in Nat
  BY Places, TransferAssumption DEF IInv
<1>5. urb'[i].actual - urb[i].actual \in 0 .. Length
  BY <1>1, <1>4
<1> QED
  BY <1>1, <1>2, <1>3, <1>5 DEF Bulk!Take

\* When the transfer is freed all that was taken has been given.
LEMMA BlankEnds ==
  ASSUME IInv, Stream, Stream', SubmitUndo \/ Return, UNCHANGED handle
  PROVE  \E k \in 0 .. Length : Bulk!End(k)
<1>1. /\ UNCHANGED <<mode, connected, reapCap, sent>>
      /\ user \in {"undo", "wait"} /\ user' = "idle" /\ Blank
      /\ given' = given \/ given' = given + transferred
  BY DEF SubmitUndo, Return, device
<1>2. /\ transferred \in 0 .. Length /\ transferred' = 0 /\ given \in Int /\ given' \in Int
      /\ given' + transferred' <= sent'
      /\ Live' /\ Loaded' = {} => sent' = given' + transferred'
  BY <1>1 DEF Stream, Total, Blank
<1>3. Loaded' = {}
  <2>1. NumUrbs' = NumUrbs /\ NumUrbs <= MaxUrbs /\ NumUrbs \in Nat /\ MaxUrbs \in Nat
    BY <1>1, SamePlaces, Sizes DEF IInv
  <2>2. \A i \in 1 .. NumUrbs : urb'[i] = Fresh
    BY <1>1, <2>1 DEF Blank
  <2> QED
    BY <2>1, <2>2 DEF Loaded, Fresh
<1>4. given' <= sent /\ (~(connected \/ reapCap) \/ given' = sent)
  BY <1>1, <1>2, <1>3 DEF Live
<1>5. \E k \in 0 .. Length : given' = given + k
  BY <1>1, <1>2, TransferAssumption
<1> QED
  BY <1>1, <1>4, <1>5 DEF Bulk!End

\* Every step of the transfer is one of BulkTransfer, or none.
LEMMA BulkStep ==
  ASSUME IInv, Order, Stream, Work, UNCHANGED handle
  PROVE  Bulk!Next \/ UNCHANGED Bulk!vars
<1>1. ASSUME UNCHANGED <<sent, given, connected, reapCap>>, user # "idle" <=> user' # "idle"
      PROVE  UNCHANGED Bulk!vars
  BY <1>1 DEF Bulk!vars
<1>2. CASE \E i \in 1 .. NumUrbs, n \in 0 .. PacketSize : Receive(i, n)
  BY <1>2, ReceiveTakes DEF Bulk!Next
<1>3. CASE \E i \in 1 .. NumUrbs, s \in {"stall", "error"} : Fault(i, s)
  BY <1>1, <1>3 DEF Fault, Kernel
<1>4. CASE Unplug
  BY <1>4, Zenon DEF Unplug, Kernel, Bulk!Next, Bulk!Lose, Bulk!vars
<1>5. CASE Submit
  BY <1>5 DEF Submit, device, Bulk!Next, Bulk!Begin
<1>6. CASE SubmitUndo \/ Return
  <2>1. Stream'
    BY <1>6, BlankBytes
  <2> QED
    BY <1>6, <2>1, BlankEnds DEF Bulk!Next
<1>7. CASE SubmitUrb \/ SubmitDiscard \/ \E e \in {"nodev", "remoteio", "nomem"} : SubmitFails(e)
  BY <1>1, <1>7 DEF SubmitUrb, SubmitDiscard, SubmitFails, Flies, device, history
<1>8. CASE UserCancel
  BY <1>1, <1>8 DEF UserCancel, device
<1>9. CASE EventThread
  BY <1>1, <1>9 DEF EventThread, Reap, PollError, Sweep, Seize, Retire, Discard, Settle, Unlist,
                    Land, Callback, device, history
<1>10. CASE Timer
  BY <1>1, <1>10 DEF Timer, TimeOut, TimerCancel, TimerMark, device, history
<1> QED
  BY <1>2, <1>3, <1>4, <1>5, <1>6, <1>7, <1>8, <1>9, <1>10 DEF Work, Adapter, Caller

-----------------------------------------------------------------------------
(* What is reported complete.  A transfer that is still Plain when its     *)
(* last URB comes in is full, or one of its URBs came back short, for a    *)
(* reason: the adapter sent a short packet, or the URB was taken back by   *)
(* somebody who has seen to it that the transfer is not reported complete. *)

\* Nothing out of the ordinary has been noticed of the transfer.
Plain == reapAction = "normal" /\ reapStatus = "completed"

\* A cancellation that has got somewhere, or will not get anywhere.
Stopped == user = "cancel" \/ timer = "discard"
Stopping == Stopped /\ cursor < NumUrbs /\ (found \/ ~connected)

\* What excuses a transfer that is complete and not full.
Lost == cancelling /\ ~connected
Refused == refusing /\ urb[NumUrbs].state = "unsent"
Excused == short \/ Refused \/ Lost

\* URB p has ended with an error, and will be handled before URB i.
Wrong == {"stall", "error", "overflow"}
Behind(i, p) ==
  /\ urb[p].status \in Wrong /\ Over(p)
  /\ urb[i].state = "reaped" => Through(p)
  /\ Live => \A l \in 1 .. Len(done) : done[l] = i =>
       urb[p].state = "reaped" \/ \E k \in 1 .. l - 1 : done[k] = p

\* Transfers are plain until they are submitted whole, and not when cut short.
Begun ==
  /\ user \in {"idle", "undo", "submit"} => Plain
  /\ user = "discard" => reapAction = "submit_failed"
  /\ handler = "discard" => ~Plain
  /\ user \in {"wait", "cancel"} /\ reapAction = "normal" => Unsent = {}

\* URBs that came back short without an error had a short packet.
ShortTold ==
  \A i \in 1 .. NumUrbs :
    /\ urb[i].status = "remoteio" => short
    /\ urb[i].status = "ok" /\ Over(i) /\ urb[i].actual < UrbLen(i) => short

\* There is a reason for every URB that was taken back.
Blamed ==
  Plain => \A i \in 1 .. NumUrbs : urb[i].status = "cancelled" =>
             short \/ Lost \/ Stopping \/ \E p \in 1 .. NumUrbs : Behind(i, p)

\* URBs end in turn, so a cancellation that does not find the last one finds none.
EndedInTurn ==
  Plain => \A i, j \in 1 .. NumUrbs : i < j /\ i \in Queued /\ Over(j) => Lost \/ Stopping
FoundNone ==
  /\ Stopped /\ cursor = NumUrbs => found
  /\ Plain /\ connected /\ Stopped /\ ~found => Queued = {}

\* An error is noticed when its URB is handled.
Noticed ==
  Plain => \A i \in 1 .. NumUrbs :
             Through(i) => urb[i].status \in {"ok", "remoteio", "cancelled"}

\* A transfer is called complete early only when there is an excuse for it, and
\* complete only when it is full or there is one.
EarlyExcused == reapAction = "completed_early" /\ reapStatus = "completed" => Excused
Full == transferred = Length \/ Excused
Concluded ==
  /\ handler \in {"unlist", "land", "callback"} /\ outcome = "completed" => Full
  /\ completed /\ status = "completed" => Full

Reasons == ShortTold /\ Blamed /\ EndedInTurn /\ Noticed
Report == Begun /\ Reasons /\ FoundNone /\ EarlyExcused /\ Concluded

\* The reasons stay when URBs that were queued are listed as done.
LEMMA BehindKept ==
  ASSUME Types, NumUrbs' = NumUrbs, Live' => Live, UNCHANGED <<handler, current>>,
         NEW i \in 1 .. NumUrbs, urb[i].state # "queued", urb'[i] = urb[i],
         NEW p \in 1 .. NumUrbs, Behind(i, p), urb'[p] = urb[p],
         NEW t \in Seq(Nat), done' = done \o t, \A k \in 1 .. Len(t) : t[k] \in Queued
  PROVE  Behind(i, p)'
<1>1. /\ Len(done) \in Nat /\ Len(t) \in Nat /\ Len(done') = Len(done) + Len(t)
      /\ \A k \in 1 .. Len(done) + Len(t) :
           done'[k] = IF k <= Len(done) THEN done[k] ELSE t[k - Len(done)]
  BY LenProperties, ConcatProperties DEF Types
<1>2. i \notin Queued
  BY DEF Queued
<1>3. ASSUME Live, NEW l \in 1 .. Len(done'), done'[l] = i
      PROVE  urb'[p].state = "reaped" \/ \E k \in 1 .. l - 1 : done'[k] = p
  <2>1. l <= Len(done)
    <3> SUFFICES ASSUME l > Len(done) PROVE FALSE
      BY <1>1
    <3>1. l - Len(done) \in 1 .. Len(t) /\ done'[l] = t[l - Len(done)]
      BY <1>1
    <3> QED
      BY <1>2, <1>3, <3>1
  <2>2. /\ l \in 1 .. Len(done) /\ done[l] = i
        /\ \A k \in 1 .. l - 1 : done'[k] = done[k]
    BY <1>1, <1>3, <2>1
  <2> QED
    BY <1>3, <2>2 DEF Behind
<1>4. Over(p)' /\ (Through(p) => Through(p)')
  BY DEF Behind, Over, Through
<1> QED
  BY <1>3, <1>4 DEF Behind

\* The end of a URB gives the reason for those it takes along.
LEMMA EndsReasons ==
  ASSUME Types, DoneAreDone, Listed, InTurn, Signs, ShortTold, Blamed, EndedInTurn,
         Live' => Live, short => short',
         UNCHANGED <<mode, connected, reapAction, reapStatus, user, timer, cursor, found, cancelling,
                     handler, current>>,
         NEW i \in Heads, NEW u \in Urb, u.state = "done", Ends(i, u),
         u.status \in {"ok"} \cup Wrong \/ (u.status = "remoteio" /\ short'),
         u.status = "ok" /\ u.actual < UrbLen(i) => short'
  PROVE  ShortTold' /\ Blamed' /\ EndedInTurn'
<1> DEFINE along == IF mode = "continuation" /\ u.status # "ok" THEN Later(i) ELSE {}
<1>1. PICK later \in Ascending(along) : done' = done \o <<i>> \o later
  BY DEF Ends
<1>2. /\ i \in 1 .. NumUrbs /\ i \in Queued /\ i \in Nat /\ i \notin along
      /\ along \in SUBSET (1 .. NumUrbs) /\ along \subseteq Queued
  BY Sizes DEF Heads, Queued, Later
<1>3. /\ urb'[i] = u
      /\ \A j \in along : urb'[j] = [urb[j] EXCEPT !.state = "done", !.status = "cancelled"]
      /\ \A j \in 1 .. NumUrbs : j # i /\ j \notin along => urb'[j] = urb[j]
  BY <1>2, UrbsTyped DEF Ends
<1>4. \A j \in along : urb'[j].state = "done" /\ urb'[j].status = "cancelled"
  <2> SUFFICES ASSUME NEW j \in along PROVE urb'[j].state = "done" /\ urb'[j].status = "cancelled"
    OBVIOUS
  <2>1. urb[j] \in Urb
    BY <1>2, UrbsTyped
  <2> QED
    BY <1>3, <2>1 DEF Urb
<1>5. along # {} => u.status # "ok"
  OBVIOUS
<1>6. along = {} \/ \A j \in Queued : j = i \/ j < i \/ j \in along
  BY <1>2, Sizes DEF Later, Heads, Queued
<1> HIDE DEF along
<1>7. /\ later \in Seq(Nat) /\ \A k \in 1 .. Len(later) : later[k] \in along
      /\ \A j \in along : \E k \in 1 .. Len(later) : later[k] = j
  BY <1>2, AscendingDistinct, AscendingOnto
<1>8. /\ NumUrbs' = NumUrbs
      /\ \A j \in 1 .. NumUrbs : UrbLen(j)' = UrbLen(j)
      /\ (Plain' <=> Plain) /\ (Lost' <=> Lost) /\ (Stopping' <=> Stopping)
  BY SamePlaces DEF Plain, Lost, Stopping, Stopped
<1> DEFINE t == <<i>> \o later
<1>9. <<i>> \in Seq(Nat) /\ Len(<<i>>) = 1 /\ <<i>>[1] = i
  BY <1>2
<1>10. t \in Seq(Nat) /\ done' = done \o t
  BY <1>1, <1>7, <1>9, ConcatProperties, ConcatAssociative DEF Types
<1>11. /\ Len(later) \in Nat /\ Len(t) = 1 + Len(later)
       /\ \A k \in 1 .. 1 + Len(later) : t[k] = IF k <= 1 THEN i ELSE later[k - 1]
  BY <1>7, <1>9, ConcatProperties, LenProperties
<1>12. \A k \in 1 .. Len(t) : t[k] \in Queued
  BY <1>2, <1>7, <1>11
<1>13. 1 \in 1 .. Len(t) /\ t[1] = i /\ Len(t) \in Nat
  BY <1>11
<1> HIDE DEF t
<1>14. ShortTold'
  BY <1>2, <1>3, <1>4, <1>8 DEF ShortTold, Over, Wrong
<1>15. EndedInTurn'
  <2> SUFFICES ASSUME Plain, NEW j \in 1 .. NumUrbs, NEW m \in 1 .. NumUrbs,
                      j < m, urb'[j].state = "queued", Over(m)'
               PROVE  Lost \/ Stopping
    BY <1>8 DEF EndedInTurn, Queued
  <2>1. j \in Queued /\ j # i /\ j \notin along
    BY <1>2, <1>3, <1>4 DEF Queued
  <2>2. ~(j < i)
    BY <1>2, <2>1, Sizes DEF Heads
  <2>3. m # i /\ m \notin along
    BY <1>2, <1>6, <2>1, <2>2, Sizes
  <2> QED
    BY <1>3, <2>1, <2>3 DEF EndedInTurn, Over
<1>16. Blamed'
  <2> SUFFICES ASSUME Plain, NEW j \in 1 .. NumUrbs, urb'[j].status = "cancelled", ~short',
                      ~Lost, ~Stopping
               PROVE  \E p \in 1 .. NumUrbs : Behind(j, p)'
    BY <1>8 DEF Blamed
  <2>1. CASE j \in along
    <3>1. u.status \in Wrong
      BY <1>5, <2>1
    <3>2. ASSUME Live, NEW l \in 1 .. Len(done'), done'[l] = j
          PROVE  \E k \in 1 .. l - 1 : done'[k] = i
      <4>1. /\ Len(done) \in Nat /\ Len(done') = Len(done) + Len(t)
            /\ \A k \in 1 .. Len(done) + Len(t) :
                 done'[k] = IF k <= Len(done) THEN done[k] ELSE t[k - Len(done)]
        BY <1>10, LenProperties, ConcatProperties DEF Types
      <4>2. \A k \in 1 .. Len(done) : done[k] # j
        BY <1>2, <2>1, <3>2 DEF DoneAreDone, Queued
      <4>3. l > Len(done)
        BY <3>2, <4>1, <4>2
      <4>4. Len(done) + 1 \in 1 .. Len(done') /\ done'[Len(done) + 1] = i
        BY <1>13, <4>1
      <4>5. l # Len(done) + 1
        BY <1>2, <2>1, <3>2, <4>4
      <4>6. Len(done) + 1 \in 1 .. l - 1
        BY <4>1, <4>3, <4>5
      <4> QED
        BY <4>4, <4>6
    <3>3. Behind(j, i)'
      BY <1>3, <1>4, <2>1, <3>1, <3>2 DEF Behind, Over
    <3> QED
      BY <1>2, <3>3
  <2>2. CASE j \notin along
    <3>1. j # i
      BY <1>3 DEF Wrong
    <3>2. urb'[j] = urb[j] /\ urb[j].state # "queued"
      BY <1>3, <2>2, <3>1 DEF Signs
    <3>3. PICK p \in 1 .. NumUrbs : Behind(j, p)
      BY <3>2 DEF Blamed
    <3>4. urb'[p] = urb[p]
      BY <1>2, <1>3, <3>3 DEF Behind, Over, Queued
    <3> QED
      BY <1>8, <1>10, <1>12, <3>2, <3>3, <3>4, BehindKept
  <2> QED
    BY <2>1, <2>2
<1> QED
  BY <1>14, <1>15, <1>16

\* What the adapter and usbfs do leaves the rest of the report as it was.
LEMMA AdapterRest ==
  ASSUME IInv, Order, Report, Adapter, refusing => refusing',
         connected' => connected, \A i \in 1 .. NumUrbs : Over(i) => urb'[i] = urb[i],
         \A i \in 1 .. NumUrbs : urb[i].state = "unsent" => urb'[i] = urb[i],
         \A i \in 1 .. NumUrbs : urb[i].state = "queued" => urb'[i].state \in {"queued", "done"},
         short => short', ShortTold' /\ Blamed' /\ EndedInTurn'
  PROVE  Report'
<1>1. /\ UNCHANGED <<mode, reapCap, reapAction, reapStatus, user, timer, cursor, found, cancelling,
                     handler, current, outcome, completed, status, transferred>>
      /\ NumUrbs' = NumUrbs /\ Types /\ NumUrbs \in Nat /\ NumUrbs >= 1
  BY AdapterKernel, SamePlaces, Sizes DEF Kernel, tpriv, flags, event, result, data, locking, IInv
<1>2. \A i \in 1 .. NumUrbs : urb[i].state \in {"unsent", "queued", "done", "reaped"}
  BY <1>1, UrbsTyped DEF Urb
<1>3. /\ Unsent' = Unsent /\ Queued' \subseteq Queued
      /\ \A i \in 1 .. NumUrbs : Through(i)' <=> Through(i)
      /\ \A i \in 1 .. NumUrbs : Through(i) => urb'[i] = urb[i]
  BY <1>1, <1>2 DEF Unsent, Queued, Through, Over
<1>4. (Plain' <=> Plain) /\ (Stopped' <=> Stopped) /\ (Refused => Refused') /\ (Lost => Lost')
  BY <1>1 DEF Plain, Stopped, Refused, Lost
<1>5. Excused => Excused'
  BY <1>4 DEF Excused
<1>6. Begun' /\ EarlyExcused' /\ Concluded'
  BY <1>1, <1>3, <1>4, <1>5 DEF Report, Begun, EarlyExcused, Concluded, Full
<1>7. FoundNone' /\ Noticed'
  BY <1>1, <1>3, <1>4 DEF Report, Reasons, FoundNone, Noticed
<1> QED
  BY <1>6, <1>7 DEF Report, Reasons

\* A URB that ends, with or without the continuation URBs behind it.
LEMMA EndsReport ==
  ASSUME IInv, Order, Report, Adapter, UNCHANGED connected, short => short',
         NEW i \in Heads, NEW u \in Urb, u.state = "done", Ends(i, u),
         u.status \in {"ok"} \cup Wrong \/ (u.status = "remoteio" /\ short'),
         u.status = "ok" /\ u.actual < UrbLen(i) => short'
  PROVE  Report'
<1>1. /\ UNCHANGED <<mode, reapCap, reapAction, reapStatus, user, timer, cursor, found, cancelling,
                     handler, current>>
      /\ NumUrbs' = NumUrbs /\ Live' = Live
  BY AdapterKernel, SamePlaces DEF Kernel, tpriv, flags, event, result, data, locking, Live
<1>2. /\ Types /\ DoneAreDone /\ Listed /\ InTurn /\ Signs /\ ShortTold /\ Blamed /\ EndedInTurn
      /\ i \in 1 .. NumUrbs /\ urb[i].state = "queued"
  BY DEF IInv, Order, Report, Reasons, Kept, Data, Heads, Queued
<1>3. ShortTold' /\ Blamed' /\ EndedInTurn'
  BY <1>1, <1>2, EndsReasons
<1>4. urb'[i] = u /\ \A j \in 1 .. NumUrbs : j # i => MayEnd(j)
  BY <1>1, <1>2, EndsUrbs
<1>5. refusing => refusing'
  BY DEF Ends
<1>6. /\ \A j \in 1 .. NumUrbs : Over(j) => urb'[j] = urb[j]
      /\ \A j \in 1 .. NumUrbs : urb[j].state = "unsent" => urb'[j] = urb[j]
      /\ \A j \in 1 .. NumUrbs : urb[j].state = "queued" => urb'[j].state \in {"queued", "done"}
  BY <1>2, <1>4 DEF MayEnd, Over
<1> QED
  BY <1>3, <1>5, <1>6, AdapterRest

\* A packet that leaves a URB short is a short packet.
LEMMA ReceiveReport ==
  ASSUME IInv, Order, Report, NEW i \in 1 .. NumUrbs, NEW n \in 0 .. PacketSize, Receive(i, n)
  PROVE  Report'
<1> DEFINE room == UrbLen(i) - urb[i].actual
           u == [urb[i] EXCEPT !.from = IF urb[i].actual = 0 THEN sent ELSE @,
                               !.actual = IF n > room THEN UrbLen(i) ELSE @ + n]
<1>0. /\ Adapter /\ UNCHANGED connected
      /\ short => short'
      /\ n < PacketSize => short'
  <2>1. short' = (short \/ n < PacketSize)
    BY DEF Receive
  <2> QED
    BY <2>1 DEF Adapter, Receive, Kernel
<1>1. /\ UNCHANGED <<mode, reapCap, reapAction, reapStatus, user, timer, cursor, found, cancelling,
                     handler, current>>
      /\ NumUrbs' = NumUrbs
      /\ \A j \in 1 .. NumUrbs : UrbLen(j)' = UrbLen(j)
  BY SamePlaces DEF Adapter, Receive, Kernel, tpriv, flags, event, locking
<1>2. /\ Types /\ InTurn /\ Signs /\ Reasons /\ i \in Heads /\ n \in Nat
  BY TransferAssumption DEF IInv, Order, Report, Receive
<1>3. /\ urb[i] \in Urb /\ urb[i].state = "queued" /\ urb[i].status = "ok"
      /\ urb[i].actual <= UrbLen(i) /\ UrbLen(i) \in Nat /\ i \in 1 .. MaxUrbs
  BY <1>2, Sizes, UrbsTyped DEF Heads, Queued, Signs, InTurn, Types
<1>4. /\ u \in Urb /\ u.status = "ok" /\ u.state = "queued"
      /\ u.actual = IF n > room THEN UrbLen(i) ELSE urb[i].actual + n
  <2>1. (IF n > room THEN UrbLen(i) ELSE urb[i].actual + n) \in Nat
    BY <1>2, <1>3 DEF Urb
  <2>2. (IF urb[i].actual = 0 THEN sent ELSE urb[i].from) \in Int
    BY <1>2, <1>3 DEF Types, Urb
  <2> QED
    BY <1>3, <2>1, <2>2 DEF Urb
<1>5. u.actual < UrbLen(i) => n < room
  BY <1>2, <1>3, <1>4 DEF Urb
<1>6. \/ Ends(i, [u EXCEPT !.state = "done", !.status = "overflow"])
      \/ /\ n = room \/ n < PacketSize
         /\ n < room /\ Ends(i, [u EXCEPT !.state = "done", !.status = "remoteio"])
      \/ /\ n = room \/ n < PacketSize
         /\ Ends(i, [u EXCEPT !.state = "done", !.status = "ok"])
      \/ urb' = [urb EXCEPT ![i] = u] /\ done' = done /\ refusing' = refusing
  BY DEF Receive
<1> HIDE DEF u
<1>7. ASSUME NEW s \in {"ok", "remoteio", "overflow"},
             Ends(i, [u EXCEPT !.state = "done", !.status = s]),
             s = "overflow" \/ n = room \/ n < PacketSize,
             s = "remoteio" => n < room
      PROVE  Report'
  <2> DEFINE v == [u EXCEPT !.state = "done", !.status = s]
  <2>1. v \in Urb /\ v.state = "done" /\ v.status = s /\ v.actual = u.actual
    BY <1>4 DEF Urb
  <2>2. Ends(i, v)
    BY <1>7
  <2> HIDE DEF v
  <2>3. room \in Int
    BY <1>3 DEF Urb
  <2> HIDE DEF room
  <2>4. n < room /\ (n = room \/ n < PacketSize) => n < PacketSize
    BY <1>2, <2>3
  <2>5. s # "overflow" => n = room \/ n < PacketSize
    BY <1>7
  <2>6. v.status \in {"ok"} \cup Wrong \/ (v.status = "remoteio" /\ short')
    BY <1>0, <1>7, <2>1, <2>4, <2>5 DEF Wrong
  <2>7. v.status = "ok" /\ v.actual < UrbLen(i) => short'
    BY <1>0, <1>5, <2>1, <2>4, <2>5
  <2> QED
    BY <1>0, <1>2, <2>1, <2>2, <2>6, <2>7, EndsReport
<1>8. ASSUME urb' = [urb EXCEPT ![i] = u], done' = done, refusing' = refusing
      PROVE  Report'
  <2>1. urb'[i] = u /\ \A j \in 1 .. NumUrbs : j # i => urb'[j] = urb[j]
    BY <1>2, <1>3, <1>8 DEF Types
  <2>2. /\ \A j \in 1 .. NumUrbs : urb'[j].state = urb[j].state /\ urb'[j].status = urb[j].status
        /\ \A j \in 1 .. NumUrbs : j # i => urb'[j] = urb[j]
        /\ \A j \in 1 .. NumUrbs : Over(j) => j # i
    BY <1>3, <1>4, <2>1 DEF Over
  <2>3. /\ Live' = Live /\ (Plain' <=> Plain) /\ (Lost' <=> Lost) /\ (Stopping' <=> Stopping)
        /\ Queued' = Queued
        /\ \A j \in 1 .. NumUrbs : (Over(j)' <=> Over(j)) /\ (Through(j)' <=> Through(j))
    BY <1>0, <1>1, <2>2 DEF Live, Plain, Lost, Stopping, Stopped, Queued, Over, Through
  <2>4. \A j, p \in 1 .. NumUrbs : Behind(j, p) => Behind(j, p)'
    BY <1>8, <2>2, <2>3 DEF Behind
  <2>5. ShortTold' /\ EndedInTurn'
    BY <1>0, <1>1, <1>2, <2>2, <2>3 DEF Reasons, ShortTold, EndedInTurn
  <2>6. Blamed'
    BY <1>0, <1>1, <1>2, <2>2, <2>3, <2>4 DEF Reasons, Blamed
  <2>7. /\ \A j \in 1 .. NumUrbs : Over(j) => urb'[j] = urb[j]
        /\ \A j \in 1 .. NumUrbs : urb[j].state = "unsent" => urb'[j] = urb[j]
        /\ \A j \in 1 .. NumUrbs : urb[j].state = "queued" => urb'[j].state \in {"queued", "done"}
    BY <1>3, <2>2
  <2>8. (connected' => connected) /\ (refusing => refusing')
    BY <1>0, <1>8
  <2> QED
    BY <1>0, <2>5, <2>6, <2>7, <2>8, AdapterRest
<1> QED
  BY <1>6, <1>7, <1>8

\* An error, and the loss of the adapter, are in the status of the URB.
LEMMA AdapterReport ==
  ASSUME IInv, Order, Report, Adapter
  PROVE  Report'
<1>1. CASE \E i \in 1 .. NumUrbs, n \in 0 .. PacketSize : Receive(i, n)
  BY <1>1, ReceiveReport
<1>2. ASSUME NEW i \in 1 .. NumUrbs, NEW s \in {"stall", "error"}, Fault(i, s)
      PROVE  Report'
  <2>1. UNCHANGED <<connected, short>> /\ i \in Heads /\ urb[i] \in Urb
    BY <1>2, UrbsTyped DEF Fault, IInv
  <2> DEFINE u == [urb[i] EXCEPT !.state = "done", !.status = s]
  <2>2. u \in Urb /\ u.state = "done" /\ u.status = s
    BY <2>1 DEF Urb
  <2>3. Ends(i, u)
    BY <1>2 DEF Fault
  <2> HIDE DEF u
  <2> QED
    BY <2>1, <2>2, <2>3, EndsReport DEF Wrong
<1>3. CASE Unplug
  <2>1. /\ UNCHANGED <<mode, reapCap, reapAction, reapStatus, user, timer, cursor, found, cancelling,
                       handler, current, refusing, short>>
        /\ ~connected' /\ connected /\ (Live' => Live) /\ NumUrbs' = NumUrbs
        /\ \A j \in 1 .. NumUrbs : UrbLen(j)' = UrbLen(j)
    BY <1>3, SamePlaces DEF Unplug, Kernel, tpriv, flags, event, locking, Live
  <2>2. Types /\ DoneAreDone /\ Signs /\ Reasons
    BY DEF IInv, Order, Report, Kept, Data
  <2>3. PICK later \in Ascending(Queued) : done' = done \o later
    BY <1>3 DEF Unplug
  <2>4. later \in Seq(Nat) /\ \A k \in 1 .. Len(later) : later[k] \in Queued
    <3>1. Queued \in SUBSET (1 .. NumUrbs)
      BY DEF Queued
    <3> QED
      BY <2>2, <3>1, AscendingDistinct
  <2>5. /\ \A j \in Queued : urb'[j] = [urb[j] EXCEPT !.state = "done", !.status = "shutdown"]
        /\ \A j \in 1 .. NumUrbs : j \notin Queued => urb'[j] = urb[j]
    BY <1>3, <2>2, UrbsTyped DEF Unplug, Queued
  <2>6. ASSUME NEW j \in Queued PROVE urb'[j].state = "done" /\ urb'[j].status = "shutdown"
    <3>1. urb[j] \in Urb
      BY <2>2, UrbsTyped DEF Queued
    <3> QED
      BY <2>5, <3>1 DEF Urb
  <2>7. /\ \A j \in 1 .. NumUrbs : Over(j) => urb'[j] = urb[j]
        /\ \A j \in 1 .. NumUrbs : urb[j].state = "unsent" => urb'[j] = urb[j]
        /\ \A j \in 1 .. NumUrbs : urb[j].state = "queued" => urb'[j].state \in {"queued", "done"}
    BY <2>5, <2>6 DEF Over, Queued
  <2>8. /\ Queued' = {} /\ (Plain' <=> Plain) /\ (Lost => Lost') /\ (Stopping => Stopping')
        /\ connected' => connected
    BY <2>1, <2>5, <2>6 DEF Queued, Plain, Lost, Stopping, Stopped
  <2>9. ShortTold' /\ EndedInTurn'
    BY <2>1, <2>2, <2>5, <2>6, <2>7, <2>8 DEF Reasons, ShortTold, EndedInTurn, Over, Queued
  <2>10. Blamed'
    <3> SUFFICES ASSUME Plain, NEW j \in 1 .. NumUrbs, urb'[j].status = "cancelled"
                 PROVE  short \/ Lost' \/ Stopping' \/ \E p \in 1 .. NumUrbs : Behind(j, p)'
      BY <2>1, <2>8 DEF Blamed
    <3>1. j \notin Queued /\ urb'[j] = urb[j] /\ urb[j].state # "queued"
      BY <2>5, <2>6 DEF Queued
    <3>2. short \/ Lost \/ Stopping \/ \E p \in 1 .. NumUrbs : Behind(j, p)
      BY <2>2, <3>1 DEF Reasons, Blamed
    <3>3. ASSUME NEW p \in 1 .. NumUrbs, Behind(j, p) PROVE Behind(j, p)'
      <4>1. urb'[p] = urb[p]
        BY <2>7, <3>3 DEF Behind
      <4> QED
        BY <2>1, <2>2, <2>3, <2>4, <3>1, <3>3, <4>1, BehindKept
    <3> QED
      BY <2>8, <3>2, <3>3
  <2> QED
    BY <2>1, <2>7, <2>8, <2>9, <2>10, AdapterRest
<1> QED
  BY <1>1, <1>2, <1>3 DEF Adapter

\* Steps that leave the URBs alone leave the reasons.
LEMMA ReasonsSame ==
  ASSUME Report, UNCHANGED <<mode, reapCap, connected, urb, done, short>>, cancelling => cancelling',
         Plain' => Plain, Plain' /\ Stopping => Stopping' \/ Lost',
         \A i \in 1 .. NumUrbs : Through(i)' <=> Through(i)
  PROVE  Reasons'
<1>1. /\ NumUrbs' = NumUrbs /\ Live' = Live /\ Queued' = Queued /\ (Lost => Lost')
      /\ \A i \in 1 .. NumUrbs : UrbLen(i)' = UrbLen(i) /\ (Over(i)' <=> Over(i))
  BY SamePlaces DEF Live, Queued, Lost, Over
<1>2. \A i, p \in 1 .. NumUrbs : Behind(i, p) => Behind(i, p)'
  BY <1>1 DEF Behind
<1>3. ShortTold' /\ EndedInTurn' /\ Noticed'
  BY <1>1 DEF Report, Reasons, ShortTold, EndedInTurn, Noticed
<1>4. Blamed'
  BY <1>1, <1>2 DEF Report, Reasons, Blamed
<1> QED
  BY <1>3, <1>4 DEF Reasons

\* The whole report, where the verdict and the bytes do not change either.
LEMMA QuietReport ==
  ASSUME Report, UNCHANGED <<mode, reapCap, connected, urb, done, short, refusing, transferred, reapStatus>>,
         cancelling => cancelling',
         reapAction' = "normal" => reapAction = "normal",
         reapAction' = "completed_early" => reapAction = "completed_early" \/ Refused,
         handler' = "reaped" <=> handler = "reaped",
         handler = "reaped" => current' = current,
         Plain' /\ Stopping => Stopping' \/ Lost',
         Begun', FoundNone',
         handler' \in {"unlist", "land", "callback"} /\ outcome' = "completed" =>
           handler \in {"unlist", "land", "callback"} /\ outcome = "completed",
         completed' /\ status' = "completed" =>
           \/ handler \in {"unlist", "land", "callback"} /\ outcome = "completed"
           \/ completed /\ status = "completed"
  PROVE  Report'
<1>1. NumUrbs' = NumUrbs /\ (Plain' => Plain) /\ (Refused => Refused') /\ (Lost => Lost')
  BY SamePlaces DEF Plain, Refused, Lost
<1>2. (Excused => Excused') /\ (Full => Full')
  BY <1>1 DEF Excused, Full
<1>3. \A i \in 1 .. NumUrbs : Through(i)' <=> Through(i)
  BY DEF Through
<1>4. Reasons'
  BY <1>1, <1>3, ReasonsSame
<1>5. EarlyExcused'
  BY <1>1, <1>2 DEF Report, EarlyExcused, Excused
<1>6. Concluded'
  BY <1>2 DEF Report, Concluded
<1> QED
  BY <1>4, <1>5, <1>6 DEF Report

\* A transfer begins, or is refused from some URB on.
LEMMA BeginReport ==
  ASSUME IInv, Report, Submit \/ \E e \in {"nodev", "remoteio", "nomem"} : SubmitFails(e)
  PROVE  Report'
<1>1. Types /\ Locks /\ Phases /\ Counted /\ Begun
  BY DEF IInv, Control, Kept, Report
<1>2. /\ UNCHANGED <<mode, reapCap, connected, urb, done, short, refusing, transferred, reapStatus,
                     cancelling, handler, current, outcome, completed, status, timer>>
      /\ user' \notin {"idle", "cancel"}
  BY DEF Submit, SubmitFails, Flies, device, history, event, result, data, kernel
<1>3. ~Stopped /\ ~Stopped'
  BY <1>1, <1>2 DEF Submit, SubmitFails, FlyingFree, Stopped, Locks
<1>4. NumUrbs' = NumUrbs /\ (Plain /\ user' \in {"undo", "submit"} => Plain')
  BY <1>2, SamePlaces DEF Submit, SubmitFails, Flies, Plain
<1>5. Begun'
  BY <1>1, <1>2, <1>4 DEF Submit, SubmitFails, Flies, Begun, Plain, Resting, Phases
<1>6. reapAction' = "normal" => reapAction = "normal"
  BY <1>1 DEF Submit, SubmitFails, Begun, Plain
<1>7. ASSUME reapAction' = "completed_early" PROVE reapAction = "completed_early" \/ Refused
  <2>1. CASE SubmitFails("remoteio")
    <3>1. NumUrbs \in cursor .. NumUrbs
      BY <1>1, <2>1, Sizes DEF SubmitFails, Locks, Types
    <3> QED
      BY <1>1, <1>7, <2>1, <3>1 DEF SubmitFails, Counted, Unsent, Refused, Begun, Plain
  <2>2. CASE ~SubmitFails("remoteio")
    BY <1>7, <2>2 DEF Submit, SubmitFails
  <2> QED
    BY <2>1, <2>2
<1> QED
  BY <1>2, <1>3, <1>5, <1>6, <1>7, QuietReport DEF FoundNone, Stopping

\* The event thread goes from one phase to the next.
LEMMA PassOnReport ==
  ASSUME IInv, Report,
         PollError \/ Sweep \/ Seize \/ Settle \/ Unlist \/ Land \/ Callback
  PROVE  Report'
<1>1. Types /\ Locks /\ Phases /\ Begun /\ FoundNone
  BY DEF IInv, Control, Report
<1>2. UNCHANGED <<mode, reapCap, connected, urb, done, short, refusing, transferred, reapStatus,
                  reapAction, cancelling, user, timer, cursor, found>>
  BY DEF PollError, Sweep, Seize, Settle, Unlist, Land, Callback,
         device, history, tpriv, flags, data, kernel, locking
<1>3. handler' \notin {"reaped", "discard"} /\ handler # "reaped"
  BY <1>1 DEF PollError, Sweep, Drained, Seize, Settle, Unlist, Land, Callback, Back, Types
<1>4. Begun' /\ FoundNone'
  BY <1>1, <1>2, <1>3, SamePlaces DEF Begun, FoundNone, Stopped, Plain, Unsent, Queued
<1>5. handler' \in {"unlist", "land", "callback"} /\ outcome' = "completed" =>
        handler \in {"unlist", "land", "callback"} /\ outcome = "completed"
  BY <1>1 DEF PollError, Sweep, Seize, Settle, Unlist, Land, Callback, Back, Types
<1>6. completed' /\ status' = "completed" =>
        \/ handler \in {"unlist", "land", "callback"} /\ outcome = "completed"
        \/ completed /\ status = "completed"
  BY DEF PollError, Sweep, Seize, Settle, Unlist, Land, Callback, result
<1>7. Stopping => Stopping'
  BY <1>1, <1>2, SamePlaces DEF Stopping, Stopped
<1> QED
  BY <1>2, <1>3, <1>4, <1>5, <1>6, <1>7, QuietReport

\* The clock.
LEMMA ClockReport ==
  ASSUME Report, TimeOut \/ TimerMark
  PROVE  Report'
<1>1. /\ UNCHANGED <<mode, reapCap, connected, urb, done, short, refusing, transferred, reapStatus,
                     reapAction, cancelling, user, cursor, found, handler, current, outcome,
                     completed, status>>
      /\ timer # "discard" /\ timer' # "discard"
  BY DEF TimeOut, TimerMark, device, history, tpriv, event, result, data, kernel, locking
<1>2. Begun' /\ FoundNone'
  BY <1>1, SamePlaces DEF Report, Begun, FoundNone, Stopped, Plain, Unsent, Queued
<1>3. Stopping => Stopping'
  BY <1>1, SamePlaces DEF Stopping, Stopped
<1> QED
  BY <1>1, <1>2, <1>3, QuietReport

\* A URB is taken back: by a cancellation, or when the transfer is not plain.
LEMMA DiscardReport ==
  ASSUME IInv, Order, Told, Report, DiscardOne, cursor \in 1 .. NumUrbs,
         UNCHANGED <<mode, reapCap, connected, short, refusing, transferred, reapAction, reapStatus,
                     cancelling, user, timer, handler, current, outcome, completed, status>>,
         Plain => Stopped
  PROVE  Report'
<1>1. /\ Types /\ Locks /\ Phases /\ DoneAreDone /\ Signs /\ Begun /\ Reasons /\ FoundNone
      /\ EarlyExcused /\ Concluded /\ NumUrbs \in Nat /\ NumUrbs >= 1 /\ NumUrbs' = NumUrbs
      /\ \A i \in 1 .. NumUrbs : UrbLen(i)' = UrbLen(i)
  BY Sizes, SamePlaces DEF IInv, Control, Kept, Data, Order, Report
<1>2. /\ (Plain' <=> Plain) /\ (Stopped' <=> Stopped) /\ (Lost' <=> Lost) /\ Live' = Live
      /\ cursor' = cursor - 1 /\ cursor' < NumUrbs
  BY <1>1 DEF DiscardOne, Kill, Plain, Stopped, Lost, Live
<1>3. \/ /\ connected /\ urb[cursor].state = "queued" /\ found' = found
         /\ urb' = [urb EXCEPT ![cursor].state = "done", ![cursor].status = "cancelled"]
         /\ done' = Append(done, cursor)
      \/ /\ connected /\ urb[cursor].state # "queued" /\ found' = (found /\ cursor # NumUrbs)
         /\ urb' = urb /\ done' = done
      \/ ~connected /\ urb' = urb /\ done' = done
  BY DEF DiscardOne, Kill, kernel
<1>4. /\ \A j \in 1 .. NumUrbs : urb[j].state # "queued" => urb'[j] = urb[j]
      /\ \A j \in 1 .. NumUrbs : urb'[j] # urb[j] =>
           /\ connected /\ j = cursor /\ found' = found
           /\ urb[j].state = "queued" /\ urb'[j].state = "done" /\ urb'[j].status = "cancelled"
  <2>1. CASE urb' = urb
    BY <2>1
  <2>2. CASE /\ connected /\ urb[cursor].state = "queued" /\ found' = found
             /\ urb' = [urb EXCEPT ![cursor].state = "done", ![cursor].status = "cancelled"]
    <3>1. urb[cursor] \in Urb /\ cursor \in DOMAIN urb
      BY <1>1, UrbsTyped
    <3>2. urb'[cursor] = [urb[cursor] EXCEPT !.state = "done", !.status = "cancelled"]
          /\ \A j \in 1 .. NumUrbs : j # cursor => urb'[j] = urb[j]
      BY <1>1, <2>2, <3>1, UrbsTyped
    <3>3. urb'[cursor].state = "done" /\ urb'[cursor].status = "cancelled"
      BY <3>1, <3>2 DEF Urb
    <3> QED
      BY <2>2, <3>2, <3>3
  <2> QED
    BY <1>3, <2>1, <2>2
<1>5. \E t \in Seq(Nat) : done' = done \o t /\ \A k \in 1 .. Len(t) : t[k] \in Queued
  <2>1. CASE done' = done
    <3>1. << >> \in Seq(Nat) /\ done' = done \o << >> /\ Len(<< >>) = 0
      BY <1>1, <2>1 DEF Types
    <3>2. \A k \in 1 .. Len(<< >>) : << >>[k] \in Queued
      BY <3>1
    <3> QED
      BY <3>1, <3>2
  <2>2. CASE done' = Append(done, cursor) /\ urb[cursor].state = "queued"
    <3>1. cursor \in Nat /\ <<cursor>> \in Seq(Nat) /\ Len(<<cursor>>) = 1 /\ <<cursor>>[1] = cursor
          /\ done' = done \o <<cursor>>
      BY <1>1, <2>2 DEF Types
    <3>2. \A k \in 1 .. Len(<<cursor>>) : <<cursor>>[k] \in Queued
      BY <2>2, <3>1 DEF Queued
    <3> QED
      BY <3>1, <3>2
  <2> QED
    BY <1>3, <2>1, <2>2
<1>6. ASSUME Plain, \E j \in 1 .. NumUrbs : urb'[j] # urb[j] PROVE Stopping'
  <2>1. Stopped /\ connected /\ cursor \in Queued /\ found' = found
    BY <1>4, <1>6 DEF Queued
  <2>2. found
    BY <1>1, <1>6, <2>1 DEF FoundNone
  <2> QED
    BY <1>1, <1>2, <2>1, <2>2 DEF Stopping
<1>7. ASSUME Stopping PROVE Stopping'
  <2>1. cursor # NumUrbs
    BY <1>1, <1>7 DEF Stopping
  <2>2. found \/ ~connected => found' \/ ~connected
    BY <1>3, <2>1
  <2> QED
    BY <1>1, <1>2, <1>7, <2>2 DEF Stopping
<1>8. /\ \A j \in 1 .. NumUrbs : /\ urb'[j].state = "reaped" <=> urb[j].state = "reaped"
                                 /\ urb'[j].state = "unsent" <=> urb[j].state = "unsent"
                                 /\ Through(j)' <=> Through(j)
                                 /\ Through(j) => urb'[j] = urb[j]
      /\ Queued' \subseteq Queued /\ Unsent' = Unsent
      /\ (Refused' <=> Refused)
  <2>1. \A j \in 1 .. NumUrbs : urb'[j] = urb[j] \/
          (urb[j].state = "queued" /\ urb'[j].state = "done")
    BY <1>4
  <2> QED
    BY <1>1, <2>1 DEF Through, Queued, Unsent, Refused
<1>9. ShortTold'
  <2> SUFFICES ASSUME NEW j \in 1 .. NumUrbs
               PROVE  /\ urb'[j].status = "remoteio" => short
                      /\ urb'[j].status = "ok" /\ Over(j)' /\ urb'[j].actual < UrbLen(j) => short
    BY <1>1 DEF ShortTold
  <2>1. CASE urb'[j] = urb[j]
    BY <1>1, <2>1 DEF Reasons, ShortTold, Over
  <2>2. CASE urb'[j] # urb[j]
    BY <1>4, <2>2
  <2> QED
    BY <2>1, <2>2
<1>10. Blamed'
  <2> SUFFICES ASSUME Plain, NEW j \in 1 .. NumUrbs, urb'[j].status = "cancelled"
               PROVE  short \/ Lost \/ Stopping' \/ \E p \in 1 .. NumUrbs : Behind(j, p)'
    BY <1>1, <1>2 DEF Blamed
  <2>1. CASE urb'[j] # urb[j]
    BY <1>6, <2>1
  <2>2. CASE urb'[j] = urb[j]
    <3>1. short \/ Lost \/ Stopping \/ \E p \in 1 .. NumUrbs : Behind(j, p)
      BY <1>1, <2>2 DEF Reasons, Blamed
    <3>2. urb[j].state # "queued"
      BY <1>1, <2>2 DEF Signs
    <3>3. ASSUME NEW p \in 1 .. NumUrbs, Behind(j, p) PROVE Behind(j, p)'
      <4>1. urb'[p] = urb[p]
        BY <1>4, <3>3 DEF Behind, Over
      <4> QED
        BY <1>1, <1>2, <1>5, <2>2, <3>2, <3>3, <4>1, BehindKept
    <3> QED
      BY <1>7, <3>1, <3>3
  <2> QED
    BY <2>1, <2>2
<1>11. EndedInTurn'
  <2> SUFFICES ASSUME Plain, NEW j \in 1 .. NumUrbs, NEW m \in 1 .. NumUrbs,
                      j < m, j \in Queued', Over(m)'
               PROVE  Lost \/ Stopping'
    BY <1>1, <1>2 DEF EndedInTurn
  <2>1. CASE urb'[m] # urb[m]
    BY <1>6, <2>1
  <2>2. CASE urb'[m] = urb[m]
    BY <1>1, <1>7, <1>8, <2>2 DEF Reasons, EndedInTurn, Over
  <2> QED
    BY <2>1, <2>2
<1>12. FoundNone'
  <2> SUFFICES ASSUME Plain, connected, Stopped, ~found' PROVE Queued' = {}
    BY <1>1, <1>2 DEF FoundNone
  <2>1. CASE ~found
    BY <1>1, <1>8, <2>1 DEF FoundNone
  <2>2. CASE found
    <3>1. cursor = NumUrbs /\ urb[NumUrbs].state # "queued"
      BY <1>3, <2>2
    <3>2. user \in {"wait", "cancel"}
      BY <1>1 DEF Types, Locks, Told, Cancelling, Stopped
    <3>3. Unsent = {}
      BY <1>1, <3>2 DEF Begun, Plain
    <3>4. Over(NumUrbs)
      <4>1. urb[NumUrbs].state \in {"unsent", "queued", "done", "reaped"} /\ NumUrbs \in 1 .. NumUrbs
        BY <1>1, UrbsTyped DEF Urb
      <4> QED
        BY <3>1, <3>3, <4>1 DEF Over, Unsent
    <3>5. ~Lost /\ ~Stopping
      BY <1>1, <3>1 DEF Lost, Stopping
    <3>6. \A j \in Queued : j < NumUrbs
      BY <1>1, <3>1 DEF Queued
    <3>7. Queued = {}
      BY <1>1, <3>4, <3>5, <3>6 DEF Reasons, EndedInTurn, Queued
    <3> QED
      BY <1>8, <3>7
  <2> QED
    BY <2>1, <2>2
<1>13. Begun' /\ Noticed'
  BY <1>1, <1>2, <1>8 DEF Begun, Reasons, Noticed
<1>14. EarlyExcused' /\ Concluded'
  BY <1>1, <1>2, <1>8 DEF EarlyExcused, Concluded, Full, Excused
<1> QED
  BY <1>9, <1>10, <1>11, <1>12, <1>13, <1>14 DEF Report, Reasons

\* A cancellation, of all that is left or of the transfer.
LEMMA CancelReport ==
  ASSUME IInv, Order, Told, Report, SubmitDiscard \/ Discard \/ UserCancel \/ TimerCancel
  PROVE  Report'
<1>1. /\ Types /\ Locks /\ Phases /\ Begun /\ FoundNone /\ NumUrbs \in Nat /\ NumUrbs >= 1
      /\ NumUrbs' = NumUrbs
  BY Sizes, SamePlaces DEF IInv, Control, Report, SubmitDiscard, Discard, UserCancel, TimerCancel,
                           device
<1>2. UNCHANGED <<mode, reapCap, connected, short, refusing, transferred, reapStatus, current,
                  outcome, completed, status>>
  BY DEF SubmitDiscard, Discard, UserCancel, TimerCancel, device, history, event, result, data, tpriv
<1>3. CASE /\ DiscardOne /\ cursor > 0 /\ itLock # "none"
           /\ UNCHANGED <<reapAction, cancelling, user, timer, handler>>
           /\ user = "discard" \/ handler = "discard" \/ Stopped
  <2>1. cursor \in 1 .. NumUrbs
    BY <1>1, <1>3 DEF Locks, Types
  <2>2. Plain => Stopped
    BY <1>1, <1>3 DEF Begun, Plain
  <2> QED
    BY <1>2, <1>3, <2>1, <2>2, DiscardReport
<1>4. CASE /\ UNCHANGED <<urb, done>> /\ UNCHANGED <<reapAction, cancelling, timer>>
           /\ \/ user = "discard" /\ user' = "wait" /\ UNCHANGED handler
              \/ handler = "discard" /\ handler' = Back /\ UNCHANGED user
  <2>1. /\ ~Stopped /\ ~Stopped'
        /\ handler' \notin {"reaped", "unlist", "land", "callback"} \/ UNCHANGED handler
    BY <1>1, <1>4 DEF Back, Types, Locks, Stopped
  <2>2. Begun'
    BY <1>1, <1>2, <1>4 DEF Begun, Plain, Unsent, Back, Types
  <2>3. handler' = "reaped" <=> handler = "reaped"
    BY <1>1, <1>4 DEF Back, Types
  <2> QED
    BY <1>2, <1>4, <2>1, <2>2, <2>3, QuietReport DEF FoundNone, Stopping
<1>5. CASE /\ CancelRefused /\ UNCHANGED <<urb, done, reapAction, handler>>
           /\ UNCHANGED user
           /\ \/ timer = "cancel" /\ timer' = "idle"
              \/ timer' = timer
  <2>1. ~Stopped /\ ~Stopped'
    BY <1>1, <1>5 DEF CancelRefused, Locks, Stopped
  <2>2. cancelling => cancelling'
    BY <1>5, Zenon DEF CancelRefused
  <2>3. Begun'
    BY <1>1, <1>2, <1>5 DEF Begun, Plain, Unsent
  <2> QED
    BY <1>2, <1>5, <2>1, <2>2, <2>3, QuietReport DEF FoundNone, Stopping
<1>6. CASE /\ \E who \in {"user", "timer"} : CancelBegins(who)
           /\ UNCHANGED <<urb, done, reapAction, handler>>
           /\ \/ user = "wait" /\ user' = "cancel" /\ timer' = timer
              \/ user' = user /\ timer' = "discard"
  <2>1. ~Stopped /\ cursor' = NumUrbs /\ found' /\ UNCHANGED cancelling
    BY <1>1, <1>6 DEF CancelBegins, Locks, Stopped
  <2>2. Begun'
    BY <1>1, <1>2, <1>6 DEF Begun, Plain, Unsent
  <2>3. FoundNone' /\ ~Stopping
    BY <1>1, <2>1 DEF FoundNone, Stopping
  <2> QED
    BY <1>2, <1>6, <2>1, <2>2, <2>3, QuietReport
<1>7. CASE /\ Stopped /\ \E who \in {"user", "timer"} : CancelEnds(who)
           /\ UNCHANGED <<urb, done, handler>>
           /\ \/ user = "cancel" /\ user' = "wait" /\ timer' = timer
              \/ timer = "discard" /\ timer' \in {"mark", "idle"} /\ user' = user
  <2>1. /\ cursor = 0 /\ cancelling'
        /\ reapAction' = IF found /\ reapAction # "error" THEN "cancelled" ELSE reapAction
    BY <1>7 DEF CancelEnds
  <2>2. user \in {"wait", "cancel"} /\ ~Stopped'
    BY <1>1, <1>7 DEF Types, Locks, Stopped, Told, Cancelling
  <2>3. Begun'
    BY <1>1, <1>2, <1>7, <2>1, <2>2 DEF Begun, Plain, Unsent
  <2>4. Plain' /\ Stopping => Lost'
    BY <1>2, <2>1 DEF Plain, Stopping, Lost
  <2>5. FoundNone'
    BY <2>2 DEF FoundNone
  <2> QED
    BY <1>2, <1>7, <2>1, <2>3, <2>4, <2>5, QuietReport
<1>8. CASE SubmitDiscard
  BY <1>1, <1>3, <1>4, <1>8 DEF SubmitDiscard, Flies, Locks, event, tpriv, kernel
<1>9. CASE Discard
  BY <1>1, <1>3, <1>4, <1>9 DEF Discard, Locks, Types, flags, tpriv, kernel
<1>10. CASE UserCancel
  BY <1>1, <1>3, <1>5, <1>6, <1>7, <1>10 DEF UserCancel, Locks, event, kernel, Stopped
<1>11. CASE TimerCancel
  <2>1. CASE timer = "cancel" /\ CancelRefused /\ timer' = "idle" /\ UNCHANGED <<kernel, reapAction>>
    BY <1>5, <1>11, <2>1 DEF TimerCancel, event, kernel
  <2>2. CASE timer = "cancel" /\ CancelBegins("timer") /\ timer' = "discard"
             /\ UNCHANGED <<kernel, reapAction>>
    BY <1>6, <1>11, <2>2 DEF TimerCancel, event, kernel
  <2>3. CASE timer = "discard" /\ cursor > 0 /\ DiscardOne /\ UNCHANGED <<timer, cancelling, reapAction>>
    BY <1>1, <1>3, <1>11, <2>3 DEF TimerCancel, Locks, event, Stopped
  <2>4. CASE /\ timer = "discard" /\ CancelEnds("timer") /\ UNCHANGED kernel
             /\ timer' = IF found THEN "mark" ELSE "idle"
    BY <1>7, <1>11, <2>4 DEF TimerCancel, event, kernel, Stopped
  <2> QED
    BY <1>11, <2>1, <2>2, <2>3, <2>4 DEF TimerCancel
<1> QED
  BY <1>8, <1>9, <1>10, <1>11

\* The next URB is submitted, behind those that are.
LEMMA SubmitUrbReport ==
  ASSUME IInv, Order, Report, SubmitUrb
  PROVE  Report'
<1>1. /\ Types /\ Locks /\ Phases /\ InTurn /\ Signs /\ Begun /\ Reasons /\ Plain
      /\ NumUrbs \in Nat /\ NumUrbs >= 1
  BY Sizes DEF IInv, Control, Order, Report, Begun, SubmitUrb
<1>2. /\ UNCHANGED <<mode, reapCap, connected, short, transferred, reapAction, reapStatus, cancelling,
                     timer, done, handler, current, outcome, completed, status>>
      /\ user = "submit" /\ urb' = [urb EXCEPT ![cursor].state = "queued"]
      /\ user' = "submit" \/ (user' = "wait" /\ cursor = NumUrbs)
  BY DEF SubmitUrb, Flies, history, tpriv, event, result, data
<1>3. /\ NumUrbs' = NumUrbs /\ Live' = Live
      /\ \A i \in 1 .. NumUrbs : UrbLen(i)' = UrbLen(i)
  BY <1>2, SamePlaces DEF Live
<1>4. cursor \in 1 .. NumUrbs /\ cursor .. NumUrbs \subseteq Unsent
  BY <1>1, <1>2 DEF IInv, Kept, Locks, Counted, Types
<1>5. /\ urb'[cursor].state = "queued" /\ urb'[cursor].status = "ok"
      /\ \A j \in 1 .. NumUrbs : j # cursor => urb'[j] = urb[j]
  <2>1. urb \in [1 .. MaxUrbs -> Urb] /\ \A j \in 1 .. NumUrbs : j \in 1 .. MaxUrbs
    BY <1>1, Sizes DEF Types
  <2>2. urb[cursor].state = "unsent" /\ urb[cursor].status = "ok"
    BY <1>1, <1>4 DEF Unsent, Signs
  <2> QED
    BY <1>2, <1>4, <2>1, <2>2 DEF Urb
<1>6. ~Stopped /\ ~Stopped'
  BY <1>1, <1>2 DEF Locks, Stopped
<1>7. \A j \in 1 .. NumUrbs : /\ Over(j)' <=> Over(j)
                              /\ Over(j) => urb'[j] = urb[j]
                              /\ Through(j)' <=> Through(j)
                              /\ Through(j) => Over(j)
  BY <1>2, <1>4, <1>5 DEF Over, Through, Unsent
<1>8. Plain' /\ (Lost' <=> Lost) /\ ~Stopping /\ ~Stopping'
  BY <1>1, <1>2, <1>6 DEF Plain, Lost, Stopping
<1>9. Begun'
  <2>1. user' = "wait" => Unsent' = {}
    <3> SUFFICES ASSUME cursor = NumUrbs, NEW j \in 1 .. NumUrbs PROVE urb'[j].state # "unsent"
      BY <1>2, <1>3 DEF Unsent
    <3>1. j = cursor \/ j < cursor
      BY <1>1
    <3> QED
      BY <1>1, <1>2, <1>5, <3>1 DEF InTurn, Unsent
  <2> QED
    BY <1>1, <1>2, <1>8, <2>1 DEF Begun, Phases, Resting
<1>10. ShortTold' /\ Noticed'
  BY <1>1, <1>2, <1>3, <1>5, <1>7 DEF Reasons, ShortTold, Noticed
<1>11. EndedInTurn'
  <2> SUFFICES ASSUME NEW i \in 1 .. NumUrbs, NEW j \in 1 .. NumUrbs, i < j,
                      urb'[i].state = "queued", Over(j)'
               PROVE  Lost
    BY <1>3, <1>8 DEF EndedInTurn, Queued
  <2>1. j \notin Unsent /\ Over(j)
    BY <1>7 DEF Over, Unsent
  <2>2. i # cursor
    BY <1>1, <1>4, <2>1
  <2> QED
    BY <1>1, <1>5, <1>8, <2>1, <2>2 DEF Reasons, EndedInTurn, Queued
<1>12. Blamed'
  <2> SUFFICES ASSUME NEW i \in 1 .. NumUrbs, urb'[i].status = "cancelled"
               PROVE  short \/ Lost \/ \E p \in 1 .. NumUrbs : Behind(i, p)'
    BY <1>2, <1>3, <1>8 DEF Blamed
  <2>1. urb'[i] = urb[i]
    BY <1>5
  <2>2. \A p \in 1 .. NumUrbs : Behind(i, p) => Behind(i, p)'
    BY <1>2, <1>3, <1>7, <2>1 DEF Behind
  <2> QED
    BY <1>1, <1>8, <2>1, <2>2 DEF Reasons, Blamed
<1>13. EarlyExcused' /\ Concluded' /\ FoundNone'
  BY <1>1, <1>2, <1>6, <1>8 DEF EarlyExcused, Concluded, FoundNone, Plain, Phases, Resting
<1> QED
  BY <1>9, <1>10, <1>11, <1>12, <1>13 DEF Report, Reasons

\* The transfer is freed, and nothing is left of it.
LEMMA BlankReport ==
  ASSUME IInv, Report, SubmitUndo \/ Return
  PROVE  Report'
<1>1. Types /\ Locks /\ Phases
  BY DEF IInv, Control
<1>2. /\ UNCHANGED <<mode, reapCap, connected, done, handler>>
      /\ user' = "idle" /\ Blank /\ (user = "undo" \/ completed) /\ timer' = timer
  BY DEF SubmitUndo, Return, device, event
<1>3. NumUrbs' = NumUrbs /\ \A i \in 1 .. NumUrbs : urb'[i] = Fresh
  <2>1. 1 .. NumUrbs \subseteq 1 .. MaxUrbs
    BY <1>1, Sizes
  <2> QED
    BY <1>2, <2>1, SamePlaces DEF Blank
<1>4. Plain' /\ ~completed' /\ handler' \in Resting /\ ~Stopped'
  <2>1. timer # "discard"
    BY <1>1 DEF SubmitUndo, Return, FlyingFree, Phases
  <2> QED
    BY <1>1, <1>2, <2>1 DEF Blank, Plain, Phases, Stopped
<1>5. \A i \in 1 .. NumUrbs : ~Over(i)' /\ ~Through(i)' /\ i \notin Queued'
                              /\ urb'[i].status = "ok"
  BY <1>3 DEF Over, Through, Queued, Fresh
<1>6. Reasons'
  BY <1>3, <1>5 DEF Reasons, ShortTold, Blamed, EndedInTurn, Noticed
<1>7. Begun' /\ FoundNone' /\ EarlyExcused' /\ Concluded'
  BY <1>2, <1>4 DEF Begun, FoundNone, EarlyExcused, Concluded, Plain, Resting
<1> QED
  BY <1>6, <1>7 DEF Report

\* usbfs gives back the next URB: those behind which it comes are through.
LEMMA ReapReport ==
  ASSUME IInv, Order, Report, Reap
  PROVE  Report'
<1>1. PICK c \in 1 .. NumUrbs : c = current' /\ urb[c].state = "done"
  BY ReapWhileOut
<1>2. /\ UNCHANGED <<mode, reapCap, connected, short, refusing, reapAction, reapStatus, cancelling,
                     user, timer, cursor, found, outcome, completed, status, transferred>>
      /\ handler' = "reaped" /\ handler # "reaped" /\ Live /\ ~completed
      /\ done # <<>> /\ c = Head(done) /\ done' = Tail(done)
      /\ urb' = [urb EXCEPT ![c].state = "reaped"]
  BY <1>1, ReapWhileOut DEF Reap, Live, device, history, flags, result, tpriv, locking, Resting
<1>3. Types /\ Begun /\ Reasons /\ FoundNone /\ EarlyExcused
  BY DEF IInv, Report
<1>4. /\ NumUrbs' = NumUrbs /\ Live' = Live /\ NumUrbs \in Nat /\ NumUrbs >= 1
      /\ \A i \in 1 .. NumUrbs : UrbLen(i)' = UrbLen(i)
  BY <1>2, <1>3, SamePlaces, Sizes DEF Live
<1>5. /\ urb'[c].state = "reaped" /\ urb'[c].status = urb[c].status
      /\ urb'[c].actual = urb[c].actual
      /\ \A j \in 1 .. NumUrbs : j # c => urb'[j] = urb[j]
  <2>1. urb \in [1 .. MaxUrbs -> Urb] /\ \A j \in 1 .. NumUrbs : j \in 1 .. MaxUrbs
    BY <1>3, Sizes DEF Types
  <2> QED
    BY <1>2, <1>1, <2>1 DEF Urb
<1>6. Unsent' = Unsent /\ Queued' = Queued
  BY <1>1, <1>4, <1>5 DEF Unsent, Queued
<1>7. \A i \in 1 .. NumUrbs : /\ Over(i)' <=> Over(i)
                              /\ urb'[i].status = urb[i].status /\ urb'[i].actual = urb[i].actual
                              /\ Through(i)' <=> urb[i].state = "reaped"
                              /\ Through(i)' <=> Through(i)
  BY <1>2, <1>1, <1>5 DEF Over, Through
<1>8. /\ Len(done) \in Nat /\ Len(done) >= 1 /\ done[1] = c /\ Len(done') = Len(done) - 1
      /\ \A k \in 1 .. Len(done) - 1 : done'[k] = done[k + 1]
  <2>1. done \in Seq(Nat)
    BY <1>3 DEF Types
  <2> QED
    BY <1>2, <2>1
<1>9. /\ (Plain' <=> Plain) /\ (Lost' <=> Lost) /\ (Stopped' <=> Stopped)
      /\ (Stopping' <=> Stopping) /\ (Refused' <=> Refused)
  <2>1. urb'[NumUrbs].state = "unsent" <=> urb[NumUrbs].state = "unsent"
    BY <1>1, <1>4, <1>5
  <2> QED
    BY <1>2, <1>4, <2>1 DEF Plain, Lost, Stopping, Stopped, Refused
<1>10. ASSUME NEW i \in 1 .. NumUrbs, NEW p \in 1 .. NumUrbs, urb[i].status = "cancelled", Behind(i, p)
       PROVE  Behind(i, p)'
  <2>1. urb'[p].status \in Wrong /\ Over(p)'
    BY <1>7, <1>10 DEF Behind
  <2>2. ASSUME urb'[i].state = "reaped" PROVE Through(p)'
    <3>1. CASE i = c
      <4>1. 1 \in 1 .. Len(done) /\ 1 .. 1 - 1 = {}
        BY <1>8
      <4>2. urb[p].state = "reaped"
        BY <1>2, <1>8, <1>10, <3>1, <4>1 DEF Behind
      <4> QED
        BY <1>7, <4>2
    <3>2. CASE i # c
      BY <1>5, <1>7, <1>10, <2>2, <3>2 DEF Behind
    <3> QED
      BY <3>1, <3>2
  <2>3. ASSUME NEW l \in 1 .. Len(done'), done'[l] = i
        PROVE  urb'[p].state = "reaped" \/ \E k \in 1 .. l - 1 : done'[k] = p
    <3>1. l + 1 \in 1 .. Len(done) /\ done[l + 1] = i
      BY <1>8, <2>3
    <3>2. urb[p].state = "reaped" \/ \E k \in 1 .. l + 1 - 1 : done[k] = p
      BY <1>2, <1>10, <3>1 DEF Behind
    <3>3. CASE urb[p].state = "reaped"
      BY <1>5, <3>3
    <3>4. CASE \E k \in 1 .. l + 1 - 1 : done[k] = p
      <4>1. PICK k \in 1 .. l : done[k] = p
        BY <1>8, <3>4
      <4>2. CASE p = c
        BY <1>5, <4>2
      <4>3. CASE p # c
        <5>1. k # 1 /\ k \in 1 .. l /\ l \in 1 .. Len(done) - 1
          BY <1>8, <4>1, <4>3
        <5>2. k - 1 \in 1 .. l - 1 /\ k - 1 \in 1 .. Len(done) - 1 /\ (k - 1) + 1 = k
          BY <1>8, <5>1
        <5>3. done'[k - 1] = p
          BY <1>8, <4>1, <5>2
        <5> QED
          BY <5>2, <5>3
      <4> QED
        BY <4>2, <4>3
    <3> QED
      BY <3>2, <3>3, <3>4
  <2> QED
    BY <2>1, <2>2, <2>3 DEF Behind
<1>11. ShortTold' /\ EndedInTurn' /\ Noticed'
  BY <1>2, <1>3, <1>4, <1>6, <1>7, <1>9 DEF Reasons, ShortTold, EndedInTurn, Noticed
<1>12. Blamed'
  <2> SUFFICES ASSUME Plain, NEW i \in 1 .. NumUrbs, urb[i].status = "cancelled"
               PROVE  short \/ Lost \/ Stopping \/ \E p \in 1 .. NumUrbs : Behind(i, p)'
    BY <1>2, <1>4, <1>7, <1>9 DEF Blamed
  <2>1. short \/ Lost \/ Stopping \/ \E p \in 1 .. NumUrbs : Behind(i, p)
    BY <1>3 DEF Reasons, Blamed
  <2> QED
    BY <1>10, <2>1
<1>13. Begun' /\ FoundNone'
  BY <1>2, <1>3, <1>4, <1>6, <1>9 DEF Begun, FoundNone
<1>14. EarlyExcused' /\ Concluded'
  BY <1>2, <1>3, <1>9 DEF EarlyExcused, Excused, Concluded
<1> QED
  BY <1>11, <1>12, <1>13, <1>14 DEF Report, Reasons

\* A URB that comes back short to a transfer that was plain till then has an
\* excuse: it was not taken back, or the transfer was taken back with it.
LEMMA ShortExcused ==
  ASSUME IInv, Report, Plain, handler = "reaped", itLock = "none",
         urb[current].status \in {"ok", "remoteio", "cancelled"},
         urb[current].actual < UrbLen(current)
  PROVE  Excused
<1>1. /\ Locks /\ Reasons /\ current \in 1 .. NumUrbs /\ urb[current].state = "reaped"
  BY DEF IInv, Control, Phases, Kept, Counted, Report
<1>2. CASE urb[current].status \in {"ok", "remoteio"}
  BY <1>1, <1>2 DEF Reasons, ShortTold, Over, Excused
<1>3. CASE urb[current].status = "cancelled"
  <2>1. ~Stopping
    BY <1>1 DEF Locks, Stopping, Stopped
  <2>2. ASSUME NEW p \in 1 .. NumUrbs, Behind(current, p) PROVE FALSE
    BY <1>1, <2>2 DEF Behind, Reasons, Noticed, Wrong
  <2> QED
    BY <1>1, <1>3, <2>1, <2>2 DEF Reasons, Blamed, Excused
<1> QED
  BY <1>2, <1>3

\* When the last URB comes in and nothing was out of the ordinary, the transfer
\* is full.
LEMMA LastIsFull ==
  ASSUME IInv, Order, Stream, Report, Plain, handler = "reaped", itLock = "none", AllRetired,
         urb[current].status \in {"ok", "remoteio", "cancelled"},
         ~(urb[current].actual < UrbLen(current))
  PROVE  transferred + urb[current].actual = Length
<1>1. /\ Types /\ Locks /\ Phases /\ Counted /\ InTurn /\ Contiguous /\ Placed /\ Straight
      /\ Begun /\ Noticed /\ current \in 1 .. NumUrbs /\ urb[current].state = "reaped"
      /\ NumUrbs \in Nat /\ NumUrbs >= 1
  BY Sizes DEF IInv, Control, Order, Stream, Kept, Counted, Phases, Report, Reasons
<1>2. user = "wait" /\ retired + Cardinality(Out) + 1 = NumUrbs
  BY <1>1, HandledWhileWaiting DEF Flag
<1>3. Out = {} /\ retired # NumUrbs
  <2>1. IsFiniteSet(Out) /\ Cardinality(Out) \in Nat
    BY <1>1, OutFinite
  <2>2. Cardinality(Out) = 0 /\ retired # NumUrbs
    BY <1>1, <1>2, <2>1 DEF AllRetired, Types
  <2> QED
    BY <2>1, <2>2, FS_EmptySet
<1>4. \A j \in 1 .. NumUrbs : urb[j].state = "reaped"
  <2>1. Unsent = {}
    BY <1>1, <1>2 DEF Begun, Plain
  <2>2. \A j \in 1 .. NumUrbs : urb[j].state \in {"unsent", "queued", "done", "reaped"}
    BY <1>1, UrbsTyped DEF Urb
  <2> QED
    BY <1>3, <2>1, <2>2 DEF Out, Unsent
<1>5. \A j \in 1 .. NumUrbs : j # current => Through(j)
  BY <1>4 DEF Through
<1>6. \A j \in 1 .. NumUrbs : /\ ~Breaks(j) /\ urb[j].actual = UrbLen(j)
                              /\ UrbLen(j) \in Nat /\ UrbLen(j) >= 1
  <2> SUFFICES ASSUME NEW j \in 1 .. NumUrbs
               PROVE  /\ ~Breaks(j) /\ urb[j].actual = UrbLen(j)
                      /\ UrbLen(j) \in Nat /\ UrbLen(j) >= 1
    OBVIOUS
  <2>1. /\ urb[j].actual \in Nat /\ UrbLen(j) \in Nat /\ UrbLen(j) >= 1
        /\ urb[j].actual <= UrbLen(j)
    BY <1>1, UrbsTyped, Places DEF Urb, InTurn
  <2>2. ~(urb[j].actual < UrbLen(j))
    <3>1. CASE j = current
      BY <3>1
    <3>2. CASE j # current
      BY <1>1, <1>3, <1>5, <3>2 DEF Straight, Plain, Breaks, Noticed
    <3> QED
      BY <3>1, <3>2
  <2> QED
    BY <2>1, <2>2 DEF Breaks
<1>7. Loaded = 1 .. NumUrbs
  BY <1>6 DEF Loaded
<1>8. current = NumUrbs
  <2>1. \A j \in Loaded : j > current => ~Through(j)
    BY <1>1, <1>7, HandledNext
  <2>2. ~(NumUrbs > current)
    BY <1>1, <1>5, <1>7, <2>1
  <2> QED
    BY <1>1, <2>2
<1>9. urb[current].from = given + Offset(current) /\ urb[current].from = given + transferred
      /\ given \in Int /\ transferred \in Nat
  BY <1>1, <1>6, <1>7, HandledNext DEF Placed
<1>10. Offset(NumUrbs) \in Nat /\ Offset(NumUrbs) + UrbLen(NumUrbs) = Length
  BY <1>1, Places
<1> QED
  BY <1>1, <1>6, <1>8, <1>9, <1>10

\* A URB counts as retired, and says what it says of the transfer.
LEMMA RetireReport ==
  ASSUME IInv, Order, Stream, Report, Retire
  PROVE  Report'
<1> DEFINE u == urb[current]
<1>1. /\ UNCHANGED <<mode, reapCap, connected, urb, done, short, refusing, cancelling, completed,
                     status, user, timer, found>>
      /\ handler = "reaped" /\ itLock = "none"
      /\ transferred' = transferred + u.actual
      /\ reapAction' = IF reapAction # "normal" THEN reapAction ELSE NormalAction(u, current)
      /\ reapStatus' = IF reapAction = "normal" THEN NormalStatus(u.status)
                       ELSE IF AllRetired THEN AbnormalStatus ELSE reapStatus
  BY DEF Retire, Surplus, device, history, kernel, flags, result
<1>2. /\ Types /\ Locks /\ Phases /\ Counted /\ Begun /\ Reasons /\ FoundNone /\ EarlyExcused
      /\ current \in 1 .. NumUrbs /\ u.state = "reaped" /\ u \in Urb
      /\ NumUrbs' = NumUrbs
  BY <1>1, SamePlaces, UrbsTyped DEF IInv, Control, Phases, Kept, Counted, Report
<1>3. /\ user = "wait" /\ ~completed /\ ~Stopped /\ ~Stopped'
      /\ handler' # "reaped"
  BY <1>1, <1>2, HandledWhileWaiting DEF Locks, Stopped, Retire, Back, Types
<1>4. Plain' => Plain /\ u.status \in {"ok", "remoteio", "cancelled"}
  BY <1>1, <1>2 DEF Plain, NormalStatus, NormalAction, Urb
<1>5. /\ (Excused' <=> Excused) /\ Unsent' = Unsent /\ Queued' = Queued
      /\ \A i \in 1 .. NumUrbs : Through(i)' <=> Through(i) \/ i = current
  BY <1>1, <1>2, <1>3 DEF Excused, Refused, Lost, Unsent, Queued, Through
<1>6. Begun'
  <2>1. handler' = "discard" => ~Plain'
    BY <1>1, <1>2 DEF Retire, CutsShort, Back, Types, Plain, NormalStatus
  <2>2. reapAction' = "normal" => reapAction = "normal"
    BY <1>1
  <2> QED
    BY <1>1, <1>2, <1>3, <1>5, <2>1, <2>2 DEF Begun
<1>7. Reasons'
  <2>1. /\ Live' = Live /\ (Lost' <=> Lost) /\ ~Stopping
        /\ \A i \in 1 .. NumUrbs : UrbLen(i)' = UrbLen(i) /\ (Over(i)' <=> Over(i))
    BY <1>1, <1>3, SamePlaces DEF Live, Lost, Stopping, Over
  <2>2. \A i, p \in 1 .. NumUrbs : Behind(i, p) => Behind(i, p)'
    BY <1>1, <1>5, <2>1 DEF Behind
  <2>3. ShortTold' /\ EndedInTurn' /\ Noticed'
    BY <1>1, <1>2, <1>4, <1>5, <2>1 DEF Reasons, ShortTold, EndedInTurn, Noticed
  <2>4. Blamed'
    BY <1>1, <1>2, <1>4, <2>1, <2>2 DEF Reasons, Blamed
  <2> QED
    BY <2>3, <2>4 DEF Reasons
<1>8. FoundNone'
  BY <1>3 DEF FoundNone
<1>9. EarlyExcused'
  <2> SUFFICES ASSUME reapAction' = "completed_early", reapStatus' = "completed" PROVE Excused
    BY <1>5 DEF EarlyExcused
  <2>1. CASE reapAction = "normal"
    <3>1. /\ u.status \in {"ok", "remoteio", "cancelled"} /\ u.actual < UrbLen(current)
          /\ NormalStatus(u.status) = "completed"
      BY <1>1, <2>1 DEF NormalAction
    <3>2. Plain
      BY <2>1, <3>1 DEF NormalStatus, Plain
    <3> QED
      BY <1>1, <3>1, <3>2, ShortExcused
  <2>2. CASE reapAction # "normal"
    <3>1. reapStatus = "completed"
      BY <1>1, <2>2 DEF AbnormalStatus
    <3> QED
      BY <1>1, <1>2, <2>2, <3>1 DEF EarlyExcused
  <2> QED
    BY <2>1, <2>2
<1>10. Concluded'
  <2> SUFFICES ASSUME handler' \in {"unlist", "land", "callback"}, outcome' = "completed"
               PROVE  Full'
    BY <1>1, <1>3 DEF Concluded
  <2>1. Finishes(u) /\ reapAction # "cancelled" /\ reapStatus' = "completed"
    BY <1>2 DEF Retire, Back, Types
  <2>2. CASE reapAction = "normal"
    <3>1. NormalStatus(u.status) = "completed"
      BY <1>1, <2>1, <2>2
    <3>2. Plain /\ u.status \in {"ok", "remoteio", "cancelled"}
      BY <1>2, <2>2, <3>1 DEF NormalStatus, Plain, Urb
    <3>3. AllRetired
      BY <2>1, <3>2 DEF Finishes
    <3>4. CASE u.actual < UrbLen(current)
      BY <1>1, <1>5, <3>2, <3>4, ShortExcused DEF Full
    <3>5. CASE ~(u.actual < UrbLen(current))
      BY <1>1, <3>2, <3>3, <3>5, LastIsFull DEF Full
    <3> QED
      BY <3>4, <3>5
  <2>3. CASE reapAction # "normal"
    <3>1. AbnormalStatus = "completed"
      BY <1>1, <2>1, <2>3 DEF Finishes
    <3>2. reapAction = "completed_early" /\ reapStatus = "completed"
      BY <3>1 DEF AbnormalStatus
    <3> QED
      BY <1>2, <1>5, <3>2 DEF EarlyExcused, Full
  <2> QED
    BY <2>2, <2>3
<1> QED
  BY <1>6, <1>7, <1>8, <1>9, <1>10 DEF Report

\* Every step keeps the reasons.
LEMMA ReportStep ==
  ASSUME IInv, Order, Stream, Told, Report, Work
  PROVE  Report'
<1>1. CASE Adapter
  BY <1>1, AdapterReport
<1>2. CASE Submit \/ Caller
  BY <1>2, BeginReport, SubmitUrbReport, CancelReport, BlankReport DEF Caller
<1>3. CASE UserCancel
  BY <1>3, CancelReport
<1>4. CASE EventThread
  BY <1>4, ReapReport, RetireReport, PassOnReport, CancelReport DEF EventThread
<1>5. CASE Timer
  BY <1>5, ClockReport, CancelReport DEF Timer
<1> QED
  BY <1>1, <1>2, <1>3, <1>4, <1>5 DEF Work

\* So does a step in which nothing changes.
LEMMA ReportStutter ==
  ASSUME Report, UNCHANGED transfer
  PROVE  Report'
<1>1. UNCHANGED <<mode, reapCap, connected, urb, done, short, refusing, transferred, reapStatus,
                  reapAction, cancelling, user, timer, cursor, found, handler, current, outcome,
                  completed, status>>
  BY DEF transfer, device, history, tpriv, flags, event, result, data, kernel, locking
<1>2. Begun' /\ FoundNone' /\ (Stopping' <=> Stopping)
  BY <1>1, SamePlaces DEF Report, Begun, FoundNone, Stopping, Stopped, Plain, Unsent, Queued
<1> QED
  BY <1>1, <1>2, QuietReport

-----------------------------------------------------------------------------
(* The bounds of the buffer and of the counters.                           *)

\* usbfs writes, and the library moves data, inside the caller's buffer, and
\* only towards its front: what a later URB holds is not overwritten.
InBuffer ==
  /\ \A i \in 1 .. NumUrbs : Offset(i) + urb[i].actual <= Length
  /\ handler = "reaped" /\ urb[current].actual > 0 =>
       /\ transferred <= Offset(current)
       /\ transferred + urb[current].actual <= Length

\* What the loops count up to, and the values of the statuses.
Values ==
  /\ cursor <= NumUrbs + 1 /\ retired <= NumUrbs
  /\ timeout \in {"running", "handled", "timed_out"}
  /\ reapAction \in {"normal", "submit_failed", "cancelled", "completed_early", "error"}
  /\ {reapStatus, outcome, status} \subseteq
       {"completed", "error", "timed_out", "cancelled", "stall", "no_device", "overflow"}

\* Every step keeps them.
LEMMA ValuesStep ==
  ASSUME IInv, Values, [Work]_transfer
  PROVE  Values'
<1>1. Types /\ Locks /\ Phases /\ Counted /\ NumUrbs' = NumUrbs /\ NumUrbs \in Nat /\ NumUrbs >= 1
  BY ModeKept, Sizes DEF IInv, Control, Kept
<1>2. cursor \in Nat /\ retired \in Nat
  BY <1>1 DEF Types
<1>3. CASE Adapter
  <2>1. UNCHANGED <<cursor, retired, timeout, reapAction, reapStatus, outcome, status>>
    BY <1>3, AdapterKernel DEF Kernel, tpriv, flags, event, result, locking
  <2> QED
    BY <1>1, <2>1 DEF Values
<1>4. CASE Submit \/ SubmitUrb \/ SubmitDiscard
  BY <1>1, <1>2, <1>4 DEF Submit, SubmitUrb, SubmitDiscard, DiscardOne, Kill, Flies, Release, Values, Locks,
                          Types, tpriv, flags, event, result
<1>5. CASE SubmitUndo \/ Return
  BY <1>1, <1>2, <1>5 DEF SubmitUndo, Return, Blank, Values, event, locking
<1>6. ASSUME NEW e, SubmitFails(e) PROVE Values'
  <2>1. CASE cursor = 1
    BY <1>1, <1>2, <1>6, <2>1 DEF SubmitFails, Release, Values, flags, event, result
  <2>2. CASE cursor > 1
    <3>1. user = "submit" /\ retired = 0 /\ retired' = retired + NumUrbs - cursor + 1 /\ cursor <= NumUrbs
      BY <1>1, <1>6, <2>2 DEF SubmitFails, CountUnsent, Counted, Locks
    <3>2. retired' <= NumUrbs
      BY <1>1, <1>2, <2>2, <3>1
    <3> QED
      BY <1>1, <1>2, <1>6, <2>2, <3>1, <3>2 DEF SubmitFails, Flies, Release, Values, flags, event, result
  <2> QED
    BY <1>6, <2>1, <2>2 DEF SubmitFails
<1>7. CASE UserCancel
  BY <1>1, <1>2, <1>7 DEF UserCancel, CancelRefused, CancelBegins, CancelEnds, DiscardOne, Kill, Release, Values,
                          event, result, locking
<1>8. CASE Retire
  <2>1. retired + 1 <= NumUrbs
    <3>1. handler = "reaped" /\ itLock = "none"
      BY <1>8 DEF Retire
    <3>2. user \in {"wait", "cancel", "submit", "discard"} /\ ~completed /\ handler \notin Ending
      BY <1>1, <3>1 DEF Phases, Resting, Ending, Types
    <3>3. user # "submit"
      BY <1>1, <3>1 DEF Locks
    <3>4. retired + Cardinality(Out) + 1 = NumUrbs
      BY <1>1, <3>1, <3>2, <3>3 DEF Counted, Flag
    <3> QED
      BY <1>1, <1>2, <3>4, OutFinite
  <2>2. reapStatus' \in {"completed", "error", "timed_out", "cancelled", "stall", "no_device", "overflow"}
    BY <1>8 DEF Retire, NormalStatus, AbnormalStatus, Values
  <2>3. reapAction' \in {"normal", "submit_failed", "cancelled", "completed_early", "error"}
    BY <1>8 DEF Retire, NormalAction, Values
  <2> QED
    BY <1>1, <1>2, <1>8, <2>1, <2>2, <2>3 DEF Retire, Values, flags, result
<1>9. CASE Discard
  BY <1>1, <1>2, <1>9 DEF Discard, DiscardOne, Kill, Release, Values, tpriv, flags, result
<1>10. CASE Reap \/ PollError \/ Sweep \/ Seize
  BY <1>1, <1>10 DEF Reap, PollError, Sweep, Seize, Values, tpriv, flags, result, locking
<1>11. CASE Settle \/ Unlist \/ Land \/ Callback
  BY <1>1, <1>11 DEF Settle, Unlist, Land, Callback, Values, tpriv, flags, result, locking
<1>12. CASE TimeOut \/ TimerMark
  BY <1>1, <1>12 DEF TimeOut, TimerMark, Values, tpriv, event, result, locking
<1>13. CASE TimerCancel
  BY <1>1, <1>2, <1>13 DEF TimerCancel, CancelRefused, CancelBegins, CancelEnds, DiscardOne, Kill, Release, Values,
                           event, result, locking
<1>14. CASE UNCHANGED transfer
  BY <1>1, <1>14 DEF transfer, Values, tpriv, flags, event, result, locking
<1> QED
  BY <1>3, <1>4, <1>5, <1>6, <1>7, <1>8, <1>9, <1>10, <1>11, <1>12, <1>13, <1>14
  DEF Work, Caller, EventThread, Timer
-----------------------------------------------------------------------------
(* The handle is closed under the transfer.  Whoever works on it keeps all *)
(* of the above, and so does usbfs when it kills URBs.  Closing the handle *)
(* waits for all of them; what may follow is that the transfer returns as  *)
(* it would have done, or is dropped.                                      *)

\* A URB that is killed keeps what the parties rely on.
LEMMA KillInv ==
  ASSUME IInv, NEW i \in 1 .. NumUrbs, KillUrb(i)
  PROVE  IInv'
<1>1. Types /\ Control /\ Gone /\ Counted /\ Settled /\ Data
  BY DEF IInv, Kept
<1>2. /\ UNCHANGED <<mode, reapCap, connected, user, timer, handler, path, itLock, cursor, retired,
                     current, sent, completed, allocated, listed, inFlight>>
      /\ i \in Queued /\ i \in Nat /\ Kill(i)
  BY <1>1, Sizes DEF IInv, KillUrb, device, history, tpriv, flags, event, result, locking
<1>3. NumUrbs' = NumUrbs
  BY <1>2 DEF NumUrbs, BulkBufferLen
<1>4. Types' /\ Control'
  BY <1>1, <1>2, <1>3, KillTypes DEF Types, Control, Locks, Phases
<1>5. Data' /\ SameOut /\ (NoneOut => NoneOut') /\ connected
  BY <1>1, <1>2, <1>3, KillData DEF KillUrb
<1>6. Gone' /\ Settled'
  BY <1>1, <1>2, <1>5 DEF Gone, Settled
<1>7. Counted'
  BY <1>1, <1>2, <1>3, <1>5 DEF Counted, SameOut, Flag, Control, Phases
<1> QED
  BY <1>4, <1>5, <1>6, <1>7 DEF IInv, Kept

\* It keeps the bytes in order.
LEMMA KillBytes ==
  ASSUME IInv, Order, Stream, NEW i \in 1 .. NumUrbs, KillUrb(i)
  PROVE  Order' /\ Stream'
<1>1. /\ UNCHANGED <<mode, reapCap, connected, halted, sent, given, transferred, buffer, handler,
                     current, user, cursor, retired, reapAction>>
      /\ i \in Queued /\ Kill(i)
  BY DEF KillUrb, device, history, tpriv, event, data, locking
<1>2. Listed' /\ \A j \in 1 .. NumUrbs : MayEnd(j)
  BY <1>1, KillEnds
<1>3. user' = "submit" => \A j \in 1 .. NumUrbs : j < cursor' => j \notin Unsent
  BY <1>1 DEF Order, InTurn
<1>4. NumUrbs' = NumUrbs /\ (Live' => Live)
  BY <1>1, SamePlaces DEF Live
<1> QED
  BY <1>1, <1>2, <1>3, <1>4, Unmoved

\* A transfer is on flying_transfers from its submission to its completion.
Enrolled == handle # "closed" /\ user # "idle" /\ ~completed /\ handler \notin {"land", "callback"}
              => listed

\* Once the handle is closed there is only the caller, and the adapter.
Quiet == /\ handle = "closed" /\ timer = "idle" /\ handler = "poll" /\ itLock = "none"
         /\ ~listed /\ removed
Shut  == handle = "closed" => Quiet /\ user \in {"idle", "wait"}

Sound == /\ IInv /\ Told /\ Order /\ Stream /\ Values /\ Enrolled /\ Shut
         /\ handle \in {"open", "releasing", "closed"}

\* The transfer has been dropped.
WithinUrbs == \A i \in 1 .. NumUrbs : urb[i].actual <= UrbLen(i)
Dropped == /\ Quiet /\ user = "idle" /\ completed
           /\ Types /\ Values /\ WithinUrbs /\ transferred \in 0 .. Length

\* Nothing else is left to do once the handle is closed.
LEMMA QuietWork ==
  ASSUME Quiet, user \in {"idle", "wait"}, Work
  PROVE  Adapter \/ Return
<1>1. ~Submit /\ ~SubmitUrb /\ ~SubmitDiscard /\ ~SubmitUndo
      /\ \A e \in {"nodev", "remoteio", "nomem"} : ~SubmitFails(e)
  BY DEF Quiet, Submit, SubmitUrb, SubmitDiscard, SubmitUndo, SubmitFails
<1>2. ~UserCancel /\ ~Timer
  BY DEF Quiet, UserCancel, Timer, TimeOut, TimerCancel, TimerMark
<1>3. ~EventThread
  BY DEF Quiet, EventThread, Reap, PollError, Sweep, Drained, Seize, Retire, Discard, Settle, Unlist,
         Land, Callback
<1> QED
  BY <1>1, <1>2, <1>3 DEF Work, Caller

\* Who works on the transfer sees to it that it is on the list.
LEMMA EnrolledStep ==
  ASSUME IInv, Enrolled, Work, UNCHANGED handle
  PROVE  Enrolled'
<1>1. Types /\ Phases
  BY DEF IInv, Control
<1>2. CASE Adapter
  <2>1. Kernel
    BY <1>2, AdapterKernel
  <2> QED
    BY <2>1 DEF Kernel, flags, event, result, Enrolled
<1>3. CASE Submit \/ SubmitUrb \/ SubmitDiscard
  BY <1>3 DEF Submit, SubmitUrb, SubmitDiscard, Flies, event, result, Enrolled
<1>4. CASE SubmitUndo \/ Return
  BY <1>4 DEF SubmitUndo, Return, Enrolled
<1>5. ASSUME NEW e, SubmitFails(e) PROVE Enrolled'
  BY <1>5 DEF SubmitFails, Flies, event, result, Enrolled
<1>6. CASE UserCancel \/ Timer
  BY <1>6 DEF UserCancel, Timer, TimeOut, TimerCancel, TimerMark, event, result, Enrolled
<1>7. CASE Reap \/ PollError \/ Sweep \/ Seize \/ Retire \/ Discard \/ Settle
  BY <1>1, <1>7 DEF Reap, PollError, Sweep, Seize, Retire, Discard, Settle, flags, result, Enrolled,
                    Drained, Phases, Resting, Ending
<1>8. CASE Unlist \/ Land \/ Callback
  BY <1>8 DEF Unlist, Land, Callback, result, flags, Enrolled
<1> QED
  BY <1>2, <1>3, <1>4, <1>5, <1>6, <1>7, <1>8 DEF Work, Caller, EventThread

\* Work keeps everything.
LEMMA SoundWork ==
  ASSUME Sound, Work, UNCHANGED handle
  PROVE  Sound'
<1>1. IInv /\ Told /\ Order /\ Stream /\ Values /\ Enrolled /\ Shut
  BY DEF Sound
<1>2. IInv' /\ Told' /\ Order' /\ Stream' /\ Values' /\ Enrolled'
  BY <1>1, InvStep, ToldStep, BytesStep, ValuesStep, EnrolledStep
<1>3. Shut'
  <2> SUFFICES ASSUME handle = "closed" PROVE Quiet' /\ user' \in {"idle", "wait"}
    BY DEF Shut
  <2>1. Quiet /\ user \in {"idle", "wait"}
    BY <1>1 DEF Shut
  <2>2. CASE Adapter
    <3>1. Kernel
      BY <2>2, AdapterKernel
    <3> QED
      BY <2>1, <3>1 DEF Kernel, flags, event, locking, Quiet
  <2>3. CASE Return
    BY <2>1, <2>3 DEF Return, event, locking, Quiet
  <2> QED
    BY <2>1, <2>2, <2>3, QuietWork
<1> QED
  BY <1>2, <1>3 DEF Sound

\* Killing a URB, and beginning the release, keep everything.
LEMMA SoundRelease ==
  ASSUME Sound, BeginRelease \/ \E i \in 1 .. NumUrbs : KillUrb(i)
  PROVE  Sound'
<1>1. IInv /\ Told /\ Order /\ Stream /\ Values /\ Enrolled /\ Shut
  BY DEF Sound
<1>2. CASE BeginRelease
  <2>1. UNCHANGED transfer /\ handle = "open" /\ handle' = "releasing"
    BY <1>2 DEF BeginRelease
  <2>2. IInv' /\ Order' /\ Stream'
    BY <1>1, <2>1, Stutter, BytesStutter
  <2>3. Told'
    BY <1>1, <2>1 DEF transfer, history, tpriv, flags, event, result,
                      Told, Cancelling, Marked, Verdict, Truthful
  <2>4. Values' /\ Enrolled' /\ Shut'
    BY <1>1, <2>1, ValuesStep DEF Enrolled, Shut, transfer, flags, event, result
  <2> QED
    BY <2>1, <2>2, <2>3, <2>4 DEF Sound
<1>3. ASSUME NEW i \in 1 .. NumUrbs, KillUrb(i) PROVE Sound'
  <2>1. /\ UNCHANGED <<mode, history, tpriv, flags, event, result, locking, user, timer, handle>>
        /\ handle = "releasing"
    BY <1>3 DEF KillUrb, device
  <2>2. NumUrbs' = NumUrbs
    BY <2>1 DEF NumUrbs, BulkBufferLen
  <2>3. IInv' /\ Order' /\ Stream'
    BY <1>1, <1>3, KillInv, KillBytes
  <2>4. Told'
    BY <1>1, <2>1 DEF history, tpriv, flags, event, result, Told, Cancelling, Marked, Verdict, Truthful
  <2>5. Values'
    BY <1>1, <2>1, <2>2 DEF Values, tpriv, flags, event, result, locking
  <2>6. Enrolled' /\ Shut'
    BY <1>1, <2>1 DEF Enrolled, Shut, flags, event, result
  <2> QED
    BY <2>1, <2>3, <2>4, <2>5, <2>6 DEF Sound
<1> QED
  BY <1>2, <1>3

\* So does closing the handle: whoever is at work holds a lock that it needs.
LEMMA SoundClose ==
  ASSUME Sound, CloseHandle
  PROVE  Sound'
<1>1. /\ IInv /\ Told /\ Order /\ Stream /\ Values /\ Enrolled
      /\ Types /\ Locks /\ Phases /\ Kept
  BY DEF Sound, IInv, Control
<1>2. /\ UNCHANGED <<device, history, tpriv, inFlight, cancelling, timeout, handler, path, current,
                     outcome, result, data, kernel, locking, user, timer>>
      /\ handle = "releasing" /\ handle' = "closed" /\ handler = "poll" /\ timer = "idle"
      /\ ~listed' /\ removed' /\ (listed => itLock = "none") /\ user # "undo"
  BY DEF CloseHandle, FlyingFree
<1>3. UNCHANGED <<mode, reapCap, connected, halted, sent, given, urb, done, transferred, buffer,
                  retired, reapAction, reapStatus, allocated, completed, status, itLock, cursor,
                  cancelledBy>>
  BY <1>2 DEF device, history, tpriv, result, data, kernel, locking
<1>4. NumUrbs' = NumUrbs
  BY <1>3 DEF NumUrbs, BulkBufferLen
<1>5. IInv'
  <2>1. Types' /\ Control'
    BY <1>1, <1>2, <1>3, <1>4 DEF Types, Control, Locks, Phases
  <2>2. Data' /\ SameOut /\ Queued' = Queued /\ (NoneOut <=> NoneOut')
    BY <1>1, <1>3, <1>4, DataSame DEF Kept
  <2>3. Gone' /\ Counted' /\ Settled'
    BY <1>1, <1>2, <1>3, <1>4, <2>2 DEF Kept, Gone, Counted, Settled, SameOut, Flag
  <2> QED
    BY <2>1, <2>2, <2>3 DEF IInv, Kept
<1>6. Order' /\ Stream'
  BY <1>1, <1>2, <1>3, StillBytes DEF kernel
<1>7. Told' /\ Values' /\ Enrolled'
  BY <1>1, <1>2, <1>3, <1>4
  DEF Told, Cancelling, Marked, Verdict, Truthful, Values, Enrolled
<1>8. itLock = "none" /\ user \in {"idle", "wait"}
  <2>1. user \in {"submit", "discard", "cancel"} => listed
    BY <1>1, <1>2 DEF Enrolled, Phases
  <2>2. itLock \in {"none", "user"}
    BY <1>1, <1>2 DEF Types, Locks
  <2> QED
    BY <1>1, <1>2, <2>1, <2>2 DEF Types, Locks
<1>9. Shut'
  BY <1>2, <1>3, <1>8 DEF Shut, Quiet
<1> QED
  BY <1>2, <1>5, <1>6, <1>7, <1>9 DEF Sound

\* A transfer of a handle that was closed is dropped.
LEMMA SoundDrop ==
  ASSUME Sound, ReturnDropped
  PROVE  Dropped'
<1>1. /\ Types /\ Values /\ Quiet /\ transferred \in 0 .. Length
      /\ \A i \in 1 .. NumUrbs : urb[i].actual <= UrbLen(i)
  BY DEF Sound, IInv, Order, InTurn, Stream, Total, Shut, ReturnDropped
<1>2. /\ UNCHANGED <<mode, reapCap, timer, handler, path, itLock, cursor, retired, current, sent, urb,
                     done, listed, removed, handle, transferred, timeout, reapAction, reapStatus,
                     outcome>>
      /\ completed' /\ status' = "no_device" /\ user' = "idle"
  BY DEF ReturnDropped, device, history, tpriv, flags, event, data, kernel, locking
<1>3. NumUrbs' = NumUrbs /\ \A i \in 1 .. NumUrbs : UrbLen(i)' = UrbLen(i)
  BY <1>2 DEF NumUrbs, BulkBufferLen, UrbLen
<1>4. Types' /\ WithinUrbs'
  BY <1>1, <1>2, <1>3 DEF Types, WithinUrbs
<1>5. Values' /\ Quiet'
  BY <1>1, <1>2, <1>3 DEF Values, Quiet
<1> QED
  BY <1>1, <1>2, <1>4, <1>5 DEF Dropped

\* A packet fits into its URB, and the other URBs keep what they hold.
LEMMA FillsWithin ==
  ASSUME Types, WithinUrbs, Adapter
  PROVE  WithinUrbs' /\ \E k \in 0 .. Length : sent' = sent + k
<1>1. /\ \A j \in 1 .. NumUrbs : j \in DOMAIN urb /\ urb[j] \in Urb /\ UrbLen(j) \in Nat
      /\ sent \in Int
  BY UrbsTyped, Sizes DEF Types
<1>2. NumUrbs' = NumUrbs /\ \A j \in 1 .. NumUrbs : UrbLen(j)' = UrbLen(j)
  <2>1. mode' = mode
    BY AdapterKernel DEF Kernel
  <2> QED
    BY <2>1 DEF NumUrbs, UrbLen, BulkBufferLen
<1>3. ASSUME NEW i \in 1 .. NumUrbs, NEW u \in Urb, Ends(i, u)
      PROVE  \A j \in 1 .. NumUrbs : urb'[j].actual = IF j = i THEN u.actual ELSE urb[j].actual
  BY <1>1, <1>3 DEF Ends, Urb
<1>4. ASSUME NEW i \in 1 .. NumUrbs, NEW n \in 0 .. PacketSize, Receive(i, n)
      PROVE  WithinUrbs' /\ \E k \in 0 .. Length : sent' = sent + k
  <2> DEFINE room == UrbLen(i) - urb[i].actual
             u == [urb[i] EXCEPT !.from = IF urb[i].actual = 0 THEN sent ELSE @,
                                 !.actual = IF n > room THEN UrbLen(i) ELSE @ + n]
  <2>1. /\ n \in Nat /\ urb[i].actual \in Nat /\ urb[i].actual <= UrbLen(i)
        /\ UrbLen(i) \in Nat
    BY <1>1, TransferAssumption DEF Urb, WithinUrbs
  <2>2. u \in Urb /\ u.actual = IF n > room THEN UrbLen(i) ELSE urb[i].actual + n
    <3>1. (IF n > room THEN UrbLen(i) ELSE urb[i].actual + n) \in Nat
      BY <2>1
    <3>2. (IF urb[i].actual = 0 THEN sent ELSE urb[i].from) \in Int
      BY <1>1 DEF Urb
    <3> QED
      BY <1>1, <3>1, <3>2 DEF Urb
  <2>3. u.actual \in Nat /\ u.actual >= urb[i].actual /\ u.actual <= UrbLen(i)
    BY <2>1, <2>2
  <2>4. /\ sent' = sent + (u.actual - urb[i].actual)
        /\ \/ Ends(i, [u EXCEPT !.state = "done", !.status = "overflow"])
           \/ Ends(i, [u EXCEPT !.state = "done", !.status = "remoteio"])
           \/ Ends(i, [u EXCEPT !.state = "done", !.status = "ok"])
           \/ urb' = [urb EXCEPT ![i] = u]
    BY <1>4 DEF Receive
  <2> HIDE DEF u
  <2>5. ASSUME NEW s \in {"ok", "remoteio", "overflow"}
        PROVE  /\ [u EXCEPT !.state = "done", !.status = s] \in Urb
               /\ [u EXCEPT !.state = "done", !.status = s].actual = u.actual
    BY <2>2 DEF Urb
  <2>6. \A j \in 1 .. NumUrbs : urb'[j].actual = IF j = i THEN u.actual ELSE urb[j].actual
    <3>1. CASE urb' = [urb EXCEPT ![i] = u]
      BY <1>1, <3>1
    <3> QED
      BY <1>3, <2>4, <2>5, <3>1
  <2>7. WithinUrbs'
    BY <1>2, <2>3, <2>6 DEF WithinUrbs
  <2>8. Offset(i) \in Nat /\ Offset(i) + UrbLen(i) <= Length /\ Length \in Nat
    BY Places, TransferAssumption
  <2>9. u.actual - urb[i].actual \in 0 .. Length
    BY <2>1, <2>3, <2>8
  <2> QED
    BY <2>4, <2>7, <2>9
<1>5. ASSUME \A j \in 1 .. NumUrbs : urb'[j].actual = urb[j].actual, sent' = sent
      PROVE  WithinUrbs' /\ \E k \in 0 .. Length : sent' = sent + k
  <2>1. 0 \in 0 .. Length /\ sent' = sent + 0
    BY <1>1, <1>5, TransferAssumption
  <2> QED
    BY <1>2, <1>5, <2>1 DEF WithinUrbs
<1>6. ASSUME NEW i \in 1 .. NumUrbs, NEW s \in {"stall", "error"}, Fault(i, s)
      PROVE  WithinUrbs' /\ \E k \in 0 .. Length : sent' = sent + k
  <2>1. /\ [urb[i] EXCEPT !.state = "done", !.status = s] \in Urb
        /\ [urb[i] EXCEPT !.state = "done", !.status = s].actual = urb[i].actual
    BY <1>1 DEF Urb
  <2>2. Ends(i, [urb[i] EXCEPT !.state = "done", !.status = s]) /\ sent' = sent
    BY <1>6 DEF Fault
  <2> QED
    BY <1>3, <1>5, <2>1, <2>2
<1>7. CASE Unplug
  <2>1. sent' = sent /\ \A j \in 1 .. NumUrbs : urb'[j].actual = urb[j].actual
    BY <1>1, <1>7 DEF Unplug, Urb
  <2> QED
    BY <1>5, <2>1
<1> QED
  BY <1>4, <1>6, <1>7 DEF Adapter

\* Once a transfer is dropped there is only the adapter.
LEMMA DroppedStep ==
  ASSUME Dropped, [Next]_vars
  PROVE  /\ Dropped' /\ UNCHANGED <<user, given, handle, reapCap, completed>>
         /\ \E k \in 0 .. Length : sent' = sent + k
<1>1. /\ Quiet /\ user = "idle" /\ completed /\ Types /\ Values /\ WithinUrbs
      /\ transferred \in 0 .. Length
  BY DEF Dropped
<1>2. CASE Adapter /\ UNCHANGED handle
  <2>1. Kernel
    BY <1>2, AdapterKernel
  <2>2. UNCHANGED <<mode, reapCap, user, timer, handler, path, itLock, cursor, retired, current,
                    listed, removed, completed, transferred, timeout, reapAction, reapStatus,
                    outcome, status, given, handle>>
    BY <1>2, <2>1 DEF Kernel, tpriv, flags, event, result, data, locking
  <2>3. NumUrbs' = NumUrbs
    BY <2>2 DEF NumUrbs, BulkBufferLen
  <2>4. Types' /\ Values' /\ Quiet'
    BY <1>1, <1>2, <2>2, <2>3, AdapterTypes DEF Types, Values, Quiet
  <2> QED
    BY <1>1, <1>2, <2>2, <2>4, FillsWithin DEF Dropped
<1>3. CASE UNCHANGED vars
  <2>1. UNCHANGED transfer /\ UNCHANGED handle
    BY <1>3 DEF vars
  <2>2. UNCHANGED <<mode, reapCap, user, timer, handler, path, itLock, cursor, retired, current,
                    sent, urb, done, listed, removed, completed, transferred, timeout, reapAction,
                    reapStatus, outcome, status, given, handle>>
    BY <2>1 DEF transfer, device, history, tpriv, flags, event, result, data, kernel, locking
  <2>3. NumUrbs' = NumUrbs /\ \A j \in 1 .. NumUrbs : UrbLen(j)' = UrbLen(j)
    BY <2>2 DEF NumUrbs, BulkBufferLen, UrbLen
  <2>4. Types' /\ Values' /\ Quiet' /\ WithinUrbs'
    BY <1>1, <2>2, <2>3 DEF Types, Values, Quiet, WithinUrbs
  <2>5. 0 \in 0 .. Length /\ sent' = sent + 0
    BY <1>1, <2>2, TransferAssumption DEF Types
  <2> QED
    BY <1>1, <2>2, <2>4, <2>5 DEF Dropped
<1>4. ~(Work /\ ~Adapter) /\ ~Closing /\ ~ReturnDropped
  <2>1. ~Return
    BY <1>1 DEF Return
  <2>2. ~Closing
    BY <1>1 DEF Closing, BeginRelease, KillUrb, CloseHandle, Quiet
  <2> QED
    BY <1>1, <2>1, <2>2, QuietWork DEF ReturnDropped
<1> QED
  BY <1>2, <1>3, <1>4 DEF Next

-----------------------------------------------------------------------------
(* The specification.                                                      *)

\* The first state.
LEMMA InitSound == Init => Sound
<1> SUFFICES ASSUME Init PROVE Sound
  OBVIOUS
<1>1. IInv /\ Order /\ Stream
  BY InitInv, InitBytes
<1>2. NumUrbs \in Nat
  BY <1>1, Sizes DEF IInv
<1>3. Told /\ Values /\ Enrolled /\ Shut
  BY <1>2 DEF Init, Told, Cancelling, Marked, Verdict, Values, Enrolled, Shut
<1> QED
  BY <1>1, <1>3 DEF Init, Sound

\* A step in which nothing changes.
LEMMA SoundStutter ==
  ASSUME Sound, UNCHANGED vars
  PROVE  Sound'
<1>1. /\ IInv /\ Told /\ Order /\ Stream /\ Values /\ Enrolled /\ Shut
      /\ UNCHANGED transfer /\ UNCHANGED handle
  BY DEF Sound, vars
<1>2. IInv' /\ Order' /\ Stream' /\ Values'
  BY <1>1, Stutter, BytesStutter, ValuesStep
<1>3. Told'
  BY <1>1 DEF transfer, history, tpriv, flags, event, result,
              Told, Cancelling, Marked, Verdict, Truthful
<1>4. Enrolled' /\ Shut'
  BY <1>1 DEF Enrolled, Shut, Quiet, transfer, flags, event, result, locking
<1> QED
  BY <1>1, <1>2, <1>3, <1>4 DEF Sound

\* The invariant holds in every state of every behaviour, until a transfer is
\* dropped because its handle was closed under it.
THEOREM Inductive == Spec => [](Sound \/ Dropped)
<1>1. ASSUME Sound \/ Dropped, [Next]_vars PROVE (Sound \/ Dropped)'
  <2>1. CASE Dropped
    BY <1>1, <2>1, DroppedStep
  <2>2. CASE Sound
    <3>1. CASE UNCHANGED vars
      BY <2>2, <3>1, SoundStutter
    <3>2. CASE Work /\ UNCHANGED handle
      BY <2>2, <3>2, SoundWork
    <3>3. CASE Closing
      BY <2>2, <3>3, SoundRelease, SoundClose DEF Closing
    <3>4. CASE ReturnDropped
      BY <2>2, <3>4, SoundDrop
    <3> QED
      BY <1>1, <3>1, <3>2, <3>3, <3>4 DEF Next
  <2> QED
    BY <1>1, <2>1, <2>2
<1> QED
  BY InitSound, <1>1, PTL DEF Spec

\* When the caller is told that its transfer is over, which lets it free the
\* transfer and its buffer, no thread is still at work on it, and the kernel has
\* no URB of it left, however many it was split into; or the handle is closed,
\* whoever closed it and wherever the others were, and no thread polls for the
\* URBs that are left (do_sync_bulk_transfer frees at once; do_close).
THEOREM NothingFreedTooEarly == Spec => []NoUseAfterFree
<1>1. Sound => NoUseAfterFree
  <2> SUFFICES ASSUME Sound, completed \/ user = "idle" PROVE
        /\ timer = "idle" /\ ~listed /\ itLock # "handler"
        /\ handler \in {"poll", "drain", "sweep"}
        /\ Queued = {} /\ (connected \/ reapCap => done = <<>>)
    BY DEF NoUseAfterFree
  <2>1. Types /\ Locks /\ Phases /\ Settled
    BY DEF Sound, IInv, Control, Kept
  <2>2. NoneOut
    BY <2>1 DEF Settled
  <2>3. handler \in Resting /\ ~listed
    BY <2>1 DEF Phases
  <2> QED
    BY <2>1, <2>2, <2>3 DEF NoneOut, Live, Phases, Locks, Types, Resting
<1>2. Dropped => NoUseAfterFree
  BY DEF Dropped, Quiet, NoUseAfterFree
<1> QED
  BY <1>1, <1>2, Inductive, PTL

\* "Timed out" is what the caller is told when the cancellation by the clock
\* found the transfer under way, and only then, whatever the order of the last
\* URB, the mark and a cancellation by the caller; the loss of the adapter and
\* a bus error go before it (usbi_handle_transfer_cancellation, handle_timeouts).
THEOREM TimeOutTold == Spec => []TimeOutIsTold
<1>1. Sound \/ Dropped => TimeOutIsTold
  BY DEF Sound, Dropped, Told, Verdict, Truthful, TimeOutIsTold
<1> QED
  BY <1>1, Inductive, PTL

\* The caller gets the bytes the adapter sent, from where the last transfer
\* left off, in order and without a hole, whatever URBs came back short and
\* were moved, and wherever the transfer was cut short (linux_usbfs.c,
\* handle_bulk_completion).
THEOREM BytesGivenInOrder == Spec => []BytesInOrder
<1>1. Sound \/ Dropped => BytesInOrder
  BY DEF Sound, Dropped, Stream, Delivered, BytesInOrder
<1> QED
  BY <1>1, Inductive, PTL

\* Closing is a step of BulkTransfer, or none.
LEMMA BulkClosing ==
  ASSUME Sound, Closing \/ ReturnDropped
  PROVE  Bulk!Next \/ UNCHANGED Bulk!vars
<1>1. CASE BeginRelease \/ \E i \in 1 .. NumUrbs : KillUrb(i)
  BY <1>1 DEF BeginRelease, KillUrb, transfer, device, history, Bulk!vars
<1>2. CASE CloseHandle
  BY <1>2, Zenon DEF CloseHandle, device, history, Bulk!Next, Bulk!Lose, Bulk!vars
<1>3. CASE ReturnDropped
  <2>1. given \in Int /\ given <= sent
    BY DEF Sound, IInv, Types, Stream, Total
  <2>2. /\ UNCHANGED <<given, sent, connected, reapCap, handle>>
        /\ user = "wait" /\ user' = "idle" /\ handle = "closed"
    BY <1>3 DEF ReturnDropped, device, history
  <2>3. 0 \in 0 .. Length /\ given + 0 = given
    BY <2>1, TransferAssumption
  <2>4. Bulk!End(0)
    BY <2>1, <2>2, <2>3 DEF Bulk!End
  <2> QED
    BY <2>3, <2>4 DEF Bulk!Next
<1> QED
  BY <1>1, <1>2, <1>3 DEF Closing

\* Whatever URBs a transfer is split into and however it ends, the caller sees
\* the bytes of the adapter cut into transfers: each ends once, with all that
\* was taken since the one before, unless the handle is closed, or the adapter
\* has gone and usbfs gives nothing back (libusb_bulk_transfer; linux_usbfs.c).
THEOREM BulkSafety == Spec => BulkSpec
<1>1. Init => Bulk!Init
  BY DEF Init, Bulk!Init
<1>2. ASSUME Sound \/ Dropped, [Next]_vars PROVE [Bulk!Next]_(Bulk!vars)
  <2>1. CASE Dropped
    <3>1. UNCHANGED <<user, given, handle>> /\ handle = "closed"
      BY <1>2, <2>1, DroppedStep DEF Dropped, Quiet
    <3>2. PICK k \in 0 .. Length : sent' = sent + k
      BY <1>2, <2>1, DroppedStep
    <3>3. Bulk!Take(k)
      BY <3>1, <3>2 DEF Bulk!Take
    <3> QED
      BY <3>2, <3>3 DEF Bulk!Next
  <2>2. CASE Sound /\ Work /\ UNCHANGED handle
    BY <2>2, BulkStep DEF Sound
  <2>3. CASE Sound /\ (Closing \/ ReturnDropped)
    BY <2>3, BulkClosing
  <2>4. CASE UNCHANGED vars
    BY <2>4 DEF vars, transfer, device, history, Bulk!vars
  <2> QED
    BY <1>2, <2>1, <2>2, <2>3, <2>4 DEF Next
<1> QED
  BY <1>1, <1>2, Inductive, PTL DEF Spec, BulkSpec, Bulk!Spec

\* A transfer that is reported complete is full, or the adapter ended it with a
\* short packet, whatever became of its URBs and whoever tried to cancel it, as
\* long as the handle stays open and but for the two cases named with
\* CompleteIsComplete (linux_usbfs.c, handle_bulk_completion and discard_urbs).
THEOREM CompleteIsFull == Spec => []CompleteIsComplete
<1> DEFINE R == handle = "open" => Report
<1>1. Init => R
  <2> SUFFICES ASSUME Init PROVE Report
    OBVIOUS
  <2>1. \A i \in 1 .. NumUrbs : urb[i] = Fresh
    <3>1. 1 .. NumUrbs \subseteq 1 .. MaxUrbs
      BY InitInv, Sizes DEF IInv
    <3> QED
      BY <3>1 DEF Init
  <2>2. Plain /\ ~Stopped /\ user = "idle" /\ handler = "poll" /\ ~completed
    BY DEF Init, Plain, Stopped
  <2>3. \A i \in 1 .. NumUrbs : /\ urb[i].state = "unsent" /\ urb[i].status = "ok"
                                /\ ~Over(i) /\ ~Through(i) /\ i \notin Queued
    BY <2>1 DEF Over, Through, Fresh, Queued
  <2> QED
    BY <2>2, <2>3 DEF Report, Begun, Reasons, ShortTold, Blamed, EndedInTurn, FoundNone, Noticed,
                EarlyExcused, Concluded, Plain
<1>2. ASSUME Sound \/ Dropped, R, [Next]_vars PROVE R'
  <2> SUFFICES ASSUME handle' = "open" PROVE Report'
    OBVIOUS
  <2>1. CASE Work /\ UNCHANGED handle
    <3>1. Sound
      BY <1>2, <2>1 DEF Dropped, Quiet
    <3> QED
      BY <1>2, <2>1, <3>1, ReportStep DEF Sound
  <2>2. CASE UNCHANGED vars
    BY <1>2, <2>2, ReportStutter DEF vars
  <2>3. ~Closing /\ ~ReturnDropped
    BY DEF Closing, BeginRelease, KillUrb, CloseHandle, ReturnDropped
  <2> QED
    BY <1>2, <2>1, <2>2, <2>3 DEF Next
<1>3. R => CompleteIsComplete
  BY DEF Report, Concluded, Full, Excused, Refused, Lost, CompleteIsComplete
<1> HIDE DEF R
<1> QED
  BY <1>1, <1>2, <1>3, Inductive, PTL DEF Spec

\* Every variable has its type; in particular, no URB holds more than its part
\* of the buffer and no more is counted than the buffer is long.
THEOREM TypeCorrect == Spec => []TypeOK
<1>1. Sound => Types /\ Values /\ WithinUrbs /\ transferred \in 0 .. Length
  BY DEF Sound, IInv, Order, InTurn, Stream, Total, WithinUrbs
<1>2. Dropped => Types /\ Values /\ WithinUrbs /\ transferred \in 0 .. Length /\ handle = "closed"
  BY DEF Dropped, Quiet
<1>3. Sound \/ Dropped => TypeOK
  <2> SUFFICES ASSUME Sound \/ Dropped PROVE TypeOK
    OBVIOUS
  <2>1. /\ Types /\ Values /\ WithinUrbs /\ transferred \in 0 .. Length /\ NumUrbs \in Nat
        /\ handle \in {"open", "releasing", "closed"}
    BY <1>1, <1>2, Sizes DEF Sound
  <2>2. cursor \in 0 .. NumUrbs + 1 /\ retired \in 0 .. NumUrbs
    BY <2>1 DEF Types, Values
  <2>3. \A i \in DOMAIN urb : urb[i].state \in {"unsent", "queued", "done", "reaped"}
    BY <2>1 DEF Types, Urb
  <2>4. \A i \in 1 .. NumUrbs : urb[i].actual \in 0 .. UrbLen(i)
    BY <2>1, UrbsTyped, Sizes DEF Urb, WithinUrbs
  <2> QED
    BY <2>1, <2>2, <2>3, <2>4 DEF Types, Values, TypeOK, Resting, Ending
<1> QED
  BY <1>3, Inductive, PTL

\* Nothing is written outside the caller's buffer, neither by usbfs when a URB is
\* reaped nor by the memmove of handle_bulk_completion, which closes holes
\* without touching what URBs still to be handled hold.
THEOREM StaysInBuffer == Spec => []InBuffer
<1>1. Sound => InBuffer
  <2> SUFFICES ASSUME Sound PROVE InBuffer
    OBVIOUS
  <2>1. /\ IInv /\ Order /\ Stream /\ Types /\ Phases /\ InTurn /\ Placed /\ NumUrbs \in Nat
    BY Sizes DEF Sound, IInv, Control, Order, Stream
  <2>2. ASSUME NEW i \in 1 .. NumUrbs PROVE Offset(i) + urb[i].actual <= Length
    BY <2>1, UrbsTyped, Places, TransferAssumption DEF Urb, InTurn
  <2>3. ASSUME handler = "reaped", urb[current].actual > 0
        PROVE  /\ transferred <= Offset(current)
               /\ transferred + urb[current].actual <= Length
    <3>1. current \in 1 .. NumUrbs /\ current \in Loaded
      BY <2>1, <2>3 DEF Phases, Loaded
    <3>2. /\ urb[current].from = given + transferred /\ given \in Int /\ transferred \in Nat
          /\ transferred + urb[current].actual <= Length
      BY <2>1, <2>3, <3>1, HandledNext
    <3>3. urb[current].from <= given + Offset(current) /\ Offset(current) \in Nat
      BY <2>1, <3>1, Places DEF Placed
    <3> QED
      BY <3>2, <3>3
  <2> QED
    BY <2>2, <2>3 DEF InBuffer
<1>2. Dropped => InBuffer
  <2> SUFFICES ASSUME Dropped, NEW i \in 1 .. NumUrbs PROVE Offset(i) + urb[i].actual <= Length
    BY DEF Dropped, Quiet, InBuffer
  <2>1. Types /\ WithinUrbs
    BY DEF Dropped
  <2> QED
    BY <2>1, UrbsTyped, Places, TransferAssumption DEF Urb, WithinUrbs
<1> QED
  BY <1>1, <1>2, Inductive, PTL
=============================================================================
