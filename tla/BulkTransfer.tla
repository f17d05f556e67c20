---------------------------- MODULE BulkTransfer ----------------------------
(***************************************************************************)
(* What libusb_bulk_transfer promises the driver that reads from a bulk-IN *)
(* endpoint: the bytes the adapter sends are cut into transfers.  A        *)
(* transfer that was begun ends once, with everything that was taken from  *)
(* the adapter since the one before.                                       *)
(***************************************************************************)
EXTENDS Naturals

CONSTANT Length   \* bytes asked for by one transfer

VARIABLES
  pending,   \* a transfer is in progress
  taken,     \* bytes taken from the adapter so far
  given,     \* bytes handed to the caller so far
  losing     \* what was taken may be lost: the device is closed, or gone for good

vars == <<pending, taken, given, losing>>

Init == /\ pending = FALSE
        /\ taken = 0 /\ given = 0
        /\ losing = FALSE

Begin == /\ ~pending /\ pending' = TRUE
         /\ UNCHANGED <<taken, given, losing>>

\* The adapter sends n bytes.
Take(n) == /\ pending \/ losing
           /\ taken' = taken + n
           /\ UNCHANGED <<pending, given, losing>>

Lose == /\ ~losing /\ losing' = TRUE
        /\ UNCHANGED <<pending, taken, given>>

\* The transfer ends and brings n bytes.
End(n) == /\ pending /\ pending' = FALSE
          /\ given' = given + n
          /\ given' <= taken
          /\ losing \/ given' = taken
          /\ UNCHANGED <<taken, losing>>

Next == Begin \/ Lose \/ \E n \in 0 .. Length : Take(n) \/ End(n)

Spec == Init /\ [][Next]_vars
=============================================================================
