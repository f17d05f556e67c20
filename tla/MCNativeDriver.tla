--------------------------- MODULE MCNativeDriver ---------------------------
(***************************************************************************)
(* TLC instances of NativeDriver.  Two sessions and a thread that calls    *)
(* stopDriver for StopEndsReception; three sessions for the exclusion, so  *)
(* that one thread can take another's session apart while a third has the  *)
(* port.  That instance leaves stops, unplugging and clients that stall    *)
(* out: they make no thread begin to receive.  Sessions are                *)
(* interchangeable, no action and no property names one: Symmetry is used  *)
(* where no liveness is checked.                                           *)
(***************************************************************************)
EXTENDS NativeDriver, TLC

Symmetry == Permutations(Session)
=============================================================================
