---------------------------- MODULE MCMonitorApp ----------------------------
(***************************************************************************)
(* TLC instances of MonitorApp: two descriptors, so that a second start    *)
(* can overlap the first, at most one permission request in flight, and    *)
(* in Happens what this instance goes through.  Descriptors are            *)
(* interchangeable, and no liveness is checked: Symmetry is sound.         *)
(***************************************************************************)
EXTENDS MonitorApp, TLC

Symmetry == Permutations(Session)
=============================================================================
