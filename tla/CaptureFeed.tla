---------------------------- MODULE CaptureFeed -----------------------------
(***************************************************************************)
(* What a capture session promises the program at the other end of port    *)
(* 37008 (the comment at the head of mt7921_shim.cpp): one viewer, which   *)
(* sees the pcap header, then every captured frame, once and in the order  *)
(* of capture.  How far the capture runs ahead of the viewer is bounded:   *)
(* a viewer that does not keep up holds the capture back instead of losing *)
(* frames.                                                                 *)
(***************************************************************************)
EXTENDS Naturals

CONSTANTS Client, Null,
          MaxFrames,   \* bound on the frames one behaviour captures
          MaxAhead     \* items captured and not yet delivered

VARIABLES viewer,      \* the one client served, Null before
          present,     \* it is still there
          captured,    \* frames captured so far
          delivered    \* items it has in full: the header, then frames

vars == <<viewer, present, captured, delivered>>

Init == viewer = Null /\ present = FALSE /\ captured = 0 /\ delivered = 0

Attach(c) ==
    /\ viewer = Null
    /\ viewer' = c
    /\ present' \in BOOLEAN      \* it may have gone while it waited
    /\ UNCHANGED <<captured, delivered>>

Leave ==
    /\ present
    /\ present' = FALSE
    /\ UNCHANGED <<viewer, captured, delivered>>

Capture ==
    /\ viewer # Null
    /\ captured < MaxFrames
    /\ present => captured + 1 - delivered < MaxAhead
    /\ captured' = captured + 1
    /\ UNCHANGED <<viewer, present, delivered>>

Deliver ==
    /\ present
    /\ delivered < captured + 1
    /\ delivered' = delivered + 1
    /\ UNCHANGED <<viewer, present, captured>>

Next == (\E c \in Client : Attach(c)) \/ Leave \/ Capture \/ Deliver

\* A viewer that stays gets what has been captured.
Spec == Init /\ [][Next]_vars /\ WF_vars(Deliver)
=============================================================================
