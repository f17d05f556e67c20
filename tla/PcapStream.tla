----------------------------- MODULE PcapStream -----------------------------
(***************************************************************************)
(* The data path of one session, from the bulk-IN endpoint to the TCP      *)
(* client: pcap_server_init, pcap_accept_client, pcap_send_frame and       *)
(* mt7921_rx_loop of mt7921_shim.cpp, up to mt7921_close.                  *)
(*                                                                         *)
(* Frames are numbered as the adapter delivers them.  A record (pcap       *)
(* record header, radiotap header, frame) is Parts units long: writev on a *)
(* blocking socket copies it into the socket buffer as room appears, so a  *)
(* client may have read half of it.  Unit <<0, 1>> is the global header.   *)
(***************************************************************************)
EXTENDS Naturals, Sequences

CONSTANTS Client, Null,
          MaxFrames,   \* bound on the frames one behaviour captures
          Parts,       \* units in a record
          BufSize      \* units the socket buffer holds

ASSUME PcapAssumption ==
    /\ Null \notin Client
    /\ MaxFrames \in Nat
    /\ Parts \in Nat \ {0}
    /\ BufSize \in Nat \ {0}

VARIABLES
    pc,          \* where the driver thread is in mt7921_rx_loop
    running,     \* dev->running
    client,      \* dev->client_sock, Null for -1
    frames,      \* frames read from the adapter and handed on
    part,        \* units of the current record that are written
    tcp,         \* each client: "away", "queued", "served", "left", "closed"
    queue,       \* connections the kernel completed and nobody accepted
    buf,         \* units in the socket buffer of the accepted connection
    got          \* units each client has read

vars == <<pc, running, client, frames, part, tcp, queue, buf, got>>

Unit == ({0} \X {1}) \cup ((1..MaxFrames) \X (1..Parts))

TypeOK ==
    /\ pc \in {"listen", "accept", "header", "loop", "read", "write", "close",
               "over"}
    /\ running \in BOOLEAN
    /\ client \in Client \cup {Null}
    /\ frames \in 0..MaxFrames
    /\ part \in 0..Parts
    /\ tcp \in [Client -> {"away", "queued", "served", "left", "closed"}]
    /\ queue \in Seq(Client)
    /\ buf \in Seq(Unit) /\ Len(buf) <= BufSize
    /\ got \in [Client -> Seq(Unit)]

Init ==
    /\ pc = "listen"
    /\ running = TRUE
    /\ client = Null
    /\ frames = 0
    /\ part = 0
    /\ tcp = [c \in Client |-> "away"]
    /\ queue = <<>>
    /\ buf = <<>>
    /\ got = [c \in Client |-> <<>>]

-----------------------------------------------------------------------------
(* The driver thread.                                                      *)

\* The port may be taken.
ServerInit ==
    /\ pc = "listen"
    /\ pc' \in {"accept", "close"}
    /\ UNCHANGED <<running, client, frames, part, tcp, queue, buf, got>>

\* The connection that has waited longest; its client may have left.
AcceptClient ==
    /\ pc = "accept"
    /\ queue # <<>>
    /\ client' = Head(queue)
    /\ queue' = Tail(queue)
    /\ tcp' = [tcp EXCEPT ![Head(queue)] = IF @ = "queued" THEN "served" ELSE @]
    /\ pc' = "header"
    /\ UNCHANGED <<running, frames, part, buf, got>>

AcceptFails ==
    /\ pc = "accept"
    /\ pc' = "close"
    /\ UNCHANGED <<running, client, frames, part, tcp, queue, buf, got>>

\* Variant: the client's first bytes are a record.
HeaderNone == <<>>
Header == << <<0, 1>> >>

SendHeader ==
    /\ pc = "header"
    /\ buf' = IF tcp[client] = "served" THEN Header ELSE buf
    /\ pc' \in {"loop", "close"}    \* there may be no memory for rxbuf
    /\ UNCHANGED <<running, client, frames, part, tcp, queue, got>>

LoopTest ==
    /\ pc = "loop"
    /\ pc' = IF running THEN "read" ELSE "close"
    /\ UNCHANGED <<running, client, frames, part, tcp, queue, buf, got>>

\* usb_bulk_in times out or fails, or what came has no payload behind its
\* 16-byte descriptor.
ReadNothing ==
    /\ pc = "read"
    /\ pc' = "loop"
    /\ UNCHANGED <<running, client, frames, part, tcp, queue, buf, got>>

ReadFrame ==
    /\ pc = "read"
    /\ frames < MaxFrames
    /\ frames' = frames + 1
    /\ part' = 0
    /\ pc' = "write"
    /\ UNCHANGED <<running, client, tcp, queue, buf, got>>

Room == Len(buf) < BufSize

RecordEnds == part + 1 = Parts

\* Variant: a socket that does not block, whose writev gives up.
WriteErrorOrFull == tcp[client] # "served" \/ ~Room
WriteError == tcp[client] # "served"

\* writev, unit by unit: it waits for room in the buffer ...
WritePart ==
    /\ pc = "write"
    /\ tcp[client] = "served"
    /\ Room
    /\ buf' = Append(buf, <<frames, part + 1>>)
    /\ part' = part + 1
    /\ pc' = IF RecordEnds THEN "loop" ELSE "write"
    /\ UNCHANGED <<running, client, frames, tcp, queue, got>>

\* ... and fails when the client has left, which nobody looks at.
WriteFails ==
    /\ pc = "write"
    /\ WriteError
    /\ pc' = "loop"
    /\ UNCHANGED <<running, client, frames, part, tcp, queue, buf, got>>

\* mt7921_close: the kernel still delivers what is in the buffer of the
\* accepted connection, and resets those that were never accepted.
Close ==
    /\ pc = "close"
    /\ pc' = "over"
    /\ running' = FALSE
    /\ tcp' = [c \in Client |-> IF tcp[c] = "queued" THEN "closed" ELSE tcp[c]]
    /\ queue' = <<>>
    /\ UNCHANGED <<client, frames, part, buf, got>>

\* stopDriver, on another thread.
Stop ==
    /\ running
    /\ running' = FALSE
    /\ UNCHANGED <<pc, client, frames, part, tcp, queue, buf, got>>

-----------------------------------------------------------------------------
(* The clients and the kernel between them and the driver.                 *)

\* The kernel completes a connection to a listening port by itself.
Connect(c) ==
    /\ tcp[c] = "away"
    /\ pc \notin {"listen", "over"}
    /\ tcp' = [tcp EXCEPT ![c] = "queued"]
    /\ queue' = Append(queue, c)
    /\ UNCHANGED <<pc, running, client, frames, part, buf, got>>

Read(c) ==
    /\ client = c
    /\ tcp[c] = "served"
    /\ buf # <<>>
    /\ got' = [got EXCEPT ![c] = Append(@, Head(buf))]
    /\ buf' = Tail(buf)
    /\ UNCHANGED <<pc, running, client, frames, part, tcp, queue>>

Leave(c) ==
    /\ tcp[c] \in {"queued", "served"}
    /\ tcp' = [tcp EXCEPT ![c] = "left"]
    /\ buf' = IF client = c THEN <<>> ELSE buf
    /\ UNCHANGED <<pc, running, client, frames, part, queue, got>>

-----------------------------------------------------------------------------
DriverStep ==
    \/ ServerInit \/ AcceptClient \/ AcceptFails \/ SendHeader \/ LoopTest
    \/ ReadNothing \/ ReadFrame \/ WritePart \/ WriteFails \/ Close

Next ==
    \/ DriverStep
    \/ Stop
    \/ \E c \in Client : Connect(c) \/ Read(c) \/ Leave(c)

Spec == Init /\ [][Next]_vars

\* The driver thread is scheduled and a client that stays keeps reading.
FairSpec == Spec /\ WF_vars(DriverStep) /\ \A c \in Client : WF_vars(Read(c))

-----------------------------------------------------------------------------
\* The units of the header and of the first n records.
Stream(n) ==
    [i \in 1..(1 + n * Parts) |->
        IF i = 1 THEN <<0, 1>>
        ELSE <<1 + ((i - 2) \div Parts), 1 + ((i - 2) % Parts)>>]

\* How much of Stream(frames) the driver has written.
Written ==
    CASE client = Null \/ pc = "header" -> 0
      [] pc = "write" -> 1 + (frames - 1) * Parts + part
      [] OTHER -> 1 + frames * Parts

\* What the accepted client has read and what is on its way to it make up,
\* with nothing missing, doubled or torn, the header and the frames so far.
NothingLost ==
    client # Null /\ tcp[client] = "served" =>
        got[client] \o buf = SubSeq(Stream(frames), 1, Written)

\* A client that left had, until then, a prefix of that stream, and a client
\* that was not accepted has nothing.
OnlyPrefixes ==
    \A c \in Client :
        IF c = client
        THEN /\ Len(got[c]) <= Written
             /\ got[c] = SubSeq(Stream(frames), 1, Len(got[c]))
        ELSE got[c] = <<>>

\* The items a client has in full.
WholeItems(c) ==
    IF got[c] = <<>> THEN 0 ELSE 1 + ((Len(got[c]) - 1) \div Parts)

\* The session keeps the promise of CaptureFeed: beyond what the client has
\* in full there are at most the items of a full buffer and the one being
\* written.
Feed == INSTANCE CaptureFeed WITH
    viewer <- client,
    present <- client # Null /\ tcp[client] = "served",
    captured <- frames,
    delivered <- IF client = Null THEN 0 ELSE WholeItems(client),
    MaxAhead <- BufSize + 1

FeedSpec == Feed!Spec

=============================================================================
