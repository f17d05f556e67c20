-------------------------- MODULE PcapStreamProofs --------------------------
(***************************************************************************)
(* Proofs about PcapStream, for any clients, number of frames, record and  *)
(* buffer size: what the one accepted client has read is the header and    *)
(* the frames in order, with nothing missing, doubled or torn.             *)
(*                                                                         *)
(* The invariant follows the bytes: what the client has read and what the  *)
(* socket buffer still holds is a front of the capture (Front), as long as *)
(* what the driver has written while the client is there.  The session     *)
(* also implements CaptureFeed: each of its steps is a step of a feed of   *)
(* whole records to one reader, or changes nothing that reader could see.  *)
(***************************************************************************)
EXTENDS PcapStream, SequenceTheorems, TLAPS

\* The i-th unit of a capture, and the sequences that begin one.
Item(i) ==
    IF i = 1 THEN <<0, 1>>
    ELSE <<1 + ((i - 2) \div Parts), 1 + ((i - 2) % Parts)>>
IsFront(s) == \A i \in 1..Len(s) : s[i] = Item(i)

Before == {"listen", "accept", "header"}

\* Where the driver is tells whether it has a client and frames.
Places ==
    /\ pc \in {"listen", "accept"} => client = Null
    /\ client = Null => pc \in {"listen", "accept", "close", "over"}
    /\ pc \in Before \/ client = Null => frames = 0
    /\ pc = "write" => frames > 0 /\ part < Parts

\* Only the accepted client is served, and only it has units.
OneServed ==
    /\ \A c \in Client : c # client => tcp[c] # "served" /\ got[c] = <<>>
    /\ buf # <<>> => client # Null /\ tcp[client] = "served"

\* What the client has or will have is a front of the capture.
Front ==
    client # Null => /\ IsFront(got[client] \o buf)
                     /\ Len(got[client] \o buf) <= Written
                     /\ tcp[client] = "served" => Len(got[client] \o buf) = Written

IInv == TypeOK /\ Places /\ OneServed /\ Front

-----------------------------------------------------------------------------
\* The unit after those of n records and p more units is unit p + 1 of record n + 1.
LEMMA NextItem ==
  ASSUME NEW n \in Nat, NEW p \in Nat, p < Parts
  PROVE  Item(1 + n * Parts + p + 1) = <<n + 1, p + 1>>
<1> DEFINE k == n * Parts + p
<1>1. Parts \in Nat /\ Parts > 0 /\ n * Parts \in Nat /\ k \in Nat
  BY PcapAssumption
<1>2. k \div Parts = n /\ k % Parts = p
  BY <1>1
<1> QED
  BY <1>1, <1>2 DEF Item

\* A front followed by the next unit is a front.
LEMMA AppendFront ==
  ASSUME NEW S, NEW s \in Seq(S), NEW u \in S, IsFront(s), u = Item(Len(s) + 1)
  PROVE  IsFront(Append(s, u)) /\ Len(Append(s, u)) = Len(s) + 1
<1>1. Len(s) \in Nat
  BY LenProperties
<1> QED
  BY <1>1, AppendProperties DEF IsFront

\* Appending to the buffer appends to what the client has and will have.
LEMMA AppendConcat ==
  \A s, b \in Seq(Unit) : \A u \in Unit : s \o Append(b, u) = Append(s \o b, u)
<1> SUFFICES ASSUME NEW s \in Seq(Unit), NEW b \in Seq(Unit), NEW u \in Unit
             PROVE  s \o Append(b, u) = Append(s \o b, u)
  OBVIOUS
<1>1. <<u>> \in Seq(Unit)
  OBVIOUS
<1>2. s \o b \in Seq(Unit)
  BY ConcatProperties
<1>3. Append(b, u) = b \o <<u>> /\ Append(s \o b, u) = (s \o b) \o <<u>>
  BY <1>2, AppendIsConcat
<1> QED
  BY <1>1, <1>3, ConcatAssociative

\* Reading a unit from the buffer moves it, and no more.
LEMMA ReadKeeps ==
  ASSUME NEW S, NEW s \in Seq(S), NEW b \in Seq(S), b # <<>>
  PROVE  /\ Append(s, Head(b)) \in Seq(S) /\ Tail(b) \in Seq(S)
         /\ Append(s, Head(b)) \o Tail(b) = s \o b
<1> DEFINE l == Append(s, Head(b)) \o Tail(b)
           r == s \o b
<1>1. /\ Head(b) \in S /\ Tail(b) \in Seq(S) /\ Len(Tail(b)) = Len(b) - 1
      /\ \A i \in 1 .. Len(Tail(b)) : Tail(b)[i] = b[i + 1]
  BY HeadTailProperties
<1>2. /\ Append(s, Head(b)) \in Seq(S) /\ Len(Append(s, Head(b))) = Len(s) + 1
      /\ \A i \in 1 .. Len(s) : Append(s, Head(b))[i] = s[i]
      /\ Append(s, Head(b))[Len(s) + 1] = Head(b)
  BY <1>1, AppendProperties
<1>3. Len(s) \in Nat /\ Len(b) \in Nat /\ Len(b) # 0 /\ Head(b) = b[1]
  BY LenProperties, EmptySeq
<1>4. /\ l \in Seq(S) /\ Len(l) = Len(s) + Len(b)
      /\ \A i \in 1 .. Len(s) + Len(b) :
           l[i] = IF i <= Len(s) + 1 THEN Append(s, Head(b))[i] ELSE Tail(b)[i - (Len(s) + 1)]
  <2>1. /\ l \in Seq(S)
        /\ Len(l) = Len(Append(s, Head(b))) + Len(Tail(b))
        /\ \A i \in 1 .. Len(Append(s, Head(b))) + Len(Tail(b)) :
             l[i] = IF i <= Len(Append(s, Head(b))) THEN Append(s, Head(b))[i]
                    ELSE Tail(b)[i - Len(Append(s, Head(b)))]
    BY <1>1, <1>2, ConcatProperties
  <2> QED
    BY <2>1, <1>1, <1>2, <1>3
<1>5. /\ r \in Seq(S) /\ Len(r) = Len(s) + Len(b)
      /\ \A i \in 1 .. Len(s) + Len(b) : r[i] = IF i <= Len(s) THEN s[i] ELSE b[i - Len(s)]
  BY ConcatProperties
<1>6. \A i \in 1 .. Len(s) + Len(b) : l[i] = r[i]
  <2> SUFFICES ASSUME NEW i \in 1 .. Len(s) + Len(b) PROVE l[i] = r[i]
    OBVIOUS
  <2> HIDE DEF l, r
  <2>1. CASE i <= Len(s)
    BY <2>1, <1>2, <1>3, <1>4, <1>5
  <2>2. CASE i = Len(s) + 1
    BY <2>2, <1>2, <1>3, <1>4, <1>5
  <2>3. CASE i > Len(s) + 1
    <3>1. i - (Len(s) + 1) \in 1 .. Len(Tail(b)) /\ (i - (Len(s) + 1)) + 1 = i - Len(s)
      BY <2>3, <1>1, <1>3
    <3> QED
      BY <2>3, <3>1, <1>1, <1>3, <1>4, <1>5
  <2> QED
    BY <2>1, <2>2, <2>3, <1>3
<1>7. l = r
  <2> HIDE DEF l, r
  <2> QED
    BY <1>4, <1>5, <1>6, SeqEqual
<1> QED
  BY <1>1, <1>2, <1>7

\* The first part of a front is a front.
LEMMA FrontOfFront ==
  ASSUME NEW S, NEW s \in Seq(S), NEW b \in Seq(S), IsFront(s \o b)
  PROVE  IsFront(s) /\ Len(s) <= Len(s \o b) /\ Len(s) \in Nat
<1>1. Len(s) \in Nat /\ Len(b) \in Nat
  BY LenProperties
<1> QED
  BY <1>1, ConcatProperties DEF IsFront
-----------------------------------------------------------------------------
\* What has been written is a number of units, and at most all of the frames so far.
LEMMA WrittenBound ==
  ASSUME TypeOK, Places
  PROVE  /\ Written \in Nat /\ frames * Parts \in Nat
         /\ Written <= 1 + frames * Parts
         /\ pc = "write" => Written = 1 + (frames - 1) * Parts + part
<1>1. Parts \in Nat /\ frames \in Nat /\ part \in Nat /\ frames * Parts \in Nat
  BY PcapAssumption DEF TypeOK
<1>2. CASE pc = "write"
  <2>1. (frames - 1) * Parts \in Nat /\ (frames - 1) * Parts + Parts = frames * Parts
    BY <1>1, <1>2, PcapAssumption DEF Places
  <2> QED
    BY <1>1, <1>2, <2>1, PcapAssumption DEF Places, Written
<1> QED
  BY <1>1, <1>2 DEF Written

\* No client, no frames.
LEMMA InitInv == Init => IInv
<1> SUFFICES ASSUME Init PROVE IInv
  OBVIOUS
<1>1. /\ pc = "listen" /\ running = TRUE /\ client = Null /\ frames = 0 /\ part = 0
      /\ tcp = [c \in Client |-> "away"] /\ queue = <<>> /\ buf = <<>>
      /\ got = [c \in Client |-> <<>>]
  BY DEF Init
<1>2. /\ <<>> \in Seq(Client) /\ <<>> \in Seq(Unit) /\ Len(<<>>) = 0
  BY EmptySeq
<1>3. TypeOK
  <2>1. running \in BOOLEAN
    BY <1>1
  <2>2. frames \in 0..MaxFrames /\ part \in 0..Parts /\ Len(buf) <= BufSize
    BY <1>1, <1>2, PcapAssumption
  <2>3. got \in [Client -> Seq(Unit)] /\ queue \in Seq(Client) /\ buf \in Seq(Unit)
    BY <1>1, <1>2
  <2> QED
    BY <1>1, <2>1, <2>2, <2>3, Zenon DEF TypeOK
<1> QED
  BY <1>1, <1>3 DEF IInv, Places, Before, OneServed, Front

-----------------------------------------------------------------------------
\* A step keeps the types.
LEMMA TypeStep ==
  ASSUME TypeOK, Places, OneServed, Next
  PROVE  TypeOK'
<1>1. running' \in BOOLEAN
  <2>1. CASE DriverStep
    BY <2>1, Zenon
    DEF TypeOK, DriverStep, ServerInit, AcceptClient, AcceptFails, SendHeader, LoopTest,
        ReadNothing, ReadFrame,
        WritePart, WriteFails, Close
  <2>2. CASE Stop \/ \E c \in Client : Connect(c) \/ Read(c) \/ Leave(c)
    BY <2>2, Zenon DEF TypeOK, Stop, Connect, Read, Leave
  <2> QED
    BY <2>1, <2>2 DEF Next
<1>2. /\ pc' \in {"listen", "accept", "header", "loop", "read", "write", "close", "over"}
      /\ tcp' \in [Client -> {"away", "queued", "served", "left", "closed"}]
      /\ frames' \in 0..MaxFrames /\ part' \in 0..Parts
  <2> USE PcapAssumption DEF TypeOK
  <2>1. CASE WritePart
    BY <2>1 DEF Places, WritePart
  <2>2. CASE AcceptClient
    BY <2>2 DEF AcceptClient
  <2>3. CASE ServerInit \/ AcceptFails \/ SendHeader \/ LoopTest \/ ReadNothing \/ ReadFrame
    BY <2>3 DEF ServerInit, AcceptFails, SendHeader, LoopTest, ReadNothing, ReadFrame
  <2>4. CASE WriteFails \/ Close \/ Stop
    BY <2>4 DEF WriteFails, Close, Stop
  <2>5. CASE \E c \in Client : Connect(c) \/ Read(c) \/ Leave(c)
    BY <2>5 DEF Connect, Read, Leave
  <2> QED
    BY <2>1, <2>2, <2>3, <2>4, <2>5 DEF Next, DriverStep
<1>3. queue' \in Seq(Client) /\ client' \in Client \cup {Null}
  <2>1. CASE AcceptClient
    <3>1. Head(queue) \in Client /\ Tail(queue) \in Seq(Client)
      BY <2>1, HeadTailProperties DEF AcceptClient, TypeOK
    <3> QED
      BY <2>1, <3>1 DEF AcceptClient
  <2>2. CASE \E c \in Client : Connect(c)
    BY <2>2, AppendProperties DEF Connect, TypeOK
  <2>3. CASE Close
    BY <2>3, EmptySeq DEF Close, TypeOK
  <2>4. CASE UNCHANGED <<client, queue>>
    BY <2>4 DEF TypeOK
  <2> QED
    BY <2>1, <2>2, <2>3, <2>4
    DEF Next, DriverStep, ServerInit, AcceptFails, SendHeader, LoopTest, ReadNothing, ReadFrame,
        WritePart,
        WriteFails, Stop, Read, Leave
<1>4. buf' \in Seq(Unit) /\ Len(buf') <= BufSize /\ got' \in [Client -> Seq(Unit)]
  <2>1. CASE WritePart
    <3>1. <<frames, part + 1>> \in Unit
      BY <2>1, PcapAssumption DEF WritePart, TypeOK, Places, Unit
    <3>2. Append(buf, <<frames, part + 1>>) \in Seq(Unit)
          /\ Len(Append(buf, <<frames, part + 1>>)) = Len(buf) + 1 /\ Len(buf) \in Nat
      BY <3>1, AppendProperties, LenProperties DEF TypeOK
    <3> QED
      BY <2>1, <3>2, PcapAssumption DEF WritePart, Room, TypeOK
  <2>2. CASE SendHeader
    <3>1. Header \in Seq(Unit) /\ Len(Header) = 1
      BY DEF Header, Unit
    <3>2. /\ buf' \in {Header, buf} /\ got' = got
          /\ buf \in Seq(Unit) /\ Len(buf) <= BufSize /\ got \in [Client -> Seq(Unit)]
      BY <2>2 DEF SendHeader, TypeOK
    <3>3. 1 <= BufSize
      BY PcapAssumption
    <3> QED
      BY <3>1, <3>2, <3>3
  <2>3. ASSUME NEW c \in Client, Read(c) PROVE buf' \in Seq(Unit) /\ Len(buf') <= BufSize
                                                /\ got' \in [Client -> Seq(Unit)]
    <3>1. Tail(buf) \in Seq(Unit) /\ Append(got[c], Head(buf)) \in Seq(Unit)
      BY <2>3, ReadKeeps DEF Read, TypeOK
    <3>2. Len(Tail(buf)) = Len(buf) - 1 /\ Len(buf) \in Nat
      BY <2>3, HeadTailProperties, LenProperties DEF Read, TypeOK
    <3> QED
      BY <2>3, <3>1, <3>2, PcapAssumption DEF Read, TypeOK
  <2>4. CASE \E c \in Client : Leave(c)
    BY <2>4, EmptySeq, PcapAssumption DEF Leave, TypeOK
  <2>5. CASE UNCHANGED <<buf, got>>
    BY <2>5 DEF TypeOK
  <2> QED
    BY <2>1, <2>2, <2>3, <2>4, <2>5
    DEF Next, DriverStep, ServerInit, AcceptClient, AcceptFails, LoopTest, ReadNothing, ReadFrame,
        WriteFails,
        Close, Stop, Connect
<1> QED
  BY <1>1, <1>2, <1>3, <1>4, Zenon DEF TypeOK

\* A step keeps what the place of the driver tells.
LEMMA PlacesStep ==
  ASSUME TypeOK, Places, Next
  PROVE  Places'
<1>1. CASE AcceptClient
  <2>1. Head(queue) \in Client
    BY <1>1, HeadTailProperties DEF AcceptClient, TypeOK
  <2> QED
    BY <1>1, <2>1, PcapAssumption DEF AcceptClient, Places, Before
<1>2. CASE DriverStep /\ ~AcceptClient
  BY <1>2, PcapAssumption
  DEF TypeOK, Places, Before, DriverStep, ServerInit, AcceptFails, SendHeader, LoopTest, ReadNothing,
      ReadFrame, WritePart, RecordEnds, WriteFails, Close
<1>3. CASE Stop \/ \E c \in Client : Connect(c) \/ Read(c) \/ Leave(c)
  BY <1>3 DEF Places, Stop, Connect, Read, Leave
<1> QED
  BY <1>1, <1>2, <1>3 DEF Next

\* A step keeps units away from all but the accepted client.
LEMMA ServedStep ==
  ASSUME TypeOK, Places, OneServed, Next
  PROVE  OneServed'
<1>1. CASE AcceptClient
  <2>1. Head(queue) \in Client
    BY <1>1, HeadTailProperties DEF AcceptClient, TypeOK
  <2>2. client = Null
    BY <1>1 DEF AcceptClient, Places
  <2> QED
    BY <1>1, <2>1, <2>2, PcapAssumption DEF AcceptClient, TypeOK, OneServed
<1>2. CASE SendHeader
  BY <1>2, PcapAssumption DEF SendHeader, Places, OneServed
<1>3. CASE WritePart
  BY <1>3, PcapAssumption DEF WritePart, Places, OneServed
<1>4. CASE Close \/ \E c \in Client : Connect(c)
  BY <1>4 DEF Close, Connect, TypeOK, OneServed
<1>5. ASSUME NEW c \in Client, Read(c) PROVE OneServed'
  BY <1>5, PcapAssumption DEF Read, TypeOK, OneServed
<1>6. ASSUME NEW c \in Client, Leave(c) PROVE OneServed'
  BY <1>6 DEF Leave, TypeOK, OneServed
<1>7. CASE UNCHANGED <<client, tcp, buf, got>>
  BY <1>7 DEF OneServed
<1> QED
  BY <1>1, <1>2, <1>3, <1>4, <1>5, <1>6, <1>7
  DEF Next, DriverStep, ServerInit, AcceptFails, LoopTest, ReadNothing, ReadFrame, WriteFails, Stop

-----------------------------------------------------------------------------
\* What the accepted client has and will have stays a front of the capture.
LEMMA FrontStep ==
  ASSUME IInv, Next
  PROVE  Front'
<1> DEFINE Has == got[client] \o buf
<1>1. /\ TypeOK /\ Places /\ OneServed /\ Front /\ TypeOK' /\ Places' /\ OneServed'
  BY TypeStep, PlacesStep, ServedStep DEF IInv
<1>2. /\ Written \in Nat
      /\ pc = "write" => Written = 1 + (frames - 1) * Parts + part
  BY <1>1, WrittenBound
<1>3. client # Null => got[client] \in Seq(Unit) /\ Has \in Seq(Unit) /\ Len(Has) \in Nat
  BY <1>1, ConcatProperties, LenProperties DEF TypeOK
<1>4. Parts \in Nat /\ Parts > 0 /\ frames \in Nat /\ part \in Nat /\ frames * Parts \in Nat
  BY <1>1, PcapAssumption DEF TypeOK
<1>5. ASSUME UNCHANGED <<client, tcp, buf, got>>, Written' \in Nat, Written' >= Written,
             client # Null /\ tcp[client] = "served" => Written' = Written
      PROVE  Front'
  BY <1>1, <1>2, <1>3, <1>5 DEF Front, IsFront, Item
<1>6. CASE AcceptClient
  <2>1. client = Null /\ client' \in Client
    BY <1>1, <1>6, PcapAssumption DEF AcceptClient, Places, TypeOK
  <2>2. got'[client'] = <<>> /\ buf' = <<>>
    BY <1>1, <1>6, <2>1, PcapAssumption DEF AcceptClient, OneServed
  <2>3. got'[client'] \o buf' = <<>> /\ Len(<<>>) = 0
    BY <2>2, ConcatEmptySeq, EmptySeq
  <2>4. Written' = 0
    BY <1>6 DEF AcceptClient, Written
  <2> QED
    BY <2>3, <2>4 DEF Front, IsFront
<1>7. CASE SendHeader
  <2>1. client # Null /\ frames = 0 /\ Written = 0 /\ Written' = 1
    BY <1>1, <1>4, <1>7 DEF SendHeader, Places, Before, Written
  <2>2. CASE tcp[client] # "served"
    BY <1>5, <1>7, <2>1, <2>2 DEF SendHeader
  <2>3. CASE tcp[client] = "served"
    <3>1. Has = <<>> /\ Len(got[client]) = 0
      BY <1>1, <1>3, <2>1, EmptySeq, FrontOfFront DEF Front, TypeOK
    <3>2. got[client] = <<>>
      BY <1>3, <2>1, <3>1, EmptySeq
    <3>3. got'[client'] \o buf' = Header
      BY <1>7, <2>3, <3>2 DEF SendHeader, Header
    <3>4. IsFront(Header) /\ Len(Header) = 1
      BY DEF Header, IsFront, Item
    <3>5. IsFront(Header)'
      BY <3>4 DEF IsFront, Item
    <3> QED
      BY <2>1, <3>3, <3>4, <3>5 DEF Front
  <2> QED
    BY <2>2, <2>3
<1>8. CASE WritePart
  <2>1. /\ client # Null /\ client' = client /\ tcp' = tcp /\ got' = got
        /\ buf' = Append(buf, <<frames, part + 1>>)
        /\ tcp[client] = "served" /\ Len(Has) = Written /\ IsFront(Has)
    BY <1>1, <1>8 DEF WritePart, Places, Front
  <2>2. /\ <<frames, part + 1>> \in Unit
        /\ frames - 1 \in Nat /\ part < Parts
    BY <1>1, <1>8, PcapAssumption DEF WritePart, TypeOK, Places, Unit
  <2>3. got'[client'] \o buf' = Append(Has, <<frames, part + 1>>)
    <3>1. got[client] \in Seq(Unit) /\ buf \in Seq(Unit)
      BY <1>1, <1>3, <2>1 DEF TypeOK
    <3>2. got[client] \o Append(buf, <<frames, part + 1>>) = Append(Has, <<frames, part + 1>>)
      BY <2>2, <3>1, AppendConcat, Zenon
    <3> QED
      BY <2>1, <3>2, Zenon
  <2>4. <<frames, part + 1>> = Item(Len(Has) + 1)
    <3>1. Item(1 + (frames - 1) * Parts + part + 1) = <<(frames - 1) + 1, part + 1>>
      BY <1>4, <2>2, NextItem
    <3> QED
      BY <1>2, <1>4, <1>8, <2>1, <3>1 DEF WritePart
  <2>5. IsFront(Append(Has, <<frames, part + 1>>))
        /\ Len(Append(Has, <<frames, part + 1>>)) = Len(Has) + 1
    BY <1>3, <2>1, <2>2, <2>4, AppendFront
  <2>6. Written' = Written + 1
    <3>1. (frames - 1) * Parts + Parts = frames * Parts
      BY <1>4
    <3>2. Written = 1 + (frames - 1) * Parts + part
      BY <1>2, <1>8 DEF WritePart
    <3>3. CASE part + 1 = Parts
      <4>1. Written' = 1 + frames * Parts
        BY <1>8, <2>1, <3>3 DEF WritePart, RecordEnds, Written
      <4> QED
        BY <1>4, <2>2, <3>1, <3>2, <3>3, <4>1
    <3>4. CASE part + 1 # Parts
      <4>1. Written' = 1 + (frames - 1) * Parts + (part + 1)
        BY <1>8, <2>1, <3>4 DEF WritePart, RecordEnds, Written
      <4> QED
        BY <1>4, <2>2, <3>1, <3>2, <4>1
    <3> QED
      BY <3>3, <3>4
  <2>7. IsFront(got[client] \o buf)'
    <3> HIDE DEF Has
    <3> QED
      BY <2>3, <2>5 DEF IsFront, Item
  <2>8. Len(got[client] \o buf)' = Written' /\ Written' \in Nat
    <3>1. Len(got'[client'] \o buf') = Len(Has) + 1
      BY <2>3, <2>5, Zenon
    <3>2. Len(Has) + 1 = Written + 1
      BY <2>1
    <3> QED
      BY <1>2, <2>6, <3>1, <3>2
  <2> QED
    BY <2>7, <2>8 DEF Front
<1>9. ASSUME NEW c \in Client, Read(c) PROVE Front'
  <2>1. /\ c = client /\ client' = client /\ tcp' = tcp /\ buf' = Tail(buf) /\ client # Null
        /\ got'[client] = Append(got[client], Head(buf))
    BY <1>1, <1>9, PcapAssumption DEF Read, TypeOK
  <2>2. got'[client'] \o buf' = Has
    BY <1>1, <1>3, <1>9, <2>1, ReadKeeps DEF Read, TypeOK
  <2>3. Written' = Written
    BY <1>9 DEF Read, Written
  <2> QED
    BY <1>1, <2>1, <2>2, <2>3 DEF Front, IsFront, Item
<1>10. ASSUME NEW c \in Client, Leave(c) PROVE Front'
  <2>1. Written' = Written /\ client' = client /\ got' = got
    BY <1>10 DEF Leave, Written
  <2>2. CASE client = c
    <3>1. /\ buf' = <<>> /\ tcp'[client'] # "served" /\ client # Null
      BY <1>1, <1>10, <2>1, <2>2, PcapAssumption DEF Leave, TypeOK
    <3>2. got'[client'] \o buf' = got[client]
      BY <1>3, <2>1, <3>1, ConcatEmptySeq
    <3>3. IsFront(got[client]) /\ Len(got[client]) <= Len(Has) /\ Len(got[client]) \in Nat
      BY <1>1, <1>3, <3>1, FrontOfFront DEF Front, TypeOK
    <3> QED
      BY <1>1, <1>2, <1>3, <2>1, <3>1, <3>2, <3>3 DEF Front, IsFront, Item
  <2>3. CASE client # c
    <3>1. buf' = buf /\ (client # Null => tcp'[client] = tcp[client])
      BY <1>1, <1>10, <2>3 DEF Leave, TypeOK
    <3> QED
      BY <1>1, <2>1, <3>1 DEF Front, IsFront, Item
  <2> QED
    BY <2>2, <2>3
<1>11. CASE ReadFrame
  <2>1. Written' = Written
    BY <1>1, <1>4, <1>11 DEF ReadFrame, Places, Written
  <2> QED
    BY <1>2, <1>5, <1>11, <2>1 DEF ReadFrame
<1>12. CASE WriteFails
  <2>1. (frames - 1) * Parts + Parts = frames * Parts /\ part < Parts
    BY <1>1, <1>4, <1>12 DEF WriteFails, Places
  <2>2. Written' \in Nat /\ Written' >= Written
    <3>1. client # Null
      BY <1>1, <1>12 DEF WriteFails, Places
    <3> QED
      BY <1>2, <1>4, <1>12, <2>1, <3>1 DEF WriteFails, Written
  <2> QED
    BY <1>5, <1>12, <2>2 DEF WriteFails, WriteError
<1>13. CASE ServerInit \/ AcceptFails \/ LoopTest \/ ReadNothing \/ Stop
  <2>1. Written' = Written
    BY <1>1, <1>13 DEF ServerInit, AcceptFails, LoopTest, ReadNothing, Stop, Places, Written
  <2> QED
    BY <1>2, <1>5, <1>13, <2>1 DEF ServerInit, AcceptFails, LoopTest, ReadNothing, Stop
<1>14. CASE Close \/ \E c \in Client : Connect(c)
  <2>1. /\ Written' = Written /\ client' = client /\ got' = got /\ buf' = buf
        /\ client # Null => (tcp'[client] = "served" => tcp[client] = "served")
    BY <1>1, <1>14 DEF Close, Connect, TypeOK, Written
  <2> QED
    BY <1>1, <2>1 DEF Front, IsFront, Item
<1> QED
  BY <1>6, <1>7, <1>8, <1>9, <1>10, <1>11, <1>12, <1>13, <1>14 DEF Next, DriverStep

-----------------------------------------------------------------------------
\* The invariant holds of every behaviour.
THEOREM Inductive == Spec => []IInv
<1>1. ASSUME IInv, UNCHANGED vars PROVE IInv'
  BY <1>1 DEF IInv, TypeOK, Places, OneServed, Front, IsFront, Item, Written, vars
<1>2. IInv /\ [Next]_vars => IInv'
  BY <1>1, TypeStep, PlacesStep, ServedStep, FrontStep DEF IInv
<1> QED
  BY <1>2, InitInv, PTL DEF Spec

\* Every variable keeps its type: the socket buffer is never overrun.
THEOREM TypeCorrect == Spec => []TypeOK
<1>1. IInv => TypeOK
  BY DEF IInv
<1> QED
  BY <1>1, Inductive, PTL

\* A front of the capture that is not longer than it is its prefix of that length.
LEMMA FrontIsPrefix ==
  ASSUME TypeOK, Places, NEW s \in Seq(Unit), IsFront(s), Len(s) <= 1 + frames * Parts
  PROVE  s = SubSeq(Stream(frames), 1, Len(s))
<1>1. Len(s) \in Nat /\ 1 + frames * Parts \in Nat
  BY WrittenBound, LenProperties
<1>2. \A i \in 1 .. Len(s) : Stream(frames)[i] = Item(i) /\ s[i] = Item(i) /\ s[i] \in Unit
  BY <1>1, ElementOfSeq DEF IsFront, Item, Stream
<1>3. \A i \in 1 .. Len(s) : Stream(frames)[i] \in Unit
  BY <1>2
<1> DEFINE p == SubSeq(Stream(frames), 1, Len(s))
<1>4. /\ p \in Seq(Unit) /\ Len(p) = Len(s)
      /\ \A i \in 1 .. Len(s) : p[i] = Stream(frames)[i]
  BY <1>1, <1>3, SubSeqProperties
<1>5. \A i \in 1 .. Len(s) : s[i] = p[i]
  BY <1>2, <1>4
<1> HIDE DEF p
<1> QED
  BY <1>4, <1>5, SeqEqual

\* What a client has read is, byte for byte, the beginning of the capture; a
\* client that was not accepted has read nothing.
THEOREM PrefixesOnly == Spec => []OnlyPrefixes
<1>1. IInv => OnlyPrefixes
  <2> SUFFICES ASSUME IInv, NEW c \in Client
               PROVE  IF c = client
                      THEN /\ Len(got[c]) <= Written
                           /\ got[c] = SubSeq(Stream(frames), 1, Len(got[c]))
                      ELSE got[c] = <<>>
    BY DEF OnlyPrefixes
  <2>1. CASE c # client
    BY <2>1 DEF IInv, OneServed
  <2>2. CASE c = client
    <3>1. got[c] \in Seq(Unit) /\ buf \in Seq(Unit) /\ client # Null
      BY <2>2, PcapAssumption DEF IInv, TypeOK
    <3>2. got[c] \o buf \in Seq(Unit) /\ Len(got[c] \o buf) \in Nat
      BY <3>1, ConcatProperties, LenProperties
    <3>3. IsFront(got[c]) /\ Len(got[c]) <= Len(got[c] \o buf) /\ Len(got[c]) \in Nat
      BY <2>2, <3>1, FrontOfFront DEF IInv, Front
    <3>4. /\ Written \in Nat /\ frames * Parts \in Nat /\ Written <= 1 + frames * Parts
          /\ Len(got[c] \o buf) <= Written
      BY <2>2, <3>1, WrittenBound DEF IInv, Front
    <3>5. Len(got[c]) <= Written /\ Len(got[c]) <= 1 + frames * Parts
      BY <3>2, <3>3, <3>4
    <3>6. got[c] = SubSeq(Stream(frames), 1, Len(got[c]))
      BY <3>1, <3>3, <3>5, FrontIsPrefix DEF IInv
    <3> QED
      BY <2>2, <3>5, <3>6
  <2> QED
    BY <2>1, <2>2
<1> QED
  BY <1>1, Inductive, PTL

\* As long as the client is there, what it has read and what is on its way are
\* the header and all frames captured: nothing is lost while the socket is full.
THEOREM LosesNothing == Spec => []NothingLost
<1>1. IInv => NothingLost
  <2> SUFFICES ASSUME IInv, client # Null, tcp[client] = "served"
               PROVE  got[client] \o buf = SubSeq(Stream(frames), 1, Written)
    BY DEF NothingLost
  <2>1. got[client] \o buf \in Seq(Unit)
    BY ConcatProperties DEF IInv, TypeOK
  <2>2. IsFront(got[client] \o buf) /\ Len(got[client] \o buf) = Written
    BY DEF IInv, Front
  <2>3. Written <= 1 + frames * Parts
    BY WrittenBound DEF IInv
  <2> HIDE DEF Written
  <2> QED
    BY <2>1, <2>2, <2>3, FrontIsPrefix DEF IInv
<1> QED
  BY <1>1, Inductive, PTL

-----------------------------------------------------------------------------
(* The session implements CaptureFeed, as far as safety goes.              *)

\* The whole records in m units.
LEMMA WholeRecords ==
  ASSUME NEW m \in Nat
  PROVE  m \div Parts \in Nat /\ Parts * (m \div Parts) <= m /\ m < Parts * (m \div Parts) + Parts
<1> DEFINE q == m \div Parts
           r == m % Parts
<1>1. Parts \in Nat \ {0}
  BY PcapAssumption
<1>2. q \in Int /\ r \in 0 .. Parts - 1 /\ m = Parts * q + r
  BY <1>1
<1> HIDE DEF q, r
<1>3. q >= 0
  <2> SUFFICES ASSUME q <= -1 PROVE FALSE
    BY <1>2
  <2>1. Parts * q <= Parts * (-1)
    BY <1>1, <1>2
  <2> QED
    BY <1>1, <1>2, <2>1
<1>4. Parts * q <= m /\ m < Parts * q + Parts
  BY <1>1, <1>2
<1> QED
  BY <1>2, <1>3, <1>4 DEF q

\* One more unit completes one more record at most.
LEMMA OneMore ==
  ASSUME NEW m \in Nat, NEW n \in Nat, m + 1 <= n * Parts
  PROVE  \/ (m + 1) \div Parts = m \div Parts
         \/ (m + 1) \div Parts = (m \div Parts) + 1 /\ m \div Parts < n
<1> DEFINE p == m \div Parts
           q == (m + 1) \div Parts
<1>1. /\ p \in Nat /\ Parts * p <= m /\ m < Parts * p + Parts
      /\ q \in Nat /\ Parts * q <= m + 1 /\ m + 1 < Parts * q + Parts
  BY WholeRecords
<1>2. Parts \in Nat /\ Parts > 0
  BY PcapAssumption
<1> HIDE DEF p, q
<1>3. p < q + 1
  <2> SUFFICES ASSUME p >= q + 1 PROVE FALSE
    BY <1>1
  <2>1. Parts * p >= Parts * (q + 1) /\ Parts * (q + 1) = Parts * q + Parts
    BY <1>1, <1>2
  <2> QED
    BY <1>1, <1>2, <2>1
<1>4. q < p + 2
  <2> SUFFICES ASSUME q >= p + 2 PROVE FALSE
    BY <1>1
  <2>1. Parts * q >= Parts * (p + 2) /\ Parts * (p + 2) = Parts * p + Parts + Parts
    BY <1>1, <1>2
  <2> QED
    BY <1>1, <1>2, <2>1
<1>5. p < n
  <2> SUFFICES ASSUME p >= n PROVE FALSE
    BY <1>1
  <2>1. Parts * p >= Parts * n /\ Parts * n = n * Parts
    BY <1>1, <1>2
  <2> QED
    BY <1>1, <1>2, <2>1
<1>6. q = p \/ q = p + 1
  BY <1>1, <1>3, <1>4
<1> QED
  BY <1>5, <1>6 DEF p, q

\* What a full buffer holds back of n records is no more than it has units.
LEMMA HeldBack ==
  ASSUME NEW m \in Nat, NEW n \in Nat, n * Parts <= m + BufSize
  PROVE  n - (m \div Parts) <= BufSize
<1> DEFINE q == m \div Parts
<1>1. q \in Nat /\ m < Parts * q + Parts
  BY WholeRecords
<1>2. Parts \in Nat /\ Parts > 0 /\ BufSize \in Nat
  BY PcapAssumption
<1> HIDE DEF q
<1> SUFFICES ASSUME n >= q + BufSize + 1 PROVE FALSE
  BY <1>1, <1>2 DEF q
<1>3. n * Parts >= (q + BufSize + 1) * Parts
  BY <1>1, <1>2
<1>4. (q + BufSize + 1) * Parts = Parts * q + BufSize * Parts + Parts
  BY <1>1, <1>2
<1>5. BufSize * Parts >= BufSize
  BY <1>2
<1>6. Parts * q \in Nat /\ BufSize * Parts \in Nat /\ n * Parts \in Nat
  BY <1>1, <1>2
<1> QED
  BY <1>1, <1>2, <1>3, <1>4, <1>5, <1>6

\* What the viewer has in full.
Delivered == IF client = Null THEN 0 ELSE WholeItems(client)
Present == client # Null /\ tcp[client] = "served"

\* A step that changes neither leaves the feed as it is.
LEMMA FeedSame ==
  ASSUME UNCHANGED <<client, frames, got>>, Present' <=> Present
  PROVE  UNCHANGED Feed!vars
<1>1. Delivered' = Delivered
  BY DEF Delivered, WholeItems
<1> QED
  BY <1>1 DEF Feed!vars, Delivered, Present

\* Accepting the client is what attaches the viewer.
LEMMA AcceptAttaches ==
  ASSUME IInv, AcceptClient
  PROVE  \E c \in Client : Feed!Attach(c)
<1>1. Head(queue) \in Client
  BY HeadTailProperties DEF AcceptClient, IInv, TypeOK
<1>2. client = Null /\ client' = Head(queue) /\ frames' = frames /\ got' = got
  BY DEF AcceptClient, IInv, Places
<1>3. got[Head(queue)] = <<>> /\ Head(queue) # Null
  BY <1>1, <1>2, PcapAssumption DEF IInv, OneServed
<1>4. Delivered = 0 /\ Delivered' = 0
  BY <1>2, <1>3 DEF Delivered, WholeItems
<1> QED
  BY <1>1, <1>2, <1>4 DEF Feed!Attach, Delivered

\* A frame is read only when the viewer is not too far behind.
LEMMA ReadCaptures ==
  ASSUME IInv, ReadFrame
  PROVE  Feed!Capture
<1>1. /\ client # Null /\ frames < MaxFrames /\ frames' = frames + 1
      /\ UNCHANGED <<client, tcp, got>>
  BY DEF ReadFrame, IInv, Places
<1>2. /\ frames \in Nat /\ BufSize \in Nat /\ client \in Client
      /\ got[client] \in Seq(Unit) /\ buf \in Seq(Unit) /\ Len(buf) <= BufSize
      /\ Len(got[client]) \in Nat /\ Len(buf) \in Nat
  BY <1>1, PcapAssumption, LenProperties DEF IInv, TypeOK
<1>3. ASSUME Present PROVE frames + 1 - Delivered < BufSize + 1
  <2>1. Len(got[client]) + Len(buf) = 1 + frames * Parts
    <3>1. Len(got[client] \o buf) = Written
      BY <1>3 DEF IInv, Front, Present
    <3>2. Written = 1 + frames * Parts
      BY <1>1 DEF ReadFrame, Written
    <3> QED
      BY <1>2, <3>1, <3>2, ConcatProperties
  <2>2. frames * Parts \in Nat
    BY <1>2, PcapAssumption
  <2>3. CASE got[client] = <<>>
    <3>1. Len(got[client]) = 0 /\ Delivered = 0
      BY <1>1, <2>3 DEF Delivered, WholeItems
    <3>2. frames * Parts >= frames
      BY <1>2, PcapAssumption
    <3> QED
      BY <1>2, <2>1, <2>2, <3>1, <3>2
  <2>4. CASE got[client] # <<>>
    <3> DEFINE m == Len(got[client]) - 1
    <3>1. m \in Nat /\ Delivered = 1 + (m \div Parts)
      BY <1>1, <1>2, <2>4, EmptySeq DEF Delivered, WholeItems
    <3>2. frames * Parts <= m + BufSize
      BY <1>2, <2>1, <2>2
    <3> HIDE DEF m
    <3>3. frames - (m \div Parts) <= BufSize /\ m \div Parts \in Nat
      BY <1>2, <3>1, <3>2, HeldBack, WholeRecords
    <3> QED
      BY <1>2, <3>1, <3>3
  <2> QED
    BY <2>3, <2>4
<1>4. Delivered' = Delivered /\ (Present' <=> Present)
  BY <1>1 DEF Delivered, WholeItems, Present
<1> QED
  BY <1>1, <1>3, <1>4 DEF Feed!Capture, Delivered, Present

\* Reading a unit delivers an item or a part of one.
LEMMA ReadDelivers ==
  ASSUME IInv, NEW c \in Client, Read(c)
  PROVE  Feed!Deliver \/ UNCHANGED Feed!vars
<1>1. /\ c = client /\ client # Null /\ client' = client /\ frames' = frames /\ tcp' = tcp
      /\ tcp[client] = "served" /\ buf # <<>>
      /\ got'[client] = Append(got[client], Head(buf))
  BY PcapAssumption DEF Read, IInv, TypeOK
<1>2. /\ frames \in Nat /\ got[client] \in Seq(Unit) /\ buf \in Seq(Unit) /\ Head(buf) \in Unit
      /\ Len(got[client]) \in Nat /\ Len(buf) \in Nat /\ Len(buf) >= 1
  BY <1>1, HeadTailProperties, LenProperties, EmptySeq DEF Read, IInv, TypeOK
<1>3. /\ Len(got'[client]) = Len(got[client]) + 1 /\ got'[client] # <<>>
  BY <1>1, <1>2, AppendProperties
<1>4. Present /\ Present'
  BY <1>1 DEF Present
<1>5. CASE got[client] = <<>>
  <2>1. Len(got[client]) = 0 /\ Delivered = 0
    BY <1>1, <1>5 DEF Delivered, WholeItems
  <2>2. Delivered' = 1 + (0 \div Parts)
    BY <1>1, <1>3, <2>1 DEF Delivered, WholeItems
  <2>3. 0 \div Parts = 0
    BY PcapAssumption
  <2> QED
    BY <1>1, <1>2, <1>4, <2>1, <2>2, <2>3 DEF Feed!Deliver, Delivered, Present
<1>6. CASE got[client] # <<>>
  <2> DEFINE m == Len(got[client]) - 1
  <2>1. /\ m \in Nat /\ Delivered = 1 + (m \div Parts) /\ Delivered' = 1 + ((m + 1) \div Parts)
    BY <1>1, <1>2, <1>3, <1>6, EmptySeq DEF Delivered, WholeItems
  <2>2. m + 1 <= frames * Parts
    <3>1. Len(got[client] \o buf) <= Written /\ Len(got[client] \o buf) = Len(got[client]) + Len(buf)
      BY <1>1, <1>2, ConcatProperties DEF IInv, Front
    <3>2. Written \in Nat /\ frames * Parts \in Nat /\ Written <= 1 + frames * Parts
      BY WrittenBound DEF IInv
    <3> QED
      BY <1>2, <3>1, <3>2
  <2> HIDE DEF m
  <2>3. \/ (m + 1) \div Parts = m \div Parts
        \/ (m + 1) \div Parts = (m \div Parts) + 1 /\ m \div Parts < frames
    BY <1>2, <2>1, <2>2, OneMore
  <2>4. m \div Parts \in Nat
    BY <2>1, WholeRecords
  <2>5. CASE (m + 1) \div Parts = m \div Parts
    BY <1>1, <1>4, <2>1, <2>5 DEF Feed!vars, Delivered, Present
  <2>6. CASE (m + 1) \div Parts = (m \div Parts) + 1 /\ m \div Parts < frames
    <3>1. Delivered < frames + 1 /\ Delivered' = Delivered + 1
      BY <1>2, <2>1, <2>4, <2>6
    <3> QED
      BY <1>1, <1>4, <3>1 DEF Feed!Deliver, Delivered, Present
  <2> QED
    BY <2>3, <2>5, <2>6
<1> QED
  BY <1>5, <1>6

\* Every step of the session is one of the feed, or none.
LEMMA FeedStep ==
  ASSUME IInv, Next
  PROVE  Feed!Next \/ UNCHANGED Feed!vars
<1>1. CASE AcceptClient
  BY <1>1, AcceptAttaches DEF Feed!Next
<1>2. CASE ReadFrame
  BY <1>2, ReadCaptures DEF Feed!Next
<1>3. CASE \/ ServerInit \/ AcceptFails \/ SendHeader \/ LoopTest \/ ReadNothing \/ WritePart
           \/ WriteFails \/ Stop
  <2>1. UNCHANGED <<client, frames, got, tcp>>
    BY <1>3 DEF ServerInit, AcceptFails, SendHeader, LoopTest, ReadNothing, WritePart, WriteFails, Stop
  <2> QED
    BY <2>1, FeedSame DEF Present
<1>4. CASE Close \/ \E c \in Client : Connect(c)
  <2>1. UNCHANGED <<client, frames, got>> /\ (Present' <=> Present)
    BY <1>4 DEF Close, Connect, IInv, TypeOK, Present
  <2> QED
    BY <2>1, FeedSame
<1>5. ASSUME NEW c \in Client, Read(c)
      PROVE  Feed!Next \/ UNCHANGED Feed!vars
  BY <1>5, ReadDelivers DEF Feed!Next
<1>6. ASSUME NEW c \in Client, Leave(c)
      PROVE  Feed!Next \/ UNCHANGED Feed!vars
  <2>1. UNCHANGED <<client, frames, got>> /\ (Present' => Present)
    BY <1>6 DEF Leave, IInv, TypeOK, Present
  <2>2. CASE Present /\ ~Present'
    <3>1. Delivered' = Delivered
      BY <2>1 DEF Delivered, WholeItems
    <3> QED
      BY <2>1, <2>2, <3>1 DEF Feed!Next, Feed!Leave, Delivered, Present
  <2>3. CASE Present' <=> Present
    BY <2>1, <2>3, FeedSame
  <2> QED
    BY <2>1, <2>2, <2>3
<1> QED
  BY <1>1, <1>2, <1>3, <1>4, <1>5, <1>6 DEF Next, DriverStep

\* The program at the other end of port 37008 sees the header and every frame
\* once and in order, and a client that does not keep up holds the capture
\* back: it is never more than a full buffer and one item behind, for records
\* and buffers of any size (pcap_send_frame, mt7921_rx_loop).  That a viewer
\* that stays does get it, the fairness of FeedSpec, is left to the model
\* checker.
THEOREM FeedSafety == Spec => Feed!Init /\ [][Feed!Next]_(Feed!vars)
<1>1. Init => Feed!Init
  BY DEF Init, Feed!Init
<1>2. ASSUME IInv, [Next]_vars PROVE [Feed!Next]_(Feed!vars)
  <2>1. CASE Next
    BY <1>2, <2>1, FeedStep
  <2>2. CASE UNCHANGED vars
    BY <2>2, FeedSame DEF vars, Present
  <2> QED
    BY <1>2, <2>1, <2>2
<1> QED
  BY <1>1, <1>2, Inductive, PTL DEF Spec
=============================================================================
