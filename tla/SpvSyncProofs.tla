--------------------------- MODULE SpvSyncProofs ---------------------------
(***************************************************************************)
(* Proofs about SpvSync.  The invariant has two halves.                       *)
(*                                                                          *)
(* Talk: the conversation takes turns.  Of the messages that ask or answer at *)
(* most one is under way, in one direction (OneTurn), it fits the request     *)
(* that is waiting (Matching), and while the node talks no request waits for  *)
(* nothing (NoneForgotten).  From it follow the types and OneRequestOut.      *)
(*                                                                          *)
(* Store: what is asked for is stored (AsksStored), so what is saved goes on  *)
(* from the store (NoGap), and a balance ends the conversation                *)
(* (CalmWhenShown).  From both follows that SpvSync implements HeaderChain.   *)
(*                                                                          *)
(* The assumptions are those of SpvSync on its constants.                     *)
(***************************************************************************)
EXTENDS SpvSync, SequenceTheorems, TLAPS

-----------------------------------------------------------------------------
\* The invariant.

\* The messages that take the turn: answers of the node, and what asks for them.
InTypes  == {"ack", "status", "headers", "proofs"}
OutTypes == {"auth", "hello", "getHeaders", "getProofs"}

\* Read and not handled, or on the wire.
Incoming == packets \o wire

Without(q, T) == \A j \in DOMAIN q : q[j].type \notin T

Unique(q, T) == \A j, k \in DOMAIN q : q[j].type \in T /\ q[k].type \in T => j = k

NothingPending(reqs) == \A i \in Id : reqs[i] = None

Idle == NothingPending(requests)

\* How far the streams are.
Streams ==
    /\ ~open => wire = <<>> /\ toNode = <<>> /\ ~talking
    /\ ~handshakeSent =>
          /\ wire = <<>> /\ toNode = <<>> /\ packets = <<>> /\ ~talking
          /\ session = "none" /\ thread = "idle" /\ Idle
    /\ open /\ ~talking =>
          /\ thread = "idle" /\ wire = <<>>
          /\ \/ toNode = <<>>
             \/ toNode = <<[type |-> "auth"]>> /\ packets = <<>> /\ Idle
    /\ thread # "idle" => session = "codec"

\* One step of the conversation is under way at most, in one direction.
OneTurn ==
    /\ Unique(Incoming, InTypes)
    /\ Unique(toNode, OutTypes)
    /\ Without(Incoming, InTypes) \/ Without(toNode, OutTypes)

\* A piece of one branch that starts with b.
Piece(hs, b) ==
    Len(hs) > 1 =>
        \E e \in Block :
            /\ b.height + Len(hs) - 1 = e.height
            /\ Ancestor(e, b.height) = b
            /\ \A i \in 1..Len(hs) : hs[i] = Ancestor(e, b.height + i - 1)

AnswersTo(m, reqs) ==
    /\ m.type \in {"ack", "status"} => NothingPending(reqs)
    /\ m.type = "headers" =>
          /\ reqs[m.id] # None
          /\ reqs[m.id].type = "getHeaders"
          /\ Piece(m.headers, reqs[m.id].block)
    /\ m.type = "proofs" =>
          reqs[m.id] # None /\ reqs[m.id].type = "getProofs"

AsksFor(m, reqs) ==
    /\ m.type \in {"auth", "hello"} => NothingPending(reqs)
    /\ m.type \in RequestTypes => reqs[m.id] = [type |-> m.type, block |-> m.block]

\* What is under way fits what is waited for.
Matching ==
    /\ \A j \in DOMAIN Incoming : AnswersTo(Incoming[j], requests)
    /\ \A j \in DOMAIN toNode : AsksFor(toNode[j], requests)

\* One request waits at most, and none while headers are being saved.
OnePending ==
    /\ \A i, j \in Id : requests[i] # None /\ requests[j] # None => i = j
    /\ thread = "saved" => lesTypes /\ Idle /\ Without(Incoming, InTypes) /\ Without(toNode, OutTypes)
    /\ ~Idle => lesTypes

\* The request, or its answer, is under way.
Carried(i) ==
    \/ \E j \in DOMAIN toNode : toNode[j].type \in RequestTypes /\ toNode[j].id = i
    \/ \E j \in DOMAIN Incoming : Incoming[j].type \in {"headers", "proofs"} /\ Incoming[j].id = i

NoneForgotten == talking => \A i \in Id : requests[i] # None => Carried(i)

Quiet == Without(Incoming, InTypes) /\ Without(toNode, OutTypes)

\* What is asked for is in the store, unless it was cleared.
AsksStored ==
    \A i \in Id : requests[i] # None =>
        /\ requests[i].type = "getHeaders" => requests[i].block \in stored \/ stored = {}
        /\ requests[i].type = "getProofs" => requests[i].block \in LastHeaders(stored) \/ cleared

\* Nothing is asked for any more.
Calm == handshakeSent /\ thread # "saved" /\ Idle /\ Quiet

CalmWhenShown == balance # None /\ ~cleared => Calm

Talk == TypeOK /\ Streams /\ OneTurn /\ Matching /\ OnePending /\ NoneForgotten

Store == NoGap /\ AsksStored /\ CalmWhenShown

SInv == Talk /\ Store

-----------------------------------------------------------------------------
\* Sequences.

LEMMA Tails ==
    ASSUME NEW S, NEW q \in Seq(S), q # <<>>
    PROVE  /\ Tail(q) \in Seq(S) /\ Head(q) \in S /\ Head(q) = q[1] /\ 1 \in DOMAIN q
           /\ \A j \in DOMAIN Tail(q) : j + 1 \in DOMAIN q /\ Tail(q)[j] = q[j + 1]
  OBVIOUS

LEMMA Appends ==
    ASSUME NEW S, NEW q \in Seq(S), NEW m \in S
    PROVE  /\ Append(q, m) \in Seq(S)
           /\ Len(q) + 1 \in DOMAIN Append(q, m) /\ Append(q, m)[Len(q) + 1] = m
           /\ \A j \in DOMAIN q : j \in DOMAIN Append(q, m) /\ Append(q, m)[j] = q[j]
           /\ \A j \in DOMAIN Append(q, m) : j \in DOMAIN q \/ j = Len(q) + 1
  OBVIOUS

LEMMA Cut ==
    ASSUME NEW S, NEW q \in Seq(S), NEW n \in 0..Len(q)
    PROVE  SubSeq(q, 1, n) \o SubSeq(q, n + 1, Len(q)) = q
  <1>1. /\ Len(q) \in Nat /\ 1 \in 1..Len(q) + 1 /\ n \in 1 - 1..Len(q)
        /\ Len(q) \in n..Len(q)
    OBVIOUS
  <1> QED
    BY <1>1, ConcatAdjacentSubSeq, SubSeqFull

LEMMA CutBehind ==
    ASSUME NEW S, NEW p \in Seq(S), NEW q \in Seq(S), NEW n \in 0..Len(q)
    PROVE  /\ p \o SubSeq(q, 1, n) \in Seq(S)
           /\ (p \o SubSeq(q, 1, n)) \o SubSeq(q, n + 1, Len(q)) = p \o q
  <1> DEFINE t == SubSeq(q, 1, n)
             u == SubSeq(q, n + 1, Len(q))
  <1>1. t \in Seq(S) /\ u \in Seq(S)
    OBVIOUS
  <1>2. t \o u = q
    BY Cut
  <1> HIDE DEF t, u
  <1>3. (p \o t) \o u = p \o (t \o u)
    BY <1>1, ConcatAssociative
  <1>4. p \o t \in Seq(S)
    BY <1>1
  <1> QED
    BY <1>2, <1>3, <1>4 DEF t, u

LEMMA TailOfConcat ==
    ASSUME NEW S, NEW q \in Seq(S), NEW r \in Seq(S), q # <<>>
    PROVE  /\ Tail(q) \o r = Tail(q \o r) /\ Tail(q) \in Seq(S)
           /\ Head(q) = (q \o r)[1] /\ 1 \in DOMAIN (q \o r) /\ q \o r # <<>>
  OBVIOUS

LEMMA EmptySeqs == \A S : <<>> \in Seq(S)
  OBVIOUS

-----------------------------------------------------------------------------
\* Types.

LEMMA Ancestors ==
    ASSUME NEW b \in Block, NEW h \in 0..b.height
    PROVE  Ancestor(b, h) \in Block
  <1>1. /\ b.height \in 0..Top /\ b.branch \in {"a", "b"}
        /\ b.height <= ForkPoint => b.branch = "a"
        /\ Top \in Nat /\ ForkPoint \in Nat
    BY SpvAssumption DEF Block
  <1>2. h \in 0..Top
    BY <1>1
  <1>3. Ancestor(b, h).height = h /\ Ancestor(b, h).branch \in {"a", "b"}
    BY <1>1 DEF Ancestor
  <1>4. h <= ForkPoint => Ancestor(b, h).branch = "a"
    BY DEF Ancestor
  <1>5. Ancestor(b, h) \in [height : 0..Top, branch : {"a", "b"}]
    BY <1>1, <1>2 DEF Ancestor
  <1> QED
    BY <1>3, <1>4, <1>5 DEF Block

LEMMA CheckpointInBlock == Checkpoint \in Block
  BY SpvAssumption DEF Checkpoint, Block

LEMMA InitTypes == Init => TypeOK
  BY CheckpointInBlock, EmptySeqs DEF Init, TypeOK

LEMMA SendFrameTypes ==
    ASSUME TypeOK, NEW m \in Sent, NEW registered, SendFrame(m, registered)
    PROVE  toNode' \in Seq(Sent)
  BY Appends DEF TypeOK, SendFrame

LEMMA DisconnectedTypes ==
    ASSUME TypeOK, Disconnected
    PROVE  /\ open' \in BOOLEAN /\ talking' \in BOOLEAN /\ handshakeSent' \in BOOLEAN
           /\ session' \in {"none", "auth", "codec"}
           /\ wire' \in Seq(Received) /\ toNode' \in Seq(Sent)
  BY EmptySeqs DEF TypeOK, Disconnected

ConnTypes ==
    /\ open \in BOOLEAN /\ talking \in BOOLEAN /\ handshakeSent \in BOOLEAN
    /\ session \in {"none", "auth", "codec"}
    /\ wire \in Seq(Received) /\ toNode \in Seq(Sent)

LEMMA ThrownTypes ==
    ASSUME TypeOK, Thrown
    PROVE  ConnTypes' /\ thread' = "reading"
  BY DisconnectedTypes DEF TypeOK, Thrown, ConnTypes, conn

ReqTypes == requests \in [Id -> [type : RequestTypes, block : Block] \cup {None}]

LEMMA RequestTyped ==
    ASSUME TypeOK, NEW type \in RequestTypes, NEW b \in Block, NEW i \in Id,
           NEW registered,
           SendFrame([type |-> type, id |-> i, block |-> b], registered)
    PROVE  /\ [requests EXCEPT ![i] = [type |-> type, block |-> b]]
                  \in [Id -> [type : RequestTypes, block : Block] \cup {None}]
           /\ toNode' \in Seq(Sent)
  <1>1. [type |-> type, id |-> i, block |-> b] \in Sent
    BY DEF Sent
  <1>2. [type |-> type, block |-> b] \in [type : RequestTypes, block : Block]
    OBVIOUS
  <1> QED
    BY <1>1, <1>2, SendFrameTypes DEF TypeOK

LEMMA RequestKeeps ==
    ASSUME TypeOK, NEW type \in RequestTypes, NEW b \in Block, Request(type, b),
           \E i \in Id : requests[i] = None
    PROVE  ReqTypes' /\ ConnTypes'
  <1>1. PICK i \in Id :
           /\ requests' = [requests EXCEPT ![i] = [type |-> type, block |-> b]]
           /\ SendFrame([type |-> type, id |-> i, block |-> b], lesTypes)
           /\ UNCHANGED <<conn, wire>>
    BY DEF Request
  <1>2. ReqTypes' /\ toNode' \in Seq(Sent)
    BY <1>1, RequestTyped DEF ReqTypes
  <1> QED
    BY <1>1, <1>2 DEF ConnTypes, conn, TypeOK

LEMMA NextFrame ==
    ASSUME TypeOK, packets # <<>>
    PROVE  /\ Incoming \in Seq(Received) /\ Incoming # <<>> /\ 1 \in DOMAIN Incoming
           /\ Incoming[1] = Head(packets) /\ Head(Incoming) = Head(packets)
           /\ Head(packets) \in Received /\ Tail(packets) \in Seq(Received)
           /\ Tail(packets) \o wire = Tail(Incoming)
  BY DEF TypeOK, Incoming

LEMMA Pieces ==
    ASSUME TypeOK, NEW b \in Block, Canonical(b), NEW k \in Nat,
           k <= head.height - b.height + 1
    PROVE  [i \in 1..k |-> Ancestor(head, b.height + i - 1)] \in Seq(Block)
  <1>1. head.height \in Nat /\ b.height \in Nat /\ head \in Block
    BY SpvAssumption DEF TypeOK, Block
  <1>2. \A i \in 1..k : Ancestor(head, b.height + i - 1) \in Block
    <2> SUFFICES ASSUME NEW i \in 1..k PROVE Ancestor(head, b.height + i - 1) \in Block
      OBVIOUS
    <2>1. b.height + i - 1 \in 0..head.height
      BY <1>1
    <2> QED
      BY <1>1, <2>1, Ancestors
  <1> QED
    BY <1>2

LEMMA HeadersTyped ==
    ASSUME TypeOK, NEW b \in Block
    PROVE  HeadersFrom(b) \subseteq Seq(Block)
  <1>1. CASE Canonical(b)
    <2> DEFINE n == head.height - b.height + 1
               k == IF n < MaxHeaders THEN n ELSE MaxHeaders
    <2>1. n \in Nat
      BY <1>1, SpvAssumption DEF Canonical, TypeOK, Block
    <2>2. k \in Nat /\ k <= n
      BY <2>1, SpvAssumption
    <2>3. HeadersFrom(b) = {[i \in 1..k |-> Ancestor(head, b.height + i - 1)]}
      BY <1>1 DEF HeadersFrom
    <2> QED
      BY <1>1, <2>2, <2>3, Pieces
  <1>2. CASE ~Canonical(b)
    <2>1. <<b>> \in Seq(Block) /\ <<>> \in Seq(Block)
      BY EmptySeqs
    <2> QED
      BY <1>2, <2>1 DEF HeadersFrom
  <1> QED
    BY <1>1, <1>2

LEMMA Answers ==
    ASSUME TypeOK, NEW m, NEW answers, NodeSees(answers), answers \in Seq(Received),
           toNode # <<>>
    PROVE  TypeOK'
  BY Tails DEF NodeSees, TypeOK, store

LEMMA ReceivedKinds ==
    ASSUME NEW m \in Received
    PROVE  /\ m.type = "headers" => m.id \in Id /\ m.headers \in Seq(Block)
           /\ m.type = "proofs" => m.id \in Id /\ m.proof \in Block \cup {None}
           /\ m.type = "hello" => m.shared \in BOOLEAN
  BY DEF Received

LEMMA SentKinds ==
    ASSUME NEW m \in Sent
    PROVE  /\ m.type \in {"auth", "hello", "status", "getHeaders", "getProofs"}
           /\ m.type \in RequestTypes => m.id \in Id /\ m.block \in Block
  BY DEF Sent, RequestTypes

LEMMA SyncBlocksTypes ==
    ASSUME TypeOK, Idle, SyncBlocks
    PROVE  ReqTypes' /\ ConnTypes'
  <1>1. CASE NothingAsked
    BY <1>1 DEF NothingAsked, ReqTypes, ConnTypes, conn, TypeOK
  <1>2. ASSUME NEW b \in LastHeaders(stored), Request("getHeaders", b) PROVE ReqTypes' /\ ConnTypes'
    <2>1. b \in Block /\ "getHeaders" \in RequestTypes /\ 1 \in Id
      BY DEF LastHeaders, TypeOK, RequestTypes, Id
    <2> QED
      BY <1>2, <2>1, RequestKeeps DEF Idle, NothingPending
  <1> QED
    BY <1>1, <1>2 DEF SyncBlocks

\* What a handler leaves alone.
LEMMA FrameTypes ==
    ASSUME TypeOK, NEW m, Frame(m), ReqTypes', ConnTypes',
           stored' \subseteq Block, balance' \in Block \cup {None}, cleared' = cleared,
           thread' \in {"idle", "reading", "saved"}, lesTypes' \in BOOLEAN
    PROVE  TypeOK'
  <1>1. packets' \in Seq(Received) /\ head' = head /\ known' = known
    BY NextFrame DEF Frame
  <1> QED
    BY <1>1 DEF TypeOK, ReqTypes, ConnTypes

LEMMA HelloTypes == ASSUME TypeOK, NEW m, Hello(m) PROVE TypeOK'
  <1>1. Frame(m) /\ m \in Received /\ UNCHANGED <<store, requests>>
    BY NextFrame DEF Hello, Frame
  <1>2. ConnTypes' /\ thread' \in {"idle", "reading", "saved"} /\ lesTypes' \in BOOLEAN
    <2>1. CASE m.shared
      <3>1. [type |-> "status"] \in Sent
        BY DEF Sent
      <3>2. toNode' \in Seq(Sent)
        BY <2>1, <3>1, SendFrameTypes DEF Hello
      <3> QED
        BY <2>1, <3>2 DEF Hello, conn, ConnTypes, TypeOK
    <2>2. CASE ~m.shared
      BY <2>2, ThrownTypes DEF Hello, TypeOK
    <2> QED
      BY <2>1, <2>2
  <1> QED
    BY <1>1, <1>2, FrameTypes DEF TypeOK, ReqTypes, store

LEMMA OtherTypes == ASSUME TypeOK, NEW m, Other(m) PROVE TypeOK'
  <1>1. Frame(m) /\ UNCHANGED <<store, requests, lesTypes>>
    BY DEF Other
  <1>2. ConnTypes' /\ thread' \in {"idle", "reading", "saved"}
    <2>1. CASE Thrown
      BY <2>1, ThrownTypes
    <2>2. CASE UNCHANGED <<conn, wire, toNode, thread>>
      BY <2>2 DEF conn, ConnTypes, TypeOK
    <2> QED
      BY <2>1, <2>2 DEF Other
  <1> QED
    BY <1>1, <1>2, FrameTypes DEF TypeOK, ReqTypes, store

LEMMA StatusTypes == ASSUME TypeOK, Matching, NEW m, Status(m) PROVE TypeOK'
  <1>1. Frame(m) /\ m.type = "status" /\ UNCHANGED <<store, lesTypes>>
    BY DEF Status
  <1>2. Idle
    <2>1. AnswersTo(Incoming[1], requests) /\ Incoming[1] = m
      BY <1>1, NextFrame DEF Matching, Frame
    <2> QED
      BY <1>1, <2>1 DEF AnswersTo, Idle
  <1>3. ReqTypes' /\ ConnTypes' /\ thread' \in {"idle", "reading", "saved"}
    <2>1. CASE SyncBlocks /\ UNCHANGED thread
      BY <1>2, <2>1, SyncBlocksTypes DEF TypeOK
    <2>2. CASE Thrown /\ UNCHANGED requests
      BY <2>2, ThrownTypes DEF TypeOK, ReqTypes
    <2> QED
      BY <2>1, <2>2 DEF Status
  <1> QED
    BY <1>1, <1>3, FrameTypes DEF TypeOK, store

LEMMA RemovedTypes ==
    ASSUME TypeOK, NEW i \in Id
    PROVE  Removed(i) \in [Id -> [type : RequestTypes, block : Block] \cup {None}]
  BY DEF TypeOK, Removed

LEMMA HeadersTypes == ASSUME TypeOK, NEW m, Headers(m) PROVE TypeOK'
  <1>1. Frame(m) /\ m.type = "headers" /\ UNCHANGED lesTypes /\ m \in Received
    BY NextFrame DEF Headers, Frame
  <1>2. m.id \in Id /\ m.headers \in Seq(Block)
    BY <1>1, ReceivedKinds
  <1>3. Removed(m.id) \in [Id -> [type : RequestTypes, block : Block] \cup {None}]
    BY <1>2, RemovedTypes
  <1>4. CASE Thrown /\ UNCHANGED <<requests, store>>
    BY <1>1, <1>4, FrameTypes, ThrownTypes DEF TypeOK, ReqTypes, store
  <1>5. CASE /\ requests' = Removed(m.id)
             /\ UNCHANGED <<conn, wire, toNode, thread, store>>
    BY <1>1, <1>3, <1>5, FrameTypes DEF TypeOK, ReqTypes, ConnTypes, store, conn
  <1>6. ASSUME NEW b \in LastHeaders(stored),
               requests' = [Removed(m.id) EXCEPT ![m.id] = [type |-> "getProofs", block |-> b]],
               SendFrame([type |-> "getProofs", id |-> m.id, block |-> b], lesTypes),
               UNCHANGED <<conn, wire, thread, store>>
        PROVE  TypeOK'
    <2>1. b \in Block /\ "getProofs" \in RequestTypes
      BY DEF LastHeaders, TypeOK, RequestTypes
    <2>2. toNode' \in Seq(Sent)
      BY <1>2, <1>6, <2>1, RequestTyped
    <2>3. requests' \in [Id -> [type : RequestTypes, block : Block] \cup {None}]
      BY <1>2, <1>3, <1>6, <2>1
    <2> QED
      BY <1>1, <1>6, <2>2, <2>3, FrameTypes DEF TypeOK, ReqTypes, ConnTypes, store, conn
  <1>7. CASE /\ requests' = Removed(m.id)
             /\ stored' = stored \cup Saved(m.headers)
             /\ thread' = "saved"
             /\ UNCHANGED <<conn, wire, toNode, balance, cleared>>
    <2>1. stored' \subseteq Block
      BY <1>2, <1>7 DEF Saved, TypeOK
    <2> QED
      BY <1>1, <1>3, <1>7, <2>1, FrameTypes DEF TypeOK, ReqTypes, ConnTypes, store, conn
  <1> QED
    BY <1>4, <1>5, <1>6, <1>7 DEF Headers

LEMMA ProofsTypes == ASSUME TypeOK, NEW m, Proofs(m) PROVE TypeOK'
  <1>1. Frame(m) /\ m.type = "proofs" /\ UNCHANGED <<stored, cleared, lesTypes>> /\ m \in Received
    BY NextFrame DEF Proofs, Frame
  <1>2. m.id \in Id /\ m.proof \in Block \cup {None}
    BY <1>1, ReceivedKinds
  <1>3. ReqTypes'
    BY <1>2, RemovedTypes DEF Proofs, TypeOK, ReqTypes
  <1>4. ConnTypes' /\ thread' \in {"idle", "reading", "saved"}
    <2>1. CASE Thrown
      BY <2>1, ThrownTypes
    <2>2. CASE UNCHANGED <<conn, wire, toNode, thread>>
      BY <2>2 DEF conn, ConnTypes, TypeOK
    <2> QED
      BY <2>1, <2>2 DEF Proofs
  <1>5. balance' \in Block \cup {None}
    BY <1>2 DEF Proofs, TypeOK
  <1> QED
    BY <1>1, <1>3, <1>4, <1>5, FrameTypes DEF TypeOK

LEMMA RestartTypes == ASSUME TypeOK, Restart PROVE TypeOK'
  <1>1. StoredAtStart(stored) \subseteq Block
    BY CheckpointInBlock DEF StoredAtStart, TypeOK
  <1>2. known' \in Block /\ stored' \subseteq Block /\ head' = head
    BY <1>1 DEF Restart, MadeFrom, LastHeaders
  <1> QED
    BY <1>2, EmptySeqs DEF Restart, MadeFrom, TypeOK

LEMMA HandshakeTypes == ASSUME TypeOK, InitiateHandshake PROVE TypeOK'
  <1>1. [type |-> "auth"] \in Sent
    BY DEF Sent
  <1>2. toNode' \in Seq(Sent)
    BY <1>1, Appends DEF InitiateHandshake, TypeOK
  <1> QED
    BY <1>2 DEF InitiateHandshake, TypeOK, store

\* What arrives goes from the wire to the buffer.
LEMMA Arrives ==
    ASSUME TypeOK, NEW n \in 0..Len(wire)
    PROVE  LET buffer == packets \o SubSeq(wire, 1, n)
               rest   == SubSeq(wire, n + 1, Len(wire))
           IN  /\ buffer \in Seq(Received) /\ rest \in Seq(Received)
               /\ buffer \o rest = Incoming
               /\ \A j \in DOMAIN buffer : j \in DOMAIN Incoming /\ buffer[j] = Incoming[j]
               /\ buffer # <<>> =>
                     /\ Tail(buffer) \in Seq(Received)
                     /\ Tail(buffer) \o rest = Tail(Incoming)
                     /\ Head(buffer) = Incoming[1] /\ 1 \in DOMAIN Incoming
                     /\ Incoming # <<>>
  <1> DEFINE buffer == packets \o SubSeq(wire, 1, n)
             rest   == SubSeq(wire, n + 1, Len(wire))
  <1>1. packets \in Seq(Received) /\ wire \in Seq(Received)
    BY DEF TypeOK
  <1>2. /\ SubSeq(wire, 1, n) \in Seq(Received) /\ rest \in Seq(Received)
        /\ Len(SubSeq(wire, 1, n)) = n /\ Len(rest) = Len(wire) - n
        /\ \A j \in 1..n : SubSeq(wire, 1, n)[j] = wire[j]
        /\ \A j \in 1..Len(rest) : rest[j] = wire[n + j]
    BY <1>1
  <1>3. buffer \in Seq(Received) /\ buffer \o rest = packets \o wire
    BY <1>1, CutBehind
  <1> HIDE DEF rest
  <1> HIDE DEF buffer
  <1>4. /\ \A j \in DOMAIN buffer : j \in DOMAIN Incoming /\ buffer[j] = Incoming[j]
        /\ buffer \o rest = Incoming
    BY <1>2, <1>3 DEF Incoming
  <1>5. ASSUME buffer # <<>>
        PROVE  /\ Tail(buffer) \in Seq(Received)
               /\ Tail(buffer) \o rest = Tail(buffer \o rest)
               /\ Head(buffer) = (buffer \o rest)[1] /\ 1 \in DOMAIN (buffer \o rest)
               /\ buffer \o rest # <<>>
    BY <1>2, <1>3, <1>5, TailOfConcat
  <1> QED
    BY <1>2, <1>3, <1>4, <1>5 DEF buffer, rest

LEMMA BytesTypes ==
    ASSUME TypeOK, NEW n \in 0..Len(wire), NEW p \in BOOLEAN, Bytes(n, p)
    PROVE  TypeOK'
  <1> DEFINE buffer == packets \o SubSeq(wire, 1, n)
             rest   == SubSeq(wire, n + 1, Len(wire))
  <1>1. /\ buffer \in Seq(Received) /\ rest \in Seq(Received)
        /\ buffer # <<>> => Tail(buffer) \in Seq(Received)
    BY Arrives
  <1>2. UNCHANGED <<store, known, requests, lesTypes, head>>
    BY DEF Bytes
  <1> HIDE DEF buffer, rest
  <1>3. CASE /\ buffer # <<>> /\ packets' = Tail(buffer) /\ session' = "codec"
             /\ toNode' = Append(toNode, [type |-> "hello"]) /\ wire' = rest
             /\ UNCHANGED <<open, handshakeSent, talking, thread>>
    <2>1. [type |-> "hello"] \in Sent
      BY DEF Sent
    <2>2. toNode' \in Seq(Sent)
      BY <1>3, <2>1, Appends DEF TypeOK
    <2> QED
      BY <1>1, <1>2, <1>3, <2>2 DEF TypeOK, store
  <1>4. CASE packets' = buffer /\ Disconnected /\ UNCHANGED thread
    BY <1>1, <1>2, <1>4, DisconnectedTypes DEF TypeOK, store
  <1>5. CASE packets' = buffer /\ wire' = rest /\ UNCHANGED <<conn, toNode, thread>>
    BY <1>1, <1>2, <1>5 DEF TypeOK, store, conn
  <1>6. CASE packets' = buffer /\ thread' = "reading" /\ wire' = rest /\ UNCHANGED <<conn, toNode>>
    BY <1>1, <1>2, <1>6 DEF TypeOK, store, conn
  <1> QED
    BY <1>3, <1>4, <1>5, <1>6 DEF Bytes, buffer, rest

LEMMA SyncOnTypes == ASSUME TypeOK, Idle, SyncOn PROVE TypeOK'
  <1>1. ReqTypes' /\ ConnTypes'
    BY SyncBlocksTypes DEF SyncOn
  <1> QED
    BY <1>1 DEF SyncOn, ReqTypes, ConnTypes, TypeOK, store

LEMMA NoiseTypes ==
    ASSUME TypeOK, NEW type \in {"noise", "disconnect"}, NodeNoise(type)
    PROVE  TypeOK'
  <1>1. [type |-> type] \in Received
    BY DEF Received
  <1>2. wire' \in Seq(Received)
    BY <1>1, Appends DEF NodeNoise, TypeOK
  <1> QED
    BY <1>2 DEF NodeNoise, TypeOK, store, conn

LEMMA GrowsTypes == ASSUME TypeOK, NodeGrows PROVE TypeOK'
  <1>1. head' \in Block
    BY SpvAssumption DEF NodeGrows, TypeOK, Block
  <1> QED
    BY <1>1 DEF NodeGrows, TypeOK, store, conn

LEMMA ReorganisedTypes == ASSUME TypeOK, Reorganised PROVE TypeOK'
  <1>1. head' \in Block
    BY SpvAssumption DEF Reorganised, TypeOK, Block
  <1> QED
    BY <1>1 DEF Reorganised, TypeOK, store, conn

LEMMA AncestorsOfAncestor ==
    ASSUME NEW b \in Block, NEW h \in 0..b.height, NEW g \in 0..h
    PROVE  Ancestor(Ancestor(b, h), g) = Ancestor(b, g)
  <1>1. b.height \in Nat /\ ForkPoint \in Nat
    BY SpvAssumption DEF Block
  <1>2. g \in Nat /\ h \in Nat /\ g <= h
    BY <1>1
  <1>3. Ancestor(b, h).branch = IF h <= ForkPoint THEN "a" ELSE b.branch
    BY DEF Ancestor
  <1>4. (IF g <= ForkPoint THEN "a" ELSE Ancestor(b, h).branch)
            = (IF g <= ForkPoint THEN "a" ELSE b.branch)
    BY <1>1, <1>2, <1>3
  <1> QED
    BY <1>4 DEF Ancestor

LEMMA HeadersArePiece ==
    ASSUME TypeOK, NEW b \in Block, NEW hs \in HeadersFrom(b)
    PROVE  Piece(hs, b)
  <1>1. CASE Canonical(b)
    <2> DEFINE n == head.height - b.height + 1
               k == IF n < MaxHeaders THEN n ELSE MaxHeaders
               e == Ancestor(head, b.height + k - 1)
    <2>1. /\ n \in Nat /\ n >= 1 /\ b = Ancestor(head, b.height) /\ head \in Block
          /\ b.height \in Nat /\ head.height \in Nat
      BY <1>1, SpvAssumption DEF Canonical, TypeOK, Block
    <2>2. k \in Nat /\ k <= n /\ k >= 1
      BY <2>1, SpvAssumption
    <2>3. hs = [i \in 1..k |-> Ancestor(head, b.height + i - 1)]
      BY <1>1 DEF HeadersFrom
    <2> HIDE DEF k
    <2>4. Len(hs) = k /\ \A i \in 1..k : hs[i] = Ancestor(head, b.height + i - 1)
      BY <2>2, <2>3
    <2>5. b.height + k - 1 \in 0..head.height
      BY <2>1, <2>2
    <2>6. e \in Block /\ e.height = b.height + k - 1
      BY <2>1, <2>5, Ancestors DEF Ancestor
    <2>7. \A i \in 1..k : Ancestor(e, b.height + i - 1) = Ancestor(head, b.height + i - 1)
      <3> SUFFICES ASSUME NEW i \in 1..k
                   PROVE  Ancestor(e, b.height + i - 1) = Ancestor(head, b.height + i - 1)
        OBVIOUS
      <3>1. b.height + i - 1 \in 0..(b.height + k - 1)
        BY <2>1, <2>2
      <3> QED
        BY <2>1, <2>5, <3>1, AncestorsOfAncestor
    <2>8. Ancestor(e, b.height) = b
      <3>1. b.height \in 0..(b.height + k - 1)
        BY <2>1, <2>2
      <3> QED
        BY <2>1, <2>5, <3>1, AncestorsOfAncestor
    <2> HIDE DEF e
    <2> QED
      BY <2>4, <2>6, <2>7, <2>8 DEF Piece
  <1>2. CASE ~Canonical(b)
    <2>1. hs = <<b>> \/ hs = <<>>
      BY <1>2 DEF HeadersFrom
    <2>2. \A q : q = <<b>> \/ q = <<>> => Len(q) \in {0, 1}
      OBVIOUS
    <2>3. ~(Len(hs) > 1)
      <3>1. Len(hs) \in {0, 1}
        BY <2>1, <2>2, Zenon
      <3>2. \A n \in {0, 1} : ~(n > 1)
        OBVIOUS
      <3> QED
        BY <3>1, <3>2, Zenon
    <2> QED
      BY <2>3 DEF Piece
  <1> QED
    BY <1>1, <1>2

\* The answers are of one turn, fit the requests, and carry on what was asked.
Fits(answers) ==
    /\ Unique(answers, InTypes)
    /\ \A j \in DOMAIN answers : AnswersTo(answers[j], requests)
    /\ toNode[1].type \in RequestTypes =>
          \E j \in DOMAIN answers :
              answers[j].type \in {"headers", "proofs"} /\ answers[j].id = toNode[1].id

LEMMA OneAnswer ==
    ASSUME NEW m, AnswersTo(m, requests),
           toNode[1].type \in RequestTypes => m.type \in {"headers", "proofs"} /\ m.id = toNode[1].id
    PROVE  Fits(<<m>>)
  <1>1. DOMAIN <<m>> = {1} /\ <<m>>[1] = m
    OBVIOUS
  <1> QED
    BY <1>1 DEF Fits, Unique

LEMMA TwoAnswers ==
    ASSUME NEW m, NEW n, AnswersTo(m, requests), n.type \notin InTypes,
           toNode[1].type \notin RequestTypes
    PROVE  Fits(<<m, n>>)
  <1>1. DOMAIN <<m, n>> = {1, 2} /\ <<m, n>>[1] = m /\ <<m, n>>[2] = n
    OBVIOUS
  <1>2. AnswersTo(n, requests)
    BY DEF AnswersTo, InTypes
  <1> QED
    BY <1>1, <1>2 DEF Fits, Unique

LEMMA NodeAnswered ==
    ASSUME TypeOK, Matching, NodeAnswers
    PROVE  /\ toNode # <<>> /\ toNode[1] \in Sent /\ 1 \in DOMAIN toNode
           /\ \E answers \in Seq(Received) :
                 /\ NodeSees(answers)
                 /\ \/ toNode[1].type \in OutTypes /\ Fits(answers)
                    \/ toNode[1].type \notin OutTypes /\ answers = <<>>
  <1> DEFINE m == Head(toNode)
  <1>1. toNode # <<>> /\ m \in Sent /\ m = toNode[1] /\ 1 \in DOMAIN toNode
    BY Tails DEF NodeAnswers, TypeOK
  <1>2. m.type \in RequestTypes => m.id \in Id /\ m.block \in Block
    BY <1>1, SentKinds
  <1>3. /\ m.type \in {"auth", "hello"} => NothingPending(requests)
        /\ m.type \in RequestTypes => requests[m.id] = [type |-> m.type, block |-> m.block]
    BY <1>1 DEF Matching, AsksFor
  <1>4. m.type \in RequestTypes => requests[m.id] # None
    <2>1. m.type \in RequestTypes =>
             [type |-> m.type, block |-> m.block] \in [type : RequestTypes, block : Block]
      BY <1>2
    <2> QED
      BY <1>3, <2>1, NoneAssumption
  <1>5. ASSUME m.type = "auth", NEW shared \in BOOLEAN
        PROVE  /\ <<[type |-> "ack"], [type |-> "hello", shared |-> shared]>> \in Seq(Received)
               /\ Fits(<<[type |-> "ack"], [type |-> "hello", shared |-> shared]>>)
    <2>1. AnswersTo([type |-> "ack"], requests)
      BY <1>3, <1>5 DEF AnswersTo
    <2>2. [type |-> "hello", shared |-> shared].type \notin InTypes
      BY DEF InTypes
    <2>3. Fits(<<[type |-> "ack"], [type |-> "hello", shared |-> shared]>>)
      BY <1>1, <1>5, <2>1, <2>2, TwoAnswers DEF RequestTypes
    <2> QED
      BY <2>3 DEF Received
  <1>6. ASSUME m.type = "auth"
        PROVE  /\ <<[type |-> "noAck"], [type |-> "noise"]>> \in Seq(Received)
               /\ Fits(<<[type |-> "noAck"], [type |-> "noise"]>>)
    <2>1. AnswersTo([type |-> "noAck"], requests)
      BY DEF AnswersTo
    <2>2. [type |-> "noise"].type \notin InTypes
      BY DEF InTypes
    <2>3. Fits(<<[type |-> "noAck"], [type |-> "noise"]>>)
      BY <1>1, <1>6, <2>1, <2>2, TwoAnswers DEF RequestTypes
    <2> QED
      BY <2>3 DEF Received
  <1>7. ASSUME m.type = "hello", NEW ours \in BOOLEAN
        PROVE  /\ <<[type |-> "status", ours |-> ours, height |-> head.height]>> \in Seq(Received)
               /\ Fits(<<[type |-> "status", ours |-> ours, height |-> head.height]>>)
    <2>1. head.height \in Nat
      BY SpvAssumption DEF TypeOK, Block
    <2>2. AnswersTo([type |-> "status", ours |-> ours, height |-> head.height], requests)
      BY <1>3, <1>7 DEF AnswersTo
    <2>3. Fits(<<[type |-> "status", ours |-> ours, height |-> head.height]>>)
      BY <1>1, <1>7, <2>2, OneAnswer DEF RequestTypes
    <2> QED
      BY <2>1, <2>3 DEF Received
  <1>8. ASSUME m.type = "getHeaders", NEW hs \in HeadersFrom(m.block)
        PROVE  /\ <<[type |-> "headers", id |-> m.id, headers |-> hs]>> \in Seq(Received)
               /\ Fits(<<[type |-> "headers", id |-> m.id, headers |-> hs]>>)
    <2>1. m.type \in RequestTypes /\ m.block \in Block /\ m.id \in Id
      BY <1>2, <1>8 DEF RequestTypes
    <2>2. hs \in Seq(Block) /\ Piece(hs, m.block)
      BY <2>1, HeadersTyped, HeadersArePiece
    <2>3. AnswersTo([type |-> "headers", id |-> m.id, headers |-> hs], requests)
      BY <1>3, <1>4, <1>8, <2>1, <2>2 DEF AnswersTo
    <2>4. Fits(<<[type |-> "headers", id |-> m.id, headers |-> hs]>>)
      BY <1>1, <2>3, OneAnswer
    <2> QED
      BY <2>1, <2>2, <2>4 DEF Received
  <1>9. ASSUME m.type = "getProofs", NEW proof \in {m.block, head, None}
        PROVE  /\ <<[type |-> "proofs", id |-> m.id, proof |-> proof]>> \in Seq(Received)
               /\ Fits(<<[type |-> "proofs", id |-> m.id, proof |-> proof]>>)
    <2>1. m.type \in RequestTypes /\ m.block \in Block /\ m.id \in Id
      BY <1>2, <1>9 DEF RequestTypes
    <2>2. proof \in Block \cup {None}
      BY <2>1 DEF TypeOK
    <2>3. AnswersTo([type |-> "proofs", id |-> m.id, proof |-> proof], requests)
      BY <1>3, <1>4, <1>9, <2>1 DEF AnswersTo
    <2>4. Fits(<<[type |-> "proofs", id |-> m.id, proof |-> proof]>>)
      BY <1>1, <2>3, OneAnswer
    <2> QED
      BY <2>1, <2>2, <2>4 DEF Received
  <1>10. CASE m.type = "status" /\ NodeSees(<<>>)
    BY <1>1, <1>10, EmptySeqs DEF OutTypes
  <1>11. CASE m.type = "auth"
    BY <1>1, <1>5, <1>6, <1>11 DEF NodeAnswers, OutTypes
  <1>12. CASE m.type = "hello"
    BY <1>1, <1>7, <1>12 DEF NodeAnswers, OutTypes
  <1>13. CASE m.type = "getHeaders"
    BY <1>1, <1>8, <1>13 DEF NodeAnswers, OutTypes
  <1>14. CASE m.type = "getProofs"
    BY <1>1, <1>9, <1>14 DEF NodeAnswers, OutTypes
  <1> QED
    BY <1>10, <1>11, <1>12, <1>13, <1>14 DEF NodeAnswers

LEMMA StepTypes == ASSUME TypeOK, Matching, OnePending, [Next]_vars PROVE TypeOK'
  <1>1. CASE Restart
    BY <1>1, RestartTypes
  <1>2. CASE Connect
    BY <1>2, EmptySeqs DEF Connect, TypeOK, store
  <1>3. CASE Clear
    BY <1>3 DEF Clear, TypeOK, conn
  <1>4. CASE InitiateHandshake
    BY <1>4, HandshakeTypes
  <1>5. CASE Closed
    BY <1>5, DisconnectedTypes DEF Closed, TypeOK, store
  <1>6. CASE BytesArrive
    BY <1>6, BytesTypes DEF BytesArrive
  <1>7. CASE ReadAll
    BY <1>7 DEF ReadAll, TypeOK, store, conn
  <1>8. CASE HandleFrame
    BY <1>8, HelloTypes, OtherTypes, StatusTypes, HeadersTypes, ProofsTypes DEF HandleFrame
  <1>9. CASE SyncOn
    BY <1>9, SyncOnTypes DEF OnePending, SyncOn
  <1>10. CASE NodeAnswers
    BY <1>10, NodeAnswered, Answers
  <1>11. CASE NodeGrows
    BY <1>11, GrowsTypes
  <1>12. CASE Reorganised
    BY <1>12, ReorganisedTypes
  <1>13. CASE \E type \in {"noise", "disconnect"} : NodeNoise(type)
    BY <1>13, NoiseTypes
  <1>14. CASE UNCHANGED vars
    BY <1>14 DEF vars, TypeOK, store, conn
  <1> QED
    BY <1>1, <1>2, <1>3, <1>4, <1>5, <1>6, <1>7, <1>8, <1>9, <1>10, <1>11, <1>12, <1>13, <1>14 DEF Next
-----------------------------------------------------------------------------
\* One turn at a time.

\* p is a piece of q.
Within(p, q) == \E d \in Nat : \A j \in DOMAIN p : j + d \in DOMAIN q /\ p[j] = q[j + d]

LEMMA WithinTurn ==
    ASSUME NEW S, NEW p \in Seq(S), NEW q \in Seq(S), Within(p, q), NEW T
    PROVE  /\ Without(q, T) => Without(p, T)
           /\ Unique(q, T) => Unique(p, T)
  <1>1. PICK d \in Nat : \A j \in DOMAIN p : j + d \in DOMAIN q /\ p[j] = q[j + d]
    BY DEF Within
  <1>2. DOMAIN p \subseteq Nat
    OBVIOUS
  <1>3. Without(q, T) => Without(p, T)
    BY <1>1 DEF Without
  <1>4. ASSUME Unique(q, T), NEW j \in DOMAIN p, NEW k \in DOMAIN p,
               p[j].type \in T, p[k].type \in T
        PROVE  j = k
    <2>1. j + d = k + d
      BY <1>1, <1>4 DEF Unique
    <2> QED
      BY <1>2, <2>1
  <1> QED
    BY <1>3, <1>4 DEF Unique

LEMMA WithinTail ==
    ASSUME NEW S, NEW q \in Seq(S), q # <<>>
    PROVE  Within(Tail(q), q)
  <1>1. 1 \in Nat /\ \A j \in DOMAIN Tail(q) : j + 1 \in DOMAIN q /\ Tail(q)[j] = q[j + 1]
    BY Tails
  <1> QED
    BY <1>1 DEF Within

LEMMA WithinSame ==
    ASSUME NEW S, NEW p \in Seq(S), NEW q,
           \A j \in DOMAIN p : j \in DOMAIN q /\ p[j] = q[j]
    PROVE  Within(p, q)
  <1>1. 0 \in Nat /\ \A j \in DOMAIN p : j + 0 = j
    OBVIOUS
  <1> QED
    BY <1>1 DEF Within

\* The turn is taken with the first message.
LEMMA TurnTaken ==
    ASSUME NEW S, NEW q \in Seq(S), q # <<>>, NEW T, Unique(q, T), q[1].type \in T
    PROVE  Without(Tail(q), T)
  <1> SUFFICES ASSUME NEW j \in DOMAIN Tail(q), Tail(q)[j].type \in T PROVE FALSE
    BY DEF Without
  <1>1. j + 1 \in DOMAIN q /\ q[j + 1].type \in T /\ 1 \in DOMAIN q
    BY Tails
  <1>2. j + 1 = 1
    BY <1>1 DEF Unique
  <1> QED
    BY <1>2

LEMMA AppendTurn ==
    ASSUME NEW S, NEW q \in Seq(S), NEW m \in S, NEW T
    PROVE  /\ Without(q, T) => Unique(Append(q, m), T)
           /\ m.type \notin T /\ Without(q, T) => Without(Append(q, m), T)
           /\ m.type \notin T /\ Unique(q, T) => Unique(Append(q, m), T)
  <1>1. \A j \in DOMAIN Append(q, m) :
           \/ j \in DOMAIN q /\ Append(q, m)[j] = q[j]
           \/ j = Len(q) + 1 /\ Append(q, m)[j] = m
    BY Appends
  <1> QED
    BY <1>1 DEF Without, Unique

LEMMA QuietMatches == Quiet => OneTurn /\ Matching
  BY DEF Quiet, OneTurn, Matching, Without, Unique, AnswersTo, AsksFor, InTypes, OutTypes,
         RequestTypes

LEMMA QuietMatchesNext == Quiet' => OneTurn' /\ Matching'
  BY QuietMatches, PTL

LEMMA IncomingTyped == TypeOK => Incoming \in Seq(Received) /\ toNode \in Seq(Sent)
  BY DEF TypeOK, Incoming

LEMMA IncomingTypedNext == (TypeOK => Incoming \in Seq(Received) /\ toNode \in Seq(Sent))'
  BY IncomingTyped, PTL

\* No message is new, no request is.
LEMMA NothingNew ==
    ASSUME TypeOK, TypeOK', OneTurn, Matching,
           Within(Incoming', Incoming), Within(toNode', toNode), requests' = requests
    PROVE  /\ OneTurn' /\ Matching'
           /\ Without(Incoming, InTypes) => Without(Incoming', InTypes)
           /\ Without(toNode, OutTypes) => Without(toNode', OutTypes)
  <1>1. /\ Incoming \in Seq(Received) /\ toNode \in Seq(Sent)
        /\ Incoming' \in Seq(Received) /\ toNode' \in Seq(Sent)
    BY IncomingTyped, IncomingTypedNext
  <1>2. /\ Without(Incoming, InTypes) => Without(Incoming', InTypes)
        /\ Without(toNode, OutTypes) => Without(toNode', OutTypes)
        /\ Unique(Incoming, InTypes) => Unique(Incoming', InTypes)
        /\ Unique(toNode, OutTypes) => Unique(toNode', OutTypes)
    BY <1>1, WithinTurn
  <1>3. OneTurn'
    BY <1>2 DEF OneTurn
  <1>4. \A j \in DOMAIN Incoming' : AnswersTo(Incoming'[j], requests')
    BY DEF Within, Matching
  <1>5. \A j \in DOMAIN toNode' : AsksFor(toNode'[j], requests')
    BY DEF Within, Matching
  <1> QED
    BY <1>2, <1>3, <1>4, <1>5 DEF Matching

\* A message goes out when nothing else is under way.
LEMMA SentNew ==
    ASSUME TypeOK', Without(Incoming', InTypes), NEW q \in Seq(Sent), Without(q, OutTypes),
           NEW m \in Sent, AsksFor(m, requests'), toNode' \in {q, Append(q, m)}
    PROVE  OneTurn' /\ Matching'
  <1>1. Unique(toNode', OutTypes)
    <2>1. Unique(q, OutTypes)
      BY DEF Without, Unique
    <2> QED
      BY <2>1, AppendTurn
  <1>2. Unique(Incoming', InTypes)
    BY DEF Without, Unique
  <1>3. \A j \in DOMAIN Incoming' : AnswersTo(Incoming'[j], requests')
    BY DEF Without, AnswersTo, InTypes
  <1>4. \A j \in DOMAIN toNode' : AsksFor(toNode'[j], requests')
    <2>1. \A j \in DOMAIN q : AsksFor(q[j], requests')
      BY DEF Without, AsksFor, OutTypes, RequestTypes
    <2> QED
      BY <2>1, Appends
  <1> QED
    BY <1>1, <1>2, <1>3, <1>4 DEF OneTurn, Matching

LEMMA ThrownFacts ==
    ASSUME Streams, Thrown
    PROVE  /\ wire' = <<>> /\ toNode' = <<>> /\ ~open' /\ ~talking'
           /\ UNCHANGED <<handshakeSent, session>> /\ thread' = "reading"
  BY DEF Streams, Thrown, Disconnected, conn

LEMMA FrameFacts ==
    ASSUME TypeOK, TypeOK', NEW m, Frame(m), wire' = wire \/ wire' = <<>>
    PROVE  /\ Within(Incoming', Incoming) /\ m = Incoming[1] /\ m \in Received
           /\ 1 \in DOMAIN Incoming /\ thread = "reading"
           /\ OneTurn /\ m.type \in InTypes =>
                 Without(Incoming', InTypes) /\ Without(toNode, OutTypes)
  <1>1. /\ packets # <<>> /\ m = Head(packets) /\ packets' = Tail(packets)
        /\ thread = "reading"
    BY DEF Frame
  <1>2. /\ Incoming \in Seq(Received) /\ Incoming # <<>> /\ m = Incoming[1]
        /\ m \in Received /\ 1 \in DOMAIN Incoming
        /\ Tail(packets) \o wire = Tail(Incoming) /\ Tail(packets) \in Seq(Received)
    BY <1>1, NextFrame
  <1>3. Incoming' \in Seq(Received) /\ Tail(Incoming) \in Seq(Received)
    BY <1>2, Tails, IncomingTypedNext
  <1>4. Within(Tail(Incoming), Incoming)
    BY <1>2, WithinTail
  <1>5. \A j \in DOMAIN Incoming' : j \in DOMAIN Tail(Incoming) /\ Incoming'[j] = Tail(Incoming)[j]
    <2>1. CASE wire' = wire
      BY <1>1, <1>2, <2>1 DEF Incoming
    <2>2. CASE wire' = <<>>
      <3>1. Incoming' = Tail(packets)
        BY <1>1, <1>2, <2>2 DEF Incoming
      <3>2. wire \in Seq(Received)
        BY DEF TypeOK
      <3>3. \A j \in DOMAIN Tail(packets) :
               /\ j \in DOMAIN (Tail(packets) \o wire)
               /\ Tail(packets)[j] = (Tail(packets) \o wire)[j]
        BY <1>2, <3>2
      <3> QED
        BY <1>2, <3>1, <3>3
    <2> QED
      BY <2>1, <2>2
  <1>6. Within(Incoming', Incoming)
    BY <1>4, <1>5 DEF Within
  <1>7. ASSUME OneTurn, m.type \in InTypes
        PROVE  Without(Incoming', InTypes) /\ Without(toNode, OutTypes)
    <2>1. Without(Tail(Incoming), InTypes)
      BY <1>2, <1>7, TurnTaken DEF OneTurn
    <2>2. Without(Incoming', InTypes)
      BY <1>5, <2>1 DEF Without
    <2>3. ~Without(Incoming, InTypes)
      BY <1>2, <1>7 DEF Without
    <2> QED
      BY <1>7, <2>2, <2>3 DEF OneTurn
  <1> QED
    BY <1>1, <1>2, <1>6, <1>7

-----------------------------------------------------------------------------
\* The conversation, step by step.

\* The streams are closed: what was on the way is lost, nothing new is asked.
LEMMA LostKeeps ==
    ASSUME Talk, TypeOK', wire' = <<>>, toNode' = <<>>, ~open', ~talking',
           Within(Incoming', Incoming), requests' = requests, lesTypes' = lesTypes,
           handshakeSent' = handshakeSent, session' = session, thread' = thread,
           ~handshakeSent => packets' = packets
    PROVE  Talk'
  <1>1. Within(toNode', toNode)
    BY DEF Within
  <1>2. /\ OneTurn' /\ Matching'
        /\ Without(Incoming, InTypes) => Without(Incoming', InTypes)
        /\ Without(toNode, OutTypes) => Without(toNode', OutTypes)
    BY <1>1, NothingNew DEF Talk
  <1>3. OnePending'
    BY <1>2 DEF Talk, OnePending, Idle
  <1>4. Streams' /\ NoneForgotten'
    BY DEF Talk, Streams, NoneForgotten, Idle
  <1> QED
    BY <1>2, <1>3, <1>4 DEF Talk

LEMMA InitTalk == Init => Talk
  <1> SUFFICES ASSUME Init PROVE Talk
    OBVIOUS
  <1>1. Quiet
    BY DEF Init, Quiet, Without, Incoming
  <1>2. Idle
    BY DEF Init, Idle, NothingPending
  <1> QED
    BY <1>1, <1>2, InitTypes, QuietMatches
       DEF Init, Talk, Streams, OnePending, NoneForgotten, Idle, NothingPending, Id

LEMMA RestartTalk == ASSUME Talk, TypeOK', Restart PROVE Talk'
  <1>1. Quiet'
    BY DEF Restart, MadeFrom, Quiet, Without, Incoming
  <1>2. Idle'
    BY DEF Restart, MadeFrom, Idle, NothingPending
  <1> QED
    BY <1>1, <1>2, QuietMatchesNext
       DEF Restart, MadeFrom, Talk, Streams, OnePending, NoneForgotten, Idle, NothingPending

LEMMA ConnectTalk == ASSUME Talk, TypeOK', Connect PROVE Talk'
  <1>1. /\ wire = <<>> /\ toNode = <<>> /\ wire' = <<>> /\ toNode' = <<>> /\ ~talking
        /\ ~talking' /\ open' /\ thread = "idle"
        /\ UNCHANGED <<packets, requests, lesTypes, handshakeSent, session, thread>>
    BY DEF Talk, Streams, Connect
  <1>2. Incoming' = Incoming
    BY <1>1 DEF Incoming
  <1>3. OneTurn' /\ Matching' /\ OnePending'
    BY <1>1, <1>2 DEF Talk, OneTurn, Matching, OnePending, Idle
  <1>4. Streams' /\ NoneForgotten'
    BY <1>1 DEF Talk, Streams, Idle, NoneForgotten
  <1> QED
    BY <1>3, <1>4 DEF Talk

\* Steps that neither read nor send.
LEMMA ElsewhereTalk ==
    ASSUME Talk, TypeOK',
           UNCHANGED <<requests, lesTypes, conn, packets, thread, wire, toNode>>
    PROVE  Talk'
  <1>1. UNCHANGED <<requests, lesTypes, open, handshakeSent, session, talking, packets,
                    thread, wire, toNode>>
    BY DEF conn
  <1>2. Incoming' = Incoming /\ (Idle' <=> Idle)
    BY <1>1 DEF Incoming, Idle
  <1>3. OneTurn' /\ Matching' /\ OnePending' /\ Streams'
    BY <1>1, <1>2 DEF Talk, OneTurn, Matching, OnePending, Streams
  <1>4. NoneForgotten'
    BY <1>1, <1>2 DEF Talk, NoneForgotten, Carried
  <1> QED
    BY <1>3, <1>4 DEF Talk

LEMMA ReadAllTalk == ASSUME Talk, TypeOK', ReadAll PROVE Talk'
  <1>1. UNCHANGED <<requests, lesTypes, open, handshakeSent, session, talking, packets,
                    wire, toNode>>
        /\ thread' = "idle" /\ thread = "reading"
    BY DEF ReadAll, conn
  <1>2. Incoming' = Incoming /\ (Idle' <=> Idle)
    BY <1>1 DEF Incoming, Idle
  <1>3. OneTurn' /\ Matching' /\ OnePending' /\ Streams'
    BY <1>1, <1>2 DEF Talk, OneTurn, Matching, OnePending, Streams
  <1>4. NoneForgotten'
    BY <1>1, <1>2 DEF Talk, NoneForgotten, Carried
  <1> QED
    BY <1>3, <1>4 DEF Talk

LEMMA HandshakeTalk == ASSUME Talk, TypeOK', InitiateHandshake PROVE Talk'
  <1>1. /\ wire = <<>> /\ toNode = <<>> /\ packets = <<>> /\ ~talking /\ Idle /\ open
        /\ thread = "idle" /\ handshakeSent'
        /\ UNCHANGED <<requests, lesTypes, open, talking, packets, thread, wire>>
        /\ toNode' = Append(toNode, [type |-> "auth"])
    BY DEF Talk, Streams, InitiateHandshake
  <1>2. toNode' = <<[type |-> "auth"]>> /\ toNode \in Seq(Sent) /\ [type |-> "auth"] \in Sent
    BY <1>1, EmptySeqs DEF Sent
  <1>3. Without(Incoming', InTypes) /\ Without(toNode, OutTypes)
    BY <1>1 DEF Incoming, Without
  <1>4. Idle' /\ AsksFor([type |-> "auth"], requests')
    BY <1>1 DEF Idle, AsksFor, RequestTypes
  <1>5. OneTurn' /\ Matching'
    BY <1>1, <1>2, <1>3, <1>4, SentNew
  <1>6. OnePending' /\ Streams' /\ NoneForgotten'
    BY <1>1, <1>2, <1>4 DEF Talk, OnePending, Streams, NoneForgotten, Idle, NothingPending
  <1> QED
    BY <1>5, <1>6 DEF Talk

LEMMA ClosedTalk == ASSUME Talk, TypeOK', Closed PROVE Talk'
  <1>1. /\ wire' = <<>> /\ toNode' = <<>> /\ ~open' /\ ~talking'
        /\ UNCHANGED <<requests, lesTypes, packets, thread, handshakeSent, session>>
    BY DEF Closed, Disconnected
  <1>2. Within(Incoming', Incoming)
    <2>1. Incoming' = packets /\ packets \in Seq(Received) /\ wire \in Seq(Received)
      BY <1>1 DEF Incoming, Talk, TypeOK
    <2>2. \A j \in DOMAIN packets : j \in DOMAIN Incoming /\ packets[j] = Incoming[j]
      BY <2>1 DEF Incoming
    <2> QED
      BY <2>1, <2>2, WithinSame
  <1> QED
    BY <1>1, <1>2, LostKeeps

LEMMA NoiseTalk ==
    ASSUME Talk, TypeOK', NEW type \in {"noise", "disconnect"}, NodeNoise(type)
    PROVE  Talk'
  <1> DEFINE m == [type |-> type]
  <1>1. UNCHANGED <<requests, lesTypes, open, handshakeSent, session, talking, packets,
                    thread, toNode>>
        /\ wire' = Append(wire, m) /\ talking
    BY DEF NodeNoise, conn
  <1>2. m \in Received /\ m.type \notin InTypes
    BY DEF Received, InTypes
  <1> HIDE DEF m
  <1>3. Incoming' = Append(Incoming, m) /\ Incoming \in Seq(Received)
    BY <1>1, <1>2 DEF Incoming, Talk, TypeOK
  <1>4. /\ Unique(Incoming, InTypes) => Unique(Incoming', InTypes)
        /\ Without(Incoming, InTypes) => Without(Incoming', InTypes)
    BY <1>2, <1>3, AppendTurn
  <1>5. OneTurn' /\ OnePending'
    BY <1>1, <1>4 DEF Talk, OneTurn, OnePending, Idle
  <1>6. Matching'
    <2>1. AnswersTo(m, requests)
      BY <1>2 DEF AnswersTo, InTypes
    <2> QED
      BY <1>1, <1>2, <1>3, <2>1, Appends DEF Talk, Matching
  <1>7. NoneForgotten'
    BY <1>1, <1>2, <1>3, Appends DEF Talk, NoneForgotten, Carried
  <1>8. Streams'
    BY <1>1 DEF Talk, Streams, Idle
  <1> QED
    BY <1>5, <1>6, <1>7, <1>8 DEF Talk

LEMMA BytesTalk ==
    ASSUME Talk, TypeOK', NEW n \in 0..Len(wire), NEW p \in BOOLEAN, Bytes(n, p)
    PROVE  Talk'
  <1> DEFINE buffer == packets \o SubSeq(wire, 1, n)
             rest   == SubSeq(wire, n + 1, Len(wire))
  <1>1. /\ buffer \in Seq(Received) /\ buffer \o rest = Incoming
        /\ \A j \in DOMAIN buffer : j \in DOMAIN Incoming /\ buffer[j] = Incoming[j]
        /\ buffer # <<>> =>
              /\ Tail(buffer) \o rest = Tail(Incoming)
              /\ Head(buffer) = Incoming[1] /\ 1 \in DOMAIN Incoming
              /\ Incoming # <<>>
    BY Arrives DEF Talk
  <1>2. /\ open /\ thread = "idle" /\ UNCHANGED <<requests, lesTypes>>
        /\ wire # <<>>
    <2>1. wire \in Seq(Received)
      BY DEF Talk, TypeOK
    <2>2. n > 0 \/ p
      BY DEF Bytes
    <2>3. n + (IF p THEN 1 ELSE 0) <= Len(wire)
      BY DEF Bytes
    <2>4. Len(wire) # 0
      BY <2>1, <2>2, <2>3
    <2> QED
      BY <2>4 DEF Bytes
  <1>3. talking /\ handshakeSent
    BY <1>2 DEF Talk, Streams
  <1>4. Idle' <=> Idle
    BY <1>2 DEF Idle
  <1> HIDE DEF buffer, rest
  <1>5. CASE /\ buffer # <<>> /\ Head(buffer).type = "ack"
             /\ packets' = Tail(buffer) /\ session' = "codec"
             /\ toNode' = Append(toNode, [type |-> "hello"]) /\ wire' = rest
             /\ UNCHANGED <<open, handshakeSent, talking, thread>>
    <2>1. Incoming' = Tail(Incoming) /\ Incoming[1].type = "ack" /\ Incoming[1].type \in InTypes
      BY <1>1, <1>5 DEF Incoming, InTypes
    <2>2. Incoming \in Seq(Received) /\ toNode \in Seq(Sent)
      BY IncomingTyped DEF Talk
    <2>3. Without(Incoming', InTypes)
      BY <1>1, <1>5, <2>1, <2>2, TurnTaken DEF Talk, OneTurn
    <2>4. Without(toNode, OutTypes)
      BY <1>1, <1>5, <2>1 DEF Talk, OneTurn, Without
    <2>5. Idle
      BY <1>1, <1>5, <2>1 DEF Talk, Matching, AnswersTo, Idle
    <2>6. AsksFor([type |-> "hello"], requests') /\ [type |-> "hello"] \in Sent
      BY <1>2, <2>5 DEF AsksFor, Idle, RequestTypes, Sent
    <2>7. OneTurn' /\ Matching'
      BY <1>5, <2>2, <2>3, <2>4, <2>6, SentNew
    <2>8. OnePending'
      BY <1>2, <1>4, <1>5, <2>5 DEF Talk, OnePending
    <2>9. Streams'
      BY <1>2, <1>3, <1>5 DEF Streams
    <2>10. NoneForgotten'
      BY <1>2, <2>5 DEF NoneForgotten, Idle, NothingPending
    <2> QED
      BY <2>7, <2>8, <2>9, <2>10 DEF Talk
  <1>6. CASE packets' = buffer /\ Disconnected /\ UNCHANGED thread
    <2>1. /\ wire' = <<>> /\ toNode' = <<>> /\ ~open' /\ ~talking'
          /\ UNCHANGED <<requests, lesTypes, thread, handshakeSent, session>>
      BY <1>2, <1>6 DEF Disconnected
    <2>2. Incoming' = buffer
      BY <1>1, <1>6, <2>1 DEF Incoming
    <2>3. Within(Incoming', Incoming)
      BY <1>1, <2>2, WithinSame
    <2> QED
      BY <1>3, <2>1, <2>3, LostKeeps
  <1>7. ASSUME packets' = buffer, wire' = rest, UNCHANGED <<conn, toNode>>,
               thread' = thread \/ (thread' = "reading" /\ session = "codec")
        PROVE  Talk'
    <2>1. UNCHANGED <<open, handshakeSent, session, talking, toNode>>
      BY <1>7 DEF conn
    <2>2. Incoming' = Incoming
      BY <1>1, <1>7 DEF Incoming
    <2>3. OneTurn' /\ Matching'
      BY <1>2, <2>1, <2>2 DEF Talk, OneTurn, Matching
    <2>4. OnePending'
      BY <1>2, <1>4, <1>7 DEF Talk, OnePending
    <2>5. Streams'
      BY <1>2, <1>3, <1>7, <2>1 DEF Talk, Streams
    <2>6. NoneForgotten'
      BY <1>2, <2>1, <2>2 DEF Talk, NoneForgotten, Carried
    <2> QED
      BY <2>3, <2>4, <2>5, <2>6 DEF Talk
  <1>8. CASE packets' = buffer /\ wire' = rest /\ UNCHANGED <<conn, toNode, thread>>
    BY <1>7, <1>8
  <1>9. CASE /\ session = "codec"
             /\ packets' = buffer /\ thread' = "reading" /\ wire' = rest
             /\ UNCHANGED <<conn, toNode>>
    BY <1>7, <1>9
  <1> QED
    BY <1>5, <1>6, <1>8, <1>9 DEF Bytes, buffer, rest

\* Nothing is under way after the step.
LEMMA QuietTalk ==
    ASSUME Talk, TypeOK', Without(Incoming', InTypes), Without(toNode', OutTypes),
           NothingPending(requests'), Streams', thread' = "saved" => lesTypes'
    PROVE  Talk'
  <1>1. Quiet' /\ Idle'
    BY DEF Quiet, Idle
  <1> QED
    BY <1>1, QuietMatchesNext DEF Talk, OnePending, NoneForgotten, Idle, NothingPending

LEMMA AskedTalk ==
    ASSUME Talk, TypeOK', NEW type \in RequestTypes, NEW b \in Block, NEW i \in Id,
           requests'[i] = [type |-> type, block |-> b],
           \A k \in Id \ {i} : requests'[k] = None,
           Without(Incoming', InTypes), Without(toNode, OutTypes),
           lesTypes, lesTypes' = lesTypes, thread # "idle", thread' = "reading",
           SendFrame([type |-> type, id |-> i, block |-> b], lesTypes),
           UNCHANGED <<conn, wire>>
    PROVE  Talk'
  <1> DEFINE m == [type |-> type, id |-> i, block |-> b]
  <1>1. /\ UNCHANGED <<open, handshakeSent, session, talking, wire>>
        /\ session = "codec" /\ handshakeSent
        /\ open => talking
    BY DEF conn, Talk, Streams
  <1>2. m \in Sent /\ m.type = type /\ m.id = i /\ m.block = b /\ toNode \in Seq(Sent)
    BY IncomingTyped DEF Sent, Talk
  <1>3. toNode' = IF open THEN Append(toNode, m) ELSE toNode
    BY <1>1 DEF SendFrame
  <1> HIDE DEF m
  <1>4. AsksFor(m, requests')
    BY <1>2 DEF AsksFor, RequestTypes
  <1>5. OneTurn' /\ Matching'
    BY <1>2, <1>3, <1>4, SentNew
  <1>6. OnePending'
    BY DEF OnePending
  <1>7. Streams'
    BY <1>1, <1>3 DEF Talk, Streams
  <1>8. NoneForgotten'
    <2> SUFFICES ASSUME talking', NEW k \in Id, requests'[k] # None PROVE Carried(k)'
      BY DEF NoneForgotten
    <2>1. k = i
      OBVIOUS
    <2>2. talking => open
      BY DEF Talk, Streams
    <2>3. toNode' = Append(toNode, m)
      BY <1>1, <1>3, <2>2
    <2> QED
      BY <1>2, <2>1, <2>3, Appends DEF Carried
  <1> QED
    BY <1>5, <1>6, <1>7, <1>8 DEF Talk

\* syncBlocks, with nothing under way.
LEMMA SyncBlocksTalk ==
    ASSUME Talk, TypeOK', SyncBlocks, Idle,
           Without(Incoming', InTypes), Without(toNode, OutTypes),
           lesTypes, lesTypes' = lesTypes, thread # "idle", thread' = "reading"
    PROVE  Talk'
  <1>1. CASE NothingAsked
    <2>1. UNCHANGED <<requests, open, handshakeSent, session, talking, wire, toNode>>
      BY <1>1 DEF NothingAsked, conn
    <2>2. NothingPending(requests')
      BY <2>1 DEF Idle
    <2>3. Streams'
      BY <2>1 DEF Talk, Streams
    <2> QED
      BY <2>1, <2>2, <2>3, QuietTalk
  <1>2. ASSUME NEW b \in LastHeaders(stored), Request("getHeaders", b) PROVE Talk'
    <2>1. PICK i \in Id :
             /\ requests' = [requests EXCEPT ![i] = [type |-> "getHeaders", block |-> b]]
             /\ SendFrame([type |-> "getHeaders", id |-> i, block |-> b], lesTypes)
             /\ UNCHANGED <<conn, wire>>
      <3>1. \E i \in Id : requests[i] = None
        BY DEF Idle, NothingPending, Id
      <3> QED
        BY <1>2, <3>1 DEF Request
    <2>2. b \in Block /\ "getHeaders" \in RequestTypes
      BY DEF LastHeaders, Talk, TypeOK, RequestTypes
    <2>3. /\ requests'[i] = [type |-> "getHeaders", block |-> b]
          /\ \A k \in Id \ {i} : requests'[k] = None
      BY <2>1 DEF Talk, TypeOK, Idle, NothingPending
    <2> QED
      BY <2>1, <2>2, <2>3, AskedTalk
  <1> QED
    BY <1>1, <1>2 DEF SyncBlocks

LEMMA SyncOnTalk == ASSUME Talk, TypeOK', SyncOn PROVE Talk'
  <1>1. /\ thread = "saved" /\ thread' = "reading" /\ SyncBlocks
        /\ UNCHANGED <<lesTypes, packets>>
    BY DEF SyncOn
  <1>2. lesTypes /\ Idle /\ Without(Incoming, InTypes) /\ Without(toNode, OutTypes)
    BY <1>1 DEF Talk, OnePending
  <1>3. Incoming' = Incoming
    <2>1. wire' = wire
      BY <1>1 DEF SyncBlocks, NothingAsked, Request
    <2> QED
      BY <1>1, <2>1 DEF Incoming
  <1> QED
    BY <1>1, <1>2, <1>3, SyncBlocksTalk

-----------------------------------------------------------------------------
\* A frame is handled.

\* A handler that throws and leaves the requests alone.
LEMMA ThrownTalk ==
    ASSUME Talk, TypeOK', NEW m, Frame(m), Thrown, UNCHANGED <<requests, lesTypes>>
    PROVE  Talk'
  <1>1. /\ wire' = <<>> /\ toNode' = <<>> /\ ~open' /\ ~talking'
        /\ UNCHANGED <<handshakeSent, session>> /\ thread' = "reading"
    BY ThrownFacts DEF Talk
  <1>2. Within(Incoming', Incoming) /\ thread = "reading"
    BY <1>1, FrameFacts DEF Talk
  <1>3. handshakeSent
    BY <1>2 DEF Talk, Streams
  <1> QED
    BY <1>1, <1>2, <1>3, LostKeeps

\* A frame that is no turn.
LEMMA PassedTalk ==
    ASSUME Talk, TypeOK', NEW m, Frame(m), m.type \notin InTypes,
           UNCHANGED <<conn, wire, thread, requests>>, lesTypes => lesTypes',
           \/ toNode' = toNode
           \/ toNode' = Append(toNode, [type |-> "status"]) /\ open
    PROVE  Talk'
  <1>1. UNCHANGED <<open, handshakeSent, session, talking, wire, thread, requests>>
    BY DEF conn
  <1>2. /\ Within(Incoming', Incoming) /\ m = Incoming[1] /\ thread = "reading"
        /\ toNode \in Seq(Sent) /\ [type |-> "status"] \in Sent
    BY <1>1, FrameFacts, IncomingTyped DEF Talk, Sent
  <1>3. handshakeSent /\ (open => talking)
    BY <1>2 DEF Talk, Streams
  <1>4. Idle' <=> Idle
    BY <1>1 DEF Idle
  <1>5. /\ Incoming \in Seq(Received) /\ Incoming' \in Seq(Received)
        /\ Without(Incoming, InTypes) => Without(Incoming', InTypes)
        /\ Unique(Incoming, InTypes) => Unique(Incoming', InTypes)
    BY <1>2, IncomingTyped, IncomingTypedNext, WithinTurn DEF Talk
  <1>6. /\ Without(toNode, OutTypes) => Without(toNode', OutTypes)
        /\ Unique(toNode, OutTypes) => Unique(toNode', OutTypes)
    <2>1. [type |-> "status"].type \notin OutTypes
      BY DEF OutTypes
    <2> QED
      BY <1>2, <2>1, AppendTurn
  <1>7. OneTurn'
    BY <1>5, <1>6 DEF Talk, OneTurn
  <1>8. Matching'
    <2>1. \A j \in DOMAIN Incoming' : AnswersTo(Incoming'[j], requests')
      BY <1>1, <1>2 DEF Talk, Matching, Within
    <2>2. AsksFor([type |-> "status"], requests')
      BY DEF AsksFor, RequestTypes
    <2>3. \A j \in DOMAIN toNode' : AsksFor(toNode'[j], requests')
      BY <1>1, <1>2, <2>2, Appends DEF Talk, Matching
    <2> QED
      BY <2>1, <2>3 DEF Matching
  <1>9. OnePending'
    BY <1>1, <1>2, <1>4 DEF Talk, OnePending
  <1>10. Streams'
    BY <1>1, <1>2, <1>3, <1>4 DEF Talk, Streams
  <1>11. NoneForgotten'
    <2> SUFFICES ASSUME talking, NEW i \in Id, requests[i] # None PROVE Carried(i)'
      BY <1>1 DEF NoneForgotten
    <2>1. CASE \E j \in DOMAIN toNode : toNode[j].type \in RequestTypes /\ toNode[j].id = i
      BY <1>2, <2>1, Appends DEF Carried
    <2>2. ASSUME NEW j \in DOMAIN Incoming, Incoming[j].type \in {"headers", "proofs"},
                 Incoming[j].id = i
          PROVE  Carried(i)'
      <3>1. j # 1
        BY <1>2, <2>2 DEF InTypes
      <3>2. Incoming' = Tail(Incoming) /\ Incoming # <<>>
        BY <1>1, NextFrame DEF Frame, Incoming, Talk
      <3>3. j - 1 \in DOMAIN Incoming' /\ Incoming'[j - 1] = Incoming[j]
        BY <1>5, <3>1, <3>2
      <3> QED
        BY <2>2, <3>3 DEF Carried
    <2> QED
      BY <2>1, <2>2 DEF Talk, NoneForgotten, Carried
  <1> QED
    BY <1>7, <1>8, <1>9, <1>10, <1>11 DEF Talk

LEMMA HelloTalk == ASSUME Talk, TypeOK', NEW m, Hello(m) PROVE Talk'
  <1>1. Frame(m) /\ m.type \notin InTypes /\ UNCHANGED requests
    BY DEF Hello, InTypes
  <1>2. CASE /\ lesTypes' = TRUE
             /\ SendFrame([type |-> "status"], TRUE)
             /\ UNCHANGED <<conn, wire, thread>>
    <2>1. \/ toNode' = toNode
          \/ toNode' = Append(toNode, [type |-> "status"]) /\ open
      BY <1>2 DEF SendFrame
    <2> QED
      BY <1>1, <1>2, <2>1, PassedTalk
  <1>3. CASE Thrown /\ UNCHANGED lesTypes
    BY <1>1, <1>3, ThrownTalk
  <1> QED
    BY <1>2, <1>3 DEF Hello

LEMMA OtherTalk == ASSUME Talk, TypeOK', NEW m, Other(m) PROVE Talk'
  <1>1. Frame(m) /\ UNCHANGED <<requests, lesTypes>>
    BY DEF Other
  <1>2. CASE m.type = "noise" /\ UNCHANGED <<conn, wire, toNode, thread>>
    <2>1. m.type \notin InTypes
      BY <1>2 DEF InTypes
    <2> QED
      BY <1>1, <1>2, <2>1, PassedTalk
  <1>3. CASE Thrown
    BY <1>1, <1>3, ThrownTalk
  <1> QED
    BY <1>2, <1>3 DEF Other

LEMMA StatusTalk == ASSUME Talk, TypeOK', NEW m, Status(m) PROVE Talk'
  <1>1. Frame(m) /\ m.type = "status" /\ UNCHANGED lesTypes
    BY DEF Status
  <1>2. CASE lesTypes /\ SyncBlocks /\ UNCHANGED thread
    <2>1. wire' = wire
      BY <1>2 DEF SyncBlocks, NothingAsked, Request
    <2>2. /\ m = Incoming[1] /\ 1 \in DOMAIN Incoming /\ thread = "reading"
          /\ Without(Incoming', InTypes) /\ Without(toNode, OutTypes)
      BY <1>1, <2>1, FrameFacts DEF Talk, InTypes
    <2>3. Idle
      BY <1>1, <2>2 DEF Talk, Matching, AnswersTo, Idle
    <2> QED
      BY <1>1, <1>2, <2>2, <2>3, SyncBlocksTalk
  <1>3. CASE Thrown /\ UNCHANGED requests
    BY <1>1, <1>3, ThrownTalk
  <1> QED
    BY <1>2, <1>3 DEF Status

\* The answer that was waited for: nothing else is pending or under way.
LEMMA AnswerFacts ==
    ASSUME Talk, TypeOK', NEW m, Frame(m), wire' = wire \/ wire' = <<>>,
           m.type \in {"headers", "proofs"}
    PROVE  /\ m.id \in Id /\ m = Incoming[1] /\ m \in Received
           /\ AnswersTo(m, requests)
           /\ requests[m.id] # None
           /\ \A k \in Id \ {m.id} : requests[k] = None
           /\ NothingPending(Removed(m.id))
           /\ Without(Incoming', InTypes) /\ Without(toNode, OutTypes)
           /\ lesTypes /\ thread = "reading" /\ handshakeSent
  <1>1. /\ m = Incoming[1] /\ 1 \in DOMAIN Incoming /\ m \in Received /\ thread = "reading"
        /\ Without(Incoming', InTypes) /\ Without(toNode, OutTypes)
    BY FrameFacts DEF Talk, InTypes
  <1>2. m.id \in Id
    BY <1>1, ReceivedKinds
  <1>3. AnswersTo(m, requests) /\ requests[m.id] # None
    BY <1>1 DEF Talk, Matching, AnswersTo
  <1>4. \A k \in Id \ {m.id} : requests[k] = None
    BY <1>2, <1>3 DEF Talk, OnePending
  <1>5. NothingPending(Removed(m.id))
    BY <1>2, <1>4 DEF Talk, TypeOK, Removed, NothingPending
  <1>6. lesTypes
    BY <1>2, <1>3 DEF Talk, OnePending, Idle, NothingPending
  <1>7. handshakeSent
    BY <1>1 DEF Talk, Streams
  <1> QED
    BY <1>1, <1>2, <1>3, <1>4, <1>5, <1>6, <1>7

LEMMA HeadersTalk == ASSUME Talk, TypeOK', NEW m, Headers(m) PROVE Talk'
  <1>1. Frame(m) /\ m.type = "headers" /\ UNCHANGED lesTypes
    BY DEF Headers
  <1>2. CASE Thrown /\ UNCHANGED requests
    BY <1>1, <1>2, ThrownTalk
  <1>3. CASE /\ requests' = Removed(m.id)
             /\ UNCHANGED <<conn, wire, toNode>>
             /\ thread' = thread \/ thread' = "saved"
    <2>1. UNCHANGED <<open, handshakeSent, session, talking, wire, toNode>>
      BY <1>3 DEF conn
    <2>2. /\ NothingPending(requests') /\ Without(Incoming', InTypes)
          /\ Without(toNode', OutTypes) /\ lesTypes /\ thread = "reading" /\ handshakeSent
      BY <1>1, <1>3, <2>1, AnswerFacts
    <2>3. Streams'
      BY <1>3, <2>1, <2>2 DEF Talk, Streams
    <2> QED
      BY <1>1, <2>2, <2>3, QuietTalk
  <1>4. ASSUME NEW b \in LastHeaders(stored),
               requests' = [Removed(m.id) EXCEPT ![m.id] = [type |-> "getProofs", block |-> b]],
               SendFrame([type |-> "getProofs", id |-> m.id, block |-> b], lesTypes),
               UNCHANGED <<conn, wire, thread>>
        PROVE  Talk'
    <2>1. b \in Block /\ "getProofs" \in RequestTypes
      BY DEF LastHeaders, Talk, TypeOK, RequestTypes
    <2>2. /\ m.id \in Id /\ \A k \in Id \ {m.id} : requests[k] = None
          /\ Without(Incoming', InTypes) /\ Without(toNode, OutTypes)
          /\ lesTypes /\ thread = "reading"
      BY <1>1, <1>4, AnswerFacts
    <2>3. /\ requests'[m.id] = [type |-> "getProofs", block |-> b]
          /\ \A k \in Id \ {m.id} : requests'[k] = None
      BY <1>4, <2>2 DEF Talk, TypeOK, Removed
    <2> QED
      BY <1>1, <1>4, <2>1, <2>2, <2>3, AskedTalk
  <1> QED
    BY <1>2, <1>3, <1>4 DEF Headers

LEMMA ProofsTalk == ASSUME Talk, TypeOK', NEW m, Proofs(m) PROVE Talk'
  <1>1. Frame(m) /\ m.type = "proofs" /\ UNCHANGED lesTypes
    BY DEF Proofs
  <1>2. CASE Thrown /\ UNCHANGED requests
    BY <1>1, <1>2, ThrownTalk
  <1>3. CASE requests' = Removed(m.id) /\ UNCHANGED <<conn, wire, toNode, thread>>
    <2>1. UNCHANGED <<open, handshakeSent, session, talking, wire, toNode>>
      BY <1>3 DEF conn
    <2>2. /\ NothingPending(requests') /\ Without(Incoming', InTypes)
          /\ Without(toNode', OutTypes) /\ thread = "reading"
      BY <1>1, <1>3, <2>1, AnswerFacts
    <2>3. Streams'
      BY <1>3, <2>1, <2>2 DEF Talk, Streams
    <2> QED
      BY <1>3, <2>2, <2>3, QuietTalk
  <1>4. CASE requests' = Removed(m.id) /\ Thrown
    <2>1. /\ wire' = <<>> /\ toNode' = <<>> /\ ~open' /\ ~talking'
          /\ UNCHANGED <<handshakeSent, session>> /\ thread' = "reading"
      BY <1>4, ThrownFacts DEF Talk
    <2>2. /\ NothingPending(requests') /\ Without(Incoming', InTypes)
          /\ thread = "reading" /\ handshakeSent
      BY <1>1, <1>4, <2>1, AnswerFacts
    <2>3. Streams' /\ Without(toNode', OutTypes)
      BY <2>1, <2>2 DEF Talk, Streams, Without
    <2> QED
      BY <2>1, <2>2, <2>3, QuietTalk
  <1> QED
    BY <1>2, <1>3, <1>4 DEF Proofs
-----------------------------------------------------------------------------
\* The node answers.

LEMMA Concats ==
    ASSUME NEW S, NEW p \in Seq(S), NEW q \in Seq(S)
    PROVE  /\ p \o q \in Seq(S)
           /\ \A j \in DOMAIN p : j \in DOMAIN (p \o q) /\ (p \o q)[j] = p[j]
           /\ \A k \in DOMAIN q : Len(p) + k \in DOMAIN (p \o q) /\ (p \o q)[Len(p) + k] = q[k]
           /\ \A j \in DOMAIN (p \o q) :
                 \/ j \in DOMAIN p /\ (p \o q)[j] = p[j]
                 \/ \E k \in DOMAIN q : j = Len(p) + k /\ (p \o q)[j] = q[k]
  <1>1. /\ p \o q \in Seq(S)
        /\ \A j \in DOMAIN p : j \in DOMAIN (p \o q) /\ (p \o q)[j] = p[j]
        /\ \A k \in DOMAIN q : Len(p) + k \in DOMAIN (p \o q) /\ (p \o q)[Len(p) + k] = q[k]
    OBVIOUS
  <1>2. ASSUME NEW j \in DOMAIN (p \o q), j \notin DOMAIN p
        PROVE  \E k \in DOMAIN q : j = Len(p) + k /\ (p \o q)[j] = q[k]
    <2>1. j - Len(p) \in DOMAIN q /\ j = Len(p) + (j - Len(p))
      BY <1>2
    <2> QED
      BY <1>1, <2>1
  <1> QED
    BY <1>1, <1>2

LEMMA ConcatTurn ==
    ASSUME NEW S, NEW p \in Seq(S), NEW q \in Seq(S), NEW T, Without(p, T), Unique(q, T)
    PROVE  Unique(p \o q, T)
  BY Concats DEF Without, Unique

LEMMA NodeTalk == ASSUME Talk, TypeOK', NodeAnswers PROVE Talk'
  <1>1. PICK answers \in Seq(Received) :
           /\ NodeSees(answers)
           /\ \/ toNode[1].type \in OutTypes /\ Fits(answers)
              \/ toNode[1].type \notin OutTypes /\ answers = <<>>
    BY NodeAnswered DEF Talk
  <1>2. /\ toNode # <<>> /\ 1 \in DOMAIN toNode /\ toNode \in Seq(Sent)
        /\ Incoming \in Seq(Received)
    BY NodeAnswered, IncomingTyped DEF Talk
  <1>3. /\ toNode' = Tail(toNode) /\ wire' = wire \o answers /\ talking'
        /\ UNCHANGED <<requests, lesTypes, open, handshakeSent, session, packets, thread>>
    BY <1>1 DEF NodeSees
  <1>4. Incoming' = Incoming \o answers
    <2>1. packets \in Seq(Received) /\ wire \in Seq(Received)
      BY DEF Talk, TypeOK
    <2>2. packets \o (wire \o answers) = (packets \o wire) \o answers
      BY <2>1, ConcatAssociative
    <2> QED
      BY <1>3, <2>2 DEF Incoming
  <1>5. open /\ handshakeSent
    BY <1>2 DEF Talk, Streams
  <1>6. Streams'
    BY <1>3, <1>5 DEF Talk, Streams
  <1>7. NoneForgotten'
    <2> SUFFICES ASSUME NEW i \in Id, requests[i] # None PROVE Carried(i)'
      BY <1>3 DEF NoneForgotten
    <2>1. ~Idle
      BY DEF Idle, NothingPending
    <2>2. toNode[1].type # "auth"
      BY <1>2, <2>1 DEF Talk, Matching, AsksFor, Idle
    <2>3. talking
      <3>1. [type |-> "auth"].type = "auth" /\ <<[type |-> "auth"]>>[1] = [type |-> "auth"]
        OBVIOUS
      <3> QED
        BY <1>2, <1>5, <2>2, <3>1 DEF Talk, Streams
    <2>4. Carried(i)
      BY <2>3 DEF Talk, NoneForgotten
    <2>5. ASSUME NEW j \in DOMAIN toNode, toNode[j].type \in RequestTypes, toNode[j].id = i
          PROVE  Carried(i)'
      <3>1. CASE j = 1
        <4>1. Fits(answers)
          BY <1>1, <2>5, <3>1 DEF OutTypes, RequestTypes
        <4>2. PICK k \in DOMAIN answers :
                 answers[k].type \in {"headers", "proofs"} /\ answers[k].id = i
          BY <2>5, <3>1, <4>1 DEF Fits
        <4>3. /\ Len(Incoming) + k \in DOMAIN Incoming'
              /\ Incoming'[Len(Incoming) + k] = answers[k]
          BY <1>2, <1>4, Concats
        <4> QED
          BY <4>2, <4>3 DEF Carried
      <3>2. CASE j # 1
        <4>1. j - 1 \in DOMAIN Tail(toNode) /\ Tail(toNode)[j - 1] = toNode[j]
          BY <1>2, <3>2
        <4> QED
          BY <1>3, <2>5, <4>1 DEF Carried
      <3> QED
        BY <3>1, <3>2
    <2>6. ASSUME NEW j \in DOMAIN Incoming, Incoming[j].type \in {"headers", "proofs"},
                 Incoming[j].id = i
          PROVE  Carried(i)'
      <3>1. j \in DOMAIN Incoming' /\ Incoming'[j] = Incoming[j]
        BY <1>2, <1>4, Concats
      <3> QED
        BY <2>6, <3>1 DEF Carried
    <2> QED
      BY <2>4, <2>5, <2>6 DEF Carried
  <1>8. Idle' <=> Idle
    BY <1>3 DEF Idle
  <1>9. CASE toNode[1].type \in OutTypes /\ Fits(answers)
    <2>1. Without(Incoming, InTypes) /\ Unique(toNode, OutTypes)
      BY <1>2, <1>9 DEF Talk, OneTurn, Without
    <2>2. Without(toNode', OutTypes)
      BY <1>2, <1>3, <1>9, <2>1, TurnTaken
    <2>3. Unique(Incoming', InTypes)
      BY <1>2, <1>4, <1>9, <2>1, ConcatTurn DEF Fits
    <2>4. OneTurn'
      BY <2>2, <2>3 DEF OneTurn, Unique, Without
    <2>5. \A j \in DOMAIN Incoming' : AnswersTo(Incoming'[j], requests')
      <3> SUFFICES ASSUME NEW j \in DOMAIN Incoming' PROVE AnswersTo(Incoming'[j], requests)
        BY <1>3
      <3>1. CASE j \in DOMAIN Incoming /\ Incoming'[j] = Incoming[j]
        BY <3>1 DEF Talk, Matching
      <3>2. CASE \E k \in DOMAIN answers : Incoming'[j] = answers[k]
        BY <1>9, <3>2 DEF Fits
      <3> QED
        BY <1>2, <1>4, <3>1, <3>2, Concats
    <2>6. \A j \in DOMAIN toNode' : AsksFor(toNode'[j], requests')
      BY <2>2 DEF Without, AsksFor, OutTypes, RequestTypes
    <2>7. thread # "saved"
      BY <1>2, <1>9 DEF Talk, OnePending, Without
    <2>8. OnePending'
      BY <1>3, <1>8, <2>7 DEF Talk, OnePending
    <2> QED
      BY <1>6, <1>7, <2>4, <2>5, <2>6, <2>8 DEF Talk, Matching
  <1>10. CASE toNode[1].type \notin OutTypes /\ answers = <<>>
    <2>1. Incoming' = Incoming
      BY <1>2, <1>4, <1>10
    <2>2. Within(Incoming', Incoming) /\ Within(toNode', toNode)
      BY <1>2, <1>3, <2>1, WithinSame, WithinTail
    <2>3. /\ OneTurn' /\ Matching'
          /\ Without(Incoming, InTypes) => Without(Incoming', InTypes)
          /\ Without(toNode, OutTypes) => Without(toNode', OutTypes)
      BY <1>3, <2>2, NothingNew DEF Talk
    <2>4. OnePending'
      BY <1>3, <1>8, <2>3 DEF Talk, OnePending
    <2> QED
      BY <1>6, <1>7, <2>3, <2>4 DEF Talk
  <1> QED
    BY <1>1, <1>9, <1>10

LEMMA StepTalk == ASSUME Talk, [Next]_vars PROVE Talk'
  <1> USE StepTypes
  <1>0. TypeOK'
    BY DEF Talk
  <1> SUFFICES ASSUME TypeOK' PROVE Talk'
    BY <1>0
  <1>1. CASE Restart
    BY <1>1, RestartTalk
  <1>2. CASE Connect
    BY <1>2, ConnectTalk
  <1>3. CASE Clear
    BY <1>3, ElsewhereTalk DEF Clear
  <1>4. CASE InitiateHandshake
    BY <1>4, HandshakeTalk
  <1>5. CASE Closed
    BY <1>5, ClosedTalk
  <1>6. CASE BytesArrive
    BY <1>6, BytesTalk DEF BytesArrive
  <1>7. CASE ReadAll
    BY <1>7, ReadAllTalk
  <1>8. CASE HandleFrame
    BY <1>8, HelloTalk, OtherTalk, StatusTalk, HeadersTalk, ProofsTalk DEF HandleFrame
  <1>9. CASE SyncOn
    BY <1>9, SyncOnTalk
  <1>10. CASE NodeAnswers
    BY <1>10, NodeTalk
  <1>11. CASE NodeGrows
    BY <1>11, ElsewhereTalk DEF NodeGrows
  <1>12. CASE Reorganised
    BY <1>12, ElsewhereTalk DEF Reorganised
  <1>13. CASE \E type \in {"noise", "disconnect"} : NodeNoise(type)
    BY <1>13, NoiseTalk
  <1>14. CASE UNCHANGED vars
    BY <1>14, ElsewhereTalk DEF vars
  <1> QED
    BY <1>1, <1>2, <1>3, <1>4, <1>5, <1>6, <1>7, <1>8, <1>9, <1>10, <1>11, <1>12, <1>13, <1>14
       DEF Next

LEMMA TalkHolds == Spec => []Talk
  <1>1. Init => Talk
    BY InitTalk
  <1>2. Talk /\ [Next]_vars => Talk'
    BY StepTalk
  <1> QED
    BY <1>1, <1>2, PTL DEF Spec

\* Every variable keeps its type, whatever arrives: what is taken from the buffer is a
\* message of the node, and a request is only asked for with a free id.
THEOREM TypeCorrect == Spec => []TypeOK
  <1>1. Talk => TypeOK
    BY DEF Talk
  <1> QED
    BY <1>1, TalkHolds, PTL

-----------------------------------------------------------------------------
\* One request is out.

About(q, i) ==
    {j \in DOMAIN q : q[j].type \in RequestTypes \cup {"headers", "proofs"} /\ q[j].id = i}

\* What a request waits for is in one of the three sequences.
LEMMA CarriedFound ==
    ASSUME TypeOK, NEW i \in Id, Carried(i)
    PROVE  About(toNode, i) # {} \/ About(wire, i) # {} \/ About(packets, i) # {}
  <1>1. packets \in Seq(Received) /\ wire \in Seq(Received)
    BY DEF TypeOK
  <1>2. CASE \E j \in DOMAIN toNode : toNode[j].type \in RequestTypes /\ toNode[j].id = i
    BY <1>2 DEF About
  <1>3. ASSUME NEW j \in DOMAIN Incoming, Incoming[j].type \in {"headers", "proofs"},
               Incoming[j].id = i
        PROVE  About(wire, i) # {} \/ About(packets, i) # {}
    <2>1. CASE j \in DOMAIN packets /\ Incoming[j] = packets[j]
      BY <1>3, <2>1 DEF About
    <2>2. CASE \E k \in DOMAIN wire : Incoming[j] = wire[k]
      BY <1>3, <2>2 DEF About
    <2> QED
      BY <1>1, <1>3, <2>1, <2>2, Concats DEF Incoming
  <1> QED
    BY <1>2, <1>3 DEF Carried

\* What is on its way was asked for.
LEMMA FoundPending ==
    ASSUME Talk, NEW i \in Id,
           About(toNode, i) # {} \/ About(wire, i) # {} \/ About(packets, i) # {}
    PROVE  requests[i] # None
  <1>1. packets \in Seq(Received) /\ wire \in Seq(Received) /\ toNode \in Seq(Sent)
    BY DEF Talk, TypeOK
  <1>2. ASSUME NEW m \in Received, AnswersTo(m, requests),
               m.type \in RequestTypes \cup {"headers", "proofs"}, m.id = i
        PROVE  requests[i] # None
    <2>1. m.type \notin RequestTypes
      BY DEF Received, RequestTypes
    <2> QED
      BY <1>2, <2>1 DEF AnswersTo
  <1>3. ASSUME NEW j \in About(toNode, i) PROVE requests[i] # None
    <2>1. /\ j \in DOMAIN toNode /\ toNode[j] \in Sent /\ toNode[j].id = i
          /\ toNode[j].type \in RequestTypes \cup {"headers", "proofs"}
      BY <1>1 DEF About
    <2>2. toNode[j].type \in RequestTypes
      BY <2>1, SentKinds DEF RequestTypes
    <2>3. /\ requests[i] = [type |-> toNode[j].type, block |-> toNode[j].block]
          /\ toNode[j].block \in Block
      BY <2>1, <2>2, SentKinds DEF Talk, Matching, AsksFor
    <2>4. [type |-> toNode[j].type, block |-> toNode[j].block]
             \in [type : RequestTypes, block : Block]
      BY <2>2, <2>3
    <2> QED
      BY <2>3, <2>4, NoneAssumption
  <1>4. ASSUME NEW j \in About(wire, i) PROVE requests[i] # None
    <2>1. /\ j \in DOMAIN wire /\ wire[j] \in Received /\ wire[j].id = i
          /\ wire[j].type \in RequestTypes \cup {"headers", "proofs"}
      BY <1>1 DEF About
    <2>2. Len(packets) + j \in DOMAIN Incoming /\ Incoming[Len(packets) + j] = wire[j]
      BY <1>1, <2>1, Concats DEF Incoming
    <2> QED
      BY <1>2, <2>1, <2>2 DEF Talk, Matching
  <1>5. ASSUME NEW j \in About(packets, i) PROVE requests[i] # None
    <2>1. /\ j \in DOMAIN packets /\ packets[j] \in Received /\ packets[j].id = i
          /\ packets[j].type \in RequestTypes \cup {"headers", "proofs"}
      BY <1>1 DEF About
    <2>2. j \in DOMAIN Incoming /\ Incoming[j] = packets[j]
      BY <1>1, <2>1, Concats DEF Incoming
    <2> QED
      BY <1>2, <2>1, <2>2 DEF Talk, Matching
  <1> QED
    BY <1>3, <1>4, <1>5

LEMMA TalkMeansOneOut == Talk => OneRequestOut
  <1> SUFFICES ASSUME Talk, talking PROVE OneRequestOut
    BY DEF OneRequestOut
  <1>1. \A i, j \in Id : requests[i] # None /\ requests[j] # None => i = j
    BY DEF Talk, OnePending
  <1>2. \A i \in Id : requests[i] # None <=> Carriers(i) # <<{}, {}, {}>>
    <2> SUFFICES ASSUME NEW i \in Id
                 PROVE  requests[i] # None <=> Carriers(i) # <<{}, {}, {}>>
      OBVIOUS
    <2>1. Carriers(i) = <<About(toNode, i), About(wire, i), About(packets, i)>>
      BY DEF Carriers, About
    <2>2. Carriers(i) # <<{}, {}, {}>> <=>
             About(toNode, i) # {} \/ About(wire, i) # {} \/ About(packets, i) # {}
      BY <2>1
    <2>3. requests[i] # None => Carried(i)
      BY DEF Talk, NoneForgotten
    <2> QED
      BY <2>2, <2>3, CarriedFound, FoundPending DEF Talk
  <1> QED
    BY <1>1, <1>2 DEF OneRequestOut

\* While the node talks at most one request waits, and exactly then a message of the two
\* sides carries it or its answer: one step of the conversation is under way at most, in
\* one direction (OneTurn), and what is under way fits the requests (Matching).
THEOREM OneOut == Spec => []OneRequestOut
  BY TalkMeansOneOut, TalkHolds, PTL

-----------------------------------------------------------------------------
\* The store.

\* What is on its way is no turn: the same holds of any part of it.
LEMMA LessIsQuiet ==
    ASSUME Talk, TypeOK', Quiet, Within(Incoming', Incoming), Within(toNode', toNode)
    PROVE  Quiet'
  <1>1. /\ Incoming \in Seq(Received) /\ toNode \in Seq(Sent)
        /\ Incoming' \in Seq(Received) /\ toNode' \in Seq(Sent)
    BY IncomingTyped, IncomingTypedNext DEF Talk
  <1> QED
    BY <1>1, WithinTurn DEF Quiet

LEMMA SameIsQuiet ==
    ASSUME Quiet, Incoming' = Incoming, toNode' = toNode
    PROVE  Quiet'
  BY DEF Quiet

\* Of the frames the others alone are left, and they ask for nothing.
LEMMA CalmFrames ==
    ASSUME Talk, TypeOK', Calm, NEW m,
           Hello(m) \/ Other(m) \/ Status(m) \/ Headers(m) \/ Proofs(m)
    PROVE  Calm' /\ (Hello(m) \/ Other(m))
  <1>1. Frame(m)
    BY DEF Hello, Other, Status, Headers, Proofs
  <1>2. m = Incoming[1] /\ 1 \in DOMAIN Incoming
    <2>1. m = Head(packets) /\ packets # <<>>
      BY <1>1 DEF Frame
    <2> QED
      BY <2>1, NextFrame DEF Talk
  <1>3. m.type \notin InTypes
    BY <1>2 DEF Calm, Quiet, Without
  <1>4. Hello(m) \/ Other(m)
    BY <1>3 DEF Status, Headers, Proofs, InTypes
  <1>5. /\ thread = "reading" /\ requests' = requests
        /\ \/ Thrown
           \/ /\ UNCHANGED <<conn, wire, thread>>
              /\ toNode' = toNode \/ toNode' = Append(toNode, [type |-> "status"])
    BY <1>4 DEF Hello, Other, SendFrame, Frame
  <1>6. CASE Thrown
    <2>1. /\ wire' = <<>> /\ toNode' = <<>> /\ UNCHANGED handshakeSent /\ thread' = "reading"
      BY <1>6, ThrownFacts DEF Talk
    <2>2. Within(Incoming', Incoming) /\ Within(toNode', toNode)
      BY <1>1, <2>1, FrameFacts DEF Talk, Within
    <2>3. Quiet'
      BY <2>2, LessIsQuiet DEF Calm
    <2> QED
      BY <1>4, <1>5, <2>1, <2>3 DEF Calm, Idle
  <1>7. CASE /\ UNCHANGED <<conn, wire, thread>>
             /\ toNode' = toNode \/ toNode' = Append(toNode, [type |-> "status"])
    <2>1. Within(Incoming', Incoming)
      BY <1>1, <1>7, FrameFacts DEF Talk
    <2>2. /\ Incoming \in Seq(Received) /\ toNode \in Seq(Sent) /\ Incoming' \in Seq(Received)
          /\ [type |-> "status"] \in Sent /\ [type |-> "status"].type \notin OutTypes
      BY IncomingTyped, IncomingTypedNext DEF Talk, Sent, OutTypes
    <2>3. Without(Incoming', InTypes)
      BY <2>1, <2>2, WithinTurn DEF Calm, Quiet
    <2>4. Without(toNode', OutTypes)
      BY <1>7, <2>2, AppendTurn DEF Calm, Quiet
    <2>5. UNCHANGED <<handshakeSent, thread>>
      BY <1>7 DEF conn
    <2> QED
      BY <1>4, <1>5, <2>3, <2>4, <2>5 DEF Calm, Quiet, Idle
  <1> QED
    BY <1>5, <1>6, <1>7

LEMMA CalmBytes ==
    ASSUME Talk, TypeOK', Calm, NEW n \in 0..Len(wire), NEW p \in BOOLEAN, Bytes(n, p)
    PROVE  Calm'
  <1> DEFINE buffer == packets \o SubSeq(wire, 1, n)
             rest   == SubSeq(wire, n + 1, Len(wire))
  <1>1. /\ buffer \in Seq(Received) /\ buffer \o rest = Incoming
        /\ \A j \in DOMAIN buffer : j \in DOMAIN Incoming /\ buffer[j] = Incoming[j]
        /\ buffer # <<>> => Head(buffer) = Incoming[1] /\ 1 \in DOMAIN Incoming
    BY Arrives DEF Talk
  <1>2. requests' = requests /\ handshakeSent' = handshakeSent
    BY DEF Bytes, conn, Disconnected
  <1> HIDE DEF buffer, rest
  <1>3. ~(buffer # <<>> /\ Head(buffer).type = "ack")
    BY <1>1 DEF Calm, Quiet, Without, InTypes
  <1>4. CASE packets' = buffer /\ Disconnected /\ UNCHANGED thread
    <2>1. wire' = <<>> /\ toNode' = <<>>
      BY <1>4 DEF Disconnected
    <2>2. Incoming' = buffer
      BY <1>1, <1>4, <2>1 DEF Incoming
    <2>3. Within(Incoming', Incoming) /\ Within(toNode', toNode)
      <3>1. Within(Incoming', Incoming)
        BY <1>1, <2>2, WithinSame
      <3>2. Within(toNode', toNode)
        BY <2>1 DEF Within
      <3> QED
        BY <3>1, <3>2
    <2> QED
      BY <1>2, <1>4, <2>3, LessIsQuiet DEF Calm, Idle
  <1>5. CASE packets' = buffer /\ wire' = rest /\ UNCHANGED <<conn, toNode>>
             /\ (thread' = thread \/ thread' = "reading")
    <2>1. Incoming' = Incoming
      BY <1>1, <1>5 DEF Incoming
    <2> QED
      BY <1>2, <1>5, <2>1, SameIsQuiet DEF Calm, Idle
  <1> QED
    BY <1>3, <1>4, <1>5 DEF Bytes, buffer, rest

LEMMA CalmNode ==
    ASSUME Talk, TypeOK', Calm, NodeAnswers
    PROVE  Calm'
  <1>1. PICK answers \in Seq(Received) :
           /\ NodeSees(answers)
           /\ \/ toNode[1].type \in OutTypes /\ Fits(answers)
              \/ toNode[1].type \notin OutTypes /\ answers = <<>>
    BY NodeAnswered DEF Talk
  <1>2. toNode # <<>> /\ 1 \in DOMAIN toNode /\ toNode \in Seq(Sent) /\ wire \in Seq(Received)
    BY NodeAnswered, IncomingTyped DEF Talk, TypeOK
  <1>3. answers = <<>>
    BY <1>1, <1>2 DEF Calm, Quiet, Without
  <1>4. wire' = wire /\ toNode' = Tail(toNode) /\ UNCHANGED <<requests, handshakeSent, packets, thread>>
    BY <1>1, <1>2, <1>3 DEF NodeSees
  <1>5. Incoming' = Incoming
    BY <1>4 DEF Incoming
  <1>6. Without(toNode', OutTypes)
    BY <1>2, <1>4, WithinTail, WithinTurn, Tails DEF Calm, Quiet
  <1> QED
    BY <1>4, <1>5, <1>6 DEF Calm, Quiet, Idle

LEMMA CalmNoise ==
    ASSUME Talk, TypeOK', Calm, NEW type \in {"noise", "disconnect"}, NodeNoise(type)
    PROVE  Calm'
  <1> DEFINE m == [type |-> type]
  <1>1. UNCHANGED <<requests, handshakeSent, packets, thread, toNode>> /\ wire' = Append(wire, m)
    BY DEF NodeNoise, conn
  <1>2. m \in Received /\ m.type \notin InTypes
    BY DEF Received, InTypes
  <1> HIDE DEF m
  <1>3. Incoming' = Append(Incoming, m) /\ Incoming \in Seq(Received)
    BY <1>1, <1>2 DEF Incoming, Talk, TypeOK
  <1>4. Without(Incoming', InTypes)
    BY <1>2, <1>3, AppendTurn DEF Calm, Quiet
  <1> QED
    BY <1>1, <1>4 DEF Calm, Quiet, Idle

\* Once nothing is asked for, nothing is until the kit is made again.
LEMMA CalmStep ==
    ASSUME Talk, TypeOK', Calm, [Next]_vars
    PROVE  Calm' \/ Restart
  <1>2. CASE Connect
    <2>1. wire = <<>> /\ toNode = <<>>
      BY <1>2 DEF Connect, Talk, Streams
    <2>2. Incoming' = Incoming /\ toNode' = toNode
      BY <1>2, <2>1 DEF Connect, Incoming
    <2> QED
      BY <1>2, <2>2, SameIsQuiet DEF Connect, Calm, Idle
  <1>4. CASE InitiateHandshake
    BY <1>4 DEF InitiateHandshake, Calm
  <1>5. CASE Closed
    <2>1. wire' = <<>> /\ toNode' = <<>> /\ UNCHANGED <<packets, requests, handshakeSent, thread>>
      BY <1>5 DEF Closed, Disconnected
    <2>2. packets \in Seq(Received) /\ wire \in Seq(Received)
      BY DEF Talk, TypeOK
    <2>3. Incoming' = packets
      BY <2>1, <2>2 DEF Incoming
    <2>4. Within(Incoming', Incoming) /\ Within(toNode', toNode)
      <3>1. \A j \in DOMAIN packets : j \in DOMAIN Incoming /\ packets[j] = Incoming[j]
        BY <2>2, Concats DEF Incoming
      <3>2. Within(Incoming', Incoming)
        BY <2>2, <2>3, <3>1, WithinSame
      <3>3. Within(toNode', toNode)
        BY <2>1 DEF Within
      <3> QED
        BY <3>2, <3>3
    <2> QED
      BY <2>1, <2>4, LessIsQuiet DEF Calm, Idle
  <1>6. CASE BytesArrive
    BY <1>6, CalmBytes DEF BytesArrive
  <1>7. CASE ReadAll
    <2>1. UNCHANGED <<packets, wire, toNode, requests, handshakeSent>> /\ thread' = "idle"
      BY <1>7 DEF ReadAll, conn
    <2>2. Incoming' = Incoming
      BY <2>1 DEF Incoming
    <2> QED
      BY <2>1, <2>2, SameIsQuiet DEF Calm, Idle
  <1>8. CASE HandleFrame
    BY <1>8, CalmFrames DEF HandleFrame
  <1>9. CASE SyncOn
    BY <1>9 DEF SyncOn, Calm
  <1>10. CASE NodeAnswers
    BY <1>10, CalmNode
  <1>11. CASE UNCHANGED <<requests, conn, packets, thread, wire, toNode>>
    <2>1. Incoming' = Incoming /\ UNCHANGED <<requests, handshakeSent, thread, toNode>>
      BY <1>11 DEF Incoming, conn
    <2> QED
      BY <2>1, SameIsQuiet DEF Calm, Idle
  <1>13. CASE \E type \in {"noise", "disconnect"} : NodeNoise(type)
    BY <1>13, CalmNoise
  <1> QED
    BY <1>2, <1>4, <1>5, <1>6, <1>7, <1>8, <1>9, <1>10, <1>11, <1>13
       DEF Next, Clear, NodeGrows, Reorganised, vars

-----------------------------------------------------------------------------
\* What a step does to the store.

\* The branch that ends in e, from height h on, is added.
Grows(e, h) ==
    /\ balance = None \/ cleared
    /\ stored = {} \/ Ancestor(e, h) \in stored
    /\ stored' = stored \cup {Ancestor(e, i) : i \in h..e.height}
    /\ UNCHANGED <<balance, cleared>>

Shows(b) ==
    /\ cleared \/ b \in LastHeaders(stored)
    /\ balance' = b
    /\ UNCHANGED <<stored, cleared>>

\* The headers that are saved are the branch they are a piece of.
LEMMA PieceSaved ==
    ASSUME NEW b \in Block, NEW hs \in Seq(Block), Len(hs) > 1, Piece(hs, b)
    PROVE  \E e \in Block :
              /\ b.height \in 0..e.height
              /\ Ancestor(e, b.height) = b
              /\ Saved(hs) = {Ancestor(e, i) : i \in b.height..e.height}
  <1>1. PICK e \in Block :
           /\ b.height + Len(hs) - 1 = e.height
           /\ Ancestor(e, b.height) = b
           /\ \A i \in 1..Len(hs) : hs[i] = Ancestor(e, b.height + i - 1)
    BY DEF Piece
  <1>2. b.height \in Nat /\ e.height \in Nat /\ Len(hs) \in Nat /\ DOMAIN hs = 1..Len(hs)
    BY SpvAssumption DEF Block
  <1>3. b.height \in 0..e.height
    BY <1>1, <1>2
  <1>4. Saved(hs) \subseteq {Ancestor(e, i) : i \in b.height..e.height}
    <2> SUFFICES ASSUME NEW i \in DOMAIN hs
                 PROVE  hs[i] \in {Ancestor(e, k) : k \in b.height..e.height}
      BY DEF Saved
    <2>1. b.height + i - 1 \in b.height..e.height /\ i \in 1..Len(hs)
      BY <1>1, <1>2
    <2> QED
      BY <1>1, <2>1
  <1>5. {Ancestor(e, i) : i \in b.height..e.height} \subseteq Saved(hs)
    <2> SUFFICES ASSUME NEW k \in b.height..e.height PROVE Ancestor(e, k) \in Saved(hs)
      OBVIOUS
    <2> DEFINE i == k - b.height + 1
    <2>1. i \in 1..Len(hs) /\ b.height + i - 1 = k
      BY <1>1, <1>2
    <2> HIDE DEF i
    <2>2. hs[i] = Ancestor(e, k)
      BY <1>1, <2>1
    <2> QED
      BY <1>2, <2>1, <2>2 DEF Saved
  <1> QED
    BY <1>1, <1>3, <1>4, <1>5

LEMMA HeadersStored ==
    ASSUME Talk, TypeOK', Store, NEW m, Headers(m)
    PROVE  UNCHANGED store \/ \E e \in Block : \E h \in 0..e.height : Grows(e, h)
  <1> SUFFICES ASSUME stored' # stored \/ balance' # balance \/ cleared' # cleared
               PROVE  \E e \in Block : \E h \in 0..e.height : Grows(e, h)
    BY DEF store
  <1>1. /\ Frame(m) /\ m.type = "headers" /\ Expected("getHeaders", m.id)
        /\ ~IsSynced(m.headers) /\ UNCHANGED <<wire, balance, cleared>>
        /\ stored' = stored \cup Saved(m.headers)
    BY DEF Headers, store
  <1>2. /\ m.id \in Id /\ m \in Received /\ AnswersTo(m, requests) /\ requests[m.id] # None
    BY <1>1, AnswerFacts
  <1>3. m.headers \in Seq(Block) /\ Len(m.headers) > 1
    BY <1>1, <1>2, ReceivedKinds DEF IsSynced
  <1> DEFINE b == requests[m.id].block
  <1>4. b \in Block
    BY <1>2 DEF Talk, TypeOK
  <1>5. Piece(m.headers, b)
    BY <1>1, <1>2 DEF AnswersTo
  <1>6. b \in stored \/ stored = {}
    BY <1>1, <1>2 DEF Store, AsksStored, Expected
  <1>7. balance = None \/ cleared
    BY <1>2 DEF Store, CalmWhenShown, Calm, Idle, NothingPending
  <1> HIDE DEF b
  <1>8. PICK e \in Block :
           /\ b.height \in 0..e.height
           /\ Ancestor(e, b.height) = b
           /\ Saved(m.headers) = {Ancestor(e, i) : i \in b.height..e.height}
    BY <1>3, <1>4, <1>5, PieceSaved
  <1>9. Grows(e, b.height)
    BY <1>1, <1>6, <1>7, <1>8 DEF Grows
  <1> QED
    BY <1>8, <1>9

\* A proof that is taken ends the conversation.
LEMMA ProofsStored ==
    ASSUME Talk, TypeOK', Store, NEW m, Proofs(m)
    PROVE  UNCHANGED store \/ (Calm' /\ \E b \in Block : Shows(b))
  <1>1. Frame(m) /\ m.type = "proofs" /\ UNCHANGED <<stored, cleared>>
    BY DEF Proofs
  <1>2. CASE UNCHANGED balance
    BY <1>1, <1>2 DEF store
  <1>3. CASE /\ Expected("getProofs", m.id)
             /\ requests' = Removed(m.id)
             /\ Proves(m.proof, requests[m.id].block)
             /\ balance' = m.proof
             /\ UNCHANGED <<conn, wire, toNode, thread>>
    <2>1. /\ m.id \in Id /\ requests[m.id] # None
          /\ NothingPending(Removed(m.id))
          /\ Without(Incoming', InTypes) /\ Without(toNode, OutTypes)
          /\ thread = "reading" /\ handshakeSent
      BY <1>1, <1>3, AnswerFacts
    <2>2. Calm'
      BY <1>3, <2>1 DEF Calm, Idle, Quiet, conn
    <2>3. m.proof = requests[m.id].block /\ m.proof \in Block
      BY <1>3, <2>1 DEF Proves, Talk, TypeOK
    <2>4. cleared \/ m.proof \in LastHeaders(stored)
      BY <1>3, <2>1, <2>3 DEF Store, AsksStored, Expected
    <2> QED
      BY <1>1, <1>3, <2>2, <2>3, <2>4 DEF Shows
  <1> QED
    BY <1>2, <1>3 DEF Proofs

LEMMA StoreSteps ==
    ASSUME Talk, TypeOK', Store, [Next]_vars
    PROVE  \/ UNCHANGED store
           \/ Restart
           \/ Clear
           \/ \E e \in Block : \E h \in 0..e.height : Grows(e, h)
           \/ (Calm' /\ \E b \in Block : Shows(b))
  <1>1. CASE HandleFrame
    <2>1. PICK m : Hello(m) \/ Other(m) \/ Status(m) \/ Headers(m) \/ Proofs(m)
      BY <1>1 DEF HandleFrame
    <2>2. CASE Hello(m) \/ Other(m) \/ Status(m)
      BY <2>2 DEF Hello, Other, Status
    <2> QED
      BY <2>1, <2>2, HeadersStored, ProofsStored
  <1>2. CASE ~HandleFrame
    BY <1>2 DEF Next, vars, Connect, InitiateHandshake, Closed, BytesArrive, Bytes, ReadAll,
                SyncOn, NodeAnswers, NodeSees, NodeGrows, Reorganised, NodeNoise
  <1> QED
    BY <1>1, <1>2

LEMMA BranchHasNoGap ==
    ASSUME TypeOK, NoGap, NEW e \in Block, NEW h \in 0..e.height, Grows(e, h)
    PROVE  NoGap'
  <1> DEFINE Added == {Ancestor(e, i) : i \in h..e.height}
  <1>1. e.height \in Nat /\ h \in Nat /\ \A b \in stored : b.height \in Nat
    BY SpvAssumption DEF Block, TypeOK
  <1>2. \A i \in h..e.height : Ancestor(e, i).height = i
    BY DEF Ancestor
  <1>3. ASSUME NEW i \in h..e.height, i > h
        PROVE  Parent(Ancestor(e, i)) \in Added
    <2>1. i - 1 \in h..e.height /\ i - 1 \in 0..i /\ i \in 0..e.height
      BY <1>1, <1>3
    <2>2. Parent(Ancestor(e, i)) = Ancestor(Ancestor(e, i), i - 1)
      BY <1>2 DEF Parent
    <2>3. Parent(Ancestor(e, i)) = Ancestor(e, i - 1)
      BY <2>1, <2>2, AncestorsOfAncestor
    <2> QED
      BY <2>1, <2>3
  <1>4. stored' = stored \cup Added /\ (stored = {} \/ Ancestor(e, h) \in stored)
    BY DEF Grows
  <1>5. h \in h..e.height
    BY <1>1
  <1> SUFFICES ASSUME NEW b \in stored', NEW c \in stored', c.height < b.height
               PROVE  Parent(b) \in stored'
    BY DEF NoGap
  <1>6. CASE b \in stored /\ c \in stored
    BY <1>4, <1>6 DEF NoGap
  <1>7. ASSUME b \in stored, NEW i \in h..e.height, c = Ancestor(e, i)
        PROVE  Parent(b) \in stored'
    <2>1. Ancestor(e, h) \in stored /\ Ancestor(e, h).height = h
      BY <1>2, <1>4, <1>5, <1>7
    <2>2. h < b.height
      BY <1>1, <1>2, <1>7
    <2> QED
      BY <1>4, <1>7, <2>1, <2>2 DEF NoGap
  <1>8. ASSUME NEW i \in h..e.height, b = Ancestor(e, i) PROVE Parent(b) \in stored'
    <2>1. CASE i > h
      BY <1>3, <1>4, <1>8, <2>1
    <2>2. CASE i = h
      <3>1. CASE c \in stored
        BY <1>4, <1>8, <2>2, <3>1 DEF NoGap
      <3>2. ASSUME NEW k \in h..e.height, c = Ancestor(e, k) PROVE FALSE
        BY <1>1, <1>2, <1>8, <2>2, <3>2
      <3> QED
        BY <1>4, <3>1, <3>2
    <2> QED
      BY <1>1, <2>1, <2>2
  <1> QED
    BY <1>4, <1>6, <1>7, <1>8

LEMMA AsksStoredStep ==
    ASSUME Talk, TypeOK', Store, [Next]_vars
    PROVE  AsksStored'
  <1>1. CASE UNCHANGED <<stored, cleared, requests>>
    BY <1>1 DEF Store, AsksStored, LastHeaders
  <1>2. CASE Restart
    BY <1>2 DEF Restart, MadeFrom, AsksStored
  <1>3. CASE Clear
    BY <1>3 DEF Clear, AsksStored
  <1>4. ASSUME SyncBlocks, UNCHANGED store PROVE AsksStored'
    <2>1. CASE NothingAsked
      BY <1>1, <1>4, <2>1 DEF NothingAsked, store
    <2>2. ASSUME NEW b \in LastHeaders(stored), Request("getHeaders", b) PROVE AsksStored'
      <3>1. PICK i : requests' = [requests EXCEPT ![i] = [type |-> "getHeaders", block |-> b]]
        BY <2>2 DEF Request
      <3>2. b \in stored /\ "getHeaders" # "getProofs"
        BY DEF LastHeaders
      <3>3. \A k \in Id : requests'[k] = requests[k]
                          \/ requests'[k] = [type |-> "getHeaders", block |-> b]
        BY <3>1 DEF Talk, TypeOK
      <3>4. LastHeaders(stored)' = LastHeaders(stored) /\ stored' = stored /\ cleared' = cleared
        BY <1>4 DEF LastHeaders, store
      <3> QED
        BY <3>2, <3>3, <3>4 DEF Store, AsksStored
    <2> QED
      BY <1>4, <2>1, <2>2 DEF SyncBlocks
  <1>5. ASSUME NEW m, Headers(m) PROVE AsksStored'
    <2>1. Frame(m) /\ m.type = "headers"
      BY <1>5 DEF Headers
    <2>2. CASE requests' = Removed(m.id) /\ wire' = wire
      <3>1. NothingPending(requests')
        BY <2>1, <2>2, AnswerFacts
      <3> QED
        BY <3>1 DEF AsksStored, NothingPending
    <2>3. ASSUME NEW b \in LastHeaders(stored), UNCHANGED <<wire, store>>,
                 requests' = [Removed(m.id) EXCEPT ![m.id] = [type |-> "getProofs", block |-> b]]
          PROVE  AsksStored'
      <3>1. NothingPending(Removed(m.id)) /\ m.id \in Id
        BY <2>1, <2>3, AnswerFacts
      <3>2. \A k \in Id : requests'[k] = None
                          \/ requests'[k] = [type |-> "getProofs", block |-> b]
        BY <2>3, <3>1, RemovedTypes DEF NothingPending, Talk
      <3>3. LastHeaders(stored)' = LastHeaders(stored) /\ "getProofs" # "getHeaders"
        BY <2>3 DEF LastHeaders, store
      <3> QED
        BY <3>2, <3>3 DEF AsksStored
    <2>4. CASE UNCHANGED <<requests, store>>
      BY <1>1, <2>4 DEF store
    <2> QED
      BY <1>5, <2>2, <2>3, <2>4 DEF Headers
  <1>6. ASSUME NEW m, Proofs(m) PROVE AsksStored'
    <2>1. Frame(m) /\ m.type = "proofs" /\ UNCHANGED <<stored, cleared>>
      BY <1>6 DEF Proofs
    <2>2. CASE UNCHANGED requests
      BY <1>1, <2>1, <2>2
    <2>3. CASE requests' = Removed(m.id)
      <3>1. \A k \in Id : requests'[k] = requests[k] \/ requests'[k] = None
        BY <2>3 DEF Removed, Talk, TypeOK
      <3>2. LastHeaders(stored)' = LastHeaders(stored)
        BY <2>1 DEF LastHeaders
      <3> QED
        BY <2>1, <3>1, <3>2 DEF Store, AsksStored
    <2> QED
      BY <1>6, <2>2, <2>3 DEF Proofs
  <1>7. CASE HandleFrame
    <2>1. PICK m : Hello(m) \/ Other(m) \/ Status(m) \/ Headers(m) \/ Proofs(m)
      BY <1>7 DEF HandleFrame
    <2>2. CASE Hello(m) \/ Other(m)
      BY <1>1, <2>2 DEF Hello, Other, store
    <2>3. CASE Status(m)
      BY <1>1, <1>4, <2>3 DEF Status, store
    <2> QED
      BY <1>5, <1>6, <2>1, <2>2, <2>3
  <1>8. CASE SyncOn
    BY <1>4, <1>8 DEF SyncOn
  <1>9. CASE \/ Connect \/ InitiateHandshake \/ Closed \/ BytesArrive \/ ReadAll
             \/ NodeAnswers \/ NodeGrows \/ Reorganised
             \/ \E type \in {"noise", "disconnect"} : NodeNoise(type)
             \/ UNCHANGED vars
    BY <1>1, <1>9 DEF Connect, InitiateHandshake, Closed, BytesArrive, Bytes, ReadAll,
          NodeAnswers, NodeSees, NodeGrows, Reorganised, NodeNoise, vars, store
  <1> QED
    BY <1>2, <1>3, <1>7, <1>8, <1>9 DEF Next

LEMMA StoreStep ==
    ASSUME Talk, TypeOK', Store, [Next]_vars
    PROVE  Store'
  <1>1. AsksStored'
    BY AsksStoredStep
  <1>2. CASE UNCHANGED store
    <2>1. NoGap'
      BY <1>2 DEF Store, NoGap, store
    <2>2. Calm => Calm' \/ balance' = None
      BY CalmStep DEF Restart, MadeFrom
    <2>3. CalmWhenShown'
      BY <1>2, <2>2 DEF Store, CalmWhenShown, store
    <2> QED
      BY <1>1, <2>1, <2>3 DEF Store
  <1>3. CASE Restart
    <2>1. stored' = stored \/ stored' = {Checkpoint}
      BY <1>3 DEF Restart, MadeFrom, StoredAtStart
    <2>2. NoGap'
      <3>1. CASE stored' = stored
        BY <3>1 DEF Store, NoGap
      <3>2. CASE stored' = {Checkpoint}
        <4>1. ~(0 < 0) /\ Checkpoint.height = 0
          BY DEF Checkpoint
        <4> QED
          BY <3>2, <4>1 DEF NoGap
      <3> QED
        BY <2>1, <3>1, <3>2
    <2>3. CalmWhenShown'
      BY <1>3 DEF Restart, MadeFrom, CalmWhenShown
    <2> QED
      BY <1>1, <2>2, <2>3 DEF Store
  <1>4. CASE Clear
    BY <1>1, <1>4 DEF Clear, Store, NoGap, CalmWhenShown
  <1>5. ASSUME NEW e \in Block, NEW h \in 0..e.height, Grows(e, h) PROVE Store'
    <2>1. NoGap'
      BY <1>5, BranchHasNoGap DEF Talk, Store
    <2>2. CalmWhenShown'
      BY <1>5 DEF Grows, CalmWhenShown
    <2> QED
      BY <1>1, <2>1, <2>2 DEF Store
  <1>6. ASSUME Calm', NEW b \in Block, Shows(b) PROVE Store'
    <2>1. NoGap'
      BY <1>6 DEF Store, NoGap, Shows
    <2> QED
      BY <1>1, <1>6, <2>1 DEF Store, CalmWhenShown
  <1> QED
    BY <1>2, <1>3, <1>4, <1>5, <1>6, StoreSteps

LEMMA InitStore == Init => Store
  <1> SUFFICES ASSUME Init PROVE Store
    OBVIOUS
  <1>1. NoGap
    <2>1. ~(0 < 0) /\ Checkpoint.height = 0
      BY DEF Checkpoint
    <2> QED
      BY <2>1 DEF Init, NoGap
  <1> QED
    BY <1>1 DEF Init, Store, AsksStored, CalmWhenShown

LEMMA Inductive == Spec => []SInv
  <1>1. Init => SInv
    BY InitTalk, InitStore DEF SInv
  <1>2. SInv /\ [Next]_vars => SInv'
    <2> SUFFICES ASSUME SInv, [Next]_vars PROVE SInv'
      OBVIOUS
    <2>1. Talk'
      BY StepTalk DEF SInv
    <2>2. TypeOK'
      BY <2>1 DEF Talk
    <2> QED
      BY <2>1, <2>2, StoreStep DEF SInv
  <1> QED
    BY <1>1, <1>2, PTL DEF Spec

\* The stored headers have no gap: a saved piece begins with the header that was asked
\* for, and that header is stored, or nothing is.
THEOREM StoreHasNoGap == Spec => []NoGap
  <1>1. SInv => NoGap
    BY DEF SInv, Store
  <1> QED
    BY <1>1, Inductive, PTL

-----------------------------------------------------------------------------
\* SpvSync implements HeaderChain.

LEMMA ChainInit == Init => Chain!Init
  BY DEF Init, Chain!Init

LEMMA ChainStep ==
    ASSUME SInv, TypeOK', [Next]_vars
    PROVE  [Chain!Next]_(Chain!vars)
  <1>1. CASE UNCHANGED store
    BY <1>1 DEF store, Chain!vars
  <1>2. CASE Restart
    BY <1>2 DEF Restart, MadeFrom, StoredAtStart, Chain!Next, Chain!Reopen
  <1>3. CASE Clear
    BY <1>3 DEF Clear, Chain!Next, Chain!Clear
  <1>4. ASSUME NEW e \in Block, NEW h \in 0..e.height, Grows(e, h) PROVE Chain!Next
    <2>1. Chain!Extend(e, h)
      BY <1>4 DEF Grows, Chain!Extend, Chain!Branch
    <2> QED
      BY <2>1 DEF Chain!Next
  <1>5. ASSUME NEW b \in Block, Shows(b) PROVE Chain!Next
    <2>1. Chain!Prove(b)
      BY <1>5 DEF Shows, Chain!Prove
    <2> QED
      BY <2>1 DEF Chain!Next
  <1> QED
    BY <1>1, <1>2, <1>3, <1>4, <1>5, StoreSteps DEF SInv

\* The SPV engine implements HeaderChain: every step adds a piece of one branch that
\* begins with a stored header, shows the state of the last header, opens or clears the
\* store, or leaves it alone.  What is asked for is stored (AsksStored), and once a
\* balance is shown nothing is asked for (CalmWhenShown).
THEOREM ChainKept == Spec => KeepsChain
  <1>1. SInv => TypeOK
    BY DEF SInv, Talk
  <1>2. SInv /\ TypeOK' /\ [Next]_vars => [Chain!Next]_(Chain!vars)
    BY ChainStep
  <1> QED
    BY <1>1, <1>2, ChainInit, Inductive, PTL DEF Spec, KeepsChain, Chain!Spec

=============================================================================
