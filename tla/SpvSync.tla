------------------------------- MODULE SpvSync -------------------------------
(***************************************************************************)
(* The SPV engine: Connection, FrameConnection, DevP2PConnection, DevP2PPeer, *)
(* LESPeer, PeerGroup and SpvGrdbStorage, one peer, one run loop thread.      *)
(* Bytes arrive in any portions; the frames in the buffer are handled one by  *)
(* one and each ends in a call of the layers above.  EthereumKit's clear()    *)
(* runs on the main thread, between any two accesses of the storage.          *)
(*                                                                          *)
(* The node is external: it follows the protocol, its chain grows and is      *)
(* reorganised, and it may be of another network, behind, or go away.         *)
(* Cryptography is left out: a frame is the message in it, a proof the block  *)
(* whose state root it ends in.                                             *)
(***************************************************************************)
EXTENDS Integers, Sequences

CONSTANTS
    Top,         \* the highest block (a bound for TLC)
    ForkPoint,   \* the highest block both branches of the chain have in common
    Boundary,    \* the lowest height with one more decimal digit
    MaxHeaders,  \* GetBlockHeadersMessage.maxHeaders
    MaxWire,     \* messages on the wire (a bound for the node's noise)
    None         \* nil

ASSUME SpvAssumption ==
    /\ Top \in Nat
    /\ ForkPoint \in 0..Top
    /\ Boundary \in Nat
    /\ MaxHeaders \in Nat \ {0}
    /\ MaxWire \in Nat

\* Heights count from the checkpoint.  Up to the fork point there is one branch.
Block == {b \in [height : 0..Top, branch : {"a", "b"}] :
              b.height <= ForkPoint => b.branch = "a"}

Checkpoint == [height |-> 0, branch |-> "a"]

Ancestor(b, h) == [height |-> h, branch |-> IF h <= ForkPoint THEN "a" ELSE b.branch]

Parent(b) == Ancestor(b, b.height - 1)

Id == 1..2

RequestTypes == {"getHeaders", "getProofs"}

ASSUME NoneAssumption == None \notin Block \cup [type : RequestTypes, block : Block]

\* The messages of the two sides.
Sent == [type : {"auth", "hello", "status"}] \cup [type : RequestTypes, id : Id, block : Block]

Received ==
    [type : {"ack", "noAck", "noise", "disconnect"}]
        \cup [type : {"hello"}, shared : BOOLEAN]
        \cup [type : {"status"}, ours : BOOLEAN, height : Nat]
        \cup [type : {"headers"}, id : Id, headers : Seq(Block)]
        \cup [type : {"proofs"}, id : Id, proof : Block \cup {None}]

VARIABLES
    stored,     \* the headers in the database
    balance,    \* the block whose account state the kit shows
    known,      \* LESPeer.lastBlockHeader
    requests,   \* LESPeerRequestHolder, by request id
    lesTypes,   \* DevP2PConnection.packetTypesMap has the les messages
    open,       \* the streams are open (runLoop, readStream)
    handshakeSent,
    session,    \* "auth": handshake is set; "codec": frameCodec is
    packets,    \* bytes read and not handled
    thread,     \* the run loop thread: "idle", "reading" frames, or "saved" headers
    wire,       \* what the node sent and was not read
    toNode,     \* what was sent to the node and not handled by it
    talking,    \* the node has answered the handshake on these streams
    head,       \* the node's head
    cleared     \* history: clear() was called since the start of the app

conn  == <<open, handshakeSent, session, talking>>
store == <<stored, balance, cleared>>
vars  == <<store, known, requests, lesTypes, conn, packets, thread,
           wire, toNode, head>>

-----------------------------------------------------------------------------
\* SpvGrdbStorage.

\* Heights are stored as text: the order of the column is that of their digits.
\* The checkpoint's first digit is 5, so a height with one more digit sorts below.
TextBelow(c, b) ==
    IF (c.height < Boundary) = (b.height < Boundary)
    THEN c.height <= b.height
    ELSE c.height >= Boundary

\* lastBlockHeader; of two headers of one height either.
LastHeaders(S) == {b \in S : \A c \in S : TextBelow(c, b)}

-----------------------------------------------------------------------------
\* The app: the kit is made, started, cleared, and the app killed.

\* PeerGroup.init.
StoredAtStart(S) == IF S = {} THEN {Checkpoint} ELSE S

MadeFrom(S) ==
    /\ stored' = S
    /\ known' \in LastHeaders(S)
    /\ balance' = None
    /\ cleared' = FALSE
    /\ requests' = [i \in Id |-> None]
    /\ lesTypes' = FALSE
    /\ open' = FALSE
    /\ handshakeSent' = FALSE
    /\ session' = "none"
    /\ packets' = <<>>
    /\ thread' = "idle"
    /\ wire' = <<>>
    /\ toNode' = <<>>
    /\ talking' = FALSE

Init ==
    /\ stored = {Checkpoint}
    /\ known = Checkpoint
    /\ balance = None
    /\ cleared = FALSE
    /\ requests = [i \in Id |-> None]
    /\ lesTypes = FALSE
    /\ open = FALSE
    /\ handshakeSent = FALSE
    /\ session = "none"
    /\ packets = <<>>
    /\ thread = "idle"
    /\ wire = <<>>
    /\ toNode = <<>>
    /\ talking = FALSE
    /\ head = Checkpoint

Restart == MadeFrom(StoredAtStart(stored)) /\ UNCHANGED head

\* start(): without effect while the streams are open.
Connect ==
    /\ ~open
    /\ thread = "idle"
    /\ open' = TRUE
    /\ wire' = <<>>
    /\ toNode' = <<>>
    /\ talking' = FALSE
    /\ UNCHANGED <<store, known, requests, lesTypes, handshakeSent, session, packets,
                   thread, head>>

\* SpvBlockchain.clear() is empty: the connection goes on.
Clear ==
    /\ stored' = {}
    /\ balance' = None
    /\ cleared' = TRUE
    /\ UNCHANGED <<known, requests, lesTypes, conn, packets, thread, wire,
                   toNode, head>>

-----------------------------------------------------------------------------
\* Connection.

\* The streams are closed; what was on the way is lost, what was read is not.
Disconnected ==
    /\ open' = FALSE
    /\ talking' = FALSE
    /\ wire' = <<>>
    /\ toNode' = <<>>
    /\ UNCHANGED <<handshakeSent, session>>

\* A frame is sent through the frame codec and while the streams are open; a
\* message whose type is not registered is dropped.
SendFrame(m, registered) ==
    toNode' = IF open /\ session = "codec" /\ registered THEN Append(toNode, m) ELSE toNode

\* hasSpaceAvailable: initiateHandshake.
InitiateHandshake ==
    /\ open
    /\ thread = "idle"
    /\ ~handshakeSent
    /\ handshakeSent' = TRUE
    /\ session' = "auth"
    /\ toNode' = Append(toNode, [type |-> "auth"])
    /\ UNCHANGED <<store, known, requests, lesTypes, open, talking, packets, thread,
                   wire, head>>

\* endEncountered, errorOccurred.
Closed ==
    /\ open
    /\ thread = "idle"
    /\ Disconnected
    /\ UNCHANGED <<store, known, requests, lesTypes, packets, thread, head>>

\* hasBytesAvailable: n messages have arrived whole, and with p a part of the next.
\* The acknowledgement is only taken from the buffer when more bytes follow it, and
\* then the frames behind it are left for the next time.
Bytes(n, p) ==
    LET buffer == packets \o SubSeq(wire, 1, n)
        more   == Len(buffer) > 1 \/ p
    IN  /\ open
        /\ thread = "idle"
        /\ n > 0 \/ p
        /\ n + (IF p THEN 1 ELSE 0) <= Len(wire)
        /\ \/ /\ session = "auth"
              /\ buffer # <<>> /\ more
              /\ Head(buffer).type = "ack"
              /\ packets' = Tail(buffer)
              /\ session' = "codec"
              /\ toNode' = Append(toNode, [type |-> "hello"])
              /\ wire' = SubSeq(wire, n + 1, Len(wire))
              /\ UNCHANGED <<open, handshakeSent, talking, thread>>
           \/ /\ session = "auth"
              /\ buffer # <<>> /\ more
              /\ Head(buffer).type # "ack"
              /\ packets' = buffer
              /\ Disconnected
              /\ UNCHANGED thread
           \/ /\ session = "auth"
              /\ buffer = <<>> \/ ~more
              /\ packets' = buffer
              /\ wire' = SubSeq(wire, n + 1, Len(wire))
              /\ UNCHANGED <<conn, toNode, thread>>
           \/ /\ session = "codec"
              /\ packets' = buffer
              /\ thread' = "reading"
              /\ wire' = SubSeq(wire, n + 1, Len(wire))
              /\ UNCHANGED <<conn, toNode>>
        /\ UNCHANGED <<store, known, requests, lesTypes, head>>

\* No whole frame is left in the buffer.
ReadAll ==
    /\ thread = "reading"
    /\ packets = <<>>
    /\ thread' = "idle"
    /\ UNCHANGED <<store, known, requests, lesTypes, conn, packets, wire,
                   toNode, head>>

-----------------------------------------------------------------------------
\* DevP2PPeer, LESPeer and PeerGroup: one frame is handled.

\* The frame m is taken from the buffer.
Frame(m) ==
    /\ thread = "reading"
    /\ packets # <<>>
    /\ m = Head(packets)
    /\ packets' = Tail(packets)
    /\ UNCHANGED <<head, known>>

\* A handler throws: the layers disconnect, the loop over the frames goes on.
Thrown ==
    /\ thread' = "reading"
    /\ IF open THEN Disconnected ELSE UNCHANGED <<conn, wire, toNode>>

Request(type, b) ==
    LET i == CHOOSE i \in Id : requests[i] = None
    IN  /\ requests' = [requests EXCEPT ![i] = [type |-> type, block |-> b]]
        /\ SendFrame([type |-> type, id |-> i, block |-> b], lesTypes)
        /\ UNCHANGED <<conn, wire>>

NothingAsked == UNCHANGED <<requests, conn, wire, toNode>>

\* syncBlocks.
SyncBlocks ==
    \/ stored = {} /\ NothingAsked
    \/ \E b \in LastHeaders(stored) : Request("getHeaders", b)

Hello(m) ==
    /\ Frame(m)
    /\ m.type = "hello"
    /\ \/ /\ m.shared
          /\ lesTypes' = TRUE
          /\ SendFrame([type |-> "status"], TRUE)
          /\ UNCHANGED <<conn, wire, thread>>
       \/ /\ ~m.shared
          /\ Thrown
          /\ UNCHANGED lesTypes
    /\ UNCHANGED <<store, requests>>

\* Ping, pong and announcements change nothing here; disconnect throws.
Other(m) ==
    /\ Frame(m)
    /\ \/ m.type = "noise" /\ UNCHANGED <<conn, wire, toNode, thread>>
       \/ m.type = "disconnect" /\ Thrown
    /\ UNCHANGED <<store, requests, lesTypes>>

Status(m) ==
    /\ Frame(m)
    /\ m.type = "status"
    /\ \/ /\ lesTypes /\ m.ours /\ m.height >= known.height
          /\ SyncBlocks
          /\ UNCHANGED thread
       \/ /\ ~(lesTypes /\ m.ours /\ m.height >= known.height)
          /\ Thrown
          /\ UNCHANGED requests
    /\ UNCHANGED <<store, lesTypes>>

\* Mutant: an answered request is kept.
Kept(i) == requests

\* removeBlockHeaderRequest, removeAccountStateRequest.
Removed(i) == [requests EXCEPT ![i] = None]

\* Mutant: only the last header is saved.
SavedLast(headers) == {headers[Len(headers)]}

Saved(headers) == {headers[i] : i \in DOMAIN headers}

Expected(type, i) == requests[i] # None /\ requests[i].type = type

\* Mutant: one header is not the end.
IsLast(headers) == Len(headers) < 1

\* At most the block itself: synced.
IsSynced(headers) == Len(headers) <= 1

Headers(m) ==
    /\ Frame(m)
    /\ m.type = "headers"
    /\ \/ /\ ~Expected("getHeaders", m.id)
          /\ Thrown
          /\ UNCHANGED <<requests, store>>
       \/ /\ Expected("getHeaders", m.id)
          /\ IsSynced(m.headers)
          /\ \/ /\ stored = {}
                /\ requests' = Removed(m.id)
                /\ UNCHANGED toNode
             \/ \E b \in LastHeaders(stored) :
                   /\ requests' = [Removed(m.id) EXCEPT ![m.id] = [type |-> "getProofs", block |-> b]]
                   /\ SendFrame([type |-> "getProofs", id |-> m.id, block |-> b], lesTypes)
          /\ UNCHANGED <<conn, wire, thread, store>>
       \/ /\ Expected("getHeaders", m.id)
          /\ ~IsSynced(m.headers)
          /\ requests' = Removed(m.id)
          /\ stored' = stored \cup Saved(m.headers)
          /\ thread' = "saved"
          /\ UNCHANGED <<conn, wire, toNode, balance, cleared>>
    /\ UNCHANGED lesTypes

\* didReceive(blockHeaders:) goes on after the headers are saved.
SyncOn ==
    /\ thread = "saved"
    /\ SyncBlocks
    /\ thread' = "reading"
    /\ UNCHANGED <<store, known, lesTypes, packets, head>>

\* Mutant: the root is not compared.
AnyProof(proof, b) == proof # None

\* accountState(proofsMessage:): there are nodes, and they end in the state root.
Proves(proof, b) == proof = b

Proofs(m) ==
    /\ Frame(m)
    /\ m.type = "proofs"
    /\ \/ /\ ~Expected("getProofs", m.id)
          /\ Thrown
          /\ UNCHANGED <<requests, balance>>
       \/ /\ Expected("getProofs", m.id)
          /\ requests' = Removed(m.id)
          /\ \/ /\ Proves(m.proof, requests[m.id].block)
                /\ balance' = m.proof
                /\ UNCHANGED <<conn, wire, toNode, thread>>
             \/ /\ ~Proves(m.proof, requests[m.id].block)
                /\ Thrown
                /\ UNCHANGED balance
    /\ UNCHANGED <<stored, cleared, lesTypes>>

HandleFrame == \E m \in {packets[i] : i \in DOMAIN packets} :
    Hello(m) \/ Other(m) \/ Status(m) \/ Headers(m) \/ Proofs(m)

-----------------------------------------------------------------------------
\* The node.

Canonical(b) == b.height <= head.height /\ b = Ancestor(head, b.height)

\* A block of the chain with its successors; any other block alone, or nothing.
HeadersFrom(b) ==
    IF Canonical(b)
    THEN LET n == head.height - b.height + 1
         IN  {[i \in 1..(IF n < MaxHeaders THEN n ELSE MaxHeaders) |->
                   Ancestor(head, b.height + i - 1)]}
    ELSE {<<b>>, <<>>}

\* Having sent a disconnect the node sends nothing more.
NodeTalks == \A i \in DOMAIN wire : wire[i].type # "disconnect"

NodeSees(answers) ==
    /\ toNode' = Tail(toNode)
    /\ wire' = wire \o answers
    /\ talking' = TRUE
    /\ UNCHANGED <<store, known, requests, lesTypes, open, handshakeSent, session,
                   packets, thread, head>>

NodeAnswers ==
    /\ toNode # <<>>
    /\ NodeTalks
    /\ LET m == Head(toNode) IN
       \/ /\ m.type = "auth"
          /\ \/ \E shared \in BOOLEAN :
                   NodeSees(<<[type |-> "ack"], [type |-> "hello", shared |-> shared]>>)
             \/ NodeSees(<<[type |-> "noAck"], [type |-> "noise"]>>)
       \/ /\ m.type = "hello"
          /\ \E ours \in BOOLEAN :
                NodeSees(<<[type |-> "status", ours |-> ours, height |-> head.height]>>)
       \/ /\ m.type = "status"
          /\ NodeSees(<<>>)
       \/ /\ m.type = "getHeaders"
          /\ \E hs \in HeadersFrom(m.block) :
                NodeSees(<<[type |-> "headers", id |-> m.id, headers |-> hs]>>)
       \/ /\ m.type = "getProofs"
          /\ \E proof \in {m.block, head, None} :
                NodeSees(<<[type |-> "proofs", id |-> m.id, proof |-> proof]>>)

\* Once its hello is out, the node may ping, announce, or disconnect.
NodeNoise(type) ==
    /\ talking
    /\ NodeTalks
    /\ Len(wire) < MaxWire
    /\ wire' = Append(wire, [type |-> type])
    /\ UNCHANGED <<store, known, requests, lesTypes, conn, packets, thread,
                   toNode, head>>

NodeGrows ==
    /\ head.height < Top
    /\ head' = [head EXCEPT !.height = @ + 1]
    /\ UNCHANGED <<store, known, requests, lesTypes, conn, packets, thread,
                   wire, toNode>>

\* The other branch becomes the longer one.
Reorganised ==
    /\ head.branch = "a"
    /\ head.height > ForkPoint
    /\ head' = [head EXCEPT !.branch = "b"]
    /\ UNCHANGED <<store, known, requests, lesTypes, conn, packets, thread,
                   wire, toNode>>

-----------------------------------------------------------------------------
BytesArrive == \E n \in 0..Len(wire), p \in BOOLEAN : Bytes(n, p)

Next ==
    \/ Restart \/ Connect \/ Clear
    \/ InitiateHandshake \/ Closed \/ BytesArrive \/ ReadAll
    \/ HandleFrame \/ SyncOn
    \/ NodeAnswers \/ NodeGrows \/ Reorganised
    \/ \E type \in {"noise", "disconnect"} : NodeNoise(type)

Spec == Init /\ [][Next]_vars

\* The run loop goes on, the streams deliver what the node sent (a message has finitely
\* many bytes, so not parts of it for ever), the node answers.
ThreadRuns ==
    /\ WF_vars(InitiateHandshake)
    /\ SF_vars(\E n \in 1..Len(wire), p \in BOOLEAN : Bytes(n, p))
    /\ WF_vars(ReadAll)
    /\ WF_vars(HandleFrame)
    /\ WF_vars(SyncOn)

NodeRuns == WF_vars(NodeAnswers)

FairSpec == Spec /\ ThreadRuns /\ NodeRuns

-----------------------------------------------------------------------------
TypeOK ==
    /\ stored \subseteq Block
    /\ balance \in Block \cup {None}
    /\ known \in Block
    /\ requests \in [Id -> [type : RequestTypes, block : Block] \cup {None}]
    /\ lesTypes \in BOOLEAN /\ open \in BOOLEAN /\ handshakeSent \in BOOLEAN
    /\ talking \in BOOLEAN /\ cleared \in BOOLEAN
    /\ session \in {"none", "auth", "codec"}
    /\ thread \in {"idle", "reading", "saved"}
    /\ packets \in Seq(Received) /\ wire \in Seq(Received) /\ toNode \in Seq(Sent)
    /\ head \in Block

\* The stored headers have no gap: every one but the lowest has its parent stored,
\* however the replies were cut, the chain reorganised and the storage cleared.
NoGap ==
    \A b, c \in stored : c.height < b.height => Parent(b) \in stored

\* The store, whatever the streams, the cuts of the bytes and the order of answers: the
\* headers grow by pieces of one branch that begin with a stored header, and nothing
\* is added once a balance is shown.  See HeaderChain.
Chain == INSTANCE HeaderChain WITH headers <- stored, Last <- LastHeaders

KeepsChain == Chain!Spec

\* The messages that carry the request or its answer.
Carriers(i) ==
    LET about(q) == {j \in DOMAIN q : q[j].type \in RequestTypes \cup {"headers", "proofs"}
                                      /\ q[j].id = i}
    IN  <<about(toNode), about(wire), about(packets)>>

\* While the node talks, at most one request is waiting, and it is on its way: asked,
\* or answered by a message that will be read.  None is lost or forgotten.
OneRequestOut ==
    talking =>
        /\ \A i, j \in Id : requests[i] # None /\ requests[j] # None => i = j
        /\ \A i \in Id : requests[i] # None <=> Carriers(i) # <<{}, {}, {}>>

\* A connection ends in a balance, unless it is lost, the kit is cleared, or the
\* headers have got one digit longer: then the last one in the order of the text is
\* asked for again and again.
SyncEnds ==
    (open /\ ~handshakeSent)
        ~> \/ ~open \/ cleared
           \/ balance # None
           \/ \E b \in stored : b.height >= Boundary
=============================================================================
