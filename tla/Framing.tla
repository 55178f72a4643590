------------------------------- MODULE Framing -------------------------------
(***************************************************************************)
(* How the bytes of a connection become messages: first the                *)
(* PeerHandshakerWorker reads them (worker/peer/handshaker.rs), then, once *)
(* a handshake is accepted, a PeerWorker (worker/peer/peer.rs), each with  *)
(* a read context of its own.  The network cuts the stream of messages     *)
(* into chunks wherever it likes.  One action is one turn of the read loop *)
(* of message_handler.                                                     *)
(***************************************************************************)
EXTENDS Messages, Integers

CONSTANTS Streams,     \* the sequences of messages a peer may send
          Clock,       \* our time when a handshake is validated
          MaxSkew, COORDINATOR, MWM,
          Port         \* the port of the address we dialled, if we did

\* The length of every message fits the two bytes of the header.
ASSUME StreamsAssumption ==
  \A ms \in Streams : /\ ms \in Seq(Message)
                      /\ \A k \in DOMAIN ms : Len(into_bytes(ms[k])) < ByteBase * ByteBase

VARIABLES debugBuild,     \* a debug build: integer overflow panics
          origin,         \* of the connection: "Outbound", "Inbound" or "Unbound"
          sent,           \* the messages the peer sends
          position,       \* bytes of the stream received so far
          reader,         \* "handshaker", "peer", "closed" or "panicked"
          reading,        \* message_handler is running (remaining)
          context,        \* PeerReadContext: what comes next, and the bytes not used yet
          status,         \* HandshakeStatus
          registered,     \* the peer is in handshaked_peers: "no", "before" this connection, "now"
          base,           \* where in the stream the PeerWorker began to read
          log             \* what came of the messages, for each reader

framingVars == <<debugBuild, origin, sent, position, reader, reading, context, status, registered, base, log>>

Fresh == [state |-> "Header", header |-> [message_type |-> 0, message_length |-> 0], buffer |-> << >>]

\* The bytes of the first k messages, for each k.
PrefixBytes(ms) ==
  LET b[k \in 0..Len(ms)] == IF k = 0 THEN << >> ELSE b[k - 1] \o tlv_into_bytes(ms[k])
  IN  b
Encoded(ms) == PrefixBytes(ms)[Len(ms)]

FramingInit ==
  /\ debugBuild \in BOOLEAN
  /\ sent \in Streams
  /\ origin \in {"Outbound", "Inbound", "Unbound"}
  /\ registered \in {"no", "before"}
  /\ position = 0 /\ base = 0
  /\ reader = "handshaker" /\ status = "Awaiting"
  /\ reading = FALSE
  /\ context = Fresh
  /\ log = [handshaker |-> << >>, peer |-> << >>]

\* The next event of the receiver.
Receive ==
  /\ reader \in {"handshaker", "peer"} /\ ~reading
  /\ \E n \in 1..(Len(Encoded(sent)) - position) :
       /\ context' = [context EXCEPT !.buffer = @ \o SubSeq(Encoded(sent), position + 1, position + n)]
       /\ position' = position + n
  /\ reading' = TRUE
  /\ UNCHANGED <<debugBuild, origin, sent, reader, status, registered, base, log>>

ReadHeader ==
  /\ reading /\ context.state = "Header"
  /\ Len(context.buffer) >= HEADER_SIZE
  /\ context' = [state |-> "Payload", header |-> Header_from_bytes(Lead(context.buffer, HEADER_SIZE)),
                 buffer |-> Rest(context.buffer, HEADER_SIZE)]
  /\ UNCHANGED <<debugBuild, origin, sent, position, reader, reading, status, registered, base, log>>

\* A mutant: the last byte of the buffer is not looked at.
PayloadWithin == Len(context.buffer) > context.header.message_length

PayloadComplete == Len(context.buffer) >= context.header.message_length

Payload == Lead(context.buffer, context.header.message_length)

PayloadRead(outcome) ==
  /\ context' = [context EXCEPT !.state = "Header", !.buffer = Rest(@, context.header.message_length)]
  /\ log' = [log EXCEPT ![reader] = Append(@, outcome)]
  /\ UNCHANGED <<debugBuild, origin, sent, position, reading, base>>

(***************************************************************************)
(* PeerHandshakerWorker                                                    *)
(***************************************************************************)
StampBase == ByteBase^TIMESTAMP_SIZE
StampAsSigned(n) == ((n + StampBase \div 2) % StampBase) - StampBase \div 2

\* ((timestamp - handshake.timestamp) as i64).abs() > 5000, where i64::MIN has no abs.
Skew(h) == StampAsSigned(Clock - h.timestamp)
SkewAccepted(h) == Skew(h) \in (-MaxSkew)..MaxSkew \/ Skew(h) = -(StampBase \div 2)

ValidationPanics(h) ==
  debugBuild /\ \/ h.timestamp > Clock
                    \/ Skew(h) = -(StampBase \div 2)
                    \/ /\ SkewAccepted(h) /\ h.coordinator = COORDINATOR /\ h.mwm = MWM
                       /\ common_supported_version(MESSAGES_VERSIONS, h.versions) = 0
                       /\ error_version(h.versions) >= ByteBase

validate_handshake(h) ==
  /\ SkewAccepted(h)
  /\ h.coordinator = COORDINATOR
  /\ h.mwm = MWM
  /\ common_supported_version(MESSAGES_VERSIONS, h.versions) # 0
  /\ origin = "Inbound" \/ (origin = "Outbound" /\ h.port = Port)

HandshakerProcess ==
  /\ reader = "handshaker" /\ reading /\ context.state = "Payload" /\ PayloadComplete
  /\ LET m == tlv_from_bytes("Handshake", context.header, Payload)
         isHandshake == context.header.message_type = ID["Handshake"] /\ m # Invalid
     IN  IF isHandshake /\ ValidationPanics(m)
         THEN /\ reader' = "panicked"
              /\ UNCHANGED <<debugBuild, origin, sent, position, reading, context, status, registered, base, log>>
         ELSE /\ IF isHandshake /\ validate_handshake(m)
                 THEN /\ status' = IF registered = "no" THEN "Done" ELSE "Duplicate"
                      /\ registered' = IF registered = "no" THEN "now" ELSE registered
                 ELSE UNCHANGED <<status, registered>>
              /\ PayloadRead(IF isHandshake THEN m ELSE Invalid)
              /\ UNCHANGED reader

(***************************************************************************)
(* PeerWorker                                                              *)
(***************************************************************************)
Handled == {"MilestoneRequest", "TransactionBroadcast", "TransactionRequest", "Heartbeat"}

PeerProcess ==
  /\ reader = "peer" /\ reading /\ context.state = "Payload" /\ PayloadComplete
  /\ LET types == {t \in Handled : ID[t] = context.header.message_type}
     IN  PayloadRead(IF types = {} THEN Invalid
                     ELSE tlv_from_bytes(CHOOSE t \in types : TRUE, context.header, Payload))
  /\ UNCHANGED <<reader, status, registered>>

\* remaining = false: the loop ends.  The handshaker then looks at its status; the PeerWorker
\* it becomes starts with a context of its own, so what is left of the chunk is dropped.
ChunkUsedUp == IF context.state = "Header" THEN Len(context.buffer) < HEADER_SIZE ELSE ~PayloadComplete

EndOfChunk ==
  /\ reading
  /\ ChunkUsedUp
  /\ reading' = FALSE
  /\ IF reader = "handshaker" /\ status # "Awaiting"
     THEN /\ reader' = IF status = "Done" THEN "peer" ELSE "closed"
          /\ context' = Fresh
          /\ base' = position
     ELSE UNCHANGED <<reader, context, base>>
  /\ UNCHANGED <<debugBuild, origin, sent, position, status, registered, log>>

FramingNext == Receive \/ ReadHeader \/ HandshakerProcess \/ PeerProcess \/ EndOfChunk

FramingSpec == FramingInit /\ [][FramingNext]_framingVars

-----------------------------------------------------------------------------
Boundary(k) == Len(PrefixBytes(sent)[k])

\* What a reader makes of a whole message m.
Outcome(m, types) ==
  IF m.type \in types /\ Len(into_bytes(m)) \in size_range(m.type) THEN m ELSE Invalid

ReadFrom(ms, types, from) ==
  /\ Len(ms) <= Len(sent) - from
  /\ \A k \in DOMAIN ms : ms[k] = Outcome(sent[from + k], types)
  \* Between two chunks every complete message has been read.
  /\ ~reading => from + Len(ms) = Len(sent) \/ Boundary(from + Len(ms) + 1) > position

GoodHandshake(m) == m.type = "Handshake" /\ m # Invalid /\ validate_handshake(m)

\* The handshaker has read a handshake of another configuration.
Refused == \E k \in DOMAIN log.handshaker : log.handshaker[k] # Invalid /\ ~GoodHandshake(log.handshaker[k])

\* However the stream is cut, the handshaker reads each message before the end of the chunk
\* with the handshake, the PeerWorker each one after it when that chunk ends with a message;
\* a PeerWorker follows only on a handshake within the skew, save for one exactly half the
\* range of i64 away; a connection is closed as a duplicate only if the peer was connected
\* or has sent two handshakes; and a release build never panics.  After a handshake that was
\* refused nothing is claimed of what is read: the code goes on reading where the
\* documentation of Handshake says that the connection is closed.
FramesAreRead ==
  /\ reader = "handshaker" /\ ~Refused => ReadFrom(log.handshaker, {"Handshake"}, 0)
  /\ reader = "peer" => \E k \in DOMAIN log.handshaker : GoodHandshake(log.handshaker[k])
  /\ reader = "peer" /\ ~Refused =>
       \A k \in 0..Len(sent) : Boundary(k) = base => ReadFrom(log.peer, Handled, k)
  /\ reader = "closed" =>
       LET good == {k \in DOMAIN log.handshaker : GoodHandshake(log.handshaker[k])}
       IN  good # {} /\ (registered = "before" \/ \E j, k \in good : j < k)
  /\ reader = "panicked" => debugBuild

\* The inductive form.  Of a reader whose messages begin at from: its context holds the bytes
\* received of the messages it has not read, and the header of the one it is in.
Reads(ms, types, from) ==
  LET next == from + Len(ms)
      at == Boundary(next) + (IF context.state = "Payload" THEN HEADER_SIZE ELSE 0)
  IN  /\ ms \in Seq(Message \cup {Invalid})
      /\ next <= Len(sent)
      /\ \A k \in DOMAIN ms : ms[k] = Outcome(sent[from + k], types)
      /\ at <= position
      /\ context.buffer = SubSeq(Encoded(sent), at + 1, position)
      /\ context.state = "Payload" =>
           /\ next < Len(sent)
           /\ context.header = [message_type |-> ID[sent[next + 1].type],
                                message_length |-> Len(into_bytes(sent[next + 1]))]
      /\ ~reading => ChunkUsedUp

Good == {k \in DOMAIN log.handshaker : GoodHandshake(log.handshaker[k])}

\* What the status and the register say of the handshakes read.
HandshakesOK ==
  /\ log.handshaker \in Seq(Message \cup {Invalid})
  /\ status \in {"Awaiting", "Done", "Duplicate"} /\ registered \in {"no", "before", "now"}
  /\ registered = "now" \/ status # "Awaiting" => Good # {}
  /\ status = "Duplicate" => registered = "before" \/ \E j, k \in Good : j < k
  /\ reader = "peer" => status # "Awaiting"
  /\ reader = "closed" => status = "Duplicate"
  /\ reader = "panicked" => debugBuild

FramingInv ==
  /\ sent \in Streams /\ position \in 0..Len(Encoded(sent)) /\ reading \in BOOLEAN
  /\ reader \in {"handshaker", "peer", "closed", "panicked"}
  /\ context = [state |-> context.state, header |-> context.header, buffer |-> context.buffer]
  /\ context.state \in {"Header", "Payload"}
  /\ log = [handshaker |-> log.handshaker, peer |-> log.peer]
  /\ HandshakesOK
  /\ reader = "handshaker" => Reads(log.handshaker, {"Handshake"}, 0) /\ log.peer = << >>
  /\ reader = "peer" => \A k \in 0..Len(sent) : Boundary(k) = base => Reads(log.peer, Handled, k)
=============================================================================
