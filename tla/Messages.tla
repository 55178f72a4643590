------------------------------ MODULE Messages ------------------------------
(***************************************************************************)
(* The messages of the protocol and their type-length-value coding         *)
(* (bee-protocol/src/message).  A byte is a digit of base ByteBase; the    *)
(* sizes of the fields are parameters.                                     *)
(***************************************************************************)
EXTENDS Naturals, Sequences

CONSTANTS ByteBase, BitsPerByte,
          PORT_SIZE, TIMESTAMP_SIZE, COORDINATOR_SIZE, INDEX_SIZE, HASH_SIZE,
          VERSIONS_MAX,             \* version bytes of a handshake, at least 1
          TRANSACTION_MIN, TRANSACTION_MAX

ASSUME MessagesAssumption ==
  /\ ByteBase \in Nat \ {0, 1}
  /\ {PORT_SIZE, TIMESTAMP_SIZE, COORDINATOR_SIZE, INDEX_SIZE, HASH_SIZE} \subseteq Nat

TYPE_SIZE == 1
LENGTH_SIZE == 2
HEADER_SIZE == TYPE_SIZE + LENGTH_SIZE

Byte == 0..(ByteBase - 1)

\* n without its last j bytes, for each j up to size.
Shifted(n, size) ==
  LET s[j \in 0..size] == IF j = 0 THEN n ELSE s[j - 1] \div ByteBase
  IN  s

\* The unsigned integers of that many bytes.
Numbers(size) == {n \in Nat : Shifted(n, size)[size] = 0}

to_be_bytes(n, size) == [k \in 1..size |-> Shifted(n, size)[size - k] % ByteBase]

from_be_bytes(bytes) ==
  LET n[k \in 0..Len(bytes)] == IF k = 0 THEN 0 ELSE ByteBase * n[k - 1] + bytes[k]
  IN  n[Len(bytes)]

Lead(bytes, n) == SubSeq(bytes, 1, n)
Rest(bytes, n) == SubSeq(bytes, n + 1, Len(bytes))

(***************************************************************************)
(* The six messages: identifier, size range, and both directions           *)
(***************************************************************************)
ID == [Handshake |-> 1, LegacyGossip |-> 2, MilestoneRequest |-> 3, TransactionBroadcast |-> 4,
       TransactionRequest |-> 5, Heartbeat |-> 6]

ByteStrings(n) == {bytes \in Seq(Byte) : Len(bytes) = n}

Message ==
  [type : {"Handshake"}, port : Numbers(PORT_SIZE), timestamp : Numbers(TIMESTAMP_SIZE),
   coordinator : ByteStrings(COORDINATOR_SIZE), mwm : Byte, versions : Seq(Byte)] \cup
  [type : {"LegacyGossip"}, transaction : Seq(Byte), hash : ByteStrings(HASH_SIZE)] \cup
  [type : {"MilestoneRequest"}, index : Numbers(INDEX_SIZE)] \cup
  [type : {"TransactionBroadcast"}, transaction : Seq(Byte)] \cup
  [type : {"TransactionRequest"}, hash : ByteStrings(HASH_SIZE)] \cup
  [type : {"Heartbeat"}, solid : Numbers(INDEX_SIZE), snapshot : Numbers(INDEX_SIZE)]

Handshake_constant_size == PORT_SIZE + TIMESTAMP_SIZE + COORDINATOR_SIZE + 1
Handshake_size_range == (Handshake_constant_size + 1)..(Handshake_constant_size + VERSIONS_MAX)

Handshake_into_bytes(m) ==
  to_be_bytes(m.port, PORT_SIZE) \o to_be_bytes(m.timestamp, TIMESTAMP_SIZE) \o
  m.coordinator \o <<m.mwm>> \o m.versions

Handshake_from_bytes(bytes) ==
  LET stamp == Rest(bytes, PORT_SIZE)
      coo   == Rest(stamp, TIMESTAMP_SIZE)
      mwm   == Rest(coo, COORDINATOR_SIZE)
  IN  [type |-> "Handshake", port |-> from_be_bytes(Lead(bytes, PORT_SIZE)),
       timestamp |-> from_be_bytes(Lead(stamp, TIMESTAMP_SIZE)),
       coordinator |-> Lead(coo, COORDINATOR_SIZE), mwm |-> mwm[1], versions |-> Rest(mwm, 1)]

LegacyGossip_size_range == (HASH_SIZE + TRANSACTION_MIN)..(HASH_SIZE + TRANSACTION_MAX)
LegacyGossip_into_bytes(m) == m.transaction \o m.hash
LegacyGossip_from_bytes(bytes) ==
  [type |-> "LegacyGossip", transaction |-> Lead(bytes, Len(bytes) - HASH_SIZE),
   hash |-> Rest(bytes, Len(bytes) - HASH_SIZE)]

MilestoneRequest_size_range == {INDEX_SIZE}
MilestoneRequest_into_bytes(m) == to_be_bytes(m.index, INDEX_SIZE)
MilestoneRequest_from_bytes(bytes) ==
  [type |-> "MilestoneRequest", index |-> from_be_bytes(Lead(bytes, INDEX_SIZE))]

TransactionBroadcast_size_range == TRANSACTION_MIN..TRANSACTION_MAX
TransactionBroadcast_into_bytes(m) == m.transaction
TransactionBroadcast_from_bytes(bytes) == [type |-> "TransactionBroadcast", transaction |-> bytes]

TransactionRequest_size_range == {HASH_SIZE}
TransactionRequest_into_bytes(m) == m.hash
TransactionRequest_from_bytes(bytes) == [type |-> "TransactionRequest", hash |-> Lead(bytes, HASH_SIZE)]

Heartbeat_size_range == {2 * INDEX_SIZE}
Heartbeat_into_bytes(m) == to_be_bytes(m.solid, INDEX_SIZE) \o to_be_bytes(m.snapshot, INDEX_SIZE)
Heartbeat_from_bytes(bytes) ==
  [type |-> "Heartbeat", solid |-> from_be_bytes(Lead(bytes, INDEX_SIZE)),
   snapshot |-> from_be_bytes(Lead(Rest(bytes, INDEX_SIZE), INDEX_SIZE))]

size_range(type) ==
  CASE type = "Handshake" -> Handshake_size_range
    [] type = "LegacyGossip" -> LegacyGossip_size_range
    [] type = "MilestoneRequest" -> MilestoneRequest_size_range
    [] type = "TransactionBroadcast" -> TransactionBroadcast_size_range
    [] type = "TransactionRequest" -> TransactionRequest_size_range
    [] type = "Heartbeat" -> Heartbeat_size_range

into_bytes(m) ==
  CASE m.type = "Handshake" -> Handshake_into_bytes(m)
    [] m.type = "LegacyGossip" -> LegacyGossip_into_bytes(m)
    [] m.type = "MilestoneRequest" -> MilestoneRequest_into_bytes(m)
    [] m.type = "TransactionBroadcast" -> TransactionBroadcast_into_bytes(m)
    [] m.type = "TransactionRequest" -> TransactionRequest_into_bytes(m)
    [] m.type = "Heartbeat" -> Heartbeat_into_bytes(m)

from_bytes(type, bytes) ==
  CASE type = "Handshake" -> Handshake_from_bytes(bytes)
    [] type = "LegacyGossip" -> LegacyGossip_from_bytes(bytes)
    [] type = "MilestoneRequest" -> MilestoneRequest_from_bytes(bytes)
    [] type = "TransactionBroadcast" -> TransactionBroadcast_from_bytes(bytes)
    [] type = "TransactionRequest" -> TransactionRequest_from_bytes(bytes)
    [] type = "Heartbeat" -> Heartbeat_from_bytes(bytes)

(***************************************************************************)
(* Headers and the TLV coding                                              *)
(***************************************************************************)
Header_from_bytes(bytes) ==
  [message_type |-> bytes[1], message_length |-> from_be_bytes(Rest(bytes, TYPE_SIZE))]
Header_to_bytes(header) == <<header.message_type>> \o to_be_bytes(header.message_length, LENGTH_SIZE)

Invalid == [type |-> "Invalid"]

tlv_from_bytes(type, header, bytes) ==
  IF /\ header.message_type = ID[type]
     /\ header.message_length = Len(bytes)
     /\ Len(bytes) \in size_range(type)
  THEN from_bytes(type, bytes) ELSE Invalid

tlv_into_bytes(m) ==
  LET payload == into_bytes(m)
  IN  Header_to_bytes([message_type |-> ID[m.type],
                       message_length |-> Len(payload) % (ByteBase * ByteBase)]) \o payload

(***************************************************************************)
(* Protocol versions (message/version.rs): the highest bit that both sides *)
(* have set, numbered from 1 over all bytes; 0 when there is none.         *)
(***************************************************************************)
MESSAGES_VERSIONS == <<2>>

Bit(byte, j) == (byte \div 2^j) % 2 = 1
HighestBit(Has(_)) ==
  LET js == {j \in 0..(BitsPerByte - 1) : Has(j)}
  IN  IF js = {} THEN 0 ELSE 1 + CHOOSE j \in js : \A i \in js : i <= j

common_supported_version(own, other) ==
  LET Both(i) == HighestBit(LAMBDA j : Bit(own[i], j) /\ Bit(other[i], j))
      shared  == {i \in DOMAIN own \cap DOMAIN other : Both(i) # 0}
      last    == CHOOSE i \in shared : \A k \in shared : k <= i
  IN  IF shared = {} THEN 0 ELSE Both(last) + (last - 1) * BitsPerByte

\* The version of the error, the peer's highest one: a u8, which the top bit of the last
\* of VERSIONS_MAX bytes does not fit.
error_version(other) ==
  HighestBit(LAMBDA j : Bit(other[Len(other)], j)) + (Len(other) - 1) * BitsPerByte
=============================================================================
