------------------------------ MODULE Protocol ------------------------------
(***************************************************************************)
(* The FT01 messages as they stand on the wire.  A payload is a sequence   *)
(* of cells, one for each value that is written: a number, a string, a     *)
(* member of a JSON object, a block of a file.  A header has four cells.   *)
(* A message is a record of its type and of its struct's fields.           *)
(***************************************************************************)
EXTENDS Naturals, Sequences, SequencesExt

CONSTANTS
    MaxMetadata,    \* MAX_METADATA_PAYLOAD_SIZE, in cells
    MaxItems,       \* the items an offer may have to be read
    MaxChunk,       \* MAX_CHUNK_SIZE, in cells
    Word            \* one more than the largest number of 32 bits

\* [fileIndex][offset][chunkSize] in front of a chunk's data, in cells.
ChunkHeader == 3

ASSUME ProtocolAssumption ==
    /\ {MaxMetadata, MaxItems, MaxChunk, Word} \subseteq Nat
    /\ ChunkHeader + MaxChunk < Word

Magic == "FT01"
HeaderSize == 4

CreatePacket(type, payload) == <<Magic, type, 0, Len(payload)>> \o payload

Header(cells) ==
    [magic |-> cells[1], msgType |-> cells[2], flags |-> cells[3], payloadLength |-> cells[4]]

\* What a parse function returns when it gives up (nullopt).
Unreadable == [type |-> "Invalid"]

-----------------------------------------------------------------------------
(* The messages that are JSON objects: the key of each field.              *)

HandshakeKeys ==
    [HandshakeReq  |-> [version |-> "version", deviceName |-> "device", osType |-> "os"],
     HandshakeResp |-> [version |-> "version", deviceName |-> "device",
                        accepted |-> "accepted", errorMessage |-> "error"]]

AnswerKeys ==
    [TransferAccept |-> [transferId |-> "transfer_id", receiverDevice |-> "receiver_device",
                         accepted |-> "accepted", startFileIndex |-> "start_file_index",
                         resumeOffset |-> "resume_offset"],
     TransferReject |-> [transferId |-> "transfer_id", reason |-> "reason"]]

ControlKeys ==
    [TransferPause    |-> [transferId |-> "transfer_id", reason |-> "reason"],
     TransferResume   |-> [transferId |-> "transfer_id", fileIndex |-> "file_index",
                           resumeOffset |-> "resume_offset"],
     TransferCancel   |-> [transferId |-> "transfer_id", reason |-> "reason"],
     TransferComplete |-> [transferId |-> "transfer_id",
                           totalBytesTransferred |-> "transferred_bytes"],
     ErrorAlert       |-> [errorCode |-> "code", message |-> "msg"]]

JsonTypes == DOMAIN HandshakeKeys \cup DOMAIN AnswerKeys \cup DOMAIN ControlKeys
JsonKeys ==
    [t \in JsonTypes |-> CASE t \in DOMAIN HandshakeKeys -> HandshakeKeys[t]
                           [] t \in DOMAIN AnswerKeys    -> AnswerKeys[t]
                           [] t \in DOMAIN ControlKeys   -> ControlKeys[t]]

SerializeJson(m) ==
    LET keys == JsonKeys[m.type]
    IN  <<"{">> \o SetToSeq({<<keys[f], m[f]>> : f \in DOMAIN keys}) \o <<"}">>

IsObject(data) == Len(data) >= 2 /\ data[1] = "{" /\ data[Len(data)] = "}"

\* A member that is missing leaves its field at a default.
ParseJson(type, data) ==
    LET keys == JsonKeys[type]
        at(key) == {i \in 2..Len(data) - 1 : data[i][1] = key}
        value(key) == IF at(key) = {} THEN "default"
                      ELSE data[CHOOSE i \in at(key) : TRUE][2]
    IN  IF ~IsObject(data) THEN Unreadable
        ELSE [f \in DOMAIN keys \cup {"type"} |-> IF f = "type" THEN type ELSE value(keys[f])]

-----------------------------------------------------------------------------
(* The messages that are written one value after the other.                *)

SerializeItem(item) ==
    <<item.fileIndex, item.relativePath, item.fileSize, item.modifiedTime, item.blake3Checksum>>

ItemSize == 5
OfferHead == 5

SerializeTransferOffer(m) ==
    <<m.transferId, m.senderDevice, m.totalFiles, m.totalBytes, Len(m.items)>>
        \o FlattenSeq([i \in DOMAIN m.items |-> SerializeItem(m.items[i])])

ParseItem(data, at) ==
    [fileIndex |-> data[at + 1], relativePath |-> data[at + 2], fileSize |-> data[at + 3],
     modifiedTime |-> data[at + 4], blake3Checksum |-> data[at + 5]]

\* An offer over the limits is not read; nor is one that ends too early.
ParseTransferOffer(data) ==
    IF \/ Len(data) > MaxMetadata \/ Len(data) < OfferHead
       \/ data[5] > MaxItems      \/ Len(data) < OfferHead + ItemSize * data[5]
    THEN Unreadable
    ELSE [type |-> "TransferOffer", transferId |-> data[1], senderDevice |-> data[2],
          totalFiles |-> data[3], totalBytes |-> data[4],
          items |-> [i \in 1..data[5] |-> ParseItem(data, OfferHead + ItemSize * (i - 1))]]

SerializeFileStart(m) ==
    <<m.transferId, m.fileIndex, m.relativePath, m.fileSize, m.modifiedTime, m.expectedBlake3>>

ParseFileStart(data) ==
    IF Len(data) < 6 THEN Unreadable
    ELSE [type |-> "FileStart", transferId |-> data[1], fileIndex |-> data[2],
          relativePath |-> data[3], fileSize |-> data[4], modifiedTime |-> data[5],
          expectedBlake3 |-> data[6]]

\* The length is written, and compared, in 32 bits.
SerializeFileDataChunk(m) == <<m.fileIndex, m.offset, Len(m.chunkData) % Word>> \o m.chunkData

\* Mutant of ChunkFits: the length that is compared leaves the header out.
ChunkFitsBare(data) == data[3] = Len(data)

ChunkFits(data) == (ChunkHeader + data[3]) % Word = Len(data) % Word

ParseFileDataChunk(data) ==
    IF Len(data) < ChunkHeader \/ ~ChunkFits(data) THEN Unreadable
    ELSE [type |-> "FileDataChunk", fileIndex |-> data[1], offset |-> data[2],
          chunkData |-> SubSeq(data, ChunkHeader + 1, ChunkHeader + data[3])]

SerializeFileEnd(m) == <<m.fileIndex, m.blake3Checksum>>

ParseFileEnd(data) ==
    IF Len(data) < 2 THEN Unreadable
    ELSE [type |-> "FileEnd", fileIndex |-> data[1], blake3Checksum |-> data[2]]

SerializeFileAck(m) == <<m.fileIndex, m.statusCode, m.bytesReceived, m.calculatedBlake3>>

ParseFileAck(data) ==
    IF Len(data) < 4 THEN Unreadable
    ELSE [type |-> "FileAck", fileIndex |-> data[1], statusCode |-> data[2],
          bytesReceived |-> data[3], calculatedBlake3 |-> data[4]]

-----------------------------------------------------------------------------

Serialize(m) ==
    CASE m.type \in JsonTypes       -> SerializeJson(m)
      [] m.type = "TransferOffer"   -> SerializeTransferOffer(m)
      [] m.type = "FileStart"       -> SerializeFileStart(m)
      [] m.type = "FileDataChunk"   -> SerializeFileDataChunk(m)
      [] m.type = "FileEnd"         -> SerializeFileEnd(m)
      [] m.type = "FileAck"         -> SerializeFileAck(m)

Parse(type, data) ==
    CASE type \in JsonTypes       -> ParseJson(type, data)
      [] type = "TransferOffer"   -> ParseTransferOffer(data)
      [] type = "FileStart"       -> ParseFileStart(data)
      [] type = "FileDataChunk"   -> ParseFileDataChunk(data)
      [] type = "FileEnd"         -> ParseFileEnd(data)
      [] type = "FileAck"         -> ParseFileAck(data)
      [] OTHER                    -> Unreadable

-----------------------------------------------------------------------------

FieldsOf(type) ==
    CASE type \in JsonTypes     -> DOMAIN JsonKeys[type]
      [] type = "TransferOffer" -> {"transferId", "senderDevice", "totalFiles", "totalBytes",
                                    "items"}
      [] type = "FileStart"     -> {"transferId", "fileIndex", "relativePath", "fileSize",
                                    "modifiedTime", "expectedBlake3"}
      [] type = "FileDataChunk" -> {"fileIndex", "offset", "chunkData"}
      [] type = "FileEnd"       -> {"fileIndex", "blake3Checksum"}
      [] type = "FileAck"       -> {"fileIndex", "statusCode", "bytesReceived",
                                    "calculatedBlake3"}

\* A record of its type and that type's fields, its block no longer than a chunk.
WellFormed(m) ==
    /\ m = [f \in FieldsOf(m.type) \cup {"type"} |-> m[f]]
    /\ m.type = "FileDataChunk" =>
          m.chunkData \in Seq(ToSet(m.chunkData)) /\ Len(m.chunkData) <= MaxChunk
=============================================================================
