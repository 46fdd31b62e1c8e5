---------------------------- MODULE MCSendOffer ----------------------------
(***************************************************************************)
(* Settings for TLC: two files of one name, a folder with two files, a     *)
(* path that is gone, two devices; offers within and over the limits, and  *)
(* every other type of message with each field holding its own name.       *)
(***************************************************************************)
EXTENDS SendOffer

SomeFiles == {"one/file", "two/file"}
SomeFolders == {"folder"}
SomePaths == SomeFiles \cup SomeFolders \cup {"gone"}
SomeNames == [p \in SomePaths |-> IF p \in SomeFiles THEN "file" ELSE p]
SomeSizes == [p \in SomeFiles |-> IF p = "one/file" THEN 5 ELSE 7]
SomeInside ==
    [folder |-> <<[path |-> <<"a">>, size |-> 1], [path |-> <<"sub", "a">>, size |-> 2]>>]

SomeOrder == <<<<"d1">>, <<"d2">>>>

Json(type) == [f \in DOMAIN JsonKeys[type] |-> f] @@ [type |-> type]
Chunk(n) ==
    [type |-> "FileDataChunk", fileIndex |-> "fileIndex", offset |-> "offset",
     chunkData |-> [i \in 1..n |-> i]]

SomeOthers ==
    {Json(type) : type \in JsonTypes} \cup {Chunk(1), Chunk(MaxChunk)}
    \cup {[type |-> "FileStart", transferId |-> "transferId", fileIndex |-> "fileIndex",
           relativePath |-> "relativePath", fileSize |-> "fileSize",
           modifiedTime |-> "modifiedTime", expectedBlake3 |-> "expectedBlake3"],
          [type |-> "FileEnd", fileIndex |-> "fileIndex", blake3Checksum |-> "blake3Checksum"],
          [type |-> "FileAck", fileIndex |-> "fileIndex", statusCode |-> "statusCode",
           bytesReceived |-> "bytesReceived", calculatedBlake3 |-> "calculatedBlake3"]}
=============================================================================
