----------------------------- MODULE SendOffer -----------------------------
(***************************************************************************)
(* From the send page to the dialog of the other machine: START turns the  *)
(* selected paths into a manifest, the manifest becomes a TransferOffer,   *)
(* the offer crosses the connection among the other messages of the        *)
(* session, and the receiver reads what it will show and expect.           *)
(***************************************************************************)
EXTENDS SendPage, TcpConnection

CONSTANTS
    Others,     \* the messages that may follow the offer, one of each type
    MaxSent     \* bound: messages on one connection

VARIABLES
    target,     \* the id START was pressed for, None before
    manifest    \* m_sendManifest, once START was pressed

vars == <<pageVars, connVars, target, manifest>>

Manual == <<"manual">>

HandshakeReq ==
    [type |-> "HandshakeReq", version |-> "version", deviceName |-> "deviceName", osType |-> "osType"]

\* Every message but the offer and the chunks is far below the limit.
ASSUME MessagesAssumption ==
    \A m \in Others \cup {HandshakeReq} :
        /\ m.type \in JsonTypes \cup {"FileStart", "FileDataChunk", "FileEnd", "FileAck"}
        /\ WellFormed(m)
        /\ m.type # "FileDataChunk" => Len(Serialize(m)) <= MaxMetadata

\* toProtocolItems and the offer built from it.
Offer ==
    [type |-> "TransferOffer", transferId |-> "transferId", senderDevice |-> "senderDevice",
     totalFiles |-> manifest.totalFiles, totalBytes |-> manifest.totalBytes,
     items |-> manifest.items]

\* START.  With the manual address unreadable, or with no file under the
\* selected paths, nothing happens.
OnStartTransferClicked ==
    /\ target = None /\ startEnabled /\ paths # <<>>
    /\ target' = IF manual THEN Manual ELSE choice
    /\ IF manual THEN typed ELSE choice # None
    /\ manifest' = EnumeratePaths(paths)
    /\ manifest'.items # <<>>
    /\ isConnected' = TRUE
    /\ UNCHANGED <<pageVars, flight, readBuffer, headerParsed, currentHeader, reading,
                   sent, received>>

\* The page as it is used until START succeeds.
UsePage ==
    /\ target = None /\ PageStep
    /\ UNCHANGED <<connVars, target, manifest>>

\* The handshake, the offer once it is answered, then what the session sends.
Talk ==
    /\ target # None /\ Len(sent) < MaxSent
    /\ \/ sent = <<>> /\ SendPacket(HandshakeReq)
       \/ /\ Len(sent) = 1 /\ received # <<>>
          /\ SendPacket(Offer)
       \/ /\ Len(sent) > 1
          /\ \E m \in Others : SendPacket(m)
    /\ UNCHANGED <<pageVars, target, manifest>>

Travel ==
    /\ ConnectionStep
    /\ UNCHANGED <<pageVars, target, manifest>>

Init == PageInit /\ ConnectionInit /\ target = None /\ manifest = EnumeratePaths(<<>>)
Next == UsePage \/ OnStartTransferClicked \/ Talk \/ Travel
Spec == Init /\ [][Next]_vars

-----------------------------------------------------------------------------
(* Properties.                                                             *)

\* What the user picked is where START sends to, however often the list of
\* devices is rebuilt under the open page (SendPage.cpp:238).
PickIsTarget ==
    picked # None => choice = picked /\ (target \in {None, Manual} \/ target = picked)

\* The START button, which nothing updates but updateSummary, is enabled only
\* with a selection and a destination to send to (SendPage.cpp:216).
StartHasWork == startEnabled => paths # <<>> /\ (manual \/ choice \in ToSet(devices))

\* What the receiver can be expected to read: all but an offer over the limits.
WithinLimits(m) ==
    m.type = "TransferOffer" =>
        Len(m.items) <= MaxItems /\ OfferHead + ItemSize * Len(m.items) <= MaxMetadata

\* However the stream is cut, the session is handed the messages that were
\* sent, whole, unchanged and in order; of an offer over the limits it learns
\* nothing (TcpConnection.cpp:86, Protocol.cpp:109, 271).
DeliveredAsSent ==
    /\ Len(received) <= Len(sent)
    /\ \A k \in DOMAIN received :
          received[k] = IF WithinLimits(sent[k]) THEN sent[k] ELSE Unreadable

\* No message waits in the buffer for bytes that it does not need
\* (TcpConnection.cpp:118).
NothingStuck == isConnected /\ ~reading /\ flight = <<>> => Len(received) = Len(sent)

\* A header is refused only for an offer that is too large: the loop never
\* takes part of a message for a header (TcpConnection.cpp:99, 106).
RefusedOnlyIfTooLarge ==
    [][ParseHeader /\ ~isConnected' /\ isConnected =>
          OfferHead + ItemSize * Len(manifest.items) > MaxMetadata]_vars

FilesUnder(path) == {ItemsOf(path)[n].relativePath : n \in DOMAIN ItemsOf(path)}

\* The offer the receiver reads has every file once for each selected path it
\* is under and no other, numbered by its place, for that is how the session
\* finds it again; the totals shown are those of the items
\* (FileEnumerator.cpp:19, TransferSession.cpp:104, 338).
ManifestIntact ==
    \A k \in DOMAIN received : received[k].type = "TransferOffer" =>
        LET m == received[k]
            files == {m.items[i].relativePath : i \in DOMAIN m.items}
        IN  /\ \A i \in DOMAIN m.items : m.items[i].fileIndex = i - 1
            /\ files = UNION {FilesUnder(paths[j]) : j \in DOMAIN paths}
            /\ \A f \in files :
                  Cardinality({i \in DOMAIN m.items : m.items[i].relativePath = f})
                      = Cardinality({j \in DOMAIN paths : f \in FilesUnder(paths[j])})
            /\ m.totalFiles = Len(m.items)
            /\ m.totalBytes = MapThenSumSet(LAMBDA i : m.items[i].fileSize, DOMAIN m.items)
=============================================================================
