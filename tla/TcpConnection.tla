--------------------------- MODULE TcpConnection ---------------------------
(***************************************************************************)
(* One direction of a connection: packets written to the socket, a byte    *)
(* stream that arrives in pieces cut anywhere, and the read loop that puts *)
(* the packets together again.  Each round of the loop is a step of its    *)
(* own: a handler runs at the end of it.                                   *)
(***************************************************************************)
EXTENDS Protocol

VARIABLES
    isConnected,    \* the socket's state
    flight,         \* cells written and not yet read
    readBuffer, headerParsed, currentHeader,    \* the members m_...
    reading,        \* onReadyRead is in its loop
    sent,           \* history: the messages sent
    received        \* history: what the session parsed from each packet handed to it

connVars == <<isConnected, flight, readBuffer, headerParsed, currentHeader,
              reading, sent, received>>

NoHeader == [magic |-> Magic, msgType |-> "Invalid", flags |-> 0, payloadLength |-> 0]

ConnectionInit ==
    /\ isConnected = FALSE /\ flight = <<>>
    /\ readBuffer = <<>> /\ headerParsed = FALSE /\ currentHeader = NoHeader
    /\ reading = FALSE /\ sent = <<>> /\ received = <<>>

SendPacket(m) ==
    /\ isConnected
    /\ flight' = flight \o CreatePacket(m.type, Serialize(m))
    /\ sent' = Append(sent, m)
    /\ UNCHANGED <<isConnected, readBuffer, headerParsed, currentHeader, reading, received>>

OnReadyRead ==
    /\ isConnected /\ ~reading
    /\ \E n \in 1..Len(flight) :
          /\ readBuffer' = readBuffer \o SubSeq(flight, 1, n)
          /\ flight' = SubSeq(flight, n + 1, Len(flight))
    /\ reading' = TRUE
    /\ UNCHANGED <<isConnected, headerParsed, currentHeader, sent, received>>

\* Mutant of Enough: one cell more is waited for.
EnoughAndMore(n) == Len(readBuffer) > n

Enough(n) == Len(readBuffer) >= n

\* Mutant of Oversized: chunks are held to the limit as well.
OversizedChunk(h) == h.payloadLength > MaxMetadata
Oversized(h) == h.payloadLength > MaxMetadata /\ h.msgType # "FileDataChunk"

ParseHeader ==
    /\ reading /\ ~headerParsed /\ Enough(HeaderSize)
    /\ currentHeader' = Header(readBuffer)
    /\ IF currentHeader'.magic # Magic \/ Oversized(currentHeader')
       THEN /\ isConnected' = FALSE /\ reading' = FALSE
            /\ UNCHANGED headerParsed
       ELSE /\ headerParsed' = TRUE
            /\ UNCHANGED <<isConnected, reading>>
    /\ UNCHANGED <<flight, readBuffer, sent, received>>

PacketSize == HeaderSize + currentHeader.payloadLength

\* The loop returns, with the header kept if it is there.
WaitForMore ==
    /\ reading
    /\ IF headerParsed THEN ~Enough(PacketSize) ELSE ~Enough(HeaderSize)
    /\ reading' = FALSE
    /\ UNCHANGED <<isConnected, flight, readBuffer, headerParsed, currentHeader, sent, received>>

ExtractPacket ==
    /\ reading /\ headerParsed /\ Enough(PacketSize)
    /\ received' = Append(received, Parse(currentHeader.msgType,
                                         SubSeq(readBuffer, HeaderSize + 1, PacketSize)))
    /\ readBuffer' = SubSeq(readBuffer, PacketSize + 1, Len(readBuffer))
    /\ headerParsed' = FALSE
    /\ UNCHANGED <<isConnected, flight, currentHeader, reading, sent>>

\* The connection is lost; what is buffered is still put together.
ConnectionLost ==
    /\ isConnected
    /\ isConnected' = FALSE /\ flight' = <<>>
    /\ UNCHANGED <<readBuffer, headerParsed, currentHeader, reading, sent, received>>

ConnectionStep == OnReadyRead \/ ParseHeader \/ WaitForMore \/ ExtractPacket \/ ConnectionLost
=============================================================================
