--------------------------- MODULE SendLoopProofs ---------------------------
(***************************************************************************)
(* Proofs about the chunk loop: that a loop with something to send is      *)
(* always called again, and that its steps are steps of TransferSession,   *)
(* for every buffer, capacity, manifest and number of pauses.              *)
(***************************************************************************)
EXTENDS SendLoop, TransferStepProofs, FiniteSetTheorems

-----------------------------------------------------------------------------
(* The steps of the loop are steps of the session.                         *)

LEMMA LoopStepIsStep ==
    ASSUME [LoopNext]_loopVars PROVE [Next]_vars
<1>1. CASE QueuedCall \/ OnBytesTransferred
  BY <1>1 DEF QueuedCall, OnBytesTransferred, TakeTurn, Next
<1>2. CASE SenderHandler \/ Pause \/ Resume
  BY <1>2 DEF SenderHandler, Pause, Resume, Handler, Next, UserStep
<1>3. CASE Begin \/ Connected \/ ReceiverHandler \/ Accept
  BY <1>3 DEF Begin, Connected, ReceiverHandler, Accept, Next, UserStep, NetworkStep
<1>4. CASE UNCHANGED loopVars
  BY <1>4 DEF loopVars
<1>5. QED BY <1>1, <1>2, <1>3, <1>4 DEF LoopNext

\* What holds of every run of TransferSession holds of the loop: the queued
\* calls and bytesWritten (TransferSession.cpp:135-187, 541-549) only decide
\* when its steps are taken.
THEOREM LoopImplementsSteps == LoopSpec => Spec
<1>1. LoopInit => Init
  BY DEF LoopInit
<1>2. [LoopNext]_loopVars => [Next]_vars
  BY LoopStepIsStep
<1>3. QED BY <1>1, <1>2, PTL DEF LoopSpec, Spec

-----------------------------------------------------------------------------
(* WakeUpComes.                                                            *)

\* The sending session only ever adds to the packets under way.
Grows == Len(toRecv) \in Nat /\ Len(toRecv') \in Nat /\ Len(toRecv') >= Len(toRecv)

LEMMA SentGrows ==
    ASSUME NEW S, toRecv \in Seq(S), NEW t \in Seq(S), SendToReceiver(t) PROVE Grows
<1>1. toRecv \o t \in Seq(S) /\ Len(toRecv \o t) = Len(toRecv) + Len(t)
  OBVIOUS
<1>2. QED BY <1>1 DEF SendToReceiver, Grows

LEMMA SentOneGrows ==
    ASSUME toRecv \in Seq(Message), NEW m, SendToReceiver(<<m>>) PROVE Grows
<1> DEFINE S == Message \cup {m}
<1>1. toRecv \in Seq(S) /\ m \in S
  OBVIOUS
<1> HIDE DEF S
<1>2. <<m>> \in Seq(S)
  BY <1>1
<1>3. QED BY <1>1, <1>2, SentGrows

LEMMA SentMoreGrows ==
    ASSUME toRecv \in Seq(Message), NEW t \in Seq(Message), NEW m,
           SendToReceiver(Append(t, m))
    PROVE  Grows
<1> DEFINE S == Message \cup {m}
<1>1. toRecv \in Seq(S) /\ t \in Seq(S) /\ m \in S
  OBVIOUS
<1> HIDE DEF S
<1>2. Append(t, m) \in Seq(S)
  BY <1>1
<1>3. QED BY <1>1, <1>2, SentGrows

LEMMA ChunkGrows ==
    ASSUME toRecv \in Seq(Message), NEW s, NEW t \in Seq(Message), SendNextChunk(s, t)
    PROVE  Grows
BY SentGrows, SentMoreGrows DEF SendNextChunk

LEMMA StartGrows ==
    ASSUME toRecv \in Seq(Message), NEW s, NEW i \in Nat \ {0}, NEW off,
           StartSendingFile(s, i, off)
    PROVE  Grows
<1>1. ASSUME i <= NumFiles PROVE <<FileStart(i)>> \in Seq(Message)
  <2>1. i \in Files
    BY <1>1, SizesAssumption DEF Files
  <2>2. FileStart(i) \in Message
    BY <2>1 DEF FileStart, Message
  <2>3. QED BY <2>2
<1>2. <<>> \in Seq(Message)
  OBVIOUS
<1>3. QED BY <1>1, <1>2, ChunkGrows, SentOneGrows, SentGrows DEF StartSendingFile

LEMMA SenderGrows ==
    ASSUME SessionInv, SenderStep \/ ChunkLoop \/ PauseSender \/ ResumeSender
    PROVE  Grows
<1>1. sender \in Sender /\ toRecv \in Seq(Message) /\ toSend \in Seq(Message)
  BY SenderHas
<1>2. UNCHANGED toRecv => Grows
  BY <1>1 DEF Grows
<1>3. CASE OnHandshakeResp
  BY <1>1, <1>3, SentOneGrows DEF OnHandshakeResp
<1>4. ASSUME NEW type \in {"TransferAccept", "TransferResume"}, SenderHandles(type),
             StartSendingFile(WithStatus(sender, "Transferring"),
                              Head(toSend).index, Head(toSend).offset)
      PROVE  Grows
  <2>1. Head(toSend) \in Message /\ Head(toSend).type = type
    BY <1>4, SenderTakes
  <2>2. Head(toSend).index \in Nat \ {0}
    BY <1>4, <2>1, IndexedPacket
  <2>3. QED BY <1>1, <1>4, <2>2, StartGrows
<1>5. CASE OnTransferAccept \/ OnSenderResume
  BY <1>4, <1>5 DEF OnTransferAccept, OnSenderResume
<1>6. CASE OnFileAck
  <2>1. sender.cur + 1 \in Nat \ {0}
    <3>1. sender.cur \in Files
      BY <1>1 DEF Sender
    <3>2. QED BY <3>1, SizesAssumption DEF Files
  <2>2. QED BY <1>1, <1>2, <1>6, <2>1, StartGrows DEF OnFileAck
<1>7. CASE OnTransferReject \/ OnSenderPause \/ OnSenderCancel
  BY <1>2, <1>7 DEF OnTransferReject, OnSenderPause, OnSenderCancel
<1>8. CASE ChunkLoop
  <2>1. <<>> \in Seq(Message)
    OBVIOUS
  <2>2. QED BY <1>1, <1>8, <2>1, ChunkGrows DEF ChunkLoop
<1>9. CASE PauseSender
  BY <1>1, <1>9, SentOneGrows DEF PauseSender
<1>10. CASE ResumeSender
  <2> DEFINE m == TransferResume(sender.cur, sender.fileSent)
  <2>1. m \in Message
    BY <1>1 DEF TransferResume, Message, Sender
  <2>2. SendNextChunk(WithStatus(sender, "Transferring"), <<m>>)
    BY <1>10 DEF ResumeSender
  <2> HIDE DEF m
  <2>3. <<m>> \in Seq(Message)
    BY <2>1
  <2>4. QED BY <1>1, <2>2, <2>3, ChunkGrows
<1>11. QED BY <1>3, <1>5, <1>6, <1>7, <1>8, <1>9, <1>10 DEF SenderStep

\* A buffer without room is not empty.
LEMMA FullBuffer ==
    ASSUME toRecv \in Seq(Message), NEW n \in Nat, ~HasRoom(toRecv, n) PROVE n > 0
<1>1. SUFFICES ASSUME n = 0 PROVE HasRoom(toRecv, n)
  OBVIOUS
<1>2. (Len(toRecv) - n + 1) .. Len(toRecv) = {}
  BY <1>1
<1>3. BytesToWrite(toRecv, n) = Cardinality({})
  BY <1>2 DEF BytesToWrite
<1>4. QED BY <1>3, FS_EmptySet, LoopAssumption DEF HasRoom

\* The counters of the loop and, before the connection is up, its queue.
LoopInv ==
    /\ pending \in Nat /\ calls \in Nat
    /\ Early => toRecv = <<>>
    /\ WakeUpComes

\* Something has been sent, or something waits in the buffer.
LEMMA WaitingFacts ==
    ASSUME NEW n \in Nat, Grows, Waiting(n)
    PROVE  pending' \in Nat /\ pending' >= n /\ (Turn => pending' > 0)
BY DEF Grows, Waiting, Turn, LastIs

LEMMA QueuedFacts == Queued \in {0, 1}
BY DEF Queued

LEMMA TurnTaken ==
    ASSUME SessionInv, NEW n \in Nat, TakeTurn(n)
    PROVE  pending' \in Nat /\ (InLoop(sender') => pending' > 0)
<1>1. toRecv \in Seq(Message)
  BY SenderHas
<1>2. CASE InLoop(sender) /\ HasRoom(toRecv, n)
  <2>1. Grows /\ Turn /\ Waiting(n)
    BY <1>2, SenderGrows DEF TakeTurn
  <2>2. QED BY <2>1, WaitingFacts
<1>3. CASE ~(InLoop(sender) /\ HasRoom(toRecv, n))
  <2>1. UNCHANGED vars /\ Waiting(n)
    BY <1>3 DEF TakeTurn
  <2>2. Grows /\ sender' = sender
    BY <1>1, <2>1 DEF Grows, vars
  <2>3. InLoop(sender) => n > 0
    BY <1>1, <1>3, FullBuffer
  <2>4. QED BY <2>1, <2>2, <2>3, WaitingFacts
<1>4. QED BY <1>2, <1>3

LEMMA HandlerTakes ==
    ASSUME SessionInv, pending \in Nat, calls \in Nat, NEW A, Handler(A),
           A => SenderStep \/ PauseSender \/ ResumeSender
    PROVE  /\ pending' \in Nat /\ calls' \in Nat
           /\ InLoop(sender') => pending' > 0
<1>1. toRecv \in Seq(Message) /\ Grows /\ Waiting(pending) /\ calls' = calls + Queued
  BY SenderHas, SenderGrows DEF Handler
<1>2. pending' \in Nat /\ pending' >= pending /\ (Turn => pending' > 0)
  BY <1>1, WaitingFacts
<1>3. InLoop(sender') => pending' > 0
  <2>1. CASE HasRoom(toRecv, pending)
    BY <1>2, <2>1 DEF Handler
  <2>2. CASE ~HasRoom(toRecv, pending)
    <3>1. pending > 0
      BY <1>1, <2>2, FullBuffer
    <3>2. QED BY <1>2, <3>1
  <2>3. QED BY <2>1, <2>2
<1>4. QED BY <1>1, <1>2, <1>3, QueuedFacts

LEMMA EarlyEmpty ==
    ASSUME SessionInv, LoopInv, [LoopNext]_loopVars, Early' PROVE toRecv' = <<>>
<1>1. /\ Early /\ toRecv = <<>> /\ toSend = <<>> /\ sender.status \in {"Idle", "Connecting"}
  BY LoopStepIsStep, EarlyBefore DEF LoopInv, SessionInv, EarlyOK
<1>2. CASE QueuedCall \/ OnBytesTransferred
  BY <1>1, <1>2 DEF QueuedCall, OnBytesTransferred, TakeTurn, InLoop, vars
<1>3. CASE SenderHandler
  BY <1>1, <1>3 DEF SenderHandler, Handler, SenderStep, OnHandshakeResp, OnTransferAccept,
     OnTransferReject, OnFileAck, OnSenderPause, OnSenderResume, OnSenderCancel,
     SenderHandles, SenderGets
<1>4. CASE Pause \/ Resume
  BY <1>1, <1>4 DEF Pause, Resume, Handler, PauseSender, ResumeSender
<1>5. CASE Connected
  BY <1>5 DEF Connected, SocketConnected, Early, Sides
<1>6. CASE Begin \/ Accept \/ UNCHANGED loopVars
  BY <1>1, <1>6 DEF Begin, StartSend, Accept, UserAccepts, loopVars, vars
<1>7. CASE ReceiverHandler
  BY <1>1, <1>7 DEF ReceiverHandler, ReceiverStep, OnHandshakeReq, OnTransferOffer,
     OnFileStart, OnFileDataChunk, OnFileEnd, OnReceiverPause, OnReceiverResume,
     OnReceiverCancel, OnTransferComplete, ReceiverHandles, ReceiverGets
<1>8. QED BY <1>2, <1>3, <1>4, <1>5, <1>6, <1>7 DEF LoopNext

LEMMA LoopInvKept ==
    ASSUME SessionInv, LoopInv, [LoopNext]_loopVars PROVE LoopInv'
<1>1. /\ pending \in Nat /\ calls \in Nat /\ toRecv \in Seq(Message) /\ sender \in Sender
      /\ Early' => toRecv' = <<>>
      /\ Queued \in {0, 1}
      /\ InLoop(sender) => calls > 0 \/ pending > 0
  BY SenderHas, EarlyEmpty, QueuedFacts DEF LoopInv, WakeUpComes
<1>2. SUFFICES /\ pending' \in Nat /\ calls' \in Nat
               /\ InLoop(sender') => calls' > 0 \/ pending' > 0
  BY <1>1 DEF LoopInv, WakeUpComes
<1>3. CASE QueuedCall
  <2>1. TakeTurn(pending) /\ calls > 0 /\ calls' = calls - 1 + Queued
    BY <1>3 DEF QueuedCall
  <2>2. QED BY <1>1, <2>1, TurnTaken
<1>4. CASE OnBytesTransferred
  <2>1. PICK k \in 1..pending : TakeTurn(pending - k)
    BY <1>4 DEF OnBytesTransferred
  <2>2. pending - k \in Nat
    BY <1>1
  <2>3. calls' = calls + Queued
    BY <1>4 DEF OnBytesTransferred
  <2>4. QED BY <1>1, <2>1, <2>2, <2>3, TurnTaken
<1>5. CASE SenderHandler
  BY <1>1, <1>5, HandlerTakes DEF SenderHandler
<1>6. CASE Pause
  BY <1>1, <1>6, HandlerTakes DEF Pause
<1>7. CASE Resume
  BY <1>1, <1>7, HandlerTakes DEF Resume
<1>8. CASE Connected
  <2>1. /\ Early /\ toRecv' = <<Signal("HandshakeReq")>> /\ UNCHANGED calls
        /\ sender' = WithStatus(sender, "Handshaking") /\ Waiting(pending)
    BY <1>8 DEF Connected, SocketConnected, Early
  <2>2. Len(toRecv) = 0 /\ Len(toRecv') = 1
    BY <2>1 DEF LoopInv
  <2>3. sender'.status = "Handshaking"
    BY <1>1, <2>1, WithStatusSender DEF Statuses
  <2>4. QED BY <1>1, <2>1, <2>2, <2>3 DEF Waiting, InLoop
<1>9. CASE Begin
  <2>1. sender' = WithStatus(sender, "Connecting") /\ UNCHANGED <<pending, calls>>
    BY <1>9 DEF Begin, StartSend
  <2>2. sender'.status = "Connecting"
    BY <1>1, <2>1, WithStatusSender DEF Statuses
  <2>3. QED BY <1>1, <2>1, <2>2 DEF InLoop
<1>10. CASE ReceiverHandler \/ Accept \/ UNCHANGED loopVars
  <2>1. UNCHANGED <<sender, pending, calls>>
    BY <1>10 DEF ReceiverHandler, ReceiverStep, OnHandshakeReq, OnTransferOffer,
       OnFileStart, OnFileDataChunk, OnFileEnd, OnReceiverPause, OnReceiverResume,
       OnReceiverCancel, OnTransferComplete, ReceiverHandles, Accept, UserAccepts,
       loopVars, vars
  <2>2. QED BY <1>1, <2>1
<1>11. QED BY <1>3, <1>4, <1>5, <1>6, <1>7, <1>8, <1>9, <1>10 DEF LoopNext

\* A sending session with a file to stream never waits for a call that nobody
\* will make: one is queued, or bytesWritten will come for what is in the
\* socket's buffer (TransferSession.cpp:135-187, 541-549).
THEOREM WakeUpAlwaysComes ==
    ASSUME NoTrailingHole, ByButton = TRUE PROVE LoopSpec => []WakeUpComes
<1>1. LoopInit => LoopInv
  BY DEF LoopInit, LoopInv, WakeUpComes, InLoop, Init
<1>2. SessionInv /\ LoopInv /\ [LoopNext]_loopVars => LoopInv'
  BY LoopInvKept
<1>3. LoopInv => WakeUpComes
  BY DEF LoopInv
<1>4. LoopSpec => []SessionInv
  BY LoopImplementsSteps, SessionInvHolds, PTL
<1>5. QED BY <1>1, <1>2, <1>3, <1>4, PTL DEF LoopSpec
=============================================================================
