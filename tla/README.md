# FastTransfer in TLA+

FastTransfer sends files and folders from one machine to another over a direct
or local Ethernet link: a Qt 6 program (`src/src/`) with a transfer core, a
binary TCP protocol (FT01), UDP discovery, an SQLite history and a desktop GUI.
This directory holds its specifications: TLA+ modules translated from the
source, TLC configurations that check them on small instances, and proofs for
every instance. Paths below are relative to the repository root of the program;
line numbers are those of the commit the modules were written from.

## 1. The system

| Component | State | Operations | What makes it correct | Modules |
|---|---|---|---|---|
| `core/TransferSession` | status, direction, manifest, current file, `m_waitingFileAck`, reader or writer, metrics | `startSend`, the thirteen packet handlers, `sendNextChunk`, accept / reject, pause / resume / cancel, socket slots, metrics timer | a session that says "Completed" has delivered everything; an ended session stays ended; no data thrown away; nobody waits for ever | `TransferSession`, `SendLoop` |
| `filesystem/FileReader` | open file, size, offset, hasher | `open(offset)`, `readNextChunk`, `isAtEnd`, `finalizeBlake3`, `close` | the digest covers exactly the bytes of the file, whatever the start offset | `FileStore` |
| `filesystem/FileWriter` | target and `.partial` path, open file, hasher | `open(policy)`, `writeChunk(offset)`, `finalizeAndCommit`, `abort` | what appears under a final name is a source file, in one step; existing files survive | `FileStore`, `TransferSession` |
| `network/TcpConnection` | socket, read buffer, header state | `sendPacket`, `onReadyRead`, connect / disconnect | the packet sequence is independent of how the bytes are cut | `TcpConnection`, `TransferSession` |
| `network/Protocol` | none | one serialize and one parse function for each message | what is parsed is what was serialized; limits and lengths at their integer width | `Protocol` |
| `core/TransferManager` | active session, settings | `initiateSend`, incoming connections, accept / reject, status slots, shutdown | a session in use is not replaced; an answer reaches the session it was given for; the history tells the truth | `TransferManager` |
| `database/Database` | `transfers` and `settings` rows | inserts and updates | follows the manager | `TransferManager` |
| `network/DiscoveryService` | device table, two timers | announce, receive, sweep | a live device is listed, a dead one disappears | `Discovery` |
| `filesystem/FileEnumerator` | none | `enumeratePaths` | every selected file once, numbered by its place | `FileEnumerator` |
| `gui/SendPage` | selection, destinations, START | add, remove, clear, choose, start | START sends what is selected to where was chosen | `SendPage`, `SendOffer` |
| `gui/MainWindow`, `gui/TransferPage` | buttons, session pointer, modal dialogs | the user's clicks | a click means what it says when it takes effect | `TransferManager`, `TransferSession` |
| `platform/*`, other pages | none | preallocation, sanitised names, adapters; widgets | names stay below the download folder | partly, section 6 |

How they interact: `MainWindow` calls `TransferManager`, which owns at most one
`TransferSession` and the `QTcpServer`. A session owns one `TcpConnection` and a
`FileReader` or a `FileWriter`; packets come as a signal from inside
`TcpConnection::onReadyRead`, status changes go as signals to the manager
(which writes the history) and to `TransferPage` (which enables buttons).
`DiscoveryService` tells the pages when its table changes, and `SendPage` rebuilds
its destinations. Everything of one machine runs on one Qt event loop; the two
machines share nothing but the connection and the announcements.

What is hard: the interleaving of two event loops over two queues; control
packets that cross data and acknowledgements; the read loop that continues after
a handler has disconnected; the modal dialog, which runs a nested event loop
inside a packet handler, in which the session of that very handler can be
destroyed; restarts of a file in the middle of its stream; the removal and
rename of the commit, and a crash between them; a connection that dies in each
status; lists rebuilt under the user's hands. The list with lines is `hazards`
in `PROJECT.json`.

## 2. Modules

| Module | What it is |
|---|---|
| `FileStore` | reader, writer and receiving disk as operators over records (no variables) |
| `TransferSession` | both sessions, the connection, the disk: state machine, properties, fairness |
| `SendLoop` | extends `TransferSession`: the socket's buffer and the two calls that keep `sendNextChunk` going |
| `TransferSessionInv` | the inductive invariant `SessionInv` and its parts |
| `TransferDeliveryInv` | the inductive invariants behind the other properties of a session |
| `Delivery`, `Publication` | abstract specifications: what a transfer promises its two users, and what it promises who watches the folder |
| `TransferRefinement` | the refinement mappings from `TransferSession` to both |
| `TransferManager` | one machine's manager with dialogs, page, history, settings, stops and restarts |
| `Discovery` | announcements, device table, sweep and lists, with time in seconds |
| `SendPage`, `FileEnumerator` | the send page, and the manifest of a selection |
| `Protocol` | every message: serialize and parse functions |
| `TcpConnection` | one direction of a connection: byte stream and read loop |
| `SendOffer` | composes the last four: from the selection to the offer the other side reads |
| `TransferSessionProofs` | `SessionInv` is inductive, and what follows from it |
| `TransferStepProofs` | what each action does to queues, sessions and disk: the lemmas the next three share |
| `TransferDeliveryProofs` | both refinements, `NeverReplaced`, `AckIsForCurrentFile`, `CompletedMeansDelivered` |
| `TransferStreamProofs` | `PartialDataKept`, `WriterHoldsPrefix`, `BytesConserved`, `EndsOnce` |
| `SendLoopProofs` | `SendLoop` takes steps of `TransferSession`, and `WakeUpComes` |
| `TransferManagerProofs`, `DiscoveryProofs`, `SendOfferProofs` | the theorems of one component each |
| `MCTransferSession`, `MCSendLoop`, `MCTransferManager`, `MCSendOffer` | small instances for TLC |

### `TransferSession`

Composes the two `TransferSession` objects of one transfer.

* `sender`: `m_status`, `m_currentFileIndex` (`cur`), `m_waitingFileAck`
  (`waiting`), `m_fileReader` (`reader`), `m_metrics.currentFileTransferred`
  (`fileSent`), `m_metrics.totalTransferred` (`total`), and `button`, whether
  `TransferPage` has the Pause/Resume button enabled.
* `receiver`: the same with `m_fileWriter`, `m_currentReceivingFileIndex`, and
  `asking`, true while the modal dialog of `MainWindow::onIncomingTransferOffered`
  is open. The dialog blocks the packet handler it runs in, so `ReceiverGets`
  lets no packet through, while the loss of the connection is handled.
* `toRecv`, `toSend`: the bytes between the two handlers, socket buffers and read
  buffers included, as a sequence of packets. `sock` and `cut` say who has
  disconnected and whether the cable is out; what was sent before may arrive up
  to any prefix, what is sent afterwards is lost.
* `disk`: the receiving session's folder, a fresh one for each session
  (`acceptTransfer`), as two maps from names to contents, one for the committed files and
  one for the `.partial` files. Both kinds live in one folder: `DotPartial` says which names are
  one file (the `.partial` of `a` and a committed `a.partial`), and everything that
  asks whether a name exists, removes it or renames to it looks in both maps.

Each packet handler of `onPacketReceived` is one action (`OnFileStart`,
`OnFileEnd`, ...) with every call it makes: `OnFileAck` closes the reader, opens
the next file, sends `FileStart` and takes the first turn of the chunk loop,
because the code does all that before it returns. `ChunkLoop` is the queued
`sendNextChunk` or the one `bytesWritten` makes; at any turn the socket's buffer may be
full, and then nothing is sent. `CloseInHandler` is a disconnect in the middle of
`onReadyRead`: unread bytes are dropped, buffered packets are still handled.

Faults. A failing system call is a choice enabled by the set `Faults`: `connect`,
`network` (the cable), `source` (open), `read`, `diskfull`, `partial` (creating the
.partial), `write`, `flush`, `rename`; `reject` lets the user decline; `crash` lets the receiving
program die between two handlers or inside one, between any two of the steps
that `open` and `finalizeAndCommit` take on the disk (`DiskInside`). Files survive, the
session does not. A sender that crashes is, to the receiver, a cut.

The write buffer. `QFile` keeps a write that is smaller than its buffer until `flush()`
or `close()`, whose results `FileWriter` ignores (`FileWriter.cpp:153-156`, `183`). Chunks are
1 MiB at least, so only the last block of a file can be that small; `SmallTail` names the entries
where it is. `disk` is what the writer sees through the buffer; wherever a file is closed
(`Closed`: by the next `FileStart`, by `finalizeAndCommit` and by a cancellation) the fault
`flush` may leave it without that block (`Unflushed`), at the end of the file or as a hole
where the space was allocated, and a crash may do so without that fault. A `write` that only fills the buffer cannot fail.
Preallocation (`Preallocations`) is chosen for each file: it extends the file, or it fails or
only reserves space.

Abstractions. A file is a sequence of blocks of the chunk size and the block
`<<i, k>>` is the k-th of entry i, so that a block of the wrong file, or in the
wrong place, shows. A digest is the sequence of blocks hashed (BLAKE3 taken to be
collision-free). A packet carries the fields a handler reads. `Hole` is the zeros
of an allocated, unwritten region. `resumeOffset` is always 0 where
`FileWriter::open` is called (`TransferSession.cpp:404`), so its resume branch
(lines 85-107) is dead code and is not modelled. Handshakes and payloads this
program never sends are left out.

### `SendLoop`

`TransferSession` has one action, and one fairness condition, for two mechanisms
of the code: `sendNextChunk` queues a call of itself if its chunk leaves room in the
socket's buffer, and `onBytesTransferred` calls it when the system has taken
something from that buffer. `SendLoop` adds the buffer (`pending`, the packets at
the end of `toRecv` that have not left the machine) and the number of queued calls
(`calls`), and lets exactly these two mechanisms run the loop. Calls outlive the
pause during which they find nothing to do and pile up over restarts, as in the
code. `maxPending` counts chunks; the other packets are a few bytes. The system
and the receiver take at most `Capacity` packets before the receiver handles one.

### `Delivery` and `Publication`

`Delivery`: entries are delivered one at a time in their order, none is taken back,
and an end claims completion only when all are. Its variables are mapped to the
entries that stand on the disk and to the sides whose status is "Completed".
`Publication`: in the folder a name appears in one step with a copy of a source file, and
names go in one step. What counts as a copy is a constant of it, mapped to `Copies`: the
source, or, with the fault `flush`, what is left of it without a small last block. The first
is about users and holds only without the receiver's Resume, without such a loss and for
names that are apart (section 3); the second needs no such limit.

### `TransferManager`

A session is seen from outside. Sessions are numbered in the order of their
creation, the number stands for the `transferId`, and a destroyed one keeps its
last status in `sessions`, so that rows can be compared with it. `active` is
`m_activeSession`. `dialogs` is the stack of modal dialogs, each inside the event loop
of the one below; only the innermost can be answered, and the main window takes
no click (`AtUser`). `offerFor` is `m_currentOfferSession`, which the handler sets anew
for each offer. `page` is `TransferPage` with its session pointer and two buttons.
`rows` is the last text written to a session's history row, `stored` the settings
table. `PacketComes` says that the read loop of a session whose handler is on the
stack is not entered again. A step that writes a row twice (status slot, then
failure slot) is one action with the last text.

Two undefined uses of a destroyed session are in the code, by the page's raw
pointer and by a handler that returns into it. The model gives them no effect, or
kills the process (`Crash` is enabled at all times). Addresses can be reused:
`SamePointer` says when the comparison in `acceptIncoming` can be true for
another session.

### `Discovery`

`Me` listens, the other hosts announce. An announcement in all its copies is one
datagram, lost or delayed up to `MaxDelay`; one's own comes back through the local
stack and is not lost. Timers count down in `Tick`, which waits for everything
due. `table` holds the age of each `lastSeen`, `shown` the ids on the three pages,
rebuilt only when `devicesChanged` is emitted. `unheard`, `unsettled` and `missed` are
history. The first announcement of `initialize` precedes the server's choice of a
port (`TransferManager.cpp:43`), hence the ports in `Start`.

### `SendOffer`

`SendPage` keeps the selection, the combo box with the device at its index, the manual
address and `startEnabled`, which only `updateSummary` writes. START builds the
manifest (`EnumeratePaths`), connects, and from then on the page is left alone.
`Talk` sends the handshake, the offer and then one of each type of message; one
direction carries all types, because both run the same code. The byte stream is
made of cells, one for each value written, and `OnReadyRead` reads any number of
them. Each round of the read loop is a step (`ParseHeader`, `ExtractPacket`,
`WaitForMore`). In `Protocol` the messages that are JSON objects are described by tables
of their keys, read by both directions; in the code the two functions have the
same keys, compared by eye for this module, so a key misspelt on one side is not
something the run could find. The other messages are written and read field by
field in two separate operators.

## 3. Runs

`CHECK_DEADLOCK FALSE` everywhere: a transfer ends, and the bounds stop the rest.

| Run | Instance | States | Shows |
|---|---|---|---|
| `session_sender` | three files, sender pauses and resumes, both may cancel, all faults but `flush`, crashes | 32,289 | `CommittedExact`, `CompletedMeansDelivered`, `AckIsForCurrentFile`, `WriterHoldsPrefix`, `BytesConserved`, `PartialDataKept`, `ImplementsDelivery`, `TypeOK` |
| `session_both` | two files of one path, the second longer, both sides pause, resume and cancel, all faults, `flush` included, crashes | 3,323,863 | `SessionInv` (and with it what commits may lack), `NeverReplaced`, `ImplementsPublication` |
| `session_live` | four files, `SendLoop`, sender pauses three times, healthy network, fairness | 28,022 | `WakeUpComes`, `ImplementsSession`, `TransferFinishes`, `EndsOnce` |
| `session_loss` | four files, one named as another's `.partial`, Skip policy, auto-accept, both may cancel, cable, receiving disk (`flush` included) and receiver fail, fairness | 4,254 | `LossNoticed`, `FailureReachesSender`, `CommittedButTail` |
| `manager` | three sessions, two settings, stops and crashes | 2,110,198 | `ManagerInv`, `RowMatchesSession`, `AcceptedByItsOwnDialog`, `SendClosesThePrevious`, `SettingsSurvive` |
| `discovery` | two machines, two ports, the program's periods 3 / 4 / 10 s | 9,770,945 | `DiscoveryInv`, `StaleAddressesGo`, `OwnListedBriefly`, `ListIsTable`, `HeardInTime`, `DroppedOnlyIfSilent` |
| `offer` | four paths, two devices, every type of message | 4,434,342 | `PickIsTarget`, `StartHasWork`, `DeliveredAsSent`, `NothingStuck`, `RefusedOnlyIfTooLarge`, `ManifestIntact` |
| `session_replaced` | as `manager` | | violation of `RunningSessionKept` |
| `completed_undelivered` | receiver pauses and resumes | | violation of `CompletedMeansDelivered` |
| `skip_removes` | Skip policy, shared path, empty file | | violation of `NeverReplaced` |
| `flush_lost` | a last block that waits in the write buffer, `flush` | | violation of `CommittedExact` |
| `shrunk_source` | a source that lost a block after enumeration | | violation of `CommittedExact` |

### Bounds

* Manifests: `SizesThree` = 1, 2 and 0 blocks, the first and the third with one
  sanitised path; `SizesOneTwo` = 1 and 2 blocks with one path, so that the offset a restart
  takes from the longer file can lie beyond the end of the shorter (`FileReader.cpp:26`);
  `SizesTwoZero` = 2 and 0 blocks; `SizesFour` = 3, 2, 0 and 2, two of them with one path, and in
  `session_loss` (`PathsDotted`) the first named as the `.partial` of the second. `SmallTail`
  holds one or two entries in each passing run. Two blocks are the least at which a file can be
  interrupted between two chunks; the empty file takes the path without chunks,
  on which FileStart and FileEnd travel together; a third file is needed to skip
  one and still complete; a shared path exercises the duplicate policy.
* `MaxPauses`, presses of Pause: two let one pause cross the packets of another; three
  let queued calls of the chunk loop pile up over restarts.
* `Window`, packets in flight at which the chunk loop stops at the latest (messages of one
  turn may exceed it): 3 lets a `FileStart`, a chunk and a `FileEnd` be in flight
  together; it is 2 in `session_both` and `session_loss`, which leaves room for a chunk and a
  `FileEnd`. In `session_live` it is 12, out of reach, and the buffer stops the loop:
  `MaxPending = 2` chunks, the program's value for large chunks, and `Capacity = 2`, so that
  the buffer fills and empties.
* `MaxCopies`, renamed copies of a name: as many as entries share it, and more.
* `manager`: `MaxSessions = 3`. A dialog for a first session, a second that replaces it and
  opens its own dialog inside, and a third at the address of the first: that is the
  smallest case of address reuse. `chunk_size` is offered a value it refuses.
* `discovery`: `MaxChanges = 3` starts, stops, renamings and refreshes, as many as it takes
  to leave, come back on another port and leave again; `MaxDelay = 1`, a second on a local link. Ages
  are bounded by the sweep, so the time of a run is not.
* `offer`: `MaxSent = 3` (handshake, offer, any message), so that a message of each type
  follows another in the buffer and can be cut anywhere; two paths with the same
  base name, a folder with two files, a path that is gone. `MaxItems = 2` and
  `MaxMetadata = 20` cells put the offers of the selection on both sides of both limits.
  `Word = 32` cells keep `ChunkHeader + MaxChunk < Word` with little to spare, as the cap on the
  chunk size does in 32 bits.

The passing runs are as wide as each property allows: what `session_sender`
checks is false as soon as the receiving user may press Resume (`completed_undelivered`), and
exact commits and what rests on them as soon as a flush may lose data (`flush_lost`), so the
statements that survive both are checked in `session_both`. `session_live` excludes Cancel because a `TransferCancel` that
crosses `TransferComplete` renames a completed session; `session_loss` excludes
pauses because a session in `Paused` or `WaitingApproval` ignores the loss of its
connection (`TransferSession.cpp:528`). `NeverReplaced` is checked under Rename and for names that are
apart: with entries `a.partial` and `a`, in this order, `open()` takes the committed
`a.partial` for a leftover of `a` and removes it (`FileWriter.cpp:109-111`), whatever the
policy; TLC shows it on `PathsDotted` with the Rename policy. Replace
removes the old version when the `FileStart` comes, before the new one is there, by design
(`FileWriter.cpp:71`).

### What the violations show

* `session_replaced`: the comment at `TransferManager.cpp:151` says "If an active session is
  already running, reject", the code asks for `Transferring`. A paused transfer is destroyed
  by any incoming connection, its row stays "Paused", its page keeps a pointer.
* `completed_undelivered`: `resume()` on the receiver sends `m_currentFileIndex`, a
  variable of the sending side, hence file 0: the sender restarts that file from zero, though
  the README promises to "resume from the exact byte offset without restarting from
  zero" (and where the file is not finished yet, the receiver deletes its `.partial`:
  `PartialDataKept` fails on the same instance). When that resume crosses a `FileEnd` under way,
  the first file is acknowledged twice. `FileAck`'s index is not compared, so the
  second acknowledgement moves the sender past a file the receiver never
  finished, and both ends show "✓ Transfer Complete & BLAKE3 Verified".
* `skip_removes`: refused by Skip, the writer keeps the existing file as its target. For
  an empty file the `FileEnd` buffered behind is handled after the disconnect,
  matches the empty hasher, and the commit removes the existing file before its
  rename fails.
* `flush_lost`: the digest comes from memory, so a last block that `flush()` or `close()`
  fails to write goes unnoticed: the short file gets its final name and a good `FileAck`.
  `FileWriter.h:35` promises to verify against the checksum and to commit atomically.
* `shrunk_source`: `posix_fallocate` lengthens the `.partial` to the manifest's size and
  nothing cuts it back.

### What the passing runs do not promise

Some of what the code does is neither promised nor denied anywhere, and the
properties leave room for it: a completed transfer can be renamed "Cancelled" (by a late
`TransferCancel`, a new send, or shutdown); a row left "Active" by a crash stays so; an
offer accepted after its connection died leaves a session `Transferring` with nobody to
end it; an offer over a limit leaves its sender in `WaitingApproval`; a device that goes
silently hands its place in the combo box to the first one; a machine may list itself for
up to `Limit` seconds after a renaming.

### Fairness

`FairSpec` asks weak fairness of the packet handlers of each side, of the chunk
loop, and of the reports of a socket's fate: an event loop runs what is posted,
and Qt reports connect and disconnect. Handlers are grouped by side, since the
next packet's type decides which one can run. It also asks that a started
program calls `startSend`, that the dialog is answered, and that a user who
paused presses Resume again; nothing is asked of Pause, Cancel, faults or the
cable. `LoopSpec` of `SendLoop` does not assume the fairness of the chunk loop: it asks weak
fairness of the queued calls and of the system that empties the buffer, and
`ImplementsSession` shows that `FairSpec` follows, on its instance. Strong fairness is not
used. `LossNoticed` and `FailureReachesSender` need the disconnection to be reported,
which `WF` of the two `LosesSocket` actions says. When a cable is pulled while a side only
waits, the report can come from nothing but the socket's keep-alive, which
`TcpConnection.cpp:9` and `30` ask for before an outgoing socket is connected; whether Qt honours an
option set that early is not in this repository, and this fairness assumes it does.

## 4. Proofs

Checked by TLAPS for every value of the constants; each list in the order of
dependence. "Needs" names the hypotheses beyond the assumptions the modules make
on their constants; S stands for `NoTrailingHole` and `ByButton = TRUE`.

| Module | Theorem | Statement | Needs |
|---|---|---|---|
| `TransferSessionProofs` | `SessionInvHolds` | `Spec => []SessionInv` | S |
| | `TypesHold`, `CommitsAreCopies` | `TypeOK`, `CommittedButTail` | S |
| | `CommitsAreExact` | `CommittedExact` | S, `TailsReachDisk` |
| `TransferDeliveryProofs` | `PublicationHolds` | `Spec => ImplementsPublication` | S |
| | `NothingIsReplaced` | `NeverReplaced` | S, `KeepsFiles`, `NamesApart` |
| | `AcksAreForTheCurrentFile` | `AckIsForCurrentFile` | S, no receiver's controls |
| | `CompletedIsDelivered` | `CompletedMeansDelivered` | S, `KeepsFiles`, `NamesApart`, `TailsReachDisk`, no receiver's controls |
| | `DeliveryHolds` | `Spec => ImplementsDelivery` | as above, `FilesDiffer` |
| `TransferStreamProofs` | `BlocksAreKept` | `PartialDataKept` | S, no receiver's controls |
| | `WriterHoldsAPrefix` | `WriterHoldsPrefix` | S, no receiver's controls |
| | `TotalsAgree` | `BytesConserved` | S, no receiver's controls |
| | `EndedStaysEnded` | `EndsOnce` | S, no receiver's controls, nobody cancels, no crash, `HoldsOut` |
| `SendLoopProofs` | `LoopImplementsSteps` | `LoopSpec => Spec` | |
| | `WakeUpAlwaysComes` | `LoopSpec => []WakeUpComes` | S |
| `TransferManagerProofs` | `ManagerInvHolds` | `Spec => []ManagerInv` | |
| | `RowMatchesSessionHolds` | `RowMatchesSession` | |
| | `AcceptedByItsOwnDialogHolds`, `SendClosesThePreviousHolds`, `SettingsSurviveHolds` | the action properties | |
| `DiscoveryProofs` | `DiscoveryInvHolds` | `Spec => []DiscoveryInv` | |
| | `StaleAddressesGoHolds`, `OwnListedBrieflyHolds`, `ListIsTableHolds` | the safety properties | |
| | `HeardInTimeHolds`, `DroppedOnlyIfSilentHolds` | a live machine stays listed | |
| `SendOfferProofs` | `DeliveredAsSentHolds`, `NothingStuckHolds`, `RefusedOnlyIfTooLargeHolds` | packets over a byte stream cut anywhere | |
| | `ManifestIntactHolds` | what was selected is what arrives | |
| | `PickIsTargetHolds`, `StartHasWorkHolds` | the send page | |

### Sessions: hypotheses

* `NoTrailingHole`: no source is shorter than its manifest entry where allocation extends
  files. Without it `shrunk_source` is a counterexample.
* `ByButton`: `pause()` and `resume()` come from TransferPage's button. `TransferPage`
  leaves the button disabled when a late `TransferPause` turns a failed session into a
  paused one. Other code that called `resume()` on a session which failed to reopen
  its source for a restart would find the reader closed, `isAtEnd()` true, and
  send the digest of nothing as a `FileEnd`, which the receiver, with a new writer
  that has hashed nothing, would commit as a file of zeros; TLC shows it with
  `ByButton = FALSE`.
* No receiver's controls (`"recv" \notin Controls`): the receiving user does not press
  Pause or Resume. `completed_undelivered` is the counterexample, and its instance shows the one
  for `PartialDataKept`.
* `TailsReachDisk`: `flush()` and `close()` succeed, or no last block is small enough to wait for
  them. `flush_lost` is the counterexample. `SessionInv`, `Publication` and the stream's
  theorems do without it.
* `NamesApart`: no file is named as the `.partial` of another one (`DotPartial` is empty). The manifest
  `a.partial`, `a` is the counterexample (section 3). Only `NeverReplaced` and what rests on it
  need this.
* `KeepsFiles`: the duplicate policy is Rename or Ask (which renames too). Replace removes by
  design, and `skip_removes` is the counterexample for Skip.
* `FilesDiffer`: no two entries share both path and content. On the disk two such entries
  cannot be told apart, and the mapping to `Delivery` would see both delivered at once.
* For `EndsOnce`: nobody cancels, because a `TransferCancel` that crosses `TransferComplete`
  renames a completed session, and the receiving program does not crash, because its session
  is gone then, status and all. `HoldsOut` says that the sender
  does not pause, or the receiver has no reason to fail in the middle of a stream (no
  failing disk, no Skip): a `TransferPause` behind the packet it fails on would revive it.

### Sessions: `SessionInv`

`CommittedExact` is not inductive: that the digest matches says what was hashed, not where
it was written. The argument has four parts:

1. `PayloadOK`, `ReaderOK`: a chunk under way carries the block of its file at its
   offset and a `FileEnd` the digest of the whole source, because an open reader has
   hashed exactly what lies before its offset, and a session that sends has its
   reader open (`MustRead`, where `button` and the handshake, `HandshakeFirst`,
   `EarlyOK`, come in).
2. `StreamOK`, `AnnouncedOK`: each chunk and end in the queue meets the writer of its own
   file. `Owner` says whose file is open once the packets before a position are
   handled; a restart queues its `FileStart` behind the old chunks, so it holds for
   restarts too. When the connection is gone nothing new enters the queue, and a cut
   queue is a prefix.
3. `WriterOK`: every hashed block is in the `.partial` at its own place, but for the last one
   where a closed file has lost it, and the file is no longer than the source, though
   after a failed write a buffered chunk may have left a gap.
4. `HoldsCopies`: a digest equal to the source's then means every block is in place, but for
   that one. This is `CommittedButTail`; with `TailsReachDisk` it is `CommittedExact`.

The proof has one lemma for each action, built on lemmas about the queue, the
reader and the disk. `PublicationHolds` adds that each action, a crash inside a
handler included, drops names, adds one name or leaves the folder alone
(`FinalStep`), and takes from `HoldsCopies`, in the state after the step, that what was
added is a copy of a source file.

### Sessions: delivery and the stream

Each property has an invariant of its own in `TransferDeliveryInv`, proved on top of
`SessionInv` and of those above it in the list. `TransferStepProofs` says once what every
action does to the queues (`Say`, `Part`: append, or lose a prefix or an end), so that the
invariants are shown to survive these few changes, not 32 actions each.

* `FreeInv`, for `NeverReplaced`: a `FileEnd` under way will find its target's name free,
  either now or because a `FileStart` before it chooses the target anew; so will the end
  that an open reader is going to send.
* `TurnInv`, for `AckIsForCurrentFile`: handshake, offer, dialog, answer, `FileEnd` and good
  `FileAck` are one turn. At most one of them exists over both directions, it fits the
  state of the sender, and before the first file nothing is streamed.
* `BehindInv`, for `CompletedMeansDelivered`: what lies behind the sender, what a good
  `FileAck` under way names, and everything once `Completed` or `TransferComplete` is seen,
  is on the disk; `NeverReplaced` keeps it there.
* `AheadInv`, for `ImplementsDelivery`: nothing beyond the sender's current file is
  delivered, so a commit delivers the next entry of `Delivery` or none.
* `PartialInv`, for `PartialDataKept`: packets of one file at a time are under way, and a
  file starts when no `.partial` is left, so opening a writer throws nothing away.
* `FollowInv`, for `WriterHoldsPrefix`: the chunk at each position of the queue is the one
  after the chunk before it, or after what the writer has hashed.
* `CountInv`, for `BytesConserved`: while the link is whole the totals differ by the chunks in
  the queue. That needs `EndedLate`: a session that ended has been at its first file, so
  no handshake revives it and adds to a total that no longer counts.
* `EndInv`, for `EndsOnce`: once a side has ended, or will with a refusal under way, no packet
  that sets a status is left for it. The sender needs `NoTurnLeft` and `RefusalsFit`
  (nothing contradicts how it ended), the receiver `LastWord`, `EndedReceiver` and
  `ChunkIsTaken` (a chunk meets an open writer, so the receiver does not fail on it).

### The chunk loop

`LoopImplementsSteps` is the safety half of `ImplementsSession`: every step of `SendLoop` is a step
of `TransferSession` or leaves its variables alone, so every theorem about a session holds
for the loop with its buffer and queued calls. `LoopInv` adds to `WakeUpComes` the types of
the two counters and that nothing is queued before the connection is up.
`LoopAssumption` states what the module is about: no faults, no cancellation, and not Skip.

### Manager

No assumption but `ManagerAssumption` on the constants. `RowMatchesSession` and
`AcceptedByItsOwnDialog` are not inductive. What is missing is about dialogs:

* `OfferIsInnermost`: the offer that can be answered is that of the innermost dialog or
  none, so that an answer to an outer dialog does nothing. It holds because every answer
  clears the pointer and every new dialog overwrites it.
* `DialogInv`: with a dialog open auto-accept is off (the settings are behind the dialog),
  and a living session has an offer only if it is the one asked for, in
  `WaitingApproval`; so an address that is used again, by a session that has no offer yet,
  is harmless to `accept()`.
* `StoppedInv`: a stopped process has no session and no window.

### Discovery

Assumptions: the periods are positive and an announcement arrives within the timeout at
least once if none is lost. `AgesOK` is the strengthening: an id in the table was announced
no longer ago than its age and the delay, an age and the time to the next sweep
add up to no more than a timeout and a sweep, and an own announcement that is no
longer recognised dates from before the last renaming. The bounds
`Limit = Timeout + Sweep + MaxDelay` follow.

`DroppedOnlyIfSilent` needs the other direction, `HeardInTime`: the age of a running machine's
entry and the time to its next announcement add up to no more than the announcements it lost
in a row explain (`Span`), or a datagram that will make it so is on its way. With no more than the tolerated losses that is below the timeout, and only the sweep
drops.

### From the page to the offer

Assumptions: `ProtocolAssumption` (limits are numbers and the largest chunk fits the word),
`MessagesAssumption` (every message but the offer is well formed and below the metadata limit;
the offer is what the selection makes it), `EnumeratorAssumption` and `PageAssumption` (the
contents of a folder and the order of the devices are sequences, and a folder holds a path
once).

* `OfferInv` is `StartInv`, `StreamInv` and `HeaderInv`. `StreamInv` lays the messages that are sent and
  not yet received along read buffer and wire: `Framed` gives each the place `p[k]` where it
  ends. So at every split the bytes at the front are those of the next message, and
  reading them gives `Reads` of what was sent. `HeaderInv` says that a header kept from an
  earlier round is that of the next message, and that the loop stops only for want of bytes,
  from which `NothingStuck` follows.
* `ManifestIntact` adds `OfferMade`: the manifest is what `EnumeratePaths` computes for the paths
  on the page. What that function computes, item by item and as sums over sets, is proved
  by induction on the number of paths.
* `PageInv`: what the user picked is listed and current until it goes, and START is enabled
  with something to send and somewhere to send it.

The library's induction theorems take an operator as a parameter, which the provers do not
instantiate. Where the folds and recursive functions of the serialisation and of the
enumeration need induction, `SendOfferProofs` states it over sets (`SetInduction`: a set of
numbers that holds 0 and is closed under successor holds every number) and gives it the set
for which the claim holds.

### Only model-checked

* `TransferFinishes`, `LossNoticed`, `FailureReachesSender`: liveness under fairness.
* The fairness half of `ImplementsSession`: that `LoopSpec` implies `FairSpec`. Its safety half is
  `LoopImplementsSteps`.
* The violations of section 3, which are counterexamples.

## 5. Order of work

Done: `TransferSession` with `FileStore`; `Delivery` and `Publication`; crashes of the receiver;
`TransferManager`; `Discovery`; the pipeline from the send page to the offer; `SendLoop`; and the
proofs of section 4, which state every safety property that a passing run checks. Left:

1. `EndsOnce` with cancellation: which renamings of an ended session remain possible when the
   two sides cancel, as an exact statement.
2. `NeverReplaced` under Skip where no entry is empty, and under Replace for entries whose
   paths differ.
3. `BytesConserved` and `WriterHoldsPrefix` with the receiver's controls, for the part of a
   transfer after the last restart.

## 6. Not modelled

* `calculateMetrics`: speeds and remaining time, in floating point over wall-clock time;
  only labels read them. Error and progress columns of the history, for the same reason.
* Path sanitising (`PlatformFilesystem::sanitizePath`): string functions; a path in the
  models is what they have made of it, and two entries may share one.
* Adapter enumeration, the names, operating systems and link speeds in an announcement,
  and datagrams of other programs, which the code skips.
* A handshake that is refused, and payloads that the program itself never sends.
* Failing SQL statements: the code ignores their result.
* The operating system's own buffers: nothing calls `fsync`, so a power failure may lose what
  `write` has accepted; the models' disk is what other programs on the machine see.
* File names beyond equality: those that differ in case only, and an entry whose own name is that of
  another's renamed copy, "p (1)"; a name and a `.partial` that coincide are modelled
  (`DotPartial`).
* Widgets, navigation, the speed graph, the theme; the vendored BLAKE3; packaging.
