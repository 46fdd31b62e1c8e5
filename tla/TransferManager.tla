-------------------------- MODULE TransferManager --------------------------
(***************************************************************************)
(* One machine's TransferManager: the single active session that incoming  *)
(* connections and the user's own sends compete for, the modal dialogs of  *)
(* MainWindow, what TransferPage shows and controls, the history and the   *)
(* settings in the database, and the process itself, which may die at any  *)
(* point and be started again.                                             *)
(*                                                                         *)
(* A session is seen from outside: its status and what makes it change.    *)
(* Sessions are numbered as they are created and keep their last status    *)
(* when they are destroyed; the number stands for the transferId.  An      *)
(* undefined use of a destroyed session either has no effect or kills the  *)
(* process, which Crash allows at any time.                                *)
(***************************************************************************)
EXTENDS Naturals, Sequences

CONSTANTS
    MaxSessions,   \* bound: sessions created, over all runs of the program
    Keys,          \* the settings
    Default,       \* value of a setting nobody has stored
    Offered,       \* values the settings page may pass to each setter
    Acceptable     \* values each setter takes

Ids == 1..MaxSessions
None == 0          \* a null pointer to a session

ASSUME ManagerAssumption ==
    /\ MaxSessions \in Nat
    /\ "auto_accept" \in Keys
    /\ DOMAIN Default = Keys

VARIABLES
    running,    \* the process is up
    sessions,   \* every session so far
    active,     \* m_activeSession
    dialogs,    \* sessions whose offer dialog is open, the innermost last
    offerFor,   \* MainWindow's m_currentOfferSession
    page,       \* TransferPage: m_session and its two buttons
    rows,       \* status column of the transfers table, "none" without a row
    settings,   \* the manager's settings
    stored      \* the settings table

vars == <<running, sessions, active, dialogs, offerFor, page, rows,
          settings, stored>>

Statuses == {"Connecting", "Handshaking", "Offering", "WaitingApproval",
             "Transferring", "Paused", "Completed", "Failed", "Cancelled"}
RowTexts == {"none", "Active", "Paused", "Completed", "Failed", "Cancelled",
             "Rejected"}

\* linked: packets can still come in.  offered: m_receivedOffer is set.
NewSession(dir) ==
    [dir |-> dir, status |-> IF dir = "send" THEN "Connecting" ELSE "Handshaking",
     linked |-> TRUE, offered |-> FALSE]
NextId == Len(sessions) + 1

NoPage == [session |-> None, pause |-> FALSE, cancel |-> FALSE]
PageOf(s) == [session |-> s, pause |-> TRUE, cancel |-> TRUE]

S == sessions[active]
Active == running /\ active # None
Innermost == dialogs[Len(dialogs)]

\* The main window takes clicks: no modal dialog is in front of it.
AtUser == running /\ dialogs = <<>>

\* A packet for the active session: its read loop is not inside a handler.
PacketComes ==
    /\ Active /\ S.linked
    /\ \A k \in 1..Len(dialogs) : dialogs[k] # active

-----------------------------------------------------------------------------
(* History.                                                                *)

\* Mutant of StatusText: a pause is not told apart.
StatusTextCoarse(st) ==
    IF st \in {"Completed", "Failed", "Cancelled"} THEN st ELSE "Active"

StatusText(st) ==
    IF st \in {"Completed", "Failed", "Cancelled", "Paused"} THEN st ELSE "Active"

\* UPDATE transfers ... WHERE id: nothing happens without a row.
Updated(r, s, text) == IF r[s] = "none" THEN r ELSE [r EXCEPT ![s] = text]
Inserted(r, s) == [r EXCEPT ![s] = "Active"]

-----------------------------------------------------------------------------
(* Status changes of the active session.                                   *)

\* updateStatus: which buttons a status turns on or off.
Shown(p, st) ==
    [p EXCEPT !.pause = \/ st = "Transferring"
                        \/ st \in {"Connecting", "Handshaking", "Paused"} /\ @,
              !.cancel = \/ st \in {"Offering", "WaitingApproval", "Transferring"}
                         \/ st \in {"Connecting", "Handshaking", "Paused"} /\ @]

\* setStatus(st), and text the last thing written to the session's row.
Becomes(st, linked, text) ==
    /\ sessions' = [sessions EXCEPT ![active].status = st,
                                    ![active].linked = linked]
    /\ rows' = Updated(rows, active, text)
    /\ page' = Shown(page, st)

Advances(st) == Becomes(st, S.linked, StatusText(st))
StopsAs(st, text) == Becomes(st, FALSE, text)

OfSession == UNCHANGED <<running, active, dialogs, offerFor, settings, stored>>

SocketConnected ==
    /\ Active /\ S.status = "Connecting"
    /\ Advances("Handshaking")
    /\ OfSession

\* onSocketError and onSocketDisconnected: only these two statuses notice.
LosesConnection ==
    /\ Active /\ S.linked
    /\ \/ /\ S.status \in {"Connecting", "Transferring"}
          /\ StopsAs("Failed", "Failed")
       \/ /\ S.status \notin {"Connecting", "Transferring"}
          /\ sessions' = [sessions EXCEPT ![active].linked = FALSE]
          /\ UNCHANGED <<rows, page>>
    /\ OfSession

OnHandshakeReq ==
    /\ PacketComes /\ S.dir = "recv" /\ S.status = "Handshaking"
    /\ Advances("Offering")
    /\ OfSession

OnHandshakeResp ==
    /\ PacketComes /\ S.dir = "send" /\ S.status = "Handshaking"
    /\ Advances("WaitingApproval")
    /\ OfSession

\* The offer's handler: the row appears, and the transfer is accepted at once
\* or a dialog opens whose event loop runs inside the handler.
OnTransferOffer ==
    /\ PacketComes /\ S.dir = "recv" /\ S.status = "Offering"
    /\ rows' = Inserted(rows, active)
    /\ \/ /\ settings["auto_accept"]
          /\ sessions' = [sessions EXCEPT ![active].offered = TRUE,
                                          ![active].status = "Transferring"]
          /\ page' = Shown(Shown(page, "WaitingApproval"), "Transferring")
          /\ UNCHANGED <<dialogs, offerFor>>
       \/ /\ ~settings["auto_accept"]
          /\ sessions' = [sessions EXCEPT ![active].offered = TRUE,
                                          ![active].status = "WaitingApproval"]
          /\ page' = PageOf(active)
          /\ dialogs' = Append(dialogs, active)
          /\ offerFor' = active
    /\ UNCHANGED <<running, active, settings, stored>>

\* A first file that cannot be opened fails the session at once.
OnTransferAccept ==
    /\ PacketComes /\ S.dir = "send" /\ S.status = "WaitingApproval"
    /\ \/ Advances("Transferring")
       \/ Advances("Failed")
    /\ OfSession

\* Cancelled, then transferFailed: the row ends as "Failed".
OnTransferReject ==
    /\ PacketComes /\ S.dir = "send" /\ S.status = "WaitingApproval"
    /\ StopsAs("Cancelled", "Failed")
    /\ OfSession

\* The peer pauses only what it holds to be under way; a sender may have
\* completed or failed meanwhile.
OnTransferPause ==
    /\ PacketComes
    /\ \/ S.status = "Transferring"
       \/ S.dir = "send" /\ S.status \in {"Completed", "Failed"}
    /\ Advances("Paused")
    /\ OfSession

\* On the sending side a file is started, which may fail.
OnTransferResume ==
    /\ PacketComes
    /\ \/ S.status = "Paused"
       \/ S.dir = "send" /\ S.status = "Failed"
    /\ \/ Advances("Transferring")
       \/ S.dir = "send" /\ Advances("Failed")
    /\ OfSession

\* In any status: a completed transfer too is renamed by the peer's cancel().
OnTransferCancel ==
    /\ PacketComes /\ S.status \notin {"Connecting", "Cancelled"}
    /\ S.dir = "recv" => S.status # "Handshaking"
    /\ StopsAs("Cancelled", "Cancelled")
    /\ OfSession

\* The last FileAck, or TransferComplete, also while paused.  A FileAck asks
\* for no status: one that comes late finds a sender that failed meanwhile.
Completes ==
    /\ PacketComes
    /\ \/ S.status \in {"Transferring", "Paused"}
       \/ S.dir = "send" /\ S.status = "Failed"
    /\ Advances("Completed")
    /\ OfSession

\* A file fails: a receiver disconnects, a sender does not.  A bad FileAck
\* may come when a sender has completed.
Fails ==
    /\ PacketComes
    /\ \/ S.status \in {"Transferring", "Paused"}
       \/ S.dir = "send" /\ S.status = "Completed"
    /\ Becomes("Failed", S.dir = "send", "Failed")
    /\ OfSession

-----------------------------------------------------------------------------
(* New sessions.                                                           *)

\* What cancel() does to the rows when it is called on the active session:
\* nothing where setStatus sees no change.
RowsAfterCancel ==
    IF active = None \/ S.status = "Cancelled" THEN rows
    ELSE Updated(rows, active, "Cancelled")
SessionsAfterCancel ==
    IF active = None THEN sessions
    ELSE [sessions EXCEPT ![active].status = "Cancelled", ![active].linked = FALSE]

\* Mutant of InitiateSend: the active session is dropped, not cancelled.
InitiateSendOver ==
    /\ AtUser /\ Len(sessions) < MaxSessions
    /\ sessions' = Append(sessions, NewSession("send"))
    /\ rows' = Inserted(rows, NextId)
    /\ active' = NextId
    /\ page' = PageOf(NextId)
    /\ UNCHANGED <<running, dialogs, offerFor, settings, stored>>

\* The active session is cancelled whatever its status, then destroyed; an
\* empty selection changes nothing.
InitiateSend ==
    /\ AtUser /\ Len(sessions) < MaxSessions
    /\ sessions' = Append(SessionsAfterCancel, NewSession("send"))
    /\ rows' = Inserted(RowsAfterCancel, NextId)
    /\ active' = NextId
    /\ page' = PageOf(NextId)
    /\ UNCHANGED <<running, dialogs, offerFor, settings, stored>>

\* Also inside a dialog's event loop.  Unless it is Transferring the active
\* session is destroyed, with no change to its status or its row.
OnNewIncomingConnection ==
    /\ running /\ Len(sessions) < MaxSessions
    /\ active # None => S.status # "Transferring"
    /\ sessions' = Append(sessions, NewSession("recv"))
    /\ active' = NextId
    /\ page' = IF settings["auto_accept"] THEN PageOf(NextId) ELSE page
    /\ UNCHANGED <<running, dialogs, offerFor, rows, settings, stored>>

-----------------------------------------------------------------------------
(* The dialogs.                                                            *)

\* Whether the pointer m_currentOfferSession equals m_activeSession.get().
\* The memory of a destroyed session can be given to a later one, but not to
\* the next: that one is built before its predecessor is destroyed.
SamePointer == {offerFor = active} \cup (IF offerFor + 1 < active THEN {TRUE} ELSE {})

DialogCloses ==
    /\ running /\ dialogs # <<>>
    /\ dialogs' = SubSeq(dialogs, 1, Len(dialogs) - 1)
    /\ UNCHANGED <<running, active, settings, stored>>

\* Mutant of OnOfferAccepted: m_currentOfferSession keeps its value.
OnOfferAcceptedKept ==
    /\ DialogCloses
    /\ \/ /\ offerFor = active
          /\ sessions' = [sessions EXCEPT ![active].status = "Transferring"]
          /\ rows' = Updated(rows, active, "Active")
          /\ page' = PageOf(active)
       \/ /\ offerFor # active
          /\ UNCHANGED <<sessions, rows, page>>
    /\ UNCHANGED offerFor

\* accept() takes effect on a session that has its offer.  TransferPage is
\* given the pointer either way.
OnOfferAccepted ==
    /\ DialogCloses
    /\ \/ /\ offerFor = None
          /\ UNCHANGED <<sessions, rows, page>>
       \/ /\ offerFor # None
          /\ \E same \in SamePointer :
                \/ /\ same /\ S.offered
                   /\ sessions' = [sessions EXCEPT ![active].status = "Transferring"]
                   /\ rows' = Updated(rows, active, "Active")
                   /\ page' = PageOf(active)
                \/ /\ ~(same /\ S.offered)
                   /\ UNCHANGED <<sessions, rows>>
                   /\ page' = PageOf(IF same THEN active ELSE offerFor)
    /\ offerFor' = None

\* Reject, or the dialog closed by Escape.
OnOfferRejected ==
    /\ DialogCloses
    /\ \/ /\ offerFor = None
          /\ UNCHANGED <<sessions, rows, page>>
       \/ /\ offerFor # None
          /\ \E same \in SamePointer :
                \/ /\ same
                   /\ sessions' = [sessions EXCEPT ![active].status = "Cancelled",
                                                   ![active].linked = FALSE]
                   /\ rows' = Updated(rows, active, "Rejected")
                   /\ page' = Shown(page, "Cancelled")
                \/ /\ ~same
                   /\ UNCHANGED <<sessions, rows, page>>
    /\ offerFor' = None

-----------------------------------------------------------------------------
(* TransferPage and the other pages.                                       *)

ClickPause ==
    /\ AtUser /\ page.pause /\ page.session = active /\ active # None
    /\ S.status = "Transferring"
    /\ Advances("Paused")
    /\ OfSession

\* A sender goes on at once, and fails if its connection is gone.
ClickResume ==
    /\ AtUser /\ page.pause /\ page.session = active /\ active # None
    /\ S.status = "Paused"
    /\ \/ Advances("Transferring")
       \/ S.dir = "send" /\ Advances("Failed")
    /\ OfSession

ClickCancel ==
    /\ AtUser /\ page.cancel /\ page.session = active /\ active # None
    /\ S.status # "Cancelled"
    /\ StopsAs("Cancelled", "Cancelled")
    /\ OfSession

ClearHistory ==
    /\ AtUser
    /\ rows' = [s \in Ids |-> "none"]
    /\ UNCHANGED <<running, sessions, active, dialogs, offerFor, page,
                   settings, stored>>

\* Mutant of ChangeSetting: the table is not told.
ChangeSettingUnsaved(k, v) ==
    /\ AtUser /\ v \in Acceptable[k]
    /\ settings' = [settings EXCEPT ![k] = v]
    /\ UNCHANGED <<running, sessions, active, dialogs, offerFor, page, rows, stored>>

\* The setters: a value is taken and stored, or ignored.
ChangeSetting(k, v) ==
    /\ AtUser /\ v \in Acceptable[k]
    /\ settings' = [settings EXCEPT ![k] = v]
    /\ stored' = [j \in DOMAIN stored \cup {k} |-> IF j = k THEN v ELSE stored[j]]
    /\ UNCHANGED <<running, sessions, active, dialogs, offerFor, page, rows>>

-----------------------------------------------------------------------------
(* The process.                                                            *)

Stopped ==
    /\ running' = FALSE
    /\ active' = None /\ dialogs' = <<>> /\ offerFor' = None /\ page' = NoPage
    /\ UNCHANGED <<settings, stored>>

Shutdown ==
    /\ AtUser
    /\ sessions' = SessionsAfterCancel
    /\ rows' = RowsAfterCancel
    /\ Stopped

Crash ==
    /\ running
    /\ Stopped
    /\ UNCHANGED <<sessions, rows>>

Restored(table) ==
    [k \in Keys |-> IF k \in DOMAIN table THEN table[k] ELSE Default[k]]

Initialize ==
    /\ ~running
    /\ running' = TRUE
    /\ settings' = Restored(stored)
    /\ UNCHANGED <<sessions, active, dialogs, offerFor, page, rows, stored>>

\* The first start, on an empty database.
Init ==
    /\ running = TRUE
    /\ sessions = <<>> /\ active = None
    /\ dialogs = <<>> /\ offerFor = None /\ page = NoPage
    /\ rows = [s \in Ids |-> "none"]
    /\ stored = [k \in {} |-> 0]
    /\ settings = Restored(stored)

SessionStep ==
    \/ SocketConnected \/ LosesConnection \/ OnHandshakeReq \/ OnHandshakeResp
    \/ OnTransferOffer \/ OnTransferAccept \/ OnTransferReject
    \/ OnTransferPause \/ OnTransferResume \/ OnTransferCancel
    \/ Completes \/ Fails

UserStep ==
    \/ InitiateSend \/ OnOfferAccepted \/ OnOfferRejected
    \/ ClickPause \/ ClickResume \/ ClickCancel \/ ClearHistory
    \/ \E k \in Keys : \E v \in Offered[k] : ChangeSetting(k, v)

ProcessStep == Shutdown \/ Crash \/ Initialize

Next == SessionStep \/ OnNewIncomingConnection \/ UserStep \/ ProcessStep

Spec == Init /\ [][Next]_vars

-----------------------------------------------------------------------------
(* Properties.                                                             *)

Session == [dir : {"send", "recv"}, status : Statuses,
            linked : BOOLEAN, offered : BOOLEAN]
Page == [session : Nat, pause : BOOLEAN, cancel : BOOLEAN]

\* Types, and who can be active: the newest session or none.
TypeOK ==
    /\ running \in BOOLEAN
    /\ sessions \in Seq(Session) /\ Len(sessions) <= MaxSessions
    /\ active \in {None, Len(sessions)}
    /\ dialogs \in Seq(Ids)
    /\ offerFor \in 0..Len(sessions)
    /\ page \in Page
    /\ rows \in [Ids -> RowTexts]
    /\ DOMAIN settings = Keys /\ DOMAIN stored \subseteq Keys

\* The texts a history row may show for a session of that status.
RowsFor(st) ==
    CASE st = "Completed" -> {"Completed"}
      [] st = "Failed" -> {"Failed"}
      [] st = "Cancelled" -> {"Cancelled", "Failed", "Rejected"}
      [] st = "Paused" -> {"Paused"}
      [] OTHER -> {"Active"}

\* The history tells the truth about every session, destroyed ones and those
\* of earlier runs included: the writers of a row (TransferManager.cpp:203,
\* 216, 225, 233) name the active session, not the one a signal came from.
RowMatchesSession ==
    \A s \in Ids :
        rows[s] # "none" => /\ s <= Len(sessions)
                            /\ rows[s] \in RowsFor(sessions[s].status)

\* m_currentOfferSession is the session of the innermost dialog or null, so
\* the answer to an outer dialog can reach nothing (MainWindow.cpp:188, 229).
OfferIsInnermost ==
    offerFor # None => dialogs # <<>> /\ offerFor = Innermost

\* While a dialog is open auto-accept stays off, the offer of the innermost
\* dialog waits for its approval if its session still lives, and no other
\* living session has an offer.
DialogInv ==
    /\ dialogs # <<>> => ~settings["auto_accept"]
    /\ (offerFor # None /\ active # None) =>
          /\ S.offered => offerFor = active
          /\ offerFor = active => S.status = "WaitingApproval"

\* A stopped process has no session and no window.
StoppedInv ==
    ~running => active = None /\ dialogs = <<>> /\ offerFor = None

\* The inductive invariant: history, dialogs and settings are as one expects
\* whatever connects, is clicked, is destroyed or dies (TransferManager.cpp).
ManagerInv ==
    /\ TypeOK
    /\ RowMatchesSession
    /\ OfferIsInnermost
    /\ DialogInv
    /\ StoppedInv
    /\ settings = Restored(stored)

\* A receiving session starts to receive only by its own offer's answer: the
\* innermost dialog is its own and is being accepted, or auto-accept is on;
\* or because its peer or its user ends a pause.
AcceptedByItsOwnDialog ==
    [][\A s \in 1..Len(sessions) :
          /\ sessions[s].dir = "recv"
          /\ sessions[s].status # "Transferring"
          /\ sessions'[s].status = "Transferring"
          => \/ sessions[s].status = "Paused"
             \/ sessions[s].status = "Offering" /\ settings["auto_accept"]
             \/ /\ sessions[s].status = "WaitingApproval"
                /\ dialogs # <<>> /\ Innermost = s]_vars

\* A send of the user's own closes the history of the transfer it replaces.
SendClosesThePrevious ==
    [][(active # None /\ Len(sessions') > Len(sessions)
          /\ sessions'[Len(sessions')].dir = "send")
       => rows'[active] \notin {"Active", "Paused"}]_vars

\* What the user has set is in force again after any stop, planned or not.
SettingsSurvive ==
    [][(~running /\ running') => settings' = settings]_vars

\* A transfer that is under way, paused or not, keeps the manager: a new
\* incoming connection does not destroy it (TransferManager.cpp:151).
RunningSessionKept ==
    [][(/\ active # None /\ S.status \in {"Transferring", "Paused"}
        /\ Len(sessions') > Len(sessions)
        /\ sessions'[Len(sessions')].dir = "recv")
       => active' = active]_vars
=============================================================================
