----------------------- MODULE TransferManagerProofs -----------------------
(***************************************************************************)
(* Proofs about TransferManager, for every number of sessions and every    *)
(* set of settings.                                                        *)
(***************************************************************************)
EXTENDS TransferManager, TLAPS

USE ManagerAssumption

-----------------------------------------------------------------------------
(* Sequences of sessions.                                                  *)

LEMMA AppendFacts ==
    ASSUME NEW T, NEW q \in Seq(T), NEW m \in T
    PROVE  /\ Append(q, m) \in Seq(T)
           /\ Len(Append(q, m)) = Len(q) + 1
           /\ \A p \in 1..Len(q) : Append(q, m)[p] = q[p]
           /\ Append(q, m)[Len(q) + 1] = m
    OBVIOUS

LEMMA EmptyFacts ==
    ASSUME NEW T PROVE <<>> \in Seq(T)
    OBVIOUS

LEMMA ReplaceFacts ==
    ASSUME NEW T, NEW q \in Seq(T), NEW i \in 1..Len(q), NEW m \in T
    PROVE  /\ [q EXCEPT ![i] = m] \in Seq(T)
           /\ Len([q EXCEPT ![i] = m]) = Len(q)
           /\ \A p \in 1..Len(q) : [q EXCEPT ![i] = m][p] = IF p = i THEN m ELSE q[p]
    OBVIOUS

LEMMA FrontFacts ==
    ASSUME NEW T, NEW q \in Seq(T), q # <<>>
    PROVE  SubSeq(q, 1, Len(q) - 1) \in Seq(T)
    OBVIOUS

-----------------------------------------------------------------------------
(* The active session.                                                     *)

LEMMA ActiveFacts ==
    ASSUME TypeOK, active # None
    PROVE  /\ active = Len(sessions) /\ Len(sessions) \in Nat
           /\ active \in 1..Len(sessions) /\ active \in Ids
           /\ S \in Session /\ S = sessions[active]
           /\ S.dir \in {"send", "recv"} /\ S.status \in Statuses
           /\ S.linked \in BOOLEAN /\ S.offered \in BOOLEAN
<1>1. Len(sessions) \in Nat /\ active = Len(sessions)
  BY DEF TypeOK
<1>2. active \in 1..Len(sessions) /\ active \in Ids
  BY <1>1 DEF TypeOK, Ids, None
<1>3. S \in Session
  BY <1>2 DEF TypeOK, S
<1>4. QED BY <1>1, <1>2, <1>3 DEF S, Session

\* Nobody answers for the active session while packets come in for it, while
\* the user has the main window, or in the statuses of a loss.
LEMMA NoOffer ==
    ASSUME ManagerInv, active # None,
           \/ PacketComes
           \/ AtUser
           \/ S.status # "WaitingApproval"
    PROVE  offerFor # active
<1>1. active \in Nat \ {0}
  BY ActiveFacts DEF ManagerInv
<1>2. SUFFICES ASSUME offerFor = active PROVE FALSE
  OBVIOUS
<1>3. offerFor # None
  BY <1>1, <1>2 DEF None
<1>4. dialogs # <<>> /\ offerFor = dialogs[Len(dialogs)] /\ S.status = "WaitingApproval"
  BY <1>2, <1>3 DEF ManagerInv, OfferIsInnermost, DialogInv, Innermost
<1>5. Len(dialogs) \in 1..Len(dialogs)
  BY <1>4 DEF ManagerInv, TypeOK
<1>6. QED BY <1>2, <1>4, <1>5 DEF PacketComes, AtUser

LEMMA ShownFacts ==
    ASSUME NEW p \in Page, NEW st PROVE Shown(p, st) \in Page
BY DEF Shown, Page

LEMMA PageOfFacts ==
    ASSUME NEW s \in Nat PROVE PageOf(s) \in Page
BY DEF PageOf, Page

LEMMA UpdatedFacts ==
    ASSUME NEW r \in [Ids -> RowTexts], NEW s \in Ids, NEW text \in RowTexts
    PROVE  /\ Updated(r, s, text) \in [Ids -> RowTexts]
           /\ Updated(r, s, text)[s] \in {"none", text}
           /\ r[s] # "none" => Updated(r, s, text)[s] = text
           /\ \A t \in Ids \ {s} : Updated(r, s, text)[t] = r[t]
BY DEF Updated

LEMMA InsertedFacts ==
    ASSUME NEW r \in [Ids -> RowTexts], NEW s \in Ids
    PROVE  /\ Inserted(r, s) \in [Ids -> RowTexts]
           /\ Inserted(r, s)[s] = "Active"
           /\ \A t \in Ids \ {s} : Inserted(r, s)[t] = r[t]
BY DEF Inserted, RowTexts

LEMMA TextFacts ==
    ASSUME NEW st \in Statuses
    PROVE  /\ StatusText(st) \in RowTexts /\ StatusText(st) # "none"
           /\ StatusText(st) \in RowsFor(st)
           /\ "none" \notin RowsFor(st)
BY DEF Statuses, StatusText, RowTexts, RowsFor

\* RowMatchesSession, of given sessions and rows.
Matches(q, r) ==
    \A s \in Ids : r[s] # "none" => /\ s <= Len(q)
                                    /\ r[s] \in RowsFor(q[s].status)

LEMMA MatchesIs == RowMatchesSession <=> Matches(sessions, rows)
BY DEF RowMatchesSession, Matches

\* Replacing the active session.
LEMMA ReplaceActive ==
    ASSUME TypeOK, active # None, NEW e \in Session
    PROVE  LET q == [sessions EXCEPT ![active] = e]
           IN  /\ q \in Seq(Session) /\ Len(q) = Len(sessions) /\ q[active] = e
               /\ \A s \in 1..Len(sessions) : s # active => q[s] = sessions[s]
BY ActiveFacts, ReplaceFacts DEF TypeOK

\* Rewriting the active session and its row.
LEMMA RewriteMatches ==
    ASSUME TypeOK, RowMatchesSession, active # None,
           NEW q, Len(q) = Len(sessions),
           \A s \in 1..Len(sessions) : s # active => q[s] = sessions[s],
           NEW r, \A t \in Ids \ {active} : r[t] = rows[t],
           r[active] \in {"none"} \cup RowsFor(q[active].status)
    PROVE  Matches(q, r)
<1>1. active \in 1..Len(sessions) /\ Len(sessions) \in Nat
  BY ActiveFacts DEF TypeOK
<1>2. ASSUME NEW s \in Ids, r[s] # "none"
      PROVE  s <= Len(q) /\ r[s] \in RowsFor(q[s].status)
  <2>1. CASE s = active
    BY <1>1, <1>2, <2>1
  <2>2. CASE s # active
    <3>1. rows[s] # "none" /\ s \in 1..Len(sessions)
      BY <1>1, <1>2, <2>2 DEF RowMatchesSession, Ids
    <3>2. QED BY <1>2, <2>2, <3>1 DEF RowMatchesSession
  <2>3. QED BY <2>1, <2>2
<1>3. QED BY <1>2 DEF Matches

-----------------------------------------------------------------------------
(* A step that only changes the active session's status.                   *)

LEMMA StatusStep ==
    ASSUME ManagerInv, active # None, running, offerFor # active,
           NEW st \in Statuses, NEW l \in BOOLEAN, NEW text \in RowTexts,
           text \in RowsFor(st), Becomes(st, l, text), OfSession
    PROVE  ManagerInv'
<1> DEFINE e == [S EXCEPT !.status = st, !.linked = l]
<1>1. TypeOK /\ RowMatchesSession
  BY DEF ManagerInv
<1>2. /\ active \in Ids /\ active \in 1..Len(sessions)
      /\ S \in Session /\ S = sessions[active]
  BY <1>1, ActiveFacts
<1>3. e \in Session /\ e.status = st /\ e.offered = S.offered
  BY <1>2 DEF Session
<1>4. sessions' = [sessions EXCEPT ![active] = e]
  <2>1. sessions' = [sessions EXCEPT ![active].status = st, ![active].linked = l]
    BY DEF Becomes
  <2>2. sessions' = [sessions EXCEPT ![active] =
                        [sessions[active] EXCEPT !.status = st, !.linked = l]]
    BY <2>1
  <2>3. QED BY <2>2 DEF S
<1>5. /\ rows' \in [Ids -> RowTexts]
      /\ \A t \in Ids \ {active} : rows'[t] = rows[t]
      /\ rows'[active] \in {"none"} \cup RowsFor(e.status)
  <2>1. rows \in [Ids -> RowTexts] /\ active \in Ids
    BY <1>1, <1>2 DEF TypeOK
  <2>2. rows' = Updated(rows, active, text)
    BY DEF Becomes
  <2>3. text \in RowsFor(e.status)
    BY <1>3
  <2> HIDE DEF e
  <2>4. QED BY <2>1, <2>2, <2>3, UpdatedFacts
<1> HIDE DEF e
<1>6. /\ sessions' \in Seq(Session) /\ Len(sessions') = Len(sessions)
      /\ sessions'[active] = e
      /\ \A s \in 1..Len(sessions) : s # active => sessions'[s] = sessions[s]
  BY <1>1, <1>3, <1>4, ReplaceActive
<1>7. RowMatchesSession'
  BY <1>1, <1>5, <1>6, RewriteMatches DEF RowMatchesSession, Matches
<1>8. page' \in Page
  BY <1>1, ShownFacts DEF Becomes, TypeOK
<1>9. TypeOK'
  BY <1>1, <1>5, <1>6, <1>8 DEF TypeOK, OfSession
<1>10. DialogInv'
  BY <1>2, <1>3, <1>6 DEF ManagerInv, DialogInv, OfSession, S
<1>11. QED
  BY <1>6, <1>9, <1>10, <1>7
  DEF ManagerInv, OfferIsInnermost, Innermost, StoppedInv, OfSession

LEMMA AdvancesStep ==
    ASSUME ManagerInv, active # None, running, offerFor # active,
           NEW st \in Statuses, Advances(st), OfSession
    PROVE  ManagerInv'
<1>1. S.linked \in BOOLEAN
  BY ActiveFacts DEF ManagerInv
<1>2. QED BY <1>1, TextFacts, StatusStep DEF Advances

LEMMA StopsStep ==
    ASSUME ManagerInv, active # None, running, offerFor # active,
           NEW st \in Statuses, NEW text \in RowTexts, text \in RowsFor(st),
           StopsAs(st, text), OfSession
    PROVE  ManagerInv'
BY StatusStep DEF StopsAs

LEMMA SocketConnectedStep ==
    ASSUME ManagerInv, SocketConnected PROVE ManagerInv'
<1>1. Active /\ S.status = "Connecting" /\ Advances("Handshaking") /\ OfSession
  BY DEF SocketConnected
<1>2. "Handshaking" \in Statuses
  BY DEF Statuses
<1>3. QED BY <1>1, <1>2, NoOffer, AdvancesStep DEF Active

LEMMA LosesConnectionStep ==
    ASSUME ManagerInv, LosesConnection PROVE ManagerInv'
<1>1. Active /\ active # None /\ running /\ OfSession
  BY DEF LosesConnection, Active
<1>2. CASE S.status \in {"Connecting", "Transferring"} /\ StopsAs("Failed", "Failed")
  <2>1. "Failed" \in Statuses /\ "Failed" \in RowTexts /\ "Failed" \in RowsFor("Failed")
    BY DEF Statuses, RowTexts, RowsFor
  <2>2. QED BY <1>1, <1>2, <2>1, NoOffer, StopsStep
<1>3. CASE /\ sessions' = [sessions EXCEPT ![active].linked = FALSE]
           /\ UNCHANGED <<rows, page>>
  <2> DEFINE e == [S EXCEPT !.linked = FALSE]
  <2>1. TypeOK /\ RowMatchesSession /\ active \in 1..Len(sessions) /\ active \in Ids
    BY <1>1, ActiveFacts DEF ManagerInv
  <2>2. e \in Session /\ e.status = S.status /\ e.offered = S.offered
    BY <1>1, <2>1, ActiveFacts DEF Session
  <2>3. sessions' = [sessions EXCEPT ![active] = e]
    BY <1>3 DEF S
  <2>4. /\ rows' \in [Ids -> RowTexts]
        /\ \A t \in Ids \ {active} : rows'[t] = rows[t]
        /\ rows'[active] \in {"none"} \cup RowsFor(e.status)
    BY <1>3, <2>1, <2>2 DEF TypeOK, RowMatchesSession, S
  <2> HIDE DEF e
  <2>5. /\ sessions' \in Seq(Session) /\ Len(sessions') = Len(sessions)
        /\ sessions'[active] = e
        /\ \A s \in 1..Len(sessions) : s # active => sessions'[s] = sessions[s]
    BY <1>1, <2>1, <2>2, <2>3, ReplaceActive
  <2>6. RowMatchesSession'
    BY <1>1, <2>1, <2>4, <2>5, RewriteMatches DEF RowMatchesSession, Matches
  <2>7. TypeOK'
    BY <1>1, <1>3, <2>1, <2>4, <2>5 DEF TypeOK, OfSession
  <2>8. DialogInv'
    BY <1>1, <2>2, <2>5 DEF ManagerInv, DialogInv, OfSession, S
  <2>9. QED
    BY <1>1, <2>5, <2>7, <2>8, <2>6
    DEF ManagerInv, OfferIsInnermost, Innermost, StoppedInv, OfSession
<1>4. QED BY <1>2, <1>3 DEF LosesConnection

\* A packet handler of the active session that only advances its status.
LEMMA HandlerStep ==
    ASSUME ManagerInv, PacketComes, NEW st \in Statuses, Advances(st), OfSession
    PROVE  ManagerInv'
BY NoOffer, AdvancesStep DEF PacketComes, Active

LEMMA OnHandshakeReqStep ==
    ASSUME ManagerInv, OnHandshakeReq PROVE ManagerInv'
BY HandlerStep DEF OnHandshakeReq, Statuses

LEMMA OnHandshakeRespStep ==
    ASSUME ManagerInv, OnHandshakeResp PROVE ManagerInv'
BY HandlerStep DEF OnHandshakeResp, Statuses

LEMMA OnTransferAcceptStep ==
    ASSUME ManagerInv, OnTransferAccept PROVE ManagerInv'
BY HandlerStep DEF OnTransferAccept, Statuses

LEMMA OnTransferPauseStep ==
    ASSUME ManagerInv, OnTransferPause PROVE ManagerInv'
BY HandlerStep DEF OnTransferPause, Statuses

LEMMA OnTransferResumeStep ==
    ASSUME ManagerInv, OnTransferResume PROVE ManagerInv'
BY HandlerStep DEF OnTransferResume, Statuses

LEMMA CompletesStep ==
    ASSUME ManagerInv, Completes PROVE ManagerInv'
BY HandlerStep DEF Completes, Statuses

LEMMA OnTransferRejectStep ==
    ASSUME ManagerInv, OnTransferReject PROVE ManagerInv'
<1>1. "Cancelled" \in Statuses /\ "Failed" \in RowTexts /\ "Failed" \in RowsFor("Cancelled")
  BY DEF Statuses, RowTexts, RowsFor
<1>2. QED BY <1>1, NoOffer, StopsStep DEF OnTransferReject, PacketComes, Active

LEMMA CancelTexts ==
    "Cancelled" \in Statuses /\ "Cancelled" \in RowTexts /\ "Cancelled" \in RowsFor("Cancelled")
BY DEF Statuses, RowTexts, RowsFor

LEMMA OnTransferCancelStep ==
    ASSUME ManagerInv, OnTransferCancel PROVE ManagerInv'
BY CancelTexts, NoOffer, StopsStep DEF OnTransferCancel, PacketComes, Active

LEMMA FailsStep ==
    ASSUME ManagerInv, Fails PROVE ManagerInv'
<1>1. "Failed" \in Statuses /\ "Failed" \in RowTexts /\ "Failed" \in RowsFor("Failed")
  BY DEF Statuses, RowTexts, RowsFor
<1>2. (S.dir = "send") \in BOOLEAN
  OBVIOUS
<1>3. QED BY <1>1, <1>2, NoOffer, StatusStep DEF Fails, PacketComes, Active

LEMMA ClickPauseStep ==
    ASSUME ManagerInv, ClickPause PROVE ManagerInv'
BY NoOffer, AdvancesStep DEF ClickPause, AtUser, Statuses

LEMMA ClickResumeStep ==
    ASSUME ManagerInv, ClickResume PROVE ManagerInv'
BY NoOffer, AdvancesStep DEF ClickResume, AtUser, Statuses

LEMMA ClickCancelStep ==
    ASSUME ManagerInv, ClickCancel PROVE ManagerInv'
BY CancelTexts, NoOffer, StopsStep DEF ClickCancel, AtUser

-----------------------------------------------------------------------------
(* Offers and dialogs.                                                     *)

\* What a step that replaces the active session by e and its row by a text
\* that fits leaves to be shown.
LEMMA OfferRewrites ==
    ASSUME ManagerInv, active # None, NEW e \in Session,
           sessions' = [sessions EXCEPT ![active] = e],
           rows' \in [Ids -> RowTexts],
           \A t \in Ids \ {active} : rows'[t] = rows[t],
           rows'[active] \in {"none"} \cup RowsFor(e.status)
    PROVE  /\ sessions' \in Seq(Session) /\ Len(sessions') = Len(sessions)
           /\ sessions'[active] = e
           /\ RowMatchesSession'
<1>1. TypeOK /\ RowMatchesSession
  BY DEF ManagerInv
<1>2. /\ sessions' \in Seq(Session) /\ Len(sessions') = Len(sessions)
      /\ sessions'[active] = e
      /\ \A s \in 1..Len(sessions) : s # active => sessions'[s] = sessions[s]
  BY <1>1, ReplaceActive
<1>3. RowMatchesSession'
  BY <1>1, <1>2, RewriteMatches DEF RowMatchesSession, Matches
<1>4. QED BY <1>2, <1>3

LEMMA OnTransferOfferStep ==
    ASSUME ManagerInv, OnTransferOffer PROVE ManagerInv'
<1>1. /\ TypeOK /\ PacketComes /\ running /\ active # None /\ offerFor # active
      /\ active \in Ids /\ active \in 1..Len(sessions) /\ Len(sessions) \in Nat
      /\ rows' = Inserted(rows, active)
      /\ UNCHANGED <<running, active, settings, stored>>
  BY ActiveFacts, NoOffer DEF OnTransferOffer, PacketComes, Active, ManagerInv
<1>2. /\ rows' \in [Ids -> RowTexts]
      /\ \A t \in Ids \ {active} : rows'[t] = rows[t]
      /\ rows'[active] = "Active"
  BY <1>1, InsertedFacts DEF TypeOK
<1>3. CASE /\ settings["auto_accept"]
           /\ sessions' = [sessions EXCEPT ![active].offered = TRUE,
                                           ![active].status = "Transferring"]
           /\ page' = Shown(Shown(page, "WaitingApproval"), "Transferring")
           /\ UNCHANGED <<dialogs, offerFor>>
  <2> DEFINE e == [S EXCEPT !.offered = TRUE, !.status = "Transferring"]
  <2>1. sessions' = [sessions EXCEPT ![active] = e]
    BY <1>3 DEF S
  <2>2. e \in Session /\ e.status = "Transferring" /\ "Active" \in RowsFor(e.status)
    BY <1>1, ActiveFacts DEF Session, Statuses, RowsFor
  <2> HIDE DEF e
  <2>3. /\ sessions' \in Seq(Session) /\ Len(sessions') = Len(sessions)
        /\ RowMatchesSession'
    BY <1>1, <1>2, <2>1, <2>2, OfferRewrites
  <2>4. page' \in Page
    BY <1>1, <1>3, ShownFacts DEF TypeOK
  <2>5. TypeOK'
    BY <1>1, <1>2, <1>3, <2>3, <2>4 DEF TypeOK
  <2>6. dialogs = <<>> /\ offerFor = None
    BY <1>3 DEF ManagerInv, DialogInv, OfferIsInnermost
  <2>7. DialogInv' /\ OfferIsInnermost'
    BY <1>1, <1>3, <2>6 DEF DialogInv, OfferIsInnermost
  <2>8. QED BY <1>1, <2>3, <2>5, <2>7 DEF ManagerInv, StoppedInv
<1>4. CASE /\ ~settings["auto_accept"]
           /\ sessions' = [sessions EXCEPT ![active].offered = TRUE,
                                           ![active].status = "WaitingApproval"]
           /\ page' = PageOf(active)
           /\ dialogs' = Append(dialogs, active)
           /\ offerFor' = active
  <2> DEFINE e == [S EXCEPT !.offered = TRUE, !.status = "WaitingApproval"]
  <2>1. sessions' = [sessions EXCEPT ![active] = e]
    BY <1>4 DEF S
  <2>2. /\ e \in Session /\ e.status = "WaitingApproval"
        /\ "Active" \in RowsFor(e.status)
    BY <1>1, ActiveFacts DEF Session, Statuses, RowsFor
  <2> HIDE DEF e
  <2>3. /\ sessions' \in Seq(Session) /\ Len(sessions') = Len(sessions)
        /\ sessions'[active] = e
        /\ RowMatchesSession'
    BY <1>1, <1>2, <2>1, <2>2, OfferRewrites
  <2>4. page' \in Page
    BY <1>1, <1>4, PageOfFacts DEF TypeOK
  <2>5. /\ dialogs' \in Seq(Ids) /\ dialogs' # <<>>
        /\ dialogs'[Len(dialogs')] = active
    BY <1>1, <1>4, AppendFacts DEF TypeOK
  <2>6. TypeOK'
    BY <1>1, <1>2, <1>4, <2>3, <2>4, <2>5 DEF TypeOK
  <2>7. DialogInv' /\ OfferIsInnermost'
    BY <1>1, <1>4, <2>2, <2>3, <2>5 DEF DialogInv, OfferIsInnermost, Innermost, S
  <2>8. QED BY <1>1, <2>3, <2>6, <2>7 DEF ManagerInv, StoppedInv
<1>5. QED BY <1>3, <1>4 DEF OnTransferOffer

LEMMA DialogClosesFacts ==
    ASSUME ManagerInv, DialogCloses
    PROVE  /\ dialogs' \in Seq(Ids)
           /\ ~settings["auto_accept"]
BY FrontFacts DEF ManagerInv, TypeOK, DialogCloses, DialogInv

\* Nothing but the dialog and the page: no session is touched.
LEMMA DialogOnlyStep ==
    ASSUME ManagerInv, DialogCloses, offerFor' = None,
           UNCHANGED <<sessions, rows>>, page' \in Page
    PROVE  ManagerInv'
<1>1. TypeOK'
  BY DialogClosesFacts DEF ManagerInv, TypeOK, DialogCloses, None
<1>2. DialogInv' /\ OfferIsInnermost'
  BY DialogClosesFacts DEF DialogCloses, DialogInv, OfferIsInnermost
<1>3. RowMatchesSession'
  BY DEF ManagerInv, RowMatchesSession
<1>4. QED BY <1>1, <1>2, <1>3 DEF ManagerInv, StoppedInv, DialogCloses

\* The answer reaches the active session, whose status and row become st, text.
LEMMA DialogAnswerStep ==
    ASSUME ManagerInv, DialogCloses, offerFor' = None, active # None,
           NEW e \in Session, sessions' = [sessions EXCEPT ![active] = e],
           NEW text \in RowTexts, text \in RowsFor(e.status),
           rows' = Updated(rows, active, text), page' \in Page
    PROVE  ManagerInv'
<1>1. TypeOK /\ active \in Ids
  BY ActiveFacts DEF ManagerInv
<1>2. /\ rows' \in [Ids -> RowTexts]
      /\ \A t \in Ids \ {active} : rows'[t] = rows[t]
      /\ rows'[active] \in {"none"} \cup RowsFor(e.status)
  BY <1>1, UpdatedFacts DEF TypeOK
<1>3. /\ sessions' \in Seq(Session) /\ Len(sessions') = Len(sessions)
      /\ RowMatchesSession'
  BY <1>1, <1>2, OfferRewrites
<1>4. TypeOK'
  <2>1. Len(sessions) \in Nat /\ offerFor' \in 0..Len(sessions)
    BY <1>1 DEF TypeOK, None
  <2>2. QED BY <1>1, <1>2, <1>3, <2>1, DialogClosesFacts DEF TypeOK, DialogCloses
<1>5. DialogInv' /\ OfferIsInnermost'
  BY DialogClosesFacts DEF DialogCloses, DialogInv, OfferIsInnermost
<1>6. QED BY <1>3, <1>4, <1>5 DEF ManagerInv, StoppedInv, DialogCloses

LEMMA SamePointerFacts ==
    ASSUME ManagerInv, offerFor # None, TRUE \in SamePointer
    PROVE  active # None
<1>1. active \in Nat /\ offerFor \in Nat
  BY DEF ManagerInv, TypeOK, None
<1>2. offerFor = active \/ offerFor + 1 < active
  BY DEF SamePointer
<1>3. QED BY <1>1, <1>2 DEF None

LEMMA OnOfferAcceptedStep ==
    ASSUME ManagerInv, OnOfferAccepted PROVE ManagerInv'
<1>1. /\ DialogCloses /\ offerFor' = None
      /\ page \in Page /\ offerFor \in Nat /\ active \in Nat
  BY DEF OnOfferAccepted, ManagerInv, TypeOK, None
<1>2. CASE offerFor = None /\ UNCHANGED <<sessions, rows, page>>
  BY <1>1, <1>2, DialogOnlyStep
<1>3. ASSUME offerFor # None,
             NEW same \in SamePointer,
             \/ /\ same /\ S.offered
                /\ sessions' = [sessions EXCEPT ![active].status = "Transferring"]
                /\ rows' = Updated(rows, active, "Active")
                /\ page' = PageOf(active)
             \/ /\ ~(same /\ S.offered)
                /\ UNCHANGED <<sessions, rows>>
                /\ page' = PageOf(IF same THEN active ELSE offerFor)
      PROVE  ManagerInv'
  <2>1. page' \in Page
    BY <1>1, <1>3, PageOfFacts
  <2>2. CASE UNCHANGED <<sessions, rows>>
    BY <1>1, <2>1, <2>2, DialogOnlyStep
  <2>3. CASE /\ same
             /\ sessions' = [sessions EXCEPT ![active].status = "Transferring"]
             /\ rows' = Updated(rows, active, "Active")
    <3> DEFINE e == [S EXCEPT !.status = "Transferring"]
    <3>1. active # None
      BY <1>3, <2>3, SamePointerFacts
    <3>2. sessions' = [sessions EXCEPT ![active] = e]
      BY <2>3 DEF S
    <3>3. e \in Session /\ "Active" \in RowTexts /\ "Active" \in RowsFor(e.status)
      BY <3>1, ActiveFacts DEF ManagerInv, Session, Statuses, RowTexts, RowsFor
    <3> HIDE DEF e
    <3>4. QED BY <1>1, <2>1, <2>3, <3>1, <3>2, <3>3, DialogAnswerStep
  <2>4. QED BY <1>3, <2>2, <2>3
<1>4. QED BY <1>2, <1>3 DEF OnOfferAccepted

LEMMA OnOfferRejectedStep ==
    ASSUME ManagerInv, OnOfferRejected PROVE ManagerInv'
<1>1. DialogCloses /\ offerFor' = None /\ page \in Page
  BY DEF OnOfferRejected, ManagerInv, TypeOK
<1>2. CASE UNCHANGED <<sessions, rows, page>>
  BY <1>1, <1>2, DialogOnlyStep
<1>3. ASSUME offerFor # None, NEW same \in SamePointer, same,
             sessions' = [sessions EXCEPT ![active].status = "Cancelled",
                                          ![active].linked = FALSE],
             rows' = Updated(rows, active, "Rejected"),
             page' = Shown(page, "Cancelled")
      PROVE  ManagerInv'
  <2> DEFINE e == [S EXCEPT !.status = "Cancelled", !.linked = FALSE]
  <2>1. active # None
    BY <1>3, SamePointerFacts
  <2>2. sessions' = [sessions EXCEPT ![active] = e]
    BY <1>3 DEF S
  <2>3. e \in Session /\ "Rejected" \in RowTexts /\ "Rejected" \in RowsFor(e.status)
    BY <2>1, ActiveFacts DEF ManagerInv, Session, Statuses, RowTexts, RowsFor
  <2>4. page' \in Page
    BY <1>1, <1>3, ShownFacts
  <2> HIDE DEF e
  <2>5. QED BY <1>1, <1>3, <2>1, <2>2, <2>3, <2>4, DialogAnswerStep
<1>4. QED BY <1>2, <1>3 DEF OnOfferRejected

-----------------------------------------------------------------------------
(* New sessions, settings and the process.                                 *)

\* What cancel() leaves of the sessions and the rows.
LEMMA CancelFacts ==
    ASSUME ManagerInv
    PROVE  /\ SessionsAfterCancel \in Seq(Session)
           /\ Len(SessionsAfterCancel) = Len(sessions)
           /\ RowsAfterCancel \in [Ids -> RowTexts]
           /\ Matches(SessionsAfterCancel, RowsAfterCancel)
           /\ active # None => RowsAfterCancel[active] \notin {"Active", "Paused"}
<1>1. TypeOK /\ RowMatchesSession
  BY DEF ManagerInv
<1>2. CASE active = None
  BY <1>1, <1>2, MatchesIs DEF SessionsAfterCancel, RowsAfterCancel, TypeOK
<1>3. CASE active # None
  <2> DEFINE e == [S EXCEPT !.status = "Cancelled", !.linked = FALSE]
             q == SessionsAfterCancel
             r == RowsAfterCancel
  <2>1. active \in Ids /\ active \in 1..Len(sessions) /\ S = sessions[active]
    BY <1>1, <1>3, ActiveFacts
  <2>2. e \in Session /\ e.status = "Cancelled"
    BY <1>1, <1>3, ActiveFacts DEF Session, Statuses
  <2>3. q = [sessions EXCEPT ![active] = e]
    BY <1>3 DEF SessionsAfterCancel, S
  <2> HIDE DEF e
  <2>4. /\ q \in Seq(Session) /\ Len(q) = Len(sessions) /\ q[active] = e
        /\ \A s \in 1..Len(sessions) : s # active => q[s] = sessions[s]
    BY <1>1, <1>3, <2>2, <2>3, ReplaceActive
  <2>5. CASE S.status = "Cancelled"
    <3>1. r = rows /\ rows[active] \in {"none"} \cup RowsFor("Cancelled")
      BY <1>1, <2>1, <2>5 DEF RowsAfterCancel, RowMatchesSession
    <3>2. rows[active] \notin {"Active", "Paused"}
      BY <3>1 DEF RowsFor
    <3>3. QED
      BY <1>1, <1>3, <2>2, <2>4, <3>1, <3>2, RewriteMatches DEF TypeOK
  <2>6. CASE S.status # "Cancelled"
    <3>1. r = Updated(rows, active, "Cancelled")
      BY <1>3, <2>6 DEF RowsAfterCancel
    <3>2. /\ r \in [Ids -> RowTexts] /\ r[active] \in {"none", "Cancelled"}
          /\ \A t \in Ids \ {active} : r[t] = rows[t]
      <4>1. rows \in [Ids -> RowTexts] /\ "Cancelled" \in RowTexts
        BY <1>1, CancelTexts DEF TypeOK
      <4>2. LET u == Updated(rows, active, "Cancelled")
            IN  /\ u \in [Ids -> RowTexts] /\ u[active] \in {"none", "Cancelled"}
                /\ \A t \in Ids \ {active} : u[t] = rows[t]
        BY <2>1, <4>1, UpdatedFacts
      <4>3. QED BY <3>1, <4>2
    <3>3. r[active] \in {"none"} \cup RowsFor(e.status)
      BY <2>2, <3>2, CancelTexts
    <3>4. Matches(q, r)
      BY <1>1, <1>3, <2>4, <3>2, <3>3, RewriteMatches
    <3>5. QED BY <2>4, <3>2, <3>4
  <2>7. QED BY <2>5, <2>6
<1>4. QED BY <1>2, <1>3

\* A session added at the end; the sessions q before it, and their rows r.
LEMMA NewSessionMatches ==
    ASSUME TypeOK, Len(sessions) < MaxSessions,
           NEW q \in Seq(Session), Len(q) = Len(sessions),
           NEW r \in [Ids -> RowTexts], Matches(q, r),
           NEW dir \in {"send", "recv"}
    PROVE  LET a == Append(q, NewSession(dir))
           IN  /\ a \in Seq(Session) /\ Len(a) = NextId /\ NextId \in Ids
               /\ a[NextId] = NewSession(dir)
               /\ Matches(a, r) /\ Matches(a, Inserted(r, NextId))
<1> DEFINE a == Append(q, NewSession(dir))
<1>1. Len(sessions) \in Nat /\ NextId = Len(q) + 1 /\ NextId \in Ids
  BY DEF TypeOK, NextId, Ids
<1>2. NewSession(dir) \in Session /\ "Active" \in RowsFor(NewSession(dir).status)
  BY DEF NewSession, Session, Statuses, RowsFor
<1>3. /\ a \in Seq(Session) /\ Len(a) = Len(q) + 1
      /\ a[Len(q) + 1] = NewSession(dir)
      /\ \A s \in 1..Len(q) : a[s] = q[s]
  BY <1>2, AppendFacts
<1>4. Matches(a, r)
  <2>1. SUFFICES ASSUME NEW s \in Ids, r[s] # "none"
                 PROVE  s <= Len(a) /\ r[s] \in RowsFor(a[s].status)
    BY DEF Matches
  <2>2. s \in 1..Len(q) /\ r[s] \in RowsFor(q[s].status)
    BY <1>1, <2>1 DEF Matches, Ids
  <2>3. QED BY <1>1, <1>3, <2>2
<1>5. Matches(a, Inserted(r, NextId))
  <2> DEFINE i == Inserted(r, NextId)
  <2>1. i[NextId] = "Active" /\ \A t \in Ids \ {NextId} : i[t] = r[t]
    BY <1>1, InsertedFacts
  <2>2. SUFFICES ASSUME NEW s \in Ids, i[s] # "none"
                 PROVE  s <= Len(a) /\ i[s] \in RowsFor(a[s].status)
    BY DEF Matches
  <2>3. CASE s = NextId
    BY <1>1, <1>2, <1>3, <2>1, <2>3
  <2>4. CASE s # NextId
    BY <1>4, <2>1, <2>2, <2>4 DEF Matches
  <2>5. QED BY <2>3, <2>4
<1>6. QED BY <1>1, <1>3, <1>4, <1>5

LEMMA InitiateSendStep ==
    ASSUME ManagerInv, InitiateSend PROVE ManagerInv'
<1>1. TypeOK /\ dialogs = <<>> /\ offerFor = None /\ running
  BY DEF InitiateSend, AtUser, ManagerInv, OfferIsInnermost
<1>2. /\ sessions' \in Seq(Session) /\ Len(sessions') = NextId
      /\ NextId \in Ids
      /\ Matches(sessions', rows')
  BY <1>1, CancelFacts, NewSessionMatches DEF InitiateSend
<1>3. rows' \in [Ids -> RowTexts]
  BY <1>2, CancelFacts, InsertedFacts DEF InitiateSend
<1>4. page' \in Page
  BY <1>2, PageOfFacts DEF InitiateSend, Ids
<1>5. TypeOK'
  BY <1>1, <1>2, <1>3, <1>4 DEF InitiateSend, TypeOK, Ids, None
<1>6. RowMatchesSession'
  BY <1>2 DEF RowMatchesSession, Matches
<1>7. QED
  BY <1>1, <1>5, <1>6
  DEF InitiateSend, ManagerInv, OfferIsInnermost, DialogInv, StoppedInv

LEMMA OnNewIncomingConnectionStep ==
    ASSUME ManagerInv, OnNewIncomingConnection PROVE ManagerInv'
<1>1. /\ TypeOK /\ running /\ Len(sessions) \in Nat /\ offerFor \in 0..Len(sessions)
      /\ Matches(sessions, rows)
  BY MatchesIs DEF OnNewIncomingConnection, ManagerInv, TypeOK
<1>2. /\ sessions' \in Seq(Session) /\ Len(sessions') = NextId
      /\ NextId \in Ids /\ sessions'[NextId] = NewSession("recv")
      /\ Matches(sessions', rows)
  BY <1>1, NewSessionMatches DEF OnNewIncomingConnection, TypeOK
<1>3. page' \in Page
  BY <1>1, <1>2, PageOfFacts DEF OnNewIncomingConnection, TypeOK, Ids
<1>4. TypeOK'
  BY <1>1, <1>2, <1>3 DEF OnNewIncomingConnection, TypeOK, Ids, NextId
<1>5. RowMatchesSession'
  BY <1>2 DEF OnNewIncomingConnection, RowMatchesSession, Matches
<1>6. ~S'.offered /\ offerFor' # active'
  BY <1>1, <1>2 DEF OnNewIncomingConnection, S, NewSession, NextId
<1>7. DialogInv' /\ OfferIsInnermost'
  BY <1>6 DEF OnNewIncomingConnection, ManagerInv, DialogInv, OfferIsInnermost, Innermost
<1>8. QED
  BY <1>1, <1>4, <1>5, <1>7 DEF OnNewIncomingConnection, ManagerInv, StoppedInv

LEMMA ClearHistoryStep ==
    ASSUME ManagerInv, ClearHistory PROVE ManagerInv'
<1>1. TypeOK'
  BY DEF ClearHistory, ManagerInv, TypeOK, RowTexts
<1>2. RowMatchesSession'
  BY DEF ClearHistory, RowMatchesSession
<1>3. QED
  BY <1>1, <1>2
  DEF ClearHistory, ManagerInv, OfferIsInnermost, Innermost, DialogInv, StoppedInv, S

LEMMA ChangeSettingStep ==
    ASSUME ManagerInv, NEW k \in Keys, NEW v, ChangeSetting(k, v) PROVE ManagerInv'
<1>1. dialogs = <<>> /\ offerFor = None /\ running
  BY DEF ChangeSetting, AtUser, ManagerInv, OfferIsInnermost
<1>2. settings = Restored(stored)
  BY DEF ManagerInv
<1>3. settings' = Restored(stored')
  <2>1. settings' = [j \in Keys |-> IF j = k THEN v ELSE settings[j]]
    BY <1>2 DEF ChangeSetting, Restored
  <2>2. DOMAIN stored' = DOMAIN stored \cup {k} /\ stored'[k] = v
    BY DEF ChangeSetting
  <2>3. \A j \in Keys \ {k} : j \in DOMAIN stored => stored'[j] = stored[j]
    BY DEF ChangeSetting
  <2>4. QED BY <1>2, <2>1, <2>2, <2>3 DEF Restored
<1>4. TypeOK'
  <2>1. DOMAIN settings' = Keys /\ DOMAIN stored' \subseteq Keys
    BY DEF ChangeSetting, ManagerInv, TypeOK
  <2>2. QED BY <2>1 DEF ChangeSetting, ManagerInv, TypeOK
<1>5. RowMatchesSession'
  BY DEF ChangeSetting, ManagerInv, RowMatchesSession
<1>6. QED
  BY <1>1, <1>3, <1>4, <1>5
  DEF ChangeSetting, ManagerInv, OfferIsInnermost, DialogInv, StoppedInv

LEMMA StoppedStep ==
    ASSUME ManagerInv, Stopped, sessions' \in Seq(Session), Len(sessions') = Len(sessions),
           rows' \in [Ids -> RowTexts], Matches(sessions', rows')
    PROVE  ManagerInv'
<1>1. page' \in Page
  BY DEF Stopped, NoPage, Page, None
<1>2. Len(sessions) \in Nat /\ 0 \in 0..Len(sessions')
  BY DEF ManagerInv, TypeOK
<1>3. dialogs' \in Seq(Ids) /\ offerFor' \in 0..Len(sessions') /\ running' \in BOOLEAN
  BY <1>2, EmptyFacts DEF Stopped, None
<1>4. TypeOK'
  BY <1>1, <1>2, <1>3 DEF Stopped, ManagerInv, TypeOK
<1>5. RowMatchesSession'
  BY DEF RowMatchesSession, Matches
<1>6. QED
  BY <1>4, <1>5 DEF Stopped, ManagerInv, OfferIsInnermost, DialogInv, StoppedInv

LEMMA ShutdownStep ==
    ASSUME ManagerInv, Shutdown PROVE ManagerInv'
BY CancelFacts, StoppedStep DEF Shutdown

LEMMA CrashStep ==
    ASSUME ManagerInv, Crash PROVE ManagerInv'
BY MatchesIs, StoppedStep DEF Crash, ManagerInv, TypeOK

LEMMA InitializeStep ==
    ASSUME ManagerInv, Initialize PROVE ManagerInv' /\ settings' = settings
<1>1. active = None /\ dialogs = <<>> /\ offerFor = None /\ settings = Restored(stored)
  BY DEF Initialize, ManagerInv, StoppedInv
<1>2. settings' = settings
  BY <1>1 DEF Initialize
<1>3. TypeOK'
  BY <1>2 DEF Initialize, ManagerInv, TypeOK
<1>4. RowMatchesSession'
  BY DEF Initialize, ManagerInv, RowMatchesSession
<1>5. QED
  BY <1>1, <1>2, <1>3, <1>4
  DEF Initialize, ManagerInv, OfferIsInnermost, DialogInv, StoppedInv

-----------------------------------------------------------------------------
(* The invariant.                                                          *)

LEMMA InitInv == ASSUME Init PROVE ManagerInv
<1>1. sessions \in Seq(Session) /\ Len(sessions) = 0 /\ dialogs \in Seq(Ids)
  BY EmptyFacts DEF Init
<1>2. rows \in [Ids -> RowTexts] /\ \A s \in Ids : rows[s] = "none"
  BY DEF Init, RowTexts
<1>3. page \in Page
  BY DEF Init, NoPage, Page, None
<1>4. DOMAIN settings = Keys /\ DOMAIN stored \subseteq Keys
  BY DEF Init, Restored
<1>5. TypeOK
  BY <1>1, <1>2, <1>3, <1>4 DEF Init, TypeOK, None
<1>6. RowMatchesSession
  BY <1>2 DEF RowMatchesSession
<1>7. QED
  BY <1>5, <1>6 DEF Init, ManagerInv, OfferIsInnermost, DialogInv, StoppedInv

LEMMA StutterInv == ASSUME ManagerInv, UNCHANGED vars PROVE ManagerInv'
<1>1. TypeOK' /\ RowMatchesSession'
  BY DEF vars, ManagerInv, TypeOK, RowMatchesSession
<1>2. OfferIsInnermost' /\ StoppedInv' /\ settings' = Restored(stored')
  BY DEF vars, ManagerInv, OfferIsInnermost, Innermost, StoppedInv
<1>3. DialogInv'
  BY DEF vars, ManagerInv, DialogInv, S
<1>4. QED BY <1>1, <1>2, <1>3 DEF ManagerInv

LEMMA StepInv == ASSUME ManagerInv, [Next]_vars PROVE ManagerInv'
<1>1. CASE UNCHANGED vars
  BY <1>1, StutterInv
<1>2. CASE SessionStep
  BY <1>2, SocketConnectedStep, LosesConnectionStep, OnHandshakeReqStep,
     OnHandshakeRespStep, OnTransferOfferStep, OnTransferAcceptStep,
     OnTransferRejectStep, OnTransferPauseStep, OnTransferResumeStep,
     OnTransferCancelStep, CompletesStep, FailsStep
  DEF SessionStep
<1>3. CASE OnNewIncomingConnection
  BY <1>3, OnNewIncomingConnectionStep
<1>4. CASE UserStep
  BY <1>4, InitiateSendStep, OnOfferAcceptedStep, OnOfferRejectedStep,
     ClickPauseStep, ClickResumeStep, ClickCancelStep, ClearHistoryStep,
     ChangeSettingStep
  DEF UserStep
<1>5. CASE ProcessStep
  BY <1>5, ShutdownStep, CrashStep, InitializeStep DEF ProcessStep
<1>6. QED BY <1>1, <1>2, <1>3, <1>4, <1>5 DEF Next

\* The history, the dialogs and the settings stay as one expects, for any
\* number of sessions: ManagerInv holds in every state (TransferManager.cpp).
THEOREM ManagerInvHolds == Spec => []ManagerInv
<1>1. Init => ManagerInv
  BY InitInv
<1>2. ManagerInv /\ [Next]_vars => ManagerInv'
  BY StepInv
<1>3. QED BY <1>1, <1>2, PTL DEF Spec

\* Every history row names what became of its own session, however often the
\* active session is replaced (TransferManager.cpp:203-236).
THEOREM RowMatchesSessionHolds == Spec => []RowMatchesSession
<1>1. ManagerInv => RowMatchesSession
  BY DEF ManagerInv
<1>2. QED BY <1>1, ManagerInvHolds, PTL

-----------------------------------------------------------------------------
(* Action properties.                                                      *)

\* A receiving session s starts to receive in this step.
Starts(s) ==
    /\ sessions[s].dir = "recv"
    /\ sessions[s].status # "Transferring"
    /\ sessions'[s].status = "Transferring"
Allowed(s) ==
    \/ sessions[s].status = "Paused"
    \/ sessions[s].status = "Offering" /\ settings["auto_accept"]
    \/ /\ sessions[s].status = "WaitingApproval"
       /\ dialogs # <<>> /\ Innermost = s

LEMMA UnchangedStarts ==
    ASSUME UNCHANGED sessions, NEW s, Starts(s) PROVE FALSE
BY DEF Starts

\* A step that gives the active session the status st starts at most it.
LEMMA StatusStarts ==
    ASSUME TypeOK, active # None, NEW st, NEW l, sessions' =
             [sessions EXCEPT ![active].status = st, ![active].linked = l],
           NEW s \in 1..Len(sessions), Starts(s)
    PROVE  s = active /\ st = "Transferring" /\ S.dir = "recv" /\ S.status # "Transferring"
<1>1. active \in 1..Len(sessions) /\ S = sessions[active] /\ S \in Session
  BY ActiveFacts
<1>2. sessions' = [sessions EXCEPT ![active] =
                      [sessions[active] EXCEPT !.status = st, !.linked = l]]
  OBVIOUS
<1>3. sessions \in Seq(Session) /\ Len(sessions) \in Nat
  BY DEF TypeOK
<1>4. \A p \in 1..Len(sessions) :
         sessions'[p] = IF p = active
                        THEN [sessions[active] EXCEPT !.status = st, !.linked = l]
                        ELSE sessions[p]
  BY <1>2, <1>3
<1>5. s = active
  BY <1>4 DEF Starts
<1>6. sessions'[active].status = st
  BY <1>1, <1>4 DEF Session
<1>7. QED BY <1>1, <1>5, <1>6 DEF Starts

\* Only three kinds of step of the active session make it Transferring.
LEMMA SessionStepAccepts ==
    ASSUME ManagerInv, SessionStep \/ ClickPause \/ ClickResume \/ ClickCancel,
           NEW s \in 1..Len(sessions), Starts(s)
    PROVE  Allowed(s)
<1>1. TypeOK
  BY DEF ManagerInv
<1>2. ASSUME active # None, NEW st, Advances(st)
      PROVE  st = "Transferring" /\ s = active /\ S.dir = "recv"
  BY <1>1, <1>2, StatusStarts DEF Advances, Becomes
<1>3. ASSUME active # None, NEW st, NEW text, StopsAs(st, text)
      PROVE  st = "Transferring"
  BY <1>1, <1>3, StatusStarts DEF StopsAs, Becomes
<1>4. CASE OnTransferResume \/ ClickResume
  <2>1. active # None
    BY <1>4 DEF OnTransferResume, PacketComes, Active, ClickResume
  <2>2. s = active /\ S.dir = "recv"
    BY <1>2, <1>4, <2>1 DEF OnTransferResume, ClickResume
  <2>3. S.status = "Paused"
    BY <1>4, <2>2 DEF OnTransferResume, ClickResume
  <2>4. QED BY <2>2, <2>3 DEF Allowed, S
<1>5. CASE OnTransferAccept
  <2>1. active # None /\ S.dir = "send"
    BY <1>5 DEF OnTransferAccept, PacketComes, Active
  <2>2. S.dir = "recv"
    BY <1>2, <1>5, <2>1 DEF OnTransferAccept
  <2>3. QED BY <2>1, <2>2
<1>6. CASE SocketConnected \/ OnHandshakeReq \/ OnHandshakeResp \/ OnTransferPause
           \/ Completes \/ ClickPause
  BY <1>2, <1>6
  DEF SocketConnected, OnHandshakeReq, OnHandshakeResp, OnTransferPause, Completes,
      ClickPause, PacketComes, Active
<1>7. CASE OnTransferReject \/ OnTransferCancel \/ ClickCancel
  BY <1>3, <1>7 DEF OnTransferReject, OnTransferCancel, ClickCancel, PacketComes, Active
<1>8. CASE Fails
  <2>1. active # None /\ Becomes("Failed", S.dir = "send", "Failed")
    BY <1>8 DEF Fails, PacketComes, Active
  <2>2. sessions' = [sessions EXCEPT ![active].status = "Failed",
                                     ![active].linked = (S.dir = "send")]
    BY <2>1 DEF Becomes
  <2>3. "Failed" = "Transferring"
    BY <1>1, <2>1, <2>2, StatusStarts
  <2>4. QED BY <2>3
<1>9. CASE LosesConnection
  <2>1. active # None
    BY <1>9 DEF LosesConnection, Active
  <2>2. CASE StopsAs("Failed", "Failed")
    BY <1>3, <2>1, <2>2
  <2>3. CASE sessions' = [sessions EXCEPT ![active].linked = FALSE]
    <3>1. sessions' = [sessions EXCEPT ![active] = [S EXCEPT !.linked = FALSE]]
      BY <2>3 DEF S
    <3>2. \A p \in 1..Len(sessions) : sessions'[p].status = sessions[p].status
      BY <1>1, <2>1, <3>1, ActiveFacts DEF TypeOK, Session
    <3>3. QED BY <3>2 DEF Starts
  <2>4. QED BY <1>9, <2>2, <2>3 DEF LosesConnection
<1>10. CASE OnTransferOffer
  <2>1. active # None /\ S.status = "Offering"
    BY <1>10 DEF OnTransferOffer, PacketComes, Active
  <2>2. active \in 1..Len(sessions) /\ S = sessions[active] /\ S \in Session
    BY <1>1, <2>1, ActiveFacts
  <2>3. CASE /\ settings["auto_accept"]
             /\ sessions' = [sessions EXCEPT ![active].offered = TRUE,
                                             ![active].status = "Transferring"]
    <3>1. \A p \in 1..Len(sessions) : p # active => sessions'[p] = sessions[p]
      BY <1>1, <2>3 DEF TypeOK
    <3>2. s = active
      BY <3>1 DEF Starts
    <3>3. QED BY <2>1, <2>2, <2>3, <3>2 DEF Allowed
  <2>4. CASE sessions' = [sessions EXCEPT ![active].offered = TRUE,
                                          ![active].status = "WaitingApproval"]
    <3> DEFINE e == [S EXCEPT !.offered = TRUE, !.status = "WaitingApproval"]
    <3>1. sessions' = [sessions EXCEPT ![active] = e]
      BY <2>4 DEF S
    <3>2. e.status = "WaitingApproval"
      BY <2>2 DEF Session
    <3>3. \A p \in 1..Len(sessions) :
             sessions'[p] = IF p = active THEN e ELSE sessions[p]
      BY <1>1, <3>1 DEF TypeOK
    <3>4. QED BY <3>2, <3>3 DEF Starts
  <2>5. QED BY <1>10, <2>3, <2>4 DEF OnTransferOffer
<1>11. QED
  BY <1>4, <1>5, <1>6, <1>7, <1>8, <1>9, <1>10 DEF SessionStep

\* cancel() starts nothing.
LEMMA CancelStarts ==
    ASSUME ManagerInv, NEW s \in 1..Len(sessions),
           sessions'[s] = SessionsAfterCancel[s], Starts(s)
    PROVE  FALSE
<1>1. CASE active = None
  BY <1>1 DEF SessionsAfterCancel, Starts
<1>2. CASE active # None
  <2> DEFINE e == [S EXCEPT !.status = "Cancelled", !.linked = FALSE]
  <2>1. TypeOK /\ S \in Session
    BY <1>2, ActiveFacts DEF ManagerInv
  <2>2. e \in Session /\ e.status = "Cancelled"
    BY <2>1 DEF Session, Statuses
  <2>3. SessionsAfterCancel = [sessions EXCEPT ![active] = e]
    BY <1>2 DEF SessionsAfterCancel, S
  <2> HIDE DEF e
  <2>4. SessionsAfterCancel[s] = IF s = active THEN e ELSE sessions[s]
    BY <1>2, <2>1, <2>2, <2>3, ReplaceActive
  <2>5. QED BY <2>2, <2>4 DEF Starts
<1>3. QED BY <1>1, <1>2

LEMMA OthersStart ==
    ASSUME ManagerInv,
           \/ OnNewIncomingConnection \/ InitiateSend \/ OnOfferRejected
           \/ ClearHistory \/ (\E k \in Keys : \E v \in Offered[k] : ChangeSetting(k, v))
           \/ ProcessStep,
           NEW s \in 1..Len(sessions), Starts(s)
    PROVE  FALSE
<1>1. TypeOK /\ Len(sessions) \in Nat
  BY DEF ManagerInv, TypeOK
<1>2. CASE OnNewIncomingConnection
  <2>1. sessions' = Append(sessions, NewSession("recv"))
    BY <1>2 DEF OnNewIncomingConnection
  <2>2. NewSession("recv") \in Session
    BY DEF NewSession, Session, Statuses
  <2>3. sessions'[s] = sessions[s]
    BY <1>1, <2>1, <2>2, AppendFacts DEF TypeOK
  <2>4. QED BY <2>3 DEF Starts
<1>3. CASE InitiateSend
  <2>1. sessions' = Append(SessionsAfterCancel, NewSession("send"))
    BY <1>3 DEF InitiateSend
  <2>2. NewSession("send") \in Session
    BY DEF NewSession, Session, Statuses
  <2>3. sessions'[s] = SessionsAfterCancel[s]
    BY <2>1, <2>2, CancelFacts, AppendFacts
  <2>4. QED BY <2>3, CancelStarts
<1>4. CASE OnOfferRejected
  <2>1. CASE UNCHANGED sessions
    BY <2>1, UnchangedStarts
  <2>2. ASSUME offerFor # None, NEW same \in SamePointer, same,
               sessions' = [sessions EXCEPT ![active].status = "Cancelled",
                                            ![active].linked = FALSE]
        PROVE  FALSE
    <3>1. active # None
      BY <2>2, SamePointerFacts
    <3>2. "Cancelled" = "Transferring"
      BY <1>1, <2>2, <3>1, StatusStarts
    <3>3. QED BY <3>2
  <2>3. QED BY <1>4, <2>1, <2>2 DEF OnOfferRejected
<1>5. CASE \/ ClearHistory \/ (\E k \in Keys : \E v \in Offered[k] : ChangeSetting(k, v))
           \/ Crash \/ Initialize
  BY <1>5, UnchangedStarts DEF ClearHistory, ChangeSetting, Crash, Initialize
<1>6. CASE Shutdown
  BY <1>6, CancelStarts DEF Shutdown
<1>7. QED BY <1>2, <1>3, <1>4, <1>5, <1>6 DEF ProcessStep

LEMMA OnOfferAcceptedAllowed ==
    ASSUME ManagerInv, OnOfferAccepted, NEW s \in 1..Len(sessions), Starts(s)
    PROVE  Allowed(s)
<1>1. CASE UNCHANGED sessions
  BY <1>1, UnchangedStarts
<1>2. ASSUME offerFor # None, NEW same \in SamePointer, same, S.offered,
             sessions' = [sessions EXCEPT ![active].status = "Transferring"]
      PROVE  Allowed(s)
  <2>1. active # None
    BY <1>2, SamePointerFacts
  <2>2. /\ offerFor = active /\ S.status = "WaitingApproval"
        /\ dialogs # <<>> /\ Innermost = active
    BY <1>2, <2>1 DEF ManagerInv, DialogInv, OfferIsInnermost
  <2>3. \A p \in 1..Len(sessions) : p # active => sessions'[p] = sessions[p]
    BY <1>2 DEF ManagerInv, TypeOK
  <2>4. s = active
    BY <2>3 DEF Starts
  <2>5. QED BY <2>2, <2>4 DEF Allowed, S
<1>3. QED BY <1>1, <1>2 DEF OnOfferAccepted

LEMMA StartsAllowed ==
    ASSUME ManagerInv, [Next]_vars, NEW s \in 1..Len(sessions), Starts(s)
    PROVE  Allowed(s)
BY SessionStepAccepts, OthersStart, OnOfferAcceptedAllowed, UnchangedStarts
DEF Next, UserStep, vars

\* No receiving session starts to write files by the answer to another
\* session's offer, however the dialogs nest (MainWindow.cpp:222).
THEOREM AcceptedByItsOwnDialogHolds == Spec => AcceptedByItsOwnDialog
<1>1. ManagerInv /\ [Next]_vars => \A s \in 1..Len(sessions) : Starts(s) => Allowed(s)
  BY StartsAllowed
<1>2. (\A s \in 1..Len(sessions) : Starts(s) => Allowed(s)) =>
        \A s \in 1..Len(sessions) :
          /\ sessions[s].dir = "recv"
          /\ sessions[s].status # "Transferring"
          /\ sessions'[s].status = "Transferring"
          => \/ sessions[s].status = "Paused"
             \/ sessions[s].status = "Offering" /\ settings["auto_accept"]
             \/ /\ sessions[s].status = "WaitingApproval"
                /\ dialogs # <<>> /\ Innermost = s
  BY DEF Starts, Allowed
<1>3. QED BY <1>1, <1>2, ManagerInvHolds, PTL DEF Spec, AcceptedByItsOwnDialog

\* Only these two actions create a session.
LEMMA SameLength ==
    ASSUME ManagerInv, [Next]_vars, ~InitiateSend, ~OnNewIncomingConnection
    PROVE  Len(sessions') = Len(sessions)
<1>1. sessions \in Seq(Session)
  BY DEF ManagerInv, TypeOK
<1>2. ASSUME NEW st, NEW l, NEW text, Becomes(st, l, text)
      PROVE  Len(sessions') = Len(sessions)
  BY <1>1, <1>2 DEF Becomes
<1>3. CASE SessionStep
  <2>1. CASE LosesConnection
    <3>1. CASE StopsAs("Failed", "Failed")
      BY <1>2, <3>1 DEF StopsAs
    <3>2. CASE sessions' = [sessions EXCEPT ![active].linked = FALSE]
      BY <1>1, <3>2
    <3>3. QED BY <2>1, <3>1, <3>2 DEF LosesConnection
  <2>2. CASE OnTransferOffer
    BY <1>1, <2>2 DEF OnTransferOffer
  <2>3. CASE ~LosesConnection /\ ~OnTransferOffer
    BY <1>2, <1>3, <2>3
    DEF SessionStep, SocketConnected, OnHandshakeReq, OnHandshakeResp, OnTransferAccept,
        OnTransferReject, OnTransferPause, OnTransferResume, OnTransferCancel,
        Completes, Fails, Advances, StopsAs
  <2>4. QED BY <2>1, <2>2, <2>3
<1>4. CASE UserStep
  <2>1. CASE OnOfferAccepted
    BY <1>1, <2>1 DEF OnOfferAccepted
  <2>2. CASE OnOfferRejected
    BY <1>1, <2>2 DEF OnOfferRejected
  <2>3. CASE ClickPause \/ ClickResume \/ ClickCancel
    BY <1>2, <2>3 DEF ClickPause, ClickResume, ClickCancel, Advances, StopsAs
  <2>4. CASE ClearHistory \/ (\E k \in Keys : \E v \in Offered[k] : ChangeSetting(k, v))
    BY <2>4 DEF ClearHistory, ChangeSetting
  <2>5. QED BY <1>4, <2>1, <2>2, <2>3, <2>4 DEF UserStep
<1>5. CASE ProcessStep
  BY <1>5, CancelFacts DEF ProcessStep, Shutdown, Crash, Initialize
<1>6. CASE UNCHANGED vars
  BY <1>6 DEF vars
<1>7. QED BY <1>3, <1>4, <1>5, <1>6 DEF Next

\* Length and rows of a step in which a send of the user's own appears.
LEMMA SendCloses ==
    ASSUME ManagerInv, [Next]_vars, active # None, Len(sessions') > Len(sessions),
           sessions'[Len(sessions')].dir = "send"
    PROVE  rows'[active] \notin {"Active", "Paused"}
<1>1. TypeOK /\ Len(sessions) \in Nat /\ active \in Ids /\ active = Len(sessions)
  BY ActiveFacts DEF ManagerInv
<1>2. CASE InitiateSend
  <2>1. /\ rows' = Inserted(RowsAfterCancel, NextId) /\ NextId \in Ids
        /\ active # NextId
    BY <1>1, <1>2 DEF InitiateSend, NextId, Ids
  <2>2. RowsAfterCancel \in [Ids -> RowTexts]
    BY CancelFacts
  <2>3. Inserted(RowsAfterCancel, NextId)[active] = RowsAfterCancel[active]
    BY <1>1, <2>1, <2>2, InsertedFacts
  <2>4. QED BY <2>1, <2>3, CancelFacts
<1>3. CASE OnNewIncomingConnection
  <2>1. sessions' = Append(sessions, NewSession("recv"))
    BY <1>3 DEF OnNewIncomingConnection
  <2>2. NewSession("recv") \in Session /\ NewSession("recv").dir = "recv"
    BY DEF NewSession, Session, Statuses
  <2>3. Len(sessions') = Len(sessions) + 1 /\ sessions'[Len(sessions) + 1] = NewSession("recv")
    BY <1>1, <2>1, <2>2, AppendFacts DEF TypeOK
  <2>4. QED BY <2>2, <2>3
<1>4. CASE ~InitiateSend /\ ~OnNewIncomingConnection
  <2>1. Len(sessions') = Len(sessions)
    BY <1>4, SameLength
  <2>2. QED BY <1>1, <2>1
<1>5. QED BY <1>2, <1>3, <1>4

\* A transfer that the user's own send replaces is not left "Active" or
\* "Paused" in the history (TransferManager.cpp:114).
THEOREM SendClosesThePreviousHolds == Spec => SendClosesThePrevious
<1>1. ManagerInv /\ [Next]_vars =>
        ((/\ active # None /\ Len(sessions') > Len(sessions)
          /\ sessions'[Len(sessions')].dir = "send")
         => rows'[active] \notin {"Active", "Paused"})
  BY SendCloses
<1>2. QED BY <1>1, ManagerInvHolds, PTL DEF Spec, SendClosesThePrevious

LEMMA StartRestores ==
    ASSUME ManagerInv, [Next]_vars, ~running, running'
    PROVE  settings' = settings
<1>1. CASE Initialize
  BY <1>1, InitializeStep
<1>2. CASE ~Initialize
  <2>1. UNCHANGED running \/ running' = FALSE
    BY <1>2
    DEF Next, SessionStep, UserStep, ProcessStep, vars, SocketConnected, LosesConnection,
        OnHandshakeReq, OnHandshakeResp, OnTransferOffer, OnTransferAccept,
        OnTransferReject, OnTransferPause, OnTransferResume, OnTransferCancel,
        Completes, Fails, OfSession, OnNewIncomingConnection, InitiateSend,
        OnOfferAccepted, OnOfferRejected, DialogCloses, ClickPause, ClickResume,
        ClickCancel, ClearHistory, ChangeSetting, Shutdown, Crash, Stopped
  <2>2. QED BY <2>1
<1>3. QED BY <1>1, <1>2

\* No setting is lost or altered by a stop, planned or not (TransferManager.cpp:21).
THEOREM SettingsSurviveHolds == Spec => SettingsSurvive
<1>1. ManagerInv /\ [Next]_vars => (~running /\ running' => settings' = settings)
  BY StartRestores
<1>2. QED BY <1>1, ManagerInvHolds, PTL DEF Spec, SettingsSurvive
=============================================================================
