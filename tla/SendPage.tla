------------------------------ MODULE SendPage ------------------------------
(***************************************************************************)
(* The send page: the paths selected to be sent, the list of destinations  *)
(* rebuilt whenever the devices change, the manual address, and the START  *)
(* button, whose state is kept from the last call of updateSummary.        *)
(***************************************************************************)
EXTENDS FileEnumerator

CONSTANTS
    Paths,      \* what the user may select to send
    Order       \* every device id, in the order of the keys of a QMap

ASSUME PageAssumption == Order \in Seq(ToSet(Order))

VARIABLES
    paths,          \* m_selectedPaths
    devices,        \* m_cachedDevices and the combo box: ids, in order
    choice,         \* the id at the combo box's index, None without one
    manual,         \* the manual address is used
    typed,          \* an address stands in the manual field
    startEnabled,   \* m_startBtn
    picked          \* history: the id the user picked, while it stays listed

pageVars == <<paths, devices, choice, manual, typed, startEnabled, picked>>

None == <<>>

\* What of a list is in S, in the order of the list.
Keep(seq, S) ==
    LET kept[n \in 0..Len(seq)] ==
            IF n = 0 THEN <<>>
            ELSE IF seq[n] \in S THEN Append(kept[n - 1], seq[n]) ELSE kept[n - 1]
    IN  kept[Len(seq)]

PageInit ==
    /\ paths = <<>> /\ devices = <<>> /\ choice = None
    /\ manual = FALSE /\ typed = FALSE
    /\ startEnabled = FALSE /\ picked = None

UpdateSummary ==
    startEnabled' = /\ paths' # <<>>
                    /\ IF manual' THEN typed' ELSE choice' # None

\* Mutant of CurrentAfter: the rebuilt list stays at its first device.
CurrentAfterRebuild(seq) == IF seq = <<>> THEN None ELSE seq[1]

\* A rebuilt combo box shows its first device; the one that was current is
\* made current again where it is still there.
CurrentAfter(seq) ==
    IF choice \in ToSet(seq) THEN choice
    ELSE IF seq = <<>> THEN None ELSE seq[1]

UpdateDeviceList(ids) ==
    /\ devices' = Keep(Order, ids)
    /\ choice' = CurrentAfter(devices')
    /\ picked' = IF picked \in ids THEN picked ELSE None
    /\ UNCHANGED <<paths, manual, typed>>
    /\ UpdateSummary

\* Files, a folder or what was dropped on the page: a path is added once.
AddPath ==
    /\ \E p \in Paths : paths' = IF p \in ToSet(paths) THEN paths ELSE Append(paths, p)
    /\ UNCHANGED <<devices, choice, manual, typed, picked>>
    /\ UpdateSummary

\* Only files stand in the tree: one that was selected itself goes, one found
\* inside a selected folder stays with it, and so does the folder.
OnRemoveSelectedClicked ==
    /\ \E gone \in SUBSET (ToSet(paths) \cap FilePaths) :
          paths' = Keep(paths, Paths \ gone)
    /\ UNCHANGED <<devices, choice, manual, typed, picked>>
    /\ UpdateSummary

\* Mutant of OnClearAllClicked: the button keeps its state.
OnClearAllQuietly ==
    /\ paths' = <<>>
    /\ UNCHANGED <<devices, choice, manual, typed, startEnabled, picked>>

OnClearAllClicked ==
    /\ paths' = <<>>
    /\ UNCHANGED <<devices, choice, manual, typed, picked>>
    /\ UpdateSummary

OnManualIpToggled ==
    /\ manual' = ~manual
    /\ UNCHANGED <<paths, devices, choice, typed, picked>>
    /\ UpdateSummary

\* Nothing is connected to the field: the button keeps its state.
EditManualIp ==
    /\ manual
    /\ typed' = ~typed
    /\ UNCHANGED <<paths, devices, choice, manual, startEnabled, picked>>

PickDevice ==
    /\ ~manual
    /\ \E i \in DOMAIN devices : choice' = devices[i] /\ picked' = devices[i]
    /\ UNCHANGED <<paths, devices, manual, typed, startEnabled>>

PageStep ==
    \/ \E ids \in SUBSET ToSet(Order) : UpdateDeviceList(ids)
    \/ AddPath \/ OnRemoveSelectedClicked \/ OnClearAllClicked
    \/ OnManualIpToggled \/ EditManualIp \/ PickDevice
=============================================================================
