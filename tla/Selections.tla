----------------------------- MODULE Selections -----------------------------
(***************************************************************************)
(* What a view shows of the record selected in it.  The stores keep one    *)
(* list of milestones, one of evidence and one report for the whole app,   *)
(* filled by whichever answer comes last; the view keeps the selection.    *)
(* Each answer may be the one of an earlier selection.                     *)
(***************************************************************************)
EXTENDS FiniteSets

CONSTANTS
  Selectable,     \* projects, and likewise reports, that can be selected
  NoSelection     \* null

ASSUME SelectionsAssumption == NoSelection \notin Selectable

VARIABLES
  selected,       \* the selected project
  opened,         \* the selected report
  stored,         \* whose milestones, evidence and report the stores hold
  fetching,       \* the fetches under way, each for a list and a selection
  dialogue,       \* the project of the milestone a dialogue asks to confirm
  reading,        \* the project selected when an upload began to read its file
  acted           \* the last action: its kind, the record meant, the one sent

selectionVars == <<selected, opened, stored, fetching, dialogue, reading, acted>>

Lists == {"milestones", "evidence", "report"}
Actions == {"complete", "upload", "verdict"}

SelectionsTypeOK ==
  /\ selected \in Selectable \cup {NoSelection}
  /\ opened \in Selectable \cup {NoSelection}
  /\ stored \in [Lists -> Selectable \cup {NoSelection}]
  /\ fetching \subseteq Lists \X Selectable
  /\ dialogue \in Selectable \cup {NoSelection}
  /\ reading \in Selectable \cup {NoSelection}
  /\ acted \in {NoSelection} \cup
       [action : Actions, meant : Selectable, to : Selectable \cup {NoSelection}]

SelectionsInit ==
  /\ selected = NoSelection /\ opened = NoSelection
  /\ stored = [l \in Lists |-> NoSelection]
  /\ fetching = {}
  /\ dialogue = NoSelection /\ reading = NoSelection
  /\ acted = NoSelection

\* milestonesForSelected filters the store's list by project; evidence is
\* shown as it is.
\* Mutant: the list is shown as the store holds it.
MilestonesStored == stored["milestones"]

MilestonesForSelected ==
  IF stored["milestones"] = selected THEN selected ELSE NoSelection

Act(action, meant, to) ==
  acted' = [action |-> action, meant |-> meant, to |-> to]

\* A dialogue covers the view while it is open.
SelectProject(p) ==
  /\ dialogue = NoSelection
  /\ selected' = p
  /\ fetching' = fetching \cup {<<"milestones", p>>, <<"evidence", p>>}
  /\ UNCHANGED <<opened, stored, dialogue, reading, acted>>

OpenReport(w) ==
  /\ opened' = w
  /\ fetching' = fetching \cup {<<"report", w>>}
  /\ UNCHANGED <<selected, stored, dialogue, reading, acted>>

\* The milestones are emptied by no one: until an answer comes the old ones stay.
Fetched(f) ==
  /\ fetching' = fetching \ {f}
  /\ stored' = [stored EXCEPT ![f[1]] = f[2]]
  /\ UNCHANGED <<selected, opened, dialogue, reading, acted>>

AskCompleteMilestone ==
  /\ dialogue = NoSelection /\ MilestonesForSelected # NoSelection
  /\ dialogue' = MilestonesForSelected
  /\ UNCHANGED <<selected, opened, stored, fetching, reading, acted>>

\* confirmAction completes the milestone asked about, for the project selected.
ConfirmComplete ==
  /\ dialogue # NoSelection
  /\ Act("complete", dialogue, selected)
  /\ fetching' = fetching \cup {<<"milestones", selected>>}
  /\ dialogue' = NoSelection
  /\ UNCHANGED <<selected, opened, stored, reading>>

CloseDialogue ==
  /\ dialogue # NoSelection
  /\ dialogue' = NoSelection
  /\ UNCHANGED <<selected, opened, stored, fetching, reading, acted>>

\* handleUploadEvidence awaits the file and reads the selection afterwards.
ReadFile ==
  /\ selected # NoSelection /\ reading = NoSelection
  /\ reading' = selected
  /\ UNCHANGED <<selected, opened, stored, fetching, dialogue, acted>>

UploadEvidence ==
  /\ reading # NoSelection
  /\ Act("upload", reading, selected)
  /\ fetching' = fetching \cup {<<"evidence", selected>>}
  /\ reading' = NoSelection
  /\ UNCHANGED <<selected, opened, stored, dialogue>>

\* The buttons are those of the report shown, their calls for the one selected.
ActOnReport ==
  /\ stored["report"] # NoSelection
  /\ Act("verdict", stored["report"], opened)
  /\ fetching' = fetching \cup {<<"report", opened>>}
  /\ UNCHANGED <<selected, opened, stored, dialogue, reading>>

SelectionsNext ==
  \/ \E p \in Selectable : SelectProject(p)
  \/ \E w \in Selectable : OpenReport(w)
  \/ \E f \in fetching : Fetched(f)
  \/ AskCompleteMilestone
  \/ ConfirmComplete
  \/ CloseDialogue
  \/ ReadFile
  \/ UploadEvidence
  \/ ActOnReport

SelectionsSpec == SelectionsInit /\ [][SelectionsNext]_selectionVars
-----------------------------------------------------------------------------
AsMeant(action) ==
  (acted # NoSelection /\ acted.action = action) => acted.meant = acted.to

\* A milestone is completed within the project that is selected, whichever
\* order the answers to its and to earlier selections come in.
MilestonesAreOfTheirProject == AsMeant("complete")

\* Evidence goes to the project that was selected when its upload was asked
\* for.  (It does not hold: the selection is read after the file.)
EvidenceIsOfItsProject == AsMeant("upload")

\* A verdict is about the report on the screen.  (It does not hold: the answer
\* to an earlier selection may be shown under a later one.)
VerdictsAreOnWhatIsShown == AsMeant("verdict")
=============================================================================
