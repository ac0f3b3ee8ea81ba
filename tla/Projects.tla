------------------------------ MODULE Projects ------------------------------
(***************************************************************************)
(* ProjectsService, MilestonesService, InspectionsService: milestones are  *)
(* planned, worked off and inspected, and the project completes with the   *)
(* last of them.  Every status is checked on a read and written by id;     *)
(* an inspection writes its outcome whatever the milestone is by then.     *)
(*                                                                         *)
(* The contract that a project is raised on, and who the actors are, only  *)
(* refuse requests.                                                        *)
(***************************************************************************)
EXTENDS Handlers

CONSTANTS
  Projects,
  Milestones,     \* ids milestones rows can have
  ProjectOf       \* the project of each milestone

ASSUME ProjectsAssumption == ProjectOf \in [Milestones -> Projects]

VARIABLES
  project,        \* projects.status
  milestone,      \* milestones.status
  passed,         \* milestones with an inspections row that says PASSED
  late,           \* milestones that were added to a project past PLANNED
  missed          \* projects whose completion was not noticed, or undone

projectVars == <<project, milestone, passed, late, missed>>

MilestonesOf(p) == {m \in Milestones : ProjectOf[m] = p /\ milestone[m] # "NONE"}
Outcomes == {"PASSED", "FAILED"}        \* NEEDS_REVISION has the effect of FAILED

ProjectRequest ==
  {Idle} \cup
  [at : {"activate", "suspend", "resume", "cancel", "maybeMarkCompleted", "markCompleted"},
   project : Projects] \cup
  [at : {"addMilestone", "start", "complete"}, milestone : Milestones] \cup
  [at : {"createInspection", "applyOutcome"}, milestone : Milestones, outcome : Outcomes]

ProjectsTypeOK ==
  /\ project \in [Projects -> {"NONE", "PLANNED", "IN_PROGRESS", "SUSPENDED",
                               "COMPLETED", "CANCELLED"}]
  /\ milestone \in [Milestones -> {"NONE", "PENDING", "IN_PROGRESS", "COMPLETED", "VERIFIED"}]
  /\ passed \cup late \subseteq {m \in Milestones : milestone[m] # "NONE"}
  /\ missed \subseteq Projects

ProjectsInit ==
  /\ project = [p \in Projects |-> "NONE"]
  /\ milestone = [m \in Milestones |-> "NONE"]
  /\ passed = {}
  /\ late = {}
  /\ missed = {}

AllVerified(p) ==
  MilestonesOf(p) # {} /\ \A m \in MilestonesOf(p) : milestone[m] = "VERIFIED"

-----------------------------------------------------------------------------
(* ProjectsService                                                         *)

CreateProject(p) ==
  /\ project[p] = "NONE"
  /\ project' = [project EXCEPT ![p] = "PLANNED"]
  /\ UNCHANGED <<milestone, passed, late, missed, request>>

ReadProject(r, p) ==
  /\ \/ project[p] = "PLANNED" /\ Start(r, [at |-> "activate", project |-> p])
     \/ project[p] = "IN_PROGRESS" /\ Start(r, [at |-> "suspend", project |-> p])
     \/ project[p] = "SUSPENDED" /\ Start(r, [at |-> "resume", project |-> p])
     \/ project[p] \in {"PLANNED", "IN_PROGRESS", "SUSPENDED"}
          /\ Start(r, [at |-> "cancel", project |-> p])
  /\ UNCHANGED projectVars

\* A project that turns IN_PROGRESS with all its milestones verified missed
\* its completion: no inspection is to come.
UpdateProject(r) ==
  LET p == request[r].project IN
  /\ \/ /\ request[r].at \in {"activate", "resume"}
        /\ project' = [project EXCEPT ![p] = "IN_PROGRESS"]
        /\ missed' = IF AllVerified(p) THEN missed \cup {p} ELSE missed
     \/ /\ request[r].at \in {"suspend", "cancel"}
        /\ project' = [project EXCEPT ![p] =
                         IF request[r].at = "suspend" THEN "SUSPENDED" ELSE "CANCELLED"]
        /\ UNCHANGED missed
  /\ Stop(r)
  /\ UNCHANGED <<milestone, passed, late>>

-----------------------------------------------------------------------------
(* MilestonesService                                                       *)

ReadForMilestone(r, m) ==
  /\ project[ProjectOf[m]] = "PLANNED"
  /\ Start(r, [at |-> "addMilestone", milestone |-> m])
  /\ UNCHANGED projectVars

\* milestones has a unique index on the project and the sequence number.
AddMilestone(r) ==
  LET m == request[r].milestone IN
  /\ request[r].at = "addMilestone"
  /\ milestone[m] = "NONE"
  /\ milestone' = [milestone EXCEPT ![m] = "PENDING"]
  /\ late' = IF project[ProjectOf[m]] = "PLANNED" THEN late ELSE late \cup {m}
  /\ Stop(r)
  /\ UNCHANGED <<project, passed, missed>>

ReadMilestone(r, m) ==
  /\ \/ milestone[m] = "PENDING" /\ Start(r, [at |-> "start", milestone |-> m])
     \/ milestone[m] \in {"PENDING", "IN_PROGRESS"}
          /\ Start(r, [at |-> "complete", milestone |-> m])
  /\ UNCHANGED projectVars

UpdateMilestone(r) ==
  /\ request[r].at \in {"start", "complete"}
  /\ milestone' = [milestone EXCEPT ![request[r].milestone] =
                     IF request[r].at = "start" THEN "IN_PROGRESS" ELSE "COMPLETED"]
  /\ Stop(r)
  /\ UNCHANGED <<project, passed, late, missed>>

-----------------------------------------------------------------------------
(* InspectionsService.create, applyInspectionOutcome, maybeMarkCompleted   *)

ReadForInspection(r, m, outcome) ==
  /\ milestone[m] = "COMPLETED"
  /\ Start(r, [at |-> "createInspection", milestone |-> m, outcome |-> outcome])
  /\ UNCHANGED projectVars

CreateInspection(r) ==
  /\ request[r].at = "createInspection"
  /\ passed' = IF request[r].outcome = "PASSED" THEN passed \cup {request[r].milestone} ELSE passed
  /\ Go(r, "applyOutcome")
  /\ UNCHANGED <<project, milestone, late, missed>>

\* Mutant: the project was read, with its milestones, before the update.
ApplyOutcomeToRead(r) ==
  LET m == request[r].milestone
      p == ProjectOf[m]
  IN
  /\ request[r].at = "applyOutcome"
  /\ milestone' = [milestone EXCEPT ![m] =
                     IF request[r].outcome = "PASSED" THEN "VERIFIED" ELSE "IN_PROGRESS"]
  /\ IF request[r].outcome = "PASSED" /\ project[p] = "IN_PROGRESS" /\ AllVerified(p)
     THEN request' = [request EXCEPT ![r] = [at |-> "markCompleted", project |-> p]]
     ELSE Stop(r)
  /\ UNCHANGED <<project, passed, late, missed>>

ApplyOutcome(r) ==
  LET m == request[r].milestone IN
  /\ request[r].at = "applyOutcome"
  /\ IF request[r].outcome = "PASSED"
     THEN /\ milestone' = [milestone EXCEPT ![m] = "VERIFIED"]
          /\ request' = [request EXCEPT ![r] =
                           [at |-> "maybeMarkCompleted", project |-> ProjectOf[m]]]
     ELSE milestone' = [milestone EXCEPT ![m] = "IN_PROGRESS"] /\ Stop(r)
  /\ UNCHANGED <<project, passed, late, missed>>

MaybeMarkCompleted(r) ==
  LET p == request[r].project IN
  /\ request[r].at = "maybeMarkCompleted"
  /\ IF project[p] = "IN_PROGRESS" /\ AllVerified(p) THEN Go(r, "markCompleted") ELSE Stop(r)
  /\ UNCHANGED projectVars

MarkCompleted(r) ==
  /\ request[r].at = "markCompleted"
  /\ project' = [project EXCEPT ![request[r].project] = "COMPLETED"]
  /\ Stop(r)
  /\ UNCHANGED <<milestone, passed, late, missed>>

ProjectsFail(r) ==
  /\ Abandon(r)
  /\ missed' = IF request[r].at \in {"maybeMarkCompleted", "markCompleted"}
               THEN missed \cup {request[r].project} ELSE missed
  /\ UNCHANGED <<project, milestone, passed, late>>

ProjectsNext ==
  \/ \E p \in Projects : CreateProject(p)
  \/ \E r \in Requests :
       \/ \E p \in Projects : ReadProject(r, p)
       \/ \E m \in Milestones :
            \/ ReadForMilestone(r, m)
            \/ ReadMilestone(r, m)
            \/ \E outcome \in Outcomes : ReadForInspection(r, m, outcome)
       \/ UpdateProject(r)
       \/ AddMilestone(r)
       \/ UpdateMilestone(r)
       \/ CreateInspection(r)
       \/ ApplyOutcome(r)
       \/ MaybeMarkCompleted(r)
       \/ MarkCompleted(r)
       \/ ProjectsFail(r)

ProjectsSpec == ProjectsInit /\ HandlersInit /\ [][ProjectsNext]_<<projectVars, request>>
-----------------------------------------------------------------------------
(* Safety, whatever the requests interleave and wherever they end.         *)

\* A completed project was inspected: each milestone that it was activated
\* with passed an inspection, however its status was written meanwhile.
CompletedIsInspected ==
  \A p \in Projects :
    project[p] = "COMPLETED" => MilestonesOf(p) \subseteq passed \cup late

\* A project in progress whose milestones are all verified is being marked
\* completed: of inspections that run at the same time the last sees all.  It
\* is not if it was suspended, or not active yet, when the last one passed.
FinishedProjectsAreMarked ==
  \A p \in Projects :
    project[p] = "IN_PROGRESS" /\ AllVerified(p) =>
      \/ p \in missed
      \/ \E r \in Requests :
           request[r].at \in {"maybeMarkCompleted", "markCompleted"} /\ request[r].project = p

\* A project is completed by inspections, and by the last of them.
CompletionIsEarned == CompletedIsInspected /\ FinishedProjectsAreMarked

(* What a comment says, and the code does not do.                          *)

\* "A PASSED inspection verifies the milestone and, if every milestone on the
\* project is now VERIFIED, auto-completes the project."
InspectionCompletesProject ==
  \A p \in Projects :
    project[p] = "IN_PROGRESS" /\ AllVerified(p) =>
      \E r \in Requests : request[r].at \in {"maybeMarkCompleted", "markCompleted"}
=============================================================================
