-------------------------- MODULE CaptureAgentProofs --------------------------
(***************************************************************************)
(* What the supervisor starts is on disk whatever a command was doing when *)
(* it failed or died, commands touch nothing of anyone else, what they     *)
(* report is true, and a command that dies leaves an agent that some       *)
(* command accepts: for every set of versions.                             *)
(***************************************************************************)
EXTENDS CaptureAgent, TLAPS

(* The steps at which the runtime to install is staged, those from the     *)
(* first link to the last, and those that put the old state back.          *)
Staging == {"load", "stage", "copy", "seal"}
Putting == {"r_stop", "r_wait", "r_link1", "r_link2", "r_state", "r_def", "r_start", "r_health"}
Switch == Fallible \union Putting \union {"prevlink"}
Emptying == {"u_cur", "u_prev", "u_dir", "u_dir2", "u_old", "u_old2", "u_state"}

StagedInv ==
    /\ pc = "copy" => ~Sealed(nxt.cur)
    /\ pc = "seal" => ~Sealed(nxt.cur)
    /\ pc \in Switch => Sealed(nxt.cur)

(* The snapshot can be gone back to.                                       *)
SnapInv ==
    /\ snap.def # Foreign
    /\ snap.def \in Ver => snap.state # NoState
    /\ snap.loaded => snap.def \in Ver
    /\ pc \in Staging \union Switch /\ snap.def \in Ver => Sealed(snap.def)

(* What was created is used by nobody else.                                *)
CreatedInv ==
    /\ pc \in Staging => ~created
    /\ pc = "unstage2" => created
    /\ created /\ pc \in Switch => snap.def # nxt.cur
    /\ created /\ pc \in {"prevlink", "unstage", "unstage2"} => def # nxt.cur /\ running # nxt.cur

StoppedInv ==
    /\ pc \in {"r_wait", "r_link1", "r_link2", "r_state", "r_def", "r_start"} => running = NoVer
    /\ pc \in {"u_wait", "u_purge", "u_def"} \union Emptying => running = NoVer
    /\ pc \in Emptying => def \notin Ver
    /\ pc = "r_start" => def = snap.def /\ snap.def \in Ver
    /\ pc = "r_health" => running = snap.def /\ def \in {snap.def, Foreign}
    /\ pc = "s_start" => snap.def \in Ver
    /\ pc \in {"retire", "retire2"} => def = nxt.cur /\ running = nxt.cur

(* Nothing of the plugin runs or is defined without a state file.          *)
StateInv ==
    /\ ~torn /\ (Owned \/ running # NoVer) => state # NoState
    /\ pc \in {"stop", "wait", "define", "check", "start", "health", "retire", "retire2"} => state # NoState
    /\ pc = "r_def" => state = snap.state
    /\ pc \in {"r_link2", "r_state", "r_def"} => torn

Inv == TypeOK /\ ServiceRunnable /\ StagedInv /\ SnapInv /\ CreatedInv /\ StoppedInv /\ StateInv

--------------------------------------------------------------------------------
(* The members of the sets of values.                                      *)
LEMMA ReportKinds ==
    /\ "none" \in Reports /\ "ready" \in Reports /\ "disabled" \in Reports /\ "uninstalled" \in Reports
    /\ "failed" \in Reports /\ "restored" \in Reports /\ "rollback failed" \in Reports /\ "leftover" \in Reports
  BY DEF Reports

LEMMA DirKinds ==
    /\ "absent" \in Directory /\ "writable" \in Directory /\ "sealed" \in Directory /\ "partial" \in Directory
    /\ "leftover" \in Directory
  BY DEF Directory

LEMMA QueueKinds ==
    /\ "empty" \in Queue /\ "records" \in Queue /\ "alien" \in Queue
  BY DEF Queue

LEMMA OpKinds ==
    /\ Activations \subseteq Ops
    /\ "rollback" \in Ops /\ "rollback0" \in Ops /\ "start" \in Ops /\ "disable" \in Ops
    /\ "uninstall" \in Ops /\ "discard" \in Ops
  BY DEF Ops, Activations

LEMMA DefKinds ==
    /\ NoDef \in Definition /\ Foreign \in Definition
    /\ NoDef \notin Ver /\ Foreign \notin Ver /\ NoDef # Foreign
    /\ \A v \in Ver : v \in Definition
  BY AgentAssumption DEF Definition

LEMMA StateKinds ==
    /\ \A s \in AgentState : s.cur \in Ver /\ s.prev \in Ver \union {NoVer}
    /\ NoVer \notin Ver /\ NoState \notin AgentState
  BY AgentAssumption DEF AgentState

LEMMA StateMade == \A a \in Ver, b \in Ver \union {NoVer} : [cur |-> a, prev |-> b] \in AgentState
  BY DEF AgentState

LEMMA AfterIsState == ASSUME TypeOK, NEW v \in Ver PROVE After(v) \in AgentState
<1>1. state # NoState => state.cur \in Ver /\ state.prev \in Ver \union {NoVer}
  BY StateKinds DEF TypeOK
<1>2. PICK b \in Ver \union {NoVer} : After(v) = [cur |-> v, prev |-> b]
  BY <1>1 DEF After
<1> QED
  BY <1>2, StateMade

LEMMA HalfDoneIsVersion == TypeOK => HalfDone \subseteq Ver \union {NoVer}
  BY DEF TypeOK, HalfDone, Owned

(* Each step keeps the types.                                              *)
LEMMA TypesActivation == Inv /\ Activation => TypeOK'
<1> SUFFICES ASSUME Inv, Activation PROVE TypeOK'
  OBVIOUS
<1>nxt. nxt.cur \in Ver /\ nxt.prev \in Ver \union {NoVer}
  BY StateKinds DEF Inv, TypeOK
<1>1. ASSUME NEW o \in Activations, Activate(o) PROVE TypeOK'
  BY <1>1, ReportKinds, OpKinds, DefKinds DEF Activate, Begin, disk, Snapshot, Inv, TypeOK, Steps
<1>2. ASSUME NEW v \in Ver, LoadBundle(v) PROVE TypeOK'
  <2>1. After(v) \in AgentState
    BY AfterIsState DEF Inv
  <2> QED
    BY <1>2, <2>1 DEF LoadBundle, disk, Inv, TypeOK, Steps
<1>3. CASE BundleRefused
  BY <1>3, ReportKinds DEF BundleRefused, End, disk, command, Inv, TypeOK, Steps
<1>4. ASSUME NEW o \in {"rollback", "rollback0"}, Rollback(o) PROVE TypeOK'
  BY <1>4, ReportKinds, OpKinds, DefKinds, StateKinds, StateMade DEF Rollback, Begin, External, disk, Snapshot, Inv, TypeOK, Steps
<1>5. CASE Stage
  BY <1>5, ReportKinds, DirKinds, <1>nxt DEF Stage, Goto, End, ButDir, command, External, Inv, TypeOK, Steps
<1>6. CASE Copy
  <2>1. dir' \in [Ver -> Directory]
    BY <1>6, <1>nxt, DirKinds DEF Copy, Goto, End, ButDir, command, External, Inv, TypeOK
  <2>2. (pc' = "seal" /\ report' = report) \/ (pc' = "idle" /\ report' = "failed")
    BY <1>6 DEF Copy, Goto, End, command
  <2>3. UNCHANGED <<ButDir, command>>
    BY <1>6 DEF Copy, Goto, End
  <2>4. report \in Reports
    BY DEF Inv, TypeOK
  <2>5. pc' \in Steps /\ report' \in Reports
    BY <2>2, <2>4, ReportKinds DEF Steps
  <2> QED
    BY <2>1, <2>3, <2>5 DEF ButDir, External, command, Inv, TypeOK
<1>7. CASE Seal
  BY <1>7, DirKinds, <1>nxt DEF Seal, ButDir, External, Inv, TypeOK, Steps
<1>8. CASE SealFails
  <2>1. dir' \in [Ver -> Directory]
    BY <1>8, <1>nxt, DirKinds DEF SealFails, End, ButDir, command, External, Inv, TypeOK
  <2> QED
    BY <1>8, <2>1, ReportKinds DEF SealFails, End, ButDir, command, External, Inv, TypeOK, Steps
<1>9. CASE StagedInVain
  BY <1>9, ReportKinds DEF StagedInVain, ButDir, command, External, Inv, TypeOK, Steps
<1>10. CASE LinkPrevious
  BY <1>10, <1>nxt DEF LinkPrevious, Goto, External, command, Inv, TypeOK, Steps
<1>11. CASE LinkCurrent
  BY <1>11, <1>nxt DEF LinkCurrent, Goto, External, command, Inv, TypeOK, Steps
<1>12. CASE WriteState
  BY <1>12 DEF WriteState, Goto, External, command, Inv, TypeOK, Steps
<1>13. CASE Stop
  BY <1>13 DEF Stop, Goto, disk, command, Inv, TypeOK, Steps
<1>14. CASE WaitStopped
  BY <1>14 DEF WaitStopped, Goto, External, disk, command, Inv, TypeOK, Steps
<1>15. CASE Define
  BY <1>15, DefKinds, <1>nxt DEF Define, Goto, External, command, Inv, TypeOK, Steps
<1>16. CASE DefinedStopped
  BY <1>16, ReportKinds, <1>nxt DEF DefinedStopped, End, External, disk, command, Inv, TypeOK, Steps
<1>17. CASE Start
  BY <1>17, <1>nxt DEF Start, Goto, disk, command, Inv, TypeOK, Steps
<1>18. CASE Healthy
  BY <1>18, ReportKinds, <1>nxt DEF Healthy, Goto, End, External, disk, command, Inv, TypeOK, Steps
<1>19. CASE Retire
  BY <1>19, ReportKinds, DirKinds DEF Retire, Goto, End, ButDir, command, External, Inv, TypeOK, Steps
<1>20. CASE RetireEnds
  <2>1. dir' \in [Ver -> Directory]
    BY <1>20, DirKinds DEF RetireEnds, Inv, TypeOK
  <2>2. pc' \in Steps /\ report' \in Reports
    BY <1>20, ReportKinds DEF RetireEnds, End, Steps
  <2> QED BY <1>20, <2>1, <2>2 DEF RetireEnds, End, ButDir, command, External, Inv, TypeOK
<1> QED
  BY <1>1, <1>2, <1>3, <1>4, <1>5, <1>6, <1>7, <1>8, <1>9, <1>10, <1>11, <1>12, <1>13, <1>14, <1>15,
       <1>16, <1>17, <1>18, <1>19, <1>20 DEF Activation

LEMMA TypesRestoration == Inv /\ Restoration => TypeOK'
<1> SUFFICES ASSUME Inv, Restoration PROVE TypeOK'
  OBVIOUS
<1>nxt. nxt.cur \in Ver /\ nxt.prev \in Ver \union {NoVer}
  BY StateKinds DEF Inv, TypeOK
<1>1. CASE Fail
  BY <1>1, HalfDoneIsVersion DEF Fail, Goto, disk, command, Inv, TypeOK, Steps
<1>2. CASE RestoreStop
  BY <1>2 DEF RestoreStop, Goto, disk, command, Inv, TypeOK, Steps
<1>3. CASE RestoreWait
  BY <1>3 DEF RestoreWait, Goto, External, disk, command, Inv, TypeOK, Steps
<1>4. CASE RestoreLink("r_link1", TRUE)
  BY <1>4, StateKinds DEF RestoreLink, Goto, External, command, Inv, TypeOK, Steps
<1>5. CASE RestoreLink("r_link2", FALSE)
  BY <1>5, StateKinds DEF RestoreLink, Goto, External, command, Inv, TypeOK, Steps
<1>6. CASE RestoreState
  BY <1>6 DEF RestoreState, Goto, External, command, Inv, TypeOK, Steps
<1>7. CASE RestoreDefinition
  BY <1>7, ReportKinds, DefKinds DEF RestoreDefinition, Goto, External, command, Inv, TypeOK, Steps
<1>8. CASE RestoreStart
  BY <1>8 DEF RestoreStart, Goto, disk, command, Inv, TypeOK, Steps, StoppedInv
<1>9. CASE RestoreHealthy
  BY <1>9, ReportKinds, StateKinds DEF RestoreHealthy, External, disk, command, Inv, TypeOK, Steps
<1>10. CASE GiveUp
  BY <1>10, ReportKinds, HalfDoneIsVersion DEF GiveUp, End, disk, command, Inv, TypeOK, Steps
<1>11. CASE Unstage
  BY <1>11, ReportKinds, DirKinds, <1>nxt DEF Unstage, Goto, End, ButDir, command, External, Inv, TypeOK, Steps
<1>12. CASE UnstageEnds
  <2>1. dir' \in [Ver -> Directory]
    BY <1>12, <1>nxt, DirKinds DEF UnstageEnds, Goto, End, ButDir, command, External, Inv, TypeOK
  <2>2. (pc' = "idle" /\ report' = report) \/ (pc' = "idle" /\ report' = "rollback failed")
    BY <1>12 DEF UnstageEnds, Goto, End, command
  <2>3. UNCHANGED <<ButDir, command>>
    BY <1>12 DEF UnstageEnds, Goto, End
  <2>4. report \in Reports
    BY DEF Inv, TypeOK
  <2>5. pc' \in Steps /\ report' \in Reports
    BY <2>2, <2>4, ReportKinds DEF Steps
  <2> QED
    BY <2>1, <2>3, <2>5 DEF ButDir, External, command, Inv, TypeOK
<1> QED
  BY <1>1, <1>2, <1>3, <1>4, <1>5, <1>6, <1>7, <1>8, <1>9, <1>10, <1>11, <1>12 DEF Restoration

LEMMA TypesSwitching == Inv /\ Switching => TypeOK'
<1> SUFFICES ASSUME Inv, Switching PROVE TypeOK'
  OBVIOUS
<1>nxt. nxt.cur \in Ver /\ nxt.prev \in Ver \union {NoVer}
  BY StateKinds DEF Inv, TypeOK
<1>1. CASE StartInstalled
  BY <1>1, ReportKinds, OpKinds, DefKinds DEF StartInstalled, Begin, External, disk, Snapshot, Inv, TypeOK, Steps
<1>2. CASE StartDefined
  BY <1>2 DEF StartDefined, Goto, disk, command, Inv, TypeOK, Steps, StoppedInv
<1>3. CASE InstalledHealthy
  BY <1>3, ReportKinds, StateKinds DEF InstalledHealthy, End, External, disk, command, Inv, TypeOK, Steps
<1>4. CASE StartFails
  BY <1>4, ReportKinds, HalfDoneIsVersion DEF StartFails, Goto, End, disk, command, Inv, TypeOK, Steps
<1>5. CASE StopAgain
  BY <1>5, ReportKinds, HalfDoneIsVersion DEF StopAgain, End, disk, command, Inv, TypeOK, Steps
<1>6. CASE Disable
  BY <1>6, ReportKinds, OpKinds, DefKinds DEF Disable, Begin, External, disk, Snapshot, Inv, TypeOK, Steps
<1>7. CASE DisableStop
  BY <1>7 DEF DisableStop, Goto, disk, command, Inv, TypeOK, Steps
<1>8. CASE DisableWait
  BY <1>8, ReportKinds DEF DisableWait, End, External, disk, command, Inv, TypeOK, Steps
<1> QED
  BY <1>1, <1>2, <1>3, <1>4, <1>5, <1>6, <1>7, <1>8 DEF Switching

LEMMA TypesRemoval == Inv /\ Removal => TypeOK'
<1> SUFFICES ASSUME Inv, Removal PROVE TypeOK'
  OBVIOUS
<1>nxt. nxt.cur \in Ver /\ nxt.prev \in Ver \union {NoVer}
  BY StateKinds DEF Inv, TypeOK
<1>1. ASSUME NEW o \in {"uninstall", "discard"}, Uninstall(o) PROVE TypeOK'
  BY <1>1, ReportKinds, OpKinds, DefKinds DEF Uninstall, Begin, External, disk, Snapshot, Inv, TypeOK, Steps
<1>2. ASSUME NEW o \in {"uninstall", "discard"}, UninstallNothing(o) PROVE TypeOK'
  BY <1>2, ReportKinds, QueueKinds DEF UninstallNothing, disk, command, Inv, TypeOK
<1>3. CASE UninstallStop
  BY <1>3 DEF UninstallStop, Goto, disk, command, Inv, TypeOK, Steps
<1>4. CASE UninstallWait
  BY <1>4 DEF UninstallWait, Goto, External, disk, command, Inv, TypeOK, Steps
<1>5. CASE PurgeCaptureState
  BY <1>5, QueueKinds DEF PurgeCaptureState, Goto, disk, command, Inv, TypeOK, Steps
<1>6. CASE RemoveDefinition
  BY <1>6, DefKinds DEF RemoveDefinition, Goto, External, command, Inv, TypeOK, Steps
<1>7. CASE RemoveCurrentLink
  BY <1>7 DEF RemoveCurrentLink, Goto, External, command, Inv, TypeOK, Steps
<1>8. CASE RemovePreviousLink
  BY <1>8 DEF RemovePreviousLink, Goto, External, command, Inv, TypeOK, Steps
<1>9. CASE RemoveRuntime("u_dir", "u_dir2", nxt.cur, "u_old")
  BY <1>9, DirKinds DEF RemoveRuntime, Goto, Gone, ButDir, command, External, Inv, TypeOK, Steps
<1>10. CASE RemoveRuntime("u_old", "u_old2", nxt.prev, "u_state")
  BY <1>10, DirKinds DEF RemoveRuntime, Goto, Gone, ButDir, command, External, Inv, TypeOK, Steps
<1>11. CASE RemoveState
  BY <1>11, ReportKinds DEF RemoveState, End, External, command, Inv, TypeOK, Steps
<1>12. CASE Quit
  BY <1>12, ReportKinds, HalfDoneIsVersion DEF Quit, End, disk, command, Inv, TypeOK, Steps
<1> QED
  BY <1>1, <1>2, <1>3, <1>4, <1>5, <1>6, <1>7, <1>8, <1>9, <1>10, <1>11, <1>12 DEF Removal

LEMMA TypesEnvironment == Inv /\ Environment => TypeOK'
<1> SUFFICES ASSUME Inv, Environment PROVE TypeOK'
  OBVIOUS
<1>nxt. nxt.cur \in Ver /\ nxt.prev \in Ver \union {NoVer}
  BY StateKinds DEF Inv, TypeOK
<1>1. CASE ForeignArrives
  BY <1>1, DefKinds DEF ForeignArrives, Same, External, command, Inv, TypeOK
<1>2. CASE ForeignLeaves
  BY <1>2, DefKinds DEF ForeignLeaves, Same, External, command, Inv, TypeOK
<1>3. CASE DesktopChanges
  BY <1>3 DEF DesktopChanges, Same, command, Inv, TypeOK
<1>4. CASE RelayWorks
  BY <1>4, QueueKinds DEF RelayWorks, Same, command, Inv, TypeOK
<1>5. CASE AlienEntry
  BY <1>5, QueueKinds DEF AlienEntry, Same, command, Inv, TypeOK
<1>6. CASE AlienRemoved
  BY <1>6, QueueKinds DEF AlienRemoved, Same, command, Inv, TypeOK
<1>7. CASE Login
  BY <1>7 DEF Login, Same, command, Inv, TypeOK, Owned
<1> QED
  BY <1>1, <1>2, <1>3, <1>4, <1>5, <1>6, <1>7 DEF Environment

LEMMA TypesStep == Inv /\ [Next]_vars => TypeOK'
<1> SUFFICES ASSUME Inv, [Next]_vars PROVE TypeOK'
  OBVIOUS
<1>1. CASE Crash
  BY <1>1, ReportKinds, HalfDoneIsVersion DEF Crash, End, disk, command, Inv, TypeOK, Steps
<1>2. CASE UNCHANGED vars
  BY <1>2 DEF vars, disk, command, Inv, TypeOK
<1> QED
  BY <1>1, <1>2, TypesActivation, TypesRestoration, TypesSwitching, TypesRemoval, TypesEnvironment DEF Next

--------------------------------------------------------------------------------
(* Each step keeps the rest of the invariant.                              *)
Rest == ServiceRunnable /\ StagedInv /\ SnapInv /\ CreatedInv /\ StoppedInv /\ StateInv

LEMMA KeepsActivation == Inv /\ Activation => Rest'
<1> SUFFICES ASSUME Inv, Activation PROVE Rest'
  OBVIOUS
<1>nxt. nxt.cur \in Ver /\ nxt.prev \in Ver \union {NoVer}
  BY StateKinds DEF Inv, TypeOK
<1>1. ASSUME NEW o \in Activations, Activate(o) PROVE Rest'
  BY <1>1, DefKinds, StateKinds DEF Activate, Begin, ListenerUp, disk, ValidInstalled, Snapshot, Sealed, Owned, Inv, Rest,
       ServiceRunnable, StagedInv, SnapInv, CreatedInv, StoppedInv, StateInv, Staging, Putting, Switch,
       Emptying, Fallible, Awaits, TypeOK
<1>2. ASSUME NEW v \in Ver, LoadBundle(v) PROVE Rest'
  BY <1>2, DefKinds, StateKinds, AfterIsState DEF LoadBundle, After, disk, Inv, Rest, ServiceRunnable, StagedInv, SnapInv, CreatedInv, StoppedInv,
       StateInv, Staging, Putting, Switch, Emptying, Fallible, Awaits, TypeOK, Owned, Sealed
<1>3. CASE BundleRefused
  BY <1>3, DefKinds, StateKinds DEF BundleRefused, End, disk, command, Inv, Rest, ServiceRunnable, StagedInv, SnapInv, CreatedInv,
       StoppedInv, StateInv, Staging, Putting, Switch, Emptying, Fallible, Awaits, TypeOK, Owned, Sealed
<1>4. ASSUME NEW o \in {"rollback", "rollback0"}, Rollback(o) PROVE Rest'
  BY <1>4, DefKinds, StateKinds, StateMade DEF Rollback, Begin, External, disk, Owned, ValidInstalled, Snapshot, Sealed, Inv, Rest,
       ServiceRunnable, StagedInv, SnapInv, CreatedInv, StoppedInv, StateInv, Staging, Putting, Switch,
       Emptying, Fallible, Awaits, TypeOK
<1>5. CASE Stage
  <2>t. dir \in [Ver -> Directory] /\ def \in Definition /\ running \in Ver \union {NoVer}
    BY DEF Inv, TypeOK
  <2>e. \A v \in Ver : v # nxt.cur => dir'[v] = dir[v]
    BY <1>5, <1>nxt, <2>t DEF Stage, Goto, End, ButDir, command, External
  <2>1. ServiceRunnable'
    BY <1>5, <1>nxt, <2>t, <2>e, DefKinds, StateKinds DEF Stage, Goto, End, ButDir, command, External, Inv, ServiceRunnable, StagedInv, SnapInv, CreatedInv, StoppedInv, StateInv, Staging, Putting, Switch,
       Emptying, Fallible, Owned, Sealed
  <2>2. StagedInv'
    BY <1>5, <1>nxt, <2>t, <2>e, DefKinds, StateKinds DEF Stage, Goto, End, ButDir, command, External, Inv, StagedInv, SnapInv, CreatedInv, StoppedInv, StateInv, Staging, Putting, Switch, Emptying, Fallible,
       Owned, Sealed, ServiceRunnable
  <2>3. SnapInv'
    BY <1>5, <1>nxt, <2>t, <2>e, DefKinds, StateKinds DEF Stage, Goto, End, ButDir, command, External, Inv, SnapInv, StagedInv, CreatedInv, StoppedInv, StateInv, Staging, Putting, Switch, Emptying, Fallible,
       Owned, Sealed, ServiceRunnable
  <2>4. CreatedInv'
    BY <1>5, <1>nxt, <2>t, <2>e, DefKinds, StateKinds DEF Stage, Goto, End, ButDir, command, External, Inv, CreatedInv, StagedInv, SnapInv, StoppedInv, StateInv, Staging, Putting, Switch, Emptying, Fallible,
       Owned, Sealed, ServiceRunnable
  <2>5. StoppedInv'
    BY <1>5, <1>nxt, <2>t, <2>e, DefKinds, StateKinds DEF Stage, Goto, End, ButDir, command, External, Inv, StoppedInv, StagedInv, SnapInv, CreatedInv, StateInv, Staging, Putting, Switch, Emptying, Fallible,
       Owned, Sealed, ServiceRunnable
  <2>6. StateInv'
    BY <1>5, <1>nxt, <2>t, <2>e, DefKinds, StateKinds DEF Stage, Goto, End, ButDir, command, External, Inv, StateInv, StagedInv, SnapInv, CreatedInv, StoppedInv, Staging, Putting, Switch, Emptying, Fallible,
       Owned, Sealed, ServiceRunnable
  <2> QED
    BY <2>1, <2>2, <2>3, <2>4, <2>5, <2>6 DEF Rest
<1>6. CASE Copy
  BY <1>6, DefKinds, StateKinds, <1>nxt DEF Copy, Goto, End, ButDir, command, External, Inv, Rest, ServiceRunnable, StagedInv, SnapInv,
       CreatedInv, StoppedInv, StateInv, Staging, Putting, Switch, Emptying, Fallible, Awaits, TypeOK,
       Owned, Sealed
<1>7. CASE Seal
  BY <1>7, DefKinds, StateKinds, <1>nxt DEF Seal, ButDir, External, Inv, Rest, ServiceRunnable, StagedInv, SnapInv, CreatedInv, StoppedInv,
       StateInv, Staging, Putting, Switch, Emptying, Fallible, Awaits, TypeOK, Owned, Sealed
<1>8. CASE SealFails
  BY <1>8, DefKinds, StateKinds, <1>nxt DEF SealFails, End, ButDir, command, External, Inv, Rest, ServiceRunnable, StagedInv, SnapInv,
       CreatedInv, StoppedInv, StateInv, Staging, Putting, Switch, Emptying, Fallible, Awaits, TypeOK,
       Owned, Sealed
<1>9. CASE StagedInVain
  BY <1>9, DefKinds, StateKinds DEF StagedInVain, ButDir, command, External, Inv, Rest, ServiceRunnable, StagedInv, SnapInv,
       CreatedInv, StoppedInv, StateInv, Staging, Putting, Switch, Emptying, Fallible, Awaits, TypeOK,
       Owned, Sealed
<1>10. CASE LinkPrevious
  BY <1>10, DefKinds, StateKinds, <1>nxt DEF LinkPrevious, Goto, External, command, Inv, Rest, ServiceRunnable, StagedInv, SnapInv, CreatedInv,
       StoppedInv, StateInv, Staging, Putting, Switch, Emptying, Fallible, Awaits, TypeOK, Owned, Sealed
<1>11. CASE LinkCurrent
  BY <1>11, DefKinds, StateKinds, <1>nxt DEF LinkCurrent, Goto, External, command, Inv, Rest, ServiceRunnable, StagedInv, SnapInv, CreatedInv,
       StoppedInv, StateInv, Staging, Putting, Switch, Emptying, Fallible, Awaits, TypeOK, Owned, Sealed
<1>12. CASE WriteState
  BY <1>12, DefKinds, StateKinds DEF WriteState, Goto, External, command, Inv, Rest, ServiceRunnable, StagedInv, SnapInv, CreatedInv,
       StoppedInv, StateInv, Staging, Putting, Switch, Emptying, Fallible, Awaits, TypeOK, Owned, Sealed
<1>13. CASE Stop
  BY <1>13, DefKinds, StateKinds DEF Stop, Goto, disk, command, Inv, Rest, ServiceRunnable, StagedInv, SnapInv, CreatedInv, StoppedInv,
       StateInv, Staging, Putting, Switch, Emptying, Fallible, Awaits, TypeOK, Owned, Sealed
<1>14. CASE WaitStopped
  BY <1>14, DefKinds, StateKinds DEF WaitStopped, Goto, External, PluginStopped, disk, command, Owned, Inv, Rest, ServiceRunnable,
       StagedInv, SnapInv, CreatedInv, StoppedInv, StateInv, Staging, Putting, Switch, Emptying, Fallible,
       Awaits, TypeOK, Sealed
<1>15. CASE Define
  BY <1>15, DefKinds, StateKinds, <1>nxt DEF Define, Goto, External, command, Inv, Rest, ServiceRunnable, StagedInv, SnapInv, CreatedInv,
       StoppedInv, StateInv, Staging, Putting, Switch, Emptying, Fallible, Awaits, TypeOK, Owned, Sealed
<1>16. CASE DefinedStopped
  BY <1>16, DefKinds, StateKinds, <1>nxt DEF DefinedStopped, End, External, disk, command, Inv, Rest, ServiceRunnable, StagedInv, SnapInv,
       CreatedInv, StoppedInv, StateInv, Staging, Putting, Switch, Emptying, Fallible, Awaits, TypeOK,
       Owned, Sealed
<1>17. CASE Start
  BY <1>17, DefKinds, StateKinds, <1>nxt DEF Start, Goto, disk, command, Inv, Rest, ServiceRunnable, StagedInv, SnapInv, CreatedInv, StoppedInv,
       StateInv, Staging, Putting, Switch, Emptying, Fallible, Awaits, TypeOK, Owned, Sealed
<1>18. CASE Healthy
  BY <1>18, DefKinds, StateKinds, <1>nxt DEF Healthy, Goto, End, Retired, External, disk, HealthProves, command, Inv, Rest, ServiceRunnable,
       StagedInv, SnapInv, CreatedInv, StoppedInv, StateInv, Staging, Putting, Switch, Emptying, Fallible,
       Awaits, TypeOK, Owned, Sealed
<1>19. CASE Retire
  BY <1>19, DefKinds, StateKinds DEF Retire, Goto, End, Retired, ButDir, Sealed, command, External, Inv, Rest, ServiceRunnable,
       StagedInv, SnapInv, CreatedInv, StoppedInv, StateInv, Staging, Putting, Switch, Emptying, Fallible,
       Awaits, TypeOK, Owned
<1>20. CASE RetireEnds
  BY <1>20, DefKinds, StateKinds DEF RetireEnds, End, Retired, ButDir, command, External, Inv, Rest, ServiceRunnable, StagedInv,
       SnapInv, CreatedInv, StoppedInv, StateInv, Staging, Putting, Switch, Emptying, Fallible, Awaits,
       TypeOK, Owned, Sealed
<1> QED
  BY <1>1, <1>2, <1>3, <1>4, <1>5, <1>6, <1>7, <1>8, <1>9, <1>10, <1>11, <1>12, <1>13, <1>14, <1>15,
       <1>16, <1>17, <1>18, <1>19, <1>20 DEF Activation

LEMMA KeepsRestoration == Inv /\ Restoration => Rest'
<1> SUFFICES ASSUME Inv, Restoration PROVE Rest'
  OBVIOUS
<1>nxt. nxt.cur \in Ver /\ nxt.prev \in Ver \union {NoVer}
  BY StateKinds DEF Inv, TypeOK
<1>1. CASE Fail
  BY <1>1, DefKinds, StateKinds, HalfDoneIsVersion DEF Fail, Goto, HalfDone, disk, command, Owned, Inv, Rest, ServiceRunnable, StagedInv, SnapInv,
       CreatedInv, StoppedInv, StateInv, Staging, Putting, Switch, Emptying, Fallible, Awaits, TypeOK,
       Sealed
<1>2. CASE RestoreStop
  BY <1>2, DefKinds, StateKinds DEF RestoreStop, Goto, Ours, disk, command, Inv, Rest, ServiceRunnable, StagedInv, SnapInv, CreatedInv,
       StoppedInv, StateInv, Staging, Putting, Switch, Emptying, Fallible, Awaits, TypeOK, Owned, Sealed
<1>3. CASE RestoreWait
  BY <1>3, DefKinds, StateKinds DEF RestoreWait, Goto, External, Ours, PluginStopped, disk, command, Owned, Inv, Rest, ServiceRunnable,
       StagedInv, SnapInv, CreatedInv, StoppedInv, StateInv, Staging, Putting, Switch, Emptying, Fallible,
       Awaits, TypeOK, Sealed
<1>4. CASE RestoreLink("r_link1", TRUE)
  BY <1>4, DefKinds, StateKinds DEF RestoreLink, Goto, External, command, Inv, Rest, ServiceRunnable, StagedInv, SnapInv, CreatedInv,
       StoppedInv, StateInv, Staging, Putting, Switch, Emptying, Fallible, Awaits, TypeOK, Owned, Sealed
<1>5. CASE RestoreLink("r_link2", FALSE)
  BY <1>5, DefKinds, StateKinds DEF RestoreLink, Goto, External, command, Inv, Rest, ServiceRunnable, StagedInv, SnapInv, CreatedInv,
       StoppedInv, StateInv, Staging, Putting, Switch, Emptying, Fallible, Awaits, TypeOK, Owned, Sealed
<1>6. CASE RestoreState
  <2>t. dir \in [Ver -> Directory] /\ def \in Definition /\ running \in Ver \union {NoVer}
    BY DEF Inv, TypeOK
  <2>1. ServiceRunnable'
    BY <1>6, <1>nxt, <2>t, DefKinds, StateKinds DEF RestoreState, Goto, External, command, Inv, ServiceRunnable, StagedInv, SnapInv, CreatedInv, StoppedInv, StateInv, Staging, Putting, Switch,
       Emptying, Fallible, Owned, Sealed
  <2>2. StagedInv'
    BY <1>6, <1>nxt, <2>t, DefKinds, StateKinds DEF RestoreState, Goto, External, command, Inv, StagedInv, SnapInv, CreatedInv, StoppedInv, StateInv, Staging, Putting, Switch, Emptying, Fallible,
       Owned, Sealed, ServiceRunnable
  <2>3. SnapInv'
    BY <1>6, <1>nxt, <2>t, DefKinds, StateKinds DEF RestoreState, Goto, External, command, Inv, SnapInv, StagedInv, CreatedInv, StoppedInv, StateInv, Staging, Putting, Switch, Emptying, Fallible,
       Owned, Sealed, ServiceRunnable
  <2>4. CreatedInv'
    BY <1>6, <1>nxt, <2>t, DefKinds, StateKinds DEF RestoreState, Goto, External, command, Inv, CreatedInv, StagedInv, SnapInv, StoppedInv, StateInv, Staging, Putting, Switch, Emptying, Fallible,
       Owned, Sealed, ServiceRunnable
  <2>5. StoppedInv'
    BY <1>6, <1>nxt, <2>t, DefKinds, StateKinds DEF RestoreState, Goto, External, command, Inv, StoppedInv, StagedInv, SnapInv, CreatedInv, StateInv, Staging, Putting, Switch, Emptying, Fallible,
       Owned, Sealed, ServiceRunnable
  <2>6. StateInv'
    BY <1>6, <1>nxt, <2>t, DefKinds, StateKinds DEF RestoreState, Goto, External, command, Inv, StateInv, StagedInv, SnapInv, CreatedInv, StoppedInv, Staging, Putting, Switch, Emptying, Fallible,
       Owned, Sealed, ServiceRunnable
  <2> QED
    BY <2>1, <2>2, <2>3, <2>4, <2>5, <2>6 DEF Rest
<1>7. CASE RestoreDefinition
  BY <1>7, DefKinds, StateKinds DEF RestoreDefinition, Goto, External, Ours, command, Inv, Rest, ServiceRunnable, StagedInv, SnapInv,
       CreatedInv, StoppedInv, StateInv, Staging, Putting, Switch, Emptying, Fallible, Awaits, TypeOK,
       Owned, Sealed
<1>8. CASE RestoreStart
  BY <1>8, DefKinds, StateKinds DEF RestoreStart, Goto, disk, command, Inv, Rest, ServiceRunnable, StagedInv, SnapInv, CreatedInv,
       StoppedInv, StateInv, Staging, Putting, Switch, Emptying, Fallible, Awaits, TypeOK, Owned, Sealed
<1>9. CASE RestoreHealthy
  <2>t. dir \in [Ver -> Directory] /\ def \in Definition /\ running \in Ver \union {NoVer}
    BY DEF Inv, TypeOK
  <2>1. ServiceRunnable'
    BY <1>9, <1>nxt, <2>t, DefKinds, StateKinds DEF RestoreHealthy, External, disk, command, Inv, ServiceRunnable, StagedInv, SnapInv, CreatedInv, StoppedInv, StateInv, Staging, Putting, Switch,
       Emptying, Fallible, Owned, Sealed
  <2>2. StagedInv'
    BY <1>9, <1>nxt, <2>t, DefKinds, StateKinds DEF RestoreHealthy, External, disk, command, Inv, StagedInv, SnapInv, CreatedInv, StoppedInv, StateInv, Staging, Putting, Switch, Emptying, Fallible,
       Owned, Sealed, ServiceRunnable
  <2>3. SnapInv'
    BY <1>9, <1>nxt, <2>t, DefKinds, StateKinds DEF RestoreHealthy, External, disk, command, Inv, SnapInv, StagedInv, CreatedInv, StoppedInv, StateInv, Staging, Putting, Switch, Emptying, Fallible,
       Owned, Sealed, ServiceRunnable
  <2>4. CreatedInv'
    BY <1>9, <1>nxt, <2>t, DefKinds, StateKinds DEF RestoreHealthy, External, disk, command, Inv, CreatedInv, StagedInv, SnapInv, StoppedInv, StateInv, Staging, Putting, Switch, Emptying, Fallible,
       Owned, Sealed, ServiceRunnable
  <2>5. StoppedInv'
    BY <1>9, <1>nxt, <2>t, DefKinds, StateKinds DEF RestoreHealthy, External, disk, command, Inv, StoppedInv, StagedInv, SnapInv, CreatedInv, StateInv, Staging, Putting, Switch, Emptying, Fallible,
       Owned, Sealed, ServiceRunnable
  <2>6. StateInv'
    BY <1>9, <1>nxt, <2>t, DefKinds, StateKinds DEF RestoreHealthy, External, disk, command, Inv, StateInv, StagedInv, SnapInv, CreatedInv, StoppedInv, Staging, Putting, Switch, Emptying, Fallible,
       Owned, Sealed, ServiceRunnable
  <2> QED
    BY <2>1, <2>2, <2>3, <2>4, <2>5, <2>6 DEF Rest
<1>10. CASE GiveUp
  BY <1>10, DefKinds, StateKinds, HalfDoneIsVersion DEF GiveUp, End, HalfDone, disk, command, Owned, Inv, Rest, ServiceRunnable, StagedInv, SnapInv,
       CreatedInv, StoppedInv, StateInv, Staging, Putting, Switch, Emptying, Fallible, Awaits, TypeOK,
       Sealed
<1>11. CASE Unstage
  BY <1>11, DefKinds, StateKinds, <1>nxt DEF Unstage, Goto, End, ButDir, command, External, Inv, Rest, ServiceRunnable, StagedInv, SnapInv,
       CreatedInv, StoppedInv, StateInv, Staging, Putting, Switch, Emptying, Fallible, Awaits, TypeOK,
       Owned, Sealed
<1>12. CASE UnstageEnds
  <2>t. dir \in [Ver -> Directory] /\ def \in Definition /\ running \in Ver \union {NoVer}
    BY DEF Inv, TypeOK
  <2>e. \A v \in Ver : v # nxt.cur => dir'[v] = dir[v]
    BY <1>12, <1>nxt, <2>t DEF UnstageEnds, End, ButDir, command, External
  <2>1. ServiceRunnable'
    BY <1>12, <1>nxt, <2>t, <2>e, DefKinds, StateKinds DEF UnstageEnds, End, ButDir, command, External, Inv, ServiceRunnable, StagedInv, SnapInv, CreatedInv, StoppedInv, StateInv, Staging, Putting, Switch,
       Emptying, Fallible, Owned, Sealed
  <2>2. StagedInv'
    BY <1>12, <1>nxt, <2>t, <2>e, DefKinds, StateKinds DEF UnstageEnds, End, ButDir, command, External, Inv, StagedInv, SnapInv, CreatedInv, StoppedInv, StateInv, Staging, Putting, Switch, Emptying, Fallible,
       Owned, Sealed, ServiceRunnable
  <2>3. SnapInv'
    BY <1>12, <1>nxt, <2>t, <2>e, DefKinds, StateKinds DEF UnstageEnds, End, ButDir, command, External, Inv, SnapInv, StagedInv, CreatedInv, StoppedInv, StateInv, Staging, Putting, Switch, Emptying, Fallible,
       Owned, Sealed, ServiceRunnable
  <2>4. CreatedInv'
    BY <1>12, <1>nxt, <2>t, <2>e, DefKinds, StateKinds DEF UnstageEnds, End, ButDir, command, External, Inv, CreatedInv, StagedInv, SnapInv, StoppedInv, StateInv, Staging, Putting, Switch, Emptying, Fallible,
       Owned, Sealed, ServiceRunnable
  <2>5. StoppedInv'
    BY <1>12, <1>nxt, <2>t, <2>e, DefKinds, StateKinds DEF UnstageEnds, End, ButDir, command, External, Inv, StoppedInv, StagedInv, SnapInv, CreatedInv, StateInv, Staging, Putting, Switch, Emptying, Fallible,
       Owned, Sealed, ServiceRunnable
  <2>6. StateInv'
    BY <1>12, <1>nxt, <2>t, <2>e, DefKinds, StateKinds DEF UnstageEnds, End, ButDir, command, External, Inv, StateInv, StagedInv, SnapInv, CreatedInv, StoppedInv, Staging, Putting, Switch, Emptying, Fallible,
       Owned, Sealed, ServiceRunnable
  <2> QED
    BY <2>1, <2>2, <2>3, <2>4, <2>5, <2>6 DEF Rest
<1> QED
  BY <1>1, <1>2, <1>3, <1>4, <1>5, <1>6, <1>7, <1>8, <1>9, <1>10, <1>11, <1>12 DEF Restoration

LEMMA KeepsSwitching == Inv /\ Switching => Rest'
<1> SUFFICES ASSUME Inv, Switching PROVE Rest'
  OBVIOUS
<1>nxt. nxt.cur \in Ver /\ nxt.prev \in Ver \union {NoVer}
  BY StateKinds DEF Inv, TypeOK
<1>1. CASE StartInstalled
  BY <1>1, DefKinds, StateKinds DEF StartInstalled, Begin, External, disk, Owned, ValidInstalled, Snapshot, Sealed, Inv, Rest,
       ServiceRunnable, StagedInv, SnapInv, CreatedInv, StoppedInv, StateInv, Staging, Putting, Switch,
       Emptying, Fallible, Awaits, TypeOK
<1>2. CASE StartDefined
  BY <1>2, DefKinds, StateKinds DEF StartDefined, Goto, disk, command, Inv, Rest, ServiceRunnable, StagedInv, SnapInv, CreatedInv,
       StoppedInv, StateInv, Staging, Putting, Switch, Emptying, Fallible, Awaits, TypeOK, Owned, Sealed
<1>3. CASE InstalledHealthy
  BY <1>3, DefKinds, StateKinds DEF InstalledHealthy, End, External, disk, HealthProves, command, Inv, Rest, ServiceRunnable,
       StagedInv, SnapInv, CreatedInv, StoppedInv, StateInv, Staging, Putting, Switch, Emptying, Fallible,
       Awaits, TypeOK, Owned, Sealed
<1>4. CASE StartFails
  BY <1>4, DefKinds, StateKinds, HalfDoneIsVersion DEF StartFails, Goto, End, HalfDone, disk, command, Owned, Inv, Rest, ServiceRunnable, StagedInv,
       SnapInv, CreatedInv, StoppedInv, StateInv, Staging, Putting, Switch, Emptying, Fallible, Awaits,
       TypeOK, Sealed
<1>5. CASE StopAgain
  BY <1>5, DefKinds, StateKinds, HalfDoneIsVersion DEF StopAgain, End, HalfDone, disk, command, Owned, Inv, Rest, ServiceRunnable, StagedInv, SnapInv,
       CreatedInv, StoppedInv, StateInv, Staging, Putting, Switch, Emptying, Fallible, Awaits, TypeOK,
       Sealed
<1>6. CASE Disable
  BY <1>6, DefKinds, StateKinds DEF Disable, Begin, External, disk, Owned, ValidInstalled, Snapshot, Sealed, Inv, Rest,
       ServiceRunnable, StagedInv, SnapInv, CreatedInv, StoppedInv, StateInv, Staging, Putting, Switch,
       Emptying, Fallible, Awaits, TypeOK
<1>7. CASE DisableStop
  BY <1>7, DefKinds, StateKinds DEF DisableStop, Goto, disk, command, Inv, Rest, ServiceRunnable, StagedInv, SnapInv, CreatedInv,
       StoppedInv, StateInv, Staging, Putting, Switch, Emptying, Fallible, Awaits, TypeOK, Owned, Sealed
<1>8. CASE DisableWait
  BY <1>8, DefKinds, StateKinds DEF DisableWait, End, External, PluginStopped, disk, Inventoried, command, Owned, Inv, Rest,
       ServiceRunnable, StagedInv, SnapInv, CreatedInv, StoppedInv, StateInv, Staging, Putting, Switch,
       Emptying, Fallible, Awaits, TypeOK, Sealed
<1> QED
  BY <1>1, <1>2, <1>3, <1>4, <1>5, <1>6, <1>7, <1>8 DEF Switching

LEMMA KeepsRemoval == Inv /\ Removal => Rest'
<1> SUFFICES ASSUME Inv, Removal PROVE Rest'
  OBVIOUS
<1>nxt. nxt.cur \in Ver /\ nxt.prev \in Ver \union {NoVer}
  BY StateKinds DEF Inv, TypeOK
<1>1. ASSUME NEW o \in {"uninstall", "discard"}, Uninstall(o) PROVE Rest'
  BY <1>1, DefKinds, StateKinds DEF Uninstall, Begin, External, disk, Owned, ValidInstalled, PartlyUninstalled, Inventoried, Snapshot,
       Sealed, Inv, Rest, ServiceRunnable, StagedInv, SnapInv, CreatedInv, StoppedInv, StateInv, Staging,
       Putting, Switch, Emptying, Fallible, Awaits, TypeOK
<1>2. ASSUME NEW o \in {"uninstall", "discard"}, UninstallNothing(o) PROVE Rest'
  BY <1>2, DefKinds, StateKinds DEF UninstallNothing, disk, command, Inventoried, Inv, Rest, ServiceRunnable, StagedInv, SnapInv,
       CreatedInv, StoppedInv, StateInv, Staging, Putting, Switch, Emptying, Fallible, Awaits, TypeOK,
       Owned, Sealed
<1>3. CASE UninstallStop
  BY <1>3, DefKinds, StateKinds DEF UninstallStop, Goto, disk, command, Inv, Rest, ServiceRunnable, StagedInv, SnapInv, CreatedInv,
       StoppedInv, StateInv, Staging, Putting, Switch, Emptying, Fallible, Awaits, TypeOK, Owned, Sealed
<1>4. CASE UninstallWait
  BY <1>4, DefKinds, StateKinds DEF UninstallWait, Goto, External, PluginStopped, disk, command, Owned, Inv, Rest, ServiceRunnable,
       StagedInv, SnapInv, CreatedInv, StoppedInv, StateInv, Staging, Putting, Switch, Emptying, Fallible,
       Awaits, TypeOK, Sealed
<1>5. CASE PurgeCaptureState
  BY <1>5, DefKinds, StateKinds DEF PurgeCaptureState, Goto, disk, Inventoried, command, Inv, Rest, ServiceRunnable, StagedInv,
       SnapInv, CreatedInv, StoppedInv, StateInv, Staging, Putting, Switch, Emptying, Fallible, Awaits,
       TypeOK, Owned, Sealed
<1>6. CASE RemoveDefinition
  BY <1>6, DefKinds, StateKinds DEF RemoveDefinition, Goto, External, command, Inv, Rest, ServiceRunnable, StagedInv, SnapInv,
       CreatedInv, StoppedInv, StateInv, Staging, Putting, Switch, Emptying, Fallible, Awaits, TypeOK,
       Owned, Sealed
<1>7. CASE RemoveCurrentLink
  BY <1>7, DefKinds, StateKinds DEF RemoveCurrentLink, Goto, External, command, Inv, Rest, ServiceRunnable, StagedInv, SnapInv,
       CreatedInv, StoppedInv, StateInv, Staging, Putting, Switch, Emptying, Fallible, Awaits, TypeOK,
       Owned, Sealed
<1>8. CASE RemovePreviousLink
  BY <1>8, DefKinds, StateKinds DEF RemovePreviousLink, Goto, External, command, Inv, Rest, ServiceRunnable, StagedInv, SnapInv,
       CreatedInv, StoppedInv, StateInv, Staging, Putting, Switch, Emptying, Fallible, Awaits, TypeOK,
       Owned, Sealed
<1>9. CASE RemoveRuntime("u_dir", "u_dir2", nxt.cur, "u_old")
  BY <1>9, DefKinds, StateKinds DEF RemoveRuntime, Goto, Gone, ButDir, command, PartlyRemoved, External, Inv, Rest, ServiceRunnable,
       StagedInv, SnapInv, CreatedInv, StoppedInv, StateInv, Staging, Putting, Switch, Emptying, Fallible,
       Awaits, TypeOK, Owned, Sealed
<1>10. CASE RemoveRuntime("u_old", "u_old2", nxt.prev, "u_state")
  BY <1>10, DefKinds, StateKinds DEF RemoveRuntime, Goto, Gone, ButDir, command, PartlyRemoved, External, Inv, Rest, ServiceRunnable,
       StagedInv, SnapInv, CreatedInv, StoppedInv, StateInv, Staging, Putting, Switch, Emptying, Fallible,
       Awaits, TypeOK, Owned, Sealed
<1>11. CASE RemoveState
  BY <1>11, DefKinds, StateKinds DEF RemoveState, End, External, command, Inv, Rest, ServiceRunnable, StagedInv, SnapInv, CreatedInv,
       StoppedInv, StateInv, Staging, Putting, Switch, Emptying, Fallible, Awaits, TypeOK, Owned, Sealed
<1>12. CASE Quit
  BY <1>12, DefKinds, StateKinds, HalfDoneIsVersion DEF Quit, End, HalfDone, disk, command, Owned, Inv, Rest, ServiceRunnable, StagedInv, SnapInv,
       CreatedInv, StoppedInv, StateInv, Staging, Putting, Switch, Emptying, Fallible, Awaits, TypeOK,
       Sealed
<1> QED
  BY <1>1, <1>2, <1>3, <1>4, <1>5, <1>6, <1>7, <1>8, <1>9, <1>10, <1>11, <1>12 DEF Removal

LEMMA KeepsEnvironment == Inv /\ Environment => Rest'
<1> SUFFICES ASSUME Inv, Environment PROVE Rest'
  OBVIOUS
<1>nxt. nxt.cur \in Ver /\ nxt.prev \in Ver \union {NoVer}
  BY StateKinds DEF Inv, TypeOK
<1>1. CASE ForeignArrives
  BY <1>1, DefKinds, StateKinds DEF ForeignArrives, Same, External, command, Inv, Rest, ServiceRunnable, StagedInv, SnapInv,
       CreatedInv, StoppedInv, StateInv, Staging, Putting, Switch, Emptying, Fallible, Awaits, TypeOK,
       Owned, Sealed
<1>2. CASE ForeignLeaves
  BY <1>2, DefKinds, StateKinds DEF ForeignLeaves, Same, External, command, Inv, Rest, ServiceRunnable, StagedInv, SnapInv, CreatedInv,
       StoppedInv, StateInv, Staging, Putting, Switch, Emptying, Fallible, Awaits, TypeOK, Owned, Sealed
<1>3. CASE DesktopChanges
  BY <1>3, DefKinds, StateKinds DEF DesktopChanges, Same, command, Inv, Rest, ServiceRunnable, StagedInv, SnapInv, CreatedInv,
       StoppedInv, StateInv, Staging, Putting, Switch, Emptying, Fallible, Awaits, TypeOK, Owned, Sealed
<1>4. CASE RelayWorks
  BY <1>4, DefKinds, StateKinds DEF RelayWorks, Same, Inventoried, command, Inv, Rest, ServiceRunnable, StagedInv, SnapInv, CreatedInv,
       StoppedInv, StateInv, Staging, Putting, Switch, Emptying, Fallible, Awaits, TypeOK, Owned, Sealed
<1>5. CASE AlienEntry
  BY <1>5, DefKinds, StateKinds DEF AlienEntry, Same, command, Inv, Rest, ServiceRunnable, StagedInv, SnapInv, CreatedInv, StoppedInv,
       StateInv, Staging, Putting, Switch, Emptying, Fallible, Awaits, TypeOK, Owned, Sealed
<1>6. CASE AlienRemoved
  BY <1>6, DefKinds, StateKinds DEF AlienRemoved, Same, command, Inv, Rest, ServiceRunnable, StagedInv, SnapInv, CreatedInv,
       StoppedInv, StateInv, Staging, Putting, Switch, Emptying, Fallible, Awaits, TypeOK, Owned, Sealed
<1>7. CASE Login
  BY <1>7, DefKinds, StateKinds DEF Login, Same, Owned, command, Inv, Rest, ServiceRunnable, StagedInv, SnapInv, CreatedInv,
       StoppedInv, StateInv, Staging, Putting, Switch, Emptying, Fallible, Awaits, TypeOK, Sealed
<1> QED
  BY <1>1, <1>2, <1>3, <1>4, <1>5, <1>6, <1>7 DEF Environment

LEMMA InvStep == Inv /\ [Next]_vars => Inv'
<1> SUFFICES ASSUME Inv, [Next]_vars PROVE Inv'
  OBVIOUS
<1>1. TypeOK'
  BY TypesStep DEF Inv
<1>2. CASE Crash
  <2>1. Rest'
    BY <1>2 DEF Crash, End, HalfDone, disk, command, Inv, Rest, ServiceRunnable, StagedInv, SnapInv, CreatedInv, StoppedInv, StateInv, Staging, Putting, Switch,
       Emptying, Fallible, Awaits, Owned, Sealed
  <2> QED
    BY <1>1, <2>1 DEF Inv, Rest
<1>3. CASE UNCHANGED vars
  BY <1>3 DEF vars, disk, command, Inv, TypeOK, Owned, Sealed, ServiceRunnable, StagedInv, SnapInv, CreatedInv, StoppedInv, StateInv
<1> QED
  BY <1>1, <1>2, <1>3, KeepsActivation, KeepsRestoration, KeepsSwitching, KeepsRemoval, KeepsEnvironment
     DEF Next, Inv, Rest

LEMMA InvInit == Init => Inv
<1> SUFFICES ASSUME Init PROVE Inv
  OBVIOUS
<1>1. nxt \in AgentState
  BY DEF Init, AgentState
<1>2. [state |-> NoState, def |-> NoDef, loaded |-> FALSE]
        \in [state : AgentState \union {NoState}, def : Definition, loaded : BOOLEAN]
  BY DefKinds
<1>3. "setup" \in Ops
  BY DEF Ops
<1>4. TypeOK
  BY <1>1, <1>2, <1>3, ReportKinds, DirKinds, QueueKinds, DefKinds DEF Init, TypeOK, Steps
<1>5. pc = "idle" /\ created = FALSE /\ def = NoDef /\ running = NoVer
      /\ snap.def = NoDef /\ snap.loaded = FALSE
  BY DEF Init
<1>6. Rest
  BY <1>5, DefKinds, StateKinds
     DEF Rest, ServiceRunnable, StagedInv, SnapInv, CreatedInv, StoppedInv, StateInv, Staging, Putting, Switch,
         Emptying, Fallible, Owned, Sealed
<1> QED
  BY <1>4, <1>6 DEF Inv, Rest

(* State file, links, directories, definition and command are always of    *)
(* their kinds.                                                            *)
THEOREM TypeCorrect == Spec => []TypeOK
<1>1. Inv => TypeOK
  BY DEF Inv
<1> QED
  BY <1>1, InvInit, InvStep, PTL DEF Spec

(* The runtimes a restarted supervisor needs are whole, for every number   *)
(* of versions.                                                            *)
THEOREM ServiceStaysRunnable == Spec => []ServiceRunnable
<1>1. Inv => ServiceRunnable
  BY DEF Inv
<1> QED
  BY <1>1, InvInit, InvStep, PTL DEF Spec

(* What a step of a command may do to things of others.                    *)
Respects ==
    /\ def = Foreign => def' = Foreign
    /\ queue # "empty" /\ queue' = "empty" => Inventoried /\ (torn \/ running = NoVer)

LEMMA RespectsActivation == Inv /\ Activation => Respects
<1> SUFFICES ASSUME Inv, Activation PROVE Respects
  OBVIOUS
<1>1. ASSUME NEW o \in Activations, Activate(o) PROVE Respects
  BY <1>1 DEF Activate, Begin, ListenerUp, disk, ValidInstalled, Snapshot, Sealed, Owned, Respects, Inv, SnapInv,
       StoppedInv, StateInv, TypeOK, Inventoried
<1>2. ASSUME NEW v \in Ver, LoadBundle(v) PROVE Respects
  BY <1>2 DEF LoadBundle, After, disk, Respects, Inv, SnapInv, StoppedInv, StateInv, TypeOK, Owned, Inventoried
<1>3. CASE BundleRefused
  BY <1>3 DEF BundleRefused, End, disk, command, Respects, Inv, SnapInv, StoppedInv, StateInv, TypeOK, Owned,
       Inventoried
<1>4. ASSUME NEW o \in {"rollback", "rollback0"}, Rollback(o) PROVE Respects
  BY <1>4 DEF Rollback, Begin, External, disk, Owned, ValidInstalled, Snapshot, Sealed, Respects, Inv, SnapInv,
       StoppedInv, StateInv, TypeOK, Inventoried
<1>5. CASE Stage
  BY <1>5 DEF Stage, Goto, End, ButDir, command, External, Respects, Inv, SnapInv, StoppedInv, StateInv, TypeOK,
       Owned, Inventoried
<1>6. CASE Copy
  BY <1>6 DEF Copy, Goto, End, ButDir, command, External, Respects, Inv, SnapInv, StoppedInv, StateInv, TypeOK,
       Owned, Inventoried
<1>7. CASE Seal
  BY <1>7 DEF Seal, ButDir, External, Respects, Inv, SnapInv, StoppedInv, StateInv, TypeOK, Owned, Inventoried
<1>8. CASE SealFails
  BY <1>8 DEF SealFails, End, ButDir, command, External, Respects, Inv, SnapInv, StoppedInv, StateInv, TypeOK,
       Owned, Inventoried
<1>9. CASE StagedInVain
  BY <1>9 DEF StagedInVain, ButDir, command, External, Respects, Inv, SnapInv, StoppedInv, StateInv, TypeOK,
       Owned, Inventoried
<1>10. CASE LinkPrevious
  BY <1>10 DEF LinkPrevious, Goto, External, command, Respects, Inv, SnapInv, StoppedInv, StateInv, TypeOK, Owned,
       Inventoried
<1>11. CASE LinkCurrent
  BY <1>11 DEF LinkCurrent, Goto, External, command, Respects, Inv, SnapInv, StoppedInv, StateInv, TypeOK, Owned,
       Inventoried
<1>12. CASE WriteState
  BY <1>12 DEF WriteState, Goto, External, command, Respects, Inv, SnapInv, StoppedInv, StateInv, TypeOK, Owned,
       Inventoried
<1>13. CASE Stop
  BY <1>13 DEF Stop, Goto, disk, command, Respects, Inv, SnapInv, StoppedInv, StateInv, TypeOK, Owned, Inventoried
<1>14. CASE WaitStopped
  BY <1>14 DEF WaitStopped, Goto, External, PluginStopped, disk, command, Owned, Respects, Inv, SnapInv,
       StoppedInv, StateInv, TypeOK, Inventoried
<1>15. CASE Define
  BY <1>15 DEF Define, Goto, External, command, Respects, Inv, SnapInv, StoppedInv, StateInv, TypeOK, Owned,
       Inventoried
<1>16. CASE DefinedStopped
  BY <1>16 DEF DefinedStopped, End, External, disk, command, Respects, Inv, SnapInv, StoppedInv, StateInv, TypeOK,
       Owned, Inventoried
<1>17. CASE Start
  BY <1>17 DEF Start, Goto, disk, command, Respects, Inv, SnapInv, StoppedInv, StateInv, TypeOK, Owned, Inventoried
<1>18. CASE Healthy
  BY <1>18 DEF Healthy, Goto, End, Retired, External, disk, HealthProves, command, Respects, Inv, SnapInv,
       StoppedInv, StateInv, TypeOK, Owned, Inventoried
<1>19. CASE Retire
  BY <1>19 DEF Retire, Goto, End, Retired, ButDir, Sealed, command, External, Respects, Inv, SnapInv, StoppedInv,
       StateInv, TypeOK, Owned, Inventoried
<1>20. CASE RetireEnds
  BY <1>20 DEF RetireEnds, End, Retired, ButDir, command, External, Respects, Inv, SnapInv, StoppedInv, StateInv,
       TypeOK, Owned, Inventoried
<1> QED
  BY <1>1, <1>2, <1>3, <1>4, <1>5, <1>6, <1>7, <1>8, <1>9, <1>10, <1>11, <1>12, <1>13, <1>14, <1>15,
       <1>16, <1>17, <1>18, <1>19, <1>20 DEF Activation

LEMMA RespectsRestoration == Inv /\ Restoration => Respects
<1> SUFFICES ASSUME Inv, Restoration PROVE Respects
  OBVIOUS
<1>1. CASE Fail
  BY <1>1 DEF Fail, Goto, HalfDone, disk, command, Owned, Respects, Inv, SnapInv, StoppedInv, StateInv, TypeOK,
       Inventoried
<1>2. CASE RestoreStop
  BY <1>2 DEF RestoreStop, Goto, Ours, disk, command, Respects, Inv, SnapInv, StoppedInv, StateInv, TypeOK,
       Owned, Inventoried
<1>3. CASE RestoreWait
  BY <1>3 DEF RestoreWait, Goto, External, Ours, PluginStopped, disk, command, Owned, Respects, Inv, SnapInv,
       StoppedInv, StateInv, TypeOK, Inventoried
<1>4. CASE RestoreLink("r_link1", TRUE)
  BY <1>4 DEF RestoreLink, Goto, External, command, Respects, Inv, SnapInv, StoppedInv, StateInv, TypeOK, Owned,
       Inventoried
<1>5. CASE RestoreLink("r_link2", FALSE)
  BY <1>5 DEF RestoreLink, Goto, External, command, Respects, Inv, SnapInv, StoppedInv, StateInv, TypeOK, Owned,
       Inventoried
<1>6. CASE RestoreState
  BY <1>6 DEF RestoreState, Goto, External, command, Respects, Inv, SnapInv, StoppedInv, StateInv, TypeOK, Owned,
       Inventoried
<1>7. CASE RestoreDefinition
  BY <1>7, DefKinds, StateKinds DEF RestoreDefinition, Goto, External, Ours, command, Respects, Inv, SnapInv, StoppedInv, StateInv,
       TypeOK, Owned, Inventoried
<1>8. CASE RestoreStart
  BY <1>8 DEF RestoreStart, Goto, disk, command, Respects, Inv, SnapInv, StoppedInv, StateInv, TypeOK, Owned,
       Inventoried
<1>9. CASE RestoreHealthy
  BY <1>9 DEF RestoreHealthy, External, disk, command, HealthProves, Respects, Inv, SnapInv, StoppedInv,
       StateInv, TypeOK, Owned, Inventoried
<1>10. CASE GiveUp
  BY <1>10 DEF GiveUp, End, HalfDone, disk, command, Owned, Respects, Inv, SnapInv, StoppedInv, StateInv, TypeOK,
       Inventoried
<1>11. CASE Unstage
  BY <1>11 DEF Unstage, Goto, End, ButDir, command, External, Respects, Inv, SnapInv, StoppedInv, StateInv,
       TypeOK, Owned, Inventoried
<1>12. CASE UnstageEnds
  BY <1>12 DEF UnstageEnds, End, ButDir, command, External, Respects, Inv, SnapInv, StoppedInv, StateInv, TypeOK,
       Owned, Inventoried
<1> QED
  BY <1>1, <1>2, <1>3, <1>4, <1>5, <1>6, <1>7, <1>8, <1>9, <1>10, <1>11, <1>12 DEF Restoration

LEMMA RespectsSwitching == Inv /\ Switching => Respects
<1> SUFFICES ASSUME Inv, Switching PROVE Respects
  OBVIOUS
<1>1. CASE StartInstalled
  BY <1>1 DEF StartInstalled, Begin, External, disk, Owned, ValidInstalled, Snapshot, Sealed, Respects, Inv,
       SnapInv, StoppedInv, StateInv, TypeOK, Inventoried
<1>2. CASE StartDefined
  BY <1>2 DEF StartDefined, Goto, disk, command, Respects, Inv, SnapInv, StoppedInv, StateInv, TypeOK, Owned,
       Inventoried
<1>3. CASE InstalledHealthy
  BY <1>3 DEF InstalledHealthy, End, External, disk, HealthProves, command, Respects, Inv, SnapInv, StoppedInv,
       StateInv, TypeOK, Owned, Inventoried
<1>4. CASE StartFails
  BY <1>4 DEF StartFails, Goto, End, HalfDone, disk, command, Owned, Respects, Inv, SnapInv, StoppedInv,
       StateInv, TypeOK, Inventoried
<1>5. CASE StopAgain
  BY <1>5 DEF StopAgain, End, HalfDone, disk, command, Owned, Respects, Inv, SnapInv, StoppedInv, StateInv,
       TypeOK, Inventoried
<1>6. CASE Disable
  BY <1>6 DEF Disable, Begin, External, disk, Owned, ValidInstalled, Snapshot, Sealed, Respects, Inv, SnapInv,
       StoppedInv, StateInv, TypeOK, Inventoried
<1>7. CASE DisableStop
  BY <1>7 DEF DisableStop, Goto, disk, command, Respects, Inv, SnapInv, StoppedInv, StateInv, TypeOK, Owned,
       Inventoried
<1>8. CASE DisableWait
  BY <1>8 DEF DisableWait, End, External, PluginStopped, disk, Inventoried, command, Owned, Respects, Inv,
       SnapInv, StoppedInv, StateInv, TypeOK
<1> QED
  BY <1>1, <1>2, <1>3, <1>4, <1>5, <1>6, <1>7, <1>8 DEF Switching

LEMMA RespectsRemoval == Inv /\ Removal => Respects
<1> SUFFICES ASSUME Inv, Removal PROVE Respects
  OBVIOUS
<1>1. ASSUME NEW o \in {"uninstall", "discard"}, Uninstall(o) PROVE Respects
  BY <1>1 DEF Uninstall, Begin, External, disk, Owned, ValidInstalled, PartlyUninstalled, Inventoried, Snapshot,
       Sealed, Respects, Inv, SnapInv, StoppedInv, StateInv, TypeOK
<1>2. ASSUME NEW o \in {"uninstall", "discard"}, UninstallNothing(o) PROVE Respects
  BY <1>2 DEF UninstallNothing, disk, command, Inventoried, Respects, Inv, SnapInv, StoppedInv, StateInv, TypeOK,
       Owned
<1>3. CASE UninstallStop
  BY <1>3 DEF UninstallStop, Goto, disk, command, Respects, Inv, SnapInv, StoppedInv, StateInv, TypeOK, Owned,
       Inventoried
<1>4. CASE UninstallWait
  BY <1>4 DEF UninstallWait, Goto, External, PluginStopped, disk, command, Owned, Respects, Inv, SnapInv,
       StoppedInv, StateInv, TypeOK, Inventoried
<1>5. CASE PurgeCaptureState
  BY <1>5 DEF PurgeCaptureState, Goto, disk, Inventoried, command, Respects, Inv, SnapInv, StoppedInv, StateInv,
       TypeOK, Owned
<1>6. CASE RemoveDefinition
  BY <1>6 DEF RemoveDefinition, Goto, External, command, Respects, Inv, SnapInv, StoppedInv, StateInv, TypeOK,
       Owned, Inventoried
<1>7. CASE RemoveCurrentLink
  BY <1>7 DEF RemoveCurrentLink, Goto, External, command, Respects, Inv, SnapInv, StoppedInv, StateInv, TypeOK,
       Owned, Inventoried
<1>8. CASE RemovePreviousLink
  BY <1>8 DEF RemovePreviousLink, Goto, External, command, Respects, Inv, SnapInv, StoppedInv, StateInv, TypeOK,
       Owned, Inventoried
<1>9. CASE RemoveRuntime("u_dir", "u_dir2", nxt.cur, "u_old")
  BY <1>9 DEF RemoveRuntime, Goto, Gone, ButDir, command, PartlyRemoved, External, Respects, Inv, SnapInv,
       StoppedInv, StateInv, TypeOK, Owned, Inventoried
<1>10. CASE RemoveRuntime("u_old", "u_old2", nxt.prev, "u_state")
  BY <1>10 DEF RemoveRuntime, Goto, Gone, ButDir, command, PartlyRemoved, External, Respects, Inv, SnapInv,
       StoppedInv, StateInv, TypeOK, Owned, Inventoried
<1>11. CASE RemoveState
  BY <1>11 DEF RemoveState, End, External, command, Respects, Inv, SnapInv, StoppedInv, StateInv, TypeOK, Owned,
       Inventoried
<1>12. CASE Quit
  BY <1>12 DEF Quit, End, HalfDone, disk, command, Owned, Respects, Inv, SnapInv, StoppedInv, StateInv, TypeOK,
       Inventoried
<1> QED
  BY <1>1, <1>2, <1>3, <1>4, <1>5, <1>6, <1>7, <1>8, <1>9, <1>10, <1>11, <1>12 DEF Removal

(* No step of a command touches the definition of another program, or the  *)
(* queues otherwise than by a purge that recognises all of them.           *)
THEOREM OthersAreRespected == Spec => TouchesOnlyItsOwn
<1>1. Inv /\ [Next]_vars => [Environment \/ Respects]_vars
  <2>1. CASE Crash
    BY <2>1 DEF Crash, Respects, disk
  <2> QED
    BY <2>1, RespectsActivation, RespectsRestoration, RespectsSwitching, RespectsRemoval DEF Next
<1>2. [][Environment \/ Respects]_vars => TouchesOnlyItsOwn
  <2>1. [Environment \/ Respects]_vars =>
          [\/ Environment
           \/ /\ def = Foreign => def' = Foreign
              /\ queue # "empty" /\ queue' = "empty" => Inventoried /\ (torn \/ running = NoVer)]_vars
    BY DEF Respects
  <2> QED
    BY <2>1, PTL DEF TouchesOnlyItsOwn
<1> QED
  BY <1>1, <1>2, InvInit, InvStep, PTL DEF Spec

--------------------------------------------------------------------------------
(* Where the links, the state file and the old runtimes are at each step:  *)
(* what makes the agent recoverable and the reports true.                  *)

(* The directories of a state, and its links too, are as it says.          *)
Whole(s) == Sealed(s.cur) /\ (s.prev # NoVer => Sealed(s.prev))
Linked(s) == Whole(s) /\ linkCur = s.cur /\ linkPrev = s.prev

(* The new state is installed; an installed one is served; it is removed.  *)
Installed == {"stop", "wait", "define", "check", "start", "health", "retire", "retire2"}
Serving == {"s_start", "s_health", "s_stop", "d_stop", "d_wait"}
Removing == {"u_stop", "u_wait", "u_purge", "u_def"} \union Emptying

(* Links and state file agree wherever a command that dies would not leave *)
(* them torn, and an old link never hangs over nothing.                    *)
LinkInv ==
    /\ ~torn /\ state # NoState => PartlyUninstalled(state)
    /\ ~torn /\ Owned => Linked(state)
    /\ state # NoState /\ state.prev = NoVer /\ linkPrev # NoVer => dir[linkPrev] # "absent"
    /\ pc \in Staging \union {"prevlink", "r_start", "r_health", "unstage", "unstage2"} /\ state # NoState
         => Linked(state)
    /\ pc \in {"curlink", "state"} => torn /\ linkPrev = nxt.prev
    /\ pc = "state" => linkCur = nxt.cur
    /\ pc \in Installed => state = nxt /\ ~torn /\ Linked(nxt)
    /\ pc \in Serving => state # NoState /\ ValidInstalled(state)

(* What the snapshot needs stays, and is put back in order.                *)
OldInv ==
    /\ pc \in Staging \union Switch /\ snap.state # NoState => Whole(snap.state)
    /\ pc \in {"stage", "copy", "seal"} \union Switch /\ nxt.prev # NoVer => Sealed(nxt.prev)
    /\ pc \in Staging \union {"prevlink", "curlink", "state", "r_def", "r_start", "r_health", "unstage", "unstage2"}
         => state = snap.state
    /\ created /\ pc \in Switch \union {"unstage", "unstage2"} /\ snap.state # NoState
         => nxt.cur \notin {snap.state.cur, snap.state.prev}
    /\ pc \in {"r_link2", "r_state", "r_def"} =>
         IF snap.state = NoState THEN linkCur = NoVer ELSE linkPrev = snap.state.prev
    /\ pc \in {"r_state", "r_def"} =>
         IF snap.state = NoState THEN linkPrev = NoVer ELSE linkCur = snap.state.cur
    /\ pc \in {"r_start", "r_health"} => snap.loaded
    /\ pc \in {"unstage", "unstage2"} => report \in {"failed", "restored"}
    /\ pc \in {"unstage", "unstage2"} /\ report = "restored" =>
         /\ state = NoState => linkCur = NoVer /\ linkPrev = NoVer
         /\ def \in {snap.def, Foreign}
         /\ running = IF snap.loaded THEN snap.state.cur ELSE NoVer

(* What runs is what is defined.                                           *)
RunInv ==
    /\ running # NoVer /\ Owned => running = def
    /\ pc \in Staging \union {"prevlink", "curlink", "state"} /\ snap.def = NoDef => running = NoVer
    /\ pc = "define" => running = NoVer
    /\ pc = "s_health" => snap.def \in Ver

(* What a removal has removed stays removed.                               *)
RemovalInv ==
    /\ pc \in Removing => state # NoState /\ state = nxt
    /\ pc \in Emptying \ {"u_cur"} => linkCur = NoVer
    /\ pc \in Emptying \ {"u_cur", "u_prev"} => linkPrev = NoVer
    /\ pc \in {"u_old", "u_old2", "u_state"} => dir[nxt.cur] = "absent"
    /\ pc = "u_state" /\ nxt.prev # NoVer => dir[nxt.prev] = "absent"

Life == LinkInv /\ OldInv /\ RunInv /\ RemovalInv

--------------------------------------------------------------------------------
(* Each step keeps it.                                                     *)
LEMMA LifeActivation == Inv /\ Life /\ Activation => Life'
<1> SUFFICES ASSUME Inv, Life, Activation PROVE Life'
  OBVIOUS
<1>nxt. nxt.cur \in Ver /\ nxt.prev \in Ver \union {NoVer}
  BY StateKinds DEF Inv, TypeOK
<1>typ. /\ dir \in [Ver -> Directory] /\ def \in Definition /\ running \in Ver \union {NoVer}
        /\ state \in AgentState \union {NoState} /\ snap.state \in AgentState \union {NoState}
        /\ linkPrev \in Ver \union {NoVer}
  BY DEF Inv, TypeOK
<1> USE <1>nxt, <1>typ, DefKinds, StateKinds DEF Inv, ServiceRunnable, StagedInv, SnapInv, CreatedInv, StoppedInv,
     StateInv, Life, LinkInv, OldInv, RunInv, RemovalInv, Whole, Linked, ValidInstalled, PartlyUninstalled,
     Installed, Serving, Removing, Staging, Putting, Switch, Emptying, Fallible, Owned, Sealed
<1>1. ASSUME NEW o \in Activations, Activate(o) PROVE Life'
  BY <1>1 DEF Activate, Begin, ListenerUp, disk, ValidInstalled, Snapshot
<1>2. ASSUME NEW v \in Ver, LoadBundle(v) PROVE Life'
  BY <1>2, AfterIsState DEF LoadBundle, After, disk
<1>3. CASE BundleRefused
  BY <1>3 DEF BundleRefused, End, disk, command
<1>4. ASSUME NEW o \in {"rollback", "rollback0"}, Rollback(o) PROVE Life'
  BY <1>4 DEF Rollback, Begin, External, disk, ValidInstalled, Snapshot
<1>5. CASE Stage
  BY <1>5 DEF Stage, Goto, End, ButDir, command, External
<1>6. CASE Copy
  BY <1>6 DEF Copy, Goto, End, ButDir, command, External
<1>7. CASE Seal
  BY <1>7 DEF Seal, ButDir, External
<1>8. CASE SealFails
  BY <1>8 DEF SealFails, End, ButDir, command, External
<1>9. CASE StagedInVain
  BY <1>9 DEF StagedInVain, ButDir, command, External
<1>10. CASE LinkPrevious
  BY <1>10 DEF LinkPrevious, Goto, External, command
<1>11. CASE LinkCurrent
  BY <1>11 DEF LinkCurrent, Goto, External, command
<1>12. CASE WriteState
  BY <1>12 DEF WriteState, Goto, External, command
<1>13. CASE Stop
  BY <1>13 DEF Stop, Goto, disk, command
<1>14. CASE WaitStopped
  BY <1>14 DEF WaitStopped, Goto, External, PluginStopped, disk, command
<1>15. CASE Define
  BY <1>15 DEF Define, Goto, External, command
<1>16. CASE DefinedStopped
  BY <1>16 DEF DefinedStopped, End, External, disk, command
<1>17. CASE Start
  BY <1>17 DEF Start, Goto, disk, command
<1>18. CASE Healthy
  BY <1>18 DEF Healthy, Goto, End, Retired, External, disk, HealthProves, command
<1>19. CASE Retire
  BY <1>19 DEF Retire, Goto, End, Retired, ButDir, command, External
<1>20. CASE RetireEnds
  BY <1>20 DEF RetireEnds, End, Retired, ButDir, command, External
<1> QED
  BY <1>1, <1>2, <1>3, <1>4, <1>5, <1>6, <1>7, <1>8, <1>9, <1>10, <1>11, <1>12, <1>13, <1>14, <1>15,
       <1>16, <1>17, <1>18, <1>19, <1>20 DEF Activation

LEMMA LifeRestoration == Inv /\ Life /\ Restoration => Life'
<1> SUFFICES ASSUME Inv, Life, Restoration PROVE Life'
  OBVIOUS
<1>nxt. nxt.cur \in Ver /\ nxt.prev \in Ver \union {NoVer}
  BY StateKinds DEF Inv, TypeOK
<1>typ. /\ dir \in [Ver -> Directory] /\ def \in Definition /\ running \in Ver \union {NoVer}
        /\ state \in AgentState \union {NoState} /\ snap.state \in AgentState \union {NoState}
        /\ linkPrev \in Ver \union {NoVer}
  BY DEF Inv, TypeOK
<1> USE <1>nxt, <1>typ, DefKinds, StateKinds DEF Inv, ServiceRunnable, StagedInv, SnapInv, CreatedInv, StoppedInv,
     StateInv, Life, LinkInv, OldInv, RunInv, RemovalInv, Whole, Linked, ValidInstalled, PartlyUninstalled,
     Installed, Serving, Removing, Staging, Putting, Switch, Emptying, Fallible, Owned, Sealed
<1>1. CASE Fail
  BY <1>1 DEF Fail, Goto, HalfDone, disk, command
<1>2. CASE RestoreStop
  BY <1>2 DEF RestoreStop, Goto, Ours, disk, command
<1>3. CASE RestoreWait
  BY <1>3 DEF RestoreWait, Goto, External, Ours, PluginStopped, disk, command
<1>4. CASE RestoreLink("r_link1", TRUE)
  BY <1>4 DEF RestoreLink, Goto, External, command
<1>5. CASE RestoreLink("r_link2", FALSE)
  BY <1>5 DEF RestoreLink, Goto, External, command
<1>6. CASE RestoreState
  BY <1>6 DEF RestoreState, Goto, External, command
<1>7. CASE RestoreDefinition
  BY <1>7 DEF RestoreDefinition, Goto, External, Ours, command
<1>8. CASE RestoreStart
  BY <1>8 DEF RestoreStart, Goto, disk, command
<1>9. CASE RestoreHealthy
  BY <1>9 DEF RestoreHealthy, External, disk, command, HealthProves
<1>10. CASE GiveUp
  BY <1>10 DEF GiveUp, End, HalfDone, disk, command
<1>11. CASE Unstage
  BY <1>11 DEF Unstage, Goto, End, ButDir, command, External
<1>12. CASE UnstageEnds
  BY <1>12 DEF UnstageEnds, End, ButDir, command, External
<1> QED
  BY <1>1, <1>2, <1>3, <1>4, <1>5, <1>6, <1>7, <1>8, <1>9, <1>10, <1>11, <1>12 DEF Restoration

LEMMA LifeSwitching == Inv /\ Life /\ Switching => Life'
<1> SUFFICES ASSUME Inv, Life, Switching PROVE Life'
  OBVIOUS
<1>nxt. nxt.cur \in Ver /\ nxt.prev \in Ver \union {NoVer}
  BY StateKinds DEF Inv, TypeOK
<1>typ. /\ dir \in [Ver -> Directory] /\ def \in Definition /\ running \in Ver \union {NoVer}
        /\ state \in AgentState \union {NoState} /\ snap.state \in AgentState \union {NoState}
        /\ linkPrev \in Ver \union {NoVer}
  BY DEF Inv, TypeOK
<1> USE <1>nxt, <1>typ, DefKinds, StateKinds DEF Inv, ServiceRunnable, StagedInv, SnapInv, CreatedInv, StoppedInv,
     StateInv, Life, LinkInv, OldInv, RunInv, RemovalInv, Whole, Linked, ValidInstalled, PartlyUninstalled,
     Installed, Serving, Removing, Staging, Putting, Switch, Emptying, Fallible, Owned, Sealed
<1>1. CASE StartInstalled
  BY <1>1 DEF StartInstalled, Begin, External, disk, ValidInstalled, Snapshot
<1>2. CASE StartDefined
  BY <1>2 DEF StartDefined, Goto, disk, command
<1>3. CASE InstalledHealthy
  BY <1>3 DEF InstalledHealthy, End, External, disk, HealthProves, command
<1>4. CASE StartFails
  BY <1>4 DEF StartFails, Goto, End, HalfDone, disk, command
<1>5. CASE StopAgain
  BY <1>5 DEF StopAgain, End, HalfDone, disk, command
<1>6. CASE Disable
  BY <1>6 DEF Disable, Begin, External, disk, ValidInstalled, Snapshot
<1>7. CASE DisableStop
  BY <1>7 DEF DisableStop, Goto, disk, command
<1>8. CASE DisableWait
  BY <1>8 DEF DisableWait, End, External, PluginStopped, disk, Inventoried, command
<1> QED
  BY <1>1, <1>2, <1>3, <1>4, <1>5, <1>6, <1>7, <1>8 DEF Switching

LEMMA LifeRemoval == Inv /\ Life /\ Removal => Life'
<1> SUFFICES ASSUME Inv, Life, Removal PROVE Life'
  OBVIOUS
<1>nxt. nxt.cur \in Ver /\ nxt.prev \in Ver \union {NoVer}
  BY StateKinds DEF Inv, TypeOK
<1>typ. /\ dir \in [Ver -> Directory] /\ def \in Definition /\ running \in Ver \union {NoVer}
        /\ state \in AgentState \union {NoState} /\ snap.state \in AgentState \union {NoState}
        /\ linkPrev \in Ver \union {NoVer}
  BY DEF Inv, TypeOK
<1> USE <1>nxt, <1>typ, DefKinds, StateKinds DEF Inv, ServiceRunnable, StagedInv, SnapInv, CreatedInv, StoppedInv,
     StateInv, Life, LinkInv, OldInv, RunInv, RemovalInv, Whole, Linked, ValidInstalled, PartlyUninstalled,
     Installed, Serving, Removing, Staging, Putting, Switch, Emptying, Fallible, Owned, Sealed
<1>1. ASSUME NEW o \in {"uninstall", "discard"}, Uninstall(o) PROVE Life'
  BY <1>1 DEF Uninstall, Begin, External, disk, ValidInstalled, PartlyUninstalled, Inventoried, Snapshot
<1>2. ASSUME NEW o \in {"uninstall", "discard"}, UninstallNothing(o) PROVE Life'
  BY <1>2 DEF UninstallNothing, disk, command, Inventoried
<1>3. CASE UninstallStop
  BY <1>3 DEF UninstallStop, Goto, disk, command
<1>4. CASE UninstallWait
  BY <1>4 DEF UninstallWait, Goto, External, PluginStopped, disk, command
<1>5. CASE PurgeCaptureState
  BY <1>5 DEF PurgeCaptureState, Goto, disk, Inventoried, command
<1>6. CASE RemoveDefinition
  BY <1>6 DEF RemoveDefinition, Goto, External, command
<1>7. CASE RemoveCurrentLink
  BY <1>7 DEF RemoveCurrentLink, Goto, External, command
<1>8. CASE RemovePreviousLink
  BY <1>8 DEF RemovePreviousLink, Goto, External, command
<1>9. CASE RemoveRuntime("u_dir", "u_dir2", nxt.cur, "u_old")
  BY <1>9 DEF RemoveRuntime, Goto, Gone, ButDir, command, PartlyRemoved, External
<1>10. CASE RemoveRuntime("u_old", "u_old2", nxt.prev, "u_state")
  BY <1>10 DEF RemoveRuntime, Goto, Gone, ButDir, command, PartlyRemoved, External
<1>11. CASE RemoveState
  BY <1>11 DEF RemoveState, End, External, command
<1>12. CASE Quit
  BY <1>12 DEF Quit, End, HalfDone, disk, command
<1> QED
  BY <1>1, <1>2, <1>3, <1>4, <1>5, <1>6, <1>7, <1>8, <1>9, <1>10, <1>11, <1>12 DEF Removal

LEMMA LifeEnvironment == Inv /\ Life /\ Environment => Life'
<1> SUFFICES ASSUME Inv, Life, Environment PROVE Life'
  OBVIOUS
<1>nxt. nxt.cur \in Ver /\ nxt.prev \in Ver \union {NoVer}
  BY StateKinds DEF Inv, TypeOK
<1>typ. /\ dir \in [Ver -> Directory] /\ def \in Definition /\ running \in Ver \union {NoVer}
        /\ state \in AgentState \union {NoState} /\ snap.state \in AgentState \union {NoState}
        /\ linkPrev \in Ver \union {NoVer}
  BY DEF Inv, TypeOK
<1> USE <1>nxt, <1>typ, DefKinds, StateKinds DEF Inv, ServiceRunnable, StagedInv, SnapInv, CreatedInv, StoppedInv,
     StateInv, Life, LinkInv, OldInv, RunInv, RemovalInv, Whole, Linked, ValidInstalled, PartlyUninstalled,
     Installed, Serving, Removing, Staging, Putting, Switch, Emptying, Fallible, Owned, Sealed
<1>1. CASE ForeignArrives
  BY <1>1 DEF ForeignArrives, Same, External, command
<1>2. CASE ForeignLeaves
  BY <1>2 DEF ForeignLeaves, Same, External, command
<1>3. CASE DesktopChanges
  BY <1>3 DEF DesktopChanges, Same, command
<1>4. CASE RelayWorks
  BY <1>4 DEF RelayWorks, Same, Inventoried, command
<1>5. CASE AlienEntry
  BY <1>5 DEF AlienEntry, Same, command
<1>6. CASE AlienRemoved
  BY <1>6 DEF AlienRemoved, Same, command
<1>7. CASE Login
  BY <1>7 DEF Login, Same, command
<1> QED
  BY <1>1, <1>2, <1>3, <1>4, <1>5, <1>6, <1>7 DEF Environment

LEMMA LifeStep == Inv /\ Life /\ [Next]_vars => Life'
<1> SUFFICES ASSUME Inv, Life, [Next]_vars PROVE Life'
  OBVIOUS
<1>1. CASE Crash
  BY <1>1 DEF Crash, End, HalfDone, disk, command, Inv, ServiceRunnable, StagedInv, SnapInv, CreatedInv, StoppedInv, StateInv, Life, LinkInv, OldInv, RunInv, RemovalInv, Whole, Linked, ValidInstalled, PartlyUninstalled, Installed, Serving, Removing, Staging, Putting, Switch, Emptying, Fallible, Owned, Sealed
<1>2. CASE UNCHANGED vars
  BY <1>2 DEF vars, disk, command, Life, LinkInv, OldInv, RunInv, RemovalInv, Whole, Linked, ValidInstalled,
       PartlyUninstalled, Owned, Sealed
<1> QED
  BY <1>1, <1>2, LifeActivation, LifeRestoration, LifeSwitching, LifeRemoval, LifeEnvironment DEF Next

LEMMA LifeInit == Init => Life
  BY DefKinds DEF Init, Life, LinkInv, OldInv, RunInv, RemovalInv, Staging, Putting, Switch, Emptying, Fallible, Installed,
     Serving, Removing, Owned

(* An agent that no command is working on and whose links are in step can  *)
(* be used or removed, for every number of versions.                       *)
THEOREM AgentIsRecoverable == Spec => []Recoverable
<1>1. Inv /\ Life => Recoverable
  BY DEF Inv, StateInv, Life, LinkInv, Whole, Linked, ValidInstalled, Recoverable
<1> QED
  BY <1>1, InvInit, InvStep, LifeInit, LifeStep, PTL DEF Spec

(* A command that ends here reports the truth.                             *)
Ends == pc # "idle" /\ pc' = "idle" => Claim'

LEMMA EndsActivation == Inv /\ Life /\ Activation => Ends
<1> SUFFICES ASSUME Inv, Life, Activation PROVE Ends
  OBVIOUS
<1>nxt. nxt.cur \in Ver /\ nxt.prev \in Ver \union {NoVer}
  BY StateKinds DEF Inv, TypeOK
<1>typ. dir \in [Ver -> Directory] /\ state \in AgentState \union {NoState}
  BY DEF Inv, TypeOK
<1> USE <1>nxt, <1>typ, DefKinds, StateKinds DEF Ends, Claim, Status, Inventoried, HealthProves, Inv,
     ServiceRunnable, StagedInv, SnapInv, CreatedInv, StoppedInv, StateInv, Life, LinkInv, OldInv, RunInv,
     RemovalInv, Whole, Linked, ValidInstalled, PartlyUninstalled, Installed, Serving, Removing, Staging, Putting,
     Switch, Emptying, Fallible, Owned, Sealed
<1>1. ASSUME NEW o \in Activations, Activate(o) PROVE Ends
  BY <1>1 DEF Activate, Begin, ListenerUp, disk, ValidInstalled, Snapshot
<1>2. ASSUME NEW v \in Ver, LoadBundle(v) PROVE Ends
  BY <1>2 DEF LoadBundle, After, disk
<1>3. CASE BundleRefused
  BY <1>3 DEF BundleRefused, End, disk, command
<1>4. ASSUME NEW o \in {"rollback", "rollback0"}, Rollback(o) PROVE Ends
  BY <1>4 DEF Rollback, Begin, External, disk, ValidInstalled, Snapshot
<1>5. CASE Stage
  BY <1>5 DEF Stage, Goto, End, ButDir, command, External
<1>6. CASE Copy
  BY <1>6 DEF Copy, Goto, End, ButDir, command, External
<1>7. CASE Seal
  BY <1>7 DEF Seal, ButDir, External
<1>8. CASE SealFails
  BY <1>8 DEF SealFails, End, ButDir, command, External
<1>9. CASE StagedInVain
  BY <1>9 DEF StagedInVain, ButDir, command, External
<1>10. CASE LinkPrevious
  BY <1>10 DEF LinkPrevious, Goto, External, command
<1>11. CASE LinkCurrent
  BY <1>11 DEF LinkCurrent, Goto, External, command
<1>12. CASE WriteState
  BY <1>12 DEF WriteState, Goto, External, command
<1>13. CASE Stop
  BY <1>13 DEF Stop, Goto, disk, command
<1>14. CASE WaitStopped
  BY <1>14 DEF WaitStopped, Goto, External, PluginStopped, disk, command
<1>15. CASE Define
  BY <1>15 DEF Define, Goto, External, command
<1>16. CASE DefinedStopped
  BY <1>16 DEF DefinedStopped, End, External, disk, command
<1>17. CASE Start
  BY <1>17 DEF Start, Goto, disk, command
<1>18. CASE Healthy
  BY <1>18 DEF Healthy, Goto, End, Retired, External, disk, HealthProves, command
<1>19. CASE Retire
  BY <1>19 DEF Retire, Goto, End, Retired, ButDir, command, External
<1>20. CASE RetireEnds
  BY <1>20 DEF RetireEnds, End, Retired, ButDir, command, External
<1> QED
  BY <1>1, <1>2, <1>3, <1>4, <1>5, <1>6, <1>7, <1>8, <1>9, <1>10, <1>11, <1>12, <1>13, <1>14, <1>15,
       <1>16, <1>17, <1>18, <1>19, <1>20 DEF Activation

LEMMA EndsRestoration == Inv /\ Life /\ Restoration => Ends
<1> SUFFICES ASSUME Inv, Life, Restoration PROVE Ends
  OBVIOUS
<1>nxt. nxt.cur \in Ver /\ nxt.prev \in Ver \union {NoVer}
  BY StateKinds DEF Inv, TypeOK
<1>typ. dir \in [Ver -> Directory] /\ state \in AgentState \union {NoState}
  BY DEF Inv, TypeOK
<1> USE <1>nxt, <1>typ, DefKinds, StateKinds DEF Ends, Claim, Status, Inventoried, HealthProves, Inv,
     ServiceRunnable, StagedInv, SnapInv, CreatedInv, StoppedInv, StateInv, Life, LinkInv, OldInv, RunInv,
     RemovalInv, Whole, Linked, ValidInstalled, PartlyUninstalled, Installed, Serving, Removing, Staging, Putting,
     Switch, Emptying, Fallible, Owned, Sealed
<1>1. CASE Fail
  BY <1>1 DEF Fail, Goto, HalfDone, disk, command
<1>2. CASE RestoreStop
  BY <1>2 DEF RestoreStop, Goto, Ours, disk, command
<1>3. CASE RestoreWait
  BY <1>3 DEF RestoreWait, Goto, External, Ours, PluginStopped, disk, command
<1>4. CASE RestoreLink("r_link1", TRUE)
  BY <1>4 DEF RestoreLink, Goto, External, command
<1>5. CASE RestoreLink("r_link2", FALSE)
  BY <1>5 DEF RestoreLink, Goto, External, command
<1>6. CASE RestoreState
  BY <1>6 DEF RestoreState, Goto, External, command
<1>7. CASE RestoreDefinition
  BY <1>7 DEF RestoreDefinition, Goto, External, Ours, command
<1>8. CASE RestoreStart
  BY <1>8 DEF RestoreStart, Goto, disk, command
<1>9. CASE RestoreHealthy
  BY <1>9 DEF RestoreHealthy, External, disk, command
<1>10. CASE GiveUp
  BY <1>10 DEF GiveUp, End, HalfDone, disk, command
<1>11. CASE Unstage
  BY <1>11 DEF Unstage, Goto, End, ButDir, command, External
<1>12. CASE UnstageEnds
  <2>1. CASE report = "restored" /\ report' = "restored"
    <3>1. dir' = [dir EXCEPT ![nxt.cur] = "absent"] /\ state = snap.state /\ created
      BY <1>12, <2>1 DEF UnstageEnds, End
    <3>2. UNCHANGED <<ButDir, command>>
      BY <1>12 DEF UnstageEnds, End
    <3>3. state # NoState => Whole(state)' /\ linkCur = state.cur /\ linkPrev = state.prev
      BY <1>12, <3>1, <3>2 DEF UnstageEnds, ButDir, command
    <3>4. state # NoState => ValidInstalled(state)'
      BY <3>2, <3>3 DEF ButDir
    <3> QED
      BY <1>12, <2>1, <3>1, <3>2, <3>4 DEF UnstageEnds, ButDir, command, External
  <2>2. CASE report' \in {"failed", "rollback failed"}
    BY <2>2
  <2> QED
    BY <1>12, <2>1, <2>2 DEF UnstageEnds, End
<1> QED
  BY <1>1, <1>2, <1>3, <1>4, <1>5, <1>6, <1>7, <1>8, <1>9, <1>10, <1>11, <1>12 DEF Restoration

LEMMA EndsSwitching == Inv /\ Life /\ Switching => Ends
<1> SUFFICES ASSUME Inv, Life, Switching PROVE Ends
  OBVIOUS
<1>nxt. nxt.cur \in Ver /\ nxt.prev \in Ver \union {NoVer}
  BY StateKinds DEF Inv, TypeOK
<1>typ. dir \in [Ver -> Directory] /\ state \in AgentState \union {NoState}
  BY DEF Inv, TypeOK
<1> USE <1>nxt, <1>typ, DefKinds, StateKinds DEF Ends, Claim, Status, Inventoried, HealthProves, Inv,
     ServiceRunnable, StagedInv, SnapInv, CreatedInv, StoppedInv, StateInv, Life, LinkInv, OldInv, RunInv,
     RemovalInv, Whole, Linked, ValidInstalled, PartlyUninstalled, Installed, Serving, Removing, Staging, Putting,
     Switch, Emptying, Fallible, Owned, Sealed
<1>1. CASE StartInstalled
  BY <1>1 DEF StartInstalled, Begin, External, disk, ValidInstalled, Snapshot
<1>2. CASE StartDefined
  BY <1>2 DEF StartDefined, Goto, disk, command
<1>3. CASE InstalledHealthy
  BY <1>3 DEF InstalledHealthy, End, External, disk, HealthProves, command
<1>4. CASE StartFails
  BY <1>4 DEF StartFails, Goto, End, HalfDone, disk, command
<1>5. CASE StopAgain
  BY <1>5 DEF StopAgain, End, HalfDone, disk, command
<1>6. CASE Disable
  BY <1>6 DEF Disable, Begin, External, disk, ValidInstalled, Snapshot
<1>7. CASE DisableStop
  BY <1>7 DEF DisableStop, Goto, disk, command
<1>8. CASE DisableWait
  BY <1>8 DEF DisableWait, End, External, PluginStopped, disk, Inventoried, command
<1> QED
  BY <1>1, <1>2, <1>3, <1>4, <1>5, <1>6, <1>7, <1>8 DEF Switching

LEMMA EndsRemoval == Inv /\ Life /\ Removal => Ends
<1> SUFFICES ASSUME Inv, Life, Removal PROVE Ends
  OBVIOUS
<1>nxt. nxt.cur \in Ver /\ nxt.prev \in Ver \union {NoVer}
  BY StateKinds DEF Inv, TypeOK
<1>typ. dir \in [Ver -> Directory] /\ state \in AgentState \union {NoState}
  BY DEF Inv, TypeOK
<1> USE <1>nxt, <1>typ, DefKinds, StateKinds DEF Ends, Claim, Status, Inventoried, HealthProves, Inv,
     ServiceRunnable, StagedInv, SnapInv, CreatedInv, StoppedInv, StateInv, Life, LinkInv, OldInv, RunInv,
     RemovalInv, Whole, Linked, ValidInstalled, PartlyUninstalled, Installed, Serving, Removing, Staging, Putting,
     Switch, Emptying, Fallible, Owned, Sealed
<1>1. ASSUME NEW o \in {"uninstall", "discard"}, Uninstall(o) PROVE Ends
  BY <1>1 DEF Uninstall, Begin, External, disk, ValidInstalled, PartlyUninstalled, Inventoried, Snapshot
<1>2. ASSUME NEW o \in {"uninstall", "discard"}, UninstallNothing(o) PROVE Ends
  BY <1>2 DEF UninstallNothing, disk, command, Inventoried
<1>3. CASE UninstallStop
  BY <1>3 DEF UninstallStop, Goto, disk, command
<1>4. CASE UninstallWait
  BY <1>4 DEF UninstallWait, Goto, External, PluginStopped, disk, command
<1>5. CASE PurgeCaptureState
  BY <1>5 DEF PurgeCaptureState, Goto, disk, Inventoried, command
<1>6. CASE RemoveDefinition
  BY <1>6 DEF RemoveDefinition, Goto, External, command
<1>7. CASE RemoveCurrentLink
  BY <1>7 DEF RemoveCurrentLink, Goto, External, command
<1>8. CASE RemovePreviousLink
  BY <1>8 DEF RemovePreviousLink, Goto, External, command
<1>9. CASE RemoveRuntime("u_dir", "u_dir2", nxt.cur, "u_old")
  BY <1>9 DEF RemoveRuntime, Goto, Gone, ButDir, command, PartlyRemoved, External
<1>10. CASE RemoveRuntime("u_old", "u_old2", nxt.prev, "u_state")
  BY <1>10 DEF RemoveRuntime, Goto, Gone, ButDir, command, PartlyRemoved, External
<1>11. CASE RemoveState
  BY <1>11 DEF RemoveState, End, External, command
<1>12. CASE Quit
  BY <1>12 DEF Quit, End, HalfDone, disk, command
<1> QED
  BY <1>1, <1>2, <1>3, <1>4, <1>5, <1>6, <1>7, <1>8, <1>9, <1>10, <1>11, <1>12 DEF Removal

LEMMA EndsEnvironment == Inv /\ Life /\ Environment => Ends
<1> SUFFICES ASSUME Inv, Life, Environment PROVE Ends
  OBVIOUS
<1>nxt. nxt.cur \in Ver /\ nxt.prev \in Ver \union {NoVer}
  BY StateKinds DEF Inv, TypeOK
<1>typ. dir \in [Ver -> Directory] /\ state \in AgentState \union {NoState}
  BY DEF Inv, TypeOK
<1> USE <1>nxt, <1>typ, DefKinds, StateKinds DEF Ends, Claim, Status, Inventoried, HealthProves, Inv,
     ServiceRunnable, StagedInv, SnapInv, CreatedInv, StoppedInv, StateInv, Life, LinkInv, OldInv, RunInv,
     RemovalInv, Whole, Linked, ValidInstalled, PartlyUninstalled, Installed, Serving, Removing, Staging, Putting,
     Switch, Emptying, Fallible, Owned, Sealed
<1>1. CASE ForeignArrives
  BY <1>1 DEF ForeignArrives, Same, External, command
<1>2. CASE ForeignLeaves
  BY <1>2 DEF ForeignLeaves, Same, External, command
<1>3. CASE DesktopChanges
  BY <1>3 DEF DesktopChanges, Same, command
<1>4. CASE RelayWorks
  BY <1>4 DEF RelayWorks, Same, Inventoried, command
<1>5. CASE AlienEntry
  BY <1>5 DEF AlienEntry, Same, command
<1>6. CASE AlienRemoved
  BY <1>6 DEF AlienRemoved, Same, command
<1>7. CASE Login
  BY <1>7 DEF Login, Same, command
<1> QED
  BY <1>1, <1>2, <1>3, <1>4, <1>5, <1>6, <1>7 DEF Environment

(* What the last report of a command says of the machine is true when it   *)
(* is made.                                                                *)
THEOREM ReportsStayTrue == Spec => ReportsAreTrue
<1>1. Inv /\ Life /\ [Next]_vars => [Ends]_vars
  <2>1. CASE Crash
    BY <2>1 DEF Crash, End, Ends, Claim
  <2> QED
    BY <2>1, EndsActivation, EndsRestoration, EndsSwitching, EndsRemoval, EndsEnvironment DEF Next
<1>2. [][Ends]_vars => ReportsAreTrue
  <2>1. [Ends]_vars => [pc # "idle" /\ pc' = "idle" => Claim']_vars
    BY DEF Ends
  <2> QED
    BY <2>1, PTL DEF ReportsAreTrue
<1> QED
  BY <1>1, <1>2, InvInit, InvStep, LifeInit, LifeStep, PTL DEF Spec
================================================================================
