------------------------------ MODULE CaptureAgent ------------------------------
(***************************************************************************)
(* The life of the capture agent (scripts/capture-agent-lifecycle.mjs): a  *)
(* runtime is staged under its version, the links and the state file are   *)
(* moved to it, the service definition is rewritten and the service is     *)
(* restarted and probed; when anything fails, what was there before is put *)
(* back.  A command can die between any two writes, and the service        *)
(* definition is a file that another program may replace while a command   *)
(* awaits the supervisor.                                                  *)
(*                                                                         *)
(* Commands exclude each other by a lock the kernel drops when its holder  *)
(* dies, so there is at most one.  A check of the definition and the write *)
(* that follows it without an await are one step.  A refused command       *)
(* changes nothing and is not a step.                                      *)
(***************************************************************************)
CONSTANTS
    Ver,        \* versions of the runtime (version and digest)
    NoVer,      \* no version
    NoState,    \* no state file
    NoDef,      \* no service definition
    Foreign     \* a definition without the plugin's marker

ASSUME AgentAssumption ==
    /\ NoVer \notin Ver /\ NoDef \notin Ver /\ Foreign \notin Ver
    /\ NoDef # Foreign
    /\ NoState \notin [cur : Ver, prev : Ver \union {NoVer}]

VARIABLES
    state,      \* the agent's state file: current and previous runtime
    linkCur,    \* what the link "current" points to
    linkPrev,   \* what the link "previous" points to
    dir,        \* the directory of each version
    def,        \* the service definition: the version it starts
    running,    \* the version the supervisor has loaded
    desktop,    \* a Desktop relay is defined, loaded and holds the port
    queue,      \* the queues: empty, with records, or with an entry of someone else
    pc,         \* the next step of the command
    op,         \* the command
    snap,       \* what it found: state file, definition, loaded or not
    nxt,        \* the state it installs
    created,    \* it created the directory of nxt.cur
    report,     \* what the last command to end reported
    torn        \* history: links, state file and definition are out of step

disk == <<state, linkCur, linkPrev, dir, def>>
command == <<op, snap, nxt, created>>
vars == <<disk, running, desktop, queue, pc, command, report, torn>>

AgentState == [cur : Ver, prev : Ver \union {NoVer}]
Definition == Ver \union {NoDef, Foreign}

(* writable: complete, but renamed into place before its root was sealed.  *)
(* partial: its removal began and did not end; leftover: the same, of a    *)
(* runtime an activation retired.                                          *)
Directory == {"absent", "writable", "sealed", "partial", "leftover"}

Queue == {"empty", "records", "alien"}

Ops == {"setup", "upgrade", "rollback", "rollback0", "start", "disable", "uninstall", "discard"}
Activations == {"setup", "upgrade"}
Reports == {"none", "ready", "disabled", "uninstalled", "failed", "restored", "rollback failed", "leftover"}

Steps == {"idle", "load", "stage", "copy", "seal", "unstage", "unstage2",
          "prevlink", "curlink", "state", "stop", "wait", "define", "check", "start", "health", "retire", "retire2",
          "r_stop", "r_wait", "r_link1", "r_link2", "r_state", "r_def", "r_start", "r_health",
          "s_start", "s_health", "s_stop", "d_stop", "d_wait",
          "u_stop", "u_wait", "u_purge", "u_def", "u_cur", "u_prev", "u_dir", "u_dir2", "u_old", "u_old2", "u_state"}

TypeOK ==
    /\ state \in AgentState \union {NoState}
    /\ linkCur \in Ver \union {NoVer} /\ linkPrev \in Ver \union {NoVer}
    /\ dir \in [Ver -> Directory]
    /\ def \in Definition
    /\ running \in Ver \union {NoVer}
    /\ desktop \in BOOLEAN /\ queue \in Queue
    /\ pc \in Steps
    /\ op \in Ops
    /\ snap \in [state : AgentState \union {NoState}, def : Definition, loaded : BOOLEAN]
    /\ nxt \in AgentState
    /\ created \in BOOLEAN
    /\ report \in Reports
    /\ torn \in BOOLEAN

Init ==
    /\ state = NoState /\ linkCur = NoVer /\ linkPrev = NoVer
    /\ dir = [v \in Ver |-> "absent"]
    /\ def = NoDef /\ running = NoVer
    /\ desktop = FALSE /\ queue = "empty"
    /\ pc = "idle" /\ op = "setup"
    /\ snap = [state |-> NoState, def |-> NoDef, loaded |-> FALSE]
    /\ nxt \in [cur : Ver, prev : {NoVer}]
    /\ created = FALSE /\ report = "none" /\ torn = FALSE

--------------------------------------------------------------------------------
(* What the commands check.                                                *)

Owned == def \in Ver
ListenerUp == running # NoVer \/ desktop

(* Every file is there with its hash and mode, and nothing else.           *)
Sealed(v) == dir[v] = "sealed"

(* What is there is of the runtime, be it not all.                         *)
PartlyRemoved(v) == dir[v] # "absent"

ValidInstalled(s) ==
    /\ Sealed(s.cur) /\ linkCur = s.cur
    /\ IF s.prev = NoVer
         THEN linkPrev # NoVer => dir[linkPrev] = "absent"
         ELSE Sealed(s.prev) /\ linkPrev = s.prev

PartlyUninstalled(s) ==
    linkCur \in {NoVer, s.cur} /\ linkPrev \in {NoVer, s.prev}

(* The answer is of the expected version and digest; a degraded relay will *)
(* do.                                                                     *)
HealthProves(v) == running = v

(* The scan of the queues recognises every entry.                          *)
Inventoried == queue # "alien"

Status ==
    IF state = NoState THEN IF Inventoried THEN "not installed" ELSE "degraded"
    ELSE IF ValidInstalled(state) /\ Owned /\ ~desktop /\ HealthProves(state.cur) /\ queue = "empty"
      THEN "ready" ELSE "degraded"

(* The port is free, or both definitions are there and only Desktop's is   *)
(* loaded.                                                                 *)
PluginStopped == running = NoVer /\ (desktop => Owned)

Snapshot == [state |-> state, def |-> def, loaded |-> Owned /\ running # NoVer]
Ours == {snap.def, nxt.cur}

--------------------------------------------------------------------------------
(* Endings of a command.                                                   *)

Goto(s) == pc' = s /\ UNCHANGED <<report, command>>
End(r) == pc' = "idle" /\ report' = r /\ UNCHANGED command

Begin(o, n, s) ==
    /\ pc = "idle"
    /\ op' = o /\ snap' = Snapshot /\ nxt' = n /\ created' = FALSE
    /\ pc' = s /\ report' = "none"

--------------------------------------------------------------------------------
(* setup-runtime and upgrade.                                              *)

After(v) ==
    [cur  |-> v,
     prev |-> IF state = NoState THEN NoVer ELSE IF state.cur = v THEN state.prev ELSE state.cur]

Activate(o) ==
    /\ ~desktop /\ def # Foreign
    /\ o = "upgrade" => state # NoState
    /\ state = NoState => def = NoDef
    /\ def = NoDef => ~ListenerUp
    /\ state # NoState => ValidInstalled(state)
    /\ Begin(o, nxt, "load")
    /\ torn' = FALSE
    /\ UNCHANGED <<disk, running, desktop, queue>>

(* Manifest, digest and source files of the plugin's bundle agree, or not. *)
LoadBundle(v) ==
    /\ pc = "load"
    /\ nxt' = After(v) /\ pc' = "stage"
    /\ UNCHANGED <<disk, running, desktop, queue, op, snap, created, report, torn>>

BundleRefused ==
    /\ pc = "load"
    /\ End("failed")
    /\ UNCHANGED <<disk, running, desktop, queue, torn>>

External == <<running, desktop, queue>>
ButDir == <<state, linkCur, linkPrev, def, External, torn>>

Stage ==
    /\ pc = "stage"
    /\ IF def # snap.def \/ desktop THEN End("failed") /\ UNCHANGED dir
       ELSE CASE dir[nxt.cur] = "partial" -> End("failed") /\ UNCHANGED dir
              [] dir[nxt.cur] = "leftover" -> End("leftover") /\ UNCHANGED dir
              [] dir[nxt.cur] = "absent" -> Goto("copy") /\ UNCHANGED dir
              [] OTHER -> Goto("prevlink") /\ dir' = [dir EXCEPT ![nxt.cur] = "sealed"]
    /\ UNCHANGED ButDir

(* The files are copied and imported under another name, then renamed.     *)
Copy ==
    /\ pc = "copy"
    /\ \/ Goto("seal") /\ dir' = [dir EXCEPT ![nxt.cur] = "writable"]
       \/ End("failed") /\ UNCHANGED dir
    /\ UNCHANGED ButDir

Seal ==
    /\ pc = "seal"
    /\ pc' = "prevlink" /\ created' = TRUE
    /\ dir' = [dir EXCEPT ![nxt.cur] = "sealed"]
    /\ UNCHANGED <<ButDir, op, snap, nxt, report>>

SealFails ==
    /\ pc = "seal"
    /\ End("failed")
    /\ \E left \in {"absent", "partial"} : dir' = [dir EXCEPT ![nxt.cur] = left]
    /\ UNCHANGED ButDir

(* Nothing but the staged directory has to be taken back.                  *)
StagedInVain ==
    /\ pc = "prevlink" /\ def # snap.def
    /\ pc' = "unstage" /\ report' = "failed" /\ UNCHANGED command
    /\ UNCHANGED <<ButDir, dir>>

LinkPrevious ==
    /\ pc = "prevlink" /\ def = snap.def
    /\ linkPrev' = nxt.prev /\ torn' = TRUE
    /\ Goto("curlink")
    /\ UNCHANGED <<state, linkCur, dir, def, External>>

LinkCurrent ==
    /\ pc = "curlink"
    /\ linkCur' = nxt.cur
    /\ Goto("state")
    /\ UNCHANGED <<state, linkPrev, dir, def, External, torn>>

WriteState ==
    /\ pc = "state"
    /\ state' = nxt /\ torn' = FALSE
    /\ Goto(IF op = "rollback0" \/ snap.def # NoDef THEN "stop" ELSE "define")
    /\ UNCHANGED <<linkCur, linkPrev, dir, def, External>>

Stop ==
    /\ pc = "stop" /\ def = snap.def
    /\ running' = NoVer
    /\ Goto(IF op = "rollback0" THEN "wait" ELSE "define")
    /\ UNCHANGED <<disk, desktop, queue, torn>>

WaitStopped ==
    /\ pc = "wait" /\ def = snap.def /\ PluginStopped
    /\ Goto("define")
    /\ UNCHANGED <<disk, External, torn>>

(* Mutant: the definition is not looked at again after the stop.           *)
DefineUnchecked ==
    /\ pc = "define"
    /\ def' = nxt.cur
    /\ Goto(IF op = "rollback0" THEN "check" ELSE "start")
    /\ UNCHANGED <<state, linkCur, linkPrev, dir, External, torn>>

Define ==
    /\ pc = "define" /\ def = snap.def
    /\ def' = nxt.cur
    /\ Goto(IF op = "rollback0" THEN "check" ELSE "start")
    /\ UNCHANGED <<state, linkCur, linkPrev, dir, External, torn>>

Start ==
    /\ pc = "start" /\ def = nxt.cur
    /\ running' = nxt.cur
    /\ Goto("health")
    /\ UNCHANGED <<disk, desktop, queue, torn>>

(* Mutants: a runtime the new state refers to is retired.                  *)
RetiredIsCurrent ==
    IF op \in Activations /\ snap.state # NoState THEN {snap.state.prev} \ {NoVer, nxt.prev} ELSE {}

RetiredIsPrevious ==
    IF op \in Activations /\ snap.state # NoState THEN {snap.state.prev} \ {NoVer, nxt.cur} ELSE {}

(* Files of the runtime that is neither current nor previous any more.     *)
Retired ==
    IF op \in Activations /\ snap.state # NoState
      THEN {snap.state.prev} \ {NoVer, nxt.cur, nxt.prev} ELSE {}

Healthy ==
    /\ pc = "health" /\ def = nxt.cur /\ HealthProves(nxt.cur)
    /\ IF Retired = {} THEN End("ready") ELSE Goto("retire")
    /\ UNCHANGED <<disk, External, torn>>

(* That this fails does not fail the activation.                           *)
Retire ==
    /\ pc = "retire"
    /\ IF \A v \in Retired : Sealed(v) THEN Goto("retire2") ELSE End("ready")
    /\ dir' = [v \in Ver |-> IF v \in Retired /\ Sealed(v) THEN "leftover" ELSE dir[v]]
    /\ UNCHANGED ButDir

RetireEnds ==
    /\ pc = "retire2"
    /\ End("ready")
    /\ \/ dir' = [v \in Ver |-> IF v \in Retired THEN "absent" ELSE dir[v]]
       \/ UNCHANGED dir
    /\ UNCHANGED ButDir

--------------------------------------------------------------------------------
(* rollback, with and without a start.                                     *)

Rollback(o) ==
    /\ ~desktop /\ Owned
    /\ state # NoState /\ ValidInstalled(state) /\ state.prev # NoVer
    /\ Begin(o, [cur |-> state.prev, prev |-> state.cur], "prevlink")
    /\ UNCHANGED <<disk, External, torn>>

DefinedStopped ==
    /\ pc = "check" /\ def = nxt.cur /\ running = NoVer
    /\ End("disabled")
    /\ UNCHANGED <<disk, External, torn>>

--------------------------------------------------------------------------------
(* Anything that throws after the first link is moved leads to the         *)
(* snapshot; anything that throws on the way there ends the command.       *)

Fallible == {"curlink", "state", "stop", "wait", "define", "check", "start", "health"}

(* What the supervisor may have done before its command failed.            *)
HalfDone ==
    CASE pc \in {"stop", "r_stop", "s_stop", "d_stop", "u_stop"} -> {running, NoVer}
      [] pc \in {"start", "r_start", "s_start"} /\ Owned -> {running, def}
      [] OTHER -> {running}

Fail ==
    /\ pc \in Fallible
    /\ running' \in HalfDone
    /\ Goto("r_stop")
    /\ UNCHANGED <<disk, desktop, queue, torn>>

RestoreStop ==
    /\ pc = "r_stop" /\ def \in Ours
    /\ running' = NoVer
    /\ Goto("r_wait")
    /\ UNCHANGED <<disk, desktop, queue, torn>>

RestoreWait ==
    /\ pc = "r_wait" /\ def \in Ours /\ PluginStopped
    /\ Goto("r_link1")
    /\ UNCHANGED <<disk, External, torn>>

(* Removed in the one order, rewritten in the other.                       *)
RestoreLink(s, first) ==
    /\ pc = s
    /\ torn' = TRUE
    /\ IF snap.state = NoState
         THEN /\ linkCur' = IF first THEN NoVer ELSE linkCur
              /\ linkPrev' = IF first THEN linkPrev ELSE NoVer
         ELSE /\ linkPrev' = IF first THEN snap.state.prev ELSE linkPrev
              /\ linkCur' = IF first THEN linkCur ELSE snap.state.cur
    /\ Goto(IF first THEN "r_link2" ELSE "r_state")
    /\ UNCHANGED <<state, dir, def, External>>

(* Mutant: the state file stays as the failed command wrote it.            *)
RestoreStateForgotten ==
    /\ pc = "r_state"
    /\ Goto("r_def")
    /\ UNCHANGED <<state, linkCur, linkPrev, dir, def, External, torn>>

RestoreState ==
    /\ pc = "r_state"
    /\ state' = snap.state
    /\ Goto("r_def")
    /\ UNCHANGED <<linkCur, linkPrev, dir, def, External, torn>>

RestoreDefinition ==
    /\ pc = "r_def" /\ def \in Ours
    /\ def' = snap.def /\ torn' = FALSE
    /\ IF snap.loaded THEN Goto("r_start")
       ELSE pc' = "unstage" /\ report' = "restored" /\ UNCHANGED command
    /\ UNCHANGED <<state, linkCur, linkPrev, dir, External>>

RestoreStart ==
    /\ pc = "r_start"
    /\ running' = def
    /\ Goto("r_health")
    /\ UNCHANGED <<disk, desktop, queue, torn>>

RestoreHealthy ==
    /\ pc = "r_health" /\ HealthProves(snap.state.cur)
    /\ pc' = "unstage" /\ report' = "restored" /\ UNCHANGED command
    /\ UNCHANGED <<disk, External, torn>>

GiveUp ==
    /\ pc \in {"r_stop", "r_wait", "r_link1", "r_link2", "r_state", "r_def", "r_start", "r_health"}
    /\ running' \in HalfDone
    /\ End("rollback failed")
    /\ UNCHANGED <<disk, desktop, queue, torn>>

Unstage ==
    /\ pc = "unstage"
    /\ IF created
         THEN Goto("unstage2") /\ dir' = [dir EXCEPT ![nxt.cur] = "partial"]
         ELSE End(report) /\ UNCHANGED dir
    /\ UNCHANGED ButDir

UnstageEnds ==
    /\ pc = "unstage2"
    /\ \/ End(report) /\ dir' = [dir EXCEPT ![nxt.cur] = "absent"]
       \/ End("rollback failed") /\ UNCHANGED dir
    /\ UNCHANGED ButDir

--------------------------------------------------------------------------------
(* start-installed-runtime and disable.                                    *)

StartInstalled ==
    /\ ~desktop /\ Owned /\ state # NoState /\ ValidInstalled(state)
    /\ Begin("start", state, IF running # NoVer THEN "s_health" ELSE "s_start")
    /\ UNCHANGED <<disk, External, torn>>

StartDefined ==
    /\ pc = "s_start" /\ def = snap.def
    /\ running' = def
    /\ Goto("s_health")
    /\ UNCHANGED <<disk, desktop, queue, torn>>

InstalledHealthy ==
    /\ pc = "s_health" /\ def = snap.def /\ HealthProves(state.cur)
    /\ End("ready")
    /\ UNCHANGED <<disk, External, torn>>

StartFails ==
    /\ pc \in {"s_start", "s_health"}
    /\ running' \in HalfDone
    /\ IF snap.loaded THEN End("failed") ELSE Goto("s_stop")
    /\ UNCHANGED <<disk, desktop, queue, torn>>

StopAgain ==
    /\ pc = "s_stop"
    /\ running' \in IF def = snap.def THEN HalfDone ELSE {running}
    /\ End("failed")
    /\ UNCHANGED <<disk, desktop, queue, torn>>

Disable ==
    /\ Owned /\ state # NoState /\ ValidInstalled(state)
    /\ Begin("disable", state, "d_stop")
    /\ UNCHANGED <<disk, External, torn>>

DisableStop ==
    /\ pc = "d_stop" /\ def = snap.def
    /\ running' = NoVer
    /\ Goto("d_wait")
    /\ UNCHANGED <<disk, desktop, queue, torn>>

DisableWait ==
    /\ pc = "d_wait" /\ def = snap.def /\ PluginStopped /\ Inventoried
    /\ End("disabled")
    /\ UNCHANGED <<disk, External, torn>>

--------------------------------------------------------------------------------
(* uninstall, and its purge.  From a half uninstalled agent a purge needs  *)
(* the proof an earlier preflight gave out; that it has one is a choice.   *)

Uninstall(o) ==
    /\ state # NoState /\ Inventoried
    /\ \/ Owned /\ ValidInstalled(state)
       \/ def = NoDef /\ PartlyUninstalled(state)
    /\ Begin(o, state, "u_stop")
    /\ UNCHANGED <<disk, External, torn>>

UninstallNothing(o) ==
    /\ pc = "idle" /\ state = NoState /\ def = NoDef /\ Inventoried
    /\ queue' = IF o = "discard" THEN "empty" ELSE queue
    /\ report' = "uninstalled"
    /\ UNCHANGED <<disk, running, desktop, pc, command, torn>>

UninstallStop ==
    /\ pc = "u_stop" /\ def = snap.def
    /\ running' = NoVer
    /\ Goto("u_wait")
    /\ UNCHANGED <<disk, desktop, queue, torn>>

UninstallWait ==
    /\ pc = "u_wait" /\ def = snap.def /\ PluginStopped
    /\ Goto("u_purge")
    /\ UNCHANGED <<disk, External, torn>>

PurgeCaptureState ==
    /\ pc = "u_purge" /\ Inventoried
    /\ queue' = IF op = "discard" THEN "empty" ELSE queue
    /\ Goto("u_def")
    /\ UNCHANGED <<disk, running, desktop, torn>>

RemoveDefinition ==
    /\ pc = "u_def" /\ def = snap.def
    /\ def' = NoDef
    /\ Goto("u_cur")
    /\ UNCHANGED <<state, linkCur, linkPrev, dir, External, torn>>

RemoveCurrentLink ==
    /\ pc = "u_cur"
    /\ linkCur' = NoVer
    /\ Goto("u_prev")
    /\ UNCHANGED <<state, linkPrev, dir, def, External, torn>>

RemovePreviousLink ==
    /\ pc = "u_prev"
    /\ linkPrev' = NoVer
    /\ Goto("u_dir")
    /\ UNCHANGED <<state, linkCur, dir, def, External, torn>>

(* What is left of a runtime goes in two steps, its files and then itself. *)
Gone(v) == IF v = NoVer THEN TRUE ELSE ~PartlyRemoved(v)

RemoveRuntime(s, half, v, next) ==
    /\ \/ /\ pc = s
          /\ IF Gone(v) THEN Goto(next) /\ UNCHANGED dir
             ELSE Goto(half) /\ dir' = [dir EXCEPT ![v] = "partial"]
       \/ /\ pc = half
          /\ Goto(next) /\ dir' = [dir EXCEPT ![v] = "absent"]
    /\ UNCHANGED ButDir

RemoveState ==
    /\ pc = "u_state"
    /\ state' = NoState
    /\ End("uninstalled")
    /\ UNCHANGED <<linkCur, linkPrev, dir, def, External, torn>>

Quit ==
    /\ pc \in {"d_stop", "d_wait", "u_stop", "u_wait", "u_purge", "u_def", "u_cur", "u_prev",
               "u_dir", "u_dir2", "u_old", "u_old2", "u_state"}
    /\ running' \in HalfDone
    /\ End("failed")
    /\ UNCHANGED <<disk, desktop, queue, torn>>

--------------------------------------------------------------------------------
(* Around the command.                                                     *)

Crash ==
    /\ pc # "idle"
    /\ running' \in HalfDone
    /\ End("none")
    /\ UNCHANGED <<disk, desktop, queue, torn>>

(* Where a command awaits something: others run.                           *)
Awaits == {"idle", "load", "stage", "copy", "prevlink", "stop", "wait", "define", "check", "health",
           "r_stop", "r_wait", "r_health", "s_start", "s_health", "s_stop", "d_wait", "u_wait", "u_cur"}

Same == UNCHANGED <<state, linkCur, linkPrev, dir, pc, command, report, torn>>

ForeignArrives == pc \in Awaits /\ def' = Foreign /\ Same /\ UNCHANGED External
ForeignLeaves == pc = "idle" /\ def = Foreign /\ def' = NoDef /\ Same /\ UNCHANGED External
DesktopChanges == pc \in Awaits /\ desktop' = ~desktop /\ Same /\ UNCHANGED <<def, running, queue>>
RelayWorks ==
    /\ running # NoVer /\ Inventoried
    /\ queue' \in {"empty", "records"}
    /\ Same /\ UNCHANGED <<def, running, desktop>>
AlienEntry == pc \in Awaits /\ queue' = "alien" /\ Same /\ UNCHANGED <<def, running, desktop>>
AlienRemoved ==
    pc = "idle" /\ queue = "alien" /\ queue' = "records" /\ Same /\ UNCHANGED <<def, running, desktop>>

(* The session ends, and the supervisor starts what is defined at the next *)
(* one.                                                                    *)
Login ==
    /\ pc = "idle"
    /\ running' \in {NoVer} \union (IF Owned THEN {def} ELSE {})
    /\ Same /\ UNCHANGED <<def, desktop, queue>>

Environment == ForeignArrives \/ ForeignLeaves \/ DesktopChanges \/ RelayWorks \/ AlienEntry \/ AlienRemoved \/ Login

Activation ==
    \/ \E o \in Activations : Activate(o)
    \/ (\E v \in Ver : LoadBundle(v)) \/ BundleRefused
    \/ \E o \in {"rollback", "rollback0"} : Rollback(o)
    \/ Stage \/ Copy \/ Seal \/ SealFails \/ StagedInVain
    \/ LinkPrevious \/ LinkCurrent \/ WriteState \/ Stop \/ WaitStopped \/ Define \/ DefinedStopped
    \/ Start \/ Healthy \/ Retire \/ RetireEnds

Restoration ==
    \/ Fail \/ RestoreStop \/ RestoreWait
    \/ RestoreLink("r_link1", TRUE) \/ RestoreLink("r_link2", FALSE)
    \/ RestoreState \/ RestoreDefinition \/ RestoreStart \/ RestoreHealthy \/ GiveUp
    \/ Unstage \/ UnstageEnds

Switching ==
    \/ StartInstalled \/ StartDefined \/ InstalledHealthy \/ StartFails \/ StopAgain
    \/ Disable \/ DisableStop \/ DisableWait

Removal ==
    \/ \E o \in {"uninstall", "discard"} : Uninstall(o) \/ UninstallNothing(o)
    \/ UninstallStop \/ UninstallWait \/ PurgeCaptureState \/ RemoveDefinition
    \/ RemoveCurrentLink \/ RemovePreviousLink
    \/ RemoveRuntime("u_dir", "u_dir2", nxt.cur, "u_old")
    \/ RemoveRuntime("u_old", "u_old2", nxt.prev, "u_state")
    \/ RemoveState \/ Quit

Next == Activation \/ Restoration \/ Switching \/ Removal \/ Crash \/ Environment

Spec == Init /\ [][Next]_vars

--------------------------------------------------------------------------------
(* What the supervisor starts at every login, and what it has running, is  *)
(* a complete runtime on disk, whatever failed and wherever a command died *)
(* (stageRuntime, restoreSnapshot, the retirement of old runtimes and      *)
(* uninstall each remove directories).                                     *)
ServiceRunnable ==
    /\ Owned => Sealed(def)
    /\ running # NoVer => Sealed(running)

(* What a report says of the machine when it is made.                      *)
Claim ==
    CASE report = "ready" ->
           /\ state # NoState /\ ValidInstalled(state)
           /\ running = state.cur /\ def = state.cur
           /\ ~desktop /\ queue = "empty" => Status = "ready"
      [] report = "disabled" -> state # NoState /\ ValidInstalled(state) /\ running = NoVer
      [] report = "uninstalled" ->
           /\ state = NoState /\ linkCur = NoVer /\ linkPrev = NoVer /\ running = NoVer
           /\ dir[nxt.cur] = "absent" /\ (nxt.prev # NoVer => dir[nxt.prev] = "absent")
      [] report = "restored" ->
           /\ state = snap.state /\ def \in {snap.def, Foreign}
           /\ IF state = NoState THEN linkCur = NoVer /\ linkPrev = NoVer ELSE ValidInstalled(state)
           /\ running = IF snap.loaded THEN snap.state.cur ELSE NoVer
           /\ created => dir[nxt.cur] = "absent"
      [] OTHER -> TRUE

(* A command that ends well, or says that it restored what was there, is   *)
(* right about the machine: state file, links, definition, directories and *)
(* service (activateBundle, rollback, restoreSnapshot, disable, uninstall).*)
ReportsAreTrue == [][pc # "idle" /\ pc' = "idle" => Claim']_vars

(* No step of a command touches a definition that is not the plugin's, and *)
(* none but a purge that recognises every entry, with the service stopped, *)
(* empties the queues (assertServiceDefinitionMatches, waitForPluginStop,  *)
(* captureStateInventory, purgeCaptureState).                              *)
TouchesOnlyItsOwn ==
    [][\/ Environment
       \/ /\ def = Foreign => def' = Foreign
          /\ queue # "empty" /\ queue' = "empty" => Inventoried /\ (torn \/ running = NoVer)]_vars

(* A command that dies or gives up leaves an agent that some command       *)
(* accepts: what is defined is validly installed, what is not can be       *)
(* uninstalled.  The exceptions are a death between the first move of a    *)
(* link and the write of the state file, and one in a restoration before   *)
(* the definition is back: after those every command may refuse.           *)
Recoverable ==
    pc = "idle" /\ ~torn =>
      /\ Owned => state # NoState /\ ValidInstalled(state)
      /\ def = NoDef /\ state # NoState => ValidInstalled(state) \/ PartlyUninstalled(state)

(* "The leftover directory is inert and harmless" (activateBundle): no     *)
(* activation is refused because of what an earlier removal left.          *)
LeftoverIsHarmless == report # "leftover"
================================================================================
