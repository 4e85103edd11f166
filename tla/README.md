# Verification of the CoreDoc workflow runtime

The plugin `coredoc-workflows` gives a coding agent a *workflow run*: a router
starts it, stages of it are started and finished, hooks observe what the agent
does meanwhile, and it ends as success, failed, blocked or abandoned.  Every
command is a short-lived Node process; what they share is a directory of JSON
files.  These modules model how those processes interact through the files,
check the models with TLC and prove the main properties with TLAPS.

Paths below are relative to `src/plugins/coredoc-workflows/scripts/` unless they
say otherwise.

## The system

| Part | State it keeps | Operations | Hard behaviour |
| --- | --- | --- | --- |
| Stage lock (`workflow-run-state.mjs:140-193`) | a lock file created with `O_EXCL` next to each run file | acquire with retries, take over a stale file, release | stat and remove are two system calls; a killed holder; a slow holder |
| Run file (`workflow-run-state.mjs`) | one JSON file per host session: status, stage progress, time stamps, acceptance record; one events file with observations | route, start/finish stage, suspend, resume, claim, complete, finalize, park, reactivate | whole-file read-modify-write; some reads and removals take no lock |
| Run finish (`finish-run.mjs`) | none of its own | judge, close the open stage, deliver events, write history, remove the run | judged on one read, removed much later |
| Expiry sweep (`expired-runs.mjs`) | none of its own | claim and finish runs of sessions that never came back | its claimant may be killed; its user may come back meanwhile |
| Acceptance (`spec-acceptance.mjs`, `spec-artifact.mjs`) | a directory per parked run; `run:` and `status:` keys in the document | park, accept, finish, abandon | a run moves between two homes by several file operations |
| Gates (`workflow-gates.mjs`) | results recorded on the run | evaluate, refuse, warn, skip | judged before the lock is taken |
| Observer (`workflow-observer.mjs`) | appends to the events file | record an edit, a skill, a verification, a CoreDoc call | appends without the lock |
| Capture outbox (`../runtime/capture/`, `capture-client.mjs`) | one file per undelivered event | enqueue, flush, acknowledge | concurrent flushers, at-least-once delivery, deadlines |
| Delivery state (`capture-state.mjs`, `retry-pending.mjs`) | one file per run with the state of each event | fold transitions in, reconcile with the outbox | unlocked read-modify-write |
| Managed relay (`managed-otel-relay.mjs`) | a durable queue of native logs; in memory, the logs of Codex sessions nobody has claimed, and the claims (`codex-attribution-state.mjs`) | admit, evict, drain; hold, claim, sweep; stop | everything between two awaits is atomic, nothing across one is; queue limits, a stop with work in flight |
| Capture agent lifecycle (`capture-agent-lifecycle.mjs`) | runtimes by version, two links, a state file, the service definition, what the supervisor runs | setup, upgrade, roll back, start, disable, uninstall, purge | a death between any two writes; an undo that fails; another program's definition |
| Capture agent setup (`capture-agent-setup.mjs`, `-enrollment`, `-policy`, `host-global-config.mjs`) | identity, relay configuration, ingress, blocks in the hosts' files, tokens on the server, a purge receipt | setup, upgrade, disable, uninstall, purge | one command over five parties, each of which can refuse, and each undo as well |
| Artifact checkpoints (`artifact-checkpoints.mjs`, `../runtime/artifacts/`) | queued and quarantined revisions, `state.json` | discover, queue, send, quarantine | unlocked read-modify-write of `state.json` by several commands |

Components call each other in one process (`finish-run` calls the run file's
operations, then capture) and meet other processes only in the files.  Two
processes of one checkout run at the same time whenever two sessions are open,
when a hook fires while a command runs, and when a route sweeps other sessions'
runs.

What makes the run file correct: at most one stage is open; an occurrence is told
to the server with one outcome; a claimed run is never resumed; a success has
all its stages; an ended run stays ended; a run keeps one home and its
observations while it moves; time spent waiting is not counted as work; nobody
loses a run that still awaits an acceptance.  What makes the capture side
correct: an event, a record or a revision that was accepted is delivered, kept or
counted as lost; a report says what is on the machine; the hosts are never
pointed at a service that does not run; whatever failed, some command accepts
what it left.

## Modules

### StageLock, StageMutex, MCStageLock

`StageLock` models `acquireStageLock` and `withStageStateLock` at the granularity
of system calls.  `pc` is the position of each command: `open`, `stat`, `steal`,
`sleep` are in the acquisition loop, `read`, `write`, `release` in the
transition.  `owner` is the creator of the lock file, `age` its age in ticks,
`ledger` the set of updates the run file holds; a write replaces it by what was
read plus the command's own update, as `atomicWriteJson` replaces the file.
`Tick` lets time pass, but no transition runs longer than `MaxHold`.  `Crash`
kills a command anywhere; the lock file stays.  Two history variables record the
two things the lock does not withstand: `outlived`, a transition that was still
running when its file got stale, and `doubled`, two waiters that had both found
the file stale and not yet removed it.

`StageMutex` is the abstract promise: at most one command inside, and the log only
changes by the update of the command that is inside.  `MutexUntilBroken` states
that under the mapping `inside = {p : pc[p] inside}` every step of `StageLock` is one
of `StageMutex`, or a stutter, until one of the two has happened: kills, takeovers of
stale files, retries and removals by name included.

| Run | Result |
| --- | --- |
| `lock_takeover` | Three commands, one possibly killed anywhere, transitions of up to twice the stale age.  `TypeOK`, `MutexUntilBroken`, `AcquireReturns` and `StaleLockRecovered` hold.  A killed or slow holder and two waiters are what both ways to break the lock need; two retries let a waiter find the file stale and, after removing it, create its own. |
| `lock_double_steal` | `NoLostUpdate` fails: two waiters stat the same stale file of a killed holder, the first removes it and creates its own, the second then removes, by name, the fresh file. |

A transition that outlives `STAGE_LOCK_STALE_MS` loses its lock in the same way;
`suspendWorkflowRun` and `parkWorkflowRun` take git snapshots inside the lock.  The
code withstands neither; what `MutexUntilBroken` adds is that nothing else breaks it.

Fairness: a running command keeps executing (weak fairness of its steps) and time
passes.  Nothing is assumed about further commands being invoked.

Proved for every number of commands, kills and retries, every stale age and every
length of a transition: `TypeOK` and `MutexUntilBroken`.  `LockInv` says, of every state
in which the lock is not broken: whoever is inside created the file; a file whose
creator is not inside was left by a kill; the file of someone inside is no older
than the time it has been inside; one waiter at most has condemned a file, and
that file is a killed command's; and the holder has seen the whole ledger between
its read and its write.  That a single waiter removes the right file is the
interesting step: between its stat and its removal nobody can create one, because
nobody else may remove the stale one.  `PairExcludes` follows: two commands whose
transitions end before their file is stale exclude each other without exception
(`MutualExclusion`), however often they are killed, because no third one is there
to condemn the same file.

### StageRun, MCStageRun, StageRunProofs

`StageRun` takes the lock as given and models the ledger of one run: `status`,
and per stage the `attempt` and `outcome` of its latest occurrence.  A locked
transition reads the file in one step, which prepares the new contents in
`pending`, and writes it in another (`Commit`).  In between no other locked
transition starts, but everything that runs without the lock may: the read of
`completeWorkflowRun` (`Complete`), the deliveries (`SendStageEvent`, `Report`)
and the removal (`Finalize`).  `cmd` is the state of each command invocation,
including what it delivers next and where it continues.  `Killed` ends a command
anywhere, and `KilledWithinClaim` a sweep between the two writes of a claim that
also closes a stage.

| Run | Result |
| --- | --- |
| `stage_ledger` | Two commands, two dependent stages, two attempts, one kill.  `AtMostOneOpen`, `OpenStageHasBasis`, `OneStoryPerOccurrence`, `OccurrencesAreFinal` and `ClaimedRunEnds` hold. |

Two commands are enough for these races: each is between one command inside the
lock and one outside, or between two that compete for it.  Two attempts give
every stage a retry, two dependent stages a basis that can be run again.

Fairness: a command that was started gets on, and again and again a route's
sweep obtains the lock and claims a run that can be claimed (strong fairness,
because other commands' writes disable the claim in between).  The code has no
timer of its own; each route sweeps, so this says that users keep routing.

Proved for any number of commands, stages and attempts and any dependency
relation: the type invariant, all the safety properties of `stage_ledger`, and
`ClaimIsOneWay`, that a claimed run is never resumed.  The inductive invariant
says that what the lock holder is about to write is a legal successor of the
file as it is now, and that every finished event in flight or sent belongs to a
closed occurrence with that outcome or to an earlier attempt.

### RunLedger, MCRunLedger, RunLedgerProofs

`RunLedger` models where runs live and which command moves or ends them.  `slot`
is the run file of each session, `dir` the parked files of each run, a file being
reduced to the run, the session in its `sessionId`, the session its acceptance
record names as origin, its status and whether it has such a record.  Each
session runs one command at a time; `pc`, `why`, `place`, `chosen` and `judged`
are what that command has in memory, so that a file chosen before a lock and
used after it may be out of date.  A park is two steps (`Leave`, `Left`) and so is
a reactivation (`Reactivate`, `Arrived`); the start of a run is a check
(`CheckSlot`) and a write (`Start`) with no lock between them; a finish is a read
(`Complete`), a delivery (`Deliver`) and a removal (`Remove`).  `Killed` ends a
command between any two steps; a run whose move it cuts in half is in `torn`.

| Run | Result |
| --- | --- |
| `ledger_homes` | Two sessions, two runs, one kill.  `OneHomeAtRest` and `FinishedUnderOrigin` hold. |

`OneHomeAtRest` excepts torn runs because for them it is false: a kill between
the write of the new copy and the removal of the old one leaves both, and
nothing in the code reconciles them.  Two sessions give every race its two
sides, and two runs let one be routed while the other is moved, claimed or
ended.

No fairness: the properties are safety properties, and the system may stop
between any two commands.

Left out: the observations moved along with a run, the `run:` pointer in the
document, and refusals by gates.  When a run is due, and whether a sweep gets to it
within its limit of five, is the subject of `RunTiming`, so a sweep may take any
waiting run; a run that is parked twice, or a claim taken again early, is
therefore included.

Proved for any number of sessions, runs and kills, torn runs included: `TypeOK`
and `FinishedUnderOrigin`.  The latter speaks of the events only; `OriginInv` says
the same of every file in a slot or a directory and of every file a command has
read and not yet used, that a parked file always has an acceptance record (a
reactivation keeps the record's origin, whatever session takes the run), and that
a command past its choice has a file in mind.  A run is routed once, so that no
older file speaks of it.

Proved in the second half of `RunLedgerProofs`, for any number of sessions, runs and kills:
`OneHomeAtRest`.  `HomeInv` says where a run may be while commands are on their
way.  A file in a slot *stays* there unless a command is moving it out; a run
stays in at most one slot; a directory holds at most one file; and while it holds
one, its run stays in no slot but the one it is being moved into.  What makes
this inductive are the locks: the slot a run leaves is never one that another is
arriving in, which `Reactivate` and `Leave` check and `Left` relies on.

### RunTiming, RunFileProofs

`RunTiming` models the clock of one run: where it is (`home`), its status, the
stamps `suspendedAt`, `acceptance.parkedAt`, `startedAt` of the open stage, the
accumulated `suspendedMs` and the recorded duration, with `worked`,
`firstAsked` and `parks` as history.  Every locked transition is one step.  A sweep
takes the runs that wait longest first and `MAX_EXPIRED_RUNS_PER_SWEEP` at most, and
a run it fails on counts (`expired-runs.mjs:69`, `:122`, `:154`).  `ahead` counts the due
runs listed before this one, of which each sweep ends some; `Stuck` of them make
every sweep fail.  A sweep reaches this run (`Reached`) when both together are fewer
than its limit.

| Run | Result |
| --- | --- |
| `timing_run` | One session TTL of 1, an acceptance TTL of 2, a user active for five ticks, up to three parks, a sweep of two runs, one of them failing always and up to two others ahead.  `BooksAreExact`, `AcceptanceIsGivenTime` and `WaitEnds` hold. |

`BooksAreExact` and `WaitEnds` are stated for runs parked at most once because
beyond that they are false: a second park dates the suspension back, so the wait
between the two is counted again.  Two different TTLs are needed to tell which
one a sweep applied; the horizon of five leaves room for a park, a
reactivation, a suspension and another park, each on a tick of its own.  Two runs
ahead and one that fails are more than one sweep takes, so that this run has to
wait for a later one.  With as many failing runs as a sweep takes `WaitEnds` is
false (`timing_starved`): they come first at every sweep and use up its budget.
That can happen, because a run that `timing_stuck` shows never to be closable is
such a run.

Fairness: time passes, every route sweeps and routes go on, a sweep ends what its
budget allows, and one that gets to this run ends it.

Proved for all TTLs, horizons, numbers of parks and budgets: `TypeOK`, `BooksAreExact`,
`WaitIsNotReset` and `AcceptanceIsGivenTime`.  `TimingInv` extends the books to
suspended runs and says that an acceptance record is dated from the first park,
that a parked run's two stamps agree and that every stamp is past.

### CaptureDelivery, AtLeastOnce, MCCaptureDelivery, CaptureDeliveryProofs

`CaptureDelivery` models the way of a capture event from the command that emits
it to the server, and the notes that say how far it got.  `outbox` is the set of
payload files, `judged` what the server has accepted or rejected, `noted` the
state file of the run.  A command is one process: the delivery of a new event
(`Deliver`, `Scan`, `Store`, `Overflow`, `Room`), the retry at a session's start
(`Retry`, `ListPending`, `ListPresent`, `Reconcile`), the fold at the end of a run
(`Fold`) or `capture-health --ack` (`Ack`).  Deliveries and retries share the flush:
`List`, then an answer (`PartAnswer`) or none (`NoAnswer`), then one removal after the
other (`Acknowledge`).  Nothing takes a lock, so every look at the directory, every
write and every removal is a step; a note is a read of the whole state file
(`ReadNotes`, or the first step of `Reconcile`, `Fold` and `Ack`, which leave what they will write in `edit`)
and its replacement (`WriteNotes`).  `Killed` ends a command between any two steps.

`AtLeastOnce` is what the outbox promises: an event entrusted to it is kept
until the server has judged it, possibly more than once, and never comes back.
`KeepsUntilJudged` states that `CaptureDelivery` implements it with `kept` read as
`outbox`; the server is the same in both.

| Run | Result |
| --- | --- |
| `delivery_outbox` | Two commands, two events of which the server rejects one, room for one, one kill.  `EveryEventAccountedFor`, `NotesAreTrue` and `KeepsUntilJudged` hold. |
| `delivery_settles` | The same without kills and housekeeping.  `EventsSettle` holds. |

Two commands and a limit of one are enough for two commands to find the same
place free, which puts two payloads into an outbox with room for one: the
overrun, the overflow, the second attempt and a `list()` shorter than the outbox
all occur.  Two events make a receipt partial.  An entry may age out in any
`Reconcile`, which includes the reconciliations in which it is old enough.

Fairness: a command that was started gets on, sessions keep starting (strong
fairness of `Retry`, because commands that are running are not sessions that
start), and the server is not out of reach for ever (strong fairness of a full
answer).  Without the last nothing can settle; the code has no attempt limit.

The events are of one run and one binding.  A request that arrives after its
sender has given up is modelled as arriving when the sender gives up; what can
follow is the same, because the sender learns nothing.  Left out: the search for the
project that owns the notes, the cap of 200 notes, refused configurations and
the health counters.

Proved for any number of commands, events, limits and kills: `TypeOK`,
`NotesAreTrue`, `EveryEventAccountedFor` and `KeepsUntilJudged`.  None is inductive.
`DeliveryInv` adds that every note in any command's memory (`news`, `edit`) is true
as well, so that the last writer of the file cannot make it false; that what was
sent had been staged and what is to be removed has been judged; and that no two
commands have the same event and an event not yet staged is unknown to the
server.  `AccountInv` adds that a command with an event in hand has reported it
lost exactly when the flush that was to make room has failed.

### CaptureAgent, MCCaptureAgent, CaptureAgentProofs

`CaptureAgent` models `capture-agent-lifecycle.mjs`, in which a command moves five
things one after the other: the directory of a runtime (`dir`, by version), the
links `current` and `previous`, the state file (`state`), the service definition
(`def`) and what the supervisor runs (`running`).  `pc` names the next write or
await of the command, `snap` what it found and will put back, `nxt` what it
installs.  An activation (`setup`, `upgrade`) loads the bundle, stages the runtime,
moves the links, writes the state, stops the service, rewrites the definition,
starts and probes it and retires the oldest runtime; any of these may fail
(`Fail`) and is followed by the restoration (`r_*`), whose steps may fail in turn.
`rollback`, `start`, `disable`, `uninstall` and the purge are the other commands.
`Crash` kills the command anywhere.  In `Environment`, another program replaces the
definition, Desktop's relay takes the port, the supervisor starts what is
defined, and records arrive in the queues.

Commands exclude each other by a kernel lock that a death releases, so there is
one at a time, and a check that is followed by a write without an await is one
step with it.  `Retired`, `RestoreState` and `Define` are where a small change of
the code would go unnoticed longest; the mutants sit there.

| Run | Result |
| --- | --- |
| `agent_lifecycle` | Three interchangeable versions, the commands in every order, a failure or death anywhere.  `ServiceRunnable`, `Recoverable`, `ReportsAreTrue` and `TouchesOnlyItsOwn` hold. |

Three versions are one more than a state file names: with the third an
activation retires a runtime, and a rollback can be followed by the activation
of one that is neither current nor previous.  There is no bound on commands,
failures or deaths: the state space is finite as it is.

`Recoverable` excepts `torn`, two windows in which a death leaves an agent that
every command refuses: between the first move of a link and the write of the
state file, and in the restoration of a first installation after the state file
was removed and before the definition was.  No command of the plugin gets out of
either.  On macOS the definition keeps `RunAtLoad`, so a disabled service runs
again after the next login; `Environment` starts it.  The proof a purge asks for
that nothing else uses the queue is a choice, and `assertHostRuntime` is not
modelled.

Proved for any set of versions: the type invariant, `ServiceRunnable`,
`TouchesOnlyItsOwn`, `Recoverable` and `ReportsAreTrue`.  The first inductive invariant states what each step of each command
may rely on, most of all which directories it has seen sealed: the
definition is written only for a sealed runtime, and no runtime is removed that
the definition, the supervisor or the restoration still needs.  The second, `Life`,
holds on top of it and adds the order: where links and state file agree and where
they are torn (`LinkInv`), what of the old installation is still there and what of
it is back (`OldInv`), that what runs is what is defined (`RunInv`), and that a
removal does not leave behind what it has passed (`RemovalInv`).  From `Life` an agent at
rest is recoverable, and `Ends` says of every step that ends a command that what
it reports is so.

### NativeOutbox, MCNativeOutbox, CaptureServiceProofs

`NativeOutbox` models the durable queue of native telemetry in
`managed-otel-relay.mjs`.  `records` are those on disk, in the order of their
arrival; `wait` and `aged` say when they are due and which are too old; `count` is
the `evictedCount` of each binding.  A request arrives (`Arrive`), its record is
written, after the evictions that make room (`Admit`) or not (`Refuse`), is sent and
answered (`Sent`, `NotSent`).  The interval starts a drain (`Tick`) over a list taken
before its awaits (`list`, `cur`), which skips, defers or sends each record.  The
relay is one thread, so what it does between two awaits is one step, except
that an eviction series can stop half way when a write fails (`EvictionStops`).
`RelayDies` and `Close`, `LastDrain`, `Exit` are the two ways it ends, `RelayRestarts` its
return.

| Run | Result |
| --- | --- |
| `native_outbox` | Three records, room for two, drains of one, one stop or change of the configuration.  `QueueTypeOK`, `NothingLostSilently`, `Bounded` and `QueueEmpties` hold. |

Three records over two places evict while an older record is in flight; a drain
that takes one record can be overtaken by requests and by an eviction.  The
limit of bytes is not modelled, because it only adds evictions of the same kind.

Fairness: the timer and the event loop run, the supervisor restarts the service,
a request to the upstream ends by itself or by its timeout, and an upstream that
is tried again and again accepts some time.  The last is assumed of every record
by itself, because 24 older records that cannot be delivered keep the drain from
every later one until they are seven days old.

A drain can send a record again that a request has meanwhile delivered, because
its list is older than the acknowledgement; `src/README.md:464` calls the queue
replay-safe, and the history variable is a set for that reason.

Proved for any number of records, bindings, places and stops: `QueueTypeOK`, `Bounded`
and `NothingLostSilently`.  The bound needs one argument, that `MustGo` takes enough
of the oldest for the new record to fit; everything else only removes.  For the
losses each step falls under one of two lemmas: it counts the records it takes
(`CountedLoss`, by cardinalities of unions), or it loses none (`NoLoss`).  An eviction
that stops half way counts what it was going to take, so it only over-counts.

### CodexClaims, MCCodexClaims, CodexClaimsProofs

`CodexClaims` models how the relay attributes Codex logs to a repository.  Logs of
a session nobody has claimed are held (`buffer`); the first claim pins the session
(`claim`) and sends what was held from the array it took (`array`), one await per
entry.  Meanwhile sweeps give every session a new array (`shared` says whether the
claim still has the same one), other claims wait for their turn (`asked`), a send
fails and puts the rest back, claims lapse, bindings come and go, and the relay
may die, which turns what was pending into a count of rejections at the next
start (`disk`).

| Run | Result |
| --- | --- |
| `codex_claims` | Three requests of two sessions, two interchangeable bindings, two claims, room for two held records, one death or change.  `TypeOK`, `AcceptedIsHeld` and `SessionIsPinned` hold. |

Two requests of one session give its claim an array of two, of which the second
is sent after an await; two claims on it compete.  The third request is of
another session and fills the buffer.  `AcceptedIsHeld` excepts `orphaned`, a
binding that is removed while a claim on it is sending: what comes in then can be
dropped with the array.

Proved for any number of requests, sessions, bindings, claims and any capacity:
`TypeOK`, `AcceptedIsHeld` and `SessionIsPinned`.  `ClaimsInv` says what a claim
relies on while it is away at an await.  The array is its own only as long as it
sends and is never empty then (`Arrays`); a claim that stands is on disk, and a
session that is being sent to a binding is claimed for no other (`Standing`); and,
as long as no binding is removed under a claim, what is held for the session but
is not in the claim's array has been forwarded, and what is in the array and not
held any more was forwarded or rejected by a sweep (`Kept`).  Without `Kept`
`AcceptedIsHeld` is not inductive: the last step of a claim drops a session from
`codexBuffers` without looking at what is in it.  What a sweep leaves of an array
(`Without`) is shown to hold exactly the records that are not too old, which needs
an enumeration of a finite set of numbers to exist (`InOrder`); it is found by the
least counterexample, since a set of naturals that is not empty has a least
element.

Neither relay module models the proxy of capture deliveries, the health report
and the sanitizer, which is a filter of fields.  A second relay that is started
builds its store before it fails to listen; it then exits, and its effect on the
first one's queue is not modelled.

### CaptureSetup, CaptureServiceProofs

`CaptureSetup` models the commands that drive the agent: `setup`, `upgrade`,
`disable`, `uninstall` and the purge (`capture-agent-setup.mjs` with enrollment,
policy and `host-global-config.mjs`).  `files` are identity, relay configuration and
Codex ingress; `host` says, for each file of a host, whose binding our block in
it carries; `live` are the tokens the server accepts; `receipt` is the record that
lets a purge go on after the revocation.  A setup enrolls or rotates a token for
each destination, writes the state files, sets up the service, writes the host
files and verifies; when a part fails, the parts done before it are undone in the
reverse order (`u_*`).  A purge stops the service, revokes the token, writes the
receipt, removes service and credentials and at last the receipt (`p_*`).

A transaction over several files is one step that, when it fails, leaves what
the code can leave: a prefix of its files, or what of it could not be put back.
An operation of the service succeeds, fails without a trace or tears the service;
its own steps are the subject of `CaptureAgent`.  The setup lock admits one command
at a time.

| Run | Result |
| --- | --- |
| `setup_commands` | Three commands over one checkout that may be listed, moved to another destination and dropped, three destinations, two faults.  `TypeOK`, `ReportsAreTrue`, `NoDeadRoute`, `ReceiptIsTrue`, `RepairIsPossible`, `RecoveryKept` and `PurgeEnds` hold. |

Three commands are an installation, its change and a removal, or a purge that
failed between two of another kind.  Two faults are a failure and the failure of
its undo, or a failure and a death.  Three destinations are the default and two
a checkout can move between.  A purge that is resumed mints nothing and is not
counted.

`NoDeadRoute` speaks of the two global host files and of the settings of every
checkout: whose block is there, the service runs, and relay.json has its binding.
For the settings that is not so while a setup is between its state files
(`capture-agent-setup.mjs:1221`) and its host files (`:1224`), or between the same two
on its way back (`Rebinding`): there they may have the binding the setup found.  A
command that dies in between leaves them so; when the checkout was dropped from
the policy, no later command knows of it, because all the next one reads is the
identity.  Such checkouts are `orphans`; `NoDeadRoute` and `ReportsAreTrue` except their
settings, also after a setup that is done and a purge, until a later command has
put them right.  What a service or a state file torn by a failed undo leaves
(`torn`) is excepted as a whole.

Fairness: somebody repeats a purge that did not finish, and a command that runs
goes on.  The code asks the user to repeat it (`INSTALLATION_REVOKE_UNCONFIRMED`).

One Codex profile stands for all, the default destination does not change (the
code refuses to resume a purge under another one), `MaySetUp` leaves out the
refusals for what other programs have put into the hosts' files or on the port, and
an identity is written at once and not provisionally first.  The editing of JSON and
TOML is reduced to whether our block is there and whose binding it carries.
`assertHostIntegrationAbsent` looks at the global files only, and so does
`Unconfigured`.

Proved for any checkouts, destinations, commands and faults: every safety property
of the run.  None of them is inductive, because what a step does rests on what
the command read or did several steps before.  `SetupInv` says that, in parts:
`PhaseInv`, which command a step belongs to and that an undo that failed is
remembered as such; `MachineInv`, what holds of identity, service, hosts and settings
at any time; `FoundInv`, that what a setup goes back to was in order and that a token
it minted is known to it or was lost; `ApplyInv`, that the parts done are as the
setup wants them; `UndoInv`, that a part not yet undone is an applied one;
`RemovalInv`, that what a removal gives back fits the service that is there; and
`CompletingInv`, what a purge may rely on once its receipt is written.  The proof
takes the actions in the four groups of `Next`, part by part.

Two things the model shows and no property states.  A purge revokes the token of
the default destination and no other.  When the receipt cannot be written after
the revocation, the next purge is told that the revocation is unconfirmed.

### ArtifactOutbox, MCArtifactOutbox, ArtifactOutboxProofs

`ArtifactOutbox` models the checkpoints of specifications, designs and issues.
`outbox` and `quarantine` are the files of the two kinds, `state` is `state.json`: the
next number, the digest last queued of each document, and the list of quarantined
records.  A command discovers the documents whose digest is not in `state.json`
and queues them one by one, or lists the queue and sends it record by record; it
then removes, keeps or quarantines each.  Nothing locks the directory, so every
read, write and rename is a step, and every write of `state.json` puts back what
its writer had read.  `enqueue` reads the queue (`FoundQueued`, `Overflow`, `HasRoom`)
and then `state.json` (`AlreadyQueued`, `Number`) in two steps; a quarantine removes
what no longer fits (`Evict`), writes the state (`Keep`) and renames the record
(`Rename`) in three.  `Die` ends a command between any two.

| Run | Result |
| --- | --- |
| `artifact_outbox` | Two commands, one document of three interchangeable contents, room for two queued records and one quarantined, one death or request without an answer.  `TypeOK`, `NothingForgotten` and `EvidenceKept` hold. |

Two commands that overlap find the same number and the same last place free, so
that two records bear one number and the queue holds one too many, whereupon the
list refuses to be read.  Three contents are two changes, of which the second
can bring an earlier content back.  Four starts let each command queue and send.
`Late` lets a request arrive whose sender had given up.  The health code in
`state.json` is left out; the PUT of a task and that of its revision are one.

Proved for any documents, contents, limits and number of commands and deaths:
`TypeOK`, `NothingForgotten` and `EvidenceKept`.  The last asks, when a quarantined
record is removed, for a newer one that is listed or that the command is about to
list; a command that dies there has removed the older one all the same, and sends
the newer one again.  That the queue stays within its limit it does not say.  The
first says more than types: a
`state.json` that lists more quarantined records than its reader accepts, or two
of one number, would make every later command fail, and `TypeOK` excludes it.
The argument is that every copy of `state.json`, on disk or in a command's memory,
only names digests of revisions that are queued, accepted or refused, and that
an entry that leaves the quarantine list has at least as many newer ones above
it as the list has places.

## Counterexamples

Ten properties that one would state of this code, most of them in its own words,
are false of it.  `lock_double_steal` is a run of the project and a finding; the
others are kept as configurations and can be run with
`tlc -config <name>.cfg <module>`; each ends with a counterexample.

| Configuration | Module | What fails |
| --- | --- | --- |
| `stage_finish_race` | `MCStageRun` | `SuccessIsComplete`: a stage started after the read a finish is judged on (`finish-run.mjs:481`) is still open when the run is recorded a success.  `finish-run.mjs:227`: "only it fails closed on an open stage". |
| `stage_resurrected` | `MCStageRun` | `EndedStaysEnded`: the removal (`workflow-run-state.mjs:1225`) takes no lock, so a transition in progress writes the removed run back.  `workflow-run-state.mjs:1209` calls it "The single end of a run". |
| `ledger_vanished` | `MCRunLedger` | `NoRunVanishes`: a sweep claims the suspended run of a session that comes back and routes again.  The claimed run does not count as live (`workflow-run-state.mjs:343`), the new run's file replaces it, and the sweep finds nothing, or the new run, to finish. |
| `timing_stuck` | `RunTiming` | `AbandonedRunExpires`: a run parked a second time is dated back to the first park, its open stage started after that date, and closing the stage at that date is refused at every sweep (`workflow-run-state.mjs:864`).  `expired-runs.mjs:19`: it "is abandoned by the next router that notices". |
| `timing_starved` | `RunTiming` | `WaitEnds`: as many older runs that cannot be closed as a sweep may take (`expired-runs.mjs:69`) are tried first at every sweep and count against it; a run behind them is never tried.  The same sentence of `expired-runs.mjs:19`. |
| `delivery_rejection` | `MCCaptureDelivery` | `RejectionSurvives`: a command that read the notes before a rejection was written, and writes after the payload was removed, puts `queued` back. |
| `agent_leftover` | `MCCaptureAgent` | `LeftoverIsHarmless`: a runtime whose removal failed half way blocks a later activation of the same version.  `capture-agent-lifecycle.mjs` calls the directory "inert and harmless". |
| `codex_lost` | `MCCodexClaims` | `LossIsVisible`: a death while a claim sends loses records that no rejection counts.  `managed-otel-relay.test.mjs:940`: "turns an in-memory pre-claim buffer into visible rejections after relay restart". |
| `setup_restored` | `CaptureSetup` | `RestoredIsRestored`: a transaction of state files fails, cannot put back the first, and the setup reports `restored`, because only parts that were applied are undone and asked. |

Other things met while modelling, which no property states: `parkDeliveredDraft`
reads the observations of a slot after the park has moved them
(`finish-run.mjs:397`); an acceptance between the two file operations of a park
loses the observations; the finish of an accepted run removes the `run:` pointer of
another one that has meanwhile taken its place; in workspace mode the checkpoints
of several repositories share a store, and each reconciliation drops the digests
of the others; a document that is changed and changed back while its first
revision is still queued is delivered with the second content last.

## What is proved

Each proof is for every value of the constants, from the named assumption on the
constants in its module and nothing else, except that `PairExcludes` is about two
commands whose transitions do not outlive the stale age.  Each goes the same way: an inductive invariant, one lemma per
action, `Init` and the step, then the property.

| Module | Theorems |
| --- | --- |
| `RunFileProofs` (lock) | `TypeCorrect`, `LockInvariant`, `LockExcludesUntilBroken`, `PairExcludes` |
| `RunFileProofs` (clock) | `TimingInvariant`, `TimingTypeCorrect`, `BooksStayExact`, `WaitKeepsItsStart`, `AcceptanceHasItsTime` |
| `StageRunProofs` | `LedgerInvariant`, `TypeCorrect`, `OneOpenStage`, `OpenStagesHaveBasis`, `OneStory`, `OccurrencesStayFinal`, `ClaimStays` |
| `RunLedgerProofs` | `OriginInvariant`, `OriginIsKept`, `TypeCorrect`, `OneHome` |
| `CaptureDeliveryProofs` | `DeliveryInvariant`, `TypeCorrect`, `NotesAreAlwaysTrue`, `OutboxKeepsItsPromise`, `EveryEventIsAccountedFor` |
| `CaptureAgentProofs` | `TypeCorrect`, `ServiceStaysRunnable`, `OthersAreRespected`, `AgentIsRecoverable`, `ReportsStayTrue` |
| `CaptureServiceProofs` (queue) | `QueueTypeCorrect`, `QueueIsBounded`, `NothingIsLostSilently` |
| `CaptureServiceProofs` (setup) | `SetupInvariant`, `SetupTypeCorrect`, `ReportsStayTrue`, `RoutesAreLive`, `ReceiptStaysTrue`, `RepairStaysPossible`, `RecoveryIsKept` |
| `CodexClaimsProofs` | `ClaimsInvariant`, `TypeCorrect`, `AcceptedLogsAreHeld`, `SessionsArePinned` |
| `ArtifactOutboxProofs` | `OutboxInvariant`, `TypeCorrect`, `NothingIsForgotten`, `EvidenceIsKept` |

`RunFileProofs` extends both `StageLock` and `RunTiming`, which share no variable; the
definitions of `RunTiming` that every module has carry its name (`TimingSpec`).
`CaptureServiceProofs` extends `CaptureSetup` and `NativeOutbox` in the same way
(`QueueSpec`).  Every safety property that a passing run checks is stated by one of
these theorems.

## Only model-checked

Liveness (`AcquireReturns`, `StaleLockRecovered`, `ClaimedRunEnds`, `WaitEnds`,
`EventsSettle`, `QueueEmpties`, `PurgeEnds`) is checked by TLC; the proof system does
not handle fairness or `ENABLED`.

## Not modelled

- The contents of events, summaries, history lines and messages, git snapshots,
  the text of host files.
- Gates (`workflow-gates.mjs`), the schemas of events and the sanitizer: functions
  without state.  What a gate decides is left open wherever it is asked.
- The observer: it appends to an events file that only the gates read.
- The observations that move with a run and the `run:` pointer in its document.
- Delivery over several runs and bindings: the search for the project that owns
  a note, and entries of another binding.
- The relay's own drain of the capture outbox (`drainCaptureOutboxes`,
  `managed-otel-relay.mjs:2757`): it flushes the same directory and writes no notes,
  as a `Retry` of `CaptureDelivery` that is killed before its notes.
- In `CodexClaims`, that 2,000 newer claims arrive while one session sends, whose
  claim is then dropped (`codex-attribution-state.mjs:148`).
- Git delivery preflight and the change baseline: read-only queries of git and a
  verdict.  The cross-model runtime: it starts another program and reads its
  answer.
- The skill builder, the redaction scan, the retrospectives, the command line.

`STALE_CLAIM_MS` is not timed: a claim can be taken again at any moment, which
includes every moment the code allows.  The file system is taken to perform each
system call atomically and `rename` durably.

What would come next, in this order: the observations and the pointer in
`RunLedger`; several bindings in `CaptureDelivery`; gate evaluation as operators,
checked against the documented table.
