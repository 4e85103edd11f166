------------------------------ MODULE CaptureSetup ------------------------------
(***************************************************************************)
(* Setting the capture agent up and taking it down again                   *)
(* (scripts/capture-agent-setup.mjs with the enrollment, the policy and    *)
(* the host configuration it drives).  One command moves five parties: the *)
(* three state files, the configuration of the hosts, the service, the     *)
(* token on the server and, for a purge, the receipt that the token is     *)
(* revoked.  Every part can refuse, every undo can fail in turn, and the   *)
(* command can die between any two steps.                                  *)
(*                                                                         *)
(* The setup lock keeps commands apart, so there is one at a time, and a   *)
(* transaction over several files is one step whose failure leaves a       *)
(* prefix of them.  The lifecycle of the service is module CaptureAgent's; *)
(* here an operation of it succeeds, fails with the service as it was, or  *)
(* tears it.  What a command mints bears the command's number.             *)
(***************************************************************************)
EXTENDS Naturals, FiniteSets

CONSTANTS
    Repo,           \* the checkouts a policy may list
    Dest,           \* the destinations
    Home,           \* the default destination
    Nowhere,        \* the destination of a checkout that is not listed
    MaxCommands,    \* bound: the commands that start
    MaxFaults       \* bound: refusals, failed undos and deaths

ASSUME SetupAssumption ==
    /\ Home \in Dest /\ Nowhere \notin Dest
    /\ {"claude", "codex", "hooks"} \intersect Repo = {}
    /\ MaxCommands \in Nat /\ MaxFaults \in Nat

VARIABLES
    policy,     \* where each checkout reports to, as the policy file has it
    shipped,    \* the runtime the plugin ships
    files,      \* identity, relay configuration and codex ingress
    host,       \* our block in each host file: whose binding it carries
    service,    \* the agent's service and its runtime
    queue,      \* records wait in the service's queue
    live,       \* the tokens the server accepts
    receipt,    \* the purge receipt
    commands,   \* commands so far: the number of the running one
    faults,
    pc, op,     \* the running command and its next step
    wants,      \* the policy it read
    was,        \* what it found
    creds,      \* the token it has for each destination
    minted,     \* the destinations it was given a token for
    applied,    \* the parts of a setup that are done
    bad,        \* an undo reported a failure
    report,     \* what the last command reported
    hidden,     \* history: a part of this command failed to undo itself
    torn,       \* history: an undo failed, or a command died inside the state files or the service
    orphans,    \* history: checkouts whose settings a death or a failed undo left with a binding of before
    unreceived  \* history: tokens minted by an answer that was lost, or not revoked

machine == <<policy, shipped, files, host, service, queue, live, receipt>>
command == <<op, wants, was, creds, minted, applied, bad>>
history == <<hidden, torn, orphans, unreceived>>
vars == <<machine, commands, faults, pc, command, report, history>>

Number == 0 .. MaxCommands
(* The files of the hosts: the global settings of Claude, the configuration *)
(* of Codex (one profile stands for all), its hooks, and the local settings*)
(* of each checkout.                                                       *)
Native == {"claude", "codex"}
HostFile == Native \union {"hooks"} \union Repo
Destination == Dest \union {Nowhere}

IdentityFile ==
    {id \in [inst : Number, dest : [Repo -> Destination], bind : [Repo -> Number]] :
       \A r \in Repo : id.dest[r] = Nowhere => id.bind[r] = 0}
RelayFile == [inst : Number, bind : [Repo -> Number], tok : [Dest -> Number]]
Files == [identity : IdentityFile, relay : RelayFile, ingress : Number]
Service == [st : {"absent", "stopped", "running", "partial", "torn"}, rt : 0 .. 2]
Token == [inst : Number, dest : Dest, tok : Number]
Policies == [Repo -> Destination \ {Home}]
Hosts == [HostFile -> Number]
Receipts == [there : BOOLEAN, files : Files]
Snapshots == [files : Files, host : Hosts, service : Service]
Credentials == [Dest -> Number]

(* Number 0 is what is not there.                                          *)
NoIdentity == [inst |-> 0, dest |-> [r \in Repo |-> Nowhere], bind |-> [r \in Repo |-> 0]]
NoRelay == [inst |-> 0, bind |-> [r \in Repo |-> 0], tok |-> [d \in Dest |-> 0]]
NoFiles == [identity |-> NoIdentity, relay |-> NoRelay, ingress |-> 0]
NoHost == [f \in HostFile |-> 0]
NoReceipt == [there |-> FALSE, files |-> NoFiles]

Ops == {"setup", "disable", "uninstall", "purge"}
Reports == {"none", "done", "upgraded", "disabled", "uninstalled", "purged",
            "failed", "restored", "rollback failed", "incomplete", "unconfirmed"}
Steps == {"idle", "probe", "enroll", "service", "native", "hooks", "verify",
          "u_host", "u_state", "u_service", "u_revoke",
          "d_service", "x_service", "p_stop", "p_revoke", "p_receipt", "p_finish", "p_files", "p_end",
          "r_start", "r_host"}

Parts == {"state", "service", "native", "hooks"}

TypeOK ==
    /\ policy \in Policies /\ shipped \in 1 .. 2
    /\ files \in Files /\ host \in Hosts
    /\ service \in Service /\ queue \in BOOLEAN
    /\ live \subseteq Token
    /\ receipt \in Receipts
    /\ commands \in Number /\ faults \in 0 .. MaxFaults
    /\ pc \in Steps /\ op \in Ops
    /\ wants \in Policies /\ was \in Snapshots
    /\ creds \in Credentials /\ minted \subseteq Dest
    /\ applied \subseteq Parts
    /\ bad \in BOOLEAN /\ report \in Reports
    /\ hidden \in BOOLEAN /\ torn \in BOOLEAN
    /\ orphans \subseteq Repo /\ unreceived \subseteq Token

NoService == [st |-> "absent", rt |-> 0]
NoWants == [r \in Repo |-> Nowhere]
NoCreds == [d \in Dest |-> 0]
NotFound == [files |-> NoFiles, host |-> NoHost, service |-> NoService]

Init ==
    /\ policy = NoWants /\ shipped = 1
    /\ files = NoFiles /\ host = NoHost /\ service = NoService /\ queue = FALSE
    /\ live = {} /\ receipt = NoReceipt
    /\ commands = 0 /\ faults = 0
    /\ pc = "idle" /\ op = "setup" /\ wants = NoWants /\ was = NotFound
    /\ creds = NoCreds /\ minted = {} /\ applied = {} /\ bad = FALSE
    /\ report = "none"
    /\ hidden = FALSE /\ torn = FALSE /\ orphans = {} /\ unreceived = {}

--------------------------------------------------------------------------------
(* What the commands compute.                                              *)

Listed(id) == {r \in Repo : id.dest[r] # Nowhere}
Destinations(w) == {Home} \union {w[r] : r \in {s \in Repo : w[s] # Nowhere}}
Installed == service.st \in {"stopped", "running"}

(* A checkout keeps its binding as long as its destination stays.          *)
Reconciled(id, w, n) ==
    [inst |-> IF id.inst = 0 THEN n ELSE id.inst,
     dest |-> w,
     bind |-> [r \in Repo |-> IF w[r] = Nowhere THEN 0
                              ELSE IF id.dest[r] = w[r] THEN id.bind[r] ELSE n]]

RelayFor(id, c) ==
    [inst |-> id.inst, bind |-> id.bind,
     tok |-> [d \in Dest |-> IF d \in Destinations(id.dest) THEN c[d] ELSE 0]]

(* Each binding of the relay configuration is one of the identity's.       *)
Owns(id, relay) ==
    relay.inst = id.inst /\ \A r \in Repo : relay.bind[r] \in {0, id.bind[r]}

OwnedLocalState ==
    /\ files.identity.inst # 0 /\ files.relay.inst # 0
    /\ files.ingress = files.identity.inst
    /\ Owns(files.identity, files.relay)

Accepts(d, t) == [inst |-> files.identity.inst, dest |-> d, tok |-> t] \in live

(* The files of a setup: those of its plan up to the k-th are written.     *)
Target == LET id == Reconciled(was.files.identity, wants, commands) IN
    [identity |-> id, relay |-> RelayFor(id, creds), ingress |-> id.inst]

Written(k) ==
    [identity |-> IF k >= 1 THEN Target.identity ELSE was.files.identity,
     relay    |-> IF k >= 2 THEN Target.relay ELSE was.files.relay,
     ingress  |-> IF k >= 3 THEN Target.ingress ELSE was.files.ingress]

(* What rendering makes of our block in a file: it is written anew for an  *)
(* install, and taken out for an uninstall.                                *)
ClaudeGlobalSettings(o) == IF o = "install" THEN Target.identity.inst ELSE 0
CodexOtelConfig(o) == IF o = "install" THEN Target.identity.inst ELSE 0
CodexHooks(o) == IF o = "install" THEN 1 ELSE 0
ClaudeRepositorySettings(o, r) == IF o = "install" THEN Target.identity.bind[r] ELSE 0

(* Mutant: the settings of a checkout that is no longer listed stay.       *)
InstalledHostKeepsDropped ==
    [f \in HostFile |->
       CASE f = "claude" -> ClaudeGlobalSettings("install")
         [] f = "codex" -> CodexOtelConfig("install")
         [] f \in Listed(Target.identity) -> ClaudeRepositorySettings("install", f)
         [] OTHER -> host[f]]

InstalledHost ==
    [f \in HostFile |->
       CASE f = "claude" -> ClaudeGlobalSettings("install")
         [] f = "codex" -> CodexOtelConfig("install")
         [] f \in Listed(Target.identity) -> ClaudeRepositorySettings("install", f)
         [] f \in Listed(was.files.identity) \ Listed(Target.identity) ->
              ClaudeRepositorySettings("uninstall", f)
         [] OTHER -> host[f]]

Unhosted(id) ==
    [f \in HostFile |->
       CASE f = "claude" -> ClaudeGlobalSettings("uninstall")
         [] f = "codex" -> CodexOtelConfig("uninstall")
         [] f = "hooks" -> CodexHooks("uninstall")
         [] f \in Listed(id) -> ClaudeRepositorySettings("uninstall", f)
         [] OTHER -> host[f]]

(* The files of S as the transaction writes them.                          *)
Partly(S, to) == [f \in HostFile |-> IF f \in S THEN to[f] ELSE host[f]]
Changed(to) == {f \in HostFile : to[f] # host[f]}

(* The files are written in this order and put back in the reverse one.    *)
Rank(f) == CASE f = "claude" -> 1 [] f = "codex" -> 2 [] f \in Repo -> 3 [] f = "hooks" -> 4
Begun(to) == {S \in SUBSET Changed(to) :
                \A f \in S, g \in Changed(to) : Rank(g) < Rank(f) => g \in S}
BegunUndo(to) == {S \in SUBSET Changed(to) :
                    \A f \in S, g \in Changed(to) : Rank(g) > Rank(f) => g \in S}

(* What is left when a write fails and putting back those before it fails  *)
(* for some of them.                                                       *)
LeftBy(to) == UNION {SUBSET S : S \in Begun(to) \ {Changed(to)}}

--------------------------------------------------------------------------------
Goto(s) == pc' = s /\ UNCHANGED <<report, op, wants, was>>
End(r) == pc' = "idle" /\ report' = r /\ UNCHANGED <<op, wants, was>>
Fault == faults < MaxFaults /\ faults' = faults + 1

(* A purge that is resumed mints nothing and is not counted.               *)
Begin(o, s) ==
    /\ pc = "idle" /\ (commands < MaxCommands \/ receipt.there)
    /\ commands' = IF receipt.there THEN commands ELSE commands + 1
    /\ op' = o /\ pc' = s
    /\ creds' = NoCreds /\ minted' = {} /\ applied' = {} /\ bad' = FALSE
    /\ hidden' = FALSE

Found == [files |-> files, host |-> host, service |-> service]
Tokens == <<creds, minted, applied, bad>>

--------------------------------------------------------------------------------
(* setup and repair.                                                       *)

(* Left out are the refusals that rest on what others have put into the     *)
(* hosts' files or on the port.                                            *)
MaySetUp ==
    /\ ~receipt.there
    /\ files.identity.inst = 0 =>
         /\ service.st \in {"absent", "partial"} /\ files.relay.inst = 0 /\ ~queue
    /\ files.ingress \in {0, files.identity.inst}
    /\ files.relay.inst # 0 => Owns(files.identity, files.relay)
    /\ service.st # "torn"

(* The identity of a first installation is written before anything else    *)
(* and stays when the setup fails.                                         *)
Setup ==
    /\ MaySetUp
    /\ Begin("setup", "probe") /\ report' = "none"
    /\ wants' = policy
    /\ files' = IF files.identity.inst = 0
                  THEN [files EXCEPT !.identity = Reconciled(NoIdentity, policy, commands + 1)]
                  ELSE files
    /\ was' = [Found EXCEPT !.files = files']
    /\ UNCHANGED <<policy, shipped, host, service, queue, live, receipt, faults, torn, orphans, unreceived>>

(* Tokens the server still accepts are used again.                         *)
Probe ==
    /\ pc = "probe"
    /\ creds' = [d \in Dest |-> IF d \in Destinations(wants) /\ Accepts(d, files.relay.tok[d])
                                  THEN files.relay.tok[d] ELSE 0]
    /\ Goto("enroll")
    /\ UNCHANGED <<machine, commands, faults, minted, applied, bad, history>>

ProbeFails ==
    /\ pc = "probe" /\ Fault
    /\ End("failed")
    /\ UNCHANGED <<machine, commands, Tokens, history>>

Pending == {d \in Destinations(wants) : creds[d] = 0}
(* Mutant: the token is numbered past its command.                         *)
MintedLater(d) == [inst |-> files.identity.inst, dest |-> d, tok |-> commands + 1]

Minted(d) == [inst |-> files.identity.inst, dest |-> d, tok |-> commands]

Others(d) == {t \in live : ~(t.inst = files.identity.inst /\ t.dest = d)}

(* The token of the installation is rotated: the one before it is gone.    *)
Enroll(d) ==
    /\ pc = "enroll" /\ d \in Pending
    /\ live' = Others(d) \union {Minted(d)}
    /\ creds' = [creds EXCEPT ![d] = commands]
    /\ minted' = minted \union {d}
    /\ Goto("enroll")
    /\ UNCHANGED <<policy, shipped, files, host, service, queue, receipt, commands, faults, applied, bad, history>>

(* The browser, the rotation or its answer fails.                          *)
EnrollFails(d) ==
    /\ pc = "enroll" /\ d \in Pending /\ Fault
    /\ \/ UNCHANGED <<live, unreceived>>
       \/ live' = Others(d) \union {Minted(d)} /\ unreceived' = unreceived \union {Minted(d)}
    /\ Goto("u_revoke")
    /\ UNCHANGED <<policy, shipped, files, host, service, queue, receipt, commands, Tokens, hidden, torn, orphans>>

ApplyState ==
    /\ pc = "enroll" /\ Pending = {}
    /\ files' = Written(3)
    /\ applied' = applied \union {"state"}
    /\ Goto("service")
    /\ UNCHANGED <<policy, shipped, host, service, queue, live, receipt, commands, faults, creds, minted, bad, history>>

(* A write fails and those before it are taken back, or taking them back   *)
(* fails as well.                                                          *)
ApplyStateFails ==
    /\ pc = "enroll" /\ Pending = {} /\ Fault
    /\ \E k \in 0 .. 2 :
         /\ files' = Written(k)
         /\ hidden' = (files' # was.files)
    /\ torn' = (torn \/ hidden')
    /\ Goto("u_host")
    /\ UNCHANGED <<policy, shipped, host, service, queue, live, receipt, commands, Tokens, orphans, unreceived>>

SetupRuntime ==
    /\ pc = "service" /\ service.st # "partial"
    /\ service' = [st |-> "running", rt |-> shipped]
    /\ applied' = applied \union {"service"}
    /\ Goto("native")
    /\ UNCHANGED <<policy, shipped, files, host, queue, live, receipt, commands, faults, creds, minted, bad, history>>

SetupRuntimeRefused ==
    /\ pc = "service" /\ service.st = "partial"
    /\ Goto("u_host")
    /\ UNCHANGED <<machine, commands, faults, Tokens, history>>

SetupRuntimeFails ==
    /\ pc = "service" /\ service.st # "partial" /\ Fault
    /\ \/ UNCHANGED <<service, hidden, torn>>
       \/ service' = [service EXCEPT !.st = "torn"] /\ hidden' = TRUE /\ torn' = TRUE
    /\ Goto("u_host")
    /\ UNCHANGED <<policy, shipped, files, host, queue, live, receipt, commands, Tokens, orphans, unreceived>>

ApplyNative ==
    /\ pc = "native"
    /\ host' = InstalledHost
    /\ applied' = applied \union {"native"}
    /\ Goto("hooks")
    /\ UNCHANGED <<policy, shipped, files, service, queue, live, receipt, commands, faults, creds, minted, bad, history>>

ApplyNativeFails ==
    /\ pc = "native" /\ Fault
    /\ \E S \in LeftBy(InstalledHost) :
         /\ host' = Partly(S, InstalledHost)
         /\ hidden' = (S # {})
    /\ torn' = (torn \/ hidden')
    /\ Goto("u_host")
    /\ UNCHANGED <<policy, shipped, files, service, queue, live, receipt, commands, Tokens, orphans, unreceived>>

(* That the hooks cannot be installed only degrades the claims.            *)
ApplyHooks ==
    /\ pc = "hooks"
    /\ \/ host' = [host EXCEPT !["hooks"] = CodexHooks("install")] /\ applied' = applied \union {"hooks"} /\ UNCHANGED faults
       \/ UNCHANGED <<host, applied>> /\ Fault
    /\ Goto("verify")
    /\ UNCHANGED <<policy, shipped, files, service, queue, live, receipt, commands, creds, minted, bad, history>>

(* The checkouts whose settings do not carry the binding they have now: they *)
(* were dropped from the policy, or moved.  Who goes through forgets those   *)
(* it has put right.                                                         *)
Lost == {r \in Repo : host[r] \notin {0, files.identity.bind[r]}}
StillOrphans == orphans' = orphans \intersect Lost

Healthy == service.st = "running" /\ \A d \in Destinations(wants) : Accepts(d, creds[d])

Verify ==
    /\ pc = "verify" /\ Healthy
    /\ End("done")
    /\ torn' = FALSE /\ StillOrphans
    /\ UNCHANGED <<machine, commands, faults, Tokens, hidden, unreceived>>

VerifyFails ==
    /\ pc = "verify"
    /\ IF Healthy THEN Fault ELSE UNCHANGED faults
    /\ Goto("u_host")
    /\ UNCHANGED <<machine, commands, Tokens, history>>

--------------------------------------------------------------------------------
(* What a setup that failed takes back, in this order.                     *)

(* Mutant: only the global files are put back.                             *)
HostBeforeGlobally ==
    [f \in HostFile |-> IF f \notin Repo /\ (IF f = "hooks" THEN "hooks" ELSE "native") \in applied
                          THEN was.host[f] ELSE host[f]]

HostBefore ==
    [f \in HostFile |-> IF (IF f = "hooks" THEN "hooks" ELSE "native") \in applied
                          THEN was.host[f] ELSE host[f]]

UndoHost ==
    /\ pc = "u_host"
    /\ host' = HostBefore
    /\ Goto("u_state")
    /\ UNCHANGED <<policy, shipped, files, service, queue, live, receipt, commands, faults, Tokens, history>>

(* Some of the files stay as the setup made them.                          *)
UndoHostFails ==
    /\ pc = "u_host" /\ Fault
    /\ \E S \in SUBSET Changed(HostBefore) :
         /\ S # {}
         /\ host' = Partly(Changed(HostBefore) \ S, HostBefore)
    /\ bad' = TRUE /\ torn' = TRUE
    /\ Goto("u_state")
    /\ UNCHANGED <<policy, shipped, files, service, queue, live, receipt, commands,
                   creds, minted, applied, hidden, orphans, unreceived>>

(* Mutant: the relay configuration is not put back.                        *)
UndoStateKeepsRelay ==
    /\ pc = "u_state"
    /\ files' = IF "state" \in applied THEN [was.files EXCEPT !.relay = files.relay] ELSE files
    /\ Goto("u_service")
    /\ UNCHANGED <<policy, shipped, host, service, queue, live, receipt, commands, faults, Tokens, history>>

UndoState ==
    /\ pc = "u_state"
    /\ files' = IF "state" \in applied THEN was.files ELSE files
    /\ Goto("u_service")
    /\ UNCHANGED <<policy, shipped, host, service, queue, live, receipt, commands, faults, Tokens, history>>

UndoStateFails ==
    /\ pc = "u_state" /\ "state" \in applied /\ Fault
    /\ \E k \in 1 .. 3 : files' = Written(k)
    /\ bad' = TRUE /\ torn' = TRUE
    /\ Goto("u_service")
    /\ UNCHANGED <<policy, shipped, host, service, queue, live, receipt, commands,
                   creds, minted, applied, hidden, orphans, unreceived>>

Compensated ==
    IF was.service.st = "absent" THEN NoService
    ELSE IF was.service.rt # service.rt
      THEN [st |-> IF was.service.st = "stopped" THEN "stopped" ELSE "running", rt |-> was.service.rt]
    ELSE IF was.service.st = "stopped" THEN [service EXCEPT !.st = "stopped"]
    ELSE [st |-> "running", rt |-> shipped]

CompensateLifecycle ==
    /\ pc = "u_service"
    /\ service' = IF "service" \in applied THEN Compensated ELSE service
    /\ Goto("u_revoke")
    /\ UNCHANGED <<policy, shipped, files, host, queue, live, receipt, commands, faults, Tokens, history>>

(* An uninstallation may end part way; any other operation fails with the  *)
(* service as it was, or torn.                                             *)
CompensateLifecycleFails ==
    /\ pc = "u_service" /\ "service" \in applied /\ Fault
    /\ \E s \in (IF was.service.st = "absent" THEN {"stopped", "partial"} ELSE {"torn"}) \union {service.st} :
         service' = [service EXCEPT !.st = s]
    /\ bad' = TRUE /\ torn' = TRUE
    /\ Goto("u_revoke")
    /\ UNCHANGED <<policy, shipped, files, host, queue, live, receipt, commands,
                   creds, minted, applied, hidden, orphans, unreceived>>

RevokeMinted ==
    /\ pc = "u_revoke"
    /\ live' = {t \in live : ~(t.inst = files.identity.inst /\ t.dest \in minted)}
    /\ End(IF bad THEN "rollback failed" ELSE "restored")
    /\ orphans' = IF bad \/ hidden THEN orphans \union Lost ELSE orphans
    /\ UNCHANGED <<policy, shipped, files, host, service, queue, receipt, commands, faults,
                   Tokens, hidden, torn, unreceived>>

(* The answer of the server is lost, or its request.                       *)
RevokeMintedFails ==
    /\ pc = "u_revoke" /\ minted # {} /\ Fault
    /\ \E D \in SUBSET minted :
         live' = {t \in live : ~(t.inst = files.identity.inst /\ t.dest \in D)}
    /\ unreceived' = unreceived \union {t \in live' : t.dest \in minted /\ t.tok = commands}
    /\ End("rollback failed")
    /\ bad' = TRUE /\ torn' = TRUE
    /\ orphans' = orphans \union Lost
    /\ UNCHANGED <<policy, shipped, files, host, service, queue, receipt, commands,
                   creds, minted, applied, hidden>>

--------------------------------------------------------------------------------
(* upgrade: nothing but the runtime changes.  The tokens are probed before *)
(* and after it; the second probe fails with the upgrade in place.         *)

Upgrade ==
    /\ ~receipt.there /\ OwnedLocalState /\ Installed
    /\ \A d \in Destinations(policy) : files.relay.tok[d] # 0 => Accepts(d, files.relay.tok[d])
    /\ pc = "idle" /\ commands < MaxCommands /\ commands' = commands + 1
    /\ \/ service' = [st |-> "running", rt |-> shipped] /\ report' = "upgraded" /\ UNCHANGED <<faults, torn>>
       \/ service' = [st |-> "running", rt |-> shipped] /\ report' = "failed" /\ Fault /\ UNCHANGED torn
       \/ service' = [service EXCEPT !.st = "torn"] /\ report' = "failed" /\ Fault /\ torn' = TRUE
    /\ UNCHANGED <<policy, shipped, files, host, queue, live, receipt, pc, command, hidden, orphans, unreceived>>

--------------------------------------------------------------------------------
(* disable, uninstall and purge: first the hosts, then the service.        *)

(* What each command asks of the machine before it touches it.             *)
MayRemove(o) ==
    /\ ~receipt.there /\ OwnedLocalState
    /\ CASE o = "disable"   -> Installed
         [] o = "uninstall" -> service.st # "torn"
         [] o = "purge"     -> Installed \/ service.st = "absent"

AfterHosts(o) ==
    CASE o = "disable" -> "d_service" [] o = "uninstall" -> "x_service"
      [] o = "purge" -> IF service.st = "absent" THEN "p_revoke" ELSE "p_stop"

(* Only for disable the hooks may stay where they are.                     *)
RemoveHosts(o) ==
    /\ MayRemove(o)
    /\ Begin(o, AfterHosts(o)) /\ report' = "none"
    /\ was' = Found /\ wants' = wants
    /\ \/ host' = Unhosted(files.identity) /\ UNCHANGED faults
       \/ o = "disable" /\ Fault /\ host' = [Unhosted(files.identity) EXCEPT !["hooks"] = host["hooks"]]
    /\ UNCHANGED <<policy, shipped, files, service, queue, live, receipt, torn, orphans, unreceived>>

(* Nothing is removed, or a part whose undo failed; or the command dies    *)
(* with a part removed.                                                    *)
RemoveHostsFails(o) ==
    /\ IF receipt.there THEN o = "purge" ELSE MayRemove(o)
    /\ Begin(o, "idle") /\ Fault
    /\ was' = Found /\ wants' = wants
    /\ \/ /\ \E S \in {{}} \union LeftBy(Unhosted(files.identity)) :
               host' = Partly(S, Unhosted(files.identity))
          /\ report' = "failed" /\ torn' = (torn \/ host' # host)
       \/ /\ \E S \in Begun(Unhosted(files.identity)) :
               host' = Partly(S, Unhosted(files.identity))
          /\ report' = "none" /\ UNCHANGED torn
    /\ UNCHANGED <<policy, shipped, files, service, queue, live, receipt, orphans, unreceived>>

Disable ==
    /\ pc = "d_service"
    /\ service' = [service EXCEPT !.st = "stopped"]
    /\ End("disabled") /\ StillOrphans
    /\ UNCHANGED <<policy, shipped, files, host, queue, live, receipt, commands, faults, Tokens,
                   hidden, torn, unreceived>>

(* The service may be stopped when the command gives up.                   *)
StopFails ==
    /\ pc \in {"d_service", "p_stop"} /\ Fault
    /\ \E s \in {"stopped", service.st} : service' = [service EXCEPT !.st = s]
    /\ Goto("r_start")
    /\ UNCHANGED <<policy, shipped, files, host, queue, live, receipt, commands, Tokens, history>>

(* Records in the queue are preserved.                                     *)
Uninstall ==
    /\ pc = "x_service"
    /\ service' = NoService
    /\ End("uninstalled") /\ StillOrphans
    /\ UNCHANGED <<policy, shipped, files, host, queue, live, receipt, commands, faults, Tokens,
                   hidden, torn, unreceived>>

(* What is partly removed, or was not there, is not put back.              *)
UninstallFails ==
    /\ pc = "x_service" /\ Fault
    /\ \E s \in {"stopped", "partial", service.st} :
         /\ s = "stopped" => Installed
         /\ s = "partial" => service.st # "absent"
         /\ service' = [service EXCEPT !.st = s]
    /\ IF service'.st \in {"partial", "absent"} THEN End("incomplete") ELSE Goto("r_start")
    /\ UNCHANGED <<policy, shipped, files, host, queue, live, receipt, commands, Tokens, history>>

(* startInstalledRuntime, when the service was loaded before.              *)
Restart ==
    /\ pc = "r_start"
    /\ service' = IF was.service.st = "running" THEN [service EXCEPT !.st = "running"] ELSE service
    /\ Goto("r_host")
    /\ UNCHANGED <<policy, shipped, files, host, queue, live, receipt, commands, faults, Tokens, history>>

(* Mutant: disable gives the hosts back to a service that did not start.   *)
RestartFailsAnyway ==
    /\ pc = "r_start" /\ was.service.st = "running" /\ Fault
    /\ \E s \in {"stopped", service.st} : service' = [service EXCEPT !.st = s]
    /\ Goto("r_host") /\ UNCHANGED <<bad, torn>>
    /\ UNCHANGED <<policy, shipped, files, host, queue, live, receipt, commands,
                   creds, minted, applied, hidden, orphans, unreceived>>

(* disable and uninstall leave it at that; purge gives the hosts back.     *)
RestartFails ==
    /\ pc = "r_start" /\ was.service.st = "running" /\ Fault
    /\ \E s \in {"stopped", service.st} : service' = [service EXCEPT !.st = s]
    /\ CASE op = "disable" -> End("rollback failed") /\ UNCHANGED <<bad, torn>>
         [] op = "uninstall" -> End("incomplete") /\ UNCHANGED <<bad, torn>>
         [] op = "purge" -> Goto("r_host") /\ bad' = TRUE /\ torn' = TRUE
    /\ UNCHANGED <<policy, shipped, files, host, queue, live, receipt, commands,
                   creds, minted, applied, hidden, orphans, unreceived>>

RestoreHosts ==
    /\ pc = "r_host"
    /\ host' = was.host
    /\ End(IF bad THEN "rollback failed" ELSE "restored")
    /\ UNCHANGED <<policy, shipped, files, service, queue, live, receipt, commands, faults, Tokens, history>>

RestoreHostsFails ==
    /\ pc = "r_host" /\ Fault
    /\ \E S \in SUBSET Changed(was.host) : S # {} /\ host' = Partly(Changed(was.host) \ S, was.host)
    /\ End(IF op = "uninstall" THEN "incomplete" ELSE "rollback failed")
    /\ torn' = TRUE
    /\ UNCHANGED <<policy, shipped, files, service, queue, live, receipt, commands, Tokens,
                   hidden, orphans, unreceived>>

--------------------------------------------------------------------------------
(* purge: the token is revoked, that is put on record, and only then       *)
(* everything else is removed, the record last.                            *)

PurgeStop ==
    /\ pc = "p_stop"
    /\ service' = [service EXCEPT !.st = "stopped"]
    /\ Goto("p_revoke")
    /\ UNCHANGED <<policy, shipped, files, host, queue, live, receipt, commands, faults, Tokens, history>>

Present == \E t \in live : t.inst = files.identity.inst /\ t.dest = Home

(* An answer that is lost is as good when the token is gone from the list. *)
Revoke ==
    /\ pc = "p_revoke" /\ Present
    /\ live' = Others(Home)
    /\ Goto("p_receipt")
    /\ UNCHANGED <<policy, shipped, files, host, service, queue, receipt, commands, faults, Tokens, history>>

(* No authorization, no list, or a token that is still on it.              *)
NotRevoked ==
    /\ pc = "p_revoke" /\ Fault
    /\ Goto("r_start")
    /\ UNCHANGED <<machine, commands, Tokens, history>>

(* Mutant: a token that is not on the list is taken for revoked.           *)
TakenForRevoked ==
    /\ pc = "p_revoke"
    /\ IF Present THEN Fault ELSE UNCHANGED faults
    /\ Goto("p_receipt")
    /\ UNCHANGED <<machine, commands, Tokens, history>>

(* The list of this user says nothing of the tokens of another one, so a   *)
(* token that is not on it is not known to be revoked.                     *)
Unconfirmed ==
    /\ pc = "p_revoke"
    /\ IF Present THEN Fault /\ live' \in {live, Others(Home)} ELSE UNCHANGED <<faults, live>>
    /\ End("unconfirmed")
    /\ UNCHANGED <<policy, shipped, files, host, service, queue, receipt, commands, Tokens, history>>

WriteReceipt ==
    /\ pc = "p_receipt"
    /\ receipt' = [there |-> TRUE, files |-> files]
    /\ Goto("p_finish") /\ StillOrphans
    /\ UNCHANGED <<policy, shipped, files, host, service, queue, live, commands, faults, Tokens,
                   hidden, torn, unreceived>>

(* Its sync may fail with the receipt in place.                            *)
WriteReceiptFails ==
    /\ pc = "p_receipt" /\ Fault
    /\ receipt' \in {receipt, [there |-> TRUE, files |-> files]}
    /\ End("incomplete")
    /\ UNCHANGED <<policy, shipped, files, host, service, queue, live, commands, Tokens, history>>

(* A purge that finds the receipt goes on where the last one ended.        *)
Resume ==
    /\ receipt.there
    /\ Begin("purge", "p_finish") /\ report' = "none"
    /\ was' = Found /\ wants' = wants
    /\ host' = Unhosted(files.identity)
    /\ UNCHANGED <<policy, shipped, files, service, queue, live, receipt, faults, torn, orphans, unreceived>>

(* The inspection looks for our block in the global files only.            *)
ClaudeManaged == host["claude"] # 0
Managed(f) == IF f = "claude" THEN ClaudeManaged ELSE host[f] # 0
Unconfigured == \A f \in HostFile \ Repo : ~Managed(f)

(* Mutant: a file that is gone is not tolerated.                           *)
ValidatedStrictly ==
    /\ files = receipt.files
    /\ Unconfigured

(* Each file is gone or has the hash of the receipt, and the global    *)
(* host files are without our block.                                       *)
Validated ==
    /\ files.identity \in {NoIdentity, receipt.files.identity}
    /\ files.relay \in {NoRelay, receipt.files.relay}
    /\ files.ingress \in {0, receipt.files.ingress}
    /\ Unconfigured

PurgeService ==
    /\ pc = "p_finish" /\ Validated
    /\ service' = NoService /\ queue' = FALSE
    /\ Goto("p_files")
    /\ UNCHANGED <<policy, shipped, files, host, live, receipt, commands, faults, Tokens, history>>

PurgeServiceFails ==
    /\ pc = "p_finish"
    /\ IF Validated THEN Fault ELSE UNCHANGED faults
    /\ \/ UNCHANGED <<service, queue>>
       \/ /\ Validated /\ service.st # "absent"
          /\ queue' \in {queue, FALSE}
          /\ \E s \in {"stopped", "partial", service.st} :
               /\ s = "stopped" => Installed
               /\ s = "partial" => ~queue'
               /\ service' = [service EXCEPT !.st = s]
    /\ End("incomplete")
    /\ UNCHANGED <<policy, shipped, files, host, live, receipt, commands, Tokens, history>>

(* Mutant: the receipt goes first.                                         *)
RemoveCredentialsUnrecorded ==
    /\ pc = "p_files" /\ Validated
    /\ files' = NoFiles /\ receipt' = NoReceipt
    /\ Goto("p_end")
    /\ UNCHANGED <<policy, shipped, host, service, queue, live, commands, faults, Tokens, history>>

RemoveCredentials ==
    /\ pc = "p_files" /\ Validated
    /\ files' = NoFiles
    /\ Goto("p_end")
    /\ UNCHANGED <<policy, shipped, host, service, queue, live, receipt, commands, faults, Tokens, history>>

RemoveCredentialsFails ==
    /\ pc = "p_files" /\ Fault
    /\ files' \in {files, [files EXCEPT !.identity = NoIdentity],
                   [files EXCEPT !.identity = NoIdentity, !.relay = NoRelay]}
    /\ End("incomplete")
    /\ UNCHANGED <<policy, shipped, host, service, queue, live, receipt, commands, Tokens, history>>

RemoveReceipt ==
    /\ pc = "p_end"
    /\ receipt' = NoReceipt
    /\ End("purged")
    /\ UNCHANGED <<policy, shipped, files, host, service, queue, live, commands, faults, Tokens, history>>

RemoveReceiptFails ==
    /\ pc = "p_end" /\ Fault
    /\ receipt' \in {receipt, NoReceipt}
    /\ End("incomplete")
    /\ UNCHANGED <<policy, shipped, files, host, service, queue, live, commands, Tokens, history>>

--------------------------------------------------------------------------------
(* Around the commands.                                                    *)

(* The command dies, within a transaction with a part of it done: what it  *)
(* has not undone stays.                                                   *)
DieWithin ==
    \/ /\ IF pc = "enroll" THEN Pending = {} ELSE pc = "u_state" /\ "state" \in applied
       /\ \E k \in 1 .. 2 : files' = Written(k)
       /\ torn' = TRUE /\ UNCHANGED <<host, service>>
    \/ /\ pc \in {"service", "u_service"}
       /\ service' = [service EXCEPT !.st = "torn"]
       /\ torn' = TRUE /\ UNCHANGED <<files, host>>
    \/ /\ pc = "native" /\ \E S \in Begun(InstalledHost) : host' = Partly(S, InstalledHost)
       /\ UNCHANGED <<files, service, torn>>
    \/ /\ pc = "u_host" /\ \E S \in BegunUndo(HostBefore) : host' = Partly(S, HostBefore)
       /\ UNCHANGED <<files, service, torn>>
    \/ /\ pc = "r_host" /\ \E S \in BegunUndo(was.host) : host' = Partly(S, was.host)
       /\ UNCHANGED <<files, service, torn>>

Die ==
    /\ pc # "idle" /\ Fault
    /\ End("none")
    /\ DieWithin \/ UNCHANGED <<files, host, service, torn>>
    /\ orphans' = orphans \union Lost'
    /\ unreceived' = unreceived \union {t \in live : t.dest \in minted /\ t.tok = commands}
    /\ UNCHANGED <<policy, shipped, queue, live, receipt, commands, Tokens, hidden>>

(* What nobody looks at any more is left out.                              *)
Idle ==
    /\ pc = "idle" /\ commands < MaxCommands
    /\ report' = "none"
    /\ op' = "setup" /\ wants' = NoWants /\ was' = NotFound
    /\ creds' = NoCreds /\ minted' = {} /\ applied' = {} /\ bad' = FALSE /\ hidden' = FALSE
    /\ UNCHANGED <<commands, pc, torn, orphans, unreceived>>

ChangePolicy(p) ==
    /\ Idle /\ policy' = p
    /\ UNCHANGED <<shipped, files, host, service, queue, live, receipt, faults>>

Ship ==
    /\ Idle /\ shipped' = 2
    /\ UNCHANGED <<policy, files, host, service, queue, live, receipt, faults>>

(* Records wait in the queue of the service.                               *)
Record ==
    /\ Idle /\ service.st = "running" /\ queue' = TRUE
    /\ UNCHANGED <<policy, shipped, files, host, service, live, receipt, faults>>

(* Somebody revokes a token on the server.                                 *)
RevokeElsewhere(t) ==
    /\ pc = "idle" => commands < MaxCommands
    /\ Fault /\ live' = live \ {t}
    /\ IF pc = "idle" THEN report' = "none" ELSE UNCHANGED report
    /\ UNCHANGED <<policy, shipped, files, host, service, queue, receipt, commands, pc, command, history>>

Removals == {"disable", "uninstall", "purge"}

Setups ==
    \/ Setup \/ Probe \/ ProbeFails
    \/ \E d \in Dest : Enroll(d) \/ EnrollFails(d)
    \/ ApplyState \/ ApplyStateFails \/ SetupRuntime \/ SetupRuntimeRefused \/ SetupRuntimeFails
    \/ ApplyNative \/ ApplyNativeFails \/ ApplyHooks \/ Verify \/ VerifyFails
    \/ UndoHost \/ UndoHostFails \/ UndoState \/ UndoStateFails
    \/ CompensateLifecycle \/ CompensateLifecycleFails \/ RevokeMinted \/ RevokeMintedFails
    \/ Upgrade

Removal ==
    \/ \E o \in Removals : RemoveHosts(o) \/ RemoveHostsFails(o)
    \/ Disable \/ StopFails \/ Uninstall \/ UninstallFails
    \/ Restart \/ RestartFails \/ RestoreHosts \/ RestoreHostsFails

Purge ==
    \/ PurgeStop \/ Revoke \/ NotRevoked \/ Unconfirmed \/ WriteReceipt \/ WriteReceiptFails
    \/ Resume \/ PurgeService \/ PurgeServiceFails \/ RemoveCredentials \/ RemoveCredentialsFails
    \/ RemoveReceipt \/ RemoveReceiptFails

Around ==
    \/ Die \/ Ship \/ Record
    \/ \E p \in Policies : ChangePolicy(p)
    \/ \E t \in live : RevokeElsewhere(t)

Next == Setups \/ Removal \/ Purge \/ Around

(* Somebody repeats the purge until it is through, and a command goes on.  *)
Fairness ==
    WF_vars(Resume \/ WriteReceipt \/ PurgeService \/ RemoveCredentials \/ RemoveReceipt)

Spec == Init /\ [][Next]_vars /\ Fairness

--------------------------------------------------------------------------------
(* The machine is as the command found it, but for tokens of an answer     *)
(* that was lost.                                                          *)
AsFound ==
    /\ files = was.files /\ host = was.host
    /\ service.st = was.service.st /\ service.rt = was.service.rt
    /\ op = "setup" => \A t \in live : t.tok = commands => t \in unreceived

(* What a setup that reports success has made of the policy it read.       *)
SetUp ==
    LET id == files.identity IN
    /\ id.dest = wants
    /\ files.relay.inst = id.inst /\ files.relay.bind = id.bind /\ files.ingress = id.inst
    /\ \A d \in Destinations(wants) : Accepts(d, files.relay.tok[d])
    /\ service = [st |-> "running", rt |-> shipped]
    /\ \A f \in Native : host[f] = id.inst
    /\ \A r \in Repo \ orphans : host[r] = id.bind[r]

(* A report says what the machine is: a setup that is done has given every *)
(* listed checkout one binding in all the files and an accepted token, and *)
(* no other checkout any; what is reported restored is as it was, unless a *)
(* part of the command could not undo itself; who disabled, uninstalled or *)
(* purged has left our block in no file (performSetup, disable,            *)
(* uninstallLocal, purgeUninstall).  Excepted are the settings of the      *)
(* orphans: a command that died had already taken those checkouts off the  *)
(* identity, which is all the next command knows, so that a setup done and *)
(* a purge leave our block in them.                                        *)
ReportsAreTrue ==
    /\ report = "done" => SetUp
    /\ report = "restored" /\ ~hidden => AsFound
    /\ report = "disabled" => service.st = "stopped" /\ \A f \in HostFile \ ({"hooks"} \union orphans) : host[f] = 0
    /\ report = "uninstalled" => service.st = "absent" /\ \A f \in HostFile \ orphans : host[f] = 0
    /\ report = "purged" =>
         /\ files = NoFiles /\ service = NoService /\ ~queue /\ ~receipt.there
         /\ \A f \in HostFile \ orphans : host[f] = 0

(* A setup has written the state files and not yet the settings that name  *)
(* their bindings (stateTx.apply comes first, nativeTx.apply only after the *)
(* service), or has taken back the one and not yet the other.              *)
Rebinding == pc \in {"service", "native", "u_host", "u_state"}

(* No host is pointed at a service that does not run, nor at a binding the *)
(* relay configuration does not have: neither the global files nor the     *)
(* settings of any checkout, in every command, refusal and undo, until an  *)
(* undo fails.  Excepted are, while a setup is rebinding, the bindings it  *)
(* found, and for good the checkouts a command died for there (orphans),   *)
(* until another command has put them right.                               *)
NoDeadRoute ==
    ~torn =>
      /\ \A f \in Native : host[f] # 0 =>
           service.st = "running" /\ host[f] = files.relay.inst
      /\ \A r \in Repo \ orphans : host[r] # 0 =>
           /\ service.st = "running"
           /\ host[r] = files.relay.bind[r] \/ (Rebinding /\ host[r] = was.files.relay.bind[r])

(* A setup is never locked out by what an earlier command left: identity,  *)
(* relay configuration and ingress agree and the service is not torn,      *)
(* wherever a command failed or died, but inside the write of the state    *)
(* files or an operation of the service (setupCommand's ownership checks). *)
RepairIsPossible == pc = "idle" /\ ~receipt.there /\ ~torn => MaySetUp

(* The receipt is on disk only after the token is revoked, and from then   *)
(* on nothing brings back what it lets a purge remove                      *)
(* (writeConfirmedPurgeRecord, ensureNoPurgePending, finishConfirmedPurge).*)
ReceiptIsTrue ==
    receipt.there =>
      /\ \A t \in live : ~(t.inst = receipt.files.identity.inst /\ t.dest = Home)
      /\ Validated
      /\ service.st \in {"absent", "stopped", "partial"}

(* The identity and the records in the queue are given up only under the   *)
(* receipt: no other command, failure or undo costs them.                  *)
GivenUp == (files.identity.inst # 0 /\ files'.identity.inst = 0) \/ (queue /\ ~queue')
RecoveryKept == [][GivenUp => receipt.there /\ receipt'.there]_vars

(* A purge that has revoked the token is completed in the end, wherever it *)
(* failed or died, by repeating it under the policy it was begun with (the *)
(* default destination does not change; under another one the code refuses *)
(* to go on).                                                              *)
PurgeEnds == receipt.there ~> ~receipt.there

(* "A rollback failure is reported explicitly" (docs): restored means that *)
(* the machine is as it was.                                               *)
RestoredIsRestored == report = "restored" => AsFound
================================================================================
