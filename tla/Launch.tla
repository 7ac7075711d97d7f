-------------------------------- MODULE Launch --------------------------------
(***************************************************************************)
(* `up`: one run's way from nothing to idle workers (cli/commands/up.ts),  *)
(* over what every run of the host shares: the egress network and its      *)
(* relay container (security/network.ts, security/relay.ts) and the        *)
(* remotes of the operator's repository (run/worktree.ts).  Several `up`s  *)
(* run at once; each step may fail, which ends the `up` with whatever its  *)
(* handlers clean, and a killed `up` cleans nothing.                       *)
(*                                                                         *)
(* External: git, docker and the workers after their launch.               *)
(***************************************************************************)
EXTENDS Naturals, FiniteSets

CONSTANTS Runs,
          Workers,       \* the workers, in the order the command takes them
          Target,        \* what a run's config asks the relay to forward to
          Scenarios      \* what the host starts with, and the faults to spend

None == "none"
Networks == {"absent", "open", "internal", "fenced"}
Relays == [target : {Target[r] : r \in Runs} \cup {None}, running : BOOLEAN, attached : BOOLEAN]

ASSUME WorkersAssumption == Workers \subseteq Nat
ASSUME RunsAssumption == None \notin Runs
ASSUME ScenariosAssumption ==
    \A s \in Scenarios :
        /\ s.net \in Networks /\ s.relay \in Relays
        /\ s.fail \in Nat /\ s.kill \in Nat /\ s.stuck \in Nat
\* Without a config no worker is defined; only one that is has a provider, which
\* may be a vendor's, and an isolation, which may be a checkout of its own.
ASSUME DefinedAssumption ==
    \A s \in Scenarios :
        /\ s.site.carriers \cup s.site.isolated \subseteq s.site.defined
        /\ s.site.defined \subseteq Workers /\ (~ s.site.config => s.site.defined = {})

VARIABLES
    pc,         \* where the `up` of a run is
    site,       \* what the config and the host are, from the scenario on
    net,        \* the egress network: absent, open, internal or fenced
    relay,      \* the relay container: NoRelay or [target, running, attached]
    seen,       \* what a run's inspection of the relay answered
    remote,     \* worker-<id> in the operator's repository: whose checkout
    tree,       \* the checkout of a run's worker: absent, cloned or ready
    stray,      \* history: the checkouts whose own removal failed
    recorded,   \* run.json's worktrees
    inputs,     \* the workers whose inputs and launch record are written
    worker,     \* the supervisor of a run's worker
    pane,       \* its pane: none, made, viewed, or attended as Pi's terminal
    terminal,   \* the attach process its record names, of --attach-here
    spare       \* the faults left; history: whether a removal of the relay
                \* failed, and whether a docker run did that left it running

host == <<net, relay, seen, remote>>
disk == <<tree, stray, recorded, inputs>>
shown == <<pane, terminal>>
vars == <<pc, site, host, disk, worker, shown, spare>>

Ended == {"done", "attached", "detached", "failed", "killed"}
NoRelay == [target |-> None, running |-> FALSE, attached |-> FALSE]
NewRelay(r) == [target |-> Target[r], running |-> TRUE, attached |-> FALSE]
\* Not one that would be adopted as healthy, by its name, without its aliases.
Whole(found) == found.running => found.attached
\* What is left of earlier runs is.
ASSUME WholeAssumption == \A s \in Scenarios : Whole(s.relay)

Init ==
    \E s \in Scenarios :
        /\ pc = [r \in Runs |-> "guard"]
        /\ site = s.site /\ net = s.net /\ relay = s.relay
        /\ seen = [r \in Runs |-> NoRelay]
        /\ remote = [w \in Workers |-> None]
        /\ tree = [r \in Runs |-> [w \in Workers |-> "absent"]]
        /\ stray = {} /\ recorded = [r \in Runs |-> {}] /\ inputs = [r \in Runs |-> {}]
        /\ worker = [r \in Runs |-> [w \in Workers |-> "none"]]
        /\ pane = [r \in Runs |-> [w \in Workers |-> "none"]]
        /\ terminal = [r \in Runs |-> FALSE]
        /\ spare = [fail |-> s.fail, kill |-> s.kill, stuck |-> s.stuck,
                    kept |-> FALSE, half |-> FALSE]

-----------------------------------------------------------------------------
(* Steps and faults.                                                       *)

To(r, stage) == pc' = [pc EXCEPT ![r] = stage]
Goes(r, from, to) == pc[r] = from /\ To(r, to)
Spend(fault) == spare[fault] > 0 /\ spare' = [spare EXCEPT ![fault] = @ - 1]

\* A step that throws: the run's process ends, nothing is undone.
Throws(r, from) == Goes(r, from, "failed") /\ Spend("fail")
\* A step that changes nothing but asks something, and may throw besides.
Asks(r, from, ok, to) ==
    /\ \/ Goes(r, from, IF ok THEN to ELSE "failed") /\ UNCHANGED spare
       \/ Throws(r, from)
    /\ UNCHANGED <<site, host, disk, worker, shown>>
\* The next of them, in the command's order.
First(S) == {w \in S : \A v \in S : w <= v}

-----------------------------------------------------------------------------
(* Before anything is made: refusals that leave only a run directory.      *)

\* detectActiveMlxTraining: another process whose program is a training one;
\* a flag's value never names a program.
Training == {p \in site.processes : ~ p.own /\ "training" \in p.programs}
\* The training guard, the options, the run directory, its control secret.
Open(r) == Asks(r, "guard", Training = {} \/ site.iKnow, "config")

\* The config, its models, its secrets; without one, only the double runs.
Configure(r) ==
    Asks(r, "config",
         IF site.config THEN site.modelsAllowed /\ site.secretsFound ELSE site.double, "consent")
\* hostedRepoRefusal: a sensitive remote goes to a vendor only by its name.
RepoRefused == site.sensitive /\ site.carriers # {} /\ ~ site.consented
Consent(r) == Asks(r, "consent", site.config => ~ RepoRefused, "images")

\* imageIdentityDrift: no label at all is drift too.
Drift(i) == DOMAIN i.labels = {} \/ \E f \in DOMAIN i.labels : i.labels[f] # "as tagged"
\* verifyImage: every check, not only that a tag is there.
Verified(i) ==
    {"version", "uid", "read-only root", "tini", "write-through"} \subseteq i.checks
\* assertImagesReady: every image some worker needs.
ImagesReady == \A i \in site.images : i.present /\ ~ Drift(i) /\ Verified(i)
CheckImages(r) == Asks(r, "images", site.double \/ ImagesReady, "backend kind")

\* resolveRequestedBackend
Requested ==
    IF site.flag # None THEN site.flag
    ELSE IF site.configured # None THEN site.configured ELSE "headless"
\* assertAttachHere: one terminal for one tui worker, that no backend made.
AttachHereAllowed ==
    site.attachHere =>
        Cardinality(site.tui) = 1 /\ Requested = "headless" /\ site.tty
\* assertTuiBackendPossible: a tui worker is reached through a pane.
TuiPossible == site.attachHere \/ Requested # "headless" \/ site.tui = {}
ChooseBackend(r) ==
    Asks(r, "backend kind", AttachHereAllowed /\ TuiPossible, "bridges")
\* egressBridgePlan; without a config there is no network to plan for, ensure or
\* probe through.
PlanBridges(r) ==
    Asks(r, "bridges", site.config => site.bridged, IF site.config THEN "network" ELSE "record")

-----------------------------------------------------------------------------
(* What every run shares: the network and the relay.                       *)

\* Mutant: an open network is adopted, as it is.
AdoptNetwork(r) ==
    \/ /\ Goes(r, "network", "contain")
       /\ net' = IF net = "absent" THEN "internal" ELSE net
       /\ UNCHANGED <<site, relay, seen, remote, disk, worker, shown, spare>>
    \/ Throws(r, "network") /\ UNCHANGED <<site, host, disk, worker, shown>>
\* ensureEgressNetwork: adopted when it is internal, made when it is absent;
\* an open one is refused.
EnsureNetwork(r) ==
    \/ /\ Goes(r, "network", "contain") /\ net # "open"
       /\ net' = IF net = "absent" THEN "internal" ELSE net
       /\ UNCHANGED <<site, relay, seen, remote, disk, worker, shown, spare>>
    \/ /\ Goes(r, "network", "failed") /\ net = "open"
       /\ UNCHANGED <<site, host, disk, worker, shown, spare>>
    \/ Throws(r, "network") /\ UNCHANGED <<site, host, disk, worker, shown>>
\* containGateway: the host's firewall shuts the bridge's gateway, each time,
\* adopted or made; the insertion is verified.  A relay only where a named worker
\* is one the config defines.
Contain(r) ==
    \/ /\ Goes(r, "contain", IF site.defined = {} THEN "probe" ELSE "relay")
       /\ net' = IF net = "open" THEN net ELSE "fenced"
       /\ UNCHANGED <<site, relay, seen, remote, disk, worker, shown, spare>>
    \/ Throws(r, "contain") /\ UNCHANGED <<site, host, disk, worker, shown>>

\* ensureEgressRelay: adopted when it runs and forwards what this config says.
Drifted(r, found) == found.target # Target[r]
InspectRelay(r) ==
    /\ Goes(r, "relay",
            IF relay # NoRelay /\ relay.running /\ ~ Drifted(r, relay) THEN "probe" ELSE "remove")
    /\ seen' = [seen EXCEPT ![r] = relay]
    /\ UNCHANGED <<net, relay, remote, disk, worker, site, shown, spare>>

\* The uplink network, and the rm -f of whatever wears the name by now.
RemoveRelay(r) ==
    \/ /\ Goes(r, "remove", "run")
       /\ relay' = IF seen[r] = NoRelay THEN relay ELSE NoRelay
       /\ UNCHANGED <<net, seen, remote, disk, worker, site, shown, spare>>
    \/ Throws(r, "remove") /\ UNCHANGED <<site, host, disk, worker, shown>>

\* docker run: the name must be free.  One that fails, or outlives its client,
\* throws past the handlers below, with whatever the daemon made of it left.
RunRelay(r) ==
    \/ /\ Goes(r, "run", "connect") /\ relay = NoRelay
       /\ relay' = NewRelay(r)
       /\ UNCHANGED <<net, seen, remote, disk, worker, site, shown, spare>>
    \/ /\ Goes(r, "run", "failed") /\ relay = NoRelay /\ spare.fail > 0
       /\ \E running \in BOOLEAN :
             /\ relay' = [NewRelay(r) EXCEPT !.running = running]
             /\ spare' = [spare EXCEPT !.fail = @ - 1, !.half = @ \/ running]
       /\ UNCHANGED <<net, seen, remote, disk, worker, site, shown>>
    \/ /\ Goes(r, "run", "failed") /\ relay # NoRelay
       /\ UNCHANGED <<site, host, disk, worker, shown, spare>>
    \/ Throws(r, "run") /\ UNCHANGED <<site, host, disk, worker, shown>>

\* destroy: best effort, and silent.
DestroyFails ==
    /\ spare.stuck > 0 /\ spare' = [spare EXCEPT !.stuck = @ - 1, !.kept = TRUE]
    /\ UNCHANGED relay
Destroyed == relay' = NoRelay /\ UNCHANGED spare
\* Mutant: a failed attach leaves the container it was for.
ConnectKeeping(r) ==
    /\ pc[r] = "connect"
    /\ IF relay = NoRelay THEN UNCHANGED <<relay, spare>> /\ To(r, "failed")
       ELSE IF relay.attached THEN UNCHANGED <<relay, spare>> /\ To(r, "failed")
       ELSE \/ relay' = [relay EXCEPT !.attached = TRUE] /\ To(r, "verify") /\ UNCHANGED spare
            \/ UNCHANGED relay /\ Throws(r, "connect")
    /\ UNCHANGED <<net, seen, remote, disk, worker, site, shown>>
\* docker network connect, with the aliases; a failure destroys the relay, by
\* its name.
ConnectRelay(r) ==
    /\ pc[r] = "connect"
    /\ IF relay # NoRelay /\ ~ relay.attached
       THEN \/ relay' = [relay EXCEPT !.attached = TRUE] /\ To(r, "verify") /\ UNCHANGED spare
            \/ Throws(r, "connect") /\ relay' = NoRelay
            \/ To(r, "failed") /\ DestroyFails
       ELSE To(r, "failed") /\ (Destroyed \/ DestroyFails)
    /\ UNCHANGED <<net, seen, remote, disk, worker, site, shown>>

\* It must still be up, or it goes.
VerifyRelay(r) ==
    /\ pc[r] = "verify"
    /\ IF relay # NoRelay /\ relay.running
       THEN To(r, "probe") /\ UNCHANGED <<relay, spare>>
       ELSE To(r, "failed") /\ (Destroyed \/ DestroyFails)
    /\ UNCHANGED <<net, seen, remote, disk, worker, site, shown>>

\* External: a relay that cannot listen exits.
RelayExits ==
    /\ relay # NoRelay /\ relay.running /\ Spend("fail")
    /\ relay' = [relay EXCEPT !.running = FALSE]
    /\ UNCHANGED <<pc, net, seen, remote, disk, worker, site, shown>>

\* assertModelsSupportToolCalls: each model, asked through the network the
\* workers get; an answer in prose, an unknown model and no answer all refuse.
Reaches == relay # NoRelay /\ relay.running /\ relay.attached
ModelsAnswer ==
    site.gated /\ site.defined # {} => Reaches /\ \A m \in site.models : m = "tool calls"
Probe(r) == Asks(r, "probe", ModelsAnswer, "record")

-----------------------------------------------------------------------------
(* The run's own record and checkouts.                                     *)

\* Only a worker whose isolation is a worktree gets one.
Left(r) == {w \in site.isolated : w \notin recorded[r] /\ tree[r][w] = "absent"}
Making(r) == {w \in Workers : tree[r][w] # "absent" /\ w \notin recorded[r]}

\* run.json and the ledger.
Record(r) == Asks(r, "record", TRUE, "scan")
\* detectRepoHazards: reported, never touched, of the operator's checkout; no
\* config names one to scan.
ScanRepo(r) == Asks(r, "scan", TRUE, "clone")

\* A checkout for each that gets one, in turn: git clone, its branch, no origin.
\* The base must be one a clone can be made of.  Without a config there are no
\* inputs to write and no mounts to look at either.
Clone(r) ==
    \/ /\ Left(r) # {} /\ Goes(r, "clone", "failed") /\ ~ site.cloneable
       /\ UNCHANGED <<site, host, disk, worker, shown, spare>>
    \/ \E w \in First(Left(r)) :
         /\ Goes(r, "clone", "remote") /\ site.cloneable
         /\ tree' = [tree EXCEPT ![r][w] = "cloned"]
         /\ UNCHANGED <<site, host, stray, recorded, inputs, worker, shown, spare>>
    \/ /\ Goes(r, "clone", IF site.config THEN "inputs" ELSE "daemon") /\ Left(r) = {}
       /\ UNCHANGED <<site, host, disk, worker, shown, spare>>
    \/ Throws(r, "clone") /\ UNCHANGED <<site, host, disk, worker, shown>>

\* The catch of createWorkerWorktrees: the remote first, then the checkout, each
\* removal best effort and its failure swallowed.
RollBack(r, w) ==
    /\ remote' \in {remote, [remote EXCEPT ![w] = None]}
    /\ \/ tree' = [tree EXCEPT ![r][w] = "absent"] /\ UNCHANGED stray
       \/ UNCHANGED tree /\ stray' = stray \cup {<<r, w>>}

\* registerWorkerRemote: a remote of the name is taken for a leftover...
DropRemote(r) ==
    \E w \in Making(r) :
        /\ \/ Goes(r, "remote", "add") /\ remote' = [remote EXCEPT ![w] = None]
              /\ UNCHANGED <<tree, stray, spare>>
           \/ Throws(r, "remote") /\ RollBack(r, w)
        /\ UNCHANGED <<site, net, relay, seen, recorded, inputs, worker, shown>>
\* ... and the run's own is added, which git refuses over one added meanwhile.
AddRemote(r) ==
    \E w \in Making(r) :
        /\ \/ Goes(r, "add", "baseline") /\ remote[w] = None
              /\ remote' = [remote EXCEPT ![w] = r] /\ UNCHANGED <<tree, stray, spare>>
           \/ Goes(r, "add", "failed") /\ remote[w] # None /\ RollBack(r, w) /\ UNCHANGED spare
           \/ Throws(r, "add") /\ RollBack(r, w)
        /\ UNCHANGED <<site, net, relay, seen, recorded, inputs, worker, shown>>

\* Permissions, the hazards neutralized that can be (the others are reported),
\* the baseline of what the worker starts from; then run.json names the
\* checkout, and the ledger.
Baseline(r) ==
    \E w \in Making(r) :
        /\ \/ /\ Goes(r, "baseline", "clone")
              /\ tree' = [tree EXCEPT ![r][w] = "ready"]
              /\ recorded' = [recorded EXCEPT ![r] = @ \cup {w}]
              /\ UNCHANGED <<remote, stray, spare>>
           \/ Throws(r, "baseline") /\ RollBack(r, w) /\ UNCHANGED recorded
           \/ \* the ledger's append fails after run.json was written
              /\ Throws(r, "baseline") /\ RollBack(r, w)
              /\ recorded' = [recorded EXCEPT ![r] = @ \cup {w}]
        /\ UNCHANGED <<site, net, relay, seen, inputs, worker, shown>>

\* materializeWorkerInputs, defined worker by worker; a failure leaves the earlier
\* ones.
Materialize(r) ==
    \/ \E w \in First(site.defined \ inputs[r]) :
         /\ pc[r] = "inputs"
         /\ inputs' = [inputs EXCEPT ![r] = @ \cup {w}]
         /\ UNCHANGED <<site, pc, host, tree, stray, recorded, worker, shown, spare>>
    \/ Goes(r, "inputs", "mounts") /\ inputs[r] = site.defined
       /\ UNCHANGED <<site, host, disk, worker, shown, spare>>
    \/ Throws(r, "inputs") /\ UNCHANGED <<site, host, disk, worker, shown>>
\* assertBindMountsVisible: a source that is there must show its witness, of
\* its size, inside a container; an unwritable directory without one cannot.
Visible(m) ==
    \/ m.kind \in {"missing", "other"}
    \/ m.kind = "file" /\ m.seen = "same"
    \/ m.kind = "dir" /\ (m.witness \/ m.writable) /\ m.seen = "same"
MountsVisible == \A m \in site.mounts : Visible(m)
CheckMounts(r) == Asks(r, "mounts", site.double \/ MountsVisible, "daemon")

-----------------------------------------------------------------------------
(* What outlives the command.                                              *)

\* The registry daemon, detached.
StartDaemon(r) == Asks(r, "daemon", TRUE, "backend")
\* resolveBackendWithFallback: the fallback only when the primary is not
\* there, and no third.
Available == site.primary \/ site.fallback
OpenBackend(r) == Asks(r, "backend", Available, "launch")

Launching(r) == First({w \in Workers : worker[r][w] = "none"})
\* The pane, if the backend makes one, and the presentation that names it or
\* the terminal handed over.
PresentWorker(r) ==
    \E w \in Launching(r) :
        /\ Goes(r, "launch", "spawn")
        /\ \/ pane' = [pane EXCEPT ![r][w] = IF Requested = "headless" THEN "none" ELSE "made"]
              /\ UNCHANGED spare
           \/ Spend("fail") /\ UNCHANGED pane     \* pane_failed: it is launched without
        /\ UNCHANGED <<site, host, disk, worker, terminal>>
\* launchDetached
LaunchWorker(r) ==
    \/ \E w \in Launching(r) :
         /\ Goes(r, "spawn", "view")
         /\ worker' = [worker EXCEPT ![r][w] = "starting"]
         /\ UNCHANGED <<site, host, disk, shown, spare>>
    \/ Throws(r, "spawn") /\ UNCHANGED <<site, host, disk, worker, shown>>
\* What the pane shows: Pi itself for a tui worker, which is then attended, or
\* its log; a viewer that cannot be had is no failure.
ViewWorker(r) ==
    LET bare == {w \in Workers : pane[r][w] = "made"}
    IN /\ Goes(r, "view", IF \A w \in Workers : worker[r][w] # "none" THEN "wait" ELSE "launch")
       /\ \/ /\ pane' = [pane EXCEPT ![r] = [w \in Workers |->
                     IF w \notin bare THEN @[w] ELSE IF w \in site.tui THEN "attended" ELSE "viewed"]]
             /\ UNCHANGED spare
          \/ Spend("fail") /\ UNCHANGED pane
       /\ UNCHANGED <<site, host, disk, worker, terminal>>

\* External: a supervisor comes up, or does not.
WorkerSettles(r) ==
    \E w \in Workers :
        /\ worker[r][w] = "starting"
        /\ \/ worker' = [worker EXCEPT ![r][w] = "idle"] /\ UNCHANGED spare
           \/ worker' = [worker EXCEPT ![r][w] = "dead"] /\ Spend("fail")
        /\ UNCHANGED <<site, pc, host, disk, shown>>

\* The poll: all idle, one dead, or the deadline, which leaves them running.
AwaitIdle(r) ==
    /\ \/ Goes(r, "wait", "done") /\ (\A w \in Workers : worker[r][w] = "idle") /\ UNCHANGED spare
       \/ Goes(r, "wait", "failed") /\ (\E w \in Workers : worker[r][w] = "dead") /\ UNCHANGED spare
       \/ Throws(r, "wait") /\ \E w \in Workers : worker[r][w] = "starting"
    /\ UNCHANGED <<site, host, disk, worker, shown>>

\* --attach-here: the caller's terminal, attended and its process recorded as
\* far as either can be, ...
AttachHere(r) ==
    /\ Goes(r, "done", "attached") /\ site.attachHere
    /\ terminal' = [terminal EXCEPT ![r] = TRUE]
    /\ UNCHANGED <<site, host, disk, worker, pane, spare>>
\* ... until it detaches.
Detach(r) ==
    /\ Goes(r, "attached", "detached")
    /\ \/ terminal' = [terminal EXCEPT ![r] = FALSE] /\ UNCHANGED spare
       \/ Spend("fail") /\ UNCHANGED terminal
    /\ UNCHANGED <<site, host, disk, worker, pane>>

\* External: the command is killed, wherever it is.
Killed(r) ==
    /\ pc[r] \notin Ended /\ To(r, "killed") /\ Spend("kill")
    /\ UNCHANGED <<site, host, disk, worker, shown>>

\* pruneWorkerWorktree of a run that ended, of a checkout that is gone or holds no
\* work: the remote of that name, whoever's it is by now, then the checkout.
Prune(r) ==
    \E w \in recorded[r] :
        /\ pc[r] \in Ended /\ (tree[r][w] # "absent" \/ remote[w] # None)
        /\ remote' = [remote EXCEPT ![w] = None]
        /\ tree' = [tree EXCEPT ![r][w] = "absent"]
        /\ worker[r][w] \in {"none", "dead"}
        /\ UNCHANGED <<site, pc, net, relay, seen, stray, recorded, inputs, worker, shown, spare>>

Up(r) ==
    \/ Open(r) \/ Configure(r) \/ Consent(r) \/ CheckImages(r) \/ ChooseBackend(r) \/ PlanBridges(r)
    \/ EnsureNetwork(r) \/ Contain(r) \/ InspectRelay(r) \/ RemoveRelay(r) \/ RunRelay(r)
    \/ ConnectRelay(r) \/ VerifyRelay(r) \/ Probe(r)
    \/ Record(r) \/ ScanRepo(r) \/ Clone(r) \/ DropRemote(r) \/ AddRemote(r) \/ Baseline(r)
    \/ Materialize(r) \/ CheckMounts(r) \/ StartDaemon(r) \/ OpenBackend(r)
    \/ PresentWorker(r) \/ LaunchWorker(r) \/ ViewWorker(r) \/ AwaitIdle(r)
    \/ AttachHere(r) \/ Detach(r) \/ Prune(r)
Next == (\E r \in Runs : Up(r) \/ WorkerSettles(r) \/ Killed(r)) \/ RelayExits
Spec == Init /\ [][Next]_vars

-----------------------------------------------------------------------------
(* Properties.                                                             *)

\* An `up` that ends, however it fails, leaves no checkout that run.json does
\* not name, unless removing that very checkout was tried and failed: `down
\* --prune` reaps by record, and a checkout it cannot see blocks every later
\* `up` (worktree.ts: createWorkerWorktrees).
Reapable ==
    \A r \in Runs : pc[r] \in Ended \ {"killed"} =>
        \A w \in Workers : tree[r][w] # "absent" => w \in recorded[r] \/ <<r, w>> \in stray

\* When every `up` has ended, and no removal failed, nor a docker run after it had
\* made its container, the relay is not one that runs without its aliases
\* (relay.ts: ensureEgressRelay).
RelayWhole ==
    (\A r \in Runs : pc[r] \in Ended \ {"killed"}) /\ ~ spare.kept /\ ~ spare.half
        => Whole(relay)

\* Nothing of a failed `up` blocks or misleads the next one, but for what could
\* not be removed and what a failed docker run left (worktree.ts:
\* createWorkerWorktrees, relay.ts: ensureEgressRelay).
NothingStranded == Reapable /\ RelayWhole

\* "A partial failure never leaves a half-built relay behind", as the comment of
\* ensureEgressRelay has it.  The code does not keep it: no handler is behind its
\* docker run.
NoHalfBuiltRelay ==
    (\A r \in Runs : pc[r] \in Ended \ {"killed"}) /\ ~ spare.kept => Whole(relay)

\* A supervisor is launched only behind a fenced network, with the inputs of
\* every defined worker written and every checkout its config asks for made and
\* on record; or, without a config, as the double, with none of these; from
\* images that are what their tags say, over mounts it can see; and never where
\* a sensitive repository was not named (up.ts).
StartsFenced ==
    \A r \in Runs, w \in Workers : worker[r][w] \in {"starting", "idle"} =>
        /\ IF site.config
           THEN /\ net = "fenced" /\ inputs[r] = site.defined
                /\ w \in site.isolated => tree[r][w] = "ready" /\ w \in recorded[r]
           ELSE site.double
        /\ site.double \/ (ImagesReady /\ MountsVisible)
        /\ (site.sensitive /\ site.carriers # {}) => site.consented

\* registerWorkerRemote replaces a remote only when its checkout is gone, as
\* its comment says.
RemoteWreckage ==
    [][\A w \in Workers : remote'[w] # remote[w] /\ remote[w] # None
            => \/ tree[remote[w]][w] = "absent" \/ tree'[remote[w]][w] = "absent"]_vars
=============================================================================
