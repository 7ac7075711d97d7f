-------------------------------- MODULE Grants --------------------------------
(***************************************************************************)
(* What a worker is given: the config's fences (config/schema.ts), the     *)
(* resolution of a worker's layers (config/load.ts), its environment and   *)
(* secret files (run/worker-env.ts), its bridge (security/relay.ts), its   *)
(* container's mounts (config/render.ts) and the files put under them, in  *)
(* order (run/materialize.ts).                                             *)
(*                                                                         *)
(* A layer (a worker's fields, its role's, the defaults) is a function of  *)
(* the keys it sets.  A model is its prefix, its name and its suffix.      *)
(***************************************************************************)
EXTENDS Naturals, Sequences, SequencesExt, FiniteSets, FiniteSetsExt

CONSTANTS Builtin,       \* what Pi grants a worker that names no tools
          WriteCapable,  \* the tools that can put a byte on disk
          Reserved,      \* the variables the fleet itself assigns
          Colliding,     \* the names whose <name>_FILE is one of those
          WellNamed,     \* the names that survive being a path segment
          TooLong        \* the provider keys no relay can be named with

None == "none"

-----------------------------------------------------------------------------
(* The layers.                                                             *)

\* The nearest layer that sets the key.
Pick(key, layers, default) ==
    LET set == SelectSeq(layers, LAMBDA l : key \in DOMAIN l) IN
    IF set = <<>> THEN default ELSE set[1][key]
RoleLayers(cfg, r) == <<cfg.roles[r], cfg.defaults>>
Layers(cfg, w) == <<w.fields>> \o RoleLayers(cfg, w.role)

\* effectiveToolGrant: no list is every builtin, the writing ones too.
Tools(layers) == Pick("tools", layers, Builtin)
WritesReadOnly(layers) ==
    Pick("read_only", layers, FALSE) /\ Tools(layers) \cap WriteCapable # {}
\* A terminal needs a pane, and a process that stays.
PaneImpossible(cfg, layers) ==
    /\ Pick("pane_mode", layers, "rpc") = "tui"
    /\ Pick("kind", layers, "persistent") = "oneshot" \/ cfg.backend = "headless"

SecretsAgree(list) ==
    \A a, b \in ToSet(list) : a.name = b.name => a = b

\* envVarNameIssue
VarNamed(name) == name \notin Reserved
\* An upstream by name is a hosted provider's alone.
ProviderAccepted(b) == VarNamed(b.key) /\ (b.upstream.is = "name" => b.hosted)
\* The flat keys are the default provider's block, and never beside it.
SpelledTwice(llm) == llm.provider \in DOMAIN llm.providers /\ llm.doubled
ProvidersAccepted(llm) ==
    IF llm.flat THEN VarNamed(llm.key) /\ llm.upstream.is # "name"
    ELSE /\ llm.provider \in DOMAIN llm.providers /\ ~ SpelledTwice(llm)
         /\ DOMAIN llm.providers \subseteq WellNamed
         /\ \A p \in DOMAIN llm.providers : ProviderAccepted(llm.providers[p])

\* FleetConfigSchema: each role is held to the fences as well as each worker.
ConfigAccepted(cfg) ==
    LET owners == {RoleLayers(cfg, r) : r \in DOMAIN cfg.roles}
                    \cup {Layers(cfg, w) : w \in ToSet(cfg.workers)}
    IN
    /\ \A w \in ToSet(cfg.workers) : w.role \in DOMAIN cfg.roles
    /\ \A i, k \in DOMAIN cfg.workers : cfg.workers[i].id = cfg.workers[k].id => i = k
    /\ DOMAIN cfg.roles \subseteq WellNamed
    /\ \A l \in owners : /\ ToSet(Pick("skills", l, <<>>)) \subseteq WellNamed
                         /\ ~ WritesReadOnly(l) /\ ~ PaneImpossible(cfg, l)
    /\ ProvidersAccepted(cfg.llm) /\ SecretsAgree(cfg.allowlist)

-----------------------------------------------------------------------------
(* A worker, resolved.                                                     *)

Declared(llm) == IF llm.flat THEN {} ELSE DOMAIN llm.providers
\* The provider's block; a flat fleet has one, whatever the provider's name.
Block(llm, p) ==
    IF llm.flat THEN [hosted |-> FALSE, key |-> llm.key, upstream |-> llm.upstream,
                      listen |-> llm.listen, allow |-> llm.allow, tags |-> FALSE]
    ELSE llm.providers[p]
\* providerIsHosted: never of a provider nobody declared.
Hosted(llm, p) == p \in Declared(llm) /\ llm.providers[p].hosted

\* What a worker dials.
Endpoint(llm, p) == Block(llm, p).listen

\* decomposeModel: a suffix is a thinking level, unless it is the model's tag.
Decomposed(llm, m, fallback) ==
    LET p == IF m.prefix = None THEN fallback ELSE m.prefix
        tagged == p \in Declared(llm) /\ llm.providers[p].tags
    IN  [provider |-> p, model |-> <<m.name, IF tagged THEN m.suffix ELSE None>>]

Spec(cfg, w) ==
    Decomposed(cfg.llm, Pick("model", Layers(cfg, w), cfg.llm.model), cfg.llm.provider)
Resolves(cfg, w) ==
    /\ Spec(cfg, w).model # <<"", None>>
    /\ cfg.llm.flat \/ Spec(cfg, w).provider \in Declared(cfg.llm)

\* assertModelAllowed: an entry of another declared provider's does not count,
\* and no entries at all is no fence.
ModelAllowed(cfg, w) ==
    LET s == Spec(cfg, w)
        list == Block(cfg.llm, s.provider).allow
        fallback == IF cfg.llm.flat THEN cfg.llm.provider ELSE s.provider
        counts == {e \in list : e.prefix \in Declared(cfg.llm) => e.prefix = s.provider}
    IN  list = {} \/ s.model \in {Decomposed(cfg.llm, e, fallback).model : e \in counts}

\* The contract's skill comes first, whatever the layers say.
Skills(cfg, w) ==
    LET own == Pick("skills", Layers(cfg, w), <<>>) IN
    IF "contract" \in ToSet(own) THEN own ELSE <<"contract">> \o own
\* planRoleBundles: one bundle per role, of all its workers' skills.
Bundle(cfg, r) == UNION {ToSet(Skills(cfg, w)) : w \in {x \in ToSet(cfg.workers) : x.role = r}}

Isolation(cfg, w) == Pick("isolation", Layers(cfg, w), cfg.isolation)
Cloud(cfg, w) == Pick("cloud_access", Layers(cfg, w), FALSE)
Egress(cfg, w) == Pick("egress_access", Layers(cfg, w), FALSE)
Requested(cfg, w) == ToSet(Pick("secrets", Layers(cfg, w), <<>>))
Terminal(cfg, w) == Pick("pane_mode", Layers(cfg, w), "rpc") = "tui"
\* workersMissingKubeconfig: who is warned of.
Unfenced(cfg) == {w \in ToSet(cfg.workers) : ~ cfg.kubeconfig /\ Cloud(cfg, w)}

-----------------------------------------------------------------------------
(* Its environment: `host` is the operator's, by name.                     *)

KeyName(cfg, w) == Block(cfg.llm, Spec(cfg, w).provider).key
DeliversKey(cfg, w, host) == host[KeyName(cfg, w)] \notin {"absent", "empty"}
Entries(cfg, name) == {e \in ToSet(cfg.allowlist) : e.name = name}

\* Mutant: the allowlist is a default, not a ceiling.
SecretRefusedUnlisted(cfg, w, host, n) ==
    \/ n \in Reserved \cup {KeyName(cfg, w)} \/ n \in Colliding
    \/ host[n] \in {"absent", "empty", "crlf"}
    \/ host[n] = "lines" /\ ~ \E e \in Entries(cfg, n) : e.multiline
\* Any of them refuses the worker, and with it the run.
SecretRefused(cfg, w, host, n) ==
    \/ n \in Reserved \cup {KeyName(cfg, w)} \/ n \in Colliding
    \/ Entries(cfg, n) = {}
    \/ host[n] \in {"absent", "empty", "crlf"}
    \/ host[n] = "lines" /\ ~ \E e \in Entries(cfg, n) : e.multiline
EnvPlanned(cfg, w, host) == \A n \in Requested(cfg, w) : ~ SecretRefused(cfg, w, host, n)

\* The files of its secret store, of which the environment has the paths.
SecretFiles(cfg, w, host) ==
    Requested(cfg, w) \cup (IF DeliversKey(cfg, w, host) THEN {KeyName(cfg, w)} ELSE {})
\* What is swept from all that the worker writes.
Redactable(cfg, w, host) ==
    (IF DeliversKey(cfg, w, host) THEN {KeyName(cfg, w)} ELSE {})
      \cup {n \in Requested(cfg, w) : \A e \in Entries(cfg, n) : e.credential}
\* The key that the supervisor sweeps too is a vendor's.
ProviderKeyName(cfg, w, host) ==
    IF DeliversKey(cfg, w, host) /\ Hosted(cfg.llm, Spec(cfg, w).provider)
    THEN KeyName(cfg, w) ELSE None

\* What every worker's environment says, and what its layers add.
Told(cfg, w) ==
    LET m == Spec(cfg, w) IN
    [provider |-> m.provider, model |-> m.model, dials |-> Endpoint(cfg.llm, m.provider)]
Proxied(cfg, w) == Cloud(cfg, w) \/ Egress(cfg, w)
Vars(cfg, w) ==
    {v \in {"git_safe", "git_identity", "token", "proxy"} :
        CASE v = "git_safe" -> Isolation(cfg, w) # "none"
          [] v = "git_identity" -> Isolation(cfg, w) = "worktree"
          [] v = "token" -> Cloud(cfg, w)
          [] v = "proxy" -> Proxied(cfg, w)}

\* disclosureFor: a hosted worker's line of the banner, from the same facts.
NoDisclosure == [repo |-> FALSE, cloud |-> FALSE, secrets |-> {}]
Disclosure(cfg, w) ==
    IF ~ Hosted(cfg.llm, Spec(cfg, w).provider) THEN NoDisclosure ELSE
    [repo |-> Isolation(cfg, w) # "none", cloud |-> Cloud(cfg, w), secrets |-> Requested(cfg, w)]

-----------------------------------------------------------------------------
(* Its bridge: one per provider, with one relay to that provider.          *)

Network(llm, p) == IF llm.flat THEN <<"net">> ELSE <<"net", p>>
\* assertProviderKey: the key is a part of the network's and the relay's names.
NetworkNamed(llm, p) == llm.flat \/ p \in WellNamed \ TooLong
\* relayListenEndpoint: a name the bridge's own DNS answers, and nothing else.
ListenAccepted(listen) == listen \in {"alias", "legacy alias", "dotted"}

\* The names the relay answers to on its bridge.
Published(llm, p) == {"alias", "legacy alias", "proxy", Endpoint(llm, p)}

Upstream(llm, p) == Block(llm, p).upstream
\* stampUpstreamAddress: a hosted name is dialled by an address of the
\* moment and judged by its name.
Target(llm, p, dns) ==
    LET up == Upstream(llm, p) IN
    CASE up.is = "none" -> [dial |-> <<"host gateway">>, judged |-> "docker host"]
      [] up.is = "address" -> [dial |-> <<"as written", up.host>>, judged |-> up.host]
      [] up.is = "name" -> [dial |-> <<"resolved", Min(dns[up.host])>>, judged |-> up.host]
TargetPlanned(llm, p, dns) ==
    LET up == Upstream(llm, p) IN
    ListenAccepted(Endpoint(llm, p)) /\ (up.is = "name" => dns[up.host] # {})
\* assertTargetsAllowed, under relayGatePolicy.
TargetAllowed(cfg, p, dns) ==
    Target(cfg.llm, p, dns).judged \in {"docker host"} \cup cfg.egress

\* egressBridgePlan, over the providers its workers resolve to.
Bridges(cfg, workers, dns) ==
    {[provider |-> p, network |-> Network(cfg.llm, p), target |-> Target(cfg.llm, p, dns),
      names |-> Published(cfg.llm, p)] :
        p \in {Spec(cfg, w).provider : w \in workers}}

-----------------------------------------------------------------------------
(* Its container and the files under it.                                   *)

Mount(what, whose, rw) == [what |-> what, whose |-> whose, rw |-> rw]
KubeconfigGiven(cfg, w) == cfg.kubeconfig /\ Cloud(cfg, w)
Workspace(cfg, w) ==
    CASE Isolation(cfg, w) = "worktree" -> {Mount("checkout", w.id, TRUE)}
      [] Isolation(cfg, w) = "shared-ro" -> {Mount("repository", "operator", FALSE)}
      [] OTHER -> {}
Mounts(cfg, w) ==
    Workspace(cfg, w)
      \cup {Mount("outbox", w.id, TRUE), Mount("sessions", "run", TRUE), Mount("pi", w.id, TRUE)}
      \cup {Mount(what, w.id, FALSE) : what \in {"replies", "cloud policy", "task policy",
                                                 "dispatch policy", "replies policy", "secrets"}}
      \cup {Mount("skills", w.role, FALSE)}
      \cup (IF cfg.clone THEN {Mount("clone source", "operator", FALSE)} ELSE {})
      \cup (IF cfg.briefing = "present" THEN {Mount("briefing", w.id, FALSE)} ELSE {})
      \cup (IF KubeconfigGiven(cfg, w) THEN {Mount("kubeconfig", w.id, FALSE)} ELSE {})

\* buildPiArgv: the trigger is a terminal's, and only where it may start a turn.
Triggers(cfg, w) == Terminal(cfg, w) /\ Pick("auto_trigger", Layers(cfg, w), TRUE)

\* copySkillTree: regular files and directories, and no checkout.
BundleCopied(entries) ==
    \A e \in entries : e.is \in {"file", "directory"} /\ ~ e.git /\ e.fits

\* materializeRoleSkills: every named bundle, from its source.
BundlePut(cfg, r, disk) == Bundle(cfg, r) \subseteq disk.skills /\ BundleCopied(disk.bundle)
\* Every skill that a role of the fleet names, before anything is written.
SourcesExist(cfg, disk) ==
    \A w \in ToSet(cfg.workers) : Bundle(cfg, w.role) \subseteq disk.skills
\* A secret file is verified after it was written: there, regular, whole and
\* readable by the worker.
StoreWritten(cfg, w, host, disk) ==
    EnvPlanned(cfg, w, host) /\ (SecretFiles(cfg, w, host) # {} => disk.store = "as written")

\* What materializeWorkerInputs establishes for one worker, in order; the
\* launch record, which the supervisor starts it from, is the last.
Steps(cfg, w) ==
    <<"outbox", "replies", "skills", "cloud policy", "task policy", "dispatch policy",
      "replies policy">>
      \o (IF cfg.briefing = "present" THEN <<"briefing">> ELSE <<>>)
      \o (IF KubeconfigGiven(cfg, w) THEN <<"kubeconfig">> ELSE <<>>)
      \o <<"secrets", "env", "launch">>
\* A briefing that a layer names and nobody wrote refuses the worker.
Rendered(cfg) == cfg.briefing # "missing"
\* A step whose place is a link, or that fails, ends the `up`: what was
\* established before it stays.
Established(cfg, w, host, disk) ==
    LET steps == Steps(cfg, w)
        stops == {i \in DOMAIN steps :
                    \/ steps[i] \in disk.links \cup disk.fails
                    \/ steps[i] = "skills" /\ ~ BundlePut(cfg, w.role, disk)
                    \/ steps[i] = "secrets" /\ ~ StoreWritten(cfg, w, host, disk)}
    IN  CASE ~ SourcesExist(cfg, disk) \/ ~ Rendered(cfg) -> <<>>
          [] stops = {} -> steps
          [] OTHER -> SubSeq(steps, 1, Min(stops) - 1)

\* What the supervisor is started from.
LaunchRecord(cfg, w, host) ==
    [secrets |-> Requested(cfg, w), key |-> ProviderKeyName(cfg, w, host),
     unswept |-> {n \in Requested(cfg, w) : \E e \in Entries(cfg, n) : ~ e.credential},
     token |-> Cloud(cfg, w), trigger |-> Triggers(cfg, w), disclosure |-> Disclosure(cfg, w)]

\* A fleet whose workers may be launched.
Launchable(cfg, host, dns) ==
    /\ ConfigAccepted(cfg)
    /\ \A w \in ToSet(cfg.workers) :
          /\ Resolves(cfg, w) /\ ModelAllowed(cfg, w) /\ EnvPlanned(cfg, w, host)
          /\ NetworkNamed(cfg.llm, Spec(cfg, w).provider)
          /\ TargetPlanned(cfg.llm, Spec(cfg, w).provider, dns)
          /\ TargetAllowed(cfg, Spec(cfg, w).provider, dns)
===============================================================================
