------------------------------ MODULE Inventory ------------------------------
(***************************************************************************)
(* The two files of the triage console as they are taken from disk, and    *)
(* the fleet's kubeconfig they are held to: `config validate` asks of them *)
(* what it can, the console everything (run/triage-config.ts,              *)
(* run/triage-targets.ts).  The rules over a whole inventory are           *)
(* SweepVerdict's.                                                         *)
(*                                                                         *)
(* A file is [is |-> "missing" | "torn" | "document"]; an answer is <<>>   *)
(* where the load is refused and <<a>> where it gives a; times are seconds.*)
(***************************************************************************)
EXTENDS SweepVerdict, Functions, FiniteSetsExt

CONSTANTS MaxUnits      \* MAX_UNITS_PER_SERVICE

-----------------------------------------------------------------------------
(* The targets file: services, their environments, and what is refused of  *)
(* a document before anything else is read.                                *)

ChecksOf(kind) ==
    CASE kind = "k8s" -> {"rollout", "logs", "sink", "endpoint"}
      [] kind = "docker" -> {"state", "health", "logs", "stats", "events"}
      [] kind = "vm" -> {"reachability", "system", "units", "logs", "resources", "cloud"}

\* A service of a docker host may leave its checks out; no other may.
Checked(kind, service) ==
    IF kind = "docker" /\ service.checks = <<>> THEN <<"state", "health", "logs">>
    ELSE service.checks

\* TriageServiceSchema, TriageDockerServiceSchema and TriageVmServiceSchema:
\* the keys of another kind are unknown ones, and a check or a unit named
\* twice would be read twice.
ServiceLegal(kind, service) ==
    LET checks == Checked(kind, service) IN
    /\ service.token
    /\ checks # <<>> /\ ToSet(checks) \subseteq ChecksOf(kind) /\ IsInjective(checks)
    /\ service.units # <<>> => kind = "vm"
    /\ Len(service.units) <= MaxUnits /\ IsInjective(service.units)
    /\ service.window # 0 => kind = "k8s"

\* defaultEnvironmentKind
Kinded(environment) == IF environment.kind = "none" THEN "k8s" ELSE environment.kind

\* TriageEnvironmentSchema: a service of a host is in its target's scope.
EnvironmentLegal(environment) ==
    LET kind == Kinded(environment) IN
    /\ kind \in Kinds /\ environment.token
    /\ Len(environment.services) <= MaxServices
    /\ \A s \in ToSet(environment.services) :
          /\ ServiceLegal(kind, s)
          /\ kind # "k8s" => s.namespace = environment.target

\* The environment as the rest of the program has it.
Taken(environment) ==
    LET services == environment.services
        own == {i \in DOMAIN services : services[i].window # 0}
    IN [name |-> environment.name, kind |-> Kinded(environment), context |-> environment.context,
        window |-> environment.window,
        override |-> [s \in {services[i].name : i \in own} |->
                         services[CHOOSE i \in own : services[i].name = s].window],
        services |-> [i \in DOMAIN services |-> services[i].name]]

\* parseTriageTargets
ParseTargets(file) ==
    IF /\ file.is = "document"
       /\ \A e \in ToSet(file.environments) : EnvironmentLegal(e)
       /\ TargetsAccepted([i \in DOMAIN file.environments |-> Taken(file.environments[i])])
    THEN <<[i \in DOMAIN file.environments |-> Taken(file.environments[i])]>>
    ELSE <<>>

-----------------------------------------------------------------------------
(* The console file: every field has a default, and so has the file.       *)

Field(least, most, default) == [least |-> least, most |-> most, default |-> default]
Fields ==
    [cadence |-> Field(60, 3600, 300), reserve |-> Field(15, 600, 60), skips |-> Field(1, 24, 3),
     recycle |-> Field(0, 1000, 48), flaps |-> Field(2, 20, 3), flapWindow |-> Field(300, 86400, 3600),
     renotify |-> Field(0, 604800, 21600)]

\* notifyEndpointIssue: printed and logged as it is, so it carries no secret.
EndpointLegal(endpoint) ==
    /\ endpoint.parses /\ endpoint.scheme \in {"http", "https"}
    /\ ~endpoint.userinfo /\ ~endpoint.query

\* NotifyConfigSchema and NotifyPrioritySchema; <<>> turns notification off.
NotifyLegal(notify) ==
    \A n \in ToSet(notify) :
        /\ EndpointLegal(n.endpoint)
        /\ n.timeout \in 1000..30000 /\ n.retries \in 1..288
        /\ \A p \in ToSet(n.priority) : p \in 1..5
        /\ n.tokenNamed

\* reserveFitsCadenceIssue
ReserveFits(console) == console.reserve < console.cadence

\* parseTriageConsoleConfig and TriageConsoleConfigSchema: the given fields
\* over the defaults; an unknown one, the deadline among them, is refused.
ParseConsole(file) ==
    LET given == IF file.is = "document" THEN file.fields ELSE <<>>
        console == [f \in DOMAIN Fields |-> IF f \in DOMAIN given THEN given[f] ELSE Fields[f].default]
    IN IF /\ file.is # "torn"
          /\ DOMAIN given \subseteq DOMAIN Fields
          /\ \A f \in DOMAIN Fields : console[f] \in Fields[f].least..Fields[f].most
          /\ ReserveFits(console)
          /\ file.is = "document" => NotifyLegal(file.notify)
       THEN <<console>> ELSE <<>>

\* sweepDeadlineS and sweepExpiryS: computed, and never configured.
SweepDeadline(console) == console.cadence - console.reserve
SweepExpiry(console) == Max({console.skips * console.cadence, 2 * SweepDeadline(console)})
\* sweepDeadlineIssue
DeadlineFits(console) == SweepDeadline(console) < console.cadence

-----------------------------------------------------------------------------
(* The fence and the load.                                                 *)

\* parseKubeContexts behind guardKubeContextRead: a list that is none holds no
\* context, and what cannot be read refuses the load.
ReadContexts(kubeconfig) ==
    CASE kubeconfig.is \in {"missing", "torn"} -> <<>>
      [] kubeconfig.is = "other" -> <<{}>>
      [] kubeconfig.is = "document" -> <<kubeconfig.contexts>>

\* fenceTriageTargets
Fenced(envs, reach, console) ==
    ContextsReached(envs, reach) /\ WindowsFit(envs, console.cadence) /\ DeadlineFits(console)

\* loadTriageTargets and loadTriagePair: the kubeconfig is <<>> where the fleet
\* names none; unlike the console file, the targets file has no default.
LoadTriagePair(files) ==
    LET console == ParseConsole(files.console)
        targets == ParseTargets(files.targets)
        contexts == IF files.kubeconfig = <<>> THEN <<{}>> ELSE ReadContexts(files.kubeconfig[1])
        reach == [declared |-> files.kubeconfig # <<>>, contexts |-> contexts[1]]
    IN IF console = <<>> \/ targets = <<>> \/ contexts = <<>> THEN <<>>
       ELSE IF Fenced(targets[1], reach, console[1])
       THEN <<[console |-> console[1], environments |-> targets[1]]>> ELSE <<>>

\* validateTriageFiles: without a kubeconfig what the fence alone asks is left
\* out, and the rest of it (unreachedIssues) is not.
ValidateTriageFiles(files) ==
    LET console == ParseConsole(files.console)
        targets == ParseTargets(files.targets)
    IN CASE console = <<>> -> "refused"
         [] console # <<>> /\ files.targets.is = "missing" -> "no-inventory"
         [] console # <<>> /\ files.targets.is # "missing" /\ files.kubeconfig = <<>> ->
               IF /\ targets # <<>>
                  /\ WindowsFit(targets[1], console[1].cadence) /\ DeadlineFits(console[1])
               THEN "unfenced" ELSE "refused"
         [] OTHER -> IF LoadTriagePair(files) # <<>> THEN "fenced" ELSE "refused"
=============================================================================
