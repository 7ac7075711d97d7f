-------------------------------- MODULE Doctor --------------------------------
(***************************************************************************)
(* `pifleet doctor` (src/cli/commands/doctor.ts): what it concludes of a   *)
(* machine from the answers of the tools, files and endpoint it probes,    *)
(* which backends it reports usable, and when it exits unsuccessfully.     *)
(*                                                                         *)
(* A command answers with an exit code (0, NotFound when it could not be   *)
(* started, anything else) and the numbers of its banner's first version.  *)
(* A model's name is a prefix, a name and a suffix, None where absent.     *)
(***************************************************************************)
EXTENDS Naturals, Sequences, SequencesExt, FiniteSets

CONSTANTS None, NotFound, Levels     \* Levels: the suffixes that name a thinking level

Floors == [docker |-> <<23, 0, 0>>, git |-> <<2, 32, 0>>, tmux |-> <<2, 4, 0>>]

\* <<>> for a banner without a version; two numbers are enough for one.
ParseVersionTriple(banner) ==
    IF Len(banner) < 2 THEN <<>>
    ELSE <<banner[1], banner[2], IF Len(banner) = 2 THEN 0 ELSE banner[3]>>

\* The first number that differs decides.
AtLeast(got, min) ==
    \A i \in 1..3 : got[i] < min[i] => \E k \in 1..(i - 1) : got[k] > min[k]

FloorStatus(name, answer) ==
    IF name \notin DOMAIN Floors \/ answer.code # 0 THEN "none"
    ELSE IF ParseVersionTriple(answer.banner) = <<>> THEN "unreadable"
    ELSE IF AtLeast(ParseVersionTriple(answer.banner), Floors[name]) THEN "ok" ELSE "below"

VersionProbe(name, answer, required) ==
    [name |-> name, ok |-> answer.code = 0, required |-> required,
     floor |-> FloorStatus(name, answer), code |-> answer.code]

-----------------------------------------------------------------------------
(* Diagnoses: who is meant, what is wrong, and what kind of fix it takes.  *)

Diagnosis(of, what, class) == [of |-> of, what |-> what, class |-> class]
When(condition, diagnosis) == IF condition THEN <<diagnosis>> ELSE <<>>

UnavailableDiagnosis(p) ==
    Diagnosis(p.name, IF p.code = NotFound THEN "not-installed" ELSE "unusable", "missing-binary")

\* Only of a tool that is required.
FloorDiagnosis(p) ==
    When(p.required /\ p.floor = "below", Diagnosis(p.name, "version-below-minimum", "wrong-version"))
      \o When(p.required /\ p.floor = "unreadable", Diagnosis(p.name, "version-unreadable", "misconfigured"))

\* A client without its server is another fix than no docker at all.
ProbeDocker(m) ==
    LET server == VersionProbe("docker", m.docker, TRUE) IN
    [probe |-> server,
     diagnoses |-> IF server.ok THEN FloorDiagnosis(server)
                   ELSE IF m.client.code # 0 THEN <<UnavailableDiagnosis(server)>>
                   ELSE <<Diagnosis("docker", "daemon-unreachable", "absent-daemon")>>]

ProbeCmux(m) ==
    LET probe == VersionProbe("cmux", m.cmux, FALSE)
        threw == m.capabilities = <<>>
        missing == IF threw THEN {} ELSE {c \in m.capabilities[1] : c.required /\ ~ c.ok}
        mode == IF m.mode \in {"torn", "unset"} THEN "cmuxOnly" ELSE m.mode
    IN [probe |-> probe,
        usable |-> probe.ok /\ ~ threw /\ missing = {},
        diagnoses |->
           IF ~ probe.ok THEN <<>>
           ELSE When(threw, Diagnosis("cmux", "probe-failed", "misconfigured"))
             \o When(missing # {}, Diagnosis("cmux", "required-command-missing", "wrong-version"))
             \o When(mode = "allowAll", Diagnosis("cmux", "socket-over-permissive", "misconfigured"))
             \o When(mode = "cmuxOnly" /\ ~ m.insidePane,
                     Diagnosis("cmux", "socket-unreachable", "misconfigured"))]

\* The images of the toolchains in use: a tag that cannot be computed is a row,
\* an image that is not built is none.
ImageDiagnoses(m) ==
    LET unknown == SelectSeq(m.config[1].toolchains, LAMBDA t : m.image[t] = "uncomputable") IN
    [i \in DOMAIN unknown |-> Diagnosis(unknown[i], "image-tag-uncomputable", "misconfigured")]
ImagesPresent(m) == {t \in ToSet(m.config[1].toolchains) : m.image[t] = "present"}

\* Every root that is mounted, from inside a container of an image already
\* there: the first of the fleet's, or else the relay's.
Roots == <<"runs_dir", "scratch_dir", "checkout">>
MountProbed(m) ==
    /\ m.docker.code = 0
    /\ m.relayImage \/ (m.config # <<>> /\ ImagesPresent(m) # {})
Mounts(m) ==
    [i \in DOMAIN Roots |-> [name |-> Roots[i], probed |-> MountProbed(m),
                             visible |-> MountProbed(m) /\ Roots[i] \in m.shared]]
MountDiagnoses(m) ==
    LET hidden == SelectSeq(Mounts(m), LAMBDA r : r.probed /\ ~ r.visible) IN
    [i \in DOMAIN hidden |-> Diagnosis(hidden[i].name, "not-mountable", "misconfigured")]

-----------------------------------------------------------------------------
(* The models the endpoint serves, against the allowlist.                  *)

StripNamespace(id) == <<id.name, id.suffix>>
StripThinkingLevel(identity) == <<identity[1], None>>

\* decomposeModel: a suffix that is a level comes off, unless it is the
\* provider's way to tag a model.
Decomposed(entry, llm) ==
    LET provider == IF entry.prefix = None THEN llm.provider ELSE entry.prefix IN
    IF entry.suffix \in Levels /\ provider \notin llm.tagStyle
    THEN StripThinkingLevel(StripNamespace(entry)) ELSE StripNamespace(entry)

\* A served id is taken as it is spelled; its level is overlooked only for an
\* entry that named none.
AllowlistVerdict(entry, served, llm) ==
    LET exact == {StripNamespace(id) : id \in served}
        relaxed == {StripThinkingLevel(i) : i \in {x \in exact : x[2] \in Levels}}
        written == StripNamespace(entry)
        model == Decomposed(entry, llm)
    IN \/ model \in exact
       \/ written # model /\ written \in exact
       \/ written = model /\ model \in relaxed

\* What GET /models lists, and the entries it lacks; nothing is compared with
\* a list that was not read.
Served(m) ==
    IF m.endpoint.is # "listed" THEN {}
    ELSE {m.endpoint.data[i][1] : i \in {k \in DOMAIN m.endpoint.data : m.endpoint.data[k] # <<>>}}
AllowlistChecked(m) == m.config # <<>> /\ m.config[1].allow # {} /\ Served(m) # {}
NotServed(m) ==
    IF ~ AllowlistChecked(m) THEN {}
    ELSE {e \in m.config[1].allow : ~ AllowlistVerdict(e, Served(m), m.config[1])}

-----------------------------------------------------------------------------
(* The command.                                                            *)

\* Of each tool but docker, which has had its own.
ToolDiagnoses(p) == When(p.required /\ ~ p.ok, UnavailableDiagnosis(p)) \o FloorDiagnosis(p)

Diagnoses(m) ==
    ProbeDocker(m).diagnoses
      \o ProbeCmux(m).diagnoses
      \o (IF m.config # <<>> /\ m.docker.code = 0 THEN ImageDiagnoses(m) ELSE <<>>)
      \o MountDiagnoses(m)
      \o When(NotServed(m) # {}, Diagnosis("allowlist", "model-not-served", "misconfigured"))
      \o ToolDiagnoses(VersionProbe("git", m.git, TRUE))
      \o ToolDiagnoses(VersionProbe("pi", m.pi, FALSE))
      \o ToolDiagnoses(VersionProbe("tmux", m.tmux, FALSE))
      \o ToolDiagnoses(ProbeCmux(m).probe)

\* A tmux whose banner has no version counts as usable; headless always is.
Backends(m) ==
    (IF ProbeCmux(m).usable THEN {"cmux"} ELSE {})
      \cup (IF m.tmux.code = 0 /\ FloorStatus("tmux", m.tmux) # "below" THEN {"tmux"} ELSE {})
      \cup {"headless"}

\* One number for every kind of diagnosis.
ExitForDiagnoses(diagnoses) == IF diagnoses = <<>> THEN "success" ELSE "backend unavailable"
=============================================================================
