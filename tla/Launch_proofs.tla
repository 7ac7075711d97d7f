---------------------------- MODULE Launch_proofs ----------------------------
(***************************************************************************)
(* The safety of Launch, for any runs, workers, targets and scenarios.     *)
(***************************************************************************)
EXTENDS Launch, TLAPS

\* The stages an `up` is at, by what it has behind it by then.
Launched == {"launch", "spawn", "view", "wait"}
Mounted == {"daemon", "backend"} \cup Launched
Seated == {"mounts"} \cup Mounted
Cloned == {"inputs"} \cup Seated
Checkout == {"remote", "add", "baseline"}
Behind ==
    {"relay", "remove", "run", "connect", "verify", "probe", "record", "scan", "clone"}
    \cup Checkout \cup Cloned
Verifying == {"backend kind", "bridges", "network", "contain"} \cup Behind
Consenting == {"images"} \cup Verifying
Stages == {"guard", "config", "consent"} \cup Consenting \cup Ended

Spares == [fail : Nat, kill : Nat, stuck : Nat, kept : BOOLEAN, half : BOOLEAN]
ShownOK ==
    /\ pane \in [Runs -> [Workers -> {"none", "made", "viewed", "attended"}]]
    /\ terminal \in [Runs -> BOOLEAN]
TypeOK ==
    /\ pc \in [Runs -> Stages]
    /\ net \in Networks /\ relay \in Relays
    /\ seen \in [Runs -> Relays]
    /\ remote \in [Workers -> Runs \cup {None}]
    /\ tree \in [Runs -> [Workers -> {"absent", "cloned", "ready"}]]
    /\ stray \in SUBSET (Runs \X Workers)
    /\ recorded \in [Runs -> SUBSET Workers]
    /\ inputs \in [Runs -> SUBSET Workers]
    /\ worker \in [Runs -> [Workers -> {"none", "starting", "idle", "dead"}]]
    /\ ShownOK
    /\ spare \in Spares

\* What the gates before the checkouts and before the workers let through.
Consented == (site.sensitive /\ site.carriers # {}) => site.consented
Imaged == site.double \/ ImagesReady
Sighted == site.double \/ MountsVisible
Manned == site.config \/ site.double
\* Who is defined, and so may have a provider and a checkout.
SiteInv ==
    /\ site.carriers \cup site.isolated \subseteq site.defined
    /\ site.defined \subseteq Workers /\ (~ site.config => site.defined = {})

\* What a run that stands at a stage has behind it, the host's fence included.
Gates(r, stage) ==
    /\ recorded[r] \cup Making(r) \subseteq site.isolated
    /\ stage \in {"network", "contain"} => site.config
    /\ stage = "contain" => net # "open"
    /\ stage \in Behind => (site.config => net = "fenced")
    /\ stage \notin {"guard", "config"} \cup Ended => Manned
    /\ stage \in Consenting => Consented
    /\ stage \in Verifying => Imaged
    /\ stage \in Mounted => Sighted
    /\ stage \in Seated => (site.config => inputs[r] = site.defined)
    /\ stage \in Cloned => recorded[r] = site.isolated
    /\ stage \notin Ended => \A w \in recorded[r] : tree[r][w] = "ready"
    /\ stage \notin Checkout \cup Ended => Making(r) = {}
    /\ stage \in Ended \ {"killed"} => \A w \in Making(r) : <<r, w>> \in stray
    /\ stage \notin Launched \cup Ended => \A w \in Workers : worker[r][w] = "none"
StageInv == \A r \in Runs : Gates(r, pc[r])

\* One checkout is made at a time.
MakingInv == \A r \in Runs : \A v, w \in Making(r) : v = w

\* A worker that was started keeps what it was started behind.
Backed(r) ==
    /\ site.config => net = "fenced" /\ inputs[r] = site.defined
    /\ Manned /\ Consented /\ Imaged /\ Sighted
WorkerInv ==
    \A r \in Runs, w \in Workers :
        /\ worker[r][w] # "none" => Backed(r)
        /\ worker[r][w] \in {"starting", "idle"} /\ w \in site.isolated =>
              tree[r][w] = "ready" /\ w \in recorded[r]

\* A relay without its aliases is one that some `up` is about to connect, unless
\* that was killed first or could not remove it, or its docker run failed.
RelayInv ==
    spare.kept \/ spare.half \/ Whole(relay) \/ \E r \in Runs : pc[r] \in {"connect", "killed"}

IInv == TypeOK /\ SiteInv /\ StageInv /\ MakingInv /\ WorkerInv /\ RelayInv
-----------------------------------------------------------------------------
(* What most steps have in common.                                         *)

\* The config and the host are what they were when the command began, so a gate
\* that let the run through stays passed.
LEMMA SiteKept ==
  ASSUME site' = site
  PROVE  /\ (Consented' <=> Consented) /\ (Imaged' <=> Imaged)
         /\ (Sighted' <=> Sighted) /\ (Manned' <=> Manned) /\ (SiteInv' <=> SiteInv)
  <1>1. Consented' <=> Consented
    BY DEF Consented
  <1>2. ImagesReady' <=> ImagesReady
    BY DEF ImagesReady
  <1>3. MountsVisible' <=> MountsVisible
    BY DEF MountsVisible
  <1> QED BY <1>1, <1>2, <1>3 DEF Imaged, Sighted, Manned, SiteInv

\* A failure or a kill costs one fault, and is not the failure of a removal.
LEMMA SpendIs ==
  ASSUME spare \in Spares, NEW fault \in {"fail", "kill"}, Spend(fault)
  PROVE  spare' \in Spares /\ spare'.kept = spare.kept /\ spare'.half = spare.half
  <1>1. spare[fault] \in Nat /\ spare[fault] - 1 \in Nat
    BY DEF Spares, Spend
  <1> DEFINE n == spare[fault] - 1
  <1>2. spare' = [spare EXCEPT ![fault] = n]
    BY DEF Spend
  <1> HIDE DEF n
  <1>3. CASE fault = "fail"
    BY <1>1, <1>2, <1>3 DEF Spares, n
  <1>4. CASE fault = "kill"
    BY <1>1, <1>2, <1>4 DEF Spares, n
  <1> QED BY <1>3, <1>4

\* The silent failure of a removal leaves its mark.
LEMMA KeptIs ==
  ASSUME spare \in Spares, DestroyFails
  PROVE  spare' \in Spares /\ spare'.kept = TRUE
  <1>1. spare.stuck \in Nat /\ spare.stuck - 1 \in Nat
    BY DEF Spares, DestroyFails
  <1> DEFINE n == spare.stuck - 1
  <1>2. spare' = [spare EXCEPT !.stuck = n, !.kept = TRUE]
    BY DEF DestroyFails
  <1> HIDE DEF n
  <1>3. n \in Nat
    BY <1>1 DEF n
  <1> QED BY <1>2, <1>3 DEF Spares

\* A step of an `up` that leaves the checkouts and the workers alone, and does
\* not lower the fence, needs only to be let on to its next stage.
LEMMA FenceStep ==
  ASSUME IInv, NEW r \in Runs, NEW to \in Stages, To(r, to), UNCHANGED <<site, disk, worker>>,
         net' \in Networks, net # "open" => net' # "open", net = "fenced" => net' = "fenced",
         relay' \in Relays, seen' \in [Runs -> Relays], remote' \in [Workers -> Runs \cup {None}],
         ShownOK', spare' \in Spares,
         Gates(r, to)', RelayInv'
  PROVE  IInv'
  <1> USE DEF IInv, disk, To
  <1>1. TypeOK'
    BY DEF TypeOK
  <1> /\ site' = site /\ recorded' = recorded /\ tree' = tree /\ stray' = stray
      /\ inputs' = inputs /\ worker' = worker
    OBVIOUS
  <1>2. /\ (Consented' <=> Consented) /\ (Imaged' <=> Imaged)
        /\ (Sighted' <=> Sighted) /\ (Manned' <=> Manned) /\ SiteInv'
    BY SiteKept
  <1>3. StageInv'
    <2> SUFFICES ASSUME NEW q \in Runs PROVE Gates(q, pc[q])'
      BY DEF StageInv
    <2>1. CASE q = r
      BY <2>1 DEF TypeOK
    <2>2. CASE q # r
      <3>1. Gates(q, pc[q])
        BY DEF StageInv
      <3>2. pc'[q] = pc[q] /\ Making(q)' = Making(q)
        BY <2>2 DEF TypeOK, Making
      <3> QED BY <1>2, <3>1, <3>2 DEF Gates
    <2> QED BY <2>1, <2>2
  <1>4. MakingInv'
    BY DEF MakingInv, Making
  <1>5. WorkerInv'
    BY <1>2 DEF WorkerInv, Backed
  <1> QED BY <1>1, <1>2, <1>3, <1>4, <1>5

\* One that leaves the fence alone too.
LEMMA MoveStep ==
  ASSUME IInv, NEW r \in Runs, NEW to \in Stages, To(r, to),
         UNCHANGED <<site, net, disk, worker>>,
         relay' \in Relays, seen' \in [Runs -> Relays], remote' \in [Workers -> Runs \cup {None}],
         ShownOK', spare' \in Spares,
         Gates(r, to), RelayInv'
  PROVE  IInv'
  <1> site' = site /\ net' = net /\ recorded' = recorded /\ tree' = tree /\ inputs' = inputs
      /\ worker' = worker /\ stray' = stray
    BY DEF disk
  <1>1. /\ (Consented' <=> Consented) /\ (Imaged' <=> Imaged) /\ (Sighted' <=> Sighted)
        /\ (Manned' <=> Manned)
    BY SiteKept
  <1>2. Making(r)' = Making(r)
    BY DEF Making
  <1>3. Gates(r, to)'
    BY <1>1, <1>2 DEF Gates
  <1> QED BY <1>3, FenceStep DEF IInv, TypeOK

\* A step that throws, where no checkout and no relay is half made.
LEMMA ThrowStep ==
  ASSUME IInv, NEW r \in Runs, NEW from \in Stages \ (Checkout \cup Ended \cup {"connect"}),
         Throws(r, from), UNCHANGED <<site, host, disk, worker, shown>>
  PROVE  IInv'
  <1> USE DEF IInv, host, disk, shown
  <1>1. pc[r] = from /\ To(r, "failed") /\ Spend("fail")
    BY DEF Throws, Goes
  <1>2. Gates(r, "failed")
    BY <1>1 DEF Gates, StageInv, Ended, Behind, Checkout, Cloned, Seated, Mounted, Launched,
                Consenting, Verifying
  <1>3. spare' \in Spares /\ spare'.kept = spare.kept /\ spare'.half = spare.half
    BY <1>1, SpendIs DEF TypeOK
  <1>4. RelayInv'
    BY <1>1, <1>3 DEF RelayInv, To, TypeOK, Ended, Whole
  <1>5. "failed" \in Stages
    BY DEF Stages, Ended
  <1> QED BY <1>1, <1>2, <1>3, <1>4, <1>5, MoveStep DEF TypeOK, ShownOK

\* A step that changes nothing but asks: its question is the gate of the next
\* stage.
LEMMA AskStep ==
  ASSUME IInv, NEW r \in Runs, NEW from \in Stages \ (Checkout \cup Ended \cup {"connect"}),
         NEW to \in Stages, NEW ok, Asks(r, from, ok, to),
         ok /\ Gates(r, from) => Gates(r, to)
  PROVE  IInv'
  <1>1. CASE Throws(r, from)
    BY <1>1, ThrowStep DEF Asks
  <1>2. CASE Goes(r, from, IF ok THEN to ELSE "failed") /\ UNCHANGED spare
    <2> USE DEF IInv, host, disk, shown
    <2> DEFINE next == IF ok THEN to ELSE "failed"
    <2>1. pc[r] = from /\ To(r, next) /\ UNCHANGED <<site, host, disk, worker, shown, spare>>
      BY <1>2 DEF Goes, Asks
    <2>2. Gates(r, from)
      BY <2>1 DEF StageInv
    <2>3. Gates(r, "failed")
      BY <2>2 DEF Gates, Ended, Behind, Checkout, Cloned, Seated, Mounted, Launched,
                  Consenting, Verifying
    <2>4. Gates(r, next)
      BY <2>2, <2>3
    <2>5. next \in Stages
      BY DEF Stages, Ended
    <2> HIDE DEF next
    <2>6. RelayInv'
      BY <2>1 DEF RelayInv, To, TypeOK, Ended, Whole
    <2> QED BY <2>1, <2>4, <2>5, <2>6, MoveStep DEF TypeOK, ShownOK
  <1> QED BY <1>1, <1>2 DEF Asks

\* The refusals: what each gate asks is what the stages behind it rest on.
LEMMA AskingSteps ==
  ASSUME IInv, NEW r \in Runs,
         \/ Open(r) \/ Configure(r) \/ Consent(r) \/ CheckImages(r) \/ ChooseBackend(r)
         \/ PlanBridges(r) \/ Probe(r) \/ Record(r) \/ ScanRepo(r) \/ CheckMounts(r)
         \/ StartDaemon(r) \/ OpenBackend(r)
  PROVE  IInv'
  <1> USE DEF Gates, Ended, Behind, Checkout, Cloned, Seated, Mounted, Launched, Consenting,
              Verifying, Stages
  <1>1. CASE Open(r)
    BY <1>1, AskStep DEF Open
  <1>2. CASE Configure(r)
    <2> DEFINE ok == IF site.config THEN site.modelsAllowed /\ site.secretsFound ELSE site.double
    <2>1. ok => Manned
      BY DEF Manned
    <2>2. Asks(r, "config", ok, "consent")
      BY <1>2 DEF Configure
    <2> HIDE DEF ok
    <2> QED BY <2>1, <2>2, AskStep
  <1>3. CASE Consent(r)
    <2>1. (site.config => ~ RepoRefused) => Consented
      BY DEF IInv, SiteInv, RepoRefused, Consented
    <2> QED BY <1>3, <2>1, AskStep DEF Consent
  <1>4. CASE CheckImages(r)
    <2>1. site.double \/ ImagesReady => Imaged
      BY DEF Imaged
    <2> QED BY <1>4, <2>1, AskStep DEF CheckImages
  <1>5. CASE ChooseBackend(r)
    BY <1>5, AskStep DEF ChooseBackend
  <1>6. CASE PlanBridges(r)
    <2> DEFINE to == IF site.config THEN "network" ELSE "record"
    <2>1. to \in Stages /\ (Gates(r, "bridges") => Gates(r, to))
      OBVIOUS
    <2>2. Asks(r, "bridges", site.config => site.bridged, to)
      BY <1>6 DEF PlanBridges
    <2> HIDE DEF to
    <2> QED BY <2>1, <2>2, AskStep
  <1>7. CASE Probe(r)
    BY <1>7, AskStep DEF Probe
  <1>8. CASE Record(r)
    BY <1>8, AskStep DEF Record
  <1>9. CASE ScanRepo(r)
    BY <1>9, AskStep DEF ScanRepo
  <1>10. CASE CheckMounts(r)
    <2>1. site.double \/ MountsVisible => Sighted
      BY DEF Sighted
    <2> QED BY <1>10, <2>1, AskStep DEF CheckMounts
  <1>11. CASE StartDaemon(r)
    BY <1>11, AskStep DEF StartDaemon
  <1>12. CASE OpenBackend(r)
    BY <1>12, AskStep DEF OpenBackend
  <1> QED BY <1>1, <1>2, <1>3, <1>4, <1>5, <1>6, <1>7, <1>8, <1>9, <1>10, <1>11, <1>12

\* The egress network is fenced before anything runs on it, and stays fenced.
LEMMA NetworkSteps ==
  ASSUME IInv, NEW r \in Runs, EnsureNetwork(r) \/ Contain(r)
  PROVE  IInv'
  <1> USE DEF IInv, host, disk, shown, Goes
  <1> /\ {"network", "contain", "relay", "failed"} \subseteq Stages
      /\ "network" \notin Checkout \cup Ended \cup {"connect"}
      /\ "contain" \notin Checkout \cup Ended \cup {"connect"}
    BY DEF Stages, Consenting, Verifying, Behind, Checkout, Ended
  <1>1. CASE EnsureNetwork(r)
    <2>1. CASE Throws(r, "network") /\ UNCHANGED <<site, host, disk, worker, shown>>
      BY <2>1, ThrowStep
    <2>2. CASE /\ Goes(r, "network", "failed") /\ net = "open"
               /\ UNCHANGED <<site, host, disk, worker, shown, spare>>
      <3>1. Gates(r, "failed")
        BY <2>2 DEF Gates, StageInv, Ended, Behind, Checkout, Cloned, Seated, Mounted, Launched,
                    Consenting, Verifying
      <3>2. RelayInv'
        BY <2>2 DEF RelayInv, To, TypeOK, Ended, Whole
      <3> QED BY <2>2, <3>1, <3>2, MoveStep DEF TypeOK, ShownOK
    <2>3. CASE /\ Goes(r, "network", "contain") /\ net # "open"
               /\ net' = IF net = "absent" THEN "internal" ELSE net
               /\ UNCHANGED <<site, relay, seen, remote, disk, worker, shown, spare>>
      <3>1. /\ net' \in Networks /\ net' # "open" /\ (net = "fenced" => net' = "fenced")
        BY <2>3 DEF TypeOK, Networks
      <3>2. (Consented' <=> Consented) /\ (Imaged' <=> Imaged) /\ (Manned' <=> Manned)
        BY <2>3, SiteKept
      <3>3. Gates(r, "network") /\ Making(r)' = Making(r)
        BY <2>3 DEF StageInv, Making
      <3>4. Gates(r, "contain")'
        BY <2>3, <3>1, <3>2, <3>3
        DEF Gates, Ended, Behind, Checkout, Cloned, Seated, Mounted, Launched, Consenting, Verifying
      <3>5. RelayInv'
        BY <2>3 DEF RelayInv, To, TypeOK, Ended, Whole
      <3> QED BY <2>3, <3>1, <3>4, <3>5, FenceStep DEF TypeOK, ShownOK
    <2> QED BY <1>1, <2>1, <2>2, <2>3 DEF EnsureNetwork
  <1>2. CASE Contain(r)
    <2>1. CASE Throws(r, "contain") /\ UNCHANGED <<site, host, disk, worker, shown>>
      BY <2>1, ThrowStep
    <2> DEFINE to == IF site.defined = {} THEN "probe" ELSE "relay"
    <2>2. CASE /\ Goes(r, "contain", to)
               /\ net' = IF net = "open" THEN net ELSE "fenced"
               /\ UNCHANGED <<site, relay, seen, remote, disk, worker, shown, spare>>
      <3>1. Gates(r, "contain") /\ Making(r)' = Making(r)
        BY <2>2 DEF StageInv, Making
      <3>2. net' = "fenced" /\ net' \in Networks
        BY <2>2, <3>1 DEF Gates, Networks
      <3>3. (Consented' <=> Consented) /\ (Imaged' <=> Imaged) /\ (Manned' <=> Manned)
        BY <2>2, SiteKept
      <3>4. Gates(r, to)' /\ to \in Stages
        BY <2>2, <3>1, <3>2, <3>3
        DEF Gates, Ended, Behind, Checkout, Cloned, Seated, Mounted, Launched, Consenting,
            Verifying, Stages
      <3>5. RelayInv'
        BY <2>2 DEF RelayInv, To, TypeOK, Ended, Whole
      <3> QED BY <2>2, <3>2, <3>4, <3>5, FenceStep DEF TypeOK, ShownOK
    <2> QED BY <1>2, <2>1, <2>2 DEF Contain
  <1> QED BY <1>1, <1>2

\* The stages of the relay are behind one and the same gates.
Relaying == {"relay", "remove", "run", "connect", "verify"}
LEMMA RelayGates ==
  ASSUME IInv, NEW r \in Runs, pc[r] \in Relaying, NEW to \in Relaying \cup {"probe", "failed"}
  PROVE  to \in Stages /\ Gates(r, to)
  <1>1. Gates(r, pc[r])
    BY DEF IInv, StageInv
  <1>2. to \in Stages
    BY DEF Stages, Consenting, Verifying, Behind, Ended, Relaying
  <1> QED BY <1>1, <1>2 DEF Gates, Relaying, Ended, Behind, Checkout, Cloned, Seated, Mounted,
                            Launched, Consenting, Verifying

\* A relay is made without its aliases only by the run that is about to connect
\* it, and goes when that fails (ensureEgressRelay).
LEMMA RelaySteps ==
  ASSUME IInv, NEW r \in Runs,
         \/ InspectRelay(r) \/ RemoveRelay(r) \/ RunRelay(r) \/ ConnectRelay(r) \/ VerifyRelay(r)
  PROVE  IInv'
  <1> USE DEF IInv, host, disk, shown
  <1>1. ASSUME NEW from \in Relaying, NEW to \in Relaying \cup {"probe", "failed"},
               pc[r] = from, To(r, to), UNCHANGED <<site, net, remote, disk, worker, shown>>,
               relay' \in Relays, seen' \in [Runs -> Relays], spare' \in Spares, RelayInv'
        PROVE  IInv'
    <2>1. to \in Stages /\ Gates(r, to)
      BY <1>1, RelayGates
    <2> QED BY <1>1, <2>1, MoveStep DEF TypeOK, ShownOK
  <1>2. ASSUME NEW from \in Relaying \ {"connect"}, Throws(r, from),
               UNCHANGED <<site, host, disk, worker, shown>>
        PROVE  IInv'
    <2>1. from \in Stages \ (Checkout \cup Ended \cup {"connect"})
      BY DEF Stages, Consenting, Verifying, Behind, Checkout, Ended, Relaying
    <2> QED BY <1>2, <2>1, ThrowStep
  <1>3. NoRelay \in Relays /\ Whole(NoRelay) /\ NewRelay(r) \in Relays
    BY DEF NoRelay, NewRelay, Relays, Whole
  <1>4. ASSUME NEW to, To(r, to), pc[r] \notin {"connect", "killed"},
               relay' \in {relay, NoRelay}, spare' = spare
        PROVE  RelayInv'
    BY <1>3, <1>4 DEF RelayInv, To, TypeOK, Whole
  <1>5. CASE InspectRelay(r)
    <2> DEFINE to == IF relay # NoRelay /\ relay.running /\ ~ Drifted(r, relay)
                     THEN "probe" ELSE "remove"
    <2>1. to \in Relaying \cup {"probe", "failed"}
      BY DEF Relaying
    <2>2. pc[r] = "relay" /\ To(r, to)
      BY <1>5 DEF InspectRelay, Goes
    <2> HIDE DEF to
    <2>3. RelayInv'
      BY <1>5, <1>4, <2>2 DEF InspectRelay
    <2>4. seen' \in [Runs -> Relays]
      BY <1>5 DEF InspectRelay, TypeOK
    <2> QED BY <1>5, <1>1, <2>1, <2>2, <2>3, <2>4 DEF InspectRelay, Relaying, TypeOK
  <1>6. CASE RemoveRelay(r)
    <2>1. CASE Throws(r, "remove") /\ UNCHANGED <<site, host, disk, worker, shown>>
      BY <1>2, <2>1 DEF Relaying
    <2>2. CASE /\ Goes(r, "remove", "run")
               /\ relay' = IF seen[r] = NoRelay THEN relay ELSE NoRelay
               /\ UNCHANGED <<net, seen, remote, disk, worker, site, shown, spare>>
      <3>1. RelayInv'
        BY <1>4, <2>2 DEF Goes
      <3> QED BY <1>1, <1>3, <2>2, <3>1 DEF Goes, Relaying, TypeOK
    <2> QED BY <1>6, <2>1, <2>2 DEF RemoveRelay
  <1>7. CASE RunRelay(r)
    <2>1. CASE Throws(r, "run") /\ UNCHANGED <<site, host, disk, worker, shown>>
      BY <1>2, <2>1 DEF Relaying
    <2>2. CASE /\ Goes(r, "run", "failed") /\ relay # NoRelay
               /\ UNCHANGED <<site, host, disk, worker, shown, spare>>
      <3>1. RelayInv'
        BY <1>4, <2>2 DEF Goes
      <3> QED BY <1>1, <2>2, <3>1 DEF Goes, Relaying, TypeOK
    <2>3. CASE /\ Goes(r, "run", "connect") /\ relay = NoRelay /\ relay' = NewRelay(r)
               /\ UNCHANGED <<net, seen, remote, disk, worker, site, shown, spare>>
      <3>1. RelayInv'
        BY <2>3 DEF RelayInv, Goes, To, TypeOK
      <3> QED BY <1>1, <1>3, <2>3, <3>1 DEF Goes, Relaying, TypeOK
    <2>4. ASSUME NEW running \in BOOLEAN, Goes(r, "run", "failed"), spare.fail > 0,
                 relay' = [NewRelay(r) EXCEPT !.running = running],
                 spare' = [spare EXCEPT !.fail = @ - 1, !.half = @ \/ running],
                 UNCHANGED <<net, seen, remote, disk, worker, site, shown>>
          PROVE  IInv'
      <3>1. relay' \in Relays /\ relay'.running = running
        BY <1>3, <2>4 DEF Relays
      <3> DEFINE n == spare.fail - 1
                 h == spare.half \/ running
      <3>2. n \in Nat /\ h \in BOOLEAN /\ spare' = [spare EXCEPT !.fail = n, !.half = h]
        BY <2>4 DEF TypeOK, Spares
      <3> HIDE DEF n, h
      <3>3. spare' \in Spares /\ spare'.half = h
        BY <3>2 DEF TypeOK, Spares
      <3>4. RelayInv'
        BY <3>1, <3>3 DEF RelayInv, Whole, h
      <3> QED BY <1>1, <2>4, <3>1, <3>3, <3>4 DEF Goes, Relaying, TypeOK
    <2> QED BY <1>7, <2>1, <2>2, <2>3, <2>4 DEF RunRelay
  <1>8. ASSUME To(r, "failed"), DestroyFails \/ Destroyed
        PROVE  relay' \in Relays /\ spare' \in Spares /\ RelayInv'
    <2>1. CASE DestroyFails
      BY <2>1, KeptIs DEF RelayInv, DestroyFails, TypeOK
    <2>2. CASE Destroyed
      BY <1>3, <2>2 DEF RelayInv, Destroyed, TypeOK
    <2> QED BY <1>8, <2>1, <2>2
  <1>9. CASE ConnectRelay(r)
    <2> "connect" \in Relaying /\ pc[r] = "connect"
        /\ UNCHANGED <<site, net, seen, remote, disk, worker, shown>>
        /\ {"failed", "verify"} \subseteq Relaying \cup {"probe", "failed"}
      BY <1>9 DEF ConnectRelay, Relaying
    <2>1. CASE relay' = [relay EXCEPT !.attached = TRUE] /\ To(r, "verify") /\ UNCHANGED spare
      <3>1. relay' \in Relays /\ Whole(relay)'
        BY <2>1 DEF TypeOK, Relays, Whole
      <3>2. RelayInv'
        BY <3>1 DEF RelayInv
      <3> QED BY <1>1, <2>1, <3>1, <3>2 DEF TypeOK
    <2>2. CASE Throws(r, "connect") /\ relay' = NoRelay
      <3>1. To(r, "failed") /\ spare' \in Spares
        BY <2>2, SpendIs DEF Throws, Goes, TypeOK
      <3>2. RelayInv'
        BY <1>3, <2>2 DEF RelayInv
      <3> QED BY <1>1, <1>3, <2>2, <3>1, <3>2 DEF TypeOK
    <2>3. CASE To(r, "failed") /\ (Destroyed \/ DestroyFails)
      BY <1>1, <1>8, <2>3 DEF TypeOK
    <2> QED BY <1>9, <2>1, <2>2, <2>3 DEF ConnectRelay
  <1>10. CASE VerifyRelay(r)
    <2>1. CASE To(r, "failed") /\ (Destroyed \/ DestroyFails)
      BY <1>1, <1>8, <1>10, <2>1 DEF TypeOK, VerifyRelay, Relaying
    <2>2. CASE To(r, "probe") /\ UNCHANGED <<relay, spare>>
      <3>1. RelayInv'
        BY <1>4, <1>10, <2>2 DEF VerifyRelay
      <3> QED BY <1>1, <1>10, <2>2, <3>1 DEF TypeOK, VerifyRelay, Relaying
    <2> QED BY <1>10, <2>1, <2>2 DEF VerifyRelay
  <1> QED BY <1>5, <1>6, <1>7, <1>9, <1>10

-----------------------------------------------------------------------------
(* Steps outside of the stages.                                            *)

\* What leaves every run where it is, the checkouts and the workers too: the end
\* of the relay's own process, and a stutter.
LEMMA StillStep ==
  ASSUME IInv, RelayExits \/ UNCHANGED vars
  PROVE  IInv'
  <1> USE DEF IInv, host, disk, shown, vars
  <1> /\ site' = site /\ pc' = pc /\ net' = net /\ seen' = seen /\ remote' = remote
      /\ tree' = tree /\ stray' = stray /\ recorded' = recorded /\ inputs' = inputs
      /\ worker' = worker
      /\ pane' = pane /\ terminal' = terminal
    BY DEF RelayExits
  <1>1. relay' \in Relays /\ (Whole(relay) => Whole(relay)')
    BY DEF RelayExits, TypeOK, Relays, Whole
  <1>2. spare' \in Spares /\ spare'.kept = spare.kept /\ spare'.half = spare.half
    BY SpendIs DEF RelayExits, TypeOK
  <1>3. /\ (Consented' <=> Consented) /\ (Imaged' <=> Imaged) /\ (Sighted' <=> Sighted)
        /\ (Manned' <=> Manned) /\ SiteInv'
    BY SiteKept
  <1>4. TypeOK'
    BY <1>1, <1>2 DEF TypeOK, ShownOK
  <1>5. StageInv'
    <2> SUFFICES ASSUME NEW r \in Runs PROVE Gates(r, pc[r])'
      BY DEF StageInv
    <2>1. Gates(r, pc[r]) /\ Making(r)' = Making(r)
      BY DEF StageInv, Making
    <2> QED BY <1>3, <2>1 DEF Gates
  <1>6. MakingInv'
    BY DEF MakingInv, Making
  <1>7. WorkerInv'
    BY <1>3 DEF WorkerInv, Backed
  <1>8. RelayInv'
    BY <1>1, <1>2 DEF RelayInv
  <1> QED BY <1>3, <1>4, <1>5, <1>6, <1>7, <1>8

\* A command killed anywhere leaves what it has, and is over.
LEMMA KillStep ==
  ASSUME IInv, NEW r \in Runs, Killed(r)
  PROVE  IInv'
  <1> USE DEF IInv, host, disk, shown
  <1>1. To(r, "killed") /\ UNCHANGED <<site, host, disk, worker, shown>> /\ "killed" \in Stages
    BY DEF Killed, Stages, Ended
  <1>2. spare' \in Spares /\ spare'.kept = spare.kept /\ spare'.half = spare.half
    BY SpendIs DEF Killed, TypeOK
  <1>3. Gates(r, "killed")
    BY DEF StageInv, Gates, Ended, Behind, Checkout, Cloned, Seated, Mounted, Launched,
           Consenting, Verifying
  <1>4. RelayInv'
    BY <1>1, <1>2 DEF RelayInv, To, TypeOK, Whole
  <1> QED BY <1>1, <1>2, <1>3, <1>4, MoveStep DEF TypeOK, ShownOK

-----------------------------------------------------------------------------
(* The checkouts.                                                          *)

\* While a run makes its checkouts it has no worker, so a step of it needs only
\* to leave the other runs' alone.
LEMMA CheckoutStep ==
  ASSUME IInv, NEW r \in Runs, pc[r] \in Checkout \cup {"clone"},
         NEW to \in Stages, To(r, to), UNCHANGED <<site, net, relay, seen, inputs, worker, shown>>,
         remote' \in [Workers -> Runs \cup {None}],
         spare' \in Spares, spare'.kept = spare.kept /\ spare'.half = spare.half,
         tree' \in [Runs -> [Workers -> {"absent", "cloned", "ready"}]],
         stray' \in SUBSET (Runs \X Workers), stray \subseteq stray',
         recorded' \in [Runs -> SUBSET Workers],
         \A q \in Runs \ {r} : tree'[q] = tree[q] /\ recorded'[q] = recorded[q],
         Gates(r, to)', \A v, w \in Making(r)' : v = w
  PROVE  IInv'
  <1> USE DEF IInv, To
  <1> site' = site /\ net' = net /\ relay' = relay /\ inputs' = inputs /\ worker' = worker
    OBVIOUS
  <1>1. /\ (Consented' <=> Consented) /\ (Imaged' <=> Imaged) /\ (Sighted' <=> Sighted)
        /\ (Manned' <=> Manned) /\ SiteInv'
    BY SiteKept
  <1>2. TypeOK'
    BY DEF TypeOK, ShownOK, shown
  <1>3. \A q \in Runs \ {r} : pc'[q] = pc[q] /\ Making(q)' = Making(q)
    BY DEF TypeOK, Making
  <1>4. StageInv'
    <2> SUFFICES ASSUME NEW q \in Runs PROVE Gates(q, pc[q])'
      BY DEF StageInv
    <2>1. CASE q = r
      BY <2>1 DEF TypeOK
    <2>2. CASE q # r
      <3>1. Gates(q, pc[q])
        BY DEF StageInv
      <3> QED BY <1>1, <1>3, <2>2, <3>1 DEF Gates
    <2> QED BY <2>1, <2>2
  <1>5. MakingInv'
    BY <1>3 DEF MakingInv
  <1>6. \A w \in Workers : worker[r][w] = "none"
    BY DEF StageInv, Gates, Checkout, Ended, Launched
  <1>7. WorkerInv'
    BY <1>1, <1>6 DEF WorkerInv, Backed
  <1>8. RelayInv'
    BY DEF RelayInv, Whole, Checkout, TypeOK
  <1> QED BY <1>1, <1>2, <1>4, <1>5, <1>7, <1>8

\* A checkout that failed is taken back, or stays as one that could not be, and it
\* was the only one half made (the catch of createWorkerWorktrees).
LEMMA RollBackStep ==
  ASSUME IInv, NEW r \in Runs, pc[r] \in Checkout, NEW w \in Making(r),
         To(r, "failed"), RollBack(r, w),
         recorded' \in {recorded, [recorded EXCEPT ![r] = @ \cup {w}]},
         spare' \in Spares, spare'.kept = spare.kept /\ spare'.half = spare.half,
         UNCHANGED <<site, net, relay, seen, inputs, worker, shown>>
  PROVE  IInv'
  <1> USE DEF IInv
  <1>1. w \in Workers
    BY DEF Making
  <1>2. remote' \in [Workers -> Runs \cup {None}]
    BY DEF RollBack, TypeOK
  <1>3. /\ tree' \in [Runs -> [Workers -> {"absent", "cloned", "ready"}]]
        /\ \A q \in Runs \ {r} : tree'[q] = tree[q]
        /\ stray' \in SUBSET (Runs \X Workers) /\ stray \subseteq stray'
        /\ \A v \in Workers \ {w} : tree'[r][v] = tree[r][v]
        /\ tree'[r][w] # "absent" => <<r, w>> \in stray'
    <2>1. CASE tree' = [tree EXCEPT ![r][w] = "absent"] /\ UNCHANGED stray
      BY <1>1, <2>1 DEF TypeOK
    <2>2. CASE UNCHANGED tree /\ stray' = stray \cup {<<r, w>>}
      <3>1. <<r, w>> \in Runs \X Workers
        BY <1>1
      <3> QED BY <2>2, <3>1 DEF TypeOK
    <2> QED BY <2>1, <2>2 DEF RollBack
  <1>4. /\ recorded' \in [Runs -> SUBSET Workers]
        /\ \A q \in Runs \ {r} : recorded'[q] = recorded[q]
        /\ recorded[r] \subseteq recorded'[r] /\ recorded'[r] \subseteq recorded[r] \cup {w}
    BY <1>1 DEF TypeOK
  <1>5. \A v \in Making(r)' : v = w /\ <<r, v>> \in stray'
    <2>1. \A v \in Making(r)' : v \in Making(r)
      BY <1>3, <1>4 DEF Making
    <2>2. \A v \in Making(r)' : v = w
      BY <2>1 DEF MakingInv
    <2> QED BY <1>3, <2>2 DEF Making
  <1>6. Gates(r, "failed")'
    <2>1. Gates(r, pc[r])
      BY DEF StageInv
    <2>2. recorded'[r] \cup Making(r)' \subseteq site.isolated
      BY <1>4, <1>5, <2>1 DEF Gates, TypeOK
    <2> QED BY <1>5, <2>2 DEF Gates, Ended, Behind, Checkout, Cloned, Seated, Mounted, Launched,
                              Consenting, Verifying
  <1>7. "failed" \in Stages /\ \A u, v \in Making(r)' : u = v
    BY <1>5 DEF Stages, Ended
  <1> QED BY <1>2, <1>3, <1>4, <1>6, <1>7, CheckoutStep

\* Until it is on record a checkout is the only one of its run, and what is on
\* record is ready.
LEMMA CheckoutSteps ==
  ASSUME IInv, NEW r \in Runs, Clone(r) \/ DropRemote(r) \/ AddRemote(r) \/ Baseline(r)
  PROVE  IInv'
  <1> USE DEF IInv, disk, host, shown, Goes
  <1> /\ {"clone", "remote", "add", "baseline", "inputs", "failed"} \subseteq Stages
      /\ "clone" \notin Checkout \cup Ended \cup {"connect"}
    BY DEF Stages, Consenting, Verifying, Behind, Checkout, Cloned, Ended
  <1>1. Gates(r, pc[r])
    BY DEF StageInv
  <1>2. Making(r) \subseteq Workers
    BY DEF Making
  <1>3. ASSUME NEW to \in {"failed", "inputs", "daemon"}, pc[r] = "clone", To(r, to),
               to # "failed" => Left(r) = {} /\ (site.config <=> to = "inputs"),
               UNCHANGED <<site, host, disk, worker, shown, spare>>
        PROVE  IInv'
    <2>1. Making(r) = {} /\ (to # "failed" => recorded[r] = site.isolated)
      <3>1. Making(r) = {} /\ recorded[r] \subseteq site.isolated
        BY <1>1, <1>3 DEF Gates, Checkout, Ended
      <3> QED BY <1>3, <3>1 DEF Left, Making, SiteInv
    <2>2. ~ site.config => Manned /\ (Manned => Sighted)
      BY <1>1, <1>3 DEF Gates, Ended, Manned, Sighted
    <2>3. Gates(r, to) /\ to \in Stages
      BY <1>1, <1>3, <2>1, <2>2 DEF Stages, Gates, Ended, Behind, Checkout, Cloned, Seated,
                              Mounted, Launched,
                              Consenting, Verifying
    <2>4. RelayInv'
      BY <1>3 DEF RelayInv, To, TypeOK, Whole
    <2> QED BY <1>3, <2>3, <2>4, MoveStep DEF TypeOK, ShownOK
  <1>4. CASE Clone(r)
    <2>1. CASE Throws(r, "clone") /\ UNCHANGED <<site, host, disk, worker, shown>>
      BY <2>1, ThrowStep
    <2>2. CASE \/ /\ Goes(r, "clone", "failed")
                  /\ UNCHANGED <<site, host, disk, worker, shown, spare>>
               \/ /\ Goes(r, "clone", IF site.config THEN "inputs" ELSE "daemon") /\ Left(r) = {}
                  /\ UNCHANGED <<site, host, disk, worker, shown, spare>>
      BY <1>3, <2>2
    <2>3. ASSUME NEW w \in First(Left(r)), Goes(r, "clone", "remote"),
                 tree' = [tree EXCEPT ![r][w] = "cloned"],
                 UNCHANGED <<site, host, stray, recorded, inputs, worker, shown, spare>>
          PROVE  IInv'
      <3>1. /\ w \in Workers /\ w \in site.isolated /\ w \notin recorded[r]
            /\ pc[r] = "clone" /\ To(r, "remote")
        BY <2>3 DEF First, Left, SiteInv
      <3>2. /\ tree' \in [Runs -> [Workers -> {"absent", "cloned", "ready"}]]
            /\ \A q \in Runs \ {r} : tree'[q] = tree[q]
            /\ tree'[r] = [tree[r] EXCEPT ![w] = "cloned"]
        BY <2>3, <3>1 DEF TypeOK
      <3>3. Making(r) = {}
        BY <1>1, <3>1 DEF Gates, Checkout, Ended
      <3>4. \A v \in Making(r)' : v = w
        BY <2>3, <3>2, <3>3 DEF Making, TypeOK
      <3>5. \A v \in recorded[r] : tree'[r][v] = tree[r][v]
        BY <3>1, <3>2 DEF TypeOK
      <3>6. (Consented' <=> Consented) /\ (Imaged' <=> Imaged) /\ (Manned' <=> Manned)
        BY <2>3, SiteKept
      <3>7. Gates(r, "remote")'
        BY <1>1, <2>3, <3>1, <3>4, <3>5, <3>6
        DEF Gates, Ended, Behind, Checkout, Cloned, Seated, Mounted, Launched, Consenting, Verifying
      <3> QED BY <2>3, <3>1, <3>2, <3>4, <3>7, CheckoutStep DEF TypeOK
    <2> QED BY <1>4, <2>1, <2>2, <2>3 DEF Clone
  <1>5. ASSUME NEW from \in Checkout, NEW to \in {"add", "baseline"}, NEW w \in Making(r),
               pc[r] = from, To(r, to), remote' \in [Workers -> Runs \cup {None}],
               UNCHANGED <<site, net, relay, seen, tree, stray, recorded, inputs>>,
               UNCHANGED <<worker, shown, spare>>
        PROVE  IInv'
    <2>1. Gates(r, to)
      BY <1>1, <1>5 DEF Gates, Ended, Behind, Checkout, Cloned, Seated, Mounted, Launched,
                        Consenting, Verifying
    <2>2. RelayInv'
      BY <1>5 DEF RelayInv, To, TypeOK, Whole, Checkout
    <2> QED BY <1>5, <2>1, <2>2, MoveStep DEF TypeOK, ShownOK
  <1>6. ASSUME NEW from \in Checkout, NEW w \in Making(r), Throws(r, from), RollBack(r, w),
               recorded' \in {recorded, [recorded EXCEPT ![r] = @ \cup {w}]},
               UNCHANGED <<site, net, relay, seen, inputs, worker, shown>>
        PROVE  IInv'
    <2>1. /\ To(r, "failed") /\ pc[r] = from
          /\ spare' \in Spares /\ spare'.kept = spare.kept /\ spare'.half = spare.half
      BY <1>6, SpendIs DEF Throws, TypeOK
    <2> QED BY <1>6, <2>1, RollBackStep
  <1> {"remote", "add", "baseline"} \subseteq Checkout
    BY DEF Checkout
  <1>7. CASE DropRemote(r)
    <2>1. PICK w \in Making(r) :
            /\ \/ /\ Goes(r, "remote", "add") /\ remote' = [remote EXCEPT ![w] = None]
                  /\ UNCHANGED <<tree, stray, spare>>
               \/ Throws(r, "remote") /\ RollBack(r, w)
            /\ UNCHANGED <<site, net, relay, seen, recorded, inputs, worker, shown>>
      BY <1>7 DEF DropRemote
    <2>2. CASE Throws(r, "remote") /\ RollBack(r, w)
      BY <1>6, <2>1, <2>2
    <2>3. CASE /\ Goes(r, "remote", "add") /\ remote' = [remote EXCEPT ![w] = None]
               /\ UNCHANGED <<tree, stray, spare>>
      <3>1. remote' \in [Workers -> Runs \cup {None}]
        BY <2>3 DEF TypeOK
      <3> QED BY <1>5, <2>1, <2>3, <3>1
    <2> QED BY <2>1, <2>2, <2>3
  <1>8. CASE AddRemote(r)
    <2>1. PICK w \in Making(r) :
            /\ \/ /\ Goes(r, "add", "baseline") /\ remote[w] = None
                  /\ remote' = [remote EXCEPT ![w] = r] /\ UNCHANGED <<tree, stray, spare>>
               \/ /\ Goes(r, "add", "failed") /\ remote[w] # None
                  /\ RollBack(r, w) /\ UNCHANGED spare
               \/ Throws(r, "add") /\ RollBack(r, w)
            /\ UNCHANGED <<site, net, relay, seen, recorded, inputs, worker, shown>>
      BY <1>8 DEF AddRemote
    <2>2. CASE Throws(r, "add") /\ RollBack(r, w)
      BY <1>6, <2>1, <2>2
    <2>3. CASE Goes(r, "add", "failed") /\ RollBack(r, w) /\ UNCHANGED spare
      BY <2>1, <2>3, RollBackStep DEF TypeOK
    <2>4. CASE /\ Goes(r, "add", "baseline") /\ remote' = [remote EXCEPT ![w] = r]
               /\ UNCHANGED <<tree, stray, spare>>
      <3>1. remote' \in [Workers -> Runs \cup {None}]
        BY <2>4 DEF TypeOK
      <3> QED BY <1>5, <2>1, <2>4, <3>1
    <2> QED BY <2>1, <2>2, <2>3, <2>4
  <1>9. CASE Baseline(r)
    <2>1. PICK w \in Making(r) :
            /\ \/ /\ Goes(r, "baseline", "clone")
                  /\ tree' = [tree EXCEPT ![r][w] = "ready"]
                  /\ recorded' = [recorded EXCEPT ![r] = @ \cup {w}]
                  /\ UNCHANGED <<remote, stray, spare>>
               \/ Throws(r, "baseline") /\ RollBack(r, w) /\ UNCHANGED recorded
               \/ /\ Throws(r, "baseline") /\ RollBack(r, w)
                  /\ recorded' = [recorded EXCEPT ![r] = @ \cup {w}]
            /\ UNCHANGED <<site, net, relay, seen, inputs, worker, shown>>
      BY <1>9 DEF Baseline
    <2>2. CASE /\ Throws(r, "baseline") /\ RollBack(r, w)
               /\ recorded' \in {recorded, [recorded EXCEPT ![r] = @ \cup {w}]}
      BY <1>6, <2>1, <2>2
    <2>3. CASE /\ Goes(r, "baseline", "clone")
               /\ tree' = [tree EXCEPT ![r][w] = "ready"]
               /\ recorded' = [recorded EXCEPT ![r] = @ \cup {w}]
               /\ UNCHANGED <<remote, stray, spare>>
      <3>1. w \in Workers /\ pc[r] = "baseline" /\ To(r, "clone")
        BY <1>2, <2>3
      <3>2. /\ tree' \in [Runs -> [Workers -> {"absent", "cloned", "ready"}]]
            /\ \A q \in Runs \ {r} : tree'[q] = tree[q]
            /\ tree'[r] = [tree[r] EXCEPT ![w] = "ready"]
        BY <2>3, <3>1 DEF TypeOK
      <3>3. /\ recorded' \in [Runs -> SUBSET Workers]
            /\ \A q \in Runs \ {r} : recorded'[q] = recorded[q]
            /\ recorded'[r] = recorded[r] \cup {w}
        BY <2>3, <3>1 DEF TypeOK
      <3>4. \A v \in recorded[r] : tree[r][v] = "ready"
        BY <1>1, <3>1 DEF Gates, Ended
      <3>5. \A v \in recorded'[r] : tree'[r][v] = "ready"
        BY <3>1, <3>2, <3>3, <3>4 DEF TypeOK
      <3>13. w \in site.isolated /\ recorded[r] \subseteq site.isolated
        BY <1>1, <2>3 DEF Gates
      <3>6. Making(r)' = {}
        <4>1. \A v \in Making(r) : v = w
          BY DEF MakingInv
        <4>2. \A v \in Workers : v # w => tree'[r][v] = tree[r][v]
          BY <3>1, <3>2 DEF TypeOK
        <4> QED BY <3>3, <4>1, <4>2 DEF Making
      <3>7. (Consented' <=> Consented) /\ (Imaged' <=> Imaged) /\ (Manned' <=> Manned)
        BY <2>1, SiteKept
      <3>8. net' = net /\ inputs' = inputs /\ worker' = worker
        BY <2>1
      <3>9. /\ site.config => net = "fenced"
            /\ Manned /\ Consented /\ Imaged
            /\ \A v \in Workers : worker[r][v] = "none"
        BY <1>1, <3>1 DEF Gates, Ended, Behind, Checkout, Launched, Consenting, Verifying
      <3>10. Gates(r, "clone")'
        BY <2>1, <3>3, <3>5, <3>6, <3>7, <3>8, <3>9, <3>13
        DEF Gates, Ended, Checkout, Cloned, Seated, Mounted, Launched
      <3>11. /\ UNCHANGED <<site, net, relay, seen, inputs, worker, shown>>
             /\ remote' \in [Workers -> Runs \cup {None}]
             /\ spare' \in Spares /\ spare'.kept = spare.kept /\ spare'.half = spare.half
             /\ stray' \in SUBSET (Runs \X Workers) /\ stray \subseteq stray'
        BY <2>1, <2>3 DEF TypeOK
      <3>12. pc[r] \in Checkout \cup {"clone"} /\ (\A u, v \in Making(r)' : u = v)
        BY <3>1, <3>6
      <3> QED BY <3>1, <3>2, <3>3, <3>10, <3>11, <3>12, CheckoutStep
    <2> QED BY <2>1, <2>2, <2>3
  <1> QED BY <1>4, <1>7, <1>8, <1>9

\* The inputs are written before anything is mounted, and only added to.
LEMMA InputsSteps ==
  ASSUME IInv, NEW r \in Runs, Materialize(r)
  PROVE  IInv'
  <1> USE DEF IInv, disk, host, shown, Goes
  <1> /\ {"inputs", "mounts"} \subseteq Stages
      /\ "inputs" \notin Checkout \cup Ended \cup {"connect"}
    BY DEF Stages, Consenting, Verifying, Behind, Checkout, Cloned, Seated, Ended
  <1>1. CASE Throws(r, "inputs") /\ UNCHANGED <<site, host, disk, worker, shown>>
    BY <1>1, ThrowStep
  <1>2. CASE /\ Goes(r, "inputs", "mounts") /\ inputs[r] = site.defined
             /\ UNCHANGED <<site, host, disk, worker, shown, spare>>
    <2>1. Gates(r, "mounts")
      BY <1>2 DEF StageInv, Gates, Ended, Behind, Checkout, Cloned, Seated, Mounted, Launched,
                  Consenting, Verifying
    <2>2. RelayInv'
      BY <1>2 DEF RelayInv, To, TypeOK, Whole
    <2> QED BY <1>2, <2>1, <2>2, MoveStep DEF TypeOK, ShownOK
  <1>3. ASSUME NEW w \in First(site.defined \ inputs[r]), pc[r] = "inputs",
               inputs' = [inputs EXCEPT ![r] = @ \cup {w}],
               UNCHANGED <<site, pc, host, tree, stray, recorded, worker, shown, spare>>
        PROVE  IInv'
    <2> /\ site' = site /\ pc' = pc /\ net' = net /\ relay' = relay /\ seen' = seen
        /\ remote' = remote /\ tree' = tree /\ stray' = stray /\ recorded' = recorded
        /\ worker' = worker
        /\ pane' = pane /\ terminal' = terminal /\ spare' = spare
      BY <1>3
    <2>1. w \in Workers /\ w \in site.defined
      BY <1>3 DEF First, SiteInv
    <2>2. /\ inputs' \in [Runs -> SUBSET Workers]
          /\ \A q \in Runs : inputs[q] = site.defined => inputs'[q] = site.defined
      BY <1>3, <2>1 DEF TypeOK
    <2>3. /\ (Consented' <=> Consented) /\ (Imaged' <=> Imaged) /\ (Sighted' <=> Sighted)
          /\ (Manned' <=> Manned) /\ SiteInv'
      BY SiteKept
    <2>4. TypeOK'
      BY <2>2 DEF TypeOK, ShownOK
    <2>5. StageInv'
      <3> SUFFICES ASSUME NEW q \in Runs PROVE Gates(q, pc[q])'
        BY DEF StageInv
      <3>1. Gates(q, pc[q]) /\ Making(q)' = Making(q)
        BY DEF StageInv, Making
      <3> QED BY <2>2, <2>3, <3>1 DEF Gates
    <2>6. MakingInv'
      BY DEF MakingInv, Making
    <2>7. WorkerInv'
      BY <2>2, <2>3 DEF WorkerInv, Backed
    <2>8. RelayInv'
      BY DEF RelayInv, Whole
    <2> QED BY <2>3, <2>4, <2>5, <2>6, <2>7, <2>8
  <1> QED BY <1>1, <1>2, <1>3 DEF Materialize

-----------------------------------------------------------------------------
(* The workers.                                                            *)

\* A pane, a view and a terminal are shown, and start nothing.
LEMMA ShownSteps ==
  ASSUME IInv, NEW r \in Runs,
         PresentWorker(r) \/ ViewWorker(r) \/ AwaitIdle(r) \/ AttachHere(r) \/ Detach(r)
  PROVE  IInv'
  <1> USE DEF IInv, disk, host, shown, Goes
  <1>1. ASSUME NEW to \in Launched \cup {"done", "failed", "attached", "detached"},
               pc[r] \in Launched \cup {"done", "attached"}, To(r, to),
               to \in Launched => pc[r] \in Launched,
               UNCHANGED <<site, host, disk, worker>>, ShownOK',
               spare' \in Spares, spare'.kept = spare.kept /\ spare'.half = spare.half
        PROVE  IInv'
    <2>1. Gates(r, pc[r])
      BY DEF StageInv
    <2>2. to \in Stages /\ Gates(r, to)
      BY <1>1, <2>1 DEF Gates, Ended, Behind, Checkout, Cloned, Seated, Mounted, Launched,
                        Consenting, Verifying, Stages
    <2>3. RelayInv'
      BY <1>1 DEF RelayInv, To, TypeOK, Whole, Launched
    <2> QED BY <1>1, <2>2, <2>3, MoveStep DEF TypeOK
  <1>2. spare' = spare \/ Spend("fail") =>
           spare' \in Spares /\ spare'.kept = spare.kept /\ spare'.half = spare.half
    BY SpendIs DEF TypeOK
  <1>3. shown' = shown => ShownOK'
    BY DEF TypeOK, ShownOK
  <1>4. CASE PresentWorker(r)
    <2>1. PICK w \in Workers :
            /\ Goes(r, "launch", "spawn")
            /\ \/ /\ pane' = [pane EXCEPT ![r][w] =
                                 IF Requested = "headless" THEN "none" ELSE "made"]
                  /\ UNCHANGED spare
               \/ Spend("fail") /\ UNCHANGED pane
            /\ UNCHANGED <<site, host, disk, worker, terminal>>
      BY <1>4 DEF PresentWorker, Launching, First
    <2> DEFINE made == IF Requested = "headless" THEN "none" ELSE "made"
    <2>2. made \in {"none", "made"} /\ (pane' = [pane EXCEPT ![r][w] = made] \/ pane' = pane)
      BY <2>1
    <2> HIDE DEF made
    <2>3. ShownOK'
      <3>1. ShownOK /\ terminal' = terminal
        BY <2>1 DEF TypeOK
      <3>2. CASE pane' = [pane EXCEPT ![r][w] = made]
        BY <2>2, <3>1, <3>2 DEF ShownOK
      <3>3. CASE pane' = pane
        BY <3>1, <3>3 DEF ShownOK
      <3> QED BY <2>2, <3>2, <3>3
    <2>4. /\ pc[r] = "launch" /\ To(r, "spawn") /\ UNCHANGED <<site, host, disk, worker>>
          /\ spare' = spare \/ Spend("fail")
      BY <2>1
    <2>5. /\ pc[r] \in Launched /\ "spawn" \in Launched
          /\ spare' \in Spares /\ spare'.kept = spare.kept /\ spare'.half = spare.half
      BY <1>2, <2>4 DEF Launched
    <2> QED BY <1>1, <2>3, <2>4, <2>5
  <1>5. CASE ViewWorker(r)
    <2> DEFINE to == IF \A w \in Workers : worker[r][w] # "none" THEN "wait" ELSE "launch"
    <2>1. to \in Launched
      BY DEF Launched
    <2> DEFINE bare == {w \in Workers : pane[r][w] = "made"}
               view == [w \in Workers |-> IF w \notin bare THEN pane[r][w]
                                          ELSE IF w \in site.tui THEN "attended" ELSE "viewed"]
    <2>2. /\ view \in [Workers -> {"none", "made", "viewed", "attended"}]
          /\ pane' = [pane EXCEPT ![r] = view] \/ pane' = pane
          /\ terminal' = terminal
      BY <1>5 DEF ViewWorker, TypeOK, ShownOK
    <2> HIDE DEF view
    <2>4. ShownOK'
      BY <2>2 DEF TypeOK, ShownOK
    <2>3. pc[r] = "view" /\ To(r, to) /\ UNCHANGED <<site, host, disk, worker>>
          /\ (spare' = spare \/ Spend("fail"))
      BY <1>5 DEF ViewWorker
    <2> HIDE DEF to
    <2> QED BY <1>1, <1>2, <2>1, <2>3, <2>4 DEF Launched
  <1>6. CASE AwaitIdle(r)
    <2>1. /\ pc[r] = "wait" /\ (To(r, "done") \/ To(r, "failed"))
          /\ (spare' = spare \/ Spend("fail")) /\ UNCHANGED <<site, host, disk, worker, shown>>
      BY <1>6 DEF AwaitIdle, Throws
    <2> QED BY <1>1, <1>2, <1>3, <2>1 DEF Launched
  <1>7. CASE AttachHere(r)
    <2>1. ShownOK'
      BY <1>7 DEF AttachHere, TypeOK, ShownOK
    <2> QED BY <1>1, <1>2, <1>7, <2>1 DEF AttachHere, Launched
  <1>8. CASE Detach(r)
    <2>1. ShownOK'
      BY <1>8 DEF Detach, TypeOK, ShownOK
    <2> QED BY <1>1, <1>2, <1>8, <2>1 DEF Detach, Launched
  <1> QED BY <1>4, <1>5, <1>6, <1>7, <1>8

\* A worker that is started, or that settles, is one of a run that has passed
\* every gate.
LEMMA WorkerStep ==
  ASSUME IInv, NEW r \in Runs, NEW w \in Workers, NEW is \in {"starting", "idle", "dead"},
         NEW to \in Launched \cup Ended, To(r, to), Gates(r, to),
         worker' = [worker EXCEPT ![r][w] = is], UNCHANGED <<site, host, disk, shown>>,
         spare' \in Spares, RelayInv',
         Backed(r), is # "dead" /\ w \in site.isolated => tree[r][w] = "ready" /\ w \in recorded[r]
  PROVE  IInv'
  <1> USE DEF IInv, To
  <1> /\ site' = site /\ net' = net /\ relay' = relay /\ seen' = seen /\ remote' = remote
      /\ tree' = tree /\ stray' = stray /\ recorded' = recorded /\ inputs' = inputs
      /\ pane' = pane /\ terminal' = terminal
    BY DEF host, disk, shown
  <1>1. /\ (Consented' <=> Consented) /\ (Imaged' <=> Imaged) /\ (Sighted' <=> Sighted)
        /\ (Manned' <=> Manned) /\ SiteInv'
    BY SiteKept
  <1>2. /\ worker' \in [Runs -> [Workers -> {"none", "starting", "idle", "dead"}]]
        /\ \A q \in Runs, v \in Workers :
              worker'[q][v] = IF q = r /\ v = w THEN is ELSE worker[q][v]
    BY DEF TypeOK
  <1>3. to \in Stages
    BY DEF Stages, Consenting, Verifying, Behind, Checkout, Cloned, Seated, Mounted
  <1>4. TypeOK'
    BY <1>2, <1>3 DEF TypeOK, ShownOK
  <1>5. StageInv'
    <2> SUFFICES ASSUME NEW q \in Runs PROVE Gates(q, pc[q])'
      BY DEF StageInv
    <2>1. Making(q)' = Making(q)
      BY DEF Making
    <2>2. CASE q = r
      <3>1. pc'[q] = to /\ Gates(q, to)
        BY <2>2 DEF TypeOK
      <3> QED BY <1>1, <2>1, <3>1 DEF Gates
    <2>3. CASE q # r
      <3>1. pc'[q] = pc[q] /\ Gates(q, pc[q]) /\ \A v \in Workers : worker'[q][v] = worker[q][v]
        BY <1>2, <2>3 DEF TypeOK, StageInv
      <3> QED BY <1>1, <2>1, <3>1 DEF Gates
    <2> QED BY <2>2, <2>3
  <1>6. MakingInv'
    BY DEF MakingInv, Making
  <1>7. WorkerInv'
    <2> SUFFICES ASSUME NEW q \in Runs, NEW v \in Workers
                 PROVE  /\ worker'[q][v] # "none" => Backed(q)'
                        /\ worker'[q][v] \in {"starting", "idle"} /\ v \in site'.isolated =>
                             tree'[q][v] = "ready" /\ v \in recorded'[q]
      BY DEF WorkerInv, Backed
    <2>1. CASE q = r /\ v = w
      BY <1>1, <1>2, <2>1 DEF Backed
    <2>2. CASE ~ (q = r /\ v = w)
      <3>1. worker'[q][v] = worker[q][v]
        BY <1>2, <2>2
      <3> QED BY <1>1, <3>1 DEF WorkerInv, Backed
    <2> QED BY <2>1, <2>2
  <1> QED BY <1>1, <1>4, <1>5, <1>6, <1>7

\* A supervisor is launched behind every gate, and comes up or dies there.
LEMMA WorkerSteps ==
  ASSUME IInv, NEW r \in Runs, LaunchWorker(r) \/ WorkerSettles(r)
  PROVE  IInv'
  <1> USE DEF IInv
  <1>1. Gates(r, pc[r])
    BY DEF StageInv
  <1>2. CASE LaunchWorker(r)
    <2>1. CASE Throws(r, "spawn") /\ UNCHANGED <<site, host, disk, worker, shown>>
      <3>1. "spawn" \in Stages \ (Checkout \cup Ended \cup {"connect"})
        BY DEF Stages, Consenting, Verifying, Behind, Checkout, Cloned, Seated, Mounted, Launched,
               Ended
      <3> QED BY <2>1, <3>1, ThrowStep
    <2>2. ASSUME NEW w \in Launching(r), Goes(r, "spawn", "view"),
                 worker' = [worker EXCEPT ![r][w] = "starting"],
                 UNCHANGED <<site, host, disk, shown, spare>>
          PROVE  IInv'
      <3>1. w \in Workers /\ pc[r] = "spawn" /\ To(r, "view")
        BY <2>2 DEF Launching, First, Goes
      <3>2. /\ Gates(r, "view") /\ Backed(r)
            /\ w \in site.isolated => w \in recorded[r] /\ tree[r][w] = "ready"
        BY <1>1, <3>1 DEF Gates, Ended, Behind, Checkout, Cloned, Seated, Mounted, Launched,
                          Consenting, Verifying, Backed
      <3>3. RelayInv'
        BY <2>2, <3>1 DEF RelayInv, To, TypeOK, Whole, host
      <3> QED BY <2>2, <3>1, <3>2, <3>3, WorkerStep DEF TypeOK, Launched
    <2> QED BY <1>2, <2>1, <2>2 DEF LaunchWorker
  <1>3. CASE WorkerSettles(r)
    <2>1. PICK w \in Workers :
            /\ worker[r][w] = "starting"
            /\ \/ worker' = [worker EXCEPT ![r][w] = "idle"] /\ UNCHANGED spare
               \/ worker' = [worker EXCEPT ![r][w] = "dead"] /\ Spend("fail")
            /\ UNCHANGED <<site, pc, host, disk, shown>>
      BY <1>3 DEF WorkerSettles
    <2>2. PICK is \in {"idle", "dead"} : worker' = [worker EXCEPT ![r][w] = is]
      BY <2>1
    <2>3. spare' \in Spares /\ spare'.kept = spare.kept /\ spare'.half = spare.half
      BY <2>1, SpendIs DEF TypeOK
    <2>4. Backed(r) /\ (w \in site.isolated => tree[r][w] = "ready" /\ w \in recorded[r])
      BY <2>1 DEF WorkerInv
    <2>5. pc[r] \in Launched \cup Ended
      BY <1>1, <2>1 DEF Gates
    <2>6. To(r, pc[r]) /\ UNCHANGED <<site, host, disk, shown>>
      BY <2>1 DEF To, TypeOK
    <2>7. RelayInv'
      BY <2>1, <2>3 DEF RelayInv, Whole, host
    <2> QED BY <1>1, <2>2, <2>3, <2>4, <2>5, <2>6, <2>7, WorkerStep
  <1> QED BY <1>2, <1>3

\* What is pruned is no started worker's.
LEMMA PruneStep ==
  ASSUME IInv, NEW r \in Runs, Prune(r)
  PROVE  IInv'
  <1> USE DEF IInv
  <1>1. PICK w \in recorded[r] :
          /\ pc[r] \in Ended /\ (tree[r][w] # "absent" \/ remote[w] # None)
          /\ remote' = [remote EXCEPT ![w] = None]
          /\ tree' = [tree EXCEPT ![r][w] = "absent"]
          /\ worker[r][w] \in {"none", "dead"}
          /\ UNCHANGED <<site, pc, net, relay, seen, stray, recorded, inputs, worker, shown, spare>>
    BY DEF Prune
  <1> /\ site' = site /\ pc' = pc /\ net' = net /\ relay' = relay /\ seen' = seen
      /\ stray' = stray /\ recorded' = recorded /\ inputs' = inputs /\ worker' = worker
      /\ pane' = pane /\ terminal' = terminal /\ spare' = spare
    BY <1>1 DEF shown
  <1>2. w \in Workers
    BY DEF TypeOK
  <1>3. /\ tree' \in [Runs -> [Workers -> {"absent", "cloned", "ready"}]]
        /\ \A q \in Runs, v \in Workers :
              tree'[q][v] = IF q = r /\ v = w THEN "absent" ELSE tree[q][v]
    BY <1>1, <1>2 DEF TypeOK
  <1>4. /\ (Consented' <=> Consented) /\ (Imaged' <=> Imaged) /\ (Sighted' <=> Sighted)
        /\ (Manned' <=> Manned) /\ SiteInv'
    BY SiteKept
  <1>5. TypeOK'
    BY <1>1, <1>3 DEF TypeOK, ShownOK
  <1>6. \A q \in Runs : Making(q)' \subseteq Making(q)
    BY <1>3 DEF Making
  <1>7. StageInv'
    <2> SUFFICES ASSUME NEW q \in Runs PROVE Gates(q, pc[q])'
      BY DEF StageInv
    <2>1. Gates(q, pc[q])
      BY DEF StageInv
    <2>2. pc[q] \notin Ended => \A v \in recorded[q] : tree'[q][v] = tree[q][v]
      BY <1>1, <1>3 DEF TypeOK
    <2>3. Making(q)' \subseteq Making(q)
      BY <1>6
    <2> QED BY <1>1, <1>4, <2>1, <2>2, <2>3 DEF Gates
  <1>8. MakingInv'
    BY <1>6 DEF MakingInv
  <1>9. WorkerInv'
    BY <1>1, <1>3, <1>4 DEF WorkerInv, Backed
  <1>10. RelayInv'
    BY DEF RelayInv, Whole
  <1> QED BY <1>4, <1>5, <1>7, <1>8, <1>9, <1>10

-----------------------------------------------------------------------------
(* The theorems.                                                           *)

\* A command begins with nothing made, over what earlier ones left.
LEMMA InitHolds ==
  ASSUME Init
  PROVE  IInv
  <1>1. PICK s \in Scenarios :
          /\ pc = [r \in Runs |-> "guard"]
          /\ site = s.site /\ net = s.net /\ relay = s.relay
          /\ seen = [r \in Runs |-> NoRelay]
          /\ remote = [w \in Workers |-> None]
          /\ tree = [r \in Runs |-> [w \in Workers |-> "absent"]]
          /\ stray = {} /\ recorded = [r \in Runs |-> {}] /\ inputs = [r \in Runs |-> {}]
          /\ worker = [r \in Runs |-> [w \in Workers |-> "none"]]
          /\ pane = [r \in Runs |-> [w \in Workers |-> "none"]]
          /\ terminal = [r \in Runs |-> FALSE]
          /\ spare = [fail |-> s.fail, kill |-> s.kill, stuck |-> s.stuck,
                      kept |-> FALSE, half |-> FALSE]
    BY DEF Init
  <1>2. NoRelay \in Relays
    BY DEF NoRelay, Relays
  <1>3. spare \in Spares
    BY <1>1, ScenariosAssumption DEF Spares
  <1>4. "guard" \in Stages /\ "guard" \notin Consenting \cup Ended
    BY DEF Stages, Consenting, Verifying, Behind, Checkout, Cloned, Seated, Mounted, Launched, Ended
  <1>5. TypeOK
    BY <1>1, <1>2, <1>3, <1>4, ScenariosAssumption DEF TypeOK, ShownOK
  <1>6. SiteInv
    BY <1>1, DefinedAssumption DEF SiteInv
  <1>7. \A r \in Runs : Making(r) = {}
    BY <1>1 DEF Making
  <1>8. StageInv
    BY <1>1, <1>7 DEF StageInv, Gates, Consenting, Verifying, Behind, Checkout, Cloned, Seated,
                      Mounted, Launched, Ended
  <1>9. MakingInv
    BY <1>7 DEF MakingInv
  <1>10. WorkerInv
    BY <1>1 DEF WorkerInv, Backed
  <1>11. RelayInv
    BY <1>1, WholeAssumption DEF RelayInv
  <1> QED BY <1>5, <1>6, <1>8, <1>9, <1>10, <1>11 DEF IInv

\* Every step of an `up`, and whatever befalls it, keeps the invariant.
LEMMA StepHolds ==
  ASSUME IInv, [Next]_vars
  PROVE  IInv'
  <1>1. CASE RelayExits \/ UNCHANGED vars
    BY <1>1, StillStep
  <1>2. ASSUME NEW r \in Runs, Up(r) \/ WorkerSettles(r) \/ Killed(r)
        PROVE  IInv'
    <2>1. CASE \/ Open(r) \/ Configure(r) \/ Consent(r) \/ CheckImages(r) \/ ChooseBackend(r)
               \/ PlanBridges(r) \/ Probe(r) \/ Record(r) \/ ScanRepo(r) \/ CheckMounts(r)
               \/ StartDaemon(r) \/ OpenBackend(r)
      BY <2>1, AskingSteps
    <2>2. CASE EnsureNetwork(r) \/ Contain(r)
      BY <2>2, NetworkSteps
    <2>3. CASE InspectRelay(r) \/ RemoveRelay(r) \/ RunRelay(r) \/ ConnectRelay(r) \/ VerifyRelay(r)
      BY <2>3, RelaySteps
    <2>4. CASE Clone(r) \/ DropRemote(r) \/ AddRemote(r) \/ Baseline(r)
      BY <2>4, CheckoutSteps
    <2>5. CASE Materialize(r)
      BY <2>5, InputsSteps
    <2>6. CASE PresentWorker(r) \/ ViewWorker(r) \/ AwaitIdle(r) \/ AttachHere(r) \/ Detach(r)
      BY <2>6, ShownSteps
    <2>7. CASE LaunchWorker(r) \/ WorkerSettles(r)
      BY <2>7, WorkerSteps
    <2>8. CASE Killed(r)
      BY <2>8, KillStep
    <2>9. CASE Prune(r)
      BY <2>9, PruneStep
    <2> QED BY <1>2, <2>1, <2>2, <2>3, <2>4, <2>5, <2>6, <2>7, <2>8, <2>9 DEF Up
  <1> QED BY <1>1, <1>2 DEF Next

\* At every stage an `up` has behind it the gates that the code put before.
THEOREM Inductive == Spec => []IInv
  <1>1. Init => IInv
    BY InitHolds
  <1>2. IInv /\ [Next]_vars => IInv'
    BY StepHolds
  <1> QED BY <1>1, <1>2, PTL DEF Spec

\* The variables keep the types their comments give them.
THEOREM TypeCorrect == Spec => []TypeOK
  <1>1. IInv => TypeOK
    BY DEF IInv
  <1> QED BY <1>1, Inductive, PTL

\* With a config a supervisor runs only behind a fenced network, its inputs
\* written and its checkout, if it gets one, on record; without one only the
\* double runs; either way from checked images and mounts, with consent (up.ts).
THEOREM StartsAreFenced == Spec => []StartsFenced
  <1>1. IInv => StartsFenced
    BY DEF IInv, StartsFenced, WorkerInv, Backed, Manned, Consented, Imaged, Sighted
  <1> QED BY <1>1, Inductive, PTL

\* An `up` that ends leaves no checkout off the record whose removal did not fail,
\* and no relay without its aliases but one whose removal or docker run failed
\* (worktree.ts: createWorkerWorktrees, relay.ts: ensureEgressRelay).
THEOREM NothingIsStranded == Spec => []NothingStranded
  <1>1. IInv => Reapable
    <2> SUFFICES ASSUME IInv, NEW r \in Runs, pc[r] \in Ended \ {"killed"}
                 PROVE  \A w \in Making(r) : <<r, w>> \in stray
      BY DEF Reapable, Making
    <2> QED BY DEF IInv, StageInv, Gates, Checkout, Ended
  <1>2. IInv => RelayWhole
    BY DEF IInv, RelayInv, RelayWhole, Ended
  <1>3. IInv => NothingStranded
    BY <1>1, <1>2 DEF NothingStranded
  <1> QED BY <1>3, Inductive, PTL

=============================================================================
