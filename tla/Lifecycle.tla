----------------------------- MODULE Lifecycle ------------------------------
(***************************************************************************)
(* The end of a worker.  The registry daemon (src/src/run/registry.ts)     *)
(* keeps the table of supervisors and scans it for stale heartbeats; a     *)
(* stale one is climbed upon, its container removed and its entry dropped  *)
(* (src/src/safety/reaper.ts).  The down command                           *)
(* (src/src/cli/commands/down.ts) stops every worker of the run, removes   *)
(* its container, stops the daemon and may delete the checkouts.           *)
(* Supervisors start, register, wedge, die and stop underneath both.       *)
(* --force-identity, an operator's leave to signal an unverified pid, is   *)
(* left out.                                                               *)
(***************************************************************************)
EXTENDS KillLadder

CONSTANTS Threshold,  \* scans without a new heartbeat that a worker survives
          Scenarios   \* bound: which workers up launched, and the faults to come

ASSUME ThresholdAssumption == Threshold \in Nat \ {0}

Capture == [started: BOOLEAN, group: BOOLEAN]
Reports == {"unlaunched", "refused", "running", "stopped"}
ASSUME NoneAssumption == None \notin Capture /\ None \notin Reports

VARIABLES
    file,       \* state.json: what was captured of pid, start time and group
    table,      \* the registry: workers with an entry
    enrolled,   \* history: workers that have registered
    container,  \* workers whose container runs
    beat,       \* workers whose heartbeat label changed since it was observed
    clock,      \* the monitor's stopwatches, in scans; None: never observed
    reaper,     \* the daemon's scan
    down,       \* the down command
    taken,      \* history: containers removed under a live supervisor, by whom
    pruned      \* checkouts deleted

vars == <<os, sup, ladder, hit, faults, file, table, enrolled, container,
          beat, clock, reaper, down, taken, pruned>>
records == <<file, table, enrolled, container, beat, clock>>
history == <<taken, pruned>>

Resting == [pc |-> "idle", snap |-> {}, todo |-> {}, gone |-> {}]
Live(w) == sup[w] # "gone"

\* up launched some of the workers; the rest have a checkout and no supervisor.
Init ==
    /\ \E s \in Scenarios :
         /\ faults = s.faults
         /\ sup = [w \in Workers |-> IF w \in s.launched THEN "starting" ELSE "gone"]
    /\ os = [p \in Pids |->
               IF \E w \in Workers : Home[w] = p /\ sup[w] # "gone"
               THEN [proc |-> CHOOSE w \in Workers : Home[w] = p, leads |-> TRUE]
               ELSE None]
    /\ ladder = [k \in Killers |-> Off]
    /\ hit = {}
    /\ file = [w \in Workers |-> None]
    /\ table = {} /\ enrolled = {} /\ container = {} /\ beat = {}
    /\ clock = [w \in Workers |-> None]
    /\ reaper = Resting
    /\ down = [pc |-> "off", todo |-> Workers, report |-> [w \in Workers |-> None]]
    /\ taken = {} /\ pruned = {}

-----------------------------------------------------------------------------
(* A supervisor's own steps.                                               *)

\* Its first flushState.  Capturing its start time or its group may fail.
Boots(w) ==
    /\ sup[w] = "starting"
    /\ sup' = [sup EXCEPT ![w] = "booting"]
    /\ \/ /\ file' = [file EXCEPT ![w] = [started |-> TRUE, group |-> TRUE]]
          /\ UNCHANGED faults
       \/ /\ Spend("capture")
          /\ \E s, g \in BOOLEAN : file' = [file EXCEPT ![w] = [started |-> s, group |-> g]]
    /\ UNCHANGED <<os, ladder, hit, table, enrolled, container, beat, clock,
                   reaper, down, history>>

\* It registers, if there is a daemon.
Registers(w) ==
    /\ sup[w] = "booting"
    /\ sup' = [sup EXCEPT ![w] = "registered"]
    /\ IF reaper.pc # "stopped"
       THEN /\ table' = table \cup {w}
            /\ enrolled' = enrolled \cup {w}
       ELSE UNCHANGED <<table, enrolled>>
    /\ UNCHANGED <<os, ladder, hit, faults, file, container, beat, clock,
                   reaper, down, history>>

\* It starts the child in its container, serves its socket and asks the child
\* for its first get_state, which may take twice as long as the reaper waits.
Spawns(w) ==
    /\ sup[w] = "registered"
    /\ sup' = [sup EXCEPT ![w] = "joined"]
    /\ container' = container \cup {w}
    /\ UNCHANGED <<os, ladder, hit, faults, file, table, enrolled, beat, clock,
                   reaper, down, history>>

\* The answer is in: the heartbeat starts and the signal handlers are set.
Serves(w) ==
    /\ sup[w] = "joined"
    /\ sup' = [sup EXCEPT ![w] = "up"]
    /\ beat' = beat \cup {w}
    /\ UNCHANGED <<os, ladder, hit, faults, file, table, enrolled, container, clock,
                   reaper, down, history>>

\* The heartbeat timer, which runs until the exit.
Beats(w) ==
    /\ sup[w] \in {"up", "stopping"} /\ w \notin beat
    /\ beat' = beat \cup {w}
    /\ UNCHANGED <<system, file, table, enrolled, container, clock, reaper, down, history>>

\* The child of a stopping supervisor exits, with its container.
ChildExits(w) ==
    /\ sup[w] = "stopping" /\ w \in container
    /\ container' = container \ {w}
    /\ UNCHANGED <<system, file, table, enrolled, beat, clock, reaper, down, history>>

\* deregister_worker, then process.exit.
Deregisters(w) ==
    /\ sup[w] = "stopping" /\ w \notin container
    /\ w \in table /\ reaper.pc # "stopped"
    /\ table' = table \ {w}
    /\ UNCHANGED <<system, file, enrolled, container, beat, clock, reaper, down, history>>

Exits(w) ==
    /\ sup[w] = "stopping" /\ w \notin container
    /\ (w \notin table \/ reaper.pc = "stopped")
    /\ Vanish(w)
    /\ UNCHANGED <<ladder, hit, faults, records, reaper, down, history>>

-----------------------------------------------------------------------------
(* The daemon's reaper.                                                    *)

Stale(w) == clock[w] # None /\ clock[w] > Threshold

\* The label is observed: a new one restarts the stopwatch.
Observed(w) == IF clock[w] = None \/ w \in beat THEN 0 ELSE clock[w] + 1

\* reapStale walks a snapshot of the table.  A scan comes a heartbeat interval
\* after the last: whoever can beat has.
BeginScan ==
    /\ reaper.pc = "idle" /\ table # {}
    /\ \A w \in Workers : sup[w] \in {"up", "stopping"} => w \in beat
    /\ reaper' = [Resting EXCEPT !.pc = "scan", !.snap = table, !.todo = table]
    /\ UNCHANGED <<system, records, down, history>>

\* One worker is observed, and climbed upon if it is stale; a group that was
\* not captured narrows the climb to the leader.
Observe(w) ==
    /\ reaper.pc = "scan" /\ w \in reaper.todo
    /\ clock' = [clock EXCEPT ![w] = IF Observed(w) > Threshold THEN Threshold + 1
                                     ELSE Observed(w)]
    /\ beat' = beat \ {w}
    /\ reaper' = [reaper EXCEPT !.todo = @ \ {w},
                                !.pc = IF clock'[w] > Threshold THEN "climb" ELSE @]
    /\ IF clock'[w] > Threshold
       THEN Climb("reaper", w, "after", "ask", file[w].group, file[w].started)
       ELSE UNCHANGED ladder
    /\ UNCHANGED <<os, sup, hit, faults, file, table, enrolled, container,
                   down, history>>

\* state.json could not be read: the scan ends here, with what it had found.
ScanAborts ==
    /\ reaper.pc = "scan" /\ reaper.todo # {} /\ Spend("abort")
    /\ reaper' = Resting
    /\ UNCHANGED <<os, sup, ladder, hit, records, down, history>>

Remove(w, k) ==
    /\ container' = container \ {w}
    /\ taken' = IF w \in container /\ Live(w) THEN taken \cup {<<w, k>>} ELSE taken

\* supervisorStopped decides over the container, the stopwatch and, in
\* deregisterOnReap, over the entry.  Mutants: what is already gone needs no
\* cleaning up; a refused worker is forgotten all the same.
StoppedSwapped(how) == how # "gone"
Stopped(how) == how = "gone"
DeregisterOnReap(how) == how = "gone"

ReapContainer ==
    /\ reaper.pc = "climb" /\ At("reaper", "over")
    /\ LET w == Target("reaper")  how == ladder["reaper"].how IN
       /\ IF Stopped(how)
          THEN Remove(w, "reaper") /\ clock' = [clock EXCEPT ![w] = None]
          ELSE UNCHANGED <<container, taken, clock>>
       /\ reaper' = [reaper EXCEPT !.pc = "scan",
                        !.gone = IF DeregisterOnReap(how) THEN @ \cup {w} ELSE @]
    /\ ladder' = [ladder EXCEPT !["reaper"] = Off]
    /\ UNCHANGED <<os, sup, hit, faults, file, table, enrolled, beat, down, pruned>>

\* The reports are applied by name to the table as it is now.
Applied == table \ reaper.gone
Apply ==
    /\ reaper.pc = "scan" /\ reaper.todo = {}
    /\ table' = IF reaper.gone = {} THEN table ELSE Applied
    /\ reaper' = Resting
    /\ UNCHANGED <<system, file, enrolled, container, beat, clock, down, history>>

-----------------------------------------------------------------------------
(* The down command.                                                       *)

DownStarts ==
    /\ down.pc = "off" /\ Spend("down")
    /\ down' = [down EXCEPT !.pc = "next"]
    /\ UNCHANGED <<os, sup, ladder, hit, records, reaper, history>>

Reported(w, how) ==
    [down EXCEPT !.report[w] = how, !.todo = @ \ {w}, !.pc = "next"]

\* A worker without state.json was never there, as far as down can tell.
Unlaunched(w) ==
    /\ down.pc = "next" /\ w \in down.todo /\ file[w] = None
    /\ down' = Reported(w, "unlaunched")
    /\ UNCHANGED <<system, records, reaper, history>>

\* Nothing has the pid: a stop, and the container may be an orphan.
FoundGone(w) ==
    /\ down' = [down EXCEPT !.report[w] = "stopped", !.pc = "remove"]
    /\ ladder' = [ladder EXCEPT !["down"] = [Off EXCEPT !.pc = "over", !.w = w,
                                                       !.how = "gone"]]

\* anchorIdentity: who has the pid now, and is it who was recorded?
Anchor(w) ==
    /\ down.pc = "next" /\ w \in down.todo /\ file[w] # None
    /\ \/ /\ os[Home[w]] = None /\ FoundGone(w) /\ UNCHANGED faults
       \/ /\ os[Home[w]] # None
          /\ (~ Holds(w) \/ ~ file[w].started \/ ~ file[w].group)
          /\ down' = Reported(w, "refused") /\ UNCHANGED <<ladder, faults>>
       \/ /\ Holds(w) /\ file[w].started /\ file[w].group
          /\ down' = [down EXCEPT !.pc = "anchor"]
          /\ Climb("down", w, "anchor", "ask", TRUE, TRUE)
          /\ UNCHANGED faults
       \/ /\ Spend("unread")
          /\ down' = Reported(w, "refused") /\ UNCHANGED ladder
    /\ UNCHANGED <<os, sup, hit, records, reaper, history>>

\* Its confirmGroup; a group that cannot be confirmed refuses the worker, whose
\* container is then left alone.
AnchorGroup ==
    /\ down.pc = "anchor"
    /\ LET w == Target("down")  p == os[Home[w]] IN
       \/ /\ p = None /\ FoundGone(w) /\ UNCHANGED faults
       \/ /\ p # None /\ p.leads
          /\ down' = [down EXCEPT !.pc = "ask"]
          /\ UNCHANGED <<ladder, faults>>
       \/ /\ ((p # None /\ ~ p.leads /\ UNCHANGED faults) \/ Spend("unread"))
          /\ ladder' = [ladder EXCEPT !["down"] = Off]
          /\ down' = Reported(w, "refused")
    /\ UNCHANGED <<os, sup, hit, records, reaper, history>>

\* The shutdown call: a supervisor that answers its socket begins to stop.
Ask ==
    /\ down.pc = "ask"
    /\ LET w == Target("down") IN
       sup' = [sup EXCEPT ![w] = IF @ \in {"joined", "up"} THEN "stopping" ELSE @]
    /\ down' = [down EXCEPT !.pc = "climb"]
    /\ Goto("down", "await")
    /\ UNCHANGED <<os, hit, faults, records, reaper, history>>

\* The climb is over: one more identity read says whether it stopped.  Mutant:
\* the last rung speaks for itself.
VerdictTrusting(w, how) == IF how = "refused" THEN "running" ELSE "stopped"
VerdictOf(w, how) == IF Holds(w) THEN "running" ELSE "stopped"
Verdict ==
    /\ down.pc = "climb" /\ At("down", "over")
    /\ LET w == Target("down") IN
       \/ /\ down' = [down EXCEPT !.report[w] = VerdictOf(w, ladder["down"].how),
                                  !.pc = "remove"]
          /\ UNCHANGED faults
       \/ /\ Spend("unread")
          /\ down' = [down EXCEPT !.report[w] = "refused", !.pc = "remove"]
    /\ UNCHANGED <<os, sup, ladder, hit, records, reaper, history>>

\* The container goes, whatever the verdict.
RemoveContainer ==
    /\ down.pc = "remove"
    /\ LET w == Target("down") IN
       Remove(w, "down") /\ down' = Reported(w, down.report[w])
    /\ ladder' = [ladder EXCEPT !["down"] = Off]
    /\ UNCHANGED <<os, sup, hit, faults, file, table, enrolled, beat, clock,
                   reaper, pruned>>

\* The daemon goes last, with whatever scan it was in.
StopDaemon ==
    /\ down.pc = "next" /\ down.todo = {}
    /\ down' = [down EXCEPT !.pc = "prune"]
    /\ reaper' = [Resting EXCEPT !.pc = "stopped"]
    /\ ladder' = [ladder EXCEPT !["reaper"] = Off]
    /\ UNCHANGED <<os, sup, hit, faults, records, history>>

\* --prune: a checkout is kept when its worker's row says it did not stop.  Mutant: it is not.
PrunableAny(w) == TRUE
Prunable(w) == down.report[w] \in {"stopped", "unlaunched"}
Prune ==
    /\ down.pc = "prune"
    /\ pruned' = {w \in Workers : Prunable(w)}
    /\ down' = [down EXCEPT !.pc = "done"]
    /\ UNCHANGED <<system, records, reaper, taken>>

-----------------------------------------------------------------------------
SupervisorSteps(w) ==
    \/ Boots(w) \/ Registers(w) \/ Spawns(w) \/ Serves(w) \/ Beats(w)
    \/ ChildExits(w) \/ Deregisters(w) \/ Exits(w)

ReaperSteps == BeginScan \/ ScanAborts \/ ReapContainer \/ Apply

DownSteps == AnchorGroup \/ Ask \/ Verdict \/ RemoveContainer \/ StopDaemon \/ Prune

\* What happens below the records, and beside them.
ProcessSteps ==
    /\ \/ \E k \in Killers : Rung(k)
       \/ \E w \in Workers : Crash(w) \/ Wedge(w)
       \/ \E s \in Strangers, p \in Pids : Fork(s, p)
    /\ UNCHANGED <<records, reaper, down, history>>

Next ==
    \/ ProcessSteps
    \/ \E w \in Workers :
          SupervisorSteps(w) \/ Observe(w) \/ Unlaunched(w) \/ Anchor(w)
    \/ ReaperSteps \/ DownStarts \/ DownSteps

\* The daemon's timer and loop go on; ps answers and graces end; down runs to its
\* end once started; supervisors that can beat do.
Fairness ==
    /\ \A k \in Killers : WF_vars(Rung(k) /\ UNCHANGED <<records, reaper, down, history>>)
    /\ \A w \in Workers : WF_vars(Beats(w)) /\ WF_vars(Observe(w))
    /\ WF_vars(BeginScan) /\ WF_vars(ReapContainer) /\ WF_vars(Apply)
    /\ WF_vars(DownSteps \/ \E w \in Workers : Unlaunched(w) \/ Anchor(w))

Spec == Init /\ [][Next]_vars
FairSpec == Spec /\ Fairness

-----------------------------------------------------------------------------
TypeOK ==
    /\ SystemTypeOK
    /\ file \in [Workers -> Capture \cup {None}]
    /\ \A w \in Workers : sup[w] \notin {"starting", "gone"} => file[w] # None
    /\ table \subseteq enrolled /\ enrolled \subseteq {w \in Workers : file[w] # None}
    /\ container \subseteq Workers /\ beat \subseteq Workers
    /\ clock \in [Workers -> (0 .. Threshold + 1) \cup {None}]
    /\ reaper \in [pc: {"idle", "scan", "climb", "stopped"}, snap: SUBSET enrolled,
                   todo: SUBSET enrolled, gone: SUBSET enrolled]
    /\ down \in [pc: {"off", "next", "anchor", "ask", "climb", "remove", "prune", "done"},
                 todo: SUBSET Workers,
                 report: [Workers -> Reports \cup {None}]]
    /\ (reaper.pc = "climb") = ~ At("reaper", "off")
    /\ (down.pc \in {"anchor", "ask", "climb", "remove"}) = ~ At("down", "off")
    /\ taken \subseteq Workers \X Killers /\ pruned \subseteq Workers

\* Down reports a stop only of a supervisor that is gone: neither a failed read
\* nor a rung that was climbed to its end counts as one.
StoppedIsGone == \A w \in Workers : down.report[w] = "stopped" => sup[w] = "gone"

\* --prune deletes the checkout of no worker that was launched and may live.
PruneSafe ==
    \A w \in pruned : sup[w] = "gone" \/ down.report[w] = "unlaunched"

\* The reaper takes the container of no live supervisor, if the supervisor could
\* capture its start time.
Recorded(w) == file[w] # None /\ file[w].started
ReaperSpares == \A w \in Workers : Recorded(w) => <<w, "reaper">> \notin taken

\* A reader that has no start time to compare refuses, and takes nothing.
UnrecordedRefused == \A w \in Workers : <<w, "reaper">> \notin taken

\* A worker that registered stays in the table while it lives and is not shutting
\* down, though scans that began before it registered end after.
Listed ==
    \A w \in enrolled : Recorded(w) /\ sup[w] \notin {"stopping", "gone"} => w \in table

\* No scan takes up a supervisor that beats.
BeatingSpared ==
    [][\A w \in Workers : At("reaper", "off") /\ ladder'["reaper"].w = w
                             => sup[w] # "up"]_vars

\* A wedged supervisor in the table is stopped in the end, through refused
\* permissions, failed reads and aborted scans; or down has stopped the daemon.
Collected(w) == sup[w] = "gone" \/ reaper.pc = "stopped"
WedgedReaped ==
    \A w \in Workers : sup[w] = "wedged" /\ w \in table /\ Recorded(w) ~> Collected(w)

\* The container a dead supervisor left behind is removed in the end.
OrphanCollected ==
    \A w \in Workers : sup[w] = "gone" /\ w \in container /\ w \in enrolled
        ~> w \notin container \/ reaper.pc = "stopped"

\* Nothing is left to burn: neither a wedged supervisor nor a dead one's
\* container outlives the reaper's scans.
Collects == WedgedReaped /\ OrphanCollected

\* Down, once started, comes to its end whatever its workers do.
DownReturns == (down.pc = "next") ~> (down.pc = "done")
=============================================================================
