----------------------------- MODULE KillLadder -----------------------------
(***************************************************************************)
(* Stopping a process one only has a record of (src/src/safety/kill.ts).   *)
(* A killer re-reads the identity of its target, then the group, then the  *)
(* identity again, and only then signals; each read is a ps of its own, so *)
(* between any two of them the target may die and its pid go to a process  *)
(* of somebody else.  Two killers climb at the same time: the daemon's     *)
(* reaper (runKillLadder) and the down command, which climbs by hand.      *)
(***************************************************************************)
EXTENDS Naturals, FiniteSets

CONSTANTS Workers,    \* their supervisors are the processes of this run
          Strangers,  \* processes that are not
          Pids,       \* process ids
          Home,       \* Home[w]: the pid w's supervisor was launched with
          None        \* nothing there

ASSUME HomeAssumption ==
    /\ Home \in [Workers -> Pids]
    /\ \A v, w \in Workers : Home[v] = Home[w] => v = w
Process == [proc: Workers \cup Strangers, leads: BOOLEAN]

ASSUME NamesAssumption ==
    /\ Workers \cap Strangers = {} /\ None \notin Workers \cup Strangers
    /\ None \notin Process

Killers == {"reaper", "down"}

VARIABLES
    os,      \* os[p]: the process that has pid p, and whether it leads a group
    sup,     \* the phase of each supervisor
    ladder,  \* where each killer stands with its target
    hit,     \* history: strangers that were signalled
    faults   \* bound: how often each fault may still happen

system == <<os, sup, ladder, hit, faults>>

\* Launched; state.json written; registered; its container runs and its socket
\* answers, but no heartbeat yet; beating; deaf; shutting down; no process.
Phases == {"starting", "booting", "registered", "joined", "up", "wedged",
           "stopping", "gone"}
Rungs == {"ask", "term", "kill"}
Steps == {"off", "anchor", "same", "group", "recheck", "still", "signal",
          "await", "after", "over"}
Off == [pc |-> "off", w |-> None, group |-> FALSE, known |-> TRUE,
        rung |-> "term", how |-> None]

Spend(f) == faults[f] > 0 /\ faults' = [faults EXCEPT ![f] = @ - 1]

\* The recorded process lives, and under the pid it was recorded with.
Holds(w) == os[Home[w]] # None /\ os[Home[w]].proc = w

At(k, pc) == ladder[k].pc = pc
Target(k) == ladder[k].w
Goto(k, pc) == ladder' = [ladder EXCEPT ![k].pc = pc]
Over(k, how) == ladder' = [ladder EXCEPT ![k].pc = "over", ![k].how = how]

\* sameIdentity: the pid is held by a process with the start time the killer has.
\* A start time that was never captured is no process's.
SameIdentity(k) == ladder[k].known /\ Holds(Target(k))

\* A killer takes up a target; group is FALSE when it addresses the leader only,
\* known is FALSE when it has no start time to compare.
Climb(k, w, pc, rung, group, known) ==
    ladder' = [ladder EXCEPT ![k] = [pc |-> pc, w |-> w, group |-> group,
                                     known |-> known, rung |-> rung, how |-> None]]

-----------------------------------------------------------------------------
(* signalIfSame.                                                           *)

\* The first identity read.
Same(k) ==
    /\ At(k, "same")
    /\ \/ /\ SameIdentity(k)
          /\ Goto(k, IF ladder[k].group THEN "group" ELSE "signal")
          /\ UNCHANGED faults
       \/ /\ ~ SameIdentity(k) /\ Over(k, "gone") /\ UNCHANGED faults
       \/ /\ Spend("unread") /\ Over(k, "refused")
    /\ UNCHANGED <<os, sup, hit>>

\* confirmGroup reads the group of whatever has the pid now; a ps that fails
\* may also say nothing, as for a process that is not there.  Mutant: a group
\* that leads itself is signalled without a second look at who leads it.
GroupTo(k, next) ==
    /\ At(k, "group")
    /\ LET p == os[Home[Target(k)]] IN
       \/ /\ p = None /\ Goto(k, "recheck") /\ UNCHANGED faults
       \/ /\ p # None /\ p.leads /\ Goto(k, next) /\ UNCHANGED faults
       \/ /\ p # None /\ ~ p.leads /\ Over(k, "refused") /\ UNCHANGED faults
       \/ /\ Spend("unread") /\ (Over(k, "refused") \/ Goto(k, "recheck"))
    /\ UNCHANGED <<os, sup, hit>>
GroupOnce(k) == GroupTo(k, "signal")
Group(k) == GroupTo(k, "still")

\* No group was read: believed only of a process that is gone.  Mutant: the
\* silence of ps is believed.
RecheckNothing(k) ==
    /\ At(k, "recheck")
    /\ Over(k, "gone")
    /\ UNCHANGED <<os, sup, hit, faults>>
Recheck(k) ==
    /\ At(k, "recheck")
    /\ \/ /\ Over(k, IF SameIdentity(k) THEN "refused" ELSE "gone")
          /\ UNCHANGED faults
       \/ /\ Spend("unread") /\ Over(k, "refused")
    /\ UNCHANGED <<os, sup, hit>>

\* The identity read that is the last thing before the system call.
Still(k) ==
    /\ At(k, "still")
    /\ \/ /\ SameIdentity(k) /\ Goto(k, "signal") /\ UNCHANGED faults
       \/ /\ ~ SameIdentity(k) /\ Over(k, "gone") /\ UNCHANGED faults
       \/ /\ Spend("unread") /\ Over(k, "refused")
    /\ UNCHANGED <<os, sup, hit>>

\* What a signal does to a supervisor: SIGTERM kills until its handler is
\* installed, which is after the first get_state, then runs beginShutdown, and
\* is lost on one that is wedged.
Deadly(w, rung) == (rung = "kill") \/ sup[w] \in {"starting", "booting", "registered", "joined"}
Shot(w, rung) ==
    IF Deadly(w, rung)
    THEN /\ os' = [os EXCEPT ![Home[w]] = None]
         /\ sup' = [sup EXCEPT ![w] = "gone"]
    ELSE /\ sup' = [sup EXCEPT ![w] = IF @ = "up" THEN "stopping" ELSE @]
         /\ UNCHANGED os

\* The system call.  It may be refused (EPERM), find nobody (ESRCH), though a
\* group can outlive its leader, and a killed process may take its time.
Signal(k) ==
    /\ At(k, "signal")
    /\ LET w == Target(k)  p == os[Home[w]] IN
       \/ /\ p = None
          /\ (Over(k, "gone") \/ (ladder[k].group /\ Goto(k, "await")))
          /\ UNCHANGED <<os, sup, hit, faults>>
       \/ /\ p # None /\ Spend("eperm") /\ Over(k, "refused")
          /\ UNCHANGED <<os, sup, hit>>
       \/ /\ p # None /\ p.proc \in Strangers /\ Goto(k, "await")
          /\ hit' = hit \cup {p.proc}
          /\ UNCHANGED <<os, sup, faults>>
       \/ /\ p # None /\ p.proc = w /\ Goto(k, "await")
          /\ \/ /\ Shot(w, ladder[k].rung) /\ UNCHANGED faults
             \/ /\ ladder[k].rung = "kill" /\ Spend("stuck")
                /\ UNCHANGED <<os, sup>>
          /\ UNCHANGED hit

-----------------------------------------------------------------------------
(* The climb.                                                              *)

\* The reaper's rung 0 and its reads after a grace: identityHolds.  Mutant: a
\* read that failed counts as a process that is gone.
AfterBelieved(k, unread) ==
    /\ At(k, "after")
    /\ \/ /\ SameIdentity(k) /\ UNCHANGED faults
          /\ CASE ladder[k].rung = "ask" ->
                    ladder' = [ladder EXCEPT ![k].pc = "same", ![k].rung = "term"]
               [] ladder[k].rung = "term" ->
                    ladder' = [ladder EXCEPT ![k].pc = "same", ![k].rung = "kill"]
               [] ladder[k].rung = "kill" -> Over(k, "outlived")
       \/ /\ ~ SameIdentity(k) /\ Over(k, "gone") /\ UNCHANGED faults
       \/ /\ Spend("unread") /\ Over(k, unread)
    /\ UNCHANGED <<os, sup, hit>>
AfterHasty(k) == AfterBelieved(k, "gone")
After(k) == AfterBelieved(k, "refused")

\* awaitDead, waitGone: a poll that finds the target gone ends the climb; one
\* that fails only waits on.
AwaitGone(k) ==
    /\ At(k, "await") /\ ~ SameIdentity(k)
    /\ Over(k, "gone")
    /\ UNCHANGED <<os, sup, hit, faults>>

\* The grace is over.  The reaper looks again; down takes the next rung.
GraceOver(k) ==
    /\ At(k, "await")
    /\ \/ /\ k = "reaper" /\ Goto(k, "after")
       \/ /\ k = "down" /\ ladder[k].rung # "kill"
          /\ ladder' = [ladder EXCEPT ![k].pc = "same",
                           ![k].rung = IF @ = "ask" THEN "term" ELSE "kill"]
       \/ /\ k = "down" /\ ladder[k].rung = "kill" /\ Over(k, "outlived")
    /\ UNCHANGED <<os, sup, hit, faults>>

Rung(k) ==
    \/ Same(k) \/ Group(k) \/ Recheck(k) \/ Still(k) \/ Signal(k)
    \/ After(k) \/ AwaitGone(k) \/ GraceOver(k)

-----------------------------------------------------------------------------
(* Processes that come and go.                                             *)

\* A supervisor dies of itself.
Vanish(w) ==
    /\ os' = [os EXCEPT ![Home[w]] = None]
    /\ sup' = [sup EXCEPT ![w] = "gone"]

Crash(w) ==
    /\ sup[w] # "gone" /\ Spend("crash") /\ Vanish(w)
    /\ UNCHANGED <<ladder, hit>>

\* Its event loop stops turning: no heartbeat, no answer, no signal handler.
Wedge(w) ==
    /\ sup[w] = "up" /\ Spend("wedge")
    /\ sup' = [sup EXCEPT ![w] = "wedged"]
    /\ UNCHANGED <<os, ladder, hit>>

\* A pid that is free goes to a new process, except in the microseconds between
\* a killer's last read and its system call.
Fork(s, p) ==
    /\ os[p] = None
    /\ \A q \in Pids : os[q] # None => os[q].proc # s
    /\ s \notin hit
    /\ \A k \in Killers : At(k, "signal") => Home[Target(k)] # p
    /\ Spend("fork")
    /\ \E leads \in BOOLEAN : os' = [os EXCEPT ![p] = [proc |-> s, leads |-> leads]]
    /\ UNCHANGED <<sup, ladder, hit>>

-----------------------------------------------------------------------------
Place == [pc: Steps, w: Workers \cup {None}, group: BOOLEAN, known: BOOLEAN,
          rung: Rungs, how: {"gone", "refused", "outlived", None}]

SystemTypeOK ==
    /\ os \in [Pids -> Process \cup {None}]
    /\ sup \in [Workers -> Phases]
    /\ ladder \in [Killers -> Place]
    /\ \A k \in Killers : At(k, "off") <=> ladder[k].w = None
    /\ hit \subseteq Strangers
    /\ \A w \in Workers : Holds(w) <=> sup[w] # "gone"

\* No signal reaches a process that is not of this run, whatever died and
\* whoever got its pid during the climb.
NoStranger == hit = {}
=============================================================================
