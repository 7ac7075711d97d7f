-------------------------- MODULE Lifecycle_proofs --------------------------
(***************************************************************************)
(* The safety of Lifecycle, for any workers, pids, strangers and budgets.  *)
(***************************************************************************)
EXTENDS Lifecycle, TLAPS

\* A killer about to signal has the pid of its target, or of nobody: a free pid is
\* not reused between the last read and the system call.
Aimed ==
    \A k \in Killers : At(k, "signal") =>
        LET p == os[Home[Target(k)]] IN p = None \/ p.proc = Target(k)

\* A climb that ended with "gone", by a killer that has a start time to compare,
\* ended so because the target is.
OverTrue ==
    \A k \in Killers :
        At(k, "over") /\ ladder[k].how = "gone" /\ ladder[k].known
            => ~ Holds(Target(k))

SystemInv == SystemTypeOK /\ NoStranger /\ Aimed /\ OverTrue

\* state.json is written once, before anything else can know of the supervisor.
FileOnce == \A w \in Workers : sup[w] = "starting" => file[w] = None

\* The reaper climbs on workers of the table, with the start time of their file.
ReaperKnows ==
    ~ At("reaper", "off") =>
        /\ Target("reaper") \in enrolled
        /\ ladder["reaper"].known = file[Target("reaper")].started

\* What a scan has put down as gone is, if it could be told.
ReapedGone == \A w \in reaper.gone : Recorded(w) => sup[w] = "gone"

\* A supervisor that beats has done so since it was last observed.
BeatKept ==
    reaper.pc \in {"scan", "climb"} =>
        \A w \in reaper.todo : sup[w] = "up" => w \in beat

\* The reaper takes containers of workers that registered.
TakenEnrolled == \A w \in Workers : <<w, "reaper">> \in taken => w \in enrolled

\* Checkouts are deleted last, from the reports.
PrunedReported ==
    /\ pruned # {} => down.pc = "done"
    /\ \A w \in pruned : down.report[w] \in {"stopped", "unlaunched"}

\* TypeOK comes in three parts: what the ladders, the registry and down keep.
FileTypeOK ==
    /\ file \in [Workers -> Capture \cup {None}]
    /\ \A w \in Workers : sup[w] \notin {"starting", "gone"} => file[w] # None
    /\ table \subseteq enrolled /\ enrolled \subseteq {w \in Workers : file[w] # None}

RegistryTypeOK ==
    /\ FileTypeOK
    /\ container \subseteq Workers /\ beat \subseteq Workers
    /\ clock \in [Workers -> (0 .. Threshold + 1) \cup {None}]
    /\ reaper \in [pc: {"idle", "scan", "climb", "stopped"}, snap: SUBSET enrolled,
                   todo: SUBSET enrolled, gone: SUBSET enrolled]
    /\ (reaper.pc = "climb") = ~ At("reaper", "off")
    /\ taken \subseteq Workers \X Killers

DownTypeOK ==
    /\ down \in [pc: {"off", "next", "anchor", "ask", "climb", "remove", "prune", "done"},
                 todo: SUBSET Workers,
                 report: [Workers -> Reports \cup {None}]]
    /\ (down.pc \in {"anchor", "ask", "climb", "remove"}) = ~ At("down", "off")
    /\ pruned \subseteq Workers

RegistryInv ==
    /\ RegistryTypeOK
    /\ FileOnce /\ ReaperKnows /\ ReapedGone /\ BeatKept /\ TakenEnrolled
    /\ ReaperSpares /\ Listed

DownInv == DownTypeOK /\ StoppedIsGone /\ PrunedReported

IInv == SystemInv /\ RegistryInv /\ DownInv

-----------------------------------------------------------------------------
(* The ladder.                                                             *)

\* Records are not None, and no two workers share a pid.
LEMMA Facts ==
  /\ Home \in [Workers -> Pids]
  /\ \A v, w \in Workers : Home[v] = Home[w] => v = w
  /\ Workers \cap Strangers = {} /\ None \notin Workers /\ None \notin Strangers
  /\ None \notin Process /\ None \notin Capture /\ None \notin Reports
  /\ Threshold \in Nat \ {0}
  BY HomeAssumption, NamesAssumption, NoneAssumption, ThresholdAssumption

\* How a phase may change below the records.
SupMoves ==
    \A w \in Workers :
        \/ sup'[w] = sup[w]
        \/ sup'[w] = "gone"
        \/ sup[w] \in {"joined", "up"} /\ sup'[w] \in {"wedged", "stopping"}

\* A climb keeps its target and does not vanish.
LadderKeeps ==
    \A k \in Killers :
        /\ ladder'[k].w = ladder[k].w /\ ladder'[k].known = ladder[k].known
        /\ ladder'[k].pc = "off" <=> ladder[k].pc = "off"

\* A killer moves on, and no process does.
Moves(k) ==
    /\ ladder' \in [Killers -> Place]
    /\ \A j \in Killers \ {k} : ladder'[j] = ladder[j]
    /\ ladder'[k].w = ladder[k].w /\ ladder'[k].known = ladder[k].known
    /\ ladder[k].pc # "off" /\ ladder'[k].pc # "off"

LEMMA MoveKeeps ==
  ASSUME SystemInv, NEW k \in Killers, Moves(k),
         ladder'[k].pc = "signal" => Holds(Target(k)),
         ladder'[k].pc = "over" /\ ladder'[k].how = "gone" /\ ladder[k].known
            => ~ Holds(Target(k)),
         UNCHANGED <<os, sup, hit>>
  PROVE  SystemInv' /\ LadderKeeps /\ SupMoves
  <1> USE DEF SystemInv, Moves
  <1>1. LadderKeeps /\ SupMoves
    BY DEF LadderKeeps, SupMoves
  <1>2. SystemTypeOK'
    BY <1>1 DEF SystemTypeOK, At, LadderKeeps, Holds
  <1>3. NoStranger'
    BY DEF NoStranger
  <1>4. Aimed'
    <2> SUFFICES ASSUME NEW j \in Killers, At(j, "signal")'
                 PROVE  (LET p == os[Home[Target(j)]] IN p = None \/ p.proc = Target(j))'
      BY DEF Aimed
    <2>1. CASE j = k
      BY <2>1 DEF At, Target, Holds
    <2>2. CASE j # k
      BY <2>2 DEF Aimed, At, Target
    <2> QED BY <2>1, <2>2
  <1>5. OverTrue'
    <2> SUFFICES ASSUME NEW j \in Killers, At(j, "over")', (ladder[j].how = "gone")',
                        ladder'[j].known
                 PROVE  ~ Holds(Target(j))'
      BY DEF OverTrue
    <2>1. CASE j = k
      BY <2>1 DEF At, Target, Holds
    <2>2. CASE j # k
      BY <2>2 DEF OverTrue, At, Target, Holds
    <2> QED BY <2>1, <2>2
  <1> QED BY <1>1, <1>2, <1>3, <1>4, <1>5

LEMMA GotoKeeps ==
  ASSUME SystemInv, NEW k \in Killers, ladder[k].pc # "off",
         NEW pc \in Steps \ {"off", "over"}, Goto(k, pc),
         pc = "signal" => Holds(Target(k)),
         UNCHANGED <<os, sup, hit>>
  PROVE  SystemInv' /\ LadderKeeps /\ SupMoves
  <1>1. ladder \in [Killers -> Place] /\ ladder[k] \in Place
    BY DEF SystemInv, SystemTypeOK
  <1>2. [ladder[k] EXCEPT !.pc = pc] \in Place
    BY <1>1 DEF Place
  <1>3. ladder' = [ladder EXCEPT ![k] = [ladder[k] EXCEPT !.pc = pc]]
    BY <1>1 DEF Goto
  <1>4. Moves(k) /\ ladder'[k].pc = pc
    BY <1>1, <1>2, <1>3 DEF Moves, Place
  <1> QED BY <1>4, MoveKeeps

LEMMA OverKeeps ==
  ASSUME SystemInv, NEW k \in Killers, ladder[k].pc # "off",
         NEW how \in {"gone", "refused", "outlived"}, Over(k, how),
         how = "gone" /\ ladder[k].known => ~ Holds(Target(k)),
         UNCHANGED <<os, sup, hit>>
  PROVE  SystemInv' /\ LadderKeeps /\ SupMoves
  <1>1. ladder \in [Killers -> Place] /\ ladder[k] \in Place
    BY DEF SystemInv, SystemTypeOK
  <1>2. [ladder[k] EXCEPT !.pc = "over", !.how = how] \in Place
    BY <1>1 DEF Place, Steps
  <1>3. ladder' = [ladder EXCEPT ![k] = [ladder[k] EXCEPT !.pc = "over", !.how = how]]
    BY <1>1 DEF Over
  <1>4. Moves(k) /\ ladder'[k].pc = "over" /\ ladder'[k].how = how
    BY <1>1, <1>2, <1>3 DEF Moves, Place
  <1> QED BY <1>4, MoveKeeps

LEMMA ClimbOnKeeps ==
  ASSUME SystemInv, NEW k \in Killers, ladder[k].pc # "off", NEW rung \in Rungs,
         ladder' = [ladder EXCEPT ![k].pc = "same", ![k].rung = rung],
         UNCHANGED <<os, sup, hit>>
  PROVE  SystemInv' /\ LadderKeeps /\ SupMoves
  <1>1. ladder \in [Killers -> Place] /\ ladder[k] \in Place
    BY DEF SystemInv, SystemTypeOK
  <1>2. [ladder[k] EXCEPT !.pc = "same", !.rung = rung] \in Place
    BY <1>1 DEF Place, Steps
  <1>3. ladder' = [ladder EXCEPT ![k] = [ladder[k] EXCEPT !.pc = "same", !.rung = rung]]
    BY <1>1
  <1>4. Moves(k) /\ ladder'[k].pc = "same"
    BY <1>1, <1>2, <1>3 DEF Moves, Place
  <1> QED BY <1>4, MoveKeeps

\* While processes change, a killer stays or goes where nothing is claimed of it.
LadderCalm ==
    /\ ladder' \in [Killers -> Place]
    /\ \A j \in Killers :
         \/ ladder'[j] = ladder[j]
         \/ /\ ladder[j].pc # "off" /\ ladder'[j].pc \notin {"off", "signal", "over"}
            /\ ladder'[j].w = ladder[j].w /\ ladder'[j].known = ladder[j].known

LEMMA GotoCalm ==
  ASSUME SystemInv, NEW k \in Killers, ladder[k].pc # "off", Goto(k, "await")
  PROVE  LadderCalm
  <1>1. ladder \in [Killers -> Place] /\ ladder[k] \in Place
    BY DEF SystemInv, SystemTypeOK
  <1>2. [ladder[k] EXCEPT !.pc = "await"] \in Place
    BY <1>1 DEF Place, Steps
  <1>3. ladder' = [ladder EXCEPT ![k] = [ladder[k] EXCEPT !.pc = "await"]]
    BY <1>1 DEF Goto
  <1> QED BY <1>1, <1>2, <1>3 DEF LadderCalm, Place

LEMMA CalmKeeps ==
  ASSUME SystemInv, LadderCalm
  PROVE  LadderKeeps
  BY DEF LadderCalm, LadderKeeps

\* A supervisor dies.
LEMMA VanishKeeps ==
  ASSUME SystemInv, NEW w \in Workers, Vanish(w), LadderCalm, UNCHANGED hit
  PROVE  SystemInv' /\ SupMoves
  <1> USE DEF SystemInv
  <1>1. /\ os \in [Pids -> Process \cup {None}] /\ sup \in [Workers -> Phases]
        /\ Home[w] \in Pids
    BY Facts DEF SystemTypeOK
  <1>2. /\ \A p \in Pids \ {Home[w]} : os'[p] = os[p]
        /\ os'[Home[w]] = None
        /\ os' \in [Pids -> Process \cup {None}]
    BY <1>1 DEF Vanish
  <1>3. /\ \A v \in Workers \ {w} : sup'[v] = sup[v]
        /\ sup'[w] = "gone"
        /\ sup' \in [Workers -> Phases]
    BY <1>1 DEF Vanish, Phases
  <1>4. SupMoves
    BY <1>3 DEF SupMoves
  <1>5. \A v \in Workers : Holds(v)' <=> Holds(v) /\ v # w
    BY <1>2, Facts DEF Holds
  <1>6. \A k \in Killers : (ladder'[k].pc = "off") <=> (ladder'[k].w = None)
    BY DEF SystemTypeOK, At, LadderCalm
  <1>7. SystemTypeOK'
    <2>1. \A v \in Workers : (Holds(v) <=> sup[v] # "gone")'
      BY <1>5, <1>3 DEF SystemTypeOK
    <2> QED BY <1>2, <1>3, <1>6, <2>1 DEF SystemTypeOK, LadderCalm, At
  <1>8. NoStranger'
    BY DEF NoStranger
  <1>9. \A k \in Killers : ladder'[k].pc # "off" => ladder'[k].w \in Workers
    BY <1>6 DEF LadderCalm, Place
  <1>10. Aimed'
    <2> SUFFICES ASSUME NEW j \in Killers, At(j, "signal")'
                 PROVE  (LET p == os[Home[Target(j)]] IN p = None \/ p.proc = Target(j))'
      BY DEF Aimed
    <2>1. ladder'[j] = ladder[j] /\ ladder[j].pc = "signal"
      BY DEF LadderCalm, At
    <2>2. Home[ladder[j].w] \in Pids
      BY <2>1, <1>9, Facts
    <2> QED BY <1>2, <2>1, <2>2 DEF Aimed, At, Target
  <1>11. OverTrue'
    <2> SUFFICES ASSUME NEW j \in Killers, At(j, "over")', (ladder[j].how = "gone")',
                        ladder'[j].known
                 PROVE  ~ Holds(Target(j))'
      BY DEF OverTrue
    <2>1. ladder'[j] = ladder[j] /\ ladder[j].pc = "over"
      BY DEF LadderCalm, At
    <2>2. ladder[j].w \in Workers
      BY <2>1, <1>9
    <2> QED BY <1>5, <2>1, <2>2 DEF OverTrue, At, Target, Holds
  <1> QED BY <1>4, <1>7, <1>8, <1>10, <1>11

\* A live supervisor moves from one phase to another.
LEMMA PhaseKeeps ==
  ASSUME SystemInv, NEW w \in Workers, NEW phase \in Phases,
         sup' = [sup EXCEPT ![w] = phase],
         sup[w] = "gone" <=> phase = "gone",
         LadderCalm, UNCHANGED <<os, hit>>
  PROVE  SystemInv'
  <1> USE DEF SystemInv
  <1>1. /\ \A v \in Workers : sup'[v] = "gone" <=> sup[v] = "gone"
        /\ sup' \in [Workers -> Phases]
    BY DEF SystemTypeOK
  <1>2. \A v \in Workers : Holds(v)' <=> Holds(v)
    BY DEF Holds
  <1>3. \A k \in Killers : (ladder'[k].pc = "off") <=> (ladder'[k].w = None)
    BY DEF SystemTypeOK, At, LadderCalm
  <1>4. SystemTypeOK'
    BY <1>1, <1>2, <1>3 DEF SystemTypeOK, LadderCalm, At
  <1>5. NoStranger'
    BY DEF NoStranger
  <1>6. Aimed'
    BY DEF Aimed, LadderCalm, At, Target
  <1>7. OverTrue'
    BY <1>2 DEF OverTrue, LadderCalm, At, Target, Holds
  <1> QED BY <1>4, <1>5, <1>6, <1>7

\* One read, or one pause, of a killer.
LEMMA ReadKeeps ==
  ASSUME SystemInv, NEW k \in Killers,
         Same(k) \/ Group(k) \/ Recheck(k) \/ Still(k) \/ After(k)
           \/ AwaitGone(k) \/ GraceOver(k)
  PROVE  SystemInv' /\ LadderKeeps /\ SupMoves
  <1> USE DEF At
  <1>1. {"group", "signal", "recheck", "still", "after"} \subseteq Steps \ {"off", "over"}
    BY DEF Steps
  <1>2. {"term", "kill"} \subseteq Rungs
    BY DEF Rungs
  <1>3. CASE Same(k)
    <2>1. ladder[k].pc # "off" /\ UNCHANGED <<os, sup, hit>>
      BY <1>3 DEF Same
    <2>2. CASE Goto(k, "group")
      BY <2>1, <2>2, <1>1, GotoKeeps
    <2>3. CASE Goto(k, "signal") /\ SameIdentity(k)
      BY <2>1, <2>3, <1>1, GotoKeeps DEF SameIdentity
    <2>4. CASE Over(k, "gone") /\ ~ SameIdentity(k)
      BY <2>1, <2>4, OverKeeps DEF SameIdentity
    <2>5. CASE Over(k, "refused")
      BY <2>1, <2>5, OverKeeps
    <2> QED BY <1>3, <2>2, <2>3, <2>4, <2>5 DEF Same
  <1>4. CASE Group(k)
    <2>1. ladder[k].pc # "off" /\ UNCHANGED <<os, sup, hit>>
      BY <1>4 DEF Group, GroupTo
    <2>2. CASE Goto(k, "recheck")
      BY <2>1, <2>2, <1>1, GotoKeeps
    <2>3. CASE Goto(k, "still")
      BY <2>1, <2>3, <1>1, GotoKeeps
    <2>4. CASE Over(k, "refused")
      BY <2>1, <2>4, OverKeeps
    <2> QED BY <1>4, <2>2, <2>3, <2>4 DEF Group, GroupTo
  <1>5. CASE Recheck(k)
    <2>1. ladder[k].pc # "off" /\ UNCHANGED <<os, sup, hit>>
      BY <1>5 DEF Recheck
    <2>2. CASE Over(k, "gone") /\ ~ SameIdentity(k)
      BY <2>1, <2>2, OverKeeps DEF SameIdentity
    <2>3. CASE Over(k, "refused")
      BY <2>1, <2>3, OverKeeps
    <2> QED BY <1>5, <2>2, <2>3 DEF Recheck
  <1>6. CASE Still(k)
    <2>1. ladder[k].pc # "off" /\ UNCHANGED <<os, sup, hit>>
      BY <1>6 DEF Still
    <2>2. CASE Goto(k, "signal") /\ SameIdentity(k)
      BY <2>1, <2>2, <1>1, GotoKeeps DEF SameIdentity
    <2>3. CASE Over(k, "gone") /\ ~ SameIdentity(k)
      BY <2>1, <2>3, OverKeeps DEF SameIdentity
    <2>4. CASE Over(k, "refused")
      BY <2>1, <2>4, OverKeeps
    <2> QED BY <1>6, <2>2, <2>3, <2>4 DEF Still
  <1>7. CASE After(k)
    <2>1. ladder[k].pc # "off" /\ UNCHANGED <<os, sup, hit>>
      BY <1>7 DEF After, AfterBelieved
    <2>2. CASE ladder' = [ladder EXCEPT ![k].pc = "same", ![k].rung = "term"]
      BY <2>1, <2>2, <1>2, ClimbOnKeeps
    <2>3. CASE ladder' = [ladder EXCEPT ![k].pc = "same", ![k].rung = "kill"]
      BY <2>1, <2>3, <1>2, ClimbOnKeeps
    <2>4. CASE Over(k, "outlived") \/ Over(k, "refused")
      BY <2>1, <2>4, OverKeeps
    <2>5. CASE Over(k, "gone") /\ ~ SameIdentity(k)
      BY <2>1, <2>5, OverKeeps DEF SameIdentity
    <2>6. ladder[k].rung \in {"ask", "term", "kill"}
      BY DEF SystemInv, SystemTypeOK, Place, Rungs
    <2> QED BY <1>7, <2>2, <2>3, <2>4, <2>5, <2>6 DEF After, AfterBelieved
  <1>8. CASE AwaitGone(k)
    <2>1. ladder[k].pc # "off" /\ UNCHANGED <<os, sup, hit>>
      BY <1>8 DEF AwaitGone
    <2> QED BY <1>8, <2>1, OverKeeps DEF AwaitGone, SameIdentity
  <1>9. CASE GraceOver(k)
    <2>1. ladder[k].pc # "off" /\ UNCHANGED <<os, sup, hit>>
      BY <1>9 DEF GraceOver
    <2>2. CASE Goto(k, "after")
      BY <2>1, <2>2, <1>1, GotoKeeps
    <2>3. CASE Over(k, "outlived")
      BY <2>1, <2>3, OverKeeps
    <2>4. CASE ladder' = [ladder EXCEPT ![k].pc = "same",
                             ![k].rung = IF @ = "ask" THEN "term" ELSE "kill"]
      <3>1. PICK rung \in Rungs :
              rung = IF ladder[k].rung = "ask" THEN "term" ELSE "kill"
        BY <1>2
      <3>2. ladder' = [ladder EXCEPT ![k].pc = "same", ![k].rung = rung]
        BY <2>4, <3>1 DEF SystemInv, SystemTypeOK, Place
      <3> QED BY <2>1, <3>2, ClimbOnKeeps
    <2> QED BY <1>9, <2>2, <2>3, <2>4 DEF GraceOver
  <1> QED BY <1>3, <1>4, <1>5, <1>6, <1>7, <1>8, <1>9

\* The signal: of the target, or of nobody.
LEMMA SignalKeeps ==
  ASSUME SystemInv, NEW k \in Killers, Signal(k)
  PROVE  SystemInv' /\ LadderKeeps /\ SupMoves
  <1> DEFINE w == Target(k)
             p == os[Home[Target(k)]]
  <1>1. ladder[k].pc # "off" /\ w \in Workers
    BY Facts DEF Signal, At, Target, SystemInv, SystemTypeOK, Place
  <1>2. p = None \/ p.proc = w
    BY DEF SystemInv, Aimed, Signal
  <1>3. "await" \in Steps \ {"off", "over"}
    BY DEF Steps
  <1>4. CASE p = None
    <2>1. UNCHANGED <<os, sup, hit>> /\ ~ Holds(Target(k))
      BY <1>4 DEF Signal, Holds
    <2>2. CASE Over(k, "gone")
      BY <1>1, <2>1, <2>2, OverKeeps
    <2>3. CASE Goto(k, "await")
      BY <1>1, <1>3, <2>1, <2>3, GotoKeeps
    <2> QED BY <1>4, <2>2, <2>3 DEF Signal
  <1>5. CASE p # None /\ Over(k, "refused") /\ UNCHANGED <<os, sup, hit>>
    BY <1>1, <1>5, OverKeeps
  <1>6. CASE p # None /\ p.proc = w /\ Goto(k, "await") /\ UNCHANGED <<os, sup, hit>>
    BY <1>1, <1>3, <1>6, GotoKeeps
  <1>7. CASE p # None /\ p.proc = w /\ Goto(k, "await") /\ Shot(w, ladder[k].rung)
               /\ UNCHANGED hit
    <2>1. LadderCalm /\ LadderKeeps
      BY <1>1, <1>7, GotoCalm, CalmKeeps
    <2>2. CASE Deadly(w, ladder[k].rung)
      BY <1>1, <1>7, <2>1, <2>2, VanishKeeps DEF Shot, Vanish
    <2>3. CASE ~ Deadly(w, ladder[k].rung)
      <3>1. sup \in [Workers -> Phases]
        BY DEF SystemInv, SystemTypeOK
      <3>2. PICK phase \in Phases : phase = IF sup[w] = "up" THEN "stopping" ELSE sup[w]
        BY <3>1, <1>1 DEF Phases
      <3>3. sup' = [sup EXCEPT ![w] = phase] /\ UNCHANGED <<os, hit>>
        BY <1>7, <2>3, <3>2 DEF Shot
      <3>4. SystemInv'
        BY <1>1, <2>1, <3>2, <3>3, PhaseKeeps
      <3>5. SupMoves
        BY <3>1, <3>2, <3>3 DEF SupMoves
      <3> QED BY <2>1, <3>4, <3>5
    <2> QED BY <2>2, <2>3
  <1>8. p # None => p.proc \notin Strangers
    BY <1>1, <1>2, Facts
  <1> HIDE DEF w, p
  <1> QED BY <1>4, <1>5, <1>6, <1>7, <1>8 DEF Signal, w, p

LEMMA CrashKeeps ==
  ASSUME SystemInv, NEW w \in Workers, Crash(w)
  PROVE  SystemInv' /\ LadderKeeps /\ SupMoves
  <1>1. LadderCalm /\ UNCHANGED hit
    BY DEF Crash, LadderCalm, SystemInv, SystemTypeOK
  <1> QED BY <1>1, CalmKeeps, VanishKeeps DEF Crash

LEMMA WedgeKeeps ==
  ASSUME SystemInv, NEW w \in Workers, Wedge(w)
  PROVE  SystemInv' /\ LadderKeeps /\ SupMoves
  <1>1. LadderCalm /\ UNCHANGED <<os, hit>> /\ sup \in [Workers -> Phases]
    BY DEF Wedge, LadderCalm, SystemInv, SystemTypeOK
  <1>2. "wedged" \in Phases
    BY DEF Phases
  <1>3. SystemInv'
    BY <1>1, <1>2, PhaseKeeps DEF Wedge
  <1>4. SupMoves
    BY <1>1 DEF Wedge, SupMoves
  <1> QED BY <1>1, <1>3, <1>4, CalmKeeps

\* A new process takes a free pid, but not one a signal is on its way to.
LEMMA ForkKeeps ==
  ASSUME SystemInv, NEW s \in Strangers, NEW p \in Pids, Fork(s, p)
  PROVE  SystemInv' /\ LadderKeeps /\ SupMoves
  <1> USE DEF SystemInv
  <1>1. PICK leads \in BOOLEAN : os' = [os EXCEPT ![p] = [proc |-> s, leads |-> leads]]
    BY DEF Fork
  <1>2. UNCHANGED <<sup, ladder, hit>> /\ os[p] = None
    BY DEF Fork
  <1>3. /\ os' \in [Pids -> Process \cup {None}]
        /\ \A q \in Pids \ {p} : os'[q] = os[q]
        /\ os'[p].proc = s
    BY <1>1 DEF SystemTypeOK, Process
  <1>4. \A w \in Workers : Holds(w)' <=> Holds(w)
    BY <1>2, <1>3, Facts DEF Holds
  <1>5. SystemTypeOK'
    BY <1>2, <1>3, <1>4 DEF SystemTypeOK, At
  <1>6. NoStranger' /\ LadderKeeps /\ SupMoves
    BY <1>2 DEF NoStranger, LadderKeeps, SupMoves
  <1>7. Aimed'
    <2> SUFFICES ASSUME NEW j \in Killers, At(j, "signal")
                 PROVE  (LET q == os[Home[Target(j)]] IN q = None \/ q.proc = Target(j))'
      BY <1>2 DEF Aimed, At
    <2>1. Home[Target(j)] \in Pids \ {p}
      BY Facts DEF Fork, SystemTypeOK, Place, At, Target
    <2> QED BY <1>2, <1>3, <2>1 DEF Aimed, Target
  <1>8. OverTrue'
    <2> SUFFICES ASSUME NEW j \in Killers, At(j, "over"), ladder[j].how = "gone",
                        ladder[j].known
                 PROVE  ~ Holds(Target(j))'
      BY <1>2 DEF OverTrue, At
    <2>1. Target(j) \in Workers
      BY DEF SystemTypeOK, Place, At, Target
    <2> QED BY <1>2, <1>4, <2>1 DEF OverTrue, Target, Holds
  <1> QED BY <1>5, <1>6, <1>7, <1>8

LEMMA ProcessKeeps ==
  ASSUME SystemInv, ProcessSteps
  PROVE  SystemInv' /\ LadderKeeps /\ SupMoves
  <1>1. ASSUME NEW k \in Killers, Rung(k)
        PROVE  SystemInv' /\ LadderKeeps /\ SupMoves
    BY <1>1, ReadKeeps, SignalKeeps DEF Rung
  <1> QED BY <1>1, CrashKeeps, WedgeKeeps, ForkKeeps DEF ProcessSteps

\* A killer takes up a target, or lets go of it.
Resets(k) ==
    /\ ladder' \in [Killers -> Place]
    /\ \A j \in Killers \ {k} : ladder'[j] = ladder[j]
    /\ (ladder'[k].pc = "off") <=> (ladder'[k].w = None)
    /\ ladder'[k].pc # "signal"

LEMMA ResetKeeps ==
  ASSUME SystemInv, NEW k \in Killers, Resets(k),
         ladder'[k].pc = "over" => ~ Holds(ladder'[k].w),
         UNCHANGED <<os, sup, hit>>
  PROVE  SystemInv'
  <1> USE DEF SystemInv, Resets
  <1>1. SystemTypeOK'
    BY DEF SystemTypeOK, At, Holds
  <1>2. NoStranger' /\ Aimed'
    BY DEF NoStranger, Aimed, At, Target
  <1>3. OverTrue'
    BY DEF OverTrue, At, Target, Holds
  <1> QED BY <1>1, <1>2, <1>3

LEMMA ClimbKeeps ==
  ASSUME SystemInv, NEW k \in Killers, NEW w \in Workers, NEW pc \in {"after", "anchor"},
         NEW group \in BOOLEAN, NEW known \in BOOLEAN,
         Climb(k, w, pc, "ask", group, known), UNCHANGED <<os, sup, hit>>
  PROVE  /\ SystemInv' /\ \A j \in Killers \ {k} : ladder'[j] = ladder[j]
         /\ ladder'[k].w = w /\ ladder'[k].known = known /\ ladder'[k].pc = pc
  <1>1. ladder \in [Killers -> Place]
    BY DEF SystemInv, SystemTypeOK
  <1>2. [pc |-> pc, w |-> w, group |-> group, known |-> known, rung |-> "ask",
         how |-> None] \in Place
    BY DEF Place, Steps, Rungs
  <1>3. Resets(k) /\ ladder'[k].w = w /\ ladder'[k].known = known /\ ladder'[k].pc = pc
    BY <1>1, <1>2, Facts DEF Climb, Resets
  <1> QED BY <1>3, ResetKeeps DEF Resets

LEMMA OffKeeps ==
  ASSUME SystemInv, NEW k \in Killers, ladder' = [ladder EXCEPT ![k] = Off],
         UNCHANGED <<os, sup, hit>>
  PROVE  /\ SystemInv' /\ \A j \in Killers \ {k} : ladder'[j] = ladder[j]
         /\ ladder'[k].pc = "off"
  <1>1. ladder \in [Killers -> Place] /\ Off \in Place
    BY DEF SystemInv, SystemTypeOK, Off, Place, Steps, Rungs
  <1>2. Resets(k) /\ ladder'[k].pc = "off"
    BY <1>1 DEF Off, Resets
  <1> QED BY <1>2, ResetKeeps DEF Resets

-----------------------------------------------------------------------------
(* The records.                                                            *)

\* A supervisor that is gone does not come back.
GoneStays == \A w \in Workers : sup[w] = "gone" => sup'[w] = "gone"

\* What down keeps is disturbed by nothing but its own steps.
LEMMA DownKept ==
  ASSUME DownInv, GoneStays, UNCHANGED <<down, pruned>>,
         ladder'["down"].pc = "off" <=> ladder["down"].pc = "off"
  PROVE  DownInv'
  <1>1. DownTypeOK'
    BY DEF DownInv, DownTypeOK, At
  <1>2. StoppedIsGone' /\ PrunedReported'
    BY DEF DownInv, StoppedIsGone, PrunedReported, GoneStays
  <1> QED BY <1>1, <1>2 DEF DownInv

\* What the registry keeps is disturbed by no climb and no down.
LEMMA RegistryKept ==
  ASSUME RegistryInv, SupMoves, UNCHANGED <<records, reaper, taken>>,
         /\ ladder'["reaper"].w = ladder["reaper"].w
         /\ ladder'["reaper"].known = ladder["reaper"].known
         /\ ladder'["reaper"].pc = "off" <=> ladder["reaper"].pc = "off"
  PROVE  RegistryInv'
  <1> USE DEF RegistryInv, records
  <1>1. FileTypeOK' /\ FileOnce'
    BY DEF RegistryTypeOK, FileTypeOK, SupMoves, FileOnce
  <1>2. RegistryTypeOK'
    BY <1>1 DEF RegistryTypeOK, At
  <1>3. ReaperKnows'
    BY DEF ReaperKnows, At, Target
  <1>4. ReapedGone'
    BY DEF ReapedGone, RegistryTypeOK, FileTypeOK, Recorded, SupMoves
  <1>5. BeatKept'
    BY DEF BeatKept, RegistryTypeOK, FileTypeOK, SupMoves
  <1>6. TakenEnrolled' /\ ReaperSpares'
    BY DEF TakenEnrolled, ReaperSpares, Recorded
  <1>7. Listed'
    BY DEF Listed, RegistryTypeOK, FileTypeOK, Recorded, SupMoves
  <1> QED BY <1>1, <1>2, <1>3, <1>4, <1>5, <1>6, <1>7

LEMMA MovesStay ==
  ASSUME SupMoves
  PROVE  GoneStays
  BY DEF SupMoves, GoneStays

LEMMA ProcessInv ==
  ASSUME IInv, ProcessSteps
  PROVE  IInv'
  <1>1. SystemInv' /\ LadderKeeps /\ SupMoves
    BY ProcessKeeps DEF IInv
  <1>2. UNCHANGED <<records, reaper, down, taken, pruned>>
    BY DEF ProcessSteps, history
  <1>3. {"reaper", "down"} \subseteq Killers
    BY DEF Killers
  <1> QED
    BY <1>1, <1>2, <1>3, MovesStay, DownKept, RegistryKept DEF IInv, LadderKeeps

-----------------------------------------------------------------------------
(* A supervisor's own steps.                                               *)

\* A live supervisor enters another phase of its life while the killers wait.
LEMMA LivePhase ==
  ASSUME IInv, NEW w \in Workers, NEW phase \in Phases \ {"gone"}, sup[w] # "gone",
         sup' = [sup EXCEPT ![w] = phase], UNCHANGED <<os, ladder, hit, down, pruned>>
  PROVE  /\ SystemInv' /\ DownInv'
         /\ sup'[w] = phase /\ \A v \in Workers \ {w} : sup'[v] = sup[v]
  <1>1. LadderCalm /\ sup \in [Workers -> Phases]
    BY DEF LadderCalm, IInv, SystemInv, SystemTypeOK
  <1>2. SystemInv'
    BY <1>1, PhaseKeeps DEF IInv
  <1>3. GoneStays
    BY <1>1 DEF GoneStays
  <1>4. DownInv'
    BY <1>3, DownKept DEF IInv
  <1> QED BY <1>1, <1>2, <1>4

LEMMA BootsKeeps ==
  ASSUME IInv, NEW w \in Workers, Boots(w)
  PROVE  IInv'
  <1> USE DEF IInv, RegistryInv
  <1>1. "booting" \in Phases \ {"gone"}
    BY DEF Phases
  <1>2. /\ SystemInv' /\ DownInv'
        /\ sup'[w] = "booting" /\ \A v \in Workers \ {w} : sup'[v] = sup[v]
    BY <1>1, LivePhase DEF Boots, history
  <1>3. UNCHANGED <<ladder, table, enrolled, container, beat, clock, reaper, taken>>
    BY DEF Boots, history
  <1>4. PICK c \in Capture : file' = [file EXCEPT ![w] = c]
    BY DEF Boots, Capture
  <1>5. file[w] = None /\ w \notin enrolled
    BY DEF Boots, FileOnce, RegistryTypeOK, FileTypeOK
  <1>6. /\ file' \in [Workers -> Capture \cup {None}] /\ file'[w] # None
        /\ \A v \in Workers \ {w} : file'[v] = file[v]
    BY <1>4, Facts DEF RegistryTypeOK, FileTypeOK
  <1>7. FileTypeOK' /\ FileOnce'
    BY <1>2, <1>3, <1>5, <1>6 DEF RegistryTypeOK, FileTypeOK, FileOnce
  <1>8. RegistryTypeOK'
    BY <1>3, <1>7 DEF RegistryTypeOK, At
  <1>9. enrolled \subseteq Workers \ {w} /\ reaper.gone \subseteq enrolled /\ reaper.todo \subseteq enrolled
    BY <1>5 DEF RegistryTypeOK, FileTypeOK
  <1>10. ReaperKnows'
    BY <1>3, <1>6, <1>9 DEF ReaperKnows, At, Target
  <1>11. ReapedGone' /\ BeatKept'
    BY <1>2, <1>3, <1>6, <1>9 DEF ReapedGone, BeatKept, Recorded
  <1>12. TakenEnrolled' /\ ReaperSpares' /\ Listed'
    BY <1>2, <1>3, <1>6, <1>9 DEF TakenEnrolled, ReaperSpares, Listed, Recorded
  <1> QED BY <1>2, <1>7, <1>8, <1>10, <1>11, <1>12

LEMMA RegistersKeeps ==
  ASSUME IInv, NEW w \in Workers, Registers(w)
  PROVE  IInv'
  <1> USE DEF IInv, RegistryInv
  <1>1. "registered" \in Phases \ {"gone"}
    BY DEF Phases
  <1>2. /\ SystemInv' /\ DownInv'
        /\ sup'[w] = "registered" /\ \A v \in Workers \ {w} : sup'[v] = sup[v]
    BY <1>1, LivePhase DEF Registers, history
  <1>3. UNCHANGED <<ladder, file, container, beat, clock, reaper, taken>>
    BY DEF Registers, history
  <1>4. \/ table' = table \cup {w} /\ enrolled' = enrolled \cup {w}
        \/ UNCHANGED <<table, enrolled>>
    BY DEF Registers
  <1>5. file[w] # None /\ sup[w] = "booting"
    BY DEF Registers, RegistryTypeOK, FileTypeOK
  <1>6. FileTypeOK' /\ FileOnce'
    BY <1>2, <1>3, <1>4, <1>5 DEF RegistryTypeOK, FileTypeOK, FileOnce
  <1>7. RegistryTypeOK'
    <2>1. reaper' \in [pc: {"idle", "scan", "climb", "stopped"}, snap: SUBSET enrolled',
                       todo: SUBSET enrolled', gone: SUBSET enrolled']
      BY <1>3, <1>4 DEF RegistryTypeOK
    <2> QED BY <1>3, <1>6, <2>1 DEF RegistryTypeOK, At
  <1>8. ReaperKnows' /\ TakenEnrolled' /\ ReaperSpares'
    BY <1>3, <1>4 DEF ReaperKnows, TakenEnrolled, ReaperSpares, Recorded, At, Target
  <1>9. reaper.gone \subseteq Workers /\ reaper.todo \subseteq Workers
    BY DEF RegistryTypeOK, FileTypeOK
  <1>10. ReapedGone' /\ BeatKept'
    BY <1>2, <1>3, <1>5, <1>9 DEF ReapedGone, BeatKept, Recorded
  <1>11. Listed'
    BY <1>2, <1>3, <1>4, <1>5, <1>6 DEF Listed, Recorded, FileTypeOK
  <1> QED BY <1>2, <1>6, <1>7, <1>8, <1>10, <1>11

\* Starting the container, or answering, disturbs only what is known of the beat.
LEMMA JoinsKeeps ==
  ASSUME IInv, NEW w \in Workers, Spawns(w) \/ Serves(w)
  PROVE  IInv'
  <1> USE DEF IInv, RegistryInv
  <1>1. {"joined", "up"} \subseteq Phases \ {"gone"}
    BY DEF Phases
  <1>2. PICK phase \in {"joined", "up"} : sup' = [sup EXCEPT ![w] = phase] /\ (phase = "up" => w \in beat')
    BY DEF Spawns, Serves
  <1>3. /\ SystemInv' /\ DownInv'
        /\ sup'[w] = phase /\ \A v \in Workers \ {w} : sup'[v] = sup[v]
    BY <1>1, <1>2, LivePhase DEF Spawns, Serves, history
  <1>4. /\ UNCHANGED <<ladder, file, table, enrolled, clock, reaper, taken>>
        /\ beat \subseteq beat' /\ beat' \subseteq Workers /\ container' \subseteq Workers
    BY DEF Spawns, Serves, history, RegistryTypeOK
  <1>5. file[w] # None /\ sup[w] \in {"registered", "joined"}
    BY DEF Spawns, Serves, RegistryTypeOK, FileTypeOK
  <1>6. FileTypeOK' /\ FileOnce'
    BY <1>3, <1>4, <1>5 DEF RegistryTypeOK, FileTypeOK, FileOnce
  <1>7. RegistryTypeOK'
    BY <1>4, <1>6 DEF RegistryTypeOK, At
  <1>8. ReaperKnows' /\ TakenEnrolled' /\ ReaperSpares'
    BY <1>4 DEF ReaperKnows, TakenEnrolled, ReaperSpares, Recorded, At, Target
  <1>9. reaper.gone \subseteq Workers /\ reaper.todo \subseteq Workers
    BY DEF RegistryTypeOK, FileTypeOK
  <1>10. ReapedGone' /\ BeatKept'
    BY <1>2, <1>3, <1>4, <1>5, <1>9 DEF ReapedGone, BeatKept, Recorded
  <1>11. Listed'
    BY <1>3, <1>4, <1>5, <1>6 DEF Listed, Recorded, FileTypeOK
  <1> QED BY <1>3, <1>6, <1>7, <1>8, <1>10, <1>11

\* Steps that leave the processes and the killers alone.
LEMMA StillSystem ==
  ASSUME IInv, UNCHANGED <<os, sup, ladder, hit>>
  PROVE  SystemInv' /\ SupMoves /\ GoneStays
  <1>1. SystemTypeOK'
    BY DEF IInv, SystemInv, SystemTypeOK, At, Holds
  <1>2. NoStranger' /\ Aimed' /\ OverTrue'
    BY DEF IInv, SystemInv, NoStranger, Aimed, OverTrue, At, Target, Holds
  <1>3. SupMoves /\ GoneStays
    BY DEF SupMoves, GoneStays
  <1> QED BY <1>1, <1>2, <1>3 DEF SystemInv

\* A heartbeat, the end of a container, an entry withdrawn at the end of a life.
LEMMA SmallKeeps ==
  ASSUME IInv, NEW w \in Workers, Beats(w) \/ ChildExits(w) \/ Deregisters(w)
  PROVE  IInv'
  <1> USE DEF IInv, RegistryInv
  <1>1. UNCHANGED <<os, sup, ladder, hit, file, enrolled, clock, reaper, down, taken, pruned>>
    BY DEF Beats, ChildExits, Deregisters, system, history
  <1>2. SystemInv' /\ DownInv'
    BY <1>1, StillSystem, DownKept
  <1>3. /\ container' \subseteq Workers /\ beat \subseteq beat' /\ beat' \subseteq Workers
        /\ table' \subseteq table
        /\ \A v \in table \ table' : sup[v] = "stopping"
    BY DEF Beats, ChildExits, Deregisters, RegistryTypeOK
  <1>4. RegistryTypeOK' /\ FileOnce'
    BY <1>1, <1>3 DEF RegistryTypeOK, FileTypeOK, FileOnce, At
  <1>5. ReaperKnows' /\ ReapedGone' /\ BeatKept'
    BY <1>1, <1>3 DEF ReaperKnows, ReapedGone, BeatKept, Recorded, At, Target
  <1>6. TakenEnrolled' /\ ReaperSpares' /\ Listed'
    BY <1>1, <1>3 DEF TakenEnrolled, ReaperSpares, Listed, Recorded
  <1> QED BY <1>2, <1>4, <1>5, <1>6

LEMMA ExitsKeeps ==
  ASSUME IInv, NEW w \in Workers, Exits(w)
  PROVE  IInv'
  <1>1. Vanish(w) /\ UNCHANGED <<ladder, hit, records, reaper, down, taken, pruned>>
    BY DEF Exits, history
  <1>2. LadderCalm
    BY <1>1 DEF LadderCalm, IInv, SystemInv, SystemTypeOK
  <1>3. SystemInv' /\ SupMoves
    BY <1>1, <1>2, VanishKeeps DEF IInv
  <1> QED BY <1>1, <1>3, MovesStay, DownKept, RegistryKept DEF IInv

LEMMA SupervisorInv ==
  ASSUME IInv, NEW w \in Workers, SupervisorSteps(w)
  PROVE  IInv'
  BY BootsKeeps, RegistersKeeps, JoinsKeeps, SmallKeeps, ExitsKeeps DEF SupervisorSteps

-----------------------------------------------------------------------------
(* The reaper's steps.                                                     *)

LEMMA BeginScanKeeps ==
  ASSUME IInv, BeginScan
  PROVE  IInv'
  <1> USE DEF IInv, RegistryInv
  <1>1. /\ UNCHANGED <<os, sup, ladder, hit, file, table, enrolled, container, beat, clock,
                       down, taken, pruned>>
        /\ reaper.pc = "idle"
        /\ reaper' = [pc |-> "scan", snap |-> table, todo |-> table, gone |-> {}]
        /\ \A w \in Workers : sup[w] \in {"up", "stopping"} => w \in beat
    BY DEF BeginScan, system, records, history, Resting
  <1>2. SystemInv' /\ DownInv'
    BY <1>1, StillSystem, DownKept
  <1>3. table \subseteq enrolled /\ enrolled \subseteq Workers
    BY DEF RegistryTypeOK, FileTypeOK
  <1>4. RegistryTypeOK' /\ FileOnce'
    BY <1>1, <1>3 DEF RegistryTypeOK, FileTypeOK, FileOnce, At
  <1>5. ReaperKnows' /\ ReapedGone' /\ BeatKept'
    BY <1>1, <1>3 DEF ReaperKnows, ReapedGone, BeatKept, At, Target
  <1>6. TakenEnrolled' /\ ReaperSpares' /\ Listed'
    BY <1>1 DEF TakenEnrolled, ReaperSpares, Listed, Recorded
  <1> QED BY <1>2, <1>4, <1>5, <1>6

\* One look: the heartbeat seen is spent, the stopwatch set, and a stale worker
\* becomes the target of a climb.
LEMMA ObserveKeeps ==
  ASSUME IInv, NEW w \in Workers, Observe(w)
  PROVE  IInv'
  <1> USE DEF IInv, RegistryInv
  <1>1. /\ UNCHANGED <<os, sup, hit, file, table, enrolled, container, down, taken, pruned>>
        /\ reaper.pc = "scan" /\ w \in reaper.todo /\ w \in enrolled
        /\ file[w] \in Capture
    BY DEF Observe, history, RegistryTypeOK, FileTypeOK
  <1>3. Observed(w) \in Nat
    BY Facts DEF Observed, RegistryTypeOK
  <1>4. /\ clock' \in [Workers -> (0 .. Threshold + 1) \cup {None}]
        /\ beat' = beat \ {w}
    <2>1. PICK c \in 0 .. Threshold + 1 :
            c = IF Observed(w) > Threshold THEN Threshold + 1 ELSE Observed(w)
      BY <1>3, Facts
    <2> QED BY <2>1 DEF Observe, RegistryTypeOK
  <1>5. DEFINE stale == clock'[w] > Threshold
  <1>6. reaper' = [reaper EXCEPT !.todo = @ \ {w}, !.pc = IF stale THEN "climb" ELSE @]
    BY DEF Observe
  <1>7. /\ reaper'.pc = (IF stale THEN "climb" ELSE "scan")
        /\ reaper'.todo = reaper.todo \ {w}
        /\ reaper'.snap = reaper.snap /\ reaper'.gone = reaper.gone
        /\ reaper' \in [pc: {"idle", "scan", "climb", "stopped"}, snap: SUBSET enrolled,
                       todo: SUBSET enrolled, gone: SUBSET enrolled]
    BY <1>1, <1>6 DEF RegistryTypeOK
  <1>8. /\ stale => Climb("reaper", w, "after", "ask", file[w].group, file[w].started)
        /\ ~ stale => UNCHANGED ladder
    BY DEF Observe
  <1> HIDE DEF stale
  <1>9. /\ SystemInv'
        /\ ladder'["down"] = ladder["down"]
        /\ stale => /\ ladder'["reaper"].w = w
                    /\ ladder'["reaper"].known = file[w].started
                    /\ ladder'["reaper"].pc = "after"
    <2>1. CASE stale
      <3>1. file[w].group \in BOOLEAN /\ file[w].started \in BOOLEAN
        BY <1>1 DEF Capture
      <3>2. "reaper" \in Killers /\ "down" \in Killers \ {"reaper"}
        BY DEF Killers
      <3> QED BY <1>1, <1>8, <2>1, <3>1, <3>2, ClimbKeeps
    <2>2. CASE ~ stale
      BY <1>1, <1>8, <2>2, StillSystem
    <2> QED BY <2>1, <2>2
  <1>10. DownInv'
    BY <1>1, <1>9, DownKept DEF GoneStays
  <1>11. FileTypeOK' /\ FileOnce'
    BY <1>1 DEF RegistryTypeOK, FileTypeOK, FileOnce
  <1>12. RegistryTypeOK'
    <2>1. ((reaper.pc = "climb") = ~ At("reaper", "off"))'
      <3>1. CASE stale
        BY <1>7, <1>9, <3>1 DEF At
      <3>2. CASE ~ stale
        BY <1>1, <1>7, <1>8, <3>2 DEF At, RegistryTypeOK
      <3> QED BY <3>1, <3>2
    <2> QED BY <1>1, <1>4, <1>7, <1>11, <2>1 DEF RegistryTypeOK
  <1>13. ReaperKnows'
    <2>1. CASE stale
      BY <1>1, <1>9, <2>1 DEF ReaperKnows, Target
    <2>2. CASE ~ stale
      BY <1>1, <1>8, <2>2 DEF ReaperKnows, At, Target
    <2> QED BY <2>1, <2>2
  <1>14. ReapedGone' /\ BeatKept'
    BY <1>1, <1>4, <1>7 DEF ReapedGone, BeatKept, Recorded
  <1>15. TakenEnrolled' /\ ReaperSpares' /\ Listed'
    BY <1>1 DEF TakenEnrolled, ReaperSpares, Listed, Recorded
  <1> QED BY <1>9, <1>10, <1>11, <1>12, <1>13, <1>14, <1>15

LEMMA ScanAbortsKeeps ==
  ASSUME IInv, ScanAborts
  PROVE  IInv'
  <1> USE DEF IInv, RegistryInv
  <1>1. /\ UNCHANGED <<os, sup, ladder, hit, records, down, taken, pruned>>
        /\ reaper.pc = "scan" /\ reaper' = Resting
    BY DEF ScanAborts, history
  <1>2. SystemInv' /\ DownInv'
    BY <1>1, StillSystem, DownKept
  <1>3. RegistryTypeOK' /\ FileOnce'
    BY <1>1 DEF RegistryTypeOK, FileTypeOK, FileOnce, At, Resting, records
  <1>4. ReaperKnows' /\ ReapedGone' /\ BeatKept'
    BY <1>1 DEF ReaperKnows, ReapedGone, BeatKept, At, Target, Resting, records
  <1>5. TakenEnrolled' /\ ReaperSpares' /\ Listed'
    BY <1>1 DEF TakenEnrolled, ReaperSpares, Listed, Recorded, records
  <1> QED BY <1>2, <1>3, <1>4, <1>5

\* A target counted as gone, by a start time, is.
LEMMA ReapContainerKeeps ==
  ASSUME IInv, ReapContainer
  PROVE  IInv'
  <1> USE DEF IInv, RegistryInv
  <1>1. PICK w \in Workers : w = Target("reaper") /\ w \in enrolled
    BY Facts DEF ReapContainer, ReaperKnows, RegistryTypeOK, FileTypeOK
  <1>2. PICK how \in {"gone", "refused", "outlived", None} : how = ladder["reaper"].how
    BY DEF SystemInv, SystemTypeOK, Place, Killers
  <1>3. /\ UNCHANGED <<os, sup, hit, file, table, enrolled, beat, down, pruned>>
        /\ ladder' = [ladder EXCEPT !["reaper"] = Off]
        /\ At("reaper", "over") /\ reaper.pc = "climb"
    BY DEF ReapContainer
  <1>4. how = "gone" /\ Recorded(w) => sup[w] = "gone"
    <2>1. ladder["reaper"].known = file[w].started
      BY <1>1, <1>3 DEF ReaperKnows, At
    <2>2. "reaper" \in Killers
      BY DEF Killers
    <2> QED BY <1>1, <1>2, <1>3, <2>1, <2>2
            DEF SystemInv, OverTrue, SystemTypeOK, Recorded
  <1>5. /\ SystemInv' /\ ladder'["down"] = ladder["down"] /\ ladder'["reaper"].pc = "off"
    BY <1>3, OffKeeps DEF Killers
  <1>6. DownInv'
    BY <1>3, <1>5, DownKept DEF GoneStays
  <1>7. /\ reaper'.pc = "scan" /\ reaper'.snap = reaper.snap /\ reaper'.todo = reaper.todo
        /\ reaper'.gone = (IF how = "gone" THEN reaper.gone \cup {w} ELSE reaper.gone)
    BY <1>1, <1>2 DEF ReapContainer, DeregisterOnReap, RegistryTypeOK
  <1>8. reaper' \in [pc: {"idle", "scan", "climb", "stopped"}, snap: SUBSET enrolled,
                   todo: SUBSET enrolled, gone: SUBSET enrolled]
    BY <1>1, <1>2 DEF ReapContainer, DeregisterOnReap, RegistryTypeOK
  <1>9. /\ container' \subseteq Workers
        /\ clock' \in [Workers -> (0 .. Threshold + 1) \cup {None}]
        /\ \/ taken' = taken
           \/ how = "gone" /\ Live(w) /\ taken' = taken \cup {<<w, "reaper">>}
    BY <1>1, <1>2 DEF ReapContainer, Stopped, Remove, RegistryTypeOK
  <1>10. taken' \subseteq Workers \X Killers
    BY <1>9 DEF RegistryTypeOK, Killers
  <1>11. FileTypeOK' /\ FileOnce'
    BY <1>3 DEF RegistryTypeOK, FileTypeOK, FileOnce
  <1>12. RegistryTypeOK'
    BY <1>3, <1>5, <1>7, <1>8, <1>9, <1>10, <1>11 DEF RegistryTypeOK, At
  <1>13. ReaperKnows' /\ BeatKept'
    BY <1>3, <1>5, <1>7 DEF ReaperKnows, BeatKept, At
  <1>14. ReapedGone'
    BY <1>3, <1>4, <1>7 DEF ReapedGone, Recorded
  <1>15. TakenEnrolled' /\ ReaperSpares'
    BY <1>1, <1>3, <1>4, <1>9 DEF TakenEnrolled, ReaperSpares, Recorded, Live
  <1>16. Listed'
    BY <1>3 DEF Listed, Recorded
  <1> QED BY <1>5, <1>6, <1>11, <1>12, <1>13, <1>14, <1>15, <1>16

\* Entries are dropped of supervisors that are gone.
LEMMA ApplyKeeps ==
  ASSUME IInv, Apply
  PROVE  IInv'
  <1> USE DEF IInv, RegistryInv
  <1>1. /\ UNCHANGED <<os, sup, ladder, hit, file, enrolled, container, beat, clock,
                       down, taken, pruned>>
        /\ reaper.pc = "scan" /\ reaper' = Resting
        /\ table' = table \ reaper.gone
    BY DEF Apply, Applied, system, history
  <1>2. SystemInv' /\ DownInv'
    BY <1>1, StillSystem, DownKept
  <1>3. RegistryTypeOK' /\ FileOnce'
    BY <1>1 DEF RegistryTypeOK, FileTypeOK, FileOnce, At, Resting
  <1>4. ReaperKnows' /\ ReapedGone' /\ BeatKept'
    BY <1>1 DEF ReaperKnows, ReapedGone, BeatKept, At, Target, Resting
  <1>5. TakenEnrolled' /\ ReaperSpares'
    BY <1>1 DEF TakenEnrolled, ReaperSpares, Recorded
  <1>6. Listed'
    BY <1>1 DEF Listed, ReapedGone, Recorded
  <1> QED BY <1>2, <1>3, <1>4, <1>5, <1>6

LEMMA ReaperInv ==
  ASSUME IInv, ReaperSteps
  PROVE  IInv'
  BY BeginScanKeeps, ScanAbortsKeeps, ReapContainerKeeps, ApplyKeeps DEF ReaperSteps

-----------------------------------------------------------------------------
(* The down command's steps.                                               *)

\* What down keeps of its reports and of the checkouts, before the last step.
LEMMA ReportsKept ==
  ASSUME DownInv, UNCHANGED <<sup, pruned>>, down.pc # "done",
         down' \in [pc: {"off", "next", "anchor", "ask", "climb", "remove", "prune", "done"},
                   todo: SUBSET Workers,
                   report: [Workers -> Reports \cup {None}]],
         (down'.pc \in {"anchor", "ask", "climb", "remove"}) = (ladder'["down"].pc # "off"),
         \A w \in Workers : down'.report[w] = "stopped" =>
                               down.report[w] = "stopped" \/ sup[w] = "gone"
  PROVE  DownInv'
  <1>1. DownTypeOK'
    BY DEF DownInv, DownTypeOK, At
  <1>2. StoppedIsGone' /\ PrunedReported'
    BY DEF DownInv, StoppedIsGone, PrunedReported
  <1> QED BY <1>1, <1>2 DEF DownInv

\* One worker's row is written.
LEMMA RowKept ==
  ASSUME DownInv, UNCHANGED <<sup, pruned>>, down.pc # "done",
         NEW w \in Workers, NEW how \in Reports \cup {None},
         NEW pc \in {"next", "remove"}, NEW todo \in SUBSET Workers,
         down' = [down EXCEPT !.report[w] = how, !.todo = todo, !.pc = pc],
         (pc = "remove") = (ladder'["down"].pc # "off"),
         how = "stopped" => down.report[w] = "stopped" \/ sup[w] = "gone"
  PROVE  DownInv'
  <1>1. /\ down' \in [pc: {"off", "next", "anchor", "ask", "climb", "remove", "prune", "done"},
                      todo: SUBSET Workers,
                      report: [Workers -> Reports \cup {None}]]
        /\ down'.pc = pc
        /\ \A v \in Workers : down'.report[v] = IF v = w THEN how ELSE down.report[v]
    BY DEF DownInv, DownTypeOK
  <1> QED BY <1>1, ReportsKept

\* Its target, and who it is.
LEMMA DownTarget ==
  ASSUME IInv, down.pc \in {"anchor", "ask", "climb", "remove"}
  PROVE  Target("down") \in Workers /\ ladder["down"].pc # "off"
  <1>1. ladder["down"] \in Place /\ ladder["down"].pc # "off" /\ ladder["down"].w # None
    BY DEF IInv, SystemInv, SystemTypeOK, DownInv, DownTypeOK, At, Killers
  <1> QED BY <1>1 DEF Target, Place

\* Steps of down that touch its rows only.
LEMMA RowsKeep ==
  ASSUME IInv, DownInv', UNCHANGED <<os, sup, ladder, hit, records, reaper, taken>>
  PROVE  IInv'
  <1>1. SystemInv' /\ SupMoves
    BY StillSystem
  <1> QED BY <1>1, RegistryKept DEF IInv

\* Steps of down that set its own ladder.
LEMMA LadderKept ==
  ASSUME IInv, DownInv', SystemInv', UNCHANGED <<sup, records, reaper, taken>>,
         ladder'["reaper"] = ladder["reaper"]
  PROVE  IInv'
  <1>1. SupMoves
    BY DEF SupMoves
  <1> QED BY <1>1, RegistryKept DEF IInv

LEMMA DownStartsKeeps ==
  ASSUME IInv, DownStarts
  PROVE  IInv'
  <1>1. /\ UNCHANGED <<os, sup, ladder, hit, records, reaper, taken, pruned>>
        /\ down.pc = "off" /\ down' = [down EXCEPT !.pc = "next"]
    BY DEF DownStarts, history
  <1>2. DownInv'
    BY <1>1, ReportsKept DEF IInv, DownInv, DownTypeOK, At
  <1> QED BY <1>1, <1>2, RowsKeep

LEMMA RefusedKeeps ==
  ASSUME IInv, NEW w \in Workers, down.pc = "next",
         NEW how \in {"unlaunched", "refused"}, down' = Reported(w, how),
         UNCHANGED <<os, sup, ladder, hit, records, reaper, history>>
  PROVE  IInv'
  <1>1. PICK todo \in SUBSET Workers : todo = down.todo \ {w}
    BY DEF IInv, DownInv, DownTypeOK
  <1>2. down' = [down EXCEPT !.report[w] = how, !.todo = todo, !.pc = "next"]
    BY <1>1 DEF Reported
  <1>3. how \in Reports \cup {None}
    BY DEF Reports
  <1>4. ladder'["down"].pc = "off"
    BY DEF IInv, DownInv, DownTypeOK, At
  <1>5. /\ DownInv /\ UNCHANGED <<sup, pruned>> /\ down.pc # "done" /\ how # "stopped"
        /\ ("next" = "remove") = (ladder'["down"].pc # "off")
    BY <1>4 DEF IInv, history
  <1>6. DownInv'
    BY <1>2, <1>3, <1>5, RowKept
  <1> QED BY <1>6, RowsKeep DEF history

\* A pid that nothing has: the target is gone.
LEMMA FoundGoneKeeps ==
  ASSUME IInv, NEW w \in Workers, down.pc \in {"next", "anchor"},
         os[Home[w]] = None, FoundGone(w),
         UNCHANGED <<os, sup, hit, records, reaper, history>>
  PROVE  IInv'
  <1>1. ~ Holds(w) /\ sup[w] = "gone"
    BY DEF IInv, SystemInv, SystemTypeOK, Holds
  <1>2. PICK place \in Place : place = [Off EXCEPT !.pc = "over", !.w = w, !.how = "gone"]
    BY DEF Place, Off, Steps, Rungs
  <1>3. /\ place.pc = "over" /\ place.w = w
        /\ ladder' = [ladder EXCEPT !["down"] = place]
    BY <1>2 DEF FoundGone, Off
  <1>4. ladder \in [Killers -> Place] /\ "down" \in Killers /\ "reaper" \in Killers
    BY DEF IInv, SystemInv, SystemTypeOK, Killers
  <1>5. Resets("down") /\ ladder'["down"].pc = "over" /\ ladder'["down"].w = w
    BY <1>3, <1>4, Facts DEF Resets
  <1>6. SystemInv' /\ ladder'["reaper"] = ladder["reaper"]
    BY <1>1, <1>3, <1>4, <1>5, ResetKeeps DEF IInv
  <1>7. PICK todo \in SUBSET Workers : todo = down.todo
    BY DEF IInv, DownInv, DownTypeOK
  <1>8. down' = [down EXCEPT !.report[w] = "stopped", !.todo = todo, !.pc = "remove"]
    BY <1>7 DEF FoundGone, IInv, DownInv, DownTypeOK
  <1>9. "stopped" \in Reports \cup {None}
    BY DEF Reports
  <1>10. DownInv'
    BY <1>1, <1>5, <1>8, <1>9, RowKept DEF IInv, history
  <1> QED BY <1>6, <1>10, LadderKept DEF history

LEMMA AnchorKeeps ==
  ASSUME IInv, NEW w \in Workers, Anchor(w)
  PROVE  IInv'
  <1>1. UNCHANGED <<os, sup, hit, records, reaper, history>> /\ down.pc = "next"
    BY DEF Anchor
  <1>2. CASE os[Home[w]] = None /\ FoundGone(w)
    BY <1>1, <1>2, FoundGoneKeeps
  <1>3. CASE down' = Reported(w, "refused") /\ UNCHANGED ladder
    BY <1>1, <1>3, RefusedKeeps
  <1>4. CASE /\ down' = [down EXCEPT !.pc = "anchor"]
             /\ Climb("down", w, "anchor", "ask", TRUE, TRUE)
    <2>1. /\ SystemInv' /\ ladder'["reaper"] = ladder["reaper"]
          /\ ladder'["down"].pc = "anchor"
      BY <1>1, <1>4, ClimbKeeps DEF IInv, Killers
    <2>2. DownInv'
      BY <1>1, <1>4, <2>1, ReportsKept DEF IInv, DownInv, DownTypeOK, history
    <2> QED BY <1>1, <2>1, <2>2, LadderKept DEF history
  <1> QED BY <1>2, <1>3, <1>4 DEF Anchor

LEMMA AnchorGroupKeeps ==
  ASSUME IInv, AnchorGroup
  PROVE  IInv'
  <1>1. /\ UNCHANGED <<os, sup, hit, records, reaper, history>> /\ down.pc = "anchor"
        /\ Target("down") \in Workers /\ ladder["down"].pc # "off"
    BY DownTarget DEF AnchorGroup
  <1>2. CASE os[Home[Target("down")]] = None /\ FoundGone(Target("down"))
    BY <1>1, <1>2, FoundGoneKeeps
  <1>3. CASE down' = [down EXCEPT !.pc = "ask"] /\ UNCHANGED ladder
    <2>1. DownInv'
      BY <1>1, <1>3, ReportsKept DEF IInv, DownInv, DownTypeOK, history
    <2> QED BY <1>1, <1>3, <2>1, RowsKeep DEF history
  <1>4. CASE /\ ladder' = [ladder EXCEPT !["down"] = Off]
             /\ down' = Reported(Target("down"), "refused")
    <2>1. /\ SystemInv' /\ ladder'["reaper"] = ladder["reaper"]
          /\ ladder'["down"].pc = "off"
      BY <1>1, <1>4, OffKeeps DEF IInv, Killers
    <2>2. PICK todo \in SUBSET Workers : todo = down.todo \ {Target("down")}
      BY DEF IInv, DownInv, DownTypeOK
    <2>3. down' = [down EXCEPT !.report[Target("down")] = "refused", !.todo = todo,
                               !.pc = "next"]
      BY <1>4, <2>2 DEF Reported
    <2>4. "refused" \in Reports \cup {None}
      BY DEF Reports
    <2>5. DownInv'
      BY <1>1, <2>1, <2>3, <2>4, RowKept DEF IInv, history
    <2> QED BY <1>1, <2>1, <2>5, LadderKept DEF history
  <1> QED BY <1>2, <1>3, <1>4 DEF AnchorGroup

\* A supervisor that answers begins to stop; the killer waits.
LEMMA AskKeeps ==
  ASSUME IInv, Ask
  PROVE  IInv'
  <1>1. /\ UNCHANGED <<os, hit, records, reaper, taken, pruned>> /\ down.pc = "ask"
        /\ Target("down") \in Workers /\ ladder["down"].pc # "off"
        /\ Goto("down", "await") /\ down' = [down EXCEPT !.pc = "climb"]
    BY DownTarget DEF Ask, history
  <1>2. {"down", "reaper"} \subseteq Killers
    BY DEF Killers
  <1>3. LadderCalm /\ LadderKeeps
    BY <1>1, <1>2, GotoCalm, CalmKeeps DEF IInv
  <1>4. sup \in [Workers -> Phases]
    BY DEF IInv, SystemInv, SystemTypeOK
  <1>5. PICK phase \in Phases :
          phase = IF sup[Target("down")] \in {"joined", "up"} THEN "stopping"
                  ELSE sup[Target("down")]
    BY <1>1, <1>4 DEF Phases
  <1>6. sup' = [sup EXCEPT ![Target("down")] = phase]
    BY <1>5 DEF Ask
  <1>7. SystemInv'
    BY <1>1, <1>3, <1>5, <1>6, PhaseKeeps DEF IInv
  <1>8. SupMoves /\ GoneStays
    BY <1>1, <1>4, <1>5, <1>6 DEF SupMoves, GoneStays
  <1>9. RegistryInv'
    BY <1>1, <1>2, <1>3, <1>8, RegistryKept DEF IInv, LadderKeeps
  <1>10. DownInv'
    <2>1. DownTypeOK'
      BY <1>1, <1>2, <1>3 DEF IInv, DownInv, DownTypeOK, LadderKeeps, At
    <2>2. StoppedIsGone' /\ PrunedReported'
      BY <1>1, <1>8 DEF IInv, DownInv, DownTypeOK, StoppedIsGone, PrunedReported, GoneStays
    <2> QED BY <2>1, <2>2 DEF DownInv
  <1> QED BY <1>7, <1>9, <1>10 DEF IInv

\* "stopped" is written only of a target whose last read found it gone.
LEMMA VerdictKeeps ==
  ASSUME IInv, Verdict
  PROVE  IInv'
  <1>1. PICK w \in Workers : w = Target("down")
    BY DownTarget DEF Verdict
  <1>2. /\ UNCHANGED <<os, sup, ladder, hit, records, reaper, taken, pruned>>
        /\ down.pc = "climb" /\ ladder["down"].pc # "off"
    BY DownTarget DEF Verdict, history
  <1>3. PICK how \in {"running", "stopped", "refused"} :
          /\ down' = [down EXCEPT !.report[w] = how, !.pc = "remove"]
          /\ how = "stopped" => ~ Holds(w)
    BY <1>1 DEF Verdict, VerdictOf
  <1>4. how = "stopped" => sup[w] = "gone"
    BY <1>3 DEF IInv, SystemInv, SystemTypeOK
  <1>5. PICK todo \in SUBSET Workers : todo = down.todo
    BY DEF IInv, DownInv, DownTypeOK
  <1>6. down' = [down EXCEPT !.report[w] = how, !.todo = todo, !.pc = "remove"]
    BY <1>3, <1>5 DEF IInv, DownInv, DownTypeOK
  <1>7. how \in Reports \cup {None}
    BY DEF Reports
  <1>8. DownInv'
    BY <1>2, <1>4, <1>6, <1>7, RowKept DEF IInv
  <1> QED BY <1>2, <1>8, RowsKeep

\* A container taken by down is none of the reaper's.
LEMMA RemoveContainerKeeps ==
  ASSUME IInv, RemoveContainer
  PROVE  IInv'
  <1> USE DEF IInv, RegistryInv
  <1>1. PICK w \in Workers : w = Target("down")
    BY DownTarget DEF RemoveContainer
  <1>2. /\ UNCHANGED <<os, sup, hit, file, table, enrolled, beat, clock, reaper, pruned>>
        /\ down.pc = "remove" /\ ladder' = [ladder EXCEPT !["down"] = Off]
    BY DEF RemoveContainer
  <1>3. /\ SystemInv' /\ ladder'["reaper"] = ladder["reaper"] /\ ladder'["down"].pc = "off"
    BY <1>2, OffKeeps DEF Killers
  <1>4. /\ container' \subseteq Workers
        /\ taken' = taken \/ taken' = taken \cup {<<w, "down">>}
    BY <1>1 DEF RemoveContainer, Remove, RegistryTypeOK
  <1>5. RegistryTypeOK' /\ FileOnce'
    BY <1>2, <1>3, <1>4 DEF RegistryTypeOK, FileTypeOK, FileOnce, At, Killers
  <1>6. ReaperKnows' /\ ReapedGone' /\ BeatKept'
    BY <1>2, <1>3 DEF ReaperKnows, ReapedGone, BeatKept, Recorded, At, Target
  <1>7. TakenEnrolled' /\ ReaperSpares' /\ Listed'
    BY <1>2, <1>4 DEF TakenEnrolled, ReaperSpares, Listed, Recorded
  <1>8. DownInv'
    <2>1. PICK how \in Reports \cup {None} : how = down.report[w]
      BY DEF DownInv, DownTypeOK
    <2>2. PICK todo \in SUBSET Workers : todo = down.todo \ {w}
      BY DEF DownInv, DownTypeOK
    <2>3. down' = [down EXCEPT !.report[w] = how, !.todo = todo, !.pc = "next"]
      BY <1>1, <2>1, <2>2 DEF RemoveContainer, Reported
    <2>4. how = "stopped" => down.report[w] = "stopped"
      BY <2>1
    <2> QED BY <1>2, <1>3, <2>3, <2>4, RowKept
  <1> QED BY <1>3, <1>5, <1>6, <1>7, <1>8

LEMMA StopDaemonKeeps ==
  ASSUME IInv, StopDaemon
  PROVE  IInv'
  <1> USE DEF IInv, RegistryInv
  <1>1. /\ UNCHANGED <<os, sup, hit, records, taken, pruned>>
        /\ down.pc = "next" /\ down' = [down EXCEPT !.pc = "prune"]
        /\ reaper' = [Resting EXCEPT !.pc = "stopped"]
        /\ ladder' = [ladder EXCEPT !["reaper"] = Off]
    BY DEF StopDaemon, history
  <1>2. /\ SystemInv' /\ ladder'["down"] = ladder["down"] /\ ladder'["reaper"].pc = "off"
    BY <1>1, OffKeeps DEF Killers
  <1>3. RegistryTypeOK' /\ FileOnce'
    BY <1>1, <1>2 DEF RegistryTypeOK, FileTypeOK, FileOnce, At, Resting, records
  <1>4. ReaperKnows' /\ ReapedGone' /\ BeatKept'
    BY <1>1, <1>2 DEF ReaperKnows, ReapedGone, BeatKept, At, Resting
  <1>5. TakenEnrolled' /\ ReaperSpares' /\ Listed'
    BY <1>1 DEF TakenEnrolled, ReaperSpares, Listed, Recorded, records
  <1>6. DownInv'
    BY <1>1, <1>2, ReportsKept DEF DownInv, DownTypeOK, At
  <1> QED BY <1>2, <1>3, <1>4, <1>5, <1>6

LEMMA PruneKeeps ==
  ASSUME IInv, Prune
  PROVE  IInv'
  <1>1. /\ UNCHANGED <<os, sup, ladder, hit, records, reaper, taken>>
        /\ down.pc = "prune" /\ down' = [down EXCEPT !.pc = "done"]
        /\ pruned' = {w \in Workers : Prunable(w)}
    BY DEF Prune, system
  <1>2. DownTypeOK' /\ StoppedIsGone' /\ PrunedReported'
    BY <1>1 DEF IInv, DownInv, DownTypeOK, StoppedIsGone, PrunedReported, Prunable, At
  <1> QED BY <1>1, <1>2, RowsKeep DEF DownInv

LEMMA DownStepsInv ==
  ASSUME IInv, DownSteps
  PROVE  IInv'
  BY AnchorGroupKeeps, AskKeeps, VerdictKeeps, RemoveContainerKeeps, StopDaemonKeeps,
     PruneKeeps DEF DownSteps

LEMMA UnlaunchedKeeps ==
  ASSUME IInv, NEW w \in Workers, Unlaunched(w)
  PROVE  IInv'
  BY RefusedKeeps DEF Unlaunched, system

-----------------------------------------------------------------------------
(* The theorems.                                                           *)

LEMMA InitInv ==
  ASSUME Init
  PROVE  IInv
  <1>1. PICK s \in Scenarios :
          sup = [w \in Workers |-> IF w \in s.launched THEN "starting" ELSE "gone"]
    BY DEF Init
  <1>2. \A w \in Workers : sup[w] \in {"starting", "gone"}
    BY <1>1
  <1>3. \A p \in Pids : \A w \in Workers :
          Home[w] = p => (CHOOSE v \in Workers : Home[v] = p) = w
    BY Facts
  <1>4. \A p \in Pids :
          os[p] = IF \E w \in Workers : Home[w] = p /\ sup[w] # "gone"
                  THEN [proc |-> CHOOSE w \in Workers : Home[w] = p, leads |-> TRUE]
                  ELSE None
    BY DEF Init
  <1>5. os \in [Pids -> Process \cup {None}]
    <2>1. ASSUME NEW p \in Pids, NEW w \in Workers, Home[w] = p, sup[w] # "gone"
          PROVE  os[p] \in Process
      <3>1. os[p] = [proc |-> w, leads |-> TRUE]
        BY <1>3, <1>4, <2>1
      <3> QED BY <3>1 DEF Process
    <2>2. \A p \in Pids : os[p] \in Process \cup {None}
      BY <1>4, <2>1
    <2> QED BY <2>2 DEF Init
  <1>6. \A w \in Workers : Holds(w) <=> sup[w] # "gone"
    <2> SUFFICES ASSUME NEW w \in Workers PROVE Holds(w) <=> sup[w] # "gone"
      OBVIOUS
    <2>1. Home[w] \in Pids /\ (CHOOSE v \in Workers : Home[v] = Home[w]) = w
      BY <1>3, Facts
    <2>2. CASE sup[w] # "gone"
      <3>1. PICK q \in Process : q = [proc |-> w, leads |-> TRUE]
        BY DEF Process
      <3>2. os[Home[w]] = q
        BY <1>4, <2>1, <2>2, <3>1
      <3>3. q.proc = w /\ q # None
        <4>1. q.proc = w
          BY <3>1
        <4>2. q # None
          BY Facts
        <4> QED BY <4>1, <4>2
      <3> QED BY <2>2, <3>2, <3>3 DEF Holds
    <2>3. CASE sup[w] = "gone"
      <3>1. os[Home[w]] = None
        BY <1>4, <2>1, <2>3, Facts
      <3> QED BY <2>3, <3>1 DEF Holds
    <2> QED BY <2>2, <2>3
  <1>7. ladder = [k \in Killers |-> Off] /\ Off \in Place /\ Off.pc = "off" /\ Off.w = None
    BY DEF Init, Off, Place, Steps, Rungs
  <1>8. SystemInv
    <2>1. SystemTypeOK
      BY <1>1, <1>5, <1>6, <1>7 DEF SystemTypeOK, Init, Phases, At
    <2>2. NoStranger /\ Aimed /\ OverTrue
      BY <1>7 DEF Init, NoStranger, Aimed, OverTrue, At
    <2> QED BY <2>1, <2>2 DEF SystemInv
  <1>9. RegistryInv
    <2>1. RegistryTypeOK
      BY <1>2, <1>7 DEF Init, RegistryTypeOK, FileTypeOK, At, Resting, Killers
    <2>2. FileOnce /\ ReaperKnows /\ ReapedGone /\ BeatKept
      BY <1>7 DEF Init, FileOnce, ReaperKnows, ReapedGone, BeatKept, Resting, At, Killers
    <2>3. TakenEnrolled /\ ReaperSpares /\ Listed
      BY DEF Init, TakenEnrolled, ReaperSpares, Listed
    <2> QED BY <2>1, <2>2, <2>3 DEF RegistryInv
  <1>10. DownInv
    <2>1. DownTypeOK
      BY <1>7 DEF Init, DownTypeOK, At, Killers
    <2>2. \A w \in Workers : down.report[w] = None
      BY DEF Init
    <2>3. None # "stopped"
      BY Facts DEF Reports
    <2>4. StoppedIsGone /\ PrunedReported
      BY <2>2, <2>3 DEF Init, StoppedIsGone, PrunedReported
    <2> QED BY <2>1, <2>4 DEF DownInv
  <1> QED BY <1>8, <1>9, <1>10 DEF IInv

\* No step of any process, of the reaper or of down disturbs the invariant.
LEMMA NextInv ==
  ASSUME IInv, [Next]_vars
  PROVE  IInv'
  <1>1. CASE UNCHANGED vars
    BY <1>1, RowsKeep, DownKept, StillSystem DEF vars, records, IInv
  <1>2. ASSUME NEW w \in Workers,
               SupervisorSteps(w) \/ Observe(w) \/ Unlaunched(w) \/ Anchor(w)
        PROVE  IInv'
    BY <1>2, SupervisorInv, ObserveKeeps, UnlaunchedKeeps, AnchorKeeps
  <1> QED
    BY <1>1, <1>2, ProcessInv, ReaperInv, DownStartsKeeps, DownStepsInv DEF Next

\* The invariant the theorems below follow from: what ladders, registry and down keep.
THEOREM Invariance == Spec => []IInv
  <1>1. Init => IInv
    BY InitInv
  <1>2. IInv /\ [Next]_vars => IInv'
    BY NextInv
  <1> QED BY <1>1, <1>2, PTL DEF Spec

\* State.json, the table, the stopwatches, the climbs and the reports of down have
\* their types, and each scan and each climb its stage.
THEOREM TypeCorrect == Spec => []TypeOK
  <1>1. IInv => TypeOK
    BY DEF IInv, SystemInv, RegistryInv, RegistryTypeOK, FileTypeOK, DownInv, DownTypeOK,
           TypeOK
  <1> QED BY <1>1, Invariance, PTL

\* signalIfSame reaches nobody else's process, whatever died during a climb and
\* whoever has its pid.
THEOREM SignalsOnlyOurs == Spec => []NoStranger
  <1>1. IInv => NoStranger
    BY DEF IInv, SystemInv
  <1> QED BY <1>1, Invariance, PTL

\* What down reports as stopped is gone.
THEOREM StopsAreStops == Spec => []StoppedIsGone
  <1>1. IInv => StoppedIsGone
    BY DEF IInv, DownInv
  <1> QED BY <1>1, Invariance, PTL

\* --prune keeps the checkout of every launched worker that did not stop.
THEOREM PrunesAreSafe == Spec => []PruneSafe
  <1>1. IInv => PruneSafe
    BY DEF IInv, DownInv, DownTypeOK, StoppedIsGone, PrunedReported, PruneSafe
  <1> QED BY <1>1, Invariance, PTL

\* The reaper removes the container of no live supervisor with a start time.
THEOREM ReaperSparesLive == Spec => []ReaperSpares
  <1>1. IInv => ReaperSpares
    BY DEF IInv, RegistryInv
  <1> QED BY <1>1, Invariance, PTL

\* A scan that began before a worker registered does not lose it.
THEOREM TableKeepsLive == Spec => []Listed
  <1>1. IInv => Listed
    BY DEF IInv, RegistryInv
  <1> QED BY <1>1, Invariance, PTL

\* A supervisor that beats has a stopwatch at zero when it is observed.
LEMMA ObserveSpares ==
  ASSUME IInv, NEW w \in Workers, Observe(w), sup[w] = "up"
  PROVE  UNCHANGED ladder
  <1>1. w \in beat
    BY DEF IInv, RegistryInv, BeatKept, Observe
  <1>2. clock'[w] = 0
    BY <1>1, Facts DEF Observe, Observed, IInv, RegistryInv, RegistryTypeOK
  <1> QED BY <1>2, Facts DEF Observe

\* Nothing else puts the reaper on a target.
LEMMA OthersKeepOff ==
  ASSUME IInv, At("reaper", "off"), [Next]_vars, ~ \E w \in Workers : Observe(w)
  PROVE  ladder'["reaper"].w = None
  <1>1. /\ ladder["reaper"].w = None /\ ladder \in [Killers -> Place]
        /\ {"reaper", "down"} \subseteq Killers
    BY DEF IInv, SystemInv, SystemTypeOK, Killers
  <1>2. CASE UNCHANGED ladder
    BY <1>1, <1>2
  <1>3. CASE ProcessSteps
    BY <1>1, <1>3, ProcessKeeps DEF IInv, LadderKeeps
  <1>4. CASE \E w \in Workers : SupervisorSteps(w) \/ Unlaunched(w)
    <2>1. UNCHANGED ladder
      BY <1>4 DEF SupervisorSteps, Boots, Registers, Spawns, Serves, Beats, ChildExits,
                  Deregisters, Exits, Unlaunched, system
    <2> QED BY <1>2, <2>1
  <1>5. ASSUME NEW w \in Workers, Anchor(w)
        PROVE  ladder'["reaper"] = ladder["reaper"]
    BY <1>1, <1>5 DEF Anchor, FoundGone, Climb
  <1>6. CASE AnchorGroup \/ Ask \/ RemoveContainer
    BY <1>1, <1>6 DEF AnchorGroup, Ask, RemoveContainer, FoundGone, Goto
  <1>7. CASE ReapContainer \/ StopDaemon
    BY <1>1, <1>7 DEF ReapContainer, StopDaemon, Off
  <1>8. CASE BeginScan \/ ScanAborts \/ Apply \/ DownStarts \/ Verdict \/ Prune
    <2>1. UNCHANGED ladder
      BY <1>8 DEF BeginScan, ScanAborts, Apply, DownStarts, Verdict, Prune, system
    <2> QED BY <1>2, <2>1
  <1> QED
    BY <1>1, <1>2, <1>3, <1>4, <1>5, <1>6, <1>7, <1>8 DEF Next, ReaperSteps, DownSteps, vars

\* No scan takes up a supervisor whose heartbeat runs.
THEOREM BeatingIsSpared == Spec => BeatingSpared
  <1> DEFINE Spared == \A w \in Workers : At("reaper", "off") /\ ladder'["reaper"].w = w
                                              => sup[w] # "up"
  <1>1. IInv /\ [Next]_vars => [Spared]_vars
    <2> SUFFICES ASSUME IInv, [Next]_vars, NEW w \in Workers, At("reaper", "off"),
                        ladder'["reaper"].w = w, sup[w] = "up"
                 PROVE  FALSE
      OBVIOUS
    <2>1. ladder["reaper"].w = None /\ None \notin Workers
      BY Facts DEF IInv, SystemInv, SystemTypeOK, Killers
    <2>2. PICK v \in Workers : Observe(v)
      BY <2>1, OthersKeepOff
    <2>3. ~ UNCHANGED ladder
      BY <2>1
    <2>4. v = w
      BY <2>2, <2>3 DEF Observe, Climb, IInv, SystemInv, SystemTypeOK, Killers
    <2> QED BY <2>2, <2>3, <2>4, ObserveSpares
  <1> QED BY <1>1, Invariance, PTL DEF Spec, BeatingSpared
=============================================================================
