---------------------------- MODULE Triage_proofs ----------------------------
(***************************************************************************)
(* The safety of Triage, for any observers, subjects, bounds and budgets   *)
(* of faults.                                                              *)
(***************************************************************************)
EXTENDS Triage, SequenceTheorems, WellFoundedInduction, TLAPS

Stages == {"none", "open", "settled", "lost"}
SweepRecords ==
    [num : Nat, tree : Nat, parent : Stages,
     seats : [Seats -> {"none", "running", "wrote", "empty"}],
     collate : Stages, refused : BOOLEAN, age : Nat, fed : 0..2]
CursorRecords == [cursor : Nat, skips : Nat, stamp : Nat]
IncidentRecords ==
    [state : {"clear", "provisional", "firing", "flapping"}, blind : Nat,
     flaps : SUBSET Nat, seen : Nat, told : Nat, undelivered : Seq(Kinds)]
Deliveries == [retry : Nat, wait : Nat, rejected : BOOLEAN]
Memos == {"none", "timeout", "unreachable", "answers"}
Passes ==
    [k : 0..MaxSweeps, kind : {"none", "skipped", "swept", "refused", "budget"},
     cursor : Nat, skips : Nat, document : BOOLEAN, artifacts : SUBSET Seats,
     notes : [Followed -> Kinds \cup {"none"}], told : SUBSET Followed,
     lost : SUBSET Followed, delivery : Deliveries, memo : Memos]
About == {"parent", "observe", "collate", "collating", "settle"}
Places ==
    About \cup {"down", "top", "account", "read", "deliver", "fold", "save", "file",
                "watch", "sleep", "gone"}
Actors ==
    [pc : Places, loop : Nat, stamp : Nat, cursor : Nat, skips : Nat,
     delivery : Deliveries, memo : Memos, gone : Nat]

TypeOK ==
    /\ sweep \in [Sweeps -> SweepRecords]
    /\ collator \in [tree : Nat, up : BOOLEAN, halted : BOOLEAN]
    /\ disk \in [record : CursorRecords, file : Nat]
    /\ incident \in [Followed -> IncidentRecords]
    /\ actor \in Actors
    /\ pass \in Passes
    /\ faults \in Budgets

\* Nothing of the sweep is left that a pass could resume.
Over(r) == r.collate # "none" \/ \A s \in Seats : r.seats[s] \in {"none", "empty"}

\* What was fed to the incidents is over.
FedInv ==
    \A k \in Sweeps : ~ sweep[k].refused =>
        /\ sweep[k].fed <= 1
        /\ sweep[k].fed # 0 => Over(sweep[k])

\* The sweep a pass is about was not fed yet, and what the pass has done with it.
PassInv ==
    /\ actor.pc \in About \ {"settle"} => pass.kind = "swept"
    /\ actor.pc \in About /\ Assessed =>
          pass.k \in Sweeps /\ (~ This.refused => This.fed = 0)
    /\ At("parent") => \A s \in Seats : This.seats[s] = "none"
    /\ At("collating") => This.collate # "none"
    /\ At("settle") /\ Assessed => This.refused \/ Over(This)

\* What a pass has to say is told or about to be noted.
ToldInv ==
    /\ At("fold") => /\ Spoken(pass.notes) \subseteq pass.told \cup pass.lost
                     /\ pass.lost \subseteq Spoken(pass.notes)
    /\ ToldOrNoted

IInv == TypeOK /\ FedInv /\ PassInv /\ ToldInv
-----------------------------------------------------------------------------
(* Numbers, faults and records.                                            *)

\* The largest of some numbers up to a bound is one of them (the latest sweep,
\* the sweeps a failed delivery waits).
LEMMA LargestIs ==
  ASSUME NEW b \in Nat, NEW S \in SUBSET (1..b)
  PROVE  /\ Largest(S) \in S \cup {0} /\ Largest(S) \in Nat
         /\ \A n \in S : n <= Largest(S)
  <1> DEFINE B == {u \in Nat : \A n \in S : n <= u}
  <1>1. B \in SUBSET Nat /\ b \in B
    OBVIOUS
  <1>2. PICK m \in B : \A n \in B : ~ (<<n, m>> \in OpToRel(<, Nat))
    BY <1>1, NatLessThanWellFounded, WFMin
  <1>3. \A n \in B : ~ (n < m)
    <2> SUFFICES ASSUME NEW n \in B, n < m PROVE FALSE
      OBVIOUS
    <2>1. <<n, m>> \in OpToRel(<, Nat)
      BY DEF OpToRel
    <2> QED BY <1>2, <2>1
  <1>4. m \in S \cup {0}
    <2> SUFFICES ASSUME m # 0, m \notin S PROVE FALSE
      OBVIOUS
    <2>1. m - 1 \in Nat /\ m - 1 < m
      OBVIOUS
    <2>2. \A n \in S : n <= m - 1
      OBVIOUS
    <2>3. m - 1 \in B
      BY <2>1, <2>2
    <2> QED BY <1>3, <2>1, <2>3
  <1>5. \A n \in S : n <= m
    OBVIOUS
  <1>6. Largest(S) \in S \cup {0} /\ \A n \in S : n <= Largest(S)
    BY <1>4, <1>5 DEF Largest
  <1>7. S \cup {0} \subseteq Nat
    OBVIOUS
  <1> QED BY <1>6, <1>7

\* A fault that happens is one less to happen.
LEMMA SpendIs ==
  ASSUME faults \in Budgets,
         NEW f \in {"late", "recycle", "halt", "save", "lose", "die", "crash", "remove"},
         Spend(f)
  PROVE  faults' \in Budgets
  <1> DEFINE n == faults[f] - 1
  <1>1. faults[f] \in Nat /\ n \in Nat
    BY DEF Budgets, Spend
  <1>2. faults' = [faults EXCEPT ![f] = n]
    BY DEF Spend
  <1> HIDE DEF n
  <1> QED BY <1>1, <1>2 DEF Budgets

\* What an observation of a subject makes of its record, and whether it says so.
Advances == [record : IncidentRecords, note : Kinds \cup {"none"}]

\* advanceIncident returns a record and at most one notification.
LEMMA AdvanceIs ==
  ASSUME NEW r \in IncidentRecords, NEW signal \in Signals
  PROVE  AdvanceIncident(r, signal) \in Advances
  <1>1. ASSUME NEW q \in IncidentRecords PROVE Quiet(q) \in Advances
    BY DEF Quiet, Advances
  <1>2. ASSUME NEW q \in IncidentRecords, NEW kind \in Kinds
        PROVE  Told(q, kind) \in Advances
    BY DEF Told, Advances, IncidentRecords
  <1>3. ASSUME NEW q \in IncidentRecords PROVE WithReminder(q) \in Advances
    BY <1>1, <1>2 DEF WithReminder, Kinds
  <1>4. OnIssue(r) \in Advances
    <2> DEFINE base == [r EXCEPT !.blind = 0, !.seen = 0]
    <2>1. base \in IncidentRecords
      BY DEF IncidentRecords
    <2>2. [base EXCEPT !.state = "provisional"] \in IncidentRecords
          /\ [base EXCEPT !.state = "firing"] \in IncidentRecords
          /\ [base EXCEPT !.state = "firing", !.flaps = {}] \in IncidentRecords
      BY <2>1 DEF IncidentRecords
    <2>3. SettleFlapping(base) \in Advances
      BY <1>2, <2>2 DEF SettleFlapping, Kinds
    <2> HIDE DEF base
    <2>4. Quiet([base EXCEPT !.state = "provisional"]) \in Advances
          /\ Told([base EXCEPT !.state = "firing"], "opened") \in Advances
          /\ WithReminder(base) \in Advances /\ Quiet(base) \in Advances
      BY <1>1, <1>2, <1>3, <2>1, <2>2 DEF Kinds
    <2>5. r.state \in {"clear", "provisional", "firing", "flapping"}
      BY DEF IncidentRecords
    <2> QED BY <2>3, <2>4, <2>5 DEF OnIssue, base
  <1>5. OnObservedClear(r) \in Advances
    <2> DEFINE base == [r EXCEPT !.blind = 0]
               flaps == r.flaps \cup {0}
               flapped == [base EXCEPT !.flaps = flaps]
    <2>0. flaps \in SUBSET Nat /\ base \in IncidentRecords
      BY DEF IncidentRecords
    <2> HIDE DEF flaps, base
    <2>1. base \in IncidentRecords /\ flapped \in IncidentRecords
      BY <2>0 DEF IncidentRecords
    <2>2. /\ [flapped EXCEPT !.state = "flapping"] \in IncidentRecords
          /\ [flapped EXCEPT !.state = "clear"] \in IncidentRecords
          /\ [base EXCEPT !.state = "clear", !.flaps = {}] \in IncidentRecords
      BY <2>1 DEF IncidentRecords
    <2>3. r.state \in {"clear", "provisional", "firing", "flapping"}
      BY DEF IncidentRecords
    <2>4. /\ Told([flapped EXCEPT !.state = "flapping"], "flapping") \in Advances
          /\ Quiet([flapped EXCEPT !.state = "clear"]) \in Advances
          /\ Told([flapped EXCEPT !.state = "clear"], "recovered") \in Advances
          /\ Quiet(base) \in Advances /\ Quiet(flapped) \in Advances
          /\ Told([base EXCEPT !.state = "clear", !.flaps = {}], "recovered") \in Advances
      BY <1>1, <1>2, <2>1, <2>2 DEF Kinds
    <2> HIDE DEF flapped
    <2> QED BY <2>3, <2>4 DEF OnObservedClear, base, flaps, flapped
  <1>6. OnUnobserved(r) \in Advances
    <2> DEFINE base == [r EXCEPT !.blind = IF @ < CoverageThreshold THEN @ + 1 ELSE @]
               opened == [base EXCEPT !.state = "firing",
                                      !.flaps = IF r.state = "flapping" THEN {} ELSE @]
    <2>1. base \in IncidentRecords
      BY DEF IncidentRecords, CoverageThreshold
    <2> HIDE DEF base
    <2>2. opened \in IncidentRecords
      BY <2>1 DEF IncidentRecords
    <2>3. OnUnobserved(r) = IF base.blind >= CoverageThreshold /\ r.state # "firing"
                            THEN Told(opened, "opened") ELSE WithReminder(base)
      BY DEF OnUnobserved, base
    <2> HIDE DEF opened
    <2> QED BY <1>2, <1>3, <2>1, <2>2, <2>3 DEF Kinds
  <1>7. Quiet(r) \in Advances
    BY <1>1
  <1> QED BY <1>4, <1>5, <1>6, <1>7 DEF AdvanceIncident, Signals

\* withUndelivered ends with what it was given.
LEMMA UndeliveredIs ==
  ASSUME NEW r \in IncidentRecords, NEW kind \in Kinds
  PROVE  LET u == WithUndelivered(r, kind) IN
         /\ u \in IncidentRecords
         /\ u.undelivered # <<>> /\ Last(u.undelivered) = kind
  <1> DEFINE old == r.undelivered
             all == Append(old, kind)
             m == IF Len(all) > MaxUndelivered THEN 2 ELSE 1
             new == SubSeq(all, m, Len(all))
  <1>1. old \in Seq(Kinds)
    BY DEF IncidentRecords
  <1>2. all \in Seq(Kinds) /\ Len(all) = Len(old) + 1 /\ all[Len(old) + 1] = kind
        /\ Len(old) \in Nat
    BY <1>1
  <1>3. m \in 1..Len(all)
    BY <1>2, IncidentConstants
  <1> HIDE DEF all, m
  <1>4. /\ new \in Seq(Kinds) /\ Len(new) = Len(all) - m + 1
        /\ \A i \in 1 .. Len(all) - m + 1 : new[i] = all[m + i - 1]
    BY <1>2, <1>3, SubSeqProperties
  <1>5. WithUndelivered(r, kind) = [r EXCEPT !.undelivered = new]
    BY DEF WithUndelivered, all, m
  <1> HIDE DEF new
  <1>6. Len(new) \in Nat /\ Len(new) # 0 /\ new[Len(new)] = kind
    <2>1. Len(new) \in 1 .. Len(all) - m + 1 /\ m + Len(new) - 1 = Len(all)
      BY <1>2, <1>3, <1>4
    <2> QED BY <1>2, <1>4, <2>1
  <1>7. new # <<>>
    BY <1>6
  <1> QED BY <1>4, <1>5, <1>6, <1>7 DEF IncidentRecords, Last

-----------------------------------------------------------------------------
(* What most steps have in common.                                         *)

\* A delivery's state before anything failed, and what a pass starts from.
LEMMA FreshIs == FreshDelivery \in Deliveries /\ NoPass \in Passes /\ NoPass.k = 0
  <1>1. FreshDelivery \in Deliveries
    BY DEF FreshDelivery, Deliveries
  <1>2. [s \in Followed |-> "none"] \in [Followed -> Kinds \cup {"none"}]
    OBVIOUS
  <1>3. MaxSweeps \in Nat
    BY TriageConstants
  <1> DEFINE f == FreshDelivery
             n == [s \in Followed |-> "none"]
  <1>4. NoPass = [k |-> 0, kind |-> "none", cursor |-> 0, skips |-> 0, document |-> FALSE,
                  artifacts |-> {}, notes |-> n, told |-> {}, lost |-> {},
                  delivery |-> f, memo |-> "none"]
    BY DEF NoPass
  <1>5. f \in Deliveries /\ n \in [Followed -> Kinds \cup {"none"}]
    BY <1>1, <1>2
  <1> HIDE DEF f, n
  <1>6. NoPass \in Passes
    BY <1>3, <1>4, <1>5 DEF Passes, Memos
  <1>7. NoPass.k = 0
    BY <1>4
  <1> QED BY <1>1, <1>6, <1>7

\* The actor goes on, and is otherwise what it was.
LEMMA GotoIs ==
  ASSUME TypeOK, NEW p \in Places, Goto(p)
  PROVE  actor' \in Actors /\ actor'.pc = p
  BY DEF Goto, TypeOK, Actors

\* A pass that throws leaves the types alone.
LEMMA FailIs ==
  ASSUME TypeOK, PassFails
  PROVE  actor' \in Actors /\ actor'.pc = "watch" /\ pass' \in Passes
  BY GotoIs, FreshIs DEF PassFails, Places

\* A step that ends between passes and leaves the sweeps alone.
LEMMA QuietStep ==
  ASSUME IInv, TypeOK', sweep' = sweep, actor'.pc \notin About \cup {"fold", "save"}
  PROVE  IInv'
  <1>1. FedInv'
    BY DEF IInv, FedInv, Over
  <1>2. PassInv'
    BY DEF PassInv, At, About
  <1>3. ToldInv'
    BY DEF ToldInv, ToldOrNoted, At
  <1> QED BY <1>1, <1>2, <1>3 DEF IInv

\* A sweep that its workers moved: what was over stays over, and a seat that was
\* not asked does not answer.
Keeps(r, q) ==
    /\ q.fed = r.fed /\ q.refused = r.refused
    /\ r.collate # "none" => q.collate # "none"
    /\ \A s \in Seats : /\ r.seats[s] = "none" => q.seats[s] = "none"
                        /\ r.seats[s] = "empty" => q.seats[s] = "empty"

\* A step of the workers.
LEMMA WorldStep ==
  ASSUME IInv, TypeOK', UNCHANGED <<pass, incident, actor>>,
         \A k \in Sweeps : Keeps(sweep[k], sweep'[k])
  PROVE  IInv'
  <1>1. \A k \in Sweeps : /\ sweep'[k].fed = sweep[k].fed
                          /\ sweep'[k].refused = sweep[k].refused
                          /\ Over(sweep[k]) => Over(sweep'[k])
    BY DEF Keeps, Over
  <1>2. FedInv'
    BY <1>1 DEF IInv, FedInv
  <1>3. PassInv'
    <2>1. actor.pc \in About /\ Assessed => pass.k \in Sweeps
      BY DEF IInv, PassInv
    <2>2. CASE pass.k \in Sweeps
      <3>1. /\ This'.fed = This.fed /\ This'.refused = This.refused
            /\ Over(This) => Over(This')
            /\ This.collate # "none" => This'.collate # "none"
            /\ (\A s \in Seats : This.seats[s] = "none")
                   => (\A s \in Seats : This'.seats[s] = "none")
        BY <1>1, <2>2 DEF This, Keeps
      <3>2. Over(This)' <=> Over(This')
        BY DEF Over
      <3> QED BY <3>1, <3>2 DEF IInv, PassInv, At, Assessed, About
    <2>3. CASE ~ (actor.pc \in About /\ Assessed)
      BY <2>3 DEF IInv, PassInv, At, Assessed, About
    <2> QED BY <2>1, <2>2, <2>3
  <1>4. ToldInv'
    BY DEF IInv, ToldInv, ToldOrNoted, At, Spoken
  <1> QED BY <1>2, <1>3, <1>4 DEF IInv

-----------------------------------------------------------------------------
(* Between passes.                                                         *)

\* The larger of two cursors is one of them.
LEMMA LargerIs ==
  ASSUME NEW a \in Nat, NEW b \in Nat PROVE Larger(a, b) \in Nat
  BY DEF Larger

\* The actor starts from what it finds on disk.
LEMMA StartKeeps == ASSUME IInv, Start PROVE IInv'
  <1> DEFINE c == Larger(disk.record.cursor, disk.file)
             d == FreshDelivery
  <1>1. /\ disk.record.cursor \in Nat /\ disk.file \in Nat
        /\ disk.record.stamp \in Nat /\ disk.record.skips \in Nat
    BY DEF IInv, TypeOK, CursorRecords
  <1>2. c \in Nat /\ d \in Deliveries
    BY <1>1, LargerIs, FreshIs
  <1>3. actor' = [Dead EXCEPT !.pc = "top", !.loop = disk.record.cursor,
                    !.stamp = disk.record.stamp, !.skips = disk.record.skips, !.cursor = c]
    BY DEF Start
  <1>4. actor' = [pc |-> "top", loop |-> disk.record.cursor, stamp |-> disk.record.stamp,
                  cursor |-> c, skips |-> disk.record.skips, delivery |-> d,
                  memo |-> "none", gone |-> 0]
    BY <1>3 DEF Dead
  <1> HIDE DEF c, d
  <1>5. actor' \in Actors /\ actor'.pc = "top"
    BY <1>1, <1>2, <1>4 DEF Actors, Places, Memos
  <1>6. UNCHANGED <<sweep, collator, disk, incident, pass, faults>>
    BY DEF Start, world
  <1>7. TypeOK'
    BY <1>5, <1>6 DEF IInv, TypeOK
  <1> QED BY <1>5, <1>6, <1>7, QuietStep DEF About

\* The collator's seat is recycled, or is not, or the console is not whole.
LEMMA RecycleKeeps ==
  ASSUME IInv, Recycle \/ RecycleFails \/ Withheld \/ Boundary
  PROVE  IInv'
  <1>0. TypeOK
    BY DEF IInv
  <1>1. CASE Recycle
    <2>1. /\ actor.loop \in Nat /\ actor.skips \in Nat /\ actor \in Actors
          /\ collator.tree \in Nat
      BY <1>0 DEF TypeOK, Actors
    <2>2. collator' \in [tree : Nat, up : BOOLEAN, halted : BOOLEAN]
      BY <1>1, <2>1 DEF Recycle
    <2>3. actor' \in Actors /\ actor'.pc = "account"
      BY <1>1, <2>1 DEF Recycle, Actors, Places
    <2>4. disk' \in [record : CursorRecords, file : Nat]
      BY <1>0, <1>1, <2>1 DEF Recycle, TypeOK, CursorRecords
    <2>5. UNCHANGED <<sweep, incident, pass, faults>>
      BY <1>1 DEF Recycle
    <2>6. TypeOK'
      BY <1>0, <2>2, <2>3, <2>4, <2>5 DEF TypeOK
    <2> QED BY <2>3, <2>5, <2>6, QuietStep DEF About
  <1>2. CASE RecycleFails
    <2>1. faults' \in Budgets
      BY <1>0, <1>2, SpendIs DEF RecycleFails, TypeOK
    <2>2. collator' \in [tree : Nat, up : BOOLEAN, halted : BOOLEAN]
      BY <1>0, <1>2 DEF RecycleFails, TypeOK
    <2>3. actor' \in Actors /\ actor'.pc \in {"account", "watch"}
      BY <1>0, <1>2, GotoIs DEF RecycleFails, Places
    <2>4. UNCHANGED <<sweep, disk, incident, pass>>
      BY <1>2 DEF RecycleFails
    <2>5. TypeOK'
      BY <1>0, <2>1, <2>2, <2>3, <2>4 DEF TypeOK
    <2> QED BY <2>3, <2>4, <2>5, QuietStep DEF About
  <1>3. CASE Withheld \/ Boundary
    <2>1. actor' \in Actors /\ actor'.pc \in {"account", "watch"}
      BY <1>0, <1>3, GotoIs DEF Withheld, Boundary, Places
    <2>2. UNCHANGED <<sweep, collator, disk, incident, pass, faults>>
      BY <1>3 DEF Withheld, Boundary, world
    <2>3. TypeOK'
      BY <1>0, <2>1, <2>2 DEF TypeOK
    <2> QED BY <2>1, <2>2, <2>3, QuietStep DEF About
  <1> QED BY <1>1, <1>2, <1>3

\* The budget's account, the watch, and the passes that throw or time out.
LEMMA IdleKeeps ==
  ASSUME IInv, Account \/ Watch \/ OpenThrows \/ TimesOut
  PROVE  IInv'
  <1>0. TypeOK
    BY DEF IInv
  <1>1. CASE Account
    <2>1. actor' \in Actors /\ actor'.pc = "read"
      BY <1>0, <1>1, GotoIs DEF Account, Places
    <2>2. faults' \in Budgets
      BY <1>0, <1>1, SpendIs DEF Account, TypeOK
    <2>3. collator' \in [tree : Nat, up : BOOLEAN, halted : BOOLEAN]
      BY <1>0, <1>1 DEF Account, TypeOK
    <2>4. UNCHANGED <<sweep, disk, incident, pass>>
      BY <1>1 DEF Account
    <2>5. TypeOK'
      BY <1>0, <2>1, <2>2, <2>3, <2>4 DEF TypeOK
    <2> QED BY <2>1, <2>4, <2>5, QuietStep DEF About
  <1>2. CASE Watch
    <2> DEFINE gone == IF collator.up THEN 0 ELSE actor.gone + 1
               p == IF gone >= Tolerance THEN "gone" ELSE "sleep"
    <2>1. gone \in Nat
      BY <1>0 DEF TypeOK, Actors
    <2>2. actor' = [actor EXCEPT !.gone = gone, !.pc = p] /\ p \in {"gone", "sleep"}
      BY <1>2 DEF Watch
    <2> HIDE DEF gone, p
    <2>3. actor' \in Actors /\ actor'.pc = p
      BY <1>0, <2>1, <2>2 DEF TypeOK, Actors, Places
    <2>4. UNCHANGED <<sweep, collator, disk, incident, pass, faults>>
      BY <1>2 DEF Watch, world
    <2>5. TypeOK'
      BY <1>0, <2>3, <2>4 DEF TypeOK
    <2> QED BY <2>2, <2>3, <2>4, <2>5, QuietStep DEF About
  <1>3. CASE OpenThrows \/ TimesOut
    <2>1. actor' \in Actors /\ actor'.pc = "watch" /\ pass' \in Passes
      BY <1>0, <1>3, FailIs DEF OpenThrows, TimesOut
    <2>2. faults' \in Budgets
      BY <1>0, <1>3, SpendIs DEF OpenThrows, TimesOut, TypeOK
    <2>3. UNCHANGED <<sweep, collator, disk, incident>>
      BY <1>3 DEF OpenThrows, TimesOut, world
    <2>4. TypeOK'
      BY <1>0, <2>1, <2>2, <2>3 DEF TypeOK
    <2> QED BY <2>1, <2>3, <2>4, QuietStep DEF About
  <1> QED BY <1>1, <1>2, <1>3

-----------------------------------------------------------------------------
(* The workers, the cadence and the faults.                                *)

\* One sweep's tasks move.
LEMMA OneSweep ==
  ASSUME TypeOK, NEW k \in Sweeps, NEW q \in SweepRecords, Keeps(sweep[k], q),
         sweep' = [sweep EXCEPT ![k] = q]
  PROVE  /\ sweep' \in [Sweeps -> SweepRecords]
         /\ \A j \in Sweeps : Keeps(sweep[j], sweep'[j])
  <1>1. sweep \in [Sweeps -> SweepRecords]
    BY DEF TypeOK
  <1>2. \A j \in Sweeps : Keeps(sweep[j], sweep[j])
    BY DEF Keeps
  <1>3. \A j \in Sweeps : sweep'[j] = IF j = k THEN q ELSE sweep[j]
    BY <1>1
  <1>4. sweep' \in [Sweeps -> SweepRecords]
    BY <1>1
  <1> QED BY <1>2, <1>3, <1>4

\* The collator and the observers settle what they were asked; a task is lost.
LEMMA WorkersKeep ==
  ASSUME IInv, NEW k \in Sweeps, NEW s \in Seats,
         ParentSettles(k) \/ CollateSettles(k) \/ SeatSettles(k, s) \/ TaskLost(k)
  PROVE  IInv'
  <1>0. TypeOK /\ sweep \in [Sweeps -> SweepRecords] /\ sweep[k] \in SweepRecords
    BY DEF IInv, TypeOK
  <1>1. UNCHANGED <<collator, disk, incident, actor, pass>>
    BY DEF ParentSettles, CollateSettles, SeatSettles, TaskLost
  <1>2. faults' \in Budgets
    BY <1>0, SpendIs DEF ParentSettles, CollateSettles, SeatSettles, TaskLost, TypeOK
  <1>3. \E q \in SweepRecords : Keeps(sweep[k], q) /\ sweep' = [sweep EXCEPT ![k] = q]
    <2>1. CASE ParentSettles(k)
      <3> DEFINE q == [sweep[k] EXCEPT !.parent = "settled"]
      <3>1. sweep' = [sweep EXCEPT ![k] = q]
        BY <2>1, <1>0 DEF ParentSettles
      <3>2. q \in SweepRecords /\ Keeps(sweep[k], q)
        BY <1>0 DEF SweepRecords, Keeps, Stages
      <3> QED BY <3>1, <3>2
    <2>2. CASE CollateSettles(k)
      <3> DEFINE q == [sweep[k] EXCEPT !.collate = "settled"]
      <3>1. sweep' = [sweep EXCEPT ![k] = q]
        BY <2>2, <1>0 DEF CollateSettles
      <3>2. q \in SweepRecords /\ Keeps(sweep[k], q)
        BY <1>0 DEF SweepRecords, Keeps, Stages
      <3> QED BY <3>1, <3>2
    <2>3. CASE SeatSettles(k, s)
      <3>1. PICK how \in {"wrote", "empty"} : sweep' = [sweep EXCEPT ![k].seats[s] = how]
        BY <2>3 DEF SeatSettles
      <3> DEFINE z == [sweep[k].seats EXCEPT ![s] = how]
                 q == [sweep[k] EXCEPT !.seats = z]
      <3>2. sweep' = [sweep EXCEPT ![k] = q]
        BY <3>1
      <3>3. sweep[k].seats \in [Seats -> {"none", "running", "wrote", "empty"}]
            /\ sweep[k].seats[s] = "running"
        BY <1>0, <2>3 DEF SweepRecords, SeatSettles
      <3>4. /\ z \in [Seats -> {"none", "running", "wrote", "empty"}]
            /\ \A x \in Seats : x # s => z[x] = sweep[k].seats[x]
        BY <3>3
      <3> HIDE DEF z
      <3>5. q \in SweepRecords /\ q.seats = z /\ q.fed = sweep[k].fed
            /\ q.refused = sweep[k].refused /\ q.collate = sweep[k].collate
        BY <1>0, <3>4 DEF SweepRecords
      <3>6. Keeps(sweep[k], q)
        BY <3>3, <3>4, <3>5 DEF Keeps
      <3> QED BY <3>2, <3>5, <3>6
    <2>4. CASE TaskLost(k)
      <3> DEFINE p == IF sweep[k].parent = "open" THEN "lost" ELSE sweep[k].parent
                 c == IF sweep[k].collate = "open" THEN "lost" ELSE sweep[k].collate
                 q == [sweep[k] EXCEPT !.parent = p, !.collate = c]
      <3>1. sweep' = [sweep EXCEPT ![k] = q]
        BY <2>4, <1>0 DEF TaskLost
      <3>2. p \in Stages /\ c \in Stages /\ (sweep[k].collate # "none" => c # "none")
        BY <1>0 DEF SweepRecords, Stages
      <3> HIDE DEF p, c
      <3>3. q \in SweepRecords /\ Keeps(sweep[k], q)
        BY <1>0, <3>2 DEF SweepRecords, Keeps
      <3> QED BY <3>1, <3>3
    <2> QED BY <2>1, <2>2, <2>3, <2>4
  <1>4. /\ sweep' \in [Sweeps -> SweepRecords]
        /\ \A j \in Sweeps : Keeps(sweep[j], sweep'[j])
    BY <1>0, <1>3, OneSweep
  <1>5. TypeOK'
    BY <1>0, <1>1, <1>2, <1>4 DEF TypeOK
  <1> QED BY <1>1, <1>4, <1>5, WorldStep

\* A tick makes everything a tick older.
LEMMA SleepKeeps == ASSUME IInv, Sleep PROVE IInv'
  <1>0. TypeOK /\ sweep \in [Sweeps -> SweepRecords]
    BY DEF IInv, TypeOK
  <1>1. actor' \in Actors /\ actor'.pc = "top"
    BY <1>0, GotoIs DEF Sleep, Places
  <1>2. UNCHANGED <<collator, disk, pass, faults>>
    BY DEF Sleep
  <1>3. \A k \in Sweeps : sweep'[k] \in SweepRecords /\ Keeps(sweep[k], sweep'[k])
    <2> SUFFICES ASSUME NEW k \in Sweeps
                 PROVE  sweep'[k] \in SweepRecords /\ Keeps(sweep[k], sweep'[k])
      OBVIOUS
    <2> DEFINE a == IF sweep[k].parent # "none" /\ sweep[k].age < Expiry
                    THEN sweep[k].age + 1 ELSE sweep[k].age
    <2>1. sweep'[k] = [sweep[k] EXCEPT !.age = a]
      BY DEF Sleep
    <2>2. a \in Nat /\ sweep[k] \in SweepRecords
      BY <1>0 DEF SweepRecords
    <2> HIDE DEF a
    <2> QED BY <2>1, <2>2 DEF SweepRecords, Keeps
  <1>4. sweep' \in [Sweeps -> SweepRecords]
    BY <1>3 DEF Sleep
  <1>5. incident' \in [Followed -> IncidentRecords]
    <2>1. ASSUME NEW r \in IncidentRecords PROVE Aged(r) \in IncidentRecords
      <3> DEFINE f == {a + 1 : a \in {b \in r.flaps : b + 1 < FlapWindow}}
                 e == IF r.seen < FlapWindow THEN r.seen + 1 ELSE r.seen
                 t == IF r.told < RenotifyAfter THEN r.told + 1 ELSE r.told
      <3>1. Aged(r) = [r EXCEPT !.flaps = f, !.seen = e, !.told = t]
        BY DEF Aged
      <3>2. f \in SUBSET Nat /\ e \in Nat /\ t \in Nat
        BY DEF IncidentRecords
      <3> HIDE DEF f, e, t
      <3> QED BY <3>1, <3>2 DEF IncidentRecords
    <2> QED BY <1>0, <2>1 DEF Sleep, TypeOK
  <1>6. TypeOK'
    BY <1>0, <1>1, <1>2, <1>4, <1>5 DEF TypeOK
  <1>7. FedInv'
    <2>1. \A k \in Sweeps : /\ sweep'[k].fed = sweep[k].fed
                            /\ sweep'[k].refused = sweep[k].refused
                            /\ Over(sweep[k]) => Over(sweep'[k])
      BY <1>3 DEF Keeps, Over
    <2> QED BY <2>1 DEF IInv, FedInv
  <1>8. PassInv' /\ ToldInv'
    BY <1>1 DEF PassInv, ToldInv, ToldOrNoted, At, About
  <1> QED BY <1>6, <1>7, <1>8 DEF IInv

\* The collator dies, the actor does, its record is removed.
LEMMA FaultsKeep ==
  ASSUME IInv, CollatorDies \/ Crash \/ RecordRemoved
  PROVE  IInv'
  <1>0. TypeOK
    BY DEF IInv
  <1>1. faults' \in Budgets
    BY <1>0, SpendIs DEF CollatorDies, Crash, RecordRemoved, TypeOK
  <1>2. CASE CollatorDies
    <2>1. collator' \in [tree : Nat, up : BOOLEAN, halted : BOOLEAN]
      BY <1>0, <1>2 DEF CollatorDies, TypeOK
    <2>2. UNCHANGED <<sweep, disk, incident, actor, pass>>
      BY <1>2 DEF CollatorDies
    <2>3. TypeOK' /\ \A k \in Sweeps : Keeps(sweep[k], sweep'[k])
      BY <1>0, <1>1, <2>1, <2>2 DEF TypeOK, Keeps
    <2> QED BY <2>2, <2>3, WorldStep
  <1>3. CASE Crash
    <2> DEFINE d == FreshDelivery
    <2>1. d \in Deliveries
      BY FreshIs
    <2>2. Dead = [pc |-> "down", loop |-> 0, stamp |-> 0, cursor |-> 0, skips |-> 0,
                  delivery |-> d, memo |-> "none", gone |-> 0]
      BY DEF Dead
    <2> HIDE DEF d
    <2>3. Dead \in Actors /\ Dead.pc = "down"
      BY <2>1, <2>2 DEF Actors, Places, Memos
    <2>4. /\ actor' = Dead /\ pass' = NoPass
          /\ UNCHANGED <<sweep, collator, disk, incident>>
      BY <1>3 DEF Crash, world
    <2>5. TypeOK'
      BY <1>0, <1>1, <2>3, <2>4, FreshIs DEF TypeOK
    <2> QED BY <2>3, <2>4, <2>5, QuietStep DEF About
  <1>4. CASE RecordRemoved
    <2>1. disk' \in [record : CursorRecords, file : Nat]
      BY <1>0, <1>4 DEF RecordRemoved, TypeOK, NoRecord, CursorRecords
    <2>2. UNCHANGED <<sweep, collator, incident, actor, pass>> /\ actor.pc = "down"
      BY <1>4 DEF RecordRemoved, world, At
    <2>3. TypeOK'
      BY <1>0, <1>1, <2>1, <2>2 DEF TypeOK
    <2> QED BY <2>2, <2>3, QuietStep DEF About
  <1> QED BY <1>2, <1>3, <1>4

-----------------------------------------------------------------------------
(* A pass, up to its assessment.                                           *)

\* What the run tree names is a sweep, and the number of the next is a number.
LEMMA LatestIs ==
  ASSUME TypeOK
  PROVE  /\ Latest # 0 => Latest \in Sweeps
         /\ ResumedCursor \in Nat
  <1>1. MaxSweeps \in Nat /\ InTree \in SUBSET (1..MaxSweeps)
    BY TriageConstants DEF InTree, Sweeps
  <1>2. Latest \in InTree \cup {0}
    BY <1>1, LargestIs DEF Latest
  <1>3. Latest # 0 => Latest \in Sweeps
    BY <1>2 DEF InTree
  <1>4. Highest \in Nat
    BY <1>3 DEF Highest, TypeOK, SweepRecords
  <1>5. actor.cursor \in Nat
    BY DEF TypeOK, Actors
  <1> QED BY <1>3, <1>4, <1>5, LargerIs DEF ResumedCursor

\* A pass that only reads: the sweeps are what they were.
LEMMA ReadStep ==
  ASSUME IInv, TypeOK', sweep' = sweep, actor'.pc \in About, PassInv'
  PROVE  IInv'
  <1>1. FedInv'
    BY DEF IInv, FedInv, Over
  <1>2. ToldInv'
    BY DEF ToldInv, ToldOrNoted, At, About
  <1> QED BY <1>1, <1>2 DEF IInv

\* A tick that is skipped, or whose budget is halted, assesses nothing.
LEMMA SkipKeeps == ASSUME IInv, Skip \/ OpenRefused PROVE IInv'
  <1>0. TypeOK
    BY DEF IInv
  <1>1. actor' \in Actors /\ actor'.pc = "settle"
    BY <1>0, GotoIs DEF Skip, OpenRefused, Places, About
  <1>2. UNCHANGED <<sweep, collator, disk, incident, faults>>
    BY DEF Skip, OpenRefused, world
  <1>3. /\ actor.skips \in Nat /\ MoreSkips \in Nat /\ actor.memo \in Memos
        /\ ResumedCursor \in Nat /\ ResumedCursor + 1 \in Nat
    BY <1>0, LatestIs DEF TypeOK, Actors, MoreSkips
  <1>4. PICK kind \in {"skipped", "budget"}, c \in Nat, n \in Nat, m \in Memos :
           pass' = [NoPass EXCEPT !.kind = kind, !.cursor = c, !.skips = n, !.memo = m]
    BY <1>3 DEF Skip, OpenRefused
  <1>5. pass' \in Passes /\ pass'.kind = kind
    BY <1>4, FreshIs DEF Passes
  <1>6. TypeOK'
    BY <1>0, <1>1, <1>2, <1>5 DEF TypeOK
  <1>7. PassInv'
    BY <1>1, <1>5 DEF PassInv, At, Assessed, About
  <1> QED BY <1>1, <1>2, <1>6, <1>7, ReadStep DEF About

\* What a predecessor opened and did not collate is resumed: it was not fed.
LEMMA ResumeKeeps == ASSUME IInv, Resume PROVE IInv'
  <1> DEFINE k == Latest
             c == ResumedCursor
             w == Wrote(Latest)
  <1>0. TypeOK /\ k \in Sweeps /\ k \in 0..MaxSweeps /\ c \in Nat /\ w \in SUBSET Seats
    BY LatestIs DEF IInv, Resume, Resumes, Sweeps, Wrote
  <1>1. actor' \in Actors /\ actor'.pc = "collate"
    BY <1>0, GotoIs DEF Resume, Places, About
  <1>2. UNCHANGED <<sweep, collator, disk, incident, faults>>
    BY DEF Resume, world
  <1>3. pass' = [NoPass EXCEPT !.k = k, !.kind = "swept", !.cursor = c, !.artifacts = w]
    BY DEF Resume
  <1>4. ~ sweep[k].refused => sweep[k].fed = 0
    <2>1. sweep[k].collate = "none" /\ w # {}
      BY DEF Resume, Resumes
    <2>2. ~ Over(sweep[k])
      BY <2>1 DEF Over, Wrote
    <2> QED BY <1>0, <2>2 DEF IInv, FedInv
  <1> HIDE DEF k, c, w
  <1>5. pass' \in Passes /\ pass'.kind = "swept" /\ pass'.k = k
    BY <1>0, <1>3, FreshIs DEF Passes
  <1>6. TypeOK'
    BY <1>0, <1>1, <1>2, <1>5 DEF TypeOK
  <1>7. PassInv'
    BY <1>0, <1>1, <1>2, <1>4, <1>5 DEF PassInv, At, Assessed, About, This
  <1> QED BY <1>1, <1>2, <1>6, <1>7, ReadStep DEF About

\* A sweep is opened: nothing was asked, fed or refused of it.
LEMMA OpenKeeps == ASSUME IInv, OpenSweep PROVE IInv'
  <1> DEFINE c == ResumedCursor + 1
             t == collator.tree
             z == [s \in Seats |-> "none"]
  <1>0. TypeOK /\ c \in Nat /\ t \in Nat /\ z \in [Seats -> {"none", "running", "wrote", "empty"}]
    BY LatestIs DEF IInv, TypeOK
  <1>1. actor' \in Actors /\ actor'.pc = "parent"
    BY <1>0, GotoIs DEF OpenSweep, Places, About
  <1>2. UNCHANGED <<collator, disk, incident, faults>>
    BY DEF OpenSweep
  <1>3. PICK k \in Sweeps :
          /\ sweep' = [sweep EXCEPT ![k] = [Unopened EXCEPT !.parent = "open",
                          !.num = ResumedCursor + 1, !.tree = collator.tree]]
          /\ pass' = [NoPass EXCEPT !.k = k, !.kind = "swept", !.cursor = ResumedCursor + 1]
    BY DEF OpenSweep
  <1> DEFINE q == [Unopened EXCEPT !.parent = "open", !.num = c, !.tree = t]
  <1>4. Unopened = [num |-> 0, tree |-> 0, parent |-> "none", seats |-> z,
                    collate |-> "none", refused |-> FALSE, age |-> 0, fed |-> 0]
    BY DEF Unopened
  <1>5. sweep' = [sweep EXCEPT ![k] = q]
        /\ pass' = [NoPass EXCEPT !.k = k, !.kind = "swept", !.cursor = c]
    BY <1>3
  <1>6. \A s \in Seats : z[s] = "none"
    OBVIOUS
  <1> HIDE DEF c, t, z
  <1>7. q \in SweepRecords /\ q.fed = 0 /\ q.seats = z
    <2>1. Unopened \in SweepRecords /\ Unopened.fed = 0 /\ Unopened.seats = z
      BY <1>0, <1>4 DEF SweepRecords, Stages
    <2>2. "open" \in Stages
      BY DEF Stages
    <2> QED BY <1>0, <2>1, <2>2 DEF SweepRecords
  <1> HIDE DEF q
  <1>8. sweep \in [Sweeps -> SweepRecords] /\ sweep' \in [Sweeps -> SweepRecords]
        /\ sweep'[k] = q /\ \A j \in Sweeps : j # k => sweep'[j] = sweep[j]
    BY <1>0, <1>5, <1>7 DEF TypeOK
  <1>9. k \in 0..MaxSweeps
    BY DEF Sweeps
  <1>10. pass' \in Passes /\ pass'.kind = "swept" /\ pass'.k = k
    BY <1>0, <1>5, <1>9, FreshIs DEF Passes
  <1>11. TypeOK'
    BY <1>0, <1>1, <1>2, <1>8, <1>10 DEF TypeOK
  <1>12. PassInv'
    BY <1>1, <1>6, <1>7, <1>8, <1>10 DEF PassInv, At, Assessed, About, This
  <1>13. FedInv'
    <2>1. \A j \in Sweeps : ~ sweep'[j].refused =>
             /\ sweep'[j].fed <= 1
             /\ sweep'[j].fed # 0 => Over(sweep'[j])
      BY <1>7, <1>8 DEF IInv, FedInv
    <2> QED BY <2>1 DEF FedInv, Over
  <1>14. ToldInv'
    BY <1>1 DEF ToldInv, ToldOrNoted, At
  <1> QED BY <1>11, <1>12, <1>13, <1>14 DEF IInv

\* The sweep a pass is about moves on, and the pass with it.
LEMMA PassStep ==
  ASSUME IInv, TypeOK', NEW k \in Sweeps, NEW q \in SweepRecords,
         sweep' = [sweep EXCEPT ![k] = q],
         ~ q.refused => q.fed = 0,
         actor'.pc \in About, PassInv'
  PROVE  IInv'
  <1>1. sweep \in [Sweeps -> SweepRecords]
    BY DEF IInv, TypeOK
  <1>2. sweep'[k] = q /\ \A j \in Sweeps : j # k => sweep'[j] = sweep[j]
    BY <1>1
  <1>3. \A j \in Sweeps : ~ sweep'[j].refused =>
           /\ sweep'[j].fed <= 1
           /\ sweep'[j].fed # 0 => Over(sweep'[j])
    BY <1>2 DEF IInv, FedInv
  <1>4. FedInv'
    BY <1>3 DEF FedInv, Over
  <1>5. ToldInv'
    BY DEF ToldInv, ToldOrNoted, At, About
  <1> QED BY <1>4, <1>5 DEF IInv

\* The partition is dispatched, refused, or its pass throws.
LEMMA PartitionKeeps == ASSUME IInv, Partition PROVE IInv'
  <1>0. /\ TypeOK /\ actor.pc = "parent" /\ pass \in Passes
        /\ sweep \in [Sweeps -> SweepRecords]
    BY DEF IInv, TypeOK, Partition, At
  <1>1. UNCHANGED <<collator, disk, incident, faults>>
    BY DEF Partition
  <1>2. /\ pass.kind = "swept" /\ pass.k \in Sweeps /\ (~ This.refused => This.fed = 0)
        /\ \A s \in Seats : This.seats[s] = "none"
    BY <1>0 DEF IInv, PassInv, At, Assessed, About
  <1>3. CASE pass' = [pass EXCEPT !.kind = "refused"] /\ Goto("settle") /\ UNCHANGED sweep
    <2>1. actor' \in Actors /\ actor'.pc = "settle"
      BY <1>0, <1>3, GotoIs DEF Places, About
    <2>2. pass' \in Passes /\ pass'.kind = "refused" /\ pass'.k = pass.k
      BY <1>0, <1>3 DEF Passes
    <2>3. TypeOK'
      BY <1>0, <1>1, <1>3, <2>1, <2>2 DEF TypeOK
    <2>4. PassInv'
      BY <1>2, <1>3, <2>1, <2>2 DEF PassInv, At, Assessed, About, This, Over
    <2> QED BY <1>3, <2>1, <2>3, <2>4, ReadStep DEF About
  <1>4. CASE PassFails /\ UNCHANGED sweep
    <2>1. actor' \in Actors /\ actor'.pc = "watch" /\ pass' \in Passes
      BY <1>0, <1>4, FailIs
    <2>2. TypeOK'
      BY <1>0, <1>1, <1>4, <2>1 DEF TypeOK
    <2> QED BY <1>4, <2>1, <2>2, QuietStep DEF About
  <1>5. CASE /\ sweep' = [sweep EXCEPT ![pass.k].seats = [s \in Seats |-> "running"]]
             /\ Goto("observe") /\ UNCHANGED pass
    <2> DEFINE z == [s \in Seats |-> "running"]
               q == [sweep[pass.k] EXCEPT !.seats = z]
    <2>1. sweep' = [sweep EXCEPT ![pass.k] = q]
          /\ z \in [Seats -> {"none", "running", "wrote", "empty"}]
      BY <1>5
    <2> HIDE DEF z
    <2>2. q \in SweepRecords /\ q.fed = This.fed /\ q.refused = This.refused
      BY <1>0, <1>2, <2>1 DEF SweepRecords, This
    <2> HIDE DEF q
    <2>3. actor' \in Actors /\ actor'.pc = "observe" /\ pass' = pass
      BY <1>0, <1>5, GotoIs DEF Places, About
    <2>4. sweep' \in [Sweeps -> SweepRecords] /\ sweep'[pass.k] = q
      BY <1>0, <1>2, <2>1, <2>2
    <2>5. TypeOK'
      BY <1>0, <1>1, <2>3, <2>4 DEF TypeOK
    <2>6. PassInv'
      BY <1>2, <2>2, <2>3, <2>4 DEF PassInv, At, Assessed, About, This
    <2>7. ~ q.refused => q.fed = 0
      BY <1>2, <2>2
    <2> QED BY <1>2, <2>1, <2>2, <2>3, <2>5, <2>6, <2>7, PassStep DEF About
  <1> QED BY <1>3, <1>4, <1>5 DEF Partition

\* The observers' answers are joined: with none there is nothing to resume.
LEMMA JoinKeeps == ASSUME IInv, Join PROVE IInv'
  <1> DEFINE w == Wrote(pass.k)
             p == IF w = {} THEN "settle" ELSE "collate"
  <1>0. /\ TypeOK /\ actor.pc = "observe" /\ pass \in Passes
        /\ sweep \in [Sweeps -> SweepRecords] /\ w \in SUBSET Seats
    BY DEF IInv, TypeOK, Join, At, Wrote
  <1>1. UNCHANGED <<sweep, collator, disk, incident, faults>>
    BY DEF Join, world
  <1>2. pass.kind = "swept" /\ pass.k \in Sweeps /\ (~ This.refused => This.fed = 0)
    BY <1>0 DEF IInv, PassInv, At, Assessed, About
  <1>3. actor' \in Actors /\ actor'.pc = p
    BY <1>0, GotoIs DEF Join, Places, About
  <1>4. w = {} => Over(This)
    <2>1. This.seats \in [Seats -> {"none", "running", "wrote", "empty"}]
      BY <1>0, <1>2 DEF This, SweepRecords
    <2>2. \A s \in Seats : This.seats[s] # "running"
      BY DEF Join
    <2>3. w = {} => \A s \in Seats : This.seats[s] # "wrote"
      BY DEF Wrote, This
    <2> QED BY <2>1, <2>2, <2>3 DEF Over
  <1>5. pass' = [pass EXCEPT !.artifacts = w]
    BY DEF Join
  <1>6. w # {} => p = "collate"
    OBVIOUS
  <1>7. p \in {"settle", "collate"}
    OBVIOUS
  <1> HIDE DEF w, p
  <1>8. pass' \in Passes /\ pass'.kind = "swept" /\ pass'.k = pass.k
    BY <1>0, <1>2, <1>5 DEF Passes
  <1>9. TypeOK'
    BY <1>0, <1>1, <1>3, <1>8 DEF TypeOK
  <1>10. PassInv'
    <2>1. This' = This
      BY <1>1, <1>8 DEF This
    <2>2. Over(This)' <=> Over(This)
      BY <2>1 DEF Over
    <2> QED BY <1>2, <1>3, <1>4, <1>6, <1>7, <1>8, <2>1, <2>2
         DEF PassInv, At, Assessed, About
  <1> QED BY <1>1, <1>3, <1>7, <1>9, <1>10, ReadStep DEF About

\* The collation is refused, which is marked, or dispatched, which ends the sweep.
LEMMA CollateKeeps == ASSUME IInv, Collate PROVE IInv'
  <1>0. /\ TypeOK /\ actor.pc = "collate" /\ pass \in Passes
        /\ sweep \in [Sweeps -> SweepRecords]
    BY DEF IInv, TypeOK, Collate, At
  <1>1. UNCHANGED <<collator, disk, incident, pass, faults>>
    BY DEF Collate
  <1>2. pass.kind = "swept" /\ pass.k \in Sweeps /\ (~ This.refused => This.fed = 0)
    BY <1>0 DEF IInv, PassInv, At, Assessed, About
  <1>3. \E q \in SweepRecords :
           /\ sweep' = [sweep EXCEPT ![pass.k] = q] /\ (~ q.refused => q.fed = 0)
           /\ \/ q.refused /\ Goto("settle")
              \/ q.collate # "none" /\ Goto("collating")
    <2>1. sweep[pass.k] \in SweepRecords
      BY <1>0, <1>2
    <2>2. CASE /\ sweep' = [sweep EXCEPT ![pass.k].refused = TRUE]
               /\ Goto("settle")
      <3> DEFINE q == [sweep[pass.k] EXCEPT !.refused = TRUE]
      <3>1. sweep' = [sweep EXCEPT ![pass.k] = q]
        BY <2>2
      <3>2. q \in SweepRecords /\ q.refused = TRUE
        BY <2>1 DEF SweepRecords
      <3> HIDE DEF q
      <3> QED BY <2>2, <3>1, <3>2
    <2>3. CASE /\ sweep' = [sweep EXCEPT ![pass.k].collate = "open"]
               /\ Goto("collating")
      <3> DEFINE q == [sweep[pass.k] EXCEPT !.collate = "open"]
      <3>1. sweep' = [sweep EXCEPT ![pass.k] = q]
        BY <2>3
      <3>2. q \in SweepRecords /\ q.collate = "open" /\ q.fed = This.fed
            /\ q.refused = This.refused
        BY <2>1 DEF SweepRecords, Stages, This
      <3> HIDE DEF q
      <3> QED BY <1>2, <2>3, <3>1, <3>2
    <2> QED BY <2>2, <2>3 DEF Collate
  <1>4. PICK q \in SweepRecords :
           /\ sweep' = [sweep EXCEPT ![pass.k] = q] /\ (~ q.refused => q.fed = 0)
           /\ \/ q.refused /\ Goto("settle")
              \/ q.collate # "none" /\ Goto("collating")
    BY <1>3
  <1>5. /\ actor' \in Actors /\ actor'.pc \in {"settle", "collating"}
        /\ actor'.pc = "settle" => q.refused
        /\ actor'.pc = "collating" => q.collate # "none"
    BY <1>0, <1>4, GotoIs DEF Places, About
  <1>6. sweep' \in [Sweeps -> SweepRecords] /\ sweep'[pass.k] = q
    BY <1>0, <1>2, <1>4
  <1>7. TypeOK'
    BY <1>0, <1>1, <1>5, <1>6 DEF TypeOK
  <1>8. PassInv'
    BY <1>1, <1>2, <1>4, <1>5, <1>6 DEF PassInv, At, Assessed, About, This
  <1> QED BY <1>2, <1>4, <1>5, <1>7, <1>8, PassStep DEF About

\* The collation's document is read, or there is none.
LEMMA CollatedKeeps == ASSUME IInv, Collated PROVE IInv'
  <1>0. TypeOK /\ actor.pc = "collating" /\ pass \in Passes
    BY DEF IInv, TypeOK, Collated, At
  <1>1. UNCHANGED <<sweep, collator, disk, incident, faults>>
    BY DEF Collated, world
  <1>2. /\ pass.kind = "swept" /\ pass.k \in Sweeps /\ (~ This.refused => This.fed = 0)
        /\ This.collate # "none"
    BY <1>0 DEF IInv, PassInv, At, Assessed, About
  <1>3. actor' \in Actors /\ actor'.pc = "settle"
    BY <1>0, GotoIs DEF Collated, Places, About
  <1>4. pass' \in Passes /\ pass'.kind = "swept" /\ pass'.k = pass.k
    BY <1>0, <1>2 DEF Passes, Collated
  <1>5. TypeOK'
    BY <1>0, <1>1, <1>3, <1>4 DEF TypeOK
  <1>6. PassInv'
    BY <1>1, <1>2, <1>3, <1>4 DEF PassInv, At, Assessed, About, This, Over
  <1> QED BY <1>1, <1>3, <1>5, <1>6, ReadStep DEF About

-----------------------------------------------------------------------------
(* Settling, announcing, saving.                                           *)

\* Every subject is one that triage knows, and has its place in the order.
LEMMA FollowedIs == Followed \subseteq AllSubjects
  BY TriageConstants DEF Followed

\* What a pass observes of a subject is a record and at most one notification.
LEMMA ObservedIs ==
  ASSUME TypeOK, NEW probe \in ProbeResults, NEW found \in ServiceSignals(probe),
         NEW s \in Followed
  PROVE  Observed(Signal(s, probe, found), s) \in Advances
  <1>1. found \in Signals \cup {"none"}
    BY DEF ServiceSignals, Signals
  <1>2. \A bad : Raised(bad) \in Signals
    BY DEF Raised, Signals
  <1>3. s # "service" => HealthSignal(probe)[s] \in Signals \cup {"none"}
    <2> DEFINE a == IF Assessed THEN Raised(~ pass.document) ELSE "none"
               b == IF pass.skips >= Larger(1, IF MaxSkips = 0 THEN 0 ELSE MaxSkips - 1)
                    THEN "issue" ELSE IF pass.skips = 0 THEN "clear" ELSE "none"
               c == Endpoint(probe, "timeout")
               u == Endpoint(probe, "unreachable")
               d == Raised(pass.kind = "budget")
               e == Raised(ReporterUndelivered(actor.delivery))
    <2>1. a \in Signals \cup {"none"} /\ d \in Signals /\ e \in Signals
      BY <1>2
    <2>2. /\ b \in Signals \cup {"none"} /\ c \in Signals \cup {"none"}
          /\ u \in Signals \cup {"none"}
      BY DEF Signals, Endpoint
    <2>3. HealthSignal(probe) =
             [nothing |-> a, skips |-> b, saturated |-> c, unreachable |-> u, budget |-> d,
              reporter |-> e]
      BY DEF HealthSignal
    <2>4. s \in AllSubjects
      BY FollowedIs
    <2> HIDE DEF a, b, c, u, d, e
    <2> QED BY <2>1, <2>2, <2>3, <2>4 DEF AllSubjects
  <1>4. Signal(s, probe, found) \in Signals \cup {"none"}
    BY <1>1, <1>3 DEF Signal
  <1>5. incident[s] \in IncidentRecords
    BY DEF TypeOK
  <1>6. Quiet(incident[s]) \in Advances
    BY <1>5 DEF Quiet, Advances
  <1> QED BY <1>4, <1>5, <1>6, AdvanceIs DEF Observed

\* Every subject is observed once, and the sweep the pass is about is fed.
LEMMA SettleKeeps == ASSUME IInv, Settle PROVE IInv'
  <1>0. /\ TypeOK /\ actor.pc = "settle" /\ pass \in Passes
        /\ sweep \in [Sweeps -> SweepRecords]
        /\ incident \in [Followed -> IncidentRecords] /\ faults \in Budgets
    BY DEF IInv, TypeOK, Settle, At
  <1>1. collator' = collator /\ disk' = disk
    BY DEF Settle
  <1>2. sweep' \in [Sweeps -> SweepRecords] /\ FedInv'
    <2>1. CASE Assessed
      <3>1. pass.k \in Sweeps /\ (~ This.refused => This.fed = 0 /\ Over(This))
        BY <1>0, <2>1 DEF IInv, PassInv, At, About
      <3> DEFINE r == sweep[pass.k]
                 n == IF r.fed < 2 THEN r.fed + 1 ELSE r.fed
                 q == [r EXCEPT !.fed = n]
      <3>2. r \in SweepRecords /\ r.fed \in 0..2 /\ n \in 0..2
        BY <1>0, <3>1 DEF SweepRecords
      <3>3. sweep' = [sweep EXCEPT ![pass.k] = q]
        BY <2>1, <3>1 DEF Settle
      <3>4. r.fed = 0 => n <= 1
        BY <3>2
      <3> HIDE DEF n
      <3>5. /\ q \in SweepRecords /\ q.fed = n /\ q.refused = r.refused
            /\ q.collate = r.collate /\ q.seats = r.seats
        BY <3>2 DEF SweepRecords
      <3> HIDE DEF q
      <3>6. sweep' \in [Sweeps -> SweepRecords] /\ sweep'[pass.k] = q
            /\ \A j \in Sweeps : j # pass.k => sweep'[j] = sweep[j]
        BY <1>0, <3>1, <3>3, <3>5
      <3>7. Over(q) <=> Over(r)
        BY <3>5 DEF Over
      <3>8. ~ q.refused => q.fed <= 1 /\ Over(q)
        BY <3>1, <3>4, <3>5, <3>7 DEF This
      <3>9. \A j \in Sweeps : ~ sweep'[j].refused =>
               /\ sweep'[j].fed <= 1
               /\ sweep'[j].fed # 0 => Over(sweep'[j])
        BY <3>6, <3>8 DEF IInv, FedInv
      <3> QED BY <3>6, <3>9 DEF FedInv, Over
    <2>2. CASE ~ Assessed
      <3>1. sweep' = sweep
        BY <2>2 DEF Settle
      <3> QED BY <1>0, <3>1 DEF IInv, FedInv, Over
    <2> QED BY <2>1, <2>2
  <1>3. PICK probe \in ProbeResults : \E found \in ServiceSignals(probe) :
        LET advance == [s \in Followed |-> Observed(Signal(s, probe, found), s)]
        IN \/ /\ incident' = [s \in Followed |-> advance[s].record]
              /\ pass' = [pass EXCEPT !.notes = [s \in Followed |-> advance[s].note],
                             !.memo = IF Assessed THEN probe ELSE @]
              /\ Goto("deliver") /\ UNCHANGED faults
           \/ /\ Spend("save")
              /\ \E last \in Followed :
                    incident' = [s \in Followed |->
                       IF Position(s) < Position(last) THEN advance[s].record ELSE incident[s]]
              /\ PassFails
    BY DEF Settle
  <1>4. PICK found \in ServiceSignals(probe) :
        LET advance == [s \in Followed |-> Observed(Signal(s, probe, found), s)]
        IN \/ /\ incident' = [s \in Followed |-> advance[s].record]
              /\ pass' = [pass EXCEPT !.notes = [s \in Followed |-> advance[s].note],
                             !.memo = IF Assessed THEN probe ELSE @]
              /\ Goto("deliver") /\ UNCHANGED faults
           \/ /\ Spend("save")
              /\ \E last \in Followed :
                    incident' = [s \in Followed |->
                       IF Position(s) < Position(last) THEN advance[s].record ELSE incident[s]]
              /\ PassFails
    BY <1>3
  <1> DEFINE advance == [s \in Followed |-> Observed(Signal(s, probe, found), s)]
  <1>5. advance \in [Followed -> Advances]
    BY <1>0, ObservedIs
  <1>6. probe \in Memos
    BY <1>0 DEF ProbeResults, Memos, TypeOK, Actors
  <1>7. CASE /\ incident' = [s \in Followed |-> advance[s].record]
             /\ pass' = [pass EXCEPT !.notes = [s \in Followed |-> advance[s].note],
                            !.memo = IF Assessed THEN probe ELSE @]
             /\ Goto("deliver") /\ UNCHANGED faults
    <2> HIDE DEF advance
    <2> DEFINE notes == [s \in Followed |-> advance[s].note]
               m == IF Assessed THEN probe ELSE pass.memo
    <2>1. notes \in [Followed -> Kinds \cup {"none"}] /\ m \in Memos
      BY <1>0, <1>5, <1>6 DEF Advances, Passes
    <2>2. pass' = [pass EXCEPT !.notes = notes, !.memo = m]
      BY <1>0, <1>7 DEF Passes
    <2> HIDE DEF notes, m
    <2>3. pass' \in Passes
      BY <1>0, <2>1, <2>2 DEF Passes
    <2>4. incident' \in [Followed -> IncidentRecords]
      BY <1>5, <1>7 DEF Advances
    <2>5. actor' \in Actors /\ actor'.pc = "deliver"
      BY <1>0, <1>7, GotoIs DEF Places
    <2>6. TypeOK'
      BY <1>0, <1>1, <1>2, <1>7, <2>3, <2>4, <2>5 DEF TypeOK
    <2>7. PassInv' /\ ToldInv'
      BY <2>5 DEF PassInv, ToldInv, ToldOrNoted, At, About
    <2> QED BY <1>2, <2>6, <2>7 DEF IInv
  <1>8. CASE /\ Spend("save")
             /\ \E last \in Followed :
                   incident' = [s \in Followed |->
                      IF Position(s) < Position(last) THEN advance[s].record ELSE incident[s]]
             /\ PassFails
    <2> HIDE DEF advance
    <2>1. incident' \in [Followed -> IncidentRecords]
      <3>1. PICK last \in Followed :
               incident' = [s \in Followed |->
                  IF Position(s) < Position(last) THEN advance[s].record ELSE incident[s]]
        BY <1>8
      <3>2. \A s \in Followed : advance[s].record \in IncidentRecords
                                /\ incident[s] \in IncidentRecords
        BY <1>0, <1>5 DEF Advances
      <3> QED BY <3>1, <3>2
    <2>2. faults' \in Budgets
      BY <1>0, <1>8, SpendIs
    <2>3. actor' \in Actors /\ actor'.pc = "watch" /\ pass' \in Passes
      BY <1>0, <1>8, FailIs
    <2>4. TypeOK'
      BY <1>0, <1>1, <1>2, <2>1, <2>2, <2>3 DEF TypeOK
    <2>5. PassInv' /\ ToldInv'
      BY <2>3 DEF PassInv, ToldInv, ToldOrNoted, At, About
    <2> QED BY <1>2, <2>4, <2>5 DEF IInv
  <1> QED BY <1>4, <1>7, <1>8

\* What an attempt that failed leaves is a delivery's state.
LEMMA FailedIs ==
  ASSUME NEW d \in Deliveries, NEW how \in {"rejected", "retryable"}
  PROVE  Failed(d, how) \in Deliveries
  <1> DEFINE n == IF d.retry < MaxRetry + 2 THEN d.retry + 1 ELSE d.retry
             w == Backoff(n)
  <1>1. MaxRetry \in Nat /\ d.retry \in Nat
    BY TriageConstants DEF Deliveries
  <1>2. n \in Nat
    BY <1>1
  <1> HIDE DEF n
  <1> DEFINE S == {wait \in 1..MaxRetry : n # 0 /\ wait <= 2 ^ (n - 1)}
  <1>3. S \in SUBSET (1..MaxRetry)
    OBVIOUS
  <1>4. Backoff(n) = Largest(S)
    BY DEF Backoff
  <1> HIDE DEF S
  <1>5. w \in Nat
    BY <1>1, <1>3, <1>4, LargestIs
  <1>6. Failed(d, how) = IF how = "rejected" THEN [retry |-> 0, wait |-> 0, rejected |-> TRUE]
                         ELSE [d EXCEPT !.retry = n, !.wait = w]
    BY DEF Failed, n
  <1> HIDE DEF w
  <1>7. [d EXCEPT !.retry = n, !.wait = w] \in Deliveries
    BY <1>2, <1>5 DEF Deliveries
  <1>8. [retry |-> 0, wait |-> 0, rejected |-> TRUE] \in Deliveries
    BY DEF Deliveries
  <1> QED BY <1>6, <1>7, <1>8

\* What is announced is delivered or lost; nothing else happens to it.
LEMMA DeliverKeeps == ASSUME IInv, Deliver PROVE IInv'
  <1>0. /\ TypeOK /\ pass \in Passes /\ actor.delivery \in Deliveries
        /\ pass.delivery \in Deliveries
    BY DEF IInv, TypeOK, Actors, Passes
  <1>1. UNCHANGED <<sweep, collator, disk, incident, faults>>
    BY DEF Deliver, world
  <1>2. actor' \in Actors /\ actor'.pc = "fold"
    BY <1>0, GotoIs DEF Deliver, Places
  <1> DEFINE all == Spoken(pass.notes)
             d == actor.delivery
  <1>3. all \in SUBSET Followed
    BY DEF Spoken
  <1>4. \E told, lost \in SUBSET Followed, e \in Deliveries :
           /\ pass' = [pass EXCEPT !.told = told, !.lost = lost, !.delivery = e]
           /\ all \subseteq told \cup lost /\ lost \subseteq all
    <2>1. CASE d.wait > 0
      <3> DEFINE e == [d EXCEPT !.wait = @ - 1]
                 told == pass.told
      <3>1. e \in Deliveries /\ told \in SUBSET Followed
        BY <1>0, <2>1 DEF Deliveries, Passes
      <3>2. pass' = [pass EXCEPT !.lost = all \ {}, !.delivery = e]
        BY <2>1 DEF Deliver, Lost
      <3> HIDE DEF e, all
      <3>3. all \ {} = all
        OBVIOUS
      <3>4. pass' = [pass EXCEPT !.told = told, !.lost = all, !.delivery = e]
        BY <1>0, <3>2, <3>3 DEF Passes
      <3> HIDE DEF told
      <3> QED BY <1>3, <3>1, <3>4
    <2>2. CASE ~ (d.wait > 0)
      <3>1. PICK told \in OrderForDelivery(pass.notes), how \in {"rejected", "retryable"} :
               LET after == IF told = {} THEN d ELSE FreshDelivery IN
               pass' = [pass EXCEPT !.told = told, !.lost = Lost(pass.notes, told),
                           !.delivery = IF told = Spoken(pass.notes) THEN after
                                        ELSE Failed(after, how)]
        BY <2>2 DEF Deliver
      <3> DEFINE after == IF told = {} THEN d ELSE FreshDelivery
                 e == IF told = all THEN after ELSE Failed(after, how)
                 lost == all \ told
      <3>2. after \in Deliveries /\ told \in SUBSET Followed
        BY <1>0, <1>3, FreshIs DEF OrderForDelivery
      <3>3. e \in Deliveries
        <4> HIDE DEF after, all
        <4> QED BY <3>2, FailedIs
      <3>4. pass' = [pass EXCEPT !.told = told, !.lost = lost, !.delivery = e]
        BY <3>1 DEF Lost
      <3> HIDE DEF e
      <3>5. lost \in SUBSET Followed /\ all \subseteq told \cup lost /\ lost \subseteq all
        BY <1>3
      <3> HIDE DEF lost, all
      <3> QED BY <3>2, <3>3, <3>4, <3>5
    <2> QED BY <2>1, <2>2
  <1>5. PICK told \in SUBSET Followed, lost \in SUBSET Followed, e \in Deliveries :
           /\ pass' = [pass EXCEPT !.told = told, !.lost = lost, !.delivery = e]
           /\ all \subseteq told \cup lost /\ lost \subseteq all
    BY <1>4
  <1>6. pass' \in Passes /\ pass'.notes = pass.notes /\ pass'.told = told
        /\ pass'.lost = lost
    BY <1>0, <1>5 DEF Passes
  <1>7. TypeOK'
    BY <1>0, <1>1, <1>2, <1>6 DEF TypeOK
  <1>8. FedInv'
    BY <1>1 DEF IInv, FedInv, Over
  <1>9. Spoken(pass'.notes) = all
    BY <1>6
  <1> HIDE DEF all
  <1>10. PassInv' /\ ToldInv'
    BY <1>2, <1>5, <1>6, <1>9 DEF PassInv, ToldInv, ToldOrNoted, At, About
  <1> QED BY <1>7, <1>8, <1>10 DEF IInv

\* What was lost is noted on a record of its own subject.
LEMMA NotedIs ==
  ASSUME TypeOK, NEW lost \in SUBSET Spoken(pass.notes)
  PROVE  /\ Noted(lost) \in [Followed -> IncidentRecords]
         /\ \A s \in lost : /\ Noted(lost)[s].undelivered # <<>>
                            /\ Last(Noted(lost)[s].undelivered) = pass.notes[s]
  <1>1. \A s \in Followed : incident[s] \in IncidentRecords
    BY DEF TypeOK
  <1>2. \A s \in lost : s \in Followed /\ pass.notes[s] \in Kinds
    BY DEF TypeOK, Passes, Spoken
  <1>3. \A s \in lost : LET u == WithUndelivered(incident[s], pass.notes[s]) IN
           /\ u \in IncidentRecords
           /\ u.undelivered # <<>> /\ Last(u.undelivered) = pass.notes[s]
    BY <1>1, <1>2, UndeliveredIs
  <1> QED BY <1>1, <1>2, <1>3 DEF Noted

\* What was lost is noted before the pass has an outcome to save.
LEMMA FoldKeeps == ASSUME IInv, Fold PROVE IInv'
  <1>0. /\ TypeOK /\ pass \in Passes /\ actor \in Actors /\ actor.pc = "fold"
        /\ faults \in Budgets
    BY DEF IInv, TypeOK, Fold, At
  <1>1. UNCHANGED <<sweep, collator, disk>>
    BY DEF Fold, world
  <1>2. /\ pass.lost \subseteq Spoken(pass.notes)
        /\ Spoken(pass.notes) \subseteq pass.told \cup pass.lost
    BY <1>0 DEF IInv, ToldInv, At
  <1>3. FedInv'
    BY <1>1 DEF IInv, FedInv, Over
  <1>4. CASE /\ incident' = Noted(pass.lost)
             /\ actor' = [actor EXCEPT !.pc = "save", !.cursor = pass.cursor,
                             !.loop = pass.cursor, !.skips = pass.skips,
                             !.delivery = pass.delivery, !.memo = pass.memo]
             /\ UNCHANGED <<pass, faults>>
    <2>1. /\ pass.cursor \in Nat /\ pass.skips \in Nat /\ pass.delivery \in Deliveries
          /\ pass.memo \in Memos
      BY <1>0 DEF Passes
    <2>2. actor' \in Actors /\ actor'.pc = "save"
      BY <1>0, <1>4, <2>1 DEF Actors, Places
    <2>3. /\ incident' \in [Followed -> IncidentRecords]
          /\ \A s \in pass.lost : /\ incident'[s].undelivered # <<>>
                                  /\ Last(incident'[s].undelivered) = pass.notes[s]
      BY <1>0, <1>2, <1>4, NotedIs
    <2>4. TypeOK'
      BY <1>0, <1>1, <1>4, <2>2, <2>3 DEF TypeOK
    <2>5. ToldOrNoted'
      BY <1>2, <1>4, <2>3 DEF ToldOrNoted, Spoken
    <2>6. PassInv' /\ ToldInv'
      BY <2>2, <2>5 DEF PassInv, ToldInv, At, About
    <2> QED BY <1>3, <2>4, <2>6 DEF IInv
  <1>5. CASE /\ \E part \in SUBSET pass.lost :
                   /\ part # pass.lost
                   /\ pass.told \cup part \in OrderForDelivery(pass.notes)
                   /\ incident' = Noted(part)
             /\ Spend("save") /\ PassFails
    <2>1. incident' \in [Followed -> IncidentRecords]
      BY <1>0, <1>2, <1>5, NotedIs
    <2>2. faults' \in Budgets
      BY <1>0, <1>5, SpendIs
    <2>3. actor' \in Actors /\ actor'.pc = "watch" /\ pass' \in Passes
      BY <1>0, <1>5, FailIs
    <2>4. TypeOK'
      BY <1>0, <1>1, <2>1, <2>2, <2>3 DEF TypeOK
    <2> QED BY <1>1, <2>3, <2>4, QuietStep DEF About
  <1> QED BY <1>4, <1>5 DEF Fold

\* The cursor is saved twice over, the record first.
LEMMA SaveKeeps == ASSUME IInv, SaveRecord \/ SaveFile PROVE IInv'
  <1>0. TypeOK
    BY DEF IInv
  <1>1. UNCHANGED <<sweep, collator, incident, faults>>
    BY DEF SaveRecord, SaveFile, world
  <1>2. actor.cursor \in Nat /\ actor.skips \in Nat /\ actor.stamp \in Nat
    BY <1>0 DEF TypeOK, Actors
  <1>3. CASE SaveRecord
    <2> DEFINE r == [cursor |-> actor.cursor, skips |-> actor.skips, stamp |-> actor.stamp]
    <2>1. r \in CursorRecords
      BY <1>2 DEF CursorRecords
    <2>2. disk' = [disk EXCEPT !.record = r] /\ Goto("file") /\ pass' = pass
      BY <1>3 DEF SaveRecord
    <2> HIDE DEF r
    <2>3. disk' \in [record : CursorRecords, file : Nat]
      BY <1>0, <2>1, <2>2 DEF TypeOK
    <2>4. actor' \in Actors /\ actor'.pc = "file"
      BY <1>0, <2>2, GotoIs DEF Places
    <2>5. TypeOK'
      BY <1>0, <1>1, <2>2, <2>3, <2>4 DEF TypeOK
    <2> QED BY <1>1, <2>4, <2>5, QuietStep DEF About
  <1>4. CASE SaveFile
    <2>1. disk' \in [record : CursorRecords, file : Nat]
      BY <1>0, <1>2, <1>4 DEF TypeOK, SaveFile
    <2>2. actor' \in Actors /\ actor'.pc = "watch" /\ pass' \in Passes
      BY <1>0, <1>4, GotoIs, FreshIs DEF SaveFile, Places
    <2>3. TypeOK'
      BY <1>0, <1>1, <2>1, <2>2 DEF TypeOK
    <2> QED BY <1>1, <2>2, <2>3, QuietStep DEF About
  <1> QED BY <1>3, <1>4

-----------------------------------------------------------------------------
(* The theorems.                                                           *)

\* No sweep was opened and no actor runs.
LEMMA InitHolds == ASSUME Init PROVE IInv
  <1>1. Unopened \in SweepRecords /\ Unopened.fed = 0
    <2> DEFINE z == [s \in Seats |-> "none"]
    <2>1. z \in [Seats -> {"none", "running", "wrote", "empty"}]
      OBVIOUS
    <2>2. Unopened = [num |-> 0, tree |-> 0, parent |-> "none", seats |-> z,
                      collate |-> "none", refused |-> FALSE, age |-> 0, fed |-> 0]
      BY DEF Unopened
    <2> HIDE DEF z
    <2> QED BY <2>1, <2>2 DEF SweepRecords, Stages
  <1>2. sweep \in [Sweeps -> SweepRecords] /\ \A k \in Sweeps : sweep[k] = Unopened
    BY <1>1 DEF Init
  <1>3. FreshIncident \in IncidentRecords
    BY IncidentConstants DEF FreshIncident, IncidentRecords
  <1>4. Dead \in Actors /\ Dead.pc = "down"
    <2> DEFINE f == FreshDelivery
    <2>1. Dead = [pc |-> "down", loop |-> 0, stamp |-> 0, cursor |-> 0, skips |-> 0,
                  delivery |-> f, memo |-> "none", gone |-> 0]
      BY DEF Dead
    <2>2. f \in Deliveries
      BY FreshIs
    <2> HIDE DEF f
    <2> QED BY <2>1, <2>2 DEF Actors, Places, Memos
  <1>5. NoRecord \in CursorRecords
    BY DEF NoRecord, CursorRecords
  <1>6. TypeOK
    <2>1. faults \in Budgets
      BY TriageConstants DEF Init
    <2>2. incident \in [Followed -> IncidentRecords]
      BY <1>3 DEF Init
    <2>3. collator \in [tree : Nat, up : BOOLEAN, halted : BOOLEAN]
      BY DEF Init
    <2>4. disk \in [record : CursorRecords, file : Nat]
      BY <1>5 DEF Init
    <2> QED BY <1>2, <1>4, <2>1, <2>2, <2>3, <2>4, FreshIs DEF Init, TypeOK
  <1>7. FedInv
    BY <1>1, <1>2 DEF FedInv
  <1>8. PassInv /\ ToldInv
    BY <1>4 DEF Init, PassInv, ToldInv, ToldOrNoted, At, About
  <1> QED BY <1>6, <1>7, <1>8 DEF IInv

\* Every step keeps the invariant.
LEMMA StepHolds == ASSUME IInv, [Next]_vars PROVE IInv'
  <1>1. CASE Start \/ Recycle \/ RecycleFails \/ Withheld \/ Boundary
    BY <1>1, StartKeeps, RecycleKeeps
  <1>2. CASE Account \/ Watch \/ OpenThrows \/ TimesOut
    BY <1>2, IdleKeeps
  <1>3. CASE Sleep
    BY <1>3, SleepKeeps
  <1>4. CASE Skip \/ OpenRefused \/ Resume \/ OpenSweep
    BY <1>4, SkipKeeps, ResumeKeeps, OpenKeeps
  <1>5. CASE Partition \/ Join \/ Collate \/ Collated
    BY <1>5, PartitionKeeps, JoinKeeps, CollateKeeps, CollatedKeeps
  <1>6. CASE Settle \/ Deliver \/ Fold \/ SaveRecord \/ SaveFile
    BY <1>6, SettleKeeps, DeliverKeeps, FoldKeeps, SaveKeeps
  <1>7. CASE \/ \E k \in Sweeps : ParentSettles(k) \/ CollateSettles(k) \/ TaskLost(k)
             \/ \E k \in Sweeps, s \in Seats : SeatSettles(k, s)
    <2>1. \E k \in Sweeps, s \in Seats :
             ParentSettles(k) \/ CollateSettles(k) \/ SeatSettles(k, s) \/ TaskLost(k)
      BY <1>7, TriageConstants
    <2> QED BY <2>1, WorkersKeep
  <1>8. CASE CollatorDies \/ Crash \/ RecordRemoved
    BY <1>8, FaultsKeep
  <1>9. CASE UNCHANGED vars
    <2>1. TypeOK'
      BY <1>9 DEF vars, world, IInv, TypeOK
    <2>2. \A k \in Sweeps : Keeps(sweep[k], sweep'[k])
      BY <1>9 DEF vars, Keeps
    <2> QED BY <1>9, <2>1, <2>2, WorldStep DEF vars
  <1> QED BY <1>1, <1>2, <1>3, <1>4, <1>5, <1>6, <1>7, <1>8, <1>9 DEF Next

\* What is written of the sweeps, the incidents and the actor always agrees: what
\* was fed is over, and what a pass works on was not fed.
THEOREM Inductive == Spec => []IInv
  <1>1. Init => IInv
    BY InitHolds
  <1>2. IInv /\ [Next]_vars => IInv'
    BY StepHolds
  <1> QED BY <1>1, <1>2, PTL DEF Spec

\* Every sweep, record, pass and delivery the actor holds is one the code can read.
THEOREM TypeCorrect == Spec => []TypeOK
  <1>1. IInv => TypeOK
    BY DEF IInv
  <1> QED BY <1>1, Inductive, PTL

\* One sweep's assessment never reaches the incident records twice, however many
\* actors resume it, give it up or start again: resumableSweep and `settle`.
THEOREM SweepsFedOnce == Spec => []SweepOnce
  <1>1. IInv => SweepOnce
    BY DEF IInv, FedInv, SweepOnce
  <1> QED BY <1>1, Inductive, PTL

\* A pass that has an outcome to save has delivered every notification, or noted
\* it on its subject's record: reportSweep and foldUndelivered.
THEOREM NothingIsSilent == Spec => []ToldOrNoted
  <1>1. IInv => ToldOrNoted
    BY DEF IInv, ToldInv
  <1> QED BY <1>1, Inductive, PTL
=============================================================================
