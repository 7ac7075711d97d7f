-------------------------- MODULE Scheduler_proofs --------------------------
(***************************************************************************)
(* The safety of Scheduler, for any task lists, fleet, cap, ceiling and    *)
(* budgets of faults.                                                      *)
(***************************************************************************)
EXTENDS Scheduler, FiniteSetTheorems, SequenceTheorems, WellFoundedInduction, TLAPS

\* A task is in flight once, dispatched, and what is left of a pass is in flight.
OnceIn(s) == \A i, j \in DOMAIN s : s[i][1] = s[j][1] => i = j
FlightInv ==
    /\ OnceIn(cli.inflight) /\ OnceIn(cli.todo)
    /\ \A p \in ToSet(cli.inflight) : graph[p[1]].state = "dispatched"
    /\ ToSet(cli.todo) \subseteq ToSet(cli.inflight)
    /\ cli.pc \in {"health", "silence"} =>
          cli.hand \in ToSet(cli.inflight) \ ToSet(cli.todo)

\* Where a step is, which task is in its hand and where that one stands.
Settling == cli.pc \in {"settle", "health", "silence"} \/ (At("book") /\ cli.back = "settle")
Offering == cli.pc \in {"offer", "calling"} \/ (At("book") /\ cli.back = "offer")
HandInv ==
    /\ cli.pc \in {"health", "silence"} => cli.back = "settle"
    /\ At("calling") => /\ cli.back = "offer" /\ Task \notin cli.offers
                        /\ graph[Task].state = "ready"
    /\ At("book") => graph[Task].state = "done"
    /\ Offering => \A t \in cli.offers : graph[t].state = "ready"

\* A run starts with nothing in flight, nothing looked at and, the first time,
\* nothing spent and no verdicts.
StartInv == At("start") =>
    /\ cli.inflight = <<>>
    /\ \A w \in Workers : cli.observed[w] = 0
    /\ cli.life = 1 => /\ published.spent = 0
                       /\ \A t \in Tasks : graph[t].verdict # "unknown"

\* A task that is ready or dispatched has only satisfied dependencies.
DepsDone(g, t) ==
    \A d \in ToSet(list.deps[t]) : g[d].state = "done" /\ Satisfied(g[d].verdict)
GraphInv ==
    \A t \in Tasks : graph[t].state \in {"ready", "dispatched"} => DepsDone(graph, t)

\* A hold is kept as long as its task is in flight or in hand.
SlotsInv ==
    /\ SlotsTrue
    /\ cli.pc \in {"calling", "book"} => Task \in budget.reserved

\* Only the request of the task in hand is still awaited, and it is the last.
MailInv ==
    \A w \in Workers : \A i \in DOMAIN mail[w] : mail[w][i].open =>
        /\ At("calling") /\ answer = None
        /\ w = Worker /\ mail[w][i].task = Task /\ i = Len(mail[w])

\* Where a task was started, or may still be by a request on the socket.
Posted(w, t) == \E i \in DOMAIN mail[w] : mail[w][i].task = t
Placed(t) == ranOn[t] \cup {w \in Workers : Posted(w, t)}

\* A verdict that satisfies comes from a record, and records of that kind stay.
Recorded(t) == \E w \in Workers : worker[w].record[t] \in {"success", "partial"}
RecordInv ==
    /\ \A w \in Workers :
          worker[w].live # None => worker[w].record[worker[w].live] = None
    /\ \A t \in Tasks :
          graph[t].state = "done" /\ Satisfied(graph[t].verdict) => Recorded(t)
    /\ At("calling") /\ Satisfied(answer) => Recorded(Task)
    /\ \A t \in Tasks : Placed(t) # {} => \A d \in ToSet(list.deps[t]) : Recorded(d)

OnceInv == cli.life = 1 =>
    /\ \A t \in Tasks : \A v, w \in Placed(t) : v = w
    /\ cli.pc \notin {"down", "escaped"} =>
          \A t \in Tasks : graph[t].state \notin {"dispatched", "done"}
                /\ ~ (At("calling") /\ t = Task) => Placed(t) = {}
    /\ At("calling") /\ mail[Worker] # <<>> /\ Last(mail[Worker]).open =>
          /\ ranOn[Task] = {}
          /\ \A w \in Workers : \A i \in DOMAIN mail[w] :
                mail[w][i].task = Task => w = Worker /\ i = Len(mail[w])
    /\ At("start") => \A t \in Tasks : Placed(t) = {}

\* The written graph is behind only by what the pass remembers having changed.
WriteInv ==
    /\ cli.pc \in {"probe", "done", "threw"} => schedule = graph
    /\ At("probe") => ~ cli.dispatched
    /\ Settling => schedule = graph \/ cli.progressed
    /\ Offering => /\ schedule = graph \/ cli.dispatched
                   /\ cli.dispatched => cli.progressed

BooksInv == published = budget

\* While nothing went wrong, a worker has at most one of a request, a live task
\* and tokens nobody has looked at; one that nobody follows has none.
Trusted ==
    /\ cli.life = 1 /\ ~ cli.blind
    /\ \A w \in Workers : ~ worker[w].overran
    /\ \A t \in Tasks : ~ (graph[t].state = "done" /\ graph[t].verdict = "unknown")
Looked(w) == worker[w].transcript <= cli.observed[w]
Quiet(w) == mail[w] = <<>> /\ worker[w].live = None /\ Looked(w)
InHand(w) == cli.pc \in {"calling", "book"} /\ w = Worker
BooksFit == budget.spent + Cardinality(budget.reserved) * Reserve <= Ceiling
OneThing(w) ==
    /\ worker[w].transcript <= cli.observed[w] + Reserve
    /\ mail[w] # <<>> => Len(mail[w]) = 1 /\ worker[w].live = None /\ Looked(w)
    /\ worker[w].live # None => Looked(w)
    /\ w \notin Busy /\ ~ InHand(w) => Quiet(w)
Followed ==
    /\ \A p \in ToSet(cli.inflight) :
          mail[p[2]] = <<>> /\ worker[p[2]].live \in {None, p[1]}
    /\ \A p, q \in ToSet(cli.inflight) : p[2] = q[2] => p = q
HandQuiet ==
    /\ cli.pc \in {"calling", "book"} => Worker \notin Busy
    /\ At("calling") /\ answer \in Verdict => Quiet(Worker)
    /\ At("calling") /\ answer = "accepted" =>
          mail[Worker] = <<>> /\ worker[Worker].live \in {None, Task}
    /\ At("book") => mail[Worker] = <<>> /\ worker[Worker].live = None
FreeOnly ==
    /\ At("probe") => cli.probing \cap Busy = {}
    /\ At("probe") \/ Offering => cli.avail \cap Busy = {}
WorkInv == (\A w \in Workers : OneThing(w)) /\ Followed /\ HandQuiet /\ FreeOnly
CeilingInv == Trusted =>
    /\ BooksFit
    /\ cli.pc \notin {"down", "escaped"} => WorkInv

IInv ==
    /\ TypeOK
    /\ StartInv /\ FlightInv /\ HandInv /\ GraphInv /\ SlotsInv
    /\ MailInv /\ RecordInv /\ OnceInv /\ WriteInv
    /\ BooksInv /\ CeilingInv

-----------------------------------------------------------------------------
(* Lists, the sweep and the sum.                                           *)

\* A set of numbers has a least one (the first of the probed workers, the first
\* offender of a sweep).
LEMMA MinIsLeast ==
  ASSUME NEW S \in SUBSET Nat, S # {}
  PROVE  Min(S) \in S /\ \A n \in S : Min(S) <= n
  <1>1. PICK m \in S : \A n \in S : ~ (<<n, m>> \in OpToRel(<, Nat))
    BY NatLessThanWellFounded, WFMin
  <1>2. ASSUME NEW n \in S, n < m PROVE <<n, m>> \in OpToRel(<, Nat)
    <2>1. n \in Nat /\ m \in Nat /\ n < m
      BY <1>2
    <2> QED BY <2>1 DEF OpToRel
  <1>3. \A n \in S : ~ (n < m)
    BY <1>1, <1>2
  <1>4. \A n \in S : m <= n
    BY <1>3
  <1> QED BY <1>4 DEF Min

\* Induction over the numbers, by the least one that is not in a set.
LEMMA Induction ==
  ASSUME NEW S, 0 \in S, \A n \in Nat : n \in S => n + 1 \in S
  PROVE  Nat \subseteq S
  <1> DEFINE T == Nat \ S
  <1> SUFFICES ASSUME T # {} PROVE FALSE
    OBVIOUS
  <1>1. Min(T) \in T /\ \A n \in T : Min(T) <= n
    BY MinIsLeast
  <1> DEFINE m == Min(T)
  <1> HIDE DEF m
  <1>2. m \in Nat /\ m # 0 /\ m - 1 \in Nat /\ (m - 1) + 1 = m
    BY <1>1 DEF m
  <1>3. m - 1 \in S
    BY <1>1, <1>2 DEF m
  <1> QED BY <1>1, <1>2, <1>3 DEF m

\* The first of a list that is in a set is in the set, if any is.
LEMMA FirstIsIn ==
  ASSUME NEW T, NEW seq \in Seq(T), NEW S, S # {}, S \subseteq ToSet(seq)
  PROVE  FirstOf(seq, S) \in S
  <1> DEFINE D == {i \in DOMAIN seq : seq[i] \in S}
  <1>1. D \in SUBSET Nat /\ D # {}
    BY DEF ToSet
  <1>2. Min(D) \in D
    BY <1>1, MinIsLeast
  <1> QED BY <1>2 DEF FirstOf

\* What a sweep makes of a task depends on the task's dependencies alone.
LEMMA SweptIsLocal ==
  ASSUME NEW l, NEW g, NEW e, NEW f, NEW t \in Tasks, l.deps[t] \in Seq(Tasks),
         \A d \in ToSet(l.deps[t]) : e[d] = f[d]
  PROVE  Swept(l, g, e, t) = Swept(l, g, f, t)
  <1>1. Offenders(l, e, t) = Offenders(l, f, t)
    BY DEF Offenders, Offends, ToSet
  <1>2. Offenders(l, e, t) # {} =>
           l.deps[t][Min(Offenders(l, e, t))] \in ToSet(l.deps[t])
    <2> SUFFICES ASSUME Offenders(l, e, t) # {}
                 PROVE  Min(Offenders(l, e, t)) \in DOMAIN l.deps[t]
      BY DEF ToSet
    <2>1. Offenders(l, e, t) \in SUBSET Nat
      BY DEF Offenders
    <2>2. Min(Offenders(l, e, t)) \in Offenders(l, e, t)
      BY <2>1, MinIsLeast
    <2> QED BY <2>2 DEF Offenders
  <1> QED BY <1>1, <1>2 DEF Swept

\* A sweep makes nodes of nodes.
LEMMA SweptType ==
  ASSUME NEW l, NEW g \in [Tasks -> Node], NEW f \in [Tasks -> Node], NEW t \in Tasks,
         l.deps[t] \in Seq(Tasks)
  PROVE  Swept(l, g, f, t) \in Node
  <1>1. g[t] \in Node
    OBVIOUS
  <1>2. CASE Offenders(l, f, t) # {}
    <2> DEFINE deps == l.deps[t]
               i == Min(Offenders(l, f, t))
               d == deps[i]
               by == IF f[d].state = "blocked" THEN f[d].blockedBy ELSE d
    <2>1. i \in DOMAIN deps
      <3>1. Offenders(l, f, t) \in SUBSET Nat
        BY DEF Offenders
      <3>2. i \in Offenders(l, f, t)
        BY <1>2, <3>1, MinIsLeast
      <3> QED BY <3>2 DEF Offenders
    <2>2. d \in Tasks
      <3> HIDE DEF i
      <3> QED BY <2>1
    <2> HIDE DEF d
    <2>3. by \in Tasks \cup {None}
      BY <2>2 DEF Node
    <2> HIDE DEF by
    <2>4. [g[t] EXCEPT !.state = "blocked", !.blockedBy = by] \in Node
      BY <1>1, <2>3 DEF Node
    <2> QED BY <1>1, <1>2, <2>4 DEF Swept, d, by
  <1>3. CASE Offenders(l, f, t) = {}
    BY <1>1, <1>3 DEF Swept, Node
  <1> QED BY <1>2, <1>3

\* The sweep visits the tasks in dependency order, so it has an answer for each:
\* the recursion over the dependencies of a list without cycles is well-founded.
LEMMA SweepIsSwept ==
  ASSUME NEW l, Valid(l), NEW g \in [Tasks -> Node]
  PROVE  /\ Sweep(l, g) \in [Tasks -> Node]
         /\ \A t \in Tasks : Sweep(l, g)[t] = Swept(l, g, Sweep(l, g), t)
  <1>1. PICK depth \in [Tasks -> 0 .. Cardinality(Tasks)] :
           \A t \in Tasks : \A d \in ToSet(l.deps[t]) : depth[d] < depth[t]
    BY DEF Valid, Acyclic
  <1>2. \A t \in Tasks : l.deps[t] \in Seq(Tasks) /\ ToSet(l.deps[t]) \subseteq Tasks
    BY DEF Valid, ToSet
  <1> DEFINE Settled(f, n) == \A t \in Tasks : depth[t] < n => f[t] = Swept(l, g, f, t)
             Upto == {n \in Nat : \E f \in [Tasks -> Node] : Settled(f, n)}
  <1>3. 0 \in Upto
    <2>1. Settled(g, 0)
      BY <1>1
    <2> QED BY <2>1
  <1>4. ASSUME NEW n \in Nat, n \in Upto
        PROVE  n + 1 \in Upto
    <2>1. PICK f \in [Tasks -> Node] : Settled(f, n)
      BY <1>4
    <2> DEFINE h == [t \in Tasks |-> IF depth[t] < n THEN f[t] ELSE Swept(l, g, f, t)]
    <2>2. h \in [Tasks -> Node]
      BY <1>2, SweptType
    <2>3. ASSUME NEW t \in Tasks, depth[t] < n + 1
          PROVE  h[t] = Swept(l, g, h, t)
      <3>1. \A d \in ToSet(l.deps[t]) : d \in Tasks /\ depth[d] < n
        BY <1>1, <1>2, <2>3
      <3>2. \A d \in ToSet(l.deps[t]) : h[d] = f[d]
        BY <3>1
      <3>3. Swept(l, g, f, t) = Swept(l, g, h, t)
        BY <1>2, <3>2, SweptIsLocal
      <3>4. h[t] = Swept(l, g, f, t)
        BY <2>1
      <3> QED BY <3>3, <3>4
    <2>4. Settled(h, n + 1)
      BY <2>3
    <2> HIDE DEF h
    <2> QED BY <2>2, <2>4
  <1>5. Nat \subseteq Upto
    <2> HIDE DEF Upto
    <2> QED BY <1>3, <1>4, Induction
  <1>6. PICK f \in [Tasks -> Node] : \A t \in Tasks : f[t] = Swept(l, g, f, t)
    <2>1. Cardinality(Tasks) \in Nat
      BY TasksAssumption, FS_CardinalityType
    <2>2. PICK f \in [Tasks -> Node] : Settled(f, Cardinality(Tasks) + 1)
      BY <1>5, <2>1
    <2>3. \A t \in Tasks : depth[t] < Cardinality(Tasks) + 1
      BY <1>1, <2>1
    <2> QED BY <2>2, <2>3
  <1>7. f = [t \in Tasks |-> Swept(l, g, f, t)]
    BY <1>6
  <1> DEFINE e == Sweep(l, g)
             Same == {n \in Nat : \A t \in Tasks : depth[t] < n => e[t] = f[t]}
  <1>8. e = [t \in Tasks |-> Swept(l, g, e, t)]
    BY <1>7 DEF Sweep
  <1> HIDE DEF e
  <1>9. ASSUME NEW n \in Nat, n \in Same
        PROVE  n + 1 \in Same
    <2> SUFFICES ASSUME NEW t \in Tasks, depth[t] < n + 1
                 PROVE  e[t] = f[t]
      OBVIOUS
    <2>1. \A d \in ToSet(l.deps[t]) : d \in Tasks /\ depth[d] < n
      BY <1>1, <1>2
    <2>2. \A d \in ToSet(l.deps[t]) : e[d] = f[d]
      BY <1>9, <2>1
    <2>3. Swept(l, g, e, t) = Swept(l, g, f, t)
      BY <1>2, <2>2, SweptIsLocal
    <2>4. e[t] = Swept(l, g, e, t)
      BY <1>8
    <2> QED BY <1>6, <2>3, <2>4
  <1>10. 0 \in Same
    BY <1>1
  <1>11. Nat \subseteq Same
    <2> HIDE DEF Same
    <2> QED BY <1>9, <1>10, Induction
  <1>12. e = f
    <2>1. Cardinality(Tasks) + 1 \in Same
      BY <1>11, TasksAssumption, FS_CardinalityType
    <2>2. \A t \in Tasks : depth[t] < Cardinality(Tasks) + 1
      BY <1>1, TasksAssumption, FS_CardinalityType
    <2>3. \A t \in Tasks : e[t] = f[t]
      BY <2>1, <2>2
    <2> QED BY <1>8, <2>3
  <1> QED BY <1>6, <1>12 DEF e

\* What a worker spent is summed one worker at a time, in an order of its own.
Added(f, sum, s) == IF s = {} THEN 0
                    ELSE LET x == CHOOSE x \in s : TRUE IN f[x] + sum[s \ {x}]

\* The opening balance is a number of tokens, and none if no worker spent any.
LEMMA SumIs ==
  ASSUME NEW S, IsFiniteSet(S), NEW f \in [S -> Nat]
  PROVE  /\ SumFunction(f) \in Nat
         /\ (\A x \in S : f[x] = 0) => SumFunction(f) = 0
  <1> DEFINE Good(sum, n) ==
                 \A s \in SUBSET S : Cardinality(s) <= n => sum[s] = Added(f, sum, s)
             Upto == {n \in Nat : \E sum \in [SUBSET S -> Nat] : Good(sum, n)}
  <1>1. ASSUME NEW s \in SUBSET S
        PROVE  /\ IsFiniteSet(s) /\ Cardinality(s) \in Nat
               /\ Cardinality(s) = 0 <=> s = {}
    BY FS_Subset, FS_EmptySet, FS_CardinalityType
  <1>2. ASSUME NEW s \in SUBSET S, s # {}
        PROVE  LET x == CHOOSE x \in s : TRUE
               IN x \in S /\ s \ {x} \in SUBSET S
                  /\ Cardinality(s \ {x}) = Cardinality(s) - 1
    BY <1>1, <1>2, FS_RemoveElement
  <1>3. ASSUME NEW sum \in [SUBSET S -> Nat], NEW s \in SUBSET S
        PROVE  Added(f, sum, s) \in Nat
    BY <1>2 DEF Added
  <1>4. 0 \in Upto
    <2> DEFINE h == [s \in SUBSET S |-> 0]
    <2>1. h \in [SUBSET S -> Nat] /\ Good(h, 0)
      BY <1>1 DEF Added
    <2> QED BY <2>1
  <1>5. ASSUME NEW n \in Nat, n \in Upto
        PROVE  n + 1 \in Upto
    <2>1. PICK h \in [SUBSET S -> Nat] : Good(h, n)
      BY <1>5
    <2> DEFINE e == [s \in SUBSET S |-> IF Cardinality(s) <= n THEN h[s] ELSE Added(f, h, s)]
    <2>2. e \in [SUBSET S -> Nat]
      BY <1>3
    <2>3. ASSUME NEW s \in SUBSET S, Cardinality(s) <= n + 1
          PROVE  e[s] = Added(f, e, s)
      <3>1. Added(f, e, s) = Added(f, h, s)
        <4>1. CASE s = {}
          BY <4>1 DEF Added
        <4>2. CASE s # {}
          BY <1>1, <1>2, <2>3, <4>2 DEF Added
        <4> QED BY <4>1, <4>2
      <3>2. e[s] = Added(f, h, s)
        BY <2>1
      <3> QED BY <3>1, <3>2
    <2>4. Good(e, n + 1)
      BY <2>3
    <2> HIDE DEF e
    <2> QED BY <2>2, <2>4
  <1>6. Cardinality(S) \in Upto
    <2> HIDE DEF Upto
    <2> QED BY <1>1, <1>4, <1>5, Induction
  <1>7. PICK sum \in [SUBSET S -> Nat] : Good(sum, Cardinality(S))
    BY <1>6
  <1>8. \A s \in SUBSET S : Cardinality(s) <= Cardinality(S)
    BY FS_Subset
  <1>9. sum = [s \in SUBSET S |-> Added(f, sum, s)]
    BY <1>7, <1>8
  <1> DEFINE it == CHOOSE it : it = [s \in SUBSET (DOMAIN f) |->
                                       IF s = {} THEN 0
                                       ELSE LET x == CHOOSE x \in s : TRUE
                                            IN f[x] + it[s \ {x}]]
  <1>10. SumFunction(f) = it[DOMAIN f]
    BY Zenon DEF SumFunction, SumFunctionOnSet, FoldFunctionOnSet, MapThenFoldSet
  <1>11. DOMAIN f = S
    OBVIOUS
  <1>12. it = [s \in SUBSET (DOMAIN f) |->
                IF s = {} THEN 0
                ELSE LET x == CHOOSE x \in s : TRUE IN f[x] + it[s \ {x}]]
    <2>1. sum = [s \in SUBSET (DOMAIN f) |->
                   IF s = {} THEN 0
                   ELSE LET x == CHOOSE x \in s : TRUE IN f[x] + sum[s \ {x}]]
      BY <1>9, <1>11 DEF Added
    <2> QED BY <2>1
  <1> HIDE DEF it
  <1>13. it = [s \in SUBSET S |-> Added(f, it, s)]
    BY <1>11, <1>12 DEF Added
  <1> DEFINE Same == {n \in Nat : \A s \in SUBSET S : Cardinality(s) <= n => it[s] = sum[s]}
  <1>14. 0 \in Same
    BY <1>1, <1>9, <1>13 DEF Added
  <1>15. ASSUME NEW n \in Nat, n \in Same
         PROVE  n + 1 \in Same
    <2> SUFFICES ASSUME NEW s \in SUBSET S, Cardinality(s) <= n + 1
                 PROVE  it[s] = sum[s]
      OBVIOUS
    <2>1. it[s] = Added(f, it, s) /\ sum[s] = Added(f, sum, s)
      BY <1>9, <1>13
    <2>2. Added(f, it, s) = Added(f, sum, s)
      <3>1. CASE s = {}
        BY <3>1 DEF Added
      <3>2. CASE s # {}
        BY <1>1, <1>2, <1>15, <3>2 DEF Added
      <3> QED BY <3>1, <3>2
    <2> QED BY <2>1, <2>2
  <1>16. Cardinality(S) \in Same
    <2> HIDE DEF Same
    <2> QED BY <1>1, <1>14, <1>15, Induction
  <1>17. it[S] = sum[S]
    BY <1>8, <1>16
  <1>18. SumFunction(f) = sum[S]
    BY <1>10, <1>11, <1>17 DEF it
  <1>19. \A s \in SUBSET S : sum[s] = Added(f, sum, s)
    BY <1>7, <1>8
  <1> HIDE DEF it, Good, Upto, Same
  <1>20. ASSUME \A x \in S : f[x] = 0
        PROVE  sum[S] = 0
    <2> DEFINE Zero == {n \in Nat : \A s \in SUBSET S : Cardinality(s) <= n => sum[s] = 0}
    <2>1. ASSUME NEW s \in SUBSET S
          PROVE  /\ IsFiniteSet(s) /\ Cardinality(s) \in Nat
                 /\ Cardinality(s) = 0 <=> s = {}
      BY FS_Subset, FS_EmptySet, FS_CardinalityType
    <2>2. 0 \in Zero
      BY <1>19, <2>1 DEF Added
    <2>3. ASSUME NEW n \in Nat, n \in Zero
          PROVE  n + 1 \in Zero
      <3> SUFFICES ASSUME NEW s \in SUBSET S, Cardinality(s) <= n + 1, s # {}
                   PROVE  sum[s] = 0
        BY <1>19 DEF Added
      <3> DEFINE x == CHOOSE x \in s : TRUE
      <3>1. x \in S /\ s \ {x} \in SUBSET S /\ Cardinality(s \ {x}) = Cardinality(s) - 1
        BY <2>1, FS_RemoveElement
      <3>2. sum[s] = f[x] + sum[s \ {x}]
        BY <1>19 DEF Added
      <3> HIDE DEF x
      <3>3. sum[s \ {x}] = 0
        BY <2>1, <2>3, <3>1
      <3> QED BY <1>20, <3>1, <3>2, <3>3
    <2>4. Cardinality(S) \in Zero
      <3> HIDE DEF Zero
      <3> QED BY <2>1, <2>2, <2>3, Induction
    <2> QED BY <2>1, <2>4
  <1> QED BY <1>7, <1>18, <1>20

\* Taking an element out of a list closes the gap.
LEMMA RemoveAtIs ==
  ASSUME NEW S, NEW s \in Seq(S), NEW i \in DOMAIN s
  PROVE  /\ RemoveAt(s, i) \in Seq(S) /\ Len(RemoveAt(s, i)) = Len(s) - 1
         /\ \A k \in DOMAIN RemoveAt(s, i) :
               RemoveAt(s, i)[k] = IF k < i THEN s[k] ELSE s[k + 1]
  <1> DEFINE a == SubSeq(s, 1, i - 1)
             b == SubSeq(s, i + 1, Len(s))
  <1>1. i \in 1 .. Len(s) /\ Len(s) \in Nat
    OBVIOUS
  <1>2. /\ a \in Seq(S) /\ Len(a) = i - 1
        /\ \A k \in 1 .. i - 1 : a[k] = s[k]
    BY <1>1, SubSeqProperties
  <1>3. /\ b \in Seq(S) /\ Len(b) = Len(s) - i
        /\ \A k \in 1 .. Len(s) - i : b[k] = s[i + k]
    <2>1. \A k \in i + 1 .. Len(s) : s[k] \in S
      BY <1>1
    <2>2. /\ b \in Seq(S) /\ Len(b) = IF i + 1 <= Len(s) THEN Len(s) - (i + 1) + 1 ELSE 0
          /\ \A k \in 1 .. Len(s) - (i + 1) + 1 : b[k] = s[(i + 1) + k - 1]
      BY <1>1, <2>1, SubSeqProperties
    <2> QED BY <1>1, <2>2
  <1> HIDE DEF a, b
  <1> DEFINE c == a \o b
  <1>4. /\ c \in Seq(S) /\ Len(c) = Len(s) - 1
        /\ \A k \in 1 .. Len(s) - 1 : c[k] = IF k <= i - 1 THEN a[k] ELSE b[k - (i - 1)]
    BY <1>1, <1>2, <1>3, ConcatProperties
  <1>5. RemoveAt(s, i) = c
    BY DEF RemoveAt, a, b
  <1> HIDE DEF c
  <1>6. ASSUME NEW k \in 1 .. Len(s) - 1
        PROVE  c[k] = IF k < i THEN s[k] ELSE s[k + 1]
    <2>1. CASE k < i
      BY <1>1, <1>2, <1>4, <2>1
    <2>2. CASE k >= i
      <3>1. k - (i - 1) \in 1 .. Len(s) - i /\ i + (k - (i - 1)) = k + 1
        BY <1>1, <2>2
      <3>2. b[k - (i - 1)] = s[k + 1]
        BY <1>3, <3>1
      <3>3. ~ (k <= i - 1) /\ ~ (k < i)
        BY <1>1, <2>2
      <3> QED BY <1>4, <3>2, <3>3
    <2> QED BY <1>1, <2>1, <2>2
  <1>7. DOMAIN c = 1 .. Len(s) - 1
    BY <1>1, <1>4
  <1> QED BY <1>4, <1>5, <1>6, <1>7

\* What is left in flight when a task reaches its verdict is everything but it.
LEMMA WithoutIs ==
  ASSUME cli.inflight \in Seq(Tasks \X Workers), OnceIn(cli.inflight), NEW t \in Tasks
  PROVE  /\ Without(t) \in Seq(Tasks \X Workers)
         /\ ToSet(Without(t)) = {p \in ToSet(cli.inflight) : p[1] # t}
         /\ OnceIn(Without(t))
  <1> DEFINE s == cli.inflight
             i == CHOOSE i \in DOMAIN s : s[i][1] = t
  <1>1. CASE InFlight(t)
    <2>1. i \in DOMAIN s /\ s[i][1] = t
      BY <1>1 DEF InFlight
    <2>2. Without(t) = RemoveAt(s, i)
      BY <1>1 DEF Without
    <2> HIDE DEF i
    <2> DEFINE r == RemoveAt(s, i)
    <2>3. /\ r \in Seq(Tasks \X Workers) /\ Len(r) = Len(s) - 1
          /\ \A k \in DOMAIN r : r[k] = IF k < i THEN s[k] ELSE s[k + 1]
      BY <2>1, RemoveAtIs
    <2> HIDE DEF r
    <2> DEFINE from(k) == IF k < i THEN k ELSE k + 1
    <2>0. ASSUME NEW k \in DOMAIN r
          PROVE  from(k) \in DOMAIN s /\ from(k) # i /\ r[k] = s[from(k)]
      BY <2>1, <2>3
    <2>4. OnceIn(r)
      <3> SUFFICES ASSUME NEW j \in DOMAIN r, NEW k \in DOMAIN r, r[j][1] = r[k][1]
                   PROVE  j = k
        BY DEF OnceIn
      <3>1. from(j) = from(k)
        BY <2>0 DEF OnceIn
      <3> QED BY <2>1, <2>3, <3>1
    <2>5. \A k \in DOMAIN r : r[k] \in ToSet(s) /\ r[k][1] # t
      <3> SUFFICES ASSUME NEW k \in DOMAIN r PROVE r[k] \in ToSet(s) /\ r[k][1] # t
        OBVIOUS
      <3>1. s[from(k)][1] # s[i][1]
        BY <2>0, <2>1 DEF OnceIn
      <3> QED BY <2>0, <2>1, <3>1 DEF ToSet
    <2>6. ASSUME NEW k \in DOMAIN s, s[k][1] # t
          PROVE  s[k] \in ToSet(r)
      <3>1. CASE k < i
        BY <2>1, <2>3, <3>1 DEF ToSet
      <3>2. CASE k > i
        <4>1. k - 1 \in DOMAIN r /\ r[k - 1] = s[k]
          BY <2>1, <2>3, <3>2
        <4> QED BY <4>1 DEF ToSet
      <3> QED BY <2>1, <2>6, <3>1, <3>2
    <2> QED BY <2>2, <2>3, <2>4, <2>5, <2>6 DEF ToSet, r
  <1>2. CASE ~ InFlight(t)
    BY <1>2 DEF InFlight, Without, ToSet
  <1> QED BY <1>1, <1>2

-----------------------------------------------------------------------------
(* Type correctness.                                                       *)

\* The list of a run has every task once, and every dependency is a task.
LEMMA ListFacts ==
  ASSUME TypeOK
  PROVE  /\ Valid(list)
         /\ \A t \in Tasks : list.deps[t] \in Seq(Tasks) /\ ToSet(list.deps[t]) \subseteq Tasks
         /\ list.pin \in [Tasks -> Workers \cup {None}] /\ list.cap \in Nat
         /\ list.order \in Seq(Tasks) /\ ToSet(list.order) = Tasks
  BY ListsAssumption DEF TypeOK, Valid, ToSet

\* A verdict is not None, nor the word for an accepted dispatch.
LEMMA NoneFacts ==
  /\ None \notin Tasks /\ None \notin Workers /\ None \notin Verdict /\ None # "accepted"
  /\ "accepted" \notin Verdict
  BY NoneAssumption DEF Verdict

\* markSettled: the task is done with its verdict, then the graph is swept.
Marked(t, v, w) ==
    [graph EXCEPT ![t].state = "done", ![t].verdict = v, ![t].worker = w]
LEMMA MarkSettledIs ==
  ASSUME TypeOK, NEW t \in Tasks, NEW v \in Verdict, NEW w \in Workers
  PROVE  LET g == Marked(t, v, w)
             h == MarkSettled(list, graph, t, v, w)
         IN /\ g \in [Tasks -> Node] /\ h \in [Tasks -> Node]
            /\ g[t].state = "done" /\ g[t].verdict = v
            /\ \A u \in Tasks \ {t} : g[u] = graph[u]
            /\ \A u \in Tasks : h[u] = Swept(list, g, h, u)
  <1> DEFINE g == Marked(t, v, w)
  <1>1. graph \in [Tasks -> Node]
    BY DEF TypeOK
  <1>2. g \in [Tasks -> Node]
    BY <1>1 DEF Node, Marked
  <1>3. /\ g[t].state = "done" /\ g[t].verdict = v
        /\ \A u \in Tasks \ {t} : g[u] = graph[u]
    BY <1>1 DEF Node, Marked
  <1>4. MarkSettled(list, graph, t, v, w) = Sweep(list, g)
    BY DEF MarkSettled, Marked
  <1> HIDE DEF g
  <1>5. Sweep(list, g) \in [Tasks -> Node]
        /\ \A u \in Tasks : Sweep(list, g)[u] = Swept(list, g, Sweep(list, g), u)
    BY <1>2, ListFacts, SweepIsSwept
  <1> QED BY <1>2, <1>3, <1>4, <1>5 DEF g

\* markDispatched: the task is dispatched to its worker.
LEMMA MarkDispatchedIs ==
  ASSUME TypeOK, NEW t \in Tasks, NEW w \in Workers
  PROVE  LET h == MarkDispatched(graph, t, w)
         IN /\ h \in [Tasks -> Node]
            /\ h[t].state = "dispatched" /\ h[t].verdict = graph[t].verdict
            /\ \A u \in Tasks \ {t} : h[u] = graph[u]
  <1>1. graph \in [Tasks -> Node]
    BY DEF TypeOK
  <1>2. MarkDispatched(graph, t, w) =
           [graph EXCEPT ![t] = [@ EXCEPT !.state = "dispatched", !.worker = w]]
    BY <1>1 DEF MarkDispatched, Node
  <1> QED BY <1>1, <1>2 DEF Node

\* The graph of a list before anything ran.
LEMMA NewGraphType == ASSUME list \in Lists PROVE NewGraph(list) \in [Tasks -> Node]
  BY DEF NewGraph, Node

\* The initial state is a state of the types.
LEMMA InitType == Init => TypeOK
  <1> SUFFICES ASSUME Init PROVE TypeOK
    OBVIOUS
  <1> USE DEF Init
  <1>1. cli \in CliState
    BY DEF Stopped, CliState
  <1>2. graph \in [Tasks -> Node]
    BY NewGraphType
  <1>3. worker \in [Workers -> WorkerState]
    BY BeforesAssumption
  <1>4. cli.pc = "start"
    BY DEF Stopped
  <1> QED BY <1>1, <1>2, <1>3, <1>4 DEF TypeOK, NoBudget, BudgetState

\* The operations of the budget: a hold, its release, and a settlement that
\* books what was spent and never lifts a halt.
LEMMA BudgetIs ==
  ASSUME NEW b \in BudgetState, NEW t \in Tasks, NEW n \in Nat
  PROVE  /\ Hold(b, t) \in BudgetState /\ Release(b, t) \in BudgetState
         /\ Hold(b, t).reserved = b.reserved \cup {t} /\ Hold(b, t).spent = b.spent
         /\ Hold(b, t).halted = b.halted
         /\ Release(b, t).reserved = b.reserved \ {t} /\ Release(b, t).spent = b.spent
         /\ Release(b, t).halted = b.halted
         /\ SettleTask(b, t, n) \in BudgetState
         /\ SettleTask(b, t, n).reserved = b.reserved \ {t}
         /\ SettleTask(b, t, n).spent = b.spent + n
         /\ b.halted => SettleTask(b, t, n).halted
  <1>1. Hold(b, t) \in BudgetState /\ Release(b, t) \in BudgetState
    BY DEF Hold, Release, BudgetState
  <1>2. SettleTask(b, t, n) \in BudgetState
    <2> DEFINE h == b.halted \/ b.spent + n > Ceiling
    <2>1. h \in BOOLEAN
      OBVIOUS
    <2>2. SettleTask(b, t, n) = [b EXCEPT !.reserved = b.reserved \ {t}, !.spent = b.spent + n,
                                          !.halted = h]
      BY Zenon DEF SettleTask
    <2> HIDE DEF h
    <2>3. ASSUME NEW x \in BOOLEAN
          PROVE  [b EXCEPT !.reserved = b.reserved \ {t}, !.spent = b.spent + n,
                           !.halted = x] \in BudgetState
      <3>1. Release(b, t) \in BudgetState
        BY <1>1
      <3>2. \A c \in BudgetState, k \in Nat : [c EXCEPT !.spent = k, !.halted = x] \in BudgetState
        BY DEF BudgetState
      <3>3. b.spent + n \in Nat
        BY DEF BudgetState
      <3>4. [Release(b, t) EXCEPT !.spent = b.spent + n, !.halted = x] \in BudgetState
        BY <3>1, <3>2, <3>3
      <3> QED BY <3>4 DEF Release
    <2> QED BY Zenon, <2>1, <2>2, <2>3
  <1>3. b.halted => SettleTask(b, t, n).halted
    BY DEF SettleTask, BudgetState
  <1> QED BY <1>1, <1>2, <1>3 DEF Hold, Release, SettleTask, BudgetState

\* Without keeps the type, whatever is in flight.
LEMMA WithoutType ==
  ASSUME TypeOK, NEW t \in Tasks PROVE Without(t) \in Seq(Tasks \X Workers)
  <1>1. cli.inflight \in Seq(Tasks \X Workers)
    BY DEF TypeOK, CliState
  <1>2. CASE InFlight(t)
    <2>1. (CHOOSE i \in DOMAIN cli.inflight : cli.inflight[i][1] = t) \in DOMAIN cli.inflight
      BY <1>2 DEF InFlight
    <2> QED BY <1>1, <1>2, <2>1, RemoveAtIs DEF Without
  <1> QED BY <1>1, <1>2 DEF Without

\* A task reaches its verdict, and its spend is to be booked.
LEMMA SettleAsType ==
  ASSUME TypeOK, NEW v \in Verdict, NEW w \in Workers, NEW c \in CliState,
         c.hand \in Tasks \X Workers, SettleAs(v, w, c)
  PROVE  /\ cli' \in CliState /\ cli'.hand = c.hand
         /\ graph' \in [Tasks -> Node]
  <1>1. c.hand[1] \in Tasks
    OBVIOUS
  <1>2. graph' \in [Tasks -> Node]
    BY <1>1, MarkSettledIs DEF SettleAs
  <1>3. Without(c.hand[1]) \in Seq(Tasks \X Workers)
    BY <1>1, WithoutType
  <1>4. cli' = [c EXCEPT !.pc = "book", !.inflight = Without(c.hand[1]), !.progressed = TRUE]
    BY DEF SettleAs
  <1>5. cli' \in CliState /\ cli'.hand = c.hand
    BY <1>3, <1>4 DEF CliState
  <1> QED BY <1>2, <1>5

\* What is offered next is one of the tasks left to offer.
LEMMA OfferedIs ==
  ASSUME TypeOK, cli.offers # {} PROVE Offered \in cli.offers /\ Offered \in Tasks
  <1>1. cli.offers \subseteq Tasks
    BY DEF TypeOK, CliState
  <1> QED BY <1>1, ListFacts, FirstIsIn DEF Offered

\* The worker a task is offered to is free: its pin, if it has one.
LEMMA TargetIs ==
  ASSUME TypeOK, NEW t \in Tasks, TargetOf(t) # None
  PROVE  TargetOf(t) \in cli.avail /\ TargetOf(t) \in Workers
  <1>1. cli.avail \subseteq Workers
    BY DEF TypeOK, CliState
  <1>2. cli.avail # {} => FirstOf(Fleet, cli.avail) \in cli.avail
    BY <1>1, FleetAssumption, FirstIsIn
  <1> QED BY <1>1, <1>2 DEF TargetOf

\* A request whose socket could not be connected goes, the others stay.
LEMMA FrontIs ==
  ASSUME NEW S, NEW s \in Seq(S), s # <<>>
  PROVE  /\ Front(s) \in Seq(S) /\ Len(Front(s)) = Len(s) - 1
         /\ \A i \in DOMAIN Front(s) : i \in DOMAIN s /\ Front(s)[i] = s[i]
  <1>1. Len(s) \in Nat /\ Len(s) # 0
    BY EmptySeq
  <1>2. \A i \in 1 .. Len(s) - 1 : s[i] \in S
    BY <1>1
  <1> DEFINE f == SubSeq(s, 1, Len(s) - 1)
  <1>3. /\ f \in Seq(S)
        /\ Len(f) = IF 1 <= Len(s) - 1 THEN (Len(s) - 1) - 1 + 1 ELSE 0
        /\ \A i \in 1 .. (Len(s) - 1) - 1 + 1 : f[i] = s[1 + i - 1]
    BY <1>1, <1>2, SubSeqProperties
  <1>4. Front(s) = f
    BY DEF Front
  <1> HIDE DEF f
  <1> QED BY <1>1, <1>3, <1>4

\* A closed socket leaves its requests behind, and nobody awaits them.
LEMMA AbandonType ==
  ASSUME TypeOK, NEW w \in Workers, Abandon(w)
  PROVE  /\ mail' \in [Workers -> Seq([task: Tasks, open: BOOLEAN])]
         /\ \A v \in Workers : /\ Len(mail'[v]) = Len(mail[v])
                               /\ \A i \in DOMAIN mail[v] : mail'[v][i].task = mail[v][i].task
         /\ \A v \in Workers \ {w} : mail'[v] = mail[v]
         /\ \A i \in DOMAIN mail[w] : ~ mail'[w][i].open
  <1> DEFINE S == [task: Tasks, open: BOOLEAN]
             s == mail[w]
             n == Len(s)
             off(r) == [r EXCEPT !.open = FALSE]
             m == [i \in 1 .. n |-> off(s[i])]
  <1>0. \A r \in S : off(r) \in S /\ off(r).task = r.task /\ ~ off(r).open
    OBVIOUS
  <1>1. mail \in [Workers -> Seq(S)]
    BY DEF TypeOK
  <1> HIDE DEF S
  <1>2. s \in Seq(S) /\ n \in Nat /\ DOMAIN s = 1 .. n
    BY <1>1
  <1>3. \A i \in 1 .. n : s[i] \in S
    BY <1>2, ElementOfSeq
  <1>4. mail' = [mail EXCEPT ![w] = m]
    <2>1. mail' = [mail EXCEPT ![w] = [i \in DOMAIN mail[w] |-> [mail[w][i] EXCEPT !.open = FALSE]]]
      BY Zenon DEF Abandon
    <2> QED BY <1>2, <2>1
  <1> HIDE DEF s, n, off
  <1>5. \A i \in 1 .. n : m[i] = off(s[i])
    OBVIOUS
  <1>6. m \in [1 .. n -> S]
    BY <1>0, <1>3
  <1> HIDE DEF m
  <1>7. m \in Seq(S) /\ Len(m) = n
    BY <1>2, <1>6
  <1>8. \A i \in 1 .. n : m[i].task = s[i].task /\ ~ m[i].open
    BY <1>0, <1>3, <1>5
  <1>9. mail' \in [Workers -> Seq(S)] /\ mail'[w] = m /\ \A v \in Workers \ {w} : mail'[v] = mail[v]
    BY <1>1, <1>4, <1>7
  <1>10. /\ Len(mail'[w]) = Len(mail[w])
         /\ \A i \in DOMAIN mail[w] : /\ mail'[w][i].task = mail[w][i].task
                                     /\ ~ mail'[w][i].open
    BY <1>2, <1>7, <1>8, <1>9 DEF s, n
  <1>11. mail' \in [Workers -> Seq([task: Tasks, open: BOOLEAN])]
    BY <1>9 DEF S
  <1> QED BY <1>9, <1>10, <1>11

\* Every step of the CLI keeps the types.
LEMMA CliType ==
  ASSUME TypeOK, SettlePass \/ DispatchPass
  PROVE  TypeOK'
  <1> USE DEF TypeOK
  <1>0. cli \in CliState
    OBVIOUS
  <1>1. CASE ReadSettled
    <2> DEFINE c == [cli EXCEPT !.hand = Head(cli.todo), !.todo = Tail(@), !.back = "settle"]
               v == worker[c.hand[2]].record[c.hand[1]]
    <2>0. Head(cli.todo) \in Tasks \X Workers /\ Tail(cli.todo) \in Seq(Tasks \X Workers)
      BY <1>1, HeadTailProperties DEF ReadSettled, CliState
    <2>1. c \in CliState /\ c.hand \in Tasks \X Workers
      BY <2>0 DEF CliState
    <2>2. v \in Verdict \cup {None}
      BY <2>1 DEF WorkerState
    <2>3. \/ v # None /\ SettleAs(v, c.hand[2], c)
          \/ cli' = [c EXCEPT !.pc = "health"] /\ UNCHANGED graph
      BY <1>1 DEF ReadSettled
    <2> HIDE DEF c, v
    <2>4. /\ cli' \in CliState /\ cli'.hand \in Tasks \X Workers
          /\ graph' \in [Tasks -> Node]
      <3>1. CASE v # None /\ SettleAs(v, c.hand[2], c)
        BY <2>1, <2>2, <3>1, SettleAsType
      <3>2. CASE cli' = [c EXCEPT !.pc = "health"] /\ UNCHANGED graph
        BY <2>1, <3>2 DEF CliState
      <3> QED BY <2>3, <3>1, <3>2
    <2> QED BY <1>1, <2>4 DEF ReadSettled, ThisRun
  <1>2. CASE ReadHealth
    <2> DEFINE c == [cli EXCEPT !.dead = @ \cup {Worker}]
    <2>1. c \in CliState /\ c.hand \in Tasks \X Workers /\ Worker \in Workers
      BY <1>2 DEF ReadHealth, CliState, At, Worker
    <2>2. \/ SettleAs("unknown", Worker, c)
          \/ cli' = [cli EXCEPT !.pc = "silence"] /\ UNCHANGED graph
      BY <1>2 DEF ReadHealth
    <2> HIDE DEF c
    <2>3. /\ cli' \in CliState /\ cli'.hand \in Tasks \X Workers
          /\ graph' \in [Tasks -> Node]
      <3>1. CASE SettleAs("unknown", Worker, c)
        BY <2>1, <3>1, SettleAsType DEF Verdict
      <3>2. CASE cli' = [cli EXCEPT !.pc = "silence"] /\ UNCHANGED graph
        BY <1>2, <3>2 DEF ReadHealth, CliState, At
      <3> QED BY <2>2, <3>1, <3>2
    <2> QED BY <1>2, <2>3 DEF ReadHealth, ThisRun
  <1>3. CASE ReadSilence
    <2> DEFINE c == [cli EXCEPT !.dead = @ \cup {Worker}]
    <2>1. c \in CliState /\ c.hand \in Tasks \X Workers /\ Worker \in Workers
      BY <1>3 DEF ReadSilence, CliState, At, Worker
    <2>2. \/ SettleAs("unknown", Worker, c)
          \/ cli' = [cli EXCEPT !.pc = "settle"] /\ UNCHANGED graph
      BY <1>3 DEF ReadSilence
    <2> HIDE DEF c
    <2>3. /\ cli' \in CliState /\ cli'.hand \in Tasks \X Workers
          /\ graph' \in [Tasks -> Node]
      <3>1. CASE SettleAs("unknown", Worker, c)
        BY <2>1, <3>1, SettleAsType DEF Verdict
      <3>2. CASE cli' = [cli EXCEPT !.pc = "settle"] /\ UNCHANGED graph
        BY <1>3, <3>2 DEF ReadSilence, CliState, At
      <3> QED BY <2>2, <3>1, <3>2
    <2> QED BY <1>3, <2>3 DEF ReadSilence, ThisRun
  <1>4. CASE BookSpend
    <2>1. TaskTokens(Worker) \in Nat /\ Seen(Worker) \in Nat
      BY <1>4 DEF BookSpend, At, Worker, TaskTokens, Seen, WorkerState, CliState
    <2>2. Worker \in Workers /\ Task \in Tasks
      BY <1>4 DEF BookSpend, At, Worker, Task
    <2>3. /\ [cli EXCEPT !.pc = cli.back, !.observed[Worker] = Seen(Worker)] \in CliState
          /\ [cli EXCEPT !.pc = cli.back, !.blind = TRUE] \in CliState
      BY <2>1, <2>2 DEF CliState
    <2>4. cli' \in CliState
      BY <1>4, <2>3 DEF BookSpend
    <2>5. cli'.pc \in {"settle", "offer"}
      BY <1>4 DEF BookSpend, CliState
    <2>6. budget' \in BudgetState
      <3>1. \A n \in Nat : SettleTask(budget, Task, n) \in BudgetState
        BY <2>2, BudgetIs
      <3>2. \E n \in Nat : budget' = SettleTask(budget, Task, n)
        BY <1>4, <2>1 DEF BookSpend
      <3> QED BY <3>1, <3>2
    <2> QED BY <1>4, <2>4, <2>5, <2>6 DEF BookSpend, ThisRun
  <1>5. CASE SettlePassDone
    <2>1. cli' \in CliState /\ cli'.pc \in {"done", "probe"}
      BY <1>5 DEF SettlePassDone, CliState
    <2> QED BY <1>5, <2>1 DEF SettlePassDone, ThisRun
  <1>6. CASE Probe
    <2>1. cli' \in CliState /\ cli'.pc = "probe"
      <3>1. FirstOf(Fleet, cli.probing) \in Workers
        BY <1>6, FleetAssumption, FirstIsIn DEF Probe, CliState
      <3> DEFINE w == FirstOf(Fleet, cli.probing)
      <3> HIDE DEF w
      <3> DEFINE d == IF Health(w) = "dead" THEN cli.dead \cup {w} ELSE cli.dead
                 a == IF Health(w) = "idle" THEN cli.avail \cup {w} ELSE cli.avail
      <3>2. cli' = [cli EXCEPT !.probing = cli.probing \ {w}, !.dead = d, !.avail = a]
        BY <1>6 DEF Probe, w
      <3>3. d \in SUBSET Workers /\ a \in SUBSET Workers /\ cli.probing \ {w} \in SUBSET Workers
        BY <3>1 DEF CliState, w
      <3>4. \A x, y, z \in SUBSET Workers :
               [cli EXCEPT !.probing = x, !.dead = y, !.avail = z] \in CliState
        BY DEF CliState
      <3> HIDE DEF d, a
      <3>5. cli' \in CliState
        BY <3>2, <3>3, <3>4
      <3> QED BY <1>6, <3>2, <3>5 DEF Probe, CliState, At
    <2> QED BY <1>6, <2>1 DEF Probe, ThisRun
  <1>7. CASE ProbePassDone
    <2>1. cli' \in CliState /\ cli'.pc = "offer"
      BY <1>7 DEF ProbePassDone, CliState, Ready
    <2> QED BY <1>7, <2>1 DEF ProbePassDone, ThisRun
  <1>8. CASE OfferPinned \/ OfferSkipped
    <2>0. \A x \in BOOLEAN, o \in SUBSET Tasks :
             [cli EXCEPT !.offers = o, !.refused = x] \in CliState
      BY DEF CliState
    <2>1. cli' \in CliState /\ cli'.pc \in {"threw", "offer"}
      <3>1. CASE OfferPinned
        BY <3>1 DEF OfferPinned, CliState
      <3>2. CASE OfferSkipped
        <4> DEFINE x == cli.refused \/ TargetOf(Offered) # None
        <4>1. cli' = [cli EXCEPT !.offers = cli.offers \ {Offered}, !.refused = x]
          BY <3>2, Zenon DEF OfferSkipped
        <4>2. x \in BOOLEAN /\ cli.offers \ {Offered} \in SUBSET Tasks
          BY DEF CliState
        <4> HIDE DEF x
        <4>3. cli' \in CliState
          BY <2>0, <4>1, <4>2
        <4> QED BY <3>2, <4>1, <4>3 DEF OfferSkipped, At, CliState
      <3> QED BY <1>8, <3>1, <3>2
    <2> QED BY <1>8, <2>1 DEF OfferPinned, OfferSkipped, ThisRun
  <1>9. CASE Offer
    <2> DEFINE t == Offered
               w == TargetOf(t)
    <2>1. t \in Tasks
      BY <1>9, OfferedIs DEF Offer
    <2>2. w \in Workers
      BY <1>9, <2>1, TargetIs DEF Offer
    <2> HIDE DEF t, w
    <2>3. /\ cli' = [cli EXCEPT !.pc = "calling", !.offers = @ \ {t}, !.hand = <<t, w>>,
                                !.back = "offer"]
          /\ mail' = [mail EXCEPT ![w] = Append(@, [task |-> t, open |-> TRUE])]
          /\ budget' = Hold(budget, t) /\ published' = budget' /\ answer' = None
          /\ UNCHANGED <<list, graph, schedule, worker, ranOn, faults>>
      BY <1>9 DEF Offer, t, w
    <2>4. cli' \in CliState /\ cli'.hand \in Tasks \X Workers
      BY <2>1, <2>2, <2>3 DEF CliState
    <2>5. mail' \in [Workers -> Seq([task: Tasks, open: BOOLEAN])]
      <3>1. [task |-> t, open |-> TRUE] \in [task: Tasks, open: BOOLEAN]
        BY <2>1
      <3>2. Append(mail[w], [task |-> t, open |-> TRUE]) \in Seq([task: Tasks, open: BOOLEAN])
        BY <2>2, <3>1, AppendProperties
      <3> QED BY <2>2, <2>3, <3>2
    <2>6. budget' \in BudgetState
      BY <2>1, <2>3, BudgetIs
    <2> QED BY <2>3, <2>4, <2>5, <2>6
  <1>10. CASE Accepted
    <2>1. Worker \in Workers /\ Task \in Tasks /\ <<Task, Worker>> \in Tasks \X Workers
      BY <1>10 DEF Accepted, At, Worker, Task
    <2>2. graph' \in [Tasks -> Node]
      BY <1>10, <2>1, MarkDispatchedIs DEF Accepted
    <2>3. Append(cli.inflight, <<Task, Worker>>) \in Seq(Tasks \X Workers)
      BY <2>1 DEF CliState
    <2>4. cli' \in CliState /\ cli'.pc = "offer"
      BY <1>10, <2>1, <2>3 DEF Accepted, Answered, CliState
    <2> QED BY <1>10, <2>2, <2>4 DEF Accepted, ThisRun
  <1>11. CASE Declined
    <2>1. Answered \in CliState /\ Answered.hand \in Tasks \X Workers /\ Worker \in Workers
      BY <1>11 DEF Declined, Answered, CliState, At, Worker
    <2>2. SettleAs(answer, Worker, Answered) /\ answer \in Verdict
      BY <1>11 DEF Declined
    <2>3. /\ cli' \in CliState /\ cli'.hand \in Tasks \X Workers
          /\ graph' \in [Tasks -> Node]
      BY <2>1, <2>2, SettleAsType
    <2> QED BY <1>11, <2>3 DEF Declined, ThisRun
  <1>12. CASE InDoubt
    <2> DEFINE c == [Answered EXCEPT !.avail = @ \ {Worker}]
    <2>1. c \in CliState /\ c.hand \in Tasks \X Workers /\ Worker \in Workers
      BY <1>12 DEF InDoubt, Answered, CliState, At, Worker
    <2>2. SettleAs("unknown", Worker, c)
      BY <1>12 DEF InDoubt
    <2> HIDE DEF c
    <2>3. /\ cli' \in CliState /\ cli'.hand \in Tasks \X Workers
          /\ graph' \in [Tasks -> Node]
      BY <2>1, <2>2, SettleAsType DEF Verdict
    <2>4. mail' \in [Workers -> Seq([task: Tasks, open: BOOLEAN])]
      BY <1>12, <2>1, AbandonType DEF InDoubt
    <2> QED BY <1>12, <2>3, <2>4 DEF InDoubt
  <1>13. CASE Unreachable
    <2>1. Worker \in Workers /\ Task \in Tasks
      BY <1>13 DEF Unreachable, At, Worker, Task
    <2>2. cli' \in CliState /\ cli'.pc = "offer"
      BY <1>13, <2>1 DEF Unreachable, Answered, CliState
    <2>3. mail' \in [Workers -> Seq([task: Tasks, open: BOOLEAN])]
      <3>1. Front(mail[Worker]) \in Seq([task: Tasks, open: BOOLEAN])
        BY <1>13, <2>1, FrontIs DEF Unreachable
      <3> QED BY <1>13, <2>1, <3>1 DEF Unreachable
    <2>4. budget' \in BudgetState
      BY <1>13, <2>1, BudgetIs DEF Unreachable
    <2> QED BY <1>13, <2>2, <2>3, <2>4 DEF Unreachable
  <1>14. CASE PassDone
    <2>1. cli' \in CliState /\ cli'.pc \in {"done", "threw", "settle"}
      BY <1>14 DEF PassDone, CliState
    <2> QED BY <1>14, <2>1 DEF PassDone, ThisRun
  <1> QED
    BY <1>1, <1>2, <1>3, <1>4, <1>5, <1>6, <1>7, <1>8, <1>9, <1>10, <1>11, <1>12, <1>13,
       <1>14 DEF SettlePass, DispatchPass

\* The fleet is a list of workers, so there are finitely many.
LEMMA FleetIsFinite == IsFiniteSet(Workers)
  <1>1. Fleet \in Seq(Workers) /\ Len(Fleet) \in Nat /\ DOMAIN Fleet = 1 .. Len(Fleet)
    BY FleetAssumption
  <1>2. IsFiniteSet(DOMAIN Fleet)
    BY <1>1, FS_Interval
  <1>3. Fleet \in Surjection(DOMAIN Fleet, Workers)
    BY <1>1, FleetAssumption DEF Surjection, ToSet
  <1> QED BY <1>2, <1>3, FS_Surjection

\* The run starts, or starts again: the books open at what the workers spent.
LEMMA StartIs ==
  ASSUME TypeOK, Start
  PROVE  /\ cli' \in CliState /\ cli' = [cli EXCEPT !.pc = "settle", !.observed = cli'.observed]
         /\ budget' \in BudgetState /\ budget'.reserved = {}
         /\ published.halted => budget'.halted
         /\ graph' = NewGraph(list) /\ graph' \in [Tasks -> Node]
         /\ schedule' = graph' /\ published' = budget' /\ UNCHANGED ThisRun
         /\ (\A w \in Workers : worker[w].transcript = 0) /\ published.spent = 0
               => budget'.spent = 0
  <1> USE DEF TypeOK
  <1>1. PICK D \in SUBSET Workers :
           LET observed == [w \in Workers |-> IF w \in D THEN 0 ELSE worker[w].transcript] IN
           /\ budget' = Resume(OpeningBalance(observed, D), published)
           /\ cli' = [cli EXCEPT !.pc = "settle", !.observed = observed]
    BY DEF Start
  <1> DEFINE observed == [w \in Workers |-> IF w \in D THEN 0 ELSE worker[w].transcript]
  <1>2. observed \in [Workers -> Nat]
    BY DEF WorkerState
  <1>3. (\A w \in Workers : worker[w].transcript = 0) => \A w \in Workers : observed[w] = 0
    OBVIOUS
  <1>4. budget' = Resume(OpeningBalance(observed, D), published)
    BY <1>1
  <1>5. cli' = [cli EXCEPT !.pc = "settle", !.observed = observed]
    BY <1>1
  <1> HIDE DEF observed
  <1>6. SumFunction(observed) \in Nat
        /\ ((\A w \in Workers : observed[w] = 0) => SumFunction(observed) = 0)
    <2>1. IsFiniteSet(Workers)
      BY FleetIsFinite
    <2> QED BY <1>2, <2>1, SumIs
  <1>7. OpeningBalance(observed, D) \in Nat
    BY <1>6 DEF OpeningBalance, BudgetState
  <1>8. cli' \in CliState /\ cli' = [cli EXCEPT !.pc = "settle", !.observed = cli'.observed]
    BY <1>2, <1>5 DEF CliState
  <1> DEFINE opening == OpeningBalance(observed, D)
             h == published.halted \/ opening > Ceiling
  <1>9. budget' = [spent |-> opening, reserved |-> {}, halted |-> h]
    BY <1>4, Zenon DEF Resume
  <1>10. h \in BOOLEAN /\ (published.halted => h)
    BY DEF BudgetState
  <1>11. (\A w \in Workers : worker[w].transcript = 0) /\ published.spent = 0 => opening = 0
    BY <1>3, <1>6 DEF OpeningBalance
  <1> HIDE DEF h, opening
  <1>12. /\ budget' \in BudgetState /\ budget'.reserved = {}
         /\ budget'.spent = opening /\ budget'.halted = h
    BY <1>7, <1>9, <1>10 DEF BudgetState, opening
  <1>13. graph' = NewGraph(list) /\ schedule' = graph' /\ published' = budget' /\ UNCHANGED ThisRun
    BY DEF Start
  <1> QED BY <1>8, <1>10, <1>11, <1>12, <1>13, NewGraphType


\* A request is taken off the front of a socket.
LEMMA MailTail ==
  ASSUME TypeOK, NEW w \in Workers, mail[w] # <<>>, mail' = [mail EXCEPT ![w] = Tail(@)]
  PROVE  /\ mail' \in [Workers -> Seq([task: Tasks, open: BOOLEAN])]
         /\ Head(mail[w]) \in [task: Tasks, open: BOOLEAN]
         /\ Head(mail[w]) = mail[w][1] /\ 1 \in DOMAIN mail[w]
         /\ \A v \in Workers \ {w} : mail'[v] = mail[v]
         /\ Len(mail'[w]) = Len(mail[w]) - 1
         /\ \A i \in DOMAIN mail'[w] : i + 1 \in DOMAIN mail[w] /\ mail'[w][i] = mail[w][i + 1]
  <1> DEFINE S == [task: Tasks, open: BOOLEAN]
             s == mail[w]
  <1>1. mail \in [Workers -> Seq(S)]
    BY DEF TypeOK
  <1> HIDE DEF S
  <1>2. s \in Seq(S) /\ s # <<>>
    BY <1>1
  <1>3. mail' = [mail EXCEPT ![w] = Tail(s)]
    OBVIOUS
  <1>4. mail'[w] = Tail(s) /\ \A v \in Workers \ {w} : mail'[v] = mail[v]
    BY <1>1, <1>3
  <1> HIDE DEF s
  <1>5. /\ Head(s) \in S /\ Tail(s) \in Seq(S) /\ Len(Tail(s)) = Len(s) - 1
        /\ \A i \in 1 .. Len(Tail(s)) : Tail(s)[i] = s[i + 1]
    BY <1>2, HeadTailProperties
  <1>6. Len(s) \in Nat /\ Len(s) # 0 /\ DOMAIN s = 1 .. Len(s) /\ Head(s) = s[1]
    BY <1>2, EmptySeq
  <1>7. DOMAIN Tail(s) = 1 .. Len(s) - 1
    BY <1>5, <1>6
  <1>8. \A i \in DOMAIN Tail(s) : i + 1 \in DOMAIN s /\ Tail(s)[i] = s[i + 1]
    BY <1>5, <1>6, <1>7
  <1>9. mail' \in [Workers -> Seq(S)]
    BY <1>1, <1>3, <1>5
  <1> DEFINE r == Tail(s)
  <1>13. mail'[w] = r /\ Len(r) = Len(s) - 1
         /\ \A i \in DOMAIN r : i + 1 \in DOMAIN s /\ r[i] = s[i + 1]
    BY <1>4, <1>5, <1>8
  <1>14. Head(s) = s[1] /\ 1 \in DOMAIN s
    BY <1>6
  <1> HIDE DEF r
  <1>10. /\ Head(s) = s[1] /\ 1 \in DOMAIN s
         /\ Len(mail'[w]) = Len(s) - 1
         /\ \A i \in DOMAIN mail'[w] : i + 1 \in DOMAIN s /\ mail'[w][i] = s[i + 1]
    BY <1>13, <1>14
  <1>11. mail' \in [Workers -> Seq([task: Tasks, open: BOOLEAN])]
    BY <1>9, Zenon DEF S
  <1>12. Head(mail[w]) \in [task: Tasks, open: BOOLEAN]
    BY <1>5, Zenon DEF S, s
  <1> QED BY <1>4, <1>10, <1>11, <1>12 DEF s

\* A worker answers the first request on its socket: with what it knows of the
\* attempt, by starting the task, or by rejecting it.
Knows(w, t, a) ==
    /\ a \in Verdict \cup {"accepted"}
    /\ a = "accepted" => t \in worker[w].known
    /\ Satisfied(a) => worker[w].record[t] = a
LEMMA HandleIs ==
  ASSUME TypeOK, NEW w \in Workers, Handle(w)
  PROVE  LET m == Head(mail[w])
             t == m.task
         IN /\ t \in Tasks
            /\ worker' \in [Workers -> WorkerState] /\ ranOn' \in [Tasks -> SUBSET Workers]
            /\ \A v \in Workers \ {w} : worker'[v] = worker[v]
            /\ worker'[w].transcript = worker[w].transcript
            /\ worker'[w].overran = worker[w].overran
            /\ \E a \in Verdict \cup {"accepted"} :
                  /\ answer' = IF m.open THEN a ELSE answer
                  /\ \/ /\ UNCHANGED <<worker, ranOn>> /\ Knows(w, t, a)
                     \/ /\ worker[w].live = None /\ worker[w].record[t] = None
                        /\ a = "accepted" /\ worker'[w].live = t
                        /\ worker'[w].record = worker[w].record
                        /\ ranOn' = [ranOn EXCEPT ![t] = @ \cup {w}]
                     \/ /\ worker[w].live = None /\ worker[w].record[t] = None
                        /\ a = "failed" /\ worker'[w].live = None
                        /\ worker'[w].record = [worker[w].record EXCEPT ![t] = "failed"]
                        /\ UNCHANGED ranOn
  <1> DEFINE m == Head(mail[w])
             t == m.task
             me == worker[w]
  <1>1. m \in [task: Tasks, open: BOOLEAN] /\ worker \in [Workers -> WorkerState]
        /\ ranOn \in [Tasks -> SUBSET Workers]
    BY MailTail DEF Handle, TypeOK
  <1>2. t \in Tasks /\ me \in WorkerState
    BY <1>1
  <1>3. \/ /\ t \in me.known /\ Reply(m.open, "accepted") /\ UNCHANGED <<worker, ranOn>>
        \/ /\ me.record[t] # None /\ Reply(m.open, me.record[t]) /\ UNCHANGED <<worker, ranOn>>
        \/ /\ Reply(m.open, "failed") /\ UNCHANGED <<worker, ranOn>>
        \/ /\ me.record[t] = None /\ me.live = None
           /\ worker' = [worker EXCEPT ![w].live = t, ![w].phase = "busy",
                                       ![w].known = @ \cup {t}]
           /\ ranOn' = [ranOn EXCEPT ![t] = @ \cup {w}]
           /\ Reply(m.open, "accepted")
        \/ /\ me.record[t] = None /\ me.live = None
           /\ worker' = [worker EXCEPT ![w].record[t] = "failed", ![w].known = @ \cup {t}]
           /\ Reply(m.open, "failed") /\ UNCHANGED ranOn
    BY DEF Handle
  <1> HIDE DEF m, t
  <1>4. CASE /\ UNCHANGED <<worker, ranOn>>
             /\ \/ t \in me.known /\ Reply(m.open, "accepted")
                \/ me.record[t] # None /\ Reply(m.open, me.record[t])
                \/ Reply(m.open, "failed")
    <2>1. \A a \in Verdict \cup {"accepted"} : Reply(m.open, a) =>
             answer' = IF m.open THEN a ELSE answer
      BY DEF Reply
    <2>2. CASE t \in me.known /\ Reply(m.open, "accepted")
      BY <1>1, <1>2, <1>4, <2>1, <2>2 DEF Knows, t, m, Satisfied
    <2>3. CASE me.record[t] # None /\ Reply(m.open, me.record[t])
      <3>1. me.record[t] \in Verdict /\ me.record[t] # "accepted"
        BY <1>2, <2>3, NoneFacts DEF WorkerState
      <3>2. Knows(w, t, me.record[t])
        BY <3>1 DEF Knows
      <3> QED BY <1>1, <1>2, <1>4, <2>1, <2>3, <3>1, <3>2 DEF t, m
    <2>4. CASE Reply(m.open, "failed")
      BY <1>1, <1>2, <1>4, <2>1, <2>4 DEF Knows, Verdict, Satisfied, t, m
    <2> QED BY <1>4, <2>2, <2>3, <2>4
  <1>5. CASE /\ me.record[t] = None /\ me.live = None
             /\ worker' = [worker EXCEPT ![w].live = t, ![w].phase = "busy",
                                         ![w].known = @ \cup {t}]
             /\ ranOn' = [ranOn EXCEPT ![t] = @ \cup {w}]
             /\ Reply(m.open, "accepted")
    <2> DEFINE you == [me EXCEPT !.live = t, !.phase = "busy", !.known = me.known \cup {t}]
    <2>1. worker' = [worker EXCEPT ![w] = you]
      BY <1>1, <1>5
    <2>2. /\ you \in WorkerState /\ you.live = t /\ you.record = me.record
          /\ you.transcript = me.transcript /\ you.overran = me.overran
      BY <1>2 DEF WorkerState
    <2> HIDE DEF you
    <2>3. worker'[w] = you /\ worker' \in [Workers -> WorkerState]
          /\ \A v \in Workers \ {w} : worker'[v] = worker[v]
      BY <1>1, <2>1, <2>2
    <2>4. ranOn' \in [Tasks -> SUBSET Workers]
      BY <1>1, <1>2, <1>5
    <2> QED BY <1>2, <1>5, <2>2, <2>3, <2>4 DEF Reply, t, m
  <1>6. CASE /\ me.record[t] = None /\ me.live = None
             /\ worker' = [worker EXCEPT ![w].record[t] = "failed", ![w].known = @ \cup {t}]
             /\ Reply(m.open, "failed") /\ UNCHANGED ranOn
    <2> DEFINE r == [me.record EXCEPT ![t] = "failed"]
               you == [me EXCEPT !.record = r, !.known = me.known \cup {t}]
    <2>1. worker' = [worker EXCEPT ![w] = you]
      BY <1>1, <1>2, <1>6 DEF WorkerState
    <2>2. r \in [Tasks -> Verdict \cup {None}]
      BY <1>2 DEF WorkerState, Verdict
    <2> HIDE DEF r
    <2>3. /\ you \in WorkerState /\ you.live = me.live /\ you.record = r
          /\ you.transcript = me.transcript /\ you.overran = me.overran
      BY <1>2, <2>2 DEF WorkerState
    <2> HIDE DEF you
    <2>4. worker'[w] = you /\ worker' \in [Workers -> WorkerState]
          /\ \A v \in Workers \ {w} : worker'[v] = worker[v]
      BY <1>1, <2>1, <2>3
    <2> QED BY <1>1, <1>2, <1>6, <2>3, <2>4 DEF Reply, t, m, r, Verdict
  <1> QED BY <1>3, <1>4, <1>5, <1>6


\* The live task ends: its verdict is recorded and its tokens show.
LEMMA EndsIs ==
  ASSUME TypeOK, NEW w \in Workers, Ends(w)
  PROVE  /\ worker' \in [Workers -> WorkerState]
         /\ \A v \in Workers \ {w} : worker'[v] = worker[v]
         /\ worker[w].live \in Tasks /\ worker'[w].live = None
         /\ \E v \in {"success", "failed"} :
               worker'[w].record = [worker[w].record EXCEPT ![worker[w].live] = v]
         /\ \E c \in Nat : /\ worker'[w].transcript = worker[w].transcript + c
                           /\ worker'[w].overran = (worker[w].overran \/ c > Reserve)
  <1> DEFINE me == worker[w]
  <1>1. worker \in [Workers -> WorkerState] /\ me \in WorkerState
    BY DEF TypeOK
  <1>2. me.live \in Tasks
    BY <1>1 DEF Ends, WorkerState
  <1>3. PICK v \in {"success", "failed"}, c \in Costs :
          worker' = [worker EXCEPT
                          ![w].live = None,
                          ![w].record[worker[w].live] = v,
                          ![w].overran = @ \/ c > Reserve, ![w].transcript = @ + c,
                          ![w].phase = IF @ = "dead" THEN @ ELSE "idle"]
    BY DEF Ends
  <1> DEFINE r == [me.record EXCEPT ![me.live] = v]
             o == me.overran \/ c > Reserve
             n == me.transcript + c
             p == IF me.phase = "dead" THEN me.phase ELSE "idle"
             you == [me EXCEPT !.live = None, !.record = r, !.overran = o,
                               !.transcript = n, !.phase = p]
  <1>4. worker' = [worker EXCEPT ![w] = you]
    <2>1. worker' = [worker EXCEPT ![w] =
              [me EXCEPT !.live = None, !.record = [me.record EXCEPT ![me.live] = v],
                         !.overran = (me.overran \/ c > Reserve), !.transcript = me.transcript + c,
                         !.phase = IF me.phase = "dead" THEN me.phase ELSE "idle"]]
      BY <1>1, <1>2, <1>3 DEF WorkerState
    <2> QED BY <2>1
  <1>5. r \in [Tasks -> Verdict \cup {None}]
    BY <1>1, <1>2 DEF WorkerState, Verdict
  <1>6. o \in BOOLEAN /\ n \in Nat /\ c \in Nat /\ p \in {"idle", "busy", "dead"}
    BY <1>1, BudgetAssumption DEF WorkerState
  <1> HIDE DEF r, o, n, p
  <1>7. you \in WorkerState /\ you.live = None /\ you.record = r /\ you.transcript = n
    BY <1>1, <1>5, <1>6 DEF WorkerState
  <1>8. you.overran = o
    BY <1>1, <1>6 DEF WorkerState
  <1> HIDE DEF you
  <1>9. worker' \in [Workers -> WorkerState] /\ worker'[w] = you
        /\ \A u \in Workers \ {w} : worker'[u] = worker[u]
    BY <1>1, <1>4, <1>7
  <1> QED BY <1>2, <1>6, <1>7, <1>8, <1>9 DEF r, o, n

\* The supervisor is killed: what ran is gone, and what it burned shows.
LEMMA DiesIs ==
  ASSUME TypeOK, NEW w \in Workers, Dies(w)
  PROVE  /\ worker' \in [Workers -> WorkerState]
         /\ \A v \in Workers \ {w} : worker'[v] = worker[v]
         /\ worker'[w].live = None /\ worker'[w].record = worker[w].record
         /\ \E c \in Nat : /\ c # 0 => worker[w].live # None
                           /\ worker'[w].transcript = worker[w].transcript + c
                           /\ worker'[w].overran = (worker[w].overran \/ c > Reserve)
  <1> DEFINE me == worker[w]
  <1>1. worker \in [Workers -> WorkerState] /\ me \in WorkerState
    BY DEF TypeOK
  <1>2. PICK c \in {0} \cup Costs :
          /\ c # 0 => me.live # None
          /\ worker' = [worker EXCEPT ![w].alive = FALSE, ![w].live = None,
                                      ![w].overran = @ \/ c > Reserve,
                                      ![w].transcript = @ + c]
    BY DEF Dies
  <1> DEFINE o == me.overran \/ c > Reserve
             n == me.transcript + c
             you == [me EXCEPT !.alive = FALSE, !.live = None, !.overran = o, !.transcript = n]
  <1>3. worker' = [worker EXCEPT ![w] = you]
    <2>1. worker' = [worker EXCEPT ![w] =
              [me EXCEPT !.alive = FALSE, !.live = None, !.overran = (me.overran \/ c > Reserve),
                         !.transcript = me.transcript + c]]
      BY <1>1, <1>2 DEF WorkerState
    <2> QED BY <2>1
  <1>4. o \in BOOLEAN /\ n \in Nat /\ c \in Nat
    BY <1>1, BudgetAssumption DEF WorkerState
  <1> HIDE DEF o, n
  <1>5. you \in WorkerState /\ you.live = None /\ you.record = me.record /\ you.transcript = n
    BY <1>1, <1>4 DEF WorkerState
  <1>6. you.overran = o
    BY <1>1, <1>4 DEF WorkerState
  <1> HIDE DEF you
  <1>7. worker' \in [Workers -> WorkerState] /\ worker'[w] = you
        /\ \A u \in Workers \ {w} : worker'[u] = worker[u]
    BY <1>1, <1>3, <1>5
  <1> QED BY <1>2, <1>4, <1>5, <1>6, <1>7 DEF o, n

\* A child that exits leaves its task live, and a transcript is rotated away.
LEMMA FadesIs ==
  ASSUME TypeOK, NEW w \in Workers, ChildExits(w) \/ Rotates(w)
  PROVE  /\ worker' \in [Workers -> WorkerState]
         /\ \A v \in Workers \ {w} : worker'[v] = worker[v]
         /\ worker'[w].live = worker[w].live /\ worker'[w].record = worker[w].record
         /\ worker'[w].overran = worker[w].overran
         /\ worker'[w].transcript \in {worker[w].transcript, 0}
         /\ UNCHANGED <<list, cli, graph, budget, schedule, published, mail, answer, ranOn>>
  <1>1. worker \in [Workers -> WorkerState]
    BY DEF TypeOK
  <1>2. CASE ChildExits(w)
    BY <1>1, <1>2 DEF ChildExits, WorkerState
  <1>3. CASE Rotates(w)
    BY <1>1, <1>3 DEF Rotates, WorkerState
  <1> QED BY <1>2, <1>3

\* A worker's step touches nothing of the CLI.
LEMMA WorkerType ==
  ASSUME TypeOK, NEW w \in Workers, WorkerStep(w)
  PROVE  TypeOK' /\ UNCHANGED <<list, cli, graph, budget, schedule, published>>
  <1>0. UNCHANGED <<list, cli, graph, budget, schedule, published>>
    BY DEF WorkerStep, Handle, Ends, ChildExits, Dies, Rotates
  <1>1. CASE Handle(w)
    <2>1. worker' \in [Workers -> WorkerState] /\ ranOn' \in [Tasks -> SUBSET Workers]
      BY <1>1, HandleIs
    <2>2. answer' \in Verdict \cup {"accepted", None}
      BY <1>1, HandleIs DEF TypeOK
    <2>3. mail' \in [Workers -> Seq([task: Tasks, open: BOOLEAN])]
      BY <1>1, MailTail DEF Handle
    <2> QED BY <1>0, <2>1, <2>2, <2>3 DEF TypeOK
  <1>2. CASE Ends(w)
    <2>1. worker' \in [Workers -> WorkerState] /\ UNCHANGED <<mail, answer, ranOn>>
      BY <1>2, EndsIs DEF Ends
    <2> QED BY <1>0, <2>1 DEF TypeOK
  <1>3. CASE Dies(w)
    <2>1. worker' \in [Workers -> WorkerState] /\ UNCHANGED <<mail, answer, ranOn>>
      BY <1>3, DiesIs DEF Dies
    <2> QED BY <1>0, <2>1 DEF TypeOK
  <1>4. CASE ChildExits(w) \/ Rotates(w)
    BY <1>0, <1>4, FadesIs DEF TypeOK
  <1> QED BY <1>1, <1>2, <1>3, <1>4 DEF WorkerStep


\* A CLI that is down, or about to start, remembers nothing but how often it ran.
LEMMA StoppedIs ==
  ASSUME NEW pc \in {"start", "down"}, NEW n \in Nat \ {0}
  PROVE  LET c == [Stopped(pc) EXCEPT !.life = n]
         IN /\ c \in CliState /\ c.pc = pc /\ c.life = n
            /\ c.inflight = <<>> /\ c.todo = <<>> /\ \A w \in Workers : c.observed[w] = 0
  <1> DEFINE s == Stopped(pc)
  <1>1. s.hand \in (Tasks \cup {None}) \X (Workers \cup {None})
    BY DEF Stopped
  <1>2. s.observed \in [Workers -> Nat]
    BY DEF Stopped
  <1>3. s.inflight = <<>> /\ s.todo = <<>> /\ s.pc = pc /\ \A w \in Workers : s.observed[w] = 0
    BY DEF Stopped
  <1>4. s \in CliState
    BY <1>1, <1>2 DEF Stopped, CliState
  <1> HIDE DEF s
  <1>5. /\ [s EXCEPT !.life = n] \in CliState /\ [s EXCEPT !.life = n].pc = s.pc
        /\ [s EXCEPT !.life = n].life = n
        /\ [s EXCEPT !.life = n].inflight = s.inflight /\ [s EXCEPT !.life = n].todo = s.todo
        /\ [s EXCEPT !.life = n].observed = s.observed
    BY <1>4 DEF CliState
  <1> QED BY <1>3, <1>5 DEF s

\* The CLI dies: what it sent stays on the sockets, and nobody awaits it.
LEMMA CrashIs ==
  ASSUME TypeOK, Crash
  PROVE  /\ mail' \in [Workers -> Seq([task: Tasks, open: BOOLEAN])]
         /\ \A w \in Workers :
               /\ Len(mail'[w]) = Len(mail[w])
               /\ \A i \in DOMAIN mail[w] : mail'[w][i].task = mail[w][i].task /\ ~ mail'[w][i].open
         /\ cli' \in CliState /\ cli'.pc = "down" /\ cli'.inflight = <<>> /\ cli'.todo = <<>>
         /\ cli'.life = cli.life /\ cli'.blind = cli.blind
         /\ answer' = None
         /\ UNCHANGED <<list, graph, budget, schedule, published, worker, ranOn>>
  <1> DEFINE S == [task: Tasks, open: BOOLEAN]
             off(r) == [r EXCEPT !.open = FALSE]
             m == [w \in Workers |-> [i \in DOMAIN mail[w] |-> off(mail[w][i])]]
  <1>1. mail \in [Workers -> Seq(S)]
    BY DEF TypeOK
  <1>2. \A r \in S : off(r) \in S /\ off(r).task = r.task /\ ~ off(r).open
    OBVIOUS
  <1>3. mail' = m
    BY Zenon DEF Crash
  <1> HIDE DEF S, off
  <1>4. ASSUME NEW w \in Workers
        PROVE  /\ mail'[w] \in Seq(S) /\ Len(mail'[w]) = Len(mail[w])
               /\ \A i \in DOMAIN mail[w] : mail'[w][i].task = mail[w][i].task /\ ~ mail'[w][i].open
    <2> DEFINE s == mail[w]
               n == Len(s)
               f == [i \in 1 .. n |-> off(s[i])]
    <2>1. s \in Seq(S) /\ n \in Nat /\ DOMAIN s = 1 .. n
      BY <1>1
    <2>2. \A i \in 1 .. n : s[i] \in S
      BY <2>1, ElementOfSeq
    <2>3. mail'[w] = f
      BY <1>3, <2>1
    <2> HIDE DEF s, n
    <2>4. f \in [1 .. n -> S] /\ \A i \in 1 .. n : f[i] = off(s[i])
      BY <1>2, <2>2
    <2> HIDE DEF f
    <2>5. f \in Seq(S) /\ Len(f) = n
      BY <2>1, <2>4
    <2>6. \A i \in 1 .. n : f[i].task = s[i].task /\ ~ f[i].open
      BY <1>2, <2>2, <2>4
    <2>7. mail'[w] \in Seq(S) /\ Len(mail'[w]) = n
          /\ \A i \in DOMAIN s : mail'[w][i].task = s[i].task /\ ~ mail'[w][i].open
      BY <2>1, <2>3, <2>5, <2>6
    <2> QED BY <2>7 DEF s, n
  <1>5. DOMAIN mail' = Workers
    BY <1>3
  <1> HIDE DEF m
  <1>6. mail' \in [Workers -> Seq(S)]
    <2>1. mail' = [w \in Workers |-> mail'[w]]
      BY <1>3, <1>5 DEF m
    <2> QED BY <1>4, <2>1
  <1>7. mail' \in [Workers -> Seq([task: Tasks, open: BOOLEAN])]
    BY <1>6, Zenon DEF S
  <1> HIDE DEF S
  <1> DEFINE c == [Stopped("down") EXCEPT !.life = cli.life]
  <1>8. cli' = [c EXCEPT !.blind = cli.blind]
    BY DEF Crash
  <1>9. /\ c \in CliState /\ c.pc = "down" /\ c.inflight = <<>> /\ c.todo = <<>>
        /\ c.life = cli.life /\ cli.blind \in BOOLEAN
    BY StoppedIs DEF TypeOK, CliState
  <1> HIDE DEF c
  <1>10. /\ cli' \in CliState /\ cli'.pc = "down" /\ cli'.inflight = <<>> /\ cli'.todo = <<>>
         /\ cli'.life = cli.life /\ cli'.blind = cli.blind
    BY <1>8, <1>9 DEF CliState
  <1> QED BY <1>4, <1>7, <1>10 DEF Crash

\* The list is run again by a process that remembers nothing.
LEMMA RerunIs ==
  ASSUME TypeOK, Rerun
  PROVE  /\ cli' \in CliState /\ cli'.pc = "start" /\ cli'.inflight = <<>> /\ cli'.todo = <<>>
         /\ cli'.life = cli.life + 1 /\ \A w \in Workers : cli'.observed[w] = 0
         /\ UNCHANGED <<list, graph, budget, schedule, published, worker, mail, answer, ranOn>>
  <1>1. cli' = [Stopped("start") EXCEPT !.life = cli.life + 1] /\ cli.life + 1 \in Nat \ {0}
    BY DEF Rerun, TypeOK, CliState
  <1>2. /\ cli' \in CliState /\ cli'.pc = "start" /\ cli'.inflight = <<>> /\ cli'.todo = <<>>
        /\ cli'.life = cli.life + 1 /\ \A w \in Workers : cli'.observed[w] = 0
    BY <1>1, StoppedIs
  <1> QED BY <1>2 DEF Rerun, ThisRun

\* The types hold over every step.
LEMMA NextType == TypeOK /\ [Next]_vars => TypeOK'
  <1> SUFFICES ASSUME TypeOK, [Next]_vars PROVE TypeOK'
    OBVIOUS
  <1>1. CASE Start
    <2>1. cli'.pc = "settle"
      BY <1>1, StartIs DEF CliState, TypeOK
    <2> QED BY <1>1, <2>1, StartIs DEF TypeOK, ThisRun
  <1>2. CASE SettlePass \/ DispatchPass
    BY <1>2, CliType
  <1>3. CASE Escapes
    <2>1. Worker \in Workers /\ Task \in Tasks
      BY <1>3 DEF Escapes, At, Worker, Task, TypeOK
    <2>2. mail' \in [Workers -> Seq([task: Tasks, open: BOOLEAN])]
      BY <1>3, <2>1, AbandonType DEF Escapes
    <2>3. budget' \in BudgetState
      BY <1>3, <2>1, BudgetIs DEF Escapes, TypeOK
    <2>4. cli' \in CliState /\ cli'.pc = "escaped"
      BY <1>3 DEF Escapes, CliState, TypeOK
    <2> QED BY <1>3, <2>2, <2>3, <2>4 DEF Escapes, TypeOK
  <1>4. CASE StallTimeout
    <2>1. cli' \in CliState /\ cli'.pc = "threw"
      BY <1>4 DEF StallTimeout, CliState, TypeOK
    <2> QED BY <1>4, <2>1 DEF StallTimeout, ThisRun, TypeOK
  <1>5. CASE Crash
    BY <1>5, CrashIs DEF TypeOK
  <1>6. CASE Rerun
    BY <1>6, RerunIs DEF TypeOK
  <1>7. CASE \E w \in Workers : WorkerStep(w)
    BY <1>7, WorkerType
  <1>8. CASE UNCHANGED vars
    BY <1>8 DEF vars, TypeOK
  <1> QED BY <1>1, <1>2, <1>3, <1>4, <1>5, <1>6, <1>7, <1>8 DEF Next

\* Whatever the lists, the workers and the faults, every variable of the schedule
\* stays in its type: the task in hand is a task, the books are numbers, and the
\* graph is one of nodes (scheduler.ts, graph.ts, budget.ts).
THEOREM TypeCorrect == Spec => []TypeOK
  BY InitType, NextType, PTL DEF Spec


-----------------------------------------------------------------------------
(* What the steps of the CLI do, field by field.                           *)

SameWork == cli'.inflight = cli.inflight /\ cli'.todo = cli.todo
SameHand == cli'.hand = cli.hand /\ cli'.back = cli.back
SameSight == cli'.observed = cli.observed /\ cli'.blind = cli.blind /\ cli'.life = cli.life
SameOffers == cli'.avail = cli.avail /\ cli'.offers = cli.offers /\ cli'.probing = cli.probing
SameNews == cli'.progressed = cli.progressed /\ cli'.dispatched = cli.dispatched

\* A task in flight is looked at; it has no record.
Takes ==
    /\ At("settle") /\ cli.todo # <<>> /\ cli'.pc = "health"
    /\ cli'.hand = Head(cli.todo) /\ cli'.todo = Tail(cli.todo) /\ cli'.back = "settle"
    /\ cli'.inflight = cli.inflight /\ SameSight /\ SameNews
    /\ UNCHANGED <<graph, budget, schedule, published, ThisRun>>

\* Its worker is alive, and may still speak.
Asks ==
    /\ (At("health") /\ cli'.pc = "silence") \/ (At("silence") /\ cli'.pc = "settle")
    /\ SameWork /\ SameHand /\ SameSight /\ SameNews
    /\ UNCHANGED <<graph, budget, schedule, published, ThisRun>>

\* A task in flight, or the one just offered, reaches a verdict.
Settles(t, w, v) ==
    /\ graph' = MarkSettled(list, graph, t, v, w)
    /\ cli'.pc = "book" /\ cli'.hand = <<t, w>> /\ cli'.inflight = Without(t)
    /\ cli'.progressed /\ SameSight
    /\ \/ /\ cli.pc \in {"settle", "health", "silence"} /\ cli'.back = "settle"
          /\ <<t, w>> \in ToSet(cli.inflight) /\ OnceIn(cli'.todo)
          /\ ToSet(cli'.todo) \subseteq ToSet(cli.inflight) \ {<<t, w>>}
          /\ v = worker[w].record[t] \/ v = "unknown"
          /\ mail' = mail
       \/ /\ At("calling") /\ <<t, w>> = cli.hand /\ cli'.back = "offer"
          /\ cli'.todo = cli.todo /\ cli'.offers = cli.offers /\ cli'.dispatched
          /\ cli'.avail \subseteq cli.avail
          /\ (v = answer /\ mail' = mail) \/ (v = "unknown" /\ Abandon(w))
    /\ UNCHANGED <<list, budget, schedule, published, worker, answer, ranOn>>

\* What the task spent is booked, or cannot be read.
Books ==
    /\ At("book") /\ cli'.pc = cli.back
    /\ SameWork /\ SameHand /\ SameOffers /\ SameNews /\ cli'.life = cli.life
    /\ \/ /\ budget' = SettleTask(budget, Task, TaskTokens(Worker))
          /\ cli'.observed = [cli.observed EXCEPT ![Worker] = Seen(Worker)]
          /\ cli'.blind = cli.blind
       \/ /\ budget' = SettleTask(budget, Task, 0) /\ cli'.blind
    /\ published' = budget'
    /\ UNCHANGED <<graph, schedule, ThisRun>>

\* From settling to probing, or the end.
Turns ==
    /\ At("settle") /\ cli.todo = <<>> /\ cli'.pc \in {"done", "probe"}
    /\ schedule' = IF cli.progressed THEN graph ELSE schedule
    /\ SameWork /\ SameSight /\ SameHand
    /\ cli'.pc = "probe" => /\ cli'.avail = {} /\ cli'.probing \cap Busy = {}
                            /\ ~ cli'.dispatched
    /\ UNCHANGED <<graph, budget, published, ThisRun>>

\* A worker is probed, the last one was, or a task is skipped.
Probes ==
    /\ At("probe") /\ cli'.pc \in {"probe", "offer"}
    /\ SameWork /\ SameHand /\ SameSight /\ SameNews
    /\ cli'.avail \subseteq cli.avail \cup cli.probing
    /\ cli'.probing \subseteq cli.probing
    /\ cli'.pc = "offer" => cli'.offers = Ready(graph)
    /\ UNCHANGED <<graph, budget, schedule, published, ThisRun>>
Skips ==
    /\ At("offer") /\ cli'.pc = "offer" /\ cli'.offers \subseteq cli.offers
    /\ SameWork /\ SameHand /\ SameSight /\ SameNews /\ cli'.avail = cli.avail
    /\ UNCHANGED <<graph, budget, schedule, published, ThisRun>>

\* The run ends on a task pinned to a dead worker, or by its stall backstop.
Throws ==
    /\ At("offer") /\ cli'.pc = "threw"
    /\ \/ schedule' = IF cli.dispatched THEN graph ELSE schedule
       \/ ~ cli.progressed /\ schedule' = schedule
    /\ SameWork /\ SameHand /\ SameSight
    /\ UNCHANGED <<graph, budget, published, ThisRun>>

\* A task is offered to a free worker.
Offers(t, w) ==
    /\ At("offer") /\ cli'.pc = "calling" /\ cli'.hand = <<t, w>> /\ cli'.back = "offer"
    /\ t \in cli.offers /\ w \in cli.avail /\ AdmitsTask(budget, t, list.cap)
    /\ cli'.offers = cli.offers \ {t} /\ cli'.avail = cli.avail
    /\ SameWork /\ SameSight /\ SameNews
    /\ budget' = Hold(budget, t) /\ published' = budget'
    /\ mail' = [mail EXCEPT ![w] = Append(@, [task |-> t, open |-> TRUE])]
    /\ answer' = None
    /\ UNCHANGED <<list, graph, schedule, worker, ranOn>>

\* It is accepted, nothing listened, or something else escapes.
Accepts ==
    /\ At("calling") /\ answer = "accepted" /\ cli'.pc = "offer"
    /\ graph' = MarkDispatched(graph, Task, Worker)
    /\ cli'.inflight = Append(cli.inflight, cli.hand) /\ cli'.todo = cli.todo
    /\ cli'.avail = cli.avail \ {Worker} /\ cli'.offers = cli.offers
    /\ SameHand /\ SameSight /\ cli'.progressed /\ cli'.dispatched
    /\ UNCHANGED <<budget, schedule, published, ThisRun>>
Misses ==
    /\ At("calling") /\ cli'.pc = "offer" /\ Last(mail[Worker]).open
    /\ mail[Worker] # <<>> /\ mail' = [mail EXCEPT ![Worker] = Front(@)]
    /\ cli'.avail = cli.avail \ {Worker} /\ cli'.offers = cli.offers
    /\ SameWork /\ SameHand /\ SameSight /\ cli'.progressed /\ cli'.dispatched
    /\ budget' = Release(budget, Task) /\ published' = budget'
    /\ UNCHANGED <<list, graph, schedule, worker, answer, ranOn>>
Breaks ==
    /\ At("calling") /\ cli'.pc = "escaped" /\ Abandon(Worker)
    /\ SameWork /\ SameHand /\ SameSight
    /\ budget' = Release(budget, Task) /\ published' = budget'
    /\ UNCHANGED <<list, graph, schedule, worker, answer, ranOn>>

\* The pass is over.
Passes ==
    /\ At("offer") /\ cli'.pc \in {"done", "threw", "settle"}
    /\ schedule' = IF cli.dispatched THEN graph ELSE schedule
    /\ cli'.inflight = cli.inflight /\ cli'.todo \in {cli.todo, cli.inflight}
    /\ SameHand /\ SameSight
    /\ UNCHANGED <<graph, budget, published, ThisRun>>

CliStep ==
    \/ Takes \/ Asks \/ Books \/ Turns \/ Probes \/ Skips \/ Throws
    \/ \E t \in Tasks, w \in Workers, v \in Verdict : Settles(t, w, v)
    \/ \E t \in Tasks, w \in Workers : Offers(t, w)
    \/ Accepts \/ Misses \/ Breaks \/ Passes


\* The first of what is left of a pass, and the rest.
LEMMA TailOnce ==
  ASSUME NEW S, NEW s \in Seq(S), s # <<>>, OnceIn(s)
  PROVE  /\ Head(s) \in S /\ Tail(s) \in Seq(S) /\ OnceIn(Tail(s))
         /\ Head(s) \in ToSet(s) /\ ToSet(Tail(s)) \subseteq ToSet(s) \ {Head(s)}
  <1> DEFINE r == Tail(s)
  <1>1. /\ Head(s) \in S /\ r \in Seq(S) /\ Len(r) = Len(s) - 1
        /\ \A i \in 1 .. Len(r) : r[i] = s[i + 1]
    BY HeadTailProperties
  <1>2. Len(s) \in Nat /\ Len(s) # 0 /\ DOMAIN s = 1 .. Len(s) /\ Head(s) = s[1]
    BY EmptySeq
  <1> HIDE DEF r
  <1>3. DOMAIN r = 1 .. Len(s) - 1 /\ \A i \in DOMAIN r : i + 1 \in DOMAIN s /\ r[i] = s[i + 1]
    BY <1>1, <1>2
  <1>4. OnceIn(r)
    <2> SUFFICES ASSUME NEW i \in DOMAIN r, NEW j \in DOMAIN r, r[i][1] = r[j][1]
                 PROVE  i = j
      BY DEF OnceIn
    <2>1. i + 1 = j + 1
      BY <1>3 DEF OnceIn
    <2> QED BY <1>3, <2>1
  <1>5. s[1] \in ToSet(s) /\ \A i \in DOMAIN r : r[i] \in ToSet(s)
    BY <1>2, <1>3 DEF ToSet
  <1>6. ASSUME NEW i \in DOMAIN r PROVE r[i] # s[1]
    <2>1. i + 1 # 1 /\ 1 \in DOMAIN s
      BY <1>2, <1>3
    <2> QED BY <1>3, <2>1 DEF OnceIn
  <1>7. ToSet(r) \subseteq ToSet(s) \ {s[1]}
    BY <1>5, <1>6 DEF ToSet
  <1> QED BY <1>1, <1>2, <1>4, <1>5, <1>7 DEF r

\* Whatever reaches its verdict, its spend is booked next.
LEMMA SettleAsIs ==
  ASSUME NEW v, NEW w, NEW c \in CliState, SettleAs(v, w, c)
  PROVE  /\ graph' = MarkSettled(list, graph, c.hand[1], v, w)
         /\ cli'.pc = "book" /\ cli'.inflight = Without(c.hand[1]) /\ cli'.progressed
         /\ cli'.hand = c.hand /\ cli'.todo = c.todo /\ cli'.back = c.back
         /\ cli'.avail = c.avail /\ cli'.offers = c.offers /\ cli'.dispatched = c.dispatched
         /\ cli'.observed = c.observed /\ cli'.blind = c.blind /\ cli'.life = c.life
  <1>1. cli' = [c EXCEPT !.pc = "book", !.inflight = Without(c.hand[1]), !.progressed = TRUE]
    BY DEF SettleAs
  <1> QED BY <1>1 DEF SettleAs, CliState

\* The settle pass, step by step.
LEMMA SettlePassIs ==
  ASSUME TypeOK, FlightInv, HandInv, SettlePass
  PROVE  CliStep
  <1>0. cli \in CliState /\ cli.todo \in Seq(Tasks \X Workers)
    BY DEF TypeOK, CliState
  <1>1. CASE ReadSettled
    <2> DEFINE c == [cli EXCEPT !.hand = Head(cli.todo), !.todo = Tail(@), !.back = "settle"]
               v == worker[c.hand[2]].record[c.hand[1]]
    <2>1. /\ Head(cli.todo) \in Tasks \X Workers /\ Tail(cli.todo) \in Seq(Tasks \X Workers)
          /\ OnceIn(Tail(cli.todo)) /\ Head(cli.todo) \in ToSet(cli.inflight)
          /\ ToSet(Tail(cli.todo)) \subseteq ToSet(cli.inflight) \ {Head(cli.todo)}
      BY <1>0, <1>1, TailOnce DEF ReadSettled, FlightInv
    <2>2. /\ c \in CliState /\ c.hand = Head(cli.todo) /\ c.todo = Tail(cli.todo)
          /\ c.back = "settle" /\ c.pc = cli.pc /\ c.inflight = cli.inflight
          /\ c.observed = cli.observed /\ c.blind = cli.blind /\ c.life = cli.life
          /\ c.progressed = cli.progressed /\ c.dispatched = cli.dispatched
      BY <1>0, <2>1 DEF CliState
    <2>3. \/ v # None /\ SettleAs(v, c.hand[2], c)
          \/ cli' = [c EXCEPT !.pc = "health"] /\ UNCHANGED graph
      BY <1>1 DEF ReadSettled
    <2>4. v = worker[c.hand[2]].record[c.hand[1]]
      OBVIOUS
    <2> HIDE DEF c, v
    <2>5. CASE v # None /\ SettleAs(v, c.hand[2], c)
      <3>1. PICK t \in Tasks, w \in Workers : c.hand = <<t, w>> /\ c.hand[1] = t /\ c.hand[2] = w
        BY <2>1, <2>2
      <3>2. v \in Verdict
        BY <2>4, <2>5, <3>1 DEF TypeOK, WorkerState
      <3>3. /\ graph' = MarkSettled(list, graph, t, v, w)
            /\ cli'.pc = "book" /\ cli'.inflight = Without(t) /\ cli'.progressed
            /\ cli'.hand = <<t, w>> /\ cli'.todo = Tail(cli.todo) /\ cli'.back = "settle"
            /\ SameSight
        BY <2>2, <2>5, <3>1, SettleAsIs DEF SameSight
      <3>4. UNCHANGED <<budget, schedule, published, ThisRun>> /\ cli.pc = "settle"
        BY <1>1 DEF ReadSettled, At
      <3>5. v = worker[w].record[t] /\ <<t, w>> = Head(cli.todo)
        BY <2>2, <2>4, <3>1
      <3>6. Settles(t, w, v)
        BY <2>1, <3>3, <3>4, <3>5 DEF Settles, ThisRun
      <3> QED BY <3>2, <3>6 DEF CliStep
    <2>6. CASE cli' = [c EXCEPT !.pc = "health"] /\ UNCHANGED graph
      <3>1. /\ cli'.pc = "health" /\ cli'.hand = c.hand /\ cli'.todo = c.todo /\ cli'.back = c.back
            /\ cli'.inflight = c.inflight
            /\ cli'.observed = c.observed /\ cli'.blind = c.blind /\ cli'.life = c.life
            /\ cli'.progressed = c.progressed /\ cli'.dispatched = c.dispatched
        BY <2>2, <2>6 DEF CliState
      <3>2. Takes
        BY <1>1, <2>2, <2>6, <3>1 DEF Takes, ReadSettled, SameSight, SameNews
      <3> QED BY <3>2 DEF CliStep
    <2> QED BY <2>3, <2>5, <2>6
  <1>2. CASE ReadHealth \/ ReadSilence
    <2> DEFINE c == [cli EXCEPT !.dead = @ \cup {Worker}]
    <2>1. /\ cli.hand \in ToSet(cli.inflight) \ ToSet(cli.todo) /\ cli.back = "settle"
          /\ cli.pc \in {"health", "silence"} /\ cli.hand \in Tasks \X Workers
      BY <1>2 DEF ReadHealth, ReadSilence, FlightInv, HandInv, At, TypeOK
    <2>2. PICK t \in Tasks, w \in Workers : cli.hand = <<t, w>> /\ Task = t /\ Worker = w
      BY <2>1 DEF Task, Worker
    <2>3. /\ c \in CliState /\ c.hand = cli.hand /\ c.todo = cli.todo
          /\ c.back = "settle" /\ c.inflight = cli.inflight
          /\ c.observed = cli.observed /\ c.blind = cli.blind /\ c.life = cli.life
      BY <1>0, <2>1, <2>2 DEF CliState
    <2>4. \/ SettleAs("unknown", Worker, c)
          \/ (At("health") /\ cli' = [cli EXCEPT !.pc = "silence"] /\ UNCHANGED graph)
          \/ (At("silence") /\ cli' = [cli EXCEPT !.pc = "settle"] /\ UNCHANGED graph)
      BY <1>2 DEF ReadHealth, ReadSilence
    <2>5. UNCHANGED <<budget, schedule, published, ThisRun>>
      BY <1>2 DEF ReadHealth, ReadSilence
    <2> HIDE DEF c
    <2>6. CASE SettleAs("unknown", Worker, c)
      <3>1. ToSet(cli.todo) \subseteq ToSet(cli.inflight) \ {<<t, w>>} /\ OnceIn(cli.todo)
        BY <2>1, <2>2 DEF FlightInv
      <3>2. Settles(t, w, "unknown")
        BY <2>1, <2>2, <2>3, <2>5, <2>6, <3>1, SettleAsIs DEF Settles, ThisRun, SameSight
      <3> QED BY <3>2 DEF CliStep, Verdict
    <2>7. CASE \/ (At("health") /\ cli' = [cli EXCEPT !.pc = "silence"] /\ UNCHANGED graph)
               \/ (At("silence") /\ cli' = [cli EXCEPT !.pc = "settle"] /\ UNCHANGED graph)
      <3>1. Asks
        BY <1>0, <2>5, <2>7
           DEF Asks, SameWork, SameHand, SameSight, SameNews, CliState
      <3> QED BY <3>1 DEF CliStep
    <2> QED BY <2>4, <2>6, <2>7
  <1>3. CASE BookSpend
    <2>1. Books
      BY <1>0, <1>3 DEF Books, BookSpend, SameWork, SameHand, SameOffers, SameNews, CliState
    <2> QED BY <2>1 DEF CliStep
  <1>4. CASE SettlePassDone
    <2>1. Turns
      BY <1>0, <1>4 DEF Turns, SettlePassDone, SameWork, SameHand, SameSight, CliState
    <2> QED BY <2>1 DEF CliStep
  <1> QED BY <1>1, <1>2, <1>3, <1>4 DEF SettlePass


\* The dispatch pass and its ends, step by step.
LEMMA DispatchPassIs ==
  ASSUME TypeOK, HandInv, DispatchPass \/ Escapes \/ StallTimeout
  PROVE  CliStep
  <1>0. cli \in CliState
    BY DEF TypeOK
  <1>1. CASE Probe
    <2> DEFINE w == FirstOf(Fleet, cli.probing)
    <2>1. w \in cli.probing /\ cli.probing \subseteq Workers
      BY <1>0, <1>1, FleetAssumption, FirstIsIn DEF Probe, CliState
    <2> DEFINE d == IF Health(w) = "dead" THEN cli.dead \cup {w} ELSE cli.dead
               a == IF Health(w) = "idle" THEN cli.avail \cup {w} ELSE cli.avail
    <2>2. cli' = [cli EXCEPT !.probing = cli.probing \ {w}, !.dead = d, !.avail = a]
      BY <1>1 DEF Probe
    <2>3. a \subseteq cli.avail \cup cli.probing
      BY <2>1
    <2> HIDE DEF w, d, a
    <2>4. /\ cli'.probing = cli.probing \ {w} /\ cli'.avail = a /\ cli'.pc = cli.pc
          /\ SameWork /\ SameHand /\ SameSight /\ SameNews
      BY <1>0, <2>2 DEF CliState, SameWork, SameHand, SameSight, SameNews
    <2>5. At("probe") /\ UNCHANGED <<graph, budget, schedule, published, ThisRun>>
      BY <1>1 DEF Probe
    <2>6. Probes
      BY <2>3, <2>4, <2>5 DEF Probes, At
    <2> QED BY <2>6 DEF CliStep
  <1>2. CASE ProbePassDone
    <2>1. Probes
      BY <1>0, <1>2
         DEF Probes, ProbePassDone, SameWork, SameHand, SameSight, SameNews, CliState
    <2> QED BY <2>1 DEF CliStep
  <1>3. CASE OfferPinned
    <2>1. Throws
      BY <1>0, <1>3 DEF Throws, OfferPinned, SameWork, SameHand, SameSight, CliState
    <2> QED BY <2>1 DEF CliStep
  <1>4. CASE OfferSkipped
    <2> DEFINE x == cli.refused \/ TargetOf(Offered) # None
               o == cli.offers \ {Offered}
    <2>1. cli' = [cli EXCEPT !.offers = o, !.refused = x]
      BY <1>4, Zenon DEF OfferSkipped
    <2>2. o \subseteq cli.offers
      OBVIOUS
    <2> HIDE DEF x, o
    <2>3. /\ cli'.offers = o /\ cli'.avail = cli.avail /\ cli'.pc = cli.pc
          /\ SameWork /\ SameHand /\ SameSight /\ SameNews
      BY <1>0, <2>1 DEF CliState, SameWork, SameHand, SameSight, SameNews
    <2>4. At("offer") /\ UNCHANGED <<graph, budget, schedule, published, ThisRun>>
      BY <1>4 DEF OfferSkipped
    <2>5. Skips
      BY <2>2, <2>3, <2>4 DEF Skips, At
    <2> QED BY <2>5 DEF CliStep
  <1>5. CASE Offer
    <2> DEFINE t == Offered
               w == TargetOf(t)
    <2>1. t \in cli.offers /\ t \in Tasks
      BY <1>5, OfferedIs DEF Offer
    <2>2. w \in cli.avail /\ w \in Workers
      BY <1>5, <2>1, TargetIs DEF Offer
    <2>3. /\ cli' = [cli EXCEPT !.pc = "calling", !.offers = @ \ {t}, !.hand = <<t, w>>,
                                !.back = "offer"]
          /\ AdmitsTask(budget, t, list.cap) /\ At("offer")
          /\ mail' = [mail EXCEPT ![w] = Append(@, [task |-> t, open |-> TRUE])]
          /\ budget' = Hold(budget, t) /\ published' = budget' /\ answer' = None
          /\ UNCHANGED <<list, graph, schedule, worker, ranOn>>
      BY <1>5 DEF Offer
    <2> HIDE DEF t, w
    <2>4. Offers(t, w)
      BY <1>0, <2>1, <2>2, <2>3
         DEF Offers, SameWork, SameSight, SameNews, CliState
    <2> QED BY <2>1, <2>2, <2>4 DEF CliStep
  <1>6. CASE Accepted
    <2>1. cli.hand = <<Task, Worker>>
      BY <1>6 DEF Accepted, At, Task, Worker, TypeOK
    <2>2. Accepts
      BY <1>0, <1>6, <2>1
         DEF Accepts, Accepted, Answered, SameHand, SameSight, CliState
    <2> QED BY <2>2 DEF CliStep
  <1>7. CASE Declined \/ InDoubt
    <2>1. At("calling") /\ cli.hand \in Tasks \X Workers
      BY <1>7 DEF Declined, InDoubt, At, TypeOK
    <2>2. PICK t \in Tasks, w \in Workers : cli.hand = <<t, w>> /\ Task = t /\ Worker = w
      BY <2>1 DEF Task, Worker
    <2>3. \E c \in CliState, v \in Verdict :
             /\ SettleAs(v, w, c) /\ c.hand = cli.hand /\ c.todo = cli.todo
             /\ c.offers = cli.offers /\ c.avail \subseteq cli.avail /\ c.dispatched
             /\ c.observed = cli.observed /\ c.blind = cli.blind /\ c.life = cli.life
             /\ c.back = cli.back
             /\ (v = answer /\ mail' = mail) \/ (v = "unknown" /\ Abandon(w))
      <3>1. CASE Declined
        <4>1. /\ Answered \in CliState /\ Answered.hand = cli.hand /\ Answered.todo = cli.todo
              /\ Answered.offers = cli.offers /\ Answered.avail \subseteq cli.avail
              /\ Answered.dispatched /\ Answered.observed = cli.observed
              /\ Answered.blind = cli.blind /\ Answered.life = cli.life
              /\ Answered.back = cli.back
          BY <1>0 DEF Answered, CliState
        <4>2. SettleAs(answer, w, Answered) /\ answer \in Verdict /\ mail' = mail
          BY <2>2, <3>1 DEF Declined, ThisRun
        <4> QED BY <4>1, <4>2
      <3>2. CASE InDoubt
        <4> DEFINE c == [Answered EXCEPT !.avail = @ \ {Worker}]
        <4>1. /\ c \in CliState /\ c.hand = cli.hand /\ c.todo = cli.todo
              /\ c.offers = cli.offers /\ c.avail \subseteq cli.avail
              /\ c.dispatched /\ c.observed = cli.observed
              /\ c.blind = cli.blind /\ c.life = cli.life /\ c.back = cli.back
          BY <1>0 DEF Answered, CliState
        <4>2. SettleAs("unknown", w, c) /\ "unknown" \in Verdict /\ Abandon(w)
          BY <2>2, <3>2 DEF InDoubt, Verdict
        <4> HIDE DEF c
        <4> QED BY <4>1, <4>2
      <3> QED BY <1>7, <3>1, <3>2
    <2>4. PICK c \in CliState, v \in Verdict :
             /\ SettleAs(v, w, c) /\ c.hand = cli.hand /\ c.todo = cli.todo
             /\ c.offers = cli.offers /\ c.avail \subseteq cli.avail /\ c.dispatched
             /\ c.observed = cli.observed /\ c.blind = cli.blind /\ c.life = cli.life
             /\ c.back = cli.back
             /\ (v = answer /\ mail' = mail) \/ (v = "unknown" /\ Abandon(w))
      BY <2>3
    <2>5. /\ graph' = MarkSettled(list, graph, t, v, w)
          /\ cli'.pc = "book" /\ cli'.inflight = Without(t) /\ cli'.progressed
          /\ cli'.hand = <<t, w>> /\ cli'.todo = cli.todo /\ cli'.back = cli.back
          /\ cli'.offers = cli.offers /\ cli'.avail \subseteq cli.avail /\ cli'.dispatched
          /\ SameSight
      BY <2>2, <2>4, SettleAsIs DEF SameSight
    <2>6. UNCHANGED <<list, budget, schedule, published, worker, answer, ranOn>>
      BY <1>7 DEF Declined, InDoubt, ThisRun
    <2>7. cli.back = "offer"
      BY <2>1 DEF HandInv
    <2>8. Settles(t, w, v)
      BY <2>1, <2>2, <2>4, <2>5, <2>6, <2>7 DEF Settles
    <2> QED BY <2>8 DEF CliStep
  <1>8. CASE Unreachable
    <2>1. Misses
      BY <1>0, <1>8
         DEF Misses, Unreachable, Answered, SameWork, SameHand, SameSight, CliState
    <2> QED BY <2>1 DEF CliStep
  <1>9. CASE PassDone
    <2>1. Passes
      BY <1>0, <1>9 DEF Passes, PassDone, SameHand, SameSight, CliState
    <2> QED BY <2>1 DEF CliStep
  <1>10. CASE Escapes
    <2>1. Breaks
      BY <1>0, <1>10 DEF Breaks, Escapes, SameWork, SameHand, SameSight, CliState
    <2> QED BY <2>1 DEF CliStep
  <1>11. CASE StallTimeout
    <2>1. Throws
      BY <1>0, <1>11 DEF Throws, StallTimeout, SameWork, SameHand, SameSight, ThisRun, CliState
    <2> QED BY <2>1 DEF CliStep
  <1> QED
    BY <1>1, <1>2, <1>3, <1>4, <1>5, <1>6, <1>7, <1>8, <1>9, <1>10, <1>11 DEF DispatchPass


-----------------------------------------------------------------------------
(* The graph, what is in flight and what is in hand.                       *)

\* A verdict changes one task; what was done or dispatched stays so, what was
\* ready stays ready, and nothing becomes ready in front of an unmet dependency.
LEMMA SettleGraph ==
  ASSUME TypeOK, GraphInv, list' = list,
         NEW t \in Tasks, NEW v \in Verdict, NEW w \in Workers,
         graph[t].state \in {"ready", "dispatched"},
         graph' = MarkSettled(list, graph, t, v, w)
  PROVE  /\ graph'[t].state = "done" /\ graph'[t].verdict = v
         /\ \A u \in Tasks \ {t} :
               /\ graph[u].state \in {"done", "dispatched"} => graph'[u] = graph[u]
               /\ graph'[u].state \in {"done", "dispatched"} => graph'[u] = graph[u]
               /\ graph[u].state = "ready" => graph'[u].state = "ready"
               /\ graph'[u].verdict = graph[u].verdict
         /\ GraphInv'
  <1> DEFINE g == Marked(t, v, w)
             h == graph'
  <1>1. /\ g \in [Tasks -> Node] /\ h \in [Tasks -> Node]
        /\ g[t].state = "done" /\ g[t].verdict = v
        /\ \A u \in Tasks \ {t} : g[u] = graph[u]
        /\ \A u \in Tasks : h[u] = Swept(list, g, h, u)
    BY MarkSettledIs
  <1> HIDE DEF g, h
  <1>2. \A u \in Tasks : list.deps[u] \in Seq(Tasks) /\ ToSet(list.deps[u]) \subseteq Tasks
    BY ListFacts
  <1>3. \A u \in Tasks : g[u].state \in {"done", "dispatched"} => h[u] = g[u]
    BY <1>1 DEF Swept
  <1>4. h[t] = g[t]
    BY <1>1, <1>3
  <1>5. ASSUME NEW u \in Tasks
        PROVE  /\ h[u].state \in {"done", "dispatched"} => h[u] = g[u]
               /\ h[u].verdict = g[u].verdict
               /\ h[u].state = "ready" /\ g[u].state # "ready" => DepsDone(h, u)
    <2>1. CASE g[u].state \in {"done", "dispatched"}
      BY <1>3, <2>1
    <2>2. CASE g[u].state \notin {"done", "dispatched"} /\ Offenders(list, h, u) # {}
      <3> DEFINE d == list.deps[u][Min(Offenders(list, h, u))]
                 by == IF h[d].state = "blocked" THEN h[d].blockedBy ELSE d
      <3>1. h[u] = [g[u] EXCEPT !.state = "blocked", !.blockedBy = by]
        BY <1>1, <2>2 DEF Swept
      <3> HIDE DEF d, by
      <3> QED BY <1>1, <3>1 DEF Node
    <2>3. CASE g[u].state \notin {"done", "dispatched"} /\ Offenders(list, h, u) = {}
      <3>1. \A d \in ToSet(list.deps[u]) : ~ Offends(h, d)
        BY <2>3 DEF Offenders, ToSet
      <3>2. CASE \A d \in ToSet(list.deps[u]) : h[d].state = "done"
        <4>1. h[u] = [g[u] EXCEPT !.state = "ready"]
          BY <1>1, <2>3, <3>2 DEF Swept
        <4>2. DepsDone(h, u)
          BY <3>1, <3>2 DEF DepsDone, Offends
        <4> QED BY <1>1, <4>1, <4>2 DEF Node
      <3>3. CASE ~ \A d \in ToSet(list.deps[u]) : h[d].state = "done"
        BY <1>1, <2>3, <3>3 DEF Swept
      <3> QED BY <3>2, <3>3
    <2> QED BY <2>1, <2>2, <2>3
  <1>6. ASSUME NEW u \in Tasks \ {t}, graph[u].state \in {"ready", "dispatched"}
        PROVE  DepsDone(h, u)
    <2> SUFFICES ASSUME NEW d \in ToSet(list.deps[u])
                 PROVE  h[d].state = "done" /\ Satisfied(h[d].verdict)
      BY DEF DepsDone
    <2>1. d \in Tasks /\ graph[d].state = "done" /\ Satisfied(graph[d].verdict)
      BY <1>2, <1>6 DEF GraphInv, DepsDone
    <2>2. d # t
      BY <2>1
    <2> QED BY <1>1, <1>3, <2>1, <2>2
  <1>7. ASSUME NEW u \in Tasks \ {t}, graph[u].state = "ready"
        PROVE  h[u].state = "ready"
    <2>1. DepsDone(h, u)
      BY <1>6, <1>7
    <2>2. Offenders(list, h, u) = {} /\ \A d \in ToSet(list.deps[u]) : h[d].state = "done"
      <3>1. ASSUME NEW i \in DOMAIN list.deps[u], Offends(h, list.deps[u][i]) PROVE FALSE
        <4>1. list.deps[u][i] \in ToSet(list.deps[u])
          BY DEF ToSet
        <4> QED BY <2>1, <3>1, <4>1 DEF DepsDone, Offends
      <3> QED BY <2>1, <3>1 DEF DepsDone, Offenders
    <2>3. g[u] = graph[u] /\ g[u] \in Node
      BY <1>1
    <2>4. h[u] = [g[u] EXCEPT !.state = "ready"]
      BY <1>1, <1>7, <2>2, <2>3 DEF Swept
    <2> QED BY <2>3, <2>4 DEF Node
  <1>8. ASSUME NEW u \in Tasks, h[u].state \in {"ready", "dispatched"}
        PROVE  DepsDone(h, u)
    <2>1. u # t
      BY <1>1, <1>4, <1>8
    <2>2. g[u] = graph[u]
      BY <1>1, <2>1
    <2>3. CASE graph[u].state \in {"ready", "dispatched"}
      BY <1>6, <2>1, <2>3
    <2>4. CASE graph[u].state \notin {"ready", "dispatched"}
      BY <1>5, <1>8, <2>2, <2>4
    <2> QED BY <2>3, <2>4
  <1>9. GraphInv'
    BY <1>8 DEF GraphInv, DepsDone, h
  <1>10. \A u \in Tasks \ {t} :
               /\ graph[u].state \in {"done", "dispatched"} => h[u] = graph[u]
               /\ h[u].state \in {"done", "dispatched"} => h[u] = graph[u]
               /\ graph[u].state = "ready" => h[u].state = "ready"
               /\ h[u].verdict = graph[u].verdict
    BY <1>1, <1>3, <1>5, <1>7
  <1> QED BY <1>1, <1>4, <1>9, <1>10 DEF h


\* A task is in a list once: what is known of it by its place is known by its name.
LEMMA OnceInSet ==
  ASSUME NEW s, OnceIn(s) PROVE \A p, q \in ToSet(s) : p[1] = q[1] => p = q
  BY DEF OnceIn, ToSet

\* An accepted task goes behind what is in flight.
LEMMA AppendOnce ==
  ASSUME NEW S, NEW s \in Seq(S), NEW e \in S, OnceIn(s), \A p \in ToSet(s) : p[1] # e[1]
  PROVE  OnceIn(Append(s, e)) /\ ToSet(Append(s, e)) = ToSet(s) \cup {e}
  <1> DEFINE r == Append(s, e)
  <1>1. /\ r \in Seq(S) /\ Len(r) = Len(s) + 1 /\ r[Len(s) + 1] = e
        /\ \A i \in 1 .. Len(s) : r[i] = s[i]
    BY AppendProperties
  <1>2. Len(s) \in Nat /\ DOMAIN s = 1 .. Len(s) /\ DOMAIN r = 1 .. Len(s) + 1
    BY <1>1
  <1> HIDE DEF r
  <1>3. \A i \in DOMAIN s : s[i] \in ToSet(s)
    BY DEF ToSet
  <1>4. OnceIn(r)
    <2> SUFFICES ASSUME NEW i \in DOMAIN r, NEW j \in DOMAIN r, r[i][1] = r[j][1]
                 PROVE  i = j
      BY DEF OnceIn
    <2>1. CASE i \in DOMAIN s /\ j \in DOMAIN s
      BY <1>1, <1>2, <2>1 DEF OnceIn
    <2>2. CASE i \in DOMAIN s /\ j \notin DOMAIN s
      <3>1. j = Len(s) + 1 /\ r[j] = e /\ r[i] = s[i]
        BY <1>1, <1>2, <2>2
      <3> QED BY <1>3, <2>2, <3>1
    <2>3. CASE i \notin DOMAIN s /\ j \in DOMAIN s
      <3>1. i = Len(s) + 1 /\ r[i] = e /\ r[j] = s[j]
        BY <1>1, <1>2, <2>3
      <3> QED BY <1>3, <2>3, <3>1
    <2>4. CASE i \notin DOMAIN s /\ j \notin DOMAIN s
      BY <1>2, <2>4
    <2> QED BY <2>1, <2>2, <2>3, <2>4
  <1>5. ToSet(r) = ToSet(s) \cup {e}
    <2>1. \A i \in DOMAIN r : r[i] \in ToSet(s) \cup {e}
      <3> SUFFICES ASSUME NEW i \in DOMAIN r PROVE r[i] \in ToSet(s) \cup {e}
        OBVIOUS
      <3>1. i \in DOMAIN s \/ i = Len(s) + 1
        BY <1>2
      <3> QED BY <1>1, <1>2, <1>3, <3>1
    <2>2. \A i \in DOMAIN s : i \in DOMAIN r /\ r[i] = s[i]
      BY <1>1, <1>2
    <2>3. Len(s) + 1 \in DOMAIN r
      BY <1>2
    <2> QED BY <1>1, <2>1, <2>2, <2>3 DEF ToSet
  <1> QED BY <1>4, <1>5 DEF r

CoreInv == StartInv /\ FlightInv /\ HandInv /\ GraphInv

\* A verdict leaves nothing of its task in flight, and what else was there stays.
LEMMA SettlesCore ==
  ASSUME TypeOK, CoreInv, NEW t \in Tasks, NEW w \in Workers, NEW v \in Verdict,
         Settles(t, w, v)
  PROVE  /\ CoreInv'
         /\ graph[t].state \in {"ready", "dispatched"}
         /\ ToSet(cli'.inflight) = {p \in ToSet(cli.inflight) : p[1] # t}
         /\ Task' = t /\ Worker' = w
  <1> USE DEF CoreInv
  <1>1. cli.inflight \in Seq(Tasks \X Workers) /\ cli.todo \in Seq(Tasks \X Workers)
        /\ cli.offers \subseteq Tasks
    BY DEF TypeOK, CliState
  <1>2. graph[t].state \in {"ready", "dispatched"}
    <2>1. CASE <<t, w>> \in ToSet(cli.inflight)
      BY <2>1 DEF FlightInv
    <2>2. CASE At("calling") /\ <<t, w>> = cli.hand
      BY <2>2 DEF HandInv, Task
    <2> QED BY <2>1, <2>2 DEF Settles
  <1>3. list' = list /\ graph' = MarkSettled(list, graph, t, v, w)
    BY DEF Settles
  <1>4. /\ graph'[t].state = "done"
        /\ \A u \in Tasks \ {t} :
               /\ graph[u].state \in {"done", "dispatched"} => graph'[u] = graph[u]
               /\ graph[u].state = "ready" => graph'[u].state = "ready"
        /\ GraphInv'
    BY <1>2, <1>3, SettleGraph
  <1>5. /\ ToSet(cli'.inflight) = {p \in ToSet(cli.inflight) : p[1] # t}
        /\ OnceIn(cli'.inflight)
    BY <1>1, WithoutIs DEF Settles, FlightInv
  <1>6. ToSet(cli.inflight) \subseteq Tasks \X Workers
    BY <1>1 DEF ToSet
  <1>7. \A p \in ToSet(cli'.inflight) : graph'[p[1]].state = "dispatched"
    <2> SUFFICES ASSUME NEW p \in ToSet(cli'.inflight) PROVE graph'[p[1]].state = "dispatched"
      OBVIOUS
    <2>1. p \in ToSet(cli.inflight) /\ p[1] \in Tasks \ {t} /\ graph[p[1]].state = "dispatched"
      BY <1>5, <1>6 DEF FlightInv
    <2> QED BY <1>4, <2>1
  <1>8. OnceIn(cli'.todo) /\ ToSet(cli'.todo) \subseteq ToSet(cli'.inflight)
    <2>1. CASE /\ <<t, w>> \in ToSet(cli.inflight) /\ OnceIn(cli'.todo)
               /\ ToSet(cli'.todo) \subseteq ToSet(cli.inflight) \ {<<t, w>>}
      <3>1. \A p \in ToSet(cli'.todo) : p \in ToSet(cli.inflight) /\ p[1] # t
        <4> SUFFICES ASSUME NEW p \in ToSet(cli'.todo), p[1] = t PROVE FALSE
          BY <2>1
        <4>1. p \in ToSet(cli.inflight) /\ p # <<t, w>> /\ p[1] = <<t, w>>[1]
          BY <2>1
        <4> QED BY <2>1, <4>1, OnceInSet DEF FlightInv
      <3> QED BY <1>5, <2>1, <3>1
    <2>2. CASE At("calling") /\ <<t, w>> = cli.hand /\ cli'.todo = cli.todo
      <3>1. graph[t].state = "ready"
        BY <2>2 DEF HandInv, Task
      <3>2. \A p \in ToSet(cli.inflight) : p[1] # t
        BY <3>1 DEF FlightInv
      <3> QED BY <1>5, <2>2, <3>2 DEF FlightInv
    <2> QED BY <2>1, <2>2 DEF Settles
  <1>9. cli'.pc = "book" /\ Task' = t /\ Worker' = w
    BY DEF Settles, Task, Worker
  <1>10. FlightInv'
    BY <1>5, <1>7, <1>8, <1>9 DEF FlightInv
  <1>11. HandInv'
    <2>1. Offering' => \A u \in cli'.offers : graph'[u].state = "ready"
      <3> SUFFICES ASSUME Offering', NEW u \in cli'.offers PROVE graph'[u].state = "ready"
        OBVIOUS
      <3>1. /\ At("calling") /\ <<t, w>> = cli.hand /\ cli'.offers = cli.offers
        BY <1>9 DEF Settles, Offering, At
      <3>2. u \in Tasks \ {t} /\ graph[u].state = "ready"
        BY <1>1, <3>1 DEF HandInv, Offering, Task, At
      <3> QED BY <1>4, <3>2
    <2> QED BY <1>4, <1>9, <2>1 DEF HandInv, At
  <1>12. StartInv'
    BY <1>9 DEF StartInv, At
  <1> QED BY <1>2, <1>4, <1>5, <1>9, <1>10, <1>11, <1>12

\* A step of the CLI never goes back to the start.
LEMMA CliStepLeaves == TypeOK /\ CliStep => cli'.pc # "start" /\ cli'.pc # "down"
  BY DEF CliStep, Takes, Asks, Settles, Books, Turns, Probes, Skips, Throws, Offers, Accepts,
         Misses, Breaks, Passes, TypeOK, CliState

\* Every step of the CLI keeps what is in flight dispatched, once, and behind
\* satisfied dependencies.
LEMMA CliCore == TypeOK /\ CoreInv /\ CliStep => CoreInv'
  <1> SUFFICES ASSUME TypeOK, CoreInv, CliStep PROVE CoreInv'
    OBVIOUS
  <1> USE DEF CoreInv
  <1>s. StartInv'
    BY CliStepLeaves DEF StartInv, At
  <1>0. /\ cli.inflight \in Seq(Tasks \X Workers) /\ cli.todo \in Seq(Tasks \X Workers)
        /\ cli.offers \subseteq Tasks
    BY DEF TypeOK, CliState
  <1>1. CASE Takes
    <2>1. /\ OnceIn(cli'.todo) /\ cli'.hand \in ToSet(cli.todo)
          /\ ToSet(cli'.todo) \subseteq ToSet(cli.todo) \ {cli'.hand}
      BY <1>0, <1>1, TailOnce DEF Takes, FlightInv
    <2>2. graph' = graph /\ list' = list /\ cli'.inflight = cli.inflight /\ cli'.pc = "health"
          /\ cli'.back = "settle"
      BY <1>1 DEF Takes, ThisRun
    <2> QED BY <1>s, <2>1, <2>2 DEF FlightInv, HandInv, GraphInv, DepsDone, Offering, At
  <1>2. CASE Asks
    <2>1. /\ graph' = graph /\ list' = list /\ SameWork /\ SameHand
          /\ (At("health") /\ cli'.pc = "silence") \/ (At("silence") /\ cli'.pc = "settle")
      BY <1>2 DEF Asks, ThisRun
    <2>2. FlightInv'
      BY <2>1 DEF FlightInv, At, SameWork, SameHand
    <2>3. HandInv' /\ GraphInv'
      BY <2>1 DEF HandInv, GraphInv, DepsDone, Offering, At, SameHand
    <2> QED BY <1>s, <2>2, <2>3
  <1>3. CASE Books
    <2>1. graph' = graph /\ list' = list /\ SameWork /\ SameHand /\ SameOffers
          /\ At("book") /\ cli'.pc = cli.back /\ cli.back \in {"settle", "offer"}
      BY <1>3 DEF Books, ThisRun, TypeOK, CliState
    <2> QED BY <1>s, <2>1
        DEF FlightInv, HandInv, GraphInv, DepsDone, Offering, At, SameWork, SameHand, SameOffers
  <1>4. CASE Turns \/ Throws
    <2>1. graph' = graph /\ list' = list /\ SameWork /\ cli'.pc \in {"done", "probe", "threw"}
      BY <1>4 DEF Turns, Throws, ThisRun
    <2> QED BY <1>s, <2>1
        DEF FlightInv, HandInv, GraphInv, DepsDone, Offering, At, SameWork
  <1>5. CASE Probes \/ Skips
    <2>1. graph' = graph /\ list' = list /\ SameWork /\ cli'.pc \in {"probe", "offer"}
      BY <1>5 DEF Probes, Skips, ThisRun
    <2>2. Offering' => \A t \in cli'.offers : graph[t].state = "ready"
      BY <1>5 DEF Probes, Skips, HandInv, Offering, At, Ready
    <2> QED BY <1>s, <2>1, <2>2
        DEF FlightInv, HandInv, GraphInv, DepsDone, At, SameWork
  <1>6. CASE \E t \in Tasks, w \in Workers, v \in Verdict : Settles(t, w, v)
    BY <1>6, SettlesCore
  <1>7. CASE \E t \in Tasks, w \in Workers : Offers(t, w)
    <2>1. PICK t \in Tasks, w \in Workers : Offers(t, w)
      BY <1>7
    <2>2. /\ graph' = graph /\ list' = list /\ SameWork /\ cli'.pc = "calling"
          /\ cli'.hand = <<t, w>> /\ cli'.back = "offer" /\ cli'.offers = cli.offers \ {t}
          /\ t \in cli.offers /\ At("offer")
      BY <2>1 DEF Offers
    <2>3. Task' = t
      BY <2>2 DEF Task
    <2>4. \A u \in cli.offers : graph[u].state = "ready"
      BY <2>2 DEF HandInv, Offering, At
    <2> QED BY <1>s, <2>2, <2>3, <2>4
        DEF FlightInv, HandInv, GraphInv, DepsDone, Offering, At, SameWork
  <1>8. CASE Accepts
    <2>1. /\ At("calling") /\ cli'.pc = "offer" /\ graph' = MarkDispatched(graph, Task, Worker)
          /\ cli'.inflight = Append(cli.inflight, cli.hand) /\ cli'.todo = cli.todo
          /\ cli'.offers = cli.offers /\ list' = list
      BY <1>8 DEF Accepts, ThisRun
    <2>2. /\ cli.hand \in Tasks \X Workers /\ Task = cli.hand[1]
          /\ Task \in Tasks /\ Worker \in Workers
      BY <2>1 DEF TypeOK, At, Task, Worker
    <2>3. /\ graph'[Task].state = "dispatched"
          /\ \A u \in Tasks \ {Task} : graph'[u] = graph[u]
      BY <2>1, <2>2, MarkDispatchedIs
    <2>4. graph[Task].state = "ready" /\ Task \notin cli.offers
          /\ \A u \in cli.offers : graph[u].state = "ready"
      BY <2>1 DEF HandInv, Offering, At
    <2>5. \A p \in ToSet(cli.inflight) : p[1] # Task /\ p[1] \in Tasks
      BY <1>0, <2>4 DEF FlightInv, ToSet
    <2>6. OnceIn(cli'.inflight) /\ ToSet(cli'.inflight) = ToSet(cli.inflight) \cup {cli.hand}
      BY <1>0, <2>1, <2>2, <2>5, AppendOnce DEF FlightInv
    <2>7. FlightInv'
      BY <2>1, <2>2, <2>3, <2>5, <2>6 DEF FlightInv
    <2>8. HandInv'
      BY <1>0, <2>1, <2>3, <2>4 DEF HandInv, At
    <2>9. GraphInv'
      <3> SUFFICES ASSUME NEW u \in Tasks, graph'[u].state \in {"ready", "dispatched"},
                          NEW d \in ToSet(list.deps[u])
                   PROVE  graph'[d].state = "done" /\ Satisfied(graph'[d].verdict)
        BY <2>1 DEF GraphInv, DepsDone
      <3>1. graph[u].state \in {"ready", "dispatched"}
        BY <2>3, <2>4
      <3>2. d \in Tasks /\ graph[d].state = "done" /\ Satisfied(graph[d].verdict)
        BY <3>1, ListFacts DEF GraphInv, DepsDone
      <3>3. d # Task
        BY <2>4, <3>2
      <3> QED BY <2>3, <3>2, <3>3
    <2> QED BY <1>s, <2>7, <2>8, <2>9
  <1>9. CASE Misses
    <2>1. graph' = graph /\ list' = list /\ SameWork /\ cli'.pc = "offer" /\ At("calling")
          /\ cli'.offers = cli.offers
      BY <1>9 DEF Misses
    <2> QED BY <1>s, <2>1
        DEF FlightInv, HandInv, GraphInv, DepsDone, Offering, At, SameWork
  <1>10. CASE Breaks
    <2>1. graph' = graph /\ list' = list /\ SameWork /\ cli'.pc = "escaped"
      BY <1>10 DEF Breaks
    <2> QED BY <1>s, <2>1
        DEF FlightInv, HandInv, GraphInv, DepsDone, Offering, At, SameWork
  <1>11. CASE Passes
    <2>1. graph' = graph /\ list' = list /\ cli'.inflight = cli.inflight
          /\ cli'.todo \in {cli.todo, cli.inflight} /\ cli'.pc \in {"done", "threw", "settle"}
      BY <1>11 DEF Passes, ThisRun
    <2> QED BY <1>s, <2>1
        DEF FlightInv, HandInv, GraphInv, DepsDone, Offering, At
  <1> QED
    BY <1>1, <1>2, <1>3, <1>4, <1>5, <1>6, <1>7, <1>8, <1>9, <1>10, <1>11 DEF CliStep

\* Nothing is in flight, in hand or offered after a start, a crash or a re-run.
LEMMA CoreAfresh ==
  ASSUME TypeOK, CoreInv, Start \/ Crash \/ Rerun
  PROVE  CoreInv'
  <1> USE DEF CoreInv
  <1>1. CASE Start
    <2>1. /\ cli'.pc = "settle" /\ cli'.inflight = cli.inflight /\ cli'.todo = cli.todo
          /\ graph' = NewGraph(list) /\ list' = list
      BY <1>1, StartIs DEF TypeOK, CliState, ThisRun
    <2>2. cli.inflight = <<>>
      BY <1>1 DEF StartInv, Start
    <2>3. FlightInv'
      <3>1. ToSet(cli'.inflight) = {} /\ OnceIn(cli'.inflight)
        BY <2>1, <2>2 DEF ToSet, OnceIn
      <3> QED BY <2>1, <2>2, <3>1 DEF FlightInv
    <2>4. HandInv' /\ StartInv'
      BY <2>1 DEF HandInv, StartInv, Offering, At
    <2>5. GraphInv'
      <3> SUFFICES ASSUME NEW t \in Tasks, graph'[t].state \in {"ready", "dispatched"}
                   PROVE  ToSet(list.deps[t]) = {}
        BY <2>1 DEF GraphInv, DepsDone
      <3>1. list.deps[t] = <<>>
        BY <2>1 DEF NewGraph
      <3> QED BY <3>1 DEF ToSet
    <2> QED BY <2>3, <2>4, <2>5
  <1>2. CASE Crash
    <2>1. /\ cli'.pc = "down" /\ cli'.inflight = <<>> /\ cli'.todo = <<>>
          /\ UNCHANGED <<graph, list>>
      BY <1>2, CrashIs
    <2> QED BY <2>1
        DEF StartInv, FlightInv, HandInv, GraphInv, DepsDone, Offering, At, OnceIn, ToSet
  <1>3. CASE Rerun
    <2>1. /\ cli'.pc = "start" /\ cli'.inflight = <<>> /\ cli'.todo = <<>>
          /\ UNCHANGED <<graph, list, published>> /\ cli'.life = cli.life + 1
          /\ \A w \in Workers : cli'.observed[w] = 0
      BY <1>3, RerunIs
    <2>2. cli'.life # 1
      BY <2>1 DEF TypeOK, CliState
    <2> QED BY <2>1, <2>2
        DEF StartInv, FlightInv, HandInv, GraphInv, DepsDone, Offering, At, OnceIn, ToSet
  <1> QED BY <1>1, <1>2, <1>3

-----------------------------------------------------------------------------
(* The admission slots.                                                    *)

\* A task is in flight if a pair of what is in flight names it.
LEMMA InFlightIs == \A t : InFlight(t) <=> \E p \in ToSet(cli.inflight) : p[1] = t
  BY DEF InFlight, ToSet

\* A hold more is within the cap when it was admitted, and one less is too.
LEMMA SlotsCount ==
  ASSUME NEW r \in SUBSET Tasks, NEW t \in Tasks, NEW n \in Nat, Cardinality(r) <= n
  PROVE  /\ Cardinality(r \ {t}) <= n /\ Cardinality(r) \in Nat
         /\ Cardinality(r \ {t}) \in Nat /\ Cardinality(r \cup {t}) \in Nat
         /\ t \in r \/ Cardinality(r) < n => Cardinality(r \cup {t}) <= n
         /\ Cardinality(r \cup {t}) <= Cardinality(r) + 1
         /\ t \in r => Cardinality(r \ {t}) = Cardinality(r) - 1
  <1>1. IsFiniteSet(r)
    BY TasksAssumption, FS_Subset
  <1>2. Cardinality(r) \in Nat
    BY <1>1, FS_CardinalityType
  <1>3. /\ t \in r => Cardinality(r \ {t}) = Cardinality(r) - 1
        /\ t \notin r => Cardinality(r \ {t}) = Cardinality(r)
    BY <1>1, FS_RemoveElement
  <1>4. /\ t \in r => Cardinality(r \cup {t}) = Cardinality(r)
        /\ t \notin r => Cardinality(r \cup {t}) = Cardinality(r) + 1
    BY <1>1, FS_AddElement
  <1>5. Cardinality(r \ {t}) \in Nat
    BY <1>1, FS_Subset, FS_CardinalityType
  <1>6. Cardinality(r \cup {t}) \in Nat
    BY <1>2, <1>4
  <1> QED BY <1>2, <1>3, <1>4, <1>5, <1>6

\* No slot is lost or overdrawn: not by a verdict, a refusal, a socket that
\* failed or an escape.
LEMMA CliSlots == TypeOK /\ CoreInv /\ SlotsInv /\ CliStep => SlotsInv'
  <1> SUFFICES ASSUME TypeOK, CoreInv, SlotsInv, CliStep PROVE SlotsInv'
    OBVIOUS
  <1>0. /\ budget \in BudgetState /\ budget.reserved \in SUBSET Tasks /\ list.cap \in Nat
        /\ Cardinality(budget.reserved) <= list.cap
        /\ cli \in CliState /\ None \notin Tasks
    BY ListFacts, NoneFacts DEF TypeOK, SlotsInv, SlotsTrue, SlotsHeld, BudgetState
  <1>h. cli.pc \in {"calling", "book"} => Task \in Tasks
    BY DEF TypeOK, Task
  <1>p. cli.pc \notin {"start", "down"}
    BY <1>0 DEF CliStep, Takes, Asks, Settles, Books, Turns, Probes, Skips, Throws, Offers,
                Accepts, Misses, Breaks, Passes, At
  <1>s. cli'.pc \notin {"start", "down"}
    BY CliStepLeaves
  <1>i. /\ \A t \in budget.reserved :
             (\E p \in ToSet(cli.inflight) : p[1] = t) \/ (cli.pc \in {"book", "calling"} /\ t = Task)
        /\ \A p \in ToSet(cli.inflight) : p[1] \in budget.reserved
        /\ cli.pc \in {"calling", "book"} => Task \in budget.reserved
    BY <1>0, <1>p, InFlightIs DEF SlotsInv, SlotsTrue, SlotsOwned, SlotsHeld
  <1> SUFFICES /\ \A t \in budget'.reserved :
                     (\E p \in ToSet(cli'.inflight) : p[1] = t)
                     \/ (cli'.pc \in {"book", "calling"} /\ t = Task')
               /\ Cardinality(budget'.reserved) <= list'.cap
               /\ \A p \in ToSet(cli'.inflight) : p[1] \in budget'.reserved
               /\ cli'.pc \in {"calling", "book"} => Task' \in budget'.reserved
    <2>1. \A t : InFlight(t)' <=> \E p \in ToSet(cli'.inflight) : p[1] = t
      BY DEF InFlight, ToSet
    <2> QED BY <1>s, <2>1 DEF SlotsInv, SlotsTrue, SlotsOwned, SlotsHeld
  <1>1. CASE Takes \/ Asks \/ Turns \/ Probes \/ Skips \/ Throws \/ Passes
    <2>1. /\ budget' = budget /\ list' = list /\ cli'.inflight = cli.inflight
          /\ cli.pc \notin {"calling", "book"} /\ cli'.pc \notin {"calling", "book"}
      BY <1>1 DEF Takes, Asks, Turns, Probes, Skips, Throws, Passes, SameWork, ThisRun, At
    <2> QED BY <1>0, <1>i, <2>1
  <1>2. CASE Books
    <2>1. /\ cli'.inflight = cli.inflight /\ cli'.pc \in {"settle", "offer"} /\ At("book")
          /\ list' = list
      BY <1>0, <1>2 DEF Books, SameWork, ThisRun, CliState
    <2>2. budget'.reserved = budget.reserved \ {Task}
      <3>1. TaskTokens(Worker) \in Nat
        BY <2>1 DEF TypeOK, At, Worker, TaskTokens, WorkerState, CliState
      <3>2. PICK n \in Nat : budget' = SettleTask(budget, Task, n)
        BY <1>2, <3>1 DEF Books
      <3>3. Task \in Tasks
        BY <1>h, <2>1 DEF At
      <3>4. \A k \in Nat : SettleTask(budget, Task, k).reserved = budget.reserved \ {Task}
        BY <1>0, <3>3, BudgetIs
      <3> QED BY <3>2, <3>4
    <2>3. \A p \in ToSet(cli.inflight) : p[1] # Task
      BY <2>1 DEF CoreInv, FlightInv, HandInv
    <2>4. Cardinality(budget'.reserved) <= list.cap
      BY <1>0, <1>h, <2>1, <2>2, SlotsCount DEF At
    <2> QED BY <1>i, <2>1, <2>2, <2>3, <2>4
  <1>3. CASE \E t \in Tasks, w \in Workers, v \in Verdict : Settles(t, w, v)
    <2>1. PICK t \in Tasks, w \in Workers, v \in Verdict : Settles(t, w, v)
      BY <1>3
    <2>2. /\ ToSet(cli'.inflight) = {p \in ToSet(cli.inflight) : p[1] # t}
          /\ Task' = t
      BY <2>1, SettlesCore
    <2>3. budget' = budget /\ list' = list /\ cli'.pc = "book"
      BY <2>1 DEF Settles
    <2>4. t \in budget.reserved /\ (cli.pc \in {"book", "calling"} => t = Task)
      <3>1. CASE <<t, w>> \in ToSet(cli.inflight) /\ cli.pc \in {"settle", "health", "silence"}
        BY <1>i, <3>1
      <3>2. CASE At("calling") /\ <<t, w>> = cli.hand
        BY <1>i, <3>2 DEF At, Task
      <3> QED BY <2>1, <3>1, <3>2 DEF Settles
    <2> QED BY <1>0, <1>i, <2>2, <2>3, <2>4
  <1>4. CASE \E t \in Tasks, w \in Workers : Offers(t, w)
    <2>1. PICK t \in Tasks, w \in Workers : Offers(t, w)
      BY <1>4
    <2>2. /\ list' = list /\ cli'.inflight = cli.inflight /\ cli'.pc = "calling" /\ Task' = t
          /\ At("offer")
      BY <2>1 DEF Offers, SameWork, Task
    <2>3. budget'.reserved = budget.reserved \cup {t}
      BY <1>0, <2>1, BudgetIs DEF Offers
    <2>4. Cardinality(budget.reserved \cup {t}) <= list.cap
      BY <1>0, <2>1, SlotsCount DEF Offers, AdmitsTask
    <2> QED BY <1>i, <2>2, <2>3, <2>4 DEF At
  <1>5. CASE Accepts
    <2>1. /\ At("calling") /\ cli'.pc = "offer" /\ cli'.inflight = Append(cli.inflight, cli.hand)
          /\ budget' = budget /\ list' = list
      BY <1>5 DEF Accepts, ThisRun
    <2>2. cli.inflight \in Seq(Tasks \X Workers) /\ cli.hand \in Tasks \X Workers
          /\ cli.hand[1] = Task
      BY <1>0, <2>1 DEF TypeOK, CliState, At, Task
    <2>3. \A p \in ToSet(cli.inflight) : p[1] # cli.hand[1]
      BY <2>1, <2>2 DEF CoreInv, FlightInv, HandInv
    <2>4. ToSet(cli'.inflight) = ToSet(cli.inflight) \cup {cli.hand}
      BY <2>1, <2>2, <2>3, AppendOnce DEF CoreInv, FlightInv
    <2> QED BY <1>0, <1>i, <2>1, <2>2, <2>4 DEF At
  <1>6. CASE Misses \/ Breaks
    <2>1. /\ cli'.inflight = cli.inflight /\ cli'.pc \in {"offer", "escaped"} /\ At("calling")
          /\ list' = list /\ budget' = Release(budget, Task)
      BY <1>6 DEF Misses, Breaks, SameWork
    <2>2. budget'.reserved = budget.reserved \ {Task}
      BY <1>0, <1>h, <2>1, BudgetIs DEF At
    <2>3. \A p \in ToSet(cli.inflight) : p[1] # Task
      BY <2>1 DEF CoreInv, FlightInv, HandInv
    <2>4. Cardinality(budget'.reserved) <= list.cap
      BY <1>0, <1>h, <2>1, <2>2, SlotsCount DEF At
    <2> QED BY <1>i, <2>1, <2>2, <2>3, <2>4
  <1> QED BY <1>1, <1>2, <1>3, <1>4, <1>5, <1>6 DEF CliStep

\* A start drops every hold; a crash and a re-run leave the books alone.
LEMMA SlotsAfresh ==
  ASSUME TypeOK, CoreInv, SlotsInv, Start \/ Crash \/ Rerun
  PROVE  SlotsInv'
  <1>1. CASE Start
    <2>1. /\ cli'.pc = "settle" /\ cli'.inflight = cli.inflight
          /\ budget'.reserved = {} /\ list' = list /\ list.cap \in Nat
      BY <1>1, StartIs, ListFacts DEF TypeOK, CliState, ThisRun
    <2>2. cli.inflight = <<>>
      BY <1>1 DEF CoreInv, StartInv, Start
    <2>3. ToSet(cli'.inflight) = {}
      BY <2>1, <2>2 DEF ToSet
    <2>4. Cardinality({}) = 0
      BY FS_EmptySet
    <2> QED BY <2>1, <2>3, <2>4 DEF SlotsInv, SlotsTrue, SlotsOwned, SlotsHeld
  <1>2. CASE Crash \/ Rerun
    <2>1. cli'.pc \in {"down", "start"} /\ budget' = budget /\ list' = list
      BY <1>2, CrashIs, RerunIs
    <2> QED BY <2>1 DEF SlotsInv, SlotsTrue, SlotsOwned, SlotsHeld
  <1> QED BY <1>1, <1>2

-----------------------------------------------------------------------------
(* What is written.                                                        *)

\* The written graph is the one in memory, or the pass knows that it changed it.
LEMMA CliWrites == TypeOK /\ CoreInv /\ WriteInv /\ CliStep => WriteInv'
  <1> SUFFICES ASSUME TypeOK, CoreInv, WriteInv, CliStep PROVE WriteInv'
    OBVIOUS
  <1> USE DEF WriteInv, Settling, Offering, At
  <1>0. cli \in CliState
    BY DEF TypeOK
  <1>1. CASE Takes \/ Asks \/ Books
    <2>1. /\ schedule' = schedule /\ graph' = graph /\ SameNews
          /\ cli.pc \in {"settle", "health", "silence", "book"}
          /\ cli'.pc \in {"settle", "health", "silence", "offer"}
          /\ cli.pc = "book" => cli'.pc = cli.back
          /\ cli.pc # "book" => cli'.pc # "offer"
      BY <1>0, <1>1 DEF Takes, Asks, Books, CliState
    <2>2. CASE Settling
      <3>1. schedule' = graph' \/ cli'.progressed
        BY <2>1, <2>2 DEF SameNews
      <3>2. cli'.pc \in {"settle", "health", "silence"}
        BY <2>1, <2>2
      <3> QED BY <3>1, <3>2
    <2>3. CASE Offering
      <3>1. /\ schedule' = graph' \/ cli'.dispatched
            /\ cli'.dispatched => cli'.progressed
        BY <2>1, <2>3 DEF SameNews
      <3>2. cli'.pc = "offer"
        BY <2>1, <2>3
      <3> QED BY <3>1, <3>2
    <2>4. Settling \/ Offering
      BY <1>0, <2>1 DEF CliState
    <2> QED BY <2>2, <2>3, <2>4
  <1>2. CASE Turns
    BY <1>2 DEF Turns
  <1>3. CASE Probes
    BY <1>3 DEF Probes, SameNews
  <1>4. CASE Skips \/ Throws \/ Passes
    BY <1>4 DEF Skips, Throws, Passes, SameNews
  <1>5. CASE \E t \in Tasks, w \in Workers, v \in Verdict : Settles(t, w, v)
    BY <1>5 DEF Settles
  <1>6. CASE \E t \in Tasks, w \in Workers : Offers(t, w)
    BY <1>6 DEF Offers, SameNews
  <1>7. CASE Accepts \/ Misses \/ Breaks
    BY <1>7 DEF Accepts, Misses, Breaks
  <1> QED BY <1>1, <1>2, <1>3, <1>4, <1>5, <1>6, <1>7 DEF CliStep

-----------------------------------------------------------------------------
(* The sockets.                                                            *)

\* A request goes to the end of the worker's socket.
LEMMA MailAppend ==
  ASSUME TypeOK, NEW w \in Workers, NEW t \in Tasks,
         mail' = [mail EXCEPT ![w] = Append(@, [task |-> t, open |-> TRUE])]
  PROVE  /\ Len(mail'[w]) = Len(mail[w]) + 1 /\ Len(mail[w]) \in Nat
         /\ DOMAIN mail'[w] = 1 .. Len(mail[w]) + 1 /\ DOMAIN mail[w] = 1 .. Len(mail[w])
         /\ mail'[w][Len(mail[w]) + 1].task = t /\ mail'[w][Len(mail[w]) + 1].open
         /\ \A i \in DOMAIN mail[w] : mail'[w][i] = mail[w][i]
         /\ \A v \in Workers \ {w} : mail'[v] = mail[v]
  <1> DEFINE S == [task: Tasks, open: BOOLEAN]
             s == mail[w]
             e == [task |-> t, open |-> TRUE]
             r == Append(s, e)
  <1>1. mail \in [Workers -> Seq(S)] /\ e \in S
    BY DEF TypeOK
  <1>2. mail'[w] = r /\ \A v \in Workers \ {w} : mail'[v] = mail[v]
    BY <1>1
  <1>3. e.task = t /\ e.open
    OBVIOUS
  <1> HIDE DEF S, e
  <1>4. s \in Seq(S)
    BY <1>1
  <1>5. /\ r \in Seq(S) /\ Len(r) = Len(s) + 1 /\ r[Len(s) + 1] = e
        /\ \A i \in 1 .. Len(s) : r[i] = s[i]
    BY <1>1, <1>4, AppendProperties
  <1>6. Len(s) \in Nat /\ DOMAIN s = 1 .. Len(s) /\ DOMAIN r = 1 .. Len(s) + 1
    BY <1>4, <1>5
  <1> HIDE DEF r
  <1> QED BY <1>2, <1>3, <1>5, <1>6

\* A request that was never connected is taken back.
LEMMA MailFront ==
  ASSUME TypeOK, NEW w \in Workers, mail[w] # <<>>, mail' = [mail EXCEPT ![w] = Front(@)]
  PROVE  /\ Len(mail'[w]) = Len(mail[w]) - 1 /\ Len(mail[w]) \in Nat \ {0}
         /\ DOMAIN mail[w] = 1 .. Len(mail[w])
         /\ \A i \in DOMAIN mail'[w] : /\ i \in DOMAIN mail[w] /\ i # Len(mail[w])
                                       /\ mail'[w][i] = mail[w][i]
         /\ \A v \in Workers \ {w} : mail'[v] = mail[v]
  <1> DEFINE S == [task: Tasks, open: BOOLEAN]
             s == mail[w]
             r == Front(s)
  <1>1. mail \in [Workers -> Seq(S)]
    BY DEF TypeOK
  <1>2. mail'[w] = r /\ \A v \in Workers \ {w} : mail'[v] = mail[v]
    BY <1>1
  <1> HIDE DEF S
  <1>3. s \in Seq(S)
    BY <1>1
  <1>4. /\ r \in Seq(S) /\ Len(r) = Len(s) - 1
        /\ \A i \in DOMAIN r : i \in DOMAIN s /\ r[i] = s[i]
    BY <1>3, FrontIs
  <1>5. Len(s) \in Nat \ {0} /\ DOMAIN s = 1 .. Len(s)
    BY <1>3, EmptySeq
  <1>6. DOMAIN r = 1 .. Len(s) - 1
    BY <1>4, <1>5
  <1> HIDE DEF r
  <1> QED BY <1>2, <1>4, <1>5, <1>6

\* Closing a socket, taking a request back or off leaves no new request.
LEMMA MailLess ==
  ASSUME TypeOK,
         \/ UNCHANGED mail \/ Crash
         \/ \E w \in Workers : \/ Abandon(w)
                               \/ mail[w] # <<>> /\ mail' = [mail EXCEPT ![w] = Front(@)]
                               \/ mail[w] # <<>> /\ mail' = [mail EXCEPT ![w] = Tail(@)]
  PROVE  \A v \in Workers, t \in Tasks : Posted(v, t)' => Posted(v, t)
  <1> SUFFICES ASSUME NEW v \in Workers, NEW t \in Tasks, NEW i \in DOMAIN mail'[v],
                      mail'[v][i].task = t
               PROVE  \E j \in DOMAIN mail[v] : mail[v][j].task = t
    BY DEF Posted
  <1>1. CASE UNCHANGED mail
    BY <1>1
  <1>0. /\ mail \in [Workers -> Seq([task: Tasks, open: BOOLEAN])]
        /\ mail[v] \in Seq([task: Tasks, open: BOOLEAN])
    BY DEF TypeOK
  <1>2. CASE Crash
    <2>1. /\ mail'[v] \in Seq([task: Tasks, open: BOOLEAN]) /\ Len(mail'[v]) = Len(mail[v])
          /\ \A j \in DOMAIN mail[v] : mail'[v][j].task = mail[v][j].task
      BY <1>2, CrashIs
    <2> QED BY <1>0, <2>1
  <1>3. ASSUME NEW w \in Workers, Abandon(w)
        PROVE  \E j \in DOMAIN mail[v] : mail[v][j].task = t
    <2>1. /\ mail'[v] \in Seq([task: Tasks, open: BOOLEAN]) /\ Len(mail'[v]) = Len(mail[v])
          /\ \A j \in DOMAIN mail[v] : mail'[v][j].task = mail[v][j].task
      BY <1>3, AbandonType
    <2>2. i \in DOMAIN mail[v]
      BY <1>0, <2>1
    <2> QED BY <2>1, <2>2
  <1>4. ASSUME NEW w \in Workers, mail[w] # <<>>, mail' = [mail EXCEPT ![w] = Front(@)]
        PROVE  \E j \in DOMAIN mail[v] : mail[v][j].task = t
    <2>1. CASE v = w
      BY <1>4, <2>1, MailFront
    <2>2. CASE v # w
      BY <1>4, <2>2, MailFront
    <2> QED BY <2>1, <2>2
  <1>5. ASSUME NEW w \in Workers, mail[w] # <<>>, mail' = [mail EXCEPT ![w] = Tail(@)]
        PROVE  \E j \in DOMAIN mail[v] : mail[v][j].task = t
    <2>1. CASE v = w
      BY <1>5, <2>1, MailTail
    <2>2. CASE v # w
      BY <1>5, <2>2, MailTail
    <2> QED BY <2>1, <2>2
  <1> QED BY <1>1, <1>2, <1>3, <1>4, <1>5

\* With its socket closed, a worker has no request that is awaited.
LEMMA AbandonShuts ==
  ASSUME TypeOK, NEW w \in Workers, Abandon(w),
         \A u \in Workers \ {w} : \A i \in DOMAIN mail[u] : ~ mail[u][i].open
  PROVE  \A u \in Workers : \A i \in DOMAIN mail'[u] : ~ mail'[u][i].open
  <1> SUFFICES ASSUME NEW u \in Workers, NEW i \in DOMAIN mail'[u] PROVE ~ mail'[u][i].open
    OBVIOUS
  <1>1. CASE u = w
    <2>1. /\ mail'[w] \in Seq([task: Tasks, open: BOOLEAN]) /\ Len(mail'[w]) = Len(mail[w])
          /\ \A j \in DOMAIN mail[w] : ~ mail'[w][j].open
      BY AbandonType
    <2>2. mail[w] \in Seq([task: Tasks, open: BOOLEAN])
      BY DEF TypeOK
    <2>3. i \in DOMAIN mail[w]
      BY <1>1, <2>1, <2>2
    <2> QED BY <1>1, <2>1, <2>3
  <1>2. CASE u # w
    BY <1>2, AbandonType
  <1> QED BY <1>1, <1>2

\* Nobody but the task in hand awaits an answer, and nobody does once it came.
LEMMA CliMail == TypeOK /\ MailInv /\ CliStep => MailInv'
  <1> SUFFICES ASSUME TypeOK, MailInv, CliStep PROVE MailInv'
    OBVIOUS
  <1>0. mail \in [Workers -> Seq([task: Tasks, open: BOOLEAN])] /\ None \notin Verdict
        /\ None # "accepted"
    BY NoneFacts DEF TypeOK
  <1>1. CASE Takes \/ Asks \/ Books \/ Turns \/ Probes \/ Skips \/ Throws \/ Accepts \/ Passes
    <2>1. mail' = mail
      BY <1>1 DEF Takes, Asks, Books, Turns, Probes, Skips, Throws, Accepts, Passes, ThisRun
    <2>2. ~ At("calling") \/ answer = "accepted"
      BY <1>1 DEF Takes, Asks, Books, Turns, Probes, Skips, Throws, Accepts, Passes, At
    <2>3. \A w \in Workers : \A i \in DOMAIN mail[w] : ~ mail[w][i].open
      BY <1>0, <2>2 DEF MailInv
    <2> QED BY <2>1, <2>3 DEF MailInv
  <1>2. CASE \E t \in Tasks, w \in Workers, v \in Verdict : Settles(t, w, v)
    <2>1. PICK t \in Tasks, w \in Workers, v \in Verdict : Settles(t, w, v)
      BY <1>2
    <2>2. CASE mail' = mail /\ (~ At("calling") \/ v = answer)
      <3>1. \A u \in Workers : \A i \in DOMAIN mail[u] : ~ mail[u][i].open
        BY <1>0, <2>2 DEF MailInv
      <3> QED BY <2>2, <3>1 DEF MailInv
    <2>3. CASE At("calling") /\ <<t, w>> = cli.hand /\ Abandon(w)
      <3>1. w = Worker
        BY <2>3 DEF Worker
      <3>2. \A u \in Workers \ {w} : \A i \in DOMAIN mail[u] : ~ mail[u][i].open
        BY <3>1 DEF MailInv
      <3>3. \A u \in Workers : \A i \in DOMAIN mail'[u] : ~ mail'[u][i].open
        BY <2>3, <3>2, AbandonShuts
      <3> QED BY <3>3 DEF MailInv
    <2> QED BY <2>1, <2>2, <2>3 DEF Settles, At
  <1>3. CASE \E t \in Tasks, w \in Workers : Offers(t, w)
    <2>1. PICK t \in Tasks, w \in Workers : Offers(t, w)
      BY <1>3
    <2>2. /\ At("offer") /\ cli'.pc = "calling" /\ cli'.hand = <<t, w>> /\ answer' = None
          /\ mail' = [mail EXCEPT ![w] = Append(@, [task |-> t, open |-> TRUE])]
      BY <2>1 DEF Offers
    <2>3. \A u \in Workers : \A i \in DOMAIN mail[u] : ~ mail[u][i].open
      BY <2>2 DEF MailInv, At
    <2>4. Task' = t /\ Worker' = w
      BY <2>2 DEF Task, Worker
    <2> SUFFICES ASSUME NEW u \in Workers, NEW i \in DOMAIN mail'[u], mail'[u][i].open
                 PROVE  u = w /\ mail'[u][i].task = t /\ i = Len(mail'[u])
      BY <2>2, <2>4 DEF MailInv, At
    <2>5. CASE u = w
      <3>1. i \in DOMAIN mail[w] \/ i = Len(mail[w]) + 1
        BY <2>2, <2>5, MailAppend
      <3>2. i \notin DOMAIN mail[w]
        BY <2>2, <2>3, <2>5, MailAppend
      <3> QED BY <2>2, <2>5, <3>1, <3>2, MailAppend
    <2>6. CASE u # w
      BY <2>2, <2>3, <2>6, MailAppend
    <2> QED BY <2>5, <2>6
  <1>4. CASE Misses
    <2>1. /\ Worker \in Workers /\ mail[Worker] # <<>>
          /\ mail' = [mail EXCEPT ![Worker] = Front(@)]
      BY <1>4 DEF Misses, At, Worker, TypeOK
    <2>2. \A u \in Workers : \A i \in DOMAIN mail'[u] : ~ mail'[u][i].open
      <3> SUFFICES ASSUME NEW u \in Workers, NEW i \in DOMAIN mail'[u] PROVE ~ mail'[u][i].open
        OBVIOUS
      <3>1. CASE u = Worker
        <4>1. /\ i \in DOMAIN mail[u] /\ i # Len(mail[u])
              /\ mail'[u][i] = mail[u][i]
          BY <2>1, <3>1, MailFront
        <4> QED BY <4>1 DEF MailInv
      <3>2. CASE u # Worker
        BY <2>1, <3>2, MailFront DEF MailInv
      <3> QED BY <3>1, <3>2
    <2> QED BY <2>2 DEF MailInv
  <1>5. CASE Breaks
    <2>1. Worker \in Workers /\ Abandon(Worker)
      BY <1>5 DEF Breaks, At, Worker, TypeOK
    <2>2. \A u \in Workers \ {Worker} : \A i \in DOMAIN mail[u] : ~ mail[u][i].open
      BY DEF MailInv
    <2>3. \A u \in Workers : \A i \in DOMAIN mail'[u] : ~ mail'[u][i].open
      BY <2>1, <2>2, AbandonShuts
    <2> QED BY <2>3 DEF MailInv
  <1> QED BY <1>1, <1>2, <1>3, <1>4, <1>5 DEF CliStep

\* A crash closes every socket, and a worker answers the request it takes off.
LEMMA RestMail ==
  ASSUME TypeOK, MailInv, Start \/ Crash \/ Rerun \/ \E w \in Workers : WorkerStep(w)
  PROVE  MailInv'
  <1>0. mail \in [Workers -> Seq([task: Tasks, open: BOOLEAN])] /\ None \notin Verdict
        /\ None # "accepted"
    BY NoneFacts DEF TypeOK
  <1>1. CASE Start \/ Rerun
    <2>1. mail' = mail /\ ~ At("calling")
      BY <1>1 DEF Start, Rerun, ThisRun, At
    <2> QED BY <2>1 DEF MailInv
  <1>2. CASE Crash
    <2>1. \A u \in Workers : \A i \in DOMAIN mail'[u] : ~ mail'[u][i].open
      <3> SUFFICES ASSUME NEW u \in Workers, NEW i \in DOMAIN mail'[u] PROVE ~ mail'[u][i].open
        OBVIOUS
      <3>1. /\ mail'[u] \in Seq([task: Tasks, open: BOOLEAN]) /\ Len(mail'[u]) = Len(mail[u])
            /\ \A j \in DOMAIN mail[u] : ~ mail'[u][j].open
        BY <1>2, CrashIs
      <3>2. mail[u] \in Seq([task: Tasks, open: BOOLEAN])
        BY <1>0
      <3>3. i \in DOMAIN mail[u]
        BY <3>1, <3>2
      <3> QED BY <3>1, <3>3
    <2> QED BY <2>1 DEF MailInv
  <1>3. ASSUME NEW w \in Workers, Handle(w)
        PROVE  MailInv'
    <2>1. cli' = cli /\ mail[w] # <<>> /\ mail' = [mail EXCEPT ![w] = Tail(@)]
      BY <1>3 DEF Handle
    <2>2. PICK a \in Verdict \cup {"accepted"} :
             answer' = IF Head(mail[w]).open THEN a ELSE answer
      BY <1>3, HandleIs
    <2> SUFFICES ASSUME NEW u \in Workers, NEW i \in DOMAIN mail'[u], mail'[u][i].open
                 PROVE  /\ At("calling") /\ answer' = None
                        /\ u = Worker /\ mail'[u][i].task = Task /\ i = Len(mail'[u])
      BY <2>1 DEF MailInv, At, Worker, Task
    <2>3. CASE u = w
      <3>1. /\ i + 1 \in DOMAIN mail[w] /\ mail'[w][i] = mail[w][i + 1]
            /\ Len(mail'[w]) = Len(mail[w]) - 1 /\ Head(mail[w]) = mail[w][1]
            /\ 1 \in DOMAIN mail[w]
        BY <2>1, <2>3, MailTail
      <3>2. /\ At("calling") /\ answer = None
            /\ w = Worker /\ mail[w][i + 1].task = Task /\ i + 1 = Len(mail[w])
        BY <2>3, <3>1 DEF MailInv
      <3>3. i + 1 # 1
        <4>1. mail'[w] \in Seq([task: Tasks, open: BOOLEAN])
          BY <2>1, MailTail
        <4>2. i \in 1 .. Len(mail'[w])
          BY <2>3, <4>1
        <4> QED BY <4>2
      <3>4. ~ Head(mail[w]).open
        BY <3>1, <3>2, <3>3 DEF MailInv
      <3>5. i = Len(mail'[w])
        <4>1. Len(mail[w]) \in Nat
          BY <1>0
        <4>2. i \in Nat
          BY <2>3, <1>0, <2>1, MailTail
        <4> QED BY <3>1, <3>2, <4>1, <4>2
      <3> QED BY <2>2, <2>3, <3>1, <3>2, <3>4, <3>5
    <2>4. CASE u # w
      <3>1. mail'[u] = mail[u]
        BY <2>1, <2>4, MailTail
      <3>2. /\ At("calling") /\ answer = None
            /\ u = Worker /\ mail[u][i].task = Task /\ i = Len(mail[u])
        BY <3>1 DEF MailInv
      <3>3. ~ Head(mail[w]).open
        <4>1. Head(mail[w]) = mail[w][1] /\ 1 \in DOMAIN mail[w]
          BY <2>1, MailTail
        <4> QED BY <2>4, <3>2, <4>1 DEF MailInv
      <3> QED BY <2>2, <3>1, <3>2, <3>3
    <2> QED BY <2>3, <2>4
  <1>4. ASSUME NEW w \in Workers, Ends(w) \/ ChildExits(w) \/ Dies(w) \/ Rotates(w)
        PROVE  MailInv'
    <2>1. UNCHANGED <<cli, mail, answer>>
      BY <1>4 DEF Ends, ChildExits, Dies, Rotates
    <2> QED BY <2>1 DEF MailInv, At, Worker, Task
  <1> QED BY <1>1, <1>2, <1>3, <1>4 DEF WorkerStep

-----------------------------------------------------------------------------
(* The records behind the graph.                                           *)

\* A verdict that satisfies is one a worker recorded, and it is not taken back:
\* a worker writes the record of the task it ends, which had none.
LEMMA WorkerRecords ==
  ASSUME TypeOK, RecordInv, MailInv, \E w \in Workers : WorkerStep(w)
  PROVE  RecordInv'
  <1>0. /\ worker \in [Workers -> WorkerState] /\ None \notin Tasks
        /\ None \notin Verdict /\ ~ Satisfied(None)
    BY NoneFacts DEF TypeOK, Satisfied, Verdict
  <1>c. UNCHANGED <<list, cli, graph>>
    BY WorkerType
  <1>1. PICK w \in Workers : WorkerStep(w)
    OBVIOUS
  <1>2. /\ \A v \in Workers \ {w} : worker'[v] = worker[v]
        /\ worker'[w].live # None => worker'[w].record[worker'[w].live] = None
        /\ \A d \in Tasks : worker[w].record[d] # None => worker'[w].record[d] = worker[w].record[d]
    <2>0. worker[w].live # None => worker[w].record[worker[w].live] = None
      BY DEF RecordInv
    <2>r. worker[w].record \in [Tasks -> Verdict \cup {None}]
      BY <1>0 DEF WorkerState
    <2>1. CASE Handle(w)
      <3> DEFINE u == Head(mail[w]).task
      <3>1. /\ \A v \in Workers \ {w} : worker'[v] = worker[v]
            /\ u \in Tasks
            /\ \/ worker' = worker
               \/ worker'[w].live = u /\ worker'[w].record = worker[w].record
                  /\ worker[w].record[u] = None
               \/ worker'[w].live = None /\ worker[w].record[u] = None
                  /\ worker'[w].record = [worker[w].record EXCEPT ![u] = "failed"]
        BY <2>1, HandleIs
      <3> HIDE DEF u
      <3> QED BY <2>0, <2>r, <3>1
    <2>2. CASE Ends(w)
      <3> DEFINE u == worker[w].live
      <3>1. /\ \A v \in Workers \ {w} : worker'[v] = worker[v]
            /\ worker'[w].live = None /\ u \in Tasks /\ u # None
            /\ worker[w].record[u] = None
        BY <1>0, <2>0, <2>2, EndsIs
      <3>2. PICK v \in {"success", "failed"} :
               worker'[w].record = [worker[w].record EXCEPT ![u] = v]
        BY <2>2, EndsIs
      <3> HIDE DEF u
      <3> QED BY <2>r, <3>1, <3>2
    <2>3. CASE Dies(w)
      BY <2>3, DiesIs
    <2>4. CASE ChildExits(w) \/ Rotates(w)
      BY <2>0, <2>4, FadesIs
    <2> QED BY <1>1, <2>1, <2>2, <2>3, <2>4 DEF WorkerStep
  <1>3. \A d \in Tasks : Recorded(d) => Recorded(d)'
    <2> SUFFICES ASSUME NEW d \in Tasks, NEW v \in Workers,
                        worker[v].record[d] \in {"success", "partial"}
                 PROVE  worker'[v].record[d] \in {"success", "partial"}
      BY DEF Recorded
    <2>1. worker[v].record[d] # None
      BY <1>0 DEF Satisfied
    <2> QED BY <1>2, <2>1
  <1>4. \A t \in Tasks : Placed(t)' # {} => Placed(t) # {}
    <2>1. CASE Handle(w)
      <3> DEFINE u == Head(mail[w]).task
      <3>1. /\ u \in Tasks /\ (ranOn' = ranOn \/ ranOn' = [ranOn EXCEPT ![u] = @ \cup {w}])
        BY <2>1, HandleIs
      <3>2. Posted(w, u)
        BY <2>1, MailTail DEF Handle, Posted
      <3>3. \A v \in Workers, t \in Tasks : Posted(v, t)' => Posted(v, t)
        BY <2>1, MailLess DEF Handle
      <3> HIDE DEF u
      <3> SUFFICES ASSUME NEW t \in Tasks, Placed(t)' # {} PROVE Placed(t) # {}
        OBVIOUS
      <3>4. ranOn \in [Tasks -> SUBSET Workers]
        BY DEF TypeOK
      <3>5. CASE ranOn'[t] # {}
        <4>1. ranOn[t] # {} \/ t = u
          BY <3>1, <3>4, <3>5
        <4> QED BY <3>2, <4>1 DEF Placed
      <3>6. CASE \E v \in Workers : Posted(v, t)'
        BY <3>3, <3>6 DEF Placed
      <3> QED BY <3>5, <3>6 DEF Placed
    <2>2. CASE Ends(w) \/ Dies(w) \/ ChildExits(w) \/ Rotates(w)
      <3>1. UNCHANGED <<mail, ranOn>>
        BY <2>2 DEF Ends, Dies, ChildExits, Rotates
      <3> QED BY <3>1 DEF Placed, Posted
    <2> QED BY <1>1, <2>1, <2>2 DEF WorkerStep
  <1>5. At("calling") /\ Satisfied(answer') => Recorded(Task)'
    <2> SUFFICES ASSUME At("calling"), Satisfied(answer') PROVE Recorded(Task)'
      OBVIOUS
    <2>1. Task \in Tasks /\ Worker \in Workers
      BY DEF At, Task, Worker, TypeOK
    <2>2. CASE answer' = answer
      <3>1. Recorded(Task)
        BY <2>2 DEF RecordInv
      <3> QED BY <1>3, <1>c, <2>1, <3>1 DEF Recorded, Task
    <2>3. CASE answer' # answer
      <3>1. Handle(w)
        BY <1>1, <2>3 DEF WorkerStep, Ends, Dies, ChildExits, Rotates
      <3>2. /\ Head(mail[w]).open /\ Head(mail[w]) = mail[w][1] /\ 1 \in DOMAIN mail[w]
        BY <2>3, <3>1, HandleIs, MailTail DEF Handle
      <3>3. Head(mail[w]).task = Task
        BY <3>2 DEF MailInv
      <3>4. ~ Satisfied("accepted") /\ ~ Satisfied("failed")
        BY DEF Satisfied
      <3>5. worker[w].record[Task] = answer'
        BY <2>3, <3>1, <3>2, <3>3, <3>4, HandleIs DEF Knows
      <3>6. Recorded(Task)
        BY <3>5 DEF Recorded, Satisfied
      <3> QED BY <1>3, <1>c, <2>1, <3>6 DEF Recorded, Task
    <2> QED BY <2>2, <2>3
  <1>6. \A v \in Workers : worker'[v].live # None => worker'[v].record[worker'[v].live] = None
    BY <1>2 DEF RecordInv
  <1>7. \A t \in Tasks : graph'[t].state = "done" /\ Satisfied(graph'[t].verdict) => Recorded(t)'
    BY <1>3, <1>c DEF RecordInv
  <1>8. \A t \in Tasks : Placed(t)' # {} => \A d \in ToSet(list'.deps[t]) : Recorded(d)'
    <2>1. \A t \in Tasks : ToSet(list.deps[t]) \subseteq Tasks
      BY ListFacts
    <2> QED BY <1>3, <1>4, <1>c, <2>1 DEF RecordInv
  <1> QED BY <1>5, <1>6, <1>7, <1>8, <1>c DEF RecordInv, At

\* Where the steps of the CLI go.
LEMMA CliPlaces ==
  ASSUME TypeOK
  PROVE  /\ Books => cli'.pc \in {"settle", "offer"}
         /\ Takes \/ Asks => cli'.pc \in {"settle", "health", "silence"}
  BY DEF TypeOK, CliState, Books, Takes, Asks

\* A task is offered behind recorded verdicts, and settled with one.
LEMMA CliRecords == TypeOK /\ CoreInv /\ RecordInv /\ CliStep => RecordInv'
  <1> SUFFICES ASSUME TypeOK, CoreInv, RecordInv, CliStep PROVE RecordInv'
    OBVIOUS
  <1>0. /\ ~ Satisfied(None) /\ ~ Satisfied("unknown") /\ ~ Satisfied("accepted")
        /\ None \notin Tasks
    BY NoneFacts DEF Satisfied, Verdict
  <1>1. UNCHANGED <<worker, ranOn, list>>
    BY DEF CliStep, Takes, Asks, Settles, Books, Turns, Probes, Skips, Throws, Offers, Accepts,
           Misses, Breaks, Passes, ThisRun
  <1>2. \A d : Recorded(d)' <=> Recorded(d)
    BY <1>1 DEF Recorded
  <1>3. \A w \in Workers :
           worker'[w].live # None => worker'[w].record[worker'[w].live] = None
    BY <1>1 DEF RecordInv
  <1>4. \A t \in Tasks : ToSet(list.deps[t]) \subseteq Tasks
    BY ListFacts
  <1> SUFFICES /\ \A t \in Tasks :
                     graph'[t].state = "done" /\ Satisfied(graph'[t].verdict) => Recorded(t)
               /\ cli'.pc = "calling" /\ Satisfied(answer') => Recorded(Task')
               /\ \A t \in Tasks : Placed(t)' # {} =>
                     Placed(t) # {} \/ \A d \in ToSet(list.deps[t]) : Recorded(d)
    <2>1. \A t \in Tasks : Placed(t)' # {} => \A d \in ToSet(list'.deps[t]) : Recorded(d)'
      BY <1>1, <1>2 DEF RecordInv
    <2>2. Recorded(Task)' <=> Recorded(Task')
      BY <1>1 DEF Recorded
    <2> QED BY <1>2, <1>3, <2>1, <2>2 DEF RecordInv, At
  <1>5. CASE Takes \/ Asks \/ Books \/ Turns \/ Probes \/ Skips \/ Throws \/ Passes \/ Misses
             \/ Breaks
    <2>1. graph' = graph /\ cli'.pc # "calling"
      BY <1>5, CliPlaces DEF Takes, Asks, Books, Turns, Probes, Skips, Throws, Passes, Misses,
                             Breaks
    <2>2. \A v \in Workers, t \in Tasks : Posted(v, t)' => Posted(v, t)
      <3>1. CASE mail' = mail
        BY <3>1 DEF Posted
      <3>2. CASE Misses \/ Breaks
        <4>1. Worker \in Workers
          BY <3>2 DEF Misses, Breaks, At, Worker, TypeOK
        <4> QED BY <3>2, <4>1, MailLess DEF Misses, Breaks
      <3> QED BY <1>5, <3>1, <3>2
              DEF Takes, Asks, Books, Turns, Probes, Skips, Throws, Passes, ThisRun
    <2>3. \A t \in Tasks : Placed(t)' # {} => Placed(t) # {}
      BY <1>1, <2>2 DEF Placed
    <2> QED BY <2>1, <2>3 DEF RecordInv
  <1>6. CASE \E t \in Tasks, w \in Workers, v \in Verdict : Settles(t, w, v)
    <2>1. PICK t \in Tasks, w \in Workers, v \in Verdict : Settles(t, w, v)
      BY <1>6
    <2>2. Satisfied(v) => Recorded(t)
      <3>1. CASE v = worker[w].record[t]
        BY <3>1 DEF Recorded, Satisfied
      <3>2. CASE At("calling") /\ <<t, w>> = cli.hand /\ v = answer
        BY <3>2 DEF RecordInv, Task
      <3>3. CASE v = "unknown"
        BY <1>0, <3>3
      <3> QED BY <2>1, <3>1, <3>2, <3>3 DEF Settles
    <2>3. /\ graph'[t].verdict = v
          /\ \A u \in Tasks \ {t} : graph'[u].state = "done" => graph'[u] = graph[u]
      <3>1. list' = list /\ graph' = MarkSettled(list, graph, t, v, w)
            /\ graph[t].state \in {"ready", "dispatched"}
        BY <2>1, SettlesCore DEF Settles
      <3> QED BY <3>1, SettleGraph DEF CoreInv
    <2>4. \A u \in Tasks : graph'[u].state = "done" /\ Satisfied(graph'[u].verdict) => Recorded(u)
      BY <2>2, <2>3 DEF RecordInv
    <2>5. \A x \in Workers, u \in Tasks : Posted(x, u)' => Posted(x, u)
      BY <2>1, MailLess DEF Settles
    <2>6. \A u \in Tasks : Placed(u)' # {} => Placed(u) # {}
      BY <1>1, <2>5 DEF Placed
    <2>7. cli'.pc = "book"
      BY <2>1 DEF Settles
    <2> QED BY <2>4, <2>6, <2>7
  <1>7. CASE \E t \in Tasks, w \in Workers : Offers(t, w)
    <2>1. PICK t \in Tasks, w \in Workers : Offers(t, w)
      BY <1>7
    <2>2. /\ graph' = graph /\ answer' = None /\ At("offer") /\ t \in cli.offers
          /\ mail' = [mail EXCEPT ![w] = Append(@, [task |-> t, open |-> TRUE])]
      BY <2>1 DEF Offers
    <2>3. graph[t].state = "ready"
      BY <2>2 DEF CoreInv, HandInv, Offering, At
    <2>4. \A d \in ToSet(list.deps[t]) : Recorded(d)
      BY <1>4, <2>3 DEF CoreInv, GraphInv, DepsDone, RecordInv
    <2>5. \A v \in Workers, u \in Tasks \ {t} : Posted(v, u)' => Posted(v, u)
      <3> SUFFICES ASSUME NEW v \in Workers, NEW u \in Tasks \ {t}, NEW i \in DOMAIN mail'[v],
                          mail'[v][i].task = u
                   PROVE  \E j \in DOMAIN mail[v] : mail[v][j].task = u
        BY DEF Posted
      <3>1. CASE v = w
        <4>1. i \in DOMAIN mail[w] \/ i = Len(mail[w]) + 1
          BY <2>2, <3>1, MailAppend
        <4> QED BY <2>2, <3>1, <4>1, MailAppend
      <3>2. CASE v # w
        BY <2>2, <3>2, MailAppend
      <3> QED BY <3>1, <3>2
    <2>6. \A u \in Tasks \ {t} : Placed(u)' # {} => Placed(u) # {}
      BY <1>1, <2>5 DEF Placed
    <2> QED BY <1>0, <2>2, <2>4, <2>6 DEF RecordInv
  <1>8. CASE Accepts
    <2>1. /\ At("calling") /\ cli'.pc = "offer" /\ mail' = mail
          /\ graph' = MarkDispatched(graph, Task, Worker)
      BY <1>8 DEF Accepts, ThisRun
    <2>2. Task \in Tasks /\ Worker \in Workers
      BY <2>1 DEF TypeOK, At, Task, Worker
    <2>3. /\ graph'[Task].state = "dispatched"
          /\ \A u \in Tasks \ {Task} : graph'[u] = graph[u]
      BY <2>1, <2>2, MarkDispatchedIs
    <2>4. \A u \in Tasks : Placed(u)' = Placed(u)
      BY <1>1, <2>1 DEF Placed, Posted
    <2>5. \A u \in Tasks : graph'[u].state = "done" /\ Satisfied(graph'[u].verdict) => Recorded(u)
      BY <2>3 DEF RecordInv
    <2> QED BY <2>1, <2>4, <2>5
  <1> QED BY <1>5, <1>6, <1>7, <1>8 DEF CliStep

\* A start forgets the verdicts of the graph, and the records stay.
LEMMA RecordsAfresh ==
  ASSUME TypeOK, RecordInv, Start \/ Crash \/ Rerun
  PROVE  RecordInv'
  <1>1. UNCHANGED <<worker, ranOn, list>> /\ cli'.pc # "calling"
    <2>1. CASE Start
      BY <2>1, StartIs DEF ThisRun, TypeOK, CliState
    <2>2. CASE Crash
      BY <2>2, CrashIs
    <2>3. CASE Rerun
      BY <2>3, RerunIs
    <2> QED BY <2>1, <2>2, <2>3
  <1>2. \A d : Recorded(d)' <=> Recorded(d)
    BY <1>1 DEF Recorded
  <1>3. \A t \in Tasks : Placed(t)' # {} => Placed(t) # {}
    <2>1. \A v \in Workers, t \in Tasks : Posted(v, t)' => Posted(v, t)
      <3>1. CASE Start \/ Rerun
        BY <3>1, MailLess DEF Start, Rerun, ThisRun
      <3>2. CASE Crash
        BY <3>2, MailLess
      <3> QED BY <3>1, <3>2
    <2> QED BY <1>1, <2>1 DEF Placed
  <1>4. \A t \in Tasks : graph'[t].state = "done" => graph' = graph
    <2>1. CASE Start
      <3>1. graph' = NewGraph(list)
        BY <2>1, StartIs
      <3>2. \A t \in Tasks : graph'[t].state \in {"ready", "waiting"}
        BY <3>1 DEF NewGraph
      <3> QED BY <3>2
    <2>2. CASE Crash \/ Rerun
      BY <2>2, CrashIs, RerunIs
    <2> QED BY <2>1, <2>2
  <1>5. \A t \in Tasks : Placed(t)' # {} => \A d \in ToSet(list'.deps[t]) : Recorded(d)'
    BY <1>1, <1>2, <1>3 DEF RecordInv
  <1> QED BY <1>1, <1>2, <1>4, <1>5 DEF RecordInv, At

-----------------------------------------------------------------------------
(* Where a task is started.                                                *)

\* In the first life of the CLI a task that is offered was never sent before, and
\* one that was sent is offered to nobody else.
LEMMA CliOnce == TypeOK /\ CoreInv /\ OnceInv /\ CliStep => OnceInv'
  <1> SUFFICES ASSUME TypeOK, CoreInv, OnceInv, CliStep, cli'.life = 1 PROVE OnceInv'
    BY DEF OnceInv
  <1>0. /\ cli.life = 1 /\ cli'.life = cli.life /\ UNCHANGED <<ranOn, list>>
        /\ cli.pc \notin {"down", "escaped"}
    BY DEF CliStep, Takes, Asks, Settles, Books, Turns, Probes, Skips, Throws, Offers, Accepts,
           Misses, Breaks, Passes, ThisRun, SameSight, At
  <1>1. cli'.pc # "start"
    BY CliStepLeaves
  <1>2. /\ \A t \in Tasks : \A v, w \in Placed(t) : v = w
        /\ \A t \in Tasks : graph[t].state \notin {"dispatched", "done"}
              /\ ~ (At("calling") /\ t = Task) => Placed(t) = {}
    BY <1>0 DEF OnceInv
  <1>3. CASE Takes \/ Asks \/ Books \/ Turns \/ Probes \/ Skips \/ Throws \/ Passes
    <2>1. graph' = graph /\ mail' = mail /\ cli'.pc # "calling" /\ ~ At("calling")
      BY <1>3, CliPlaces
         DEF Takes, Asks, Books, Turns, Probes, Skips, Throws, Passes, ThisRun, At
    <2>2. \A t \in Tasks : Placed(t)' = Placed(t)
      BY <1>0, <2>1 DEF Placed, Posted
    <2> QED BY <1>1, <1>2, <2>1, <2>2 DEF OnceInv, At
  <1>4. CASE \E t \in Tasks, w \in Workers, v \in Verdict : Settles(t, w, v)
    <2>1. PICK t \in Tasks, w \in Workers, v \in Verdict : Settles(t, w, v)
      BY <1>4
    <2>2. /\ graph'[t].state = "done"
          /\ \A u \in Tasks \ {t} :
                graph[u].state \in {"done", "dispatched"} => graph'[u] = graph[u]
      <3>1. list' = list /\ graph' = MarkSettled(list, graph, t, v, w)
            /\ graph[t].state \in {"ready", "dispatched"}
        BY <2>1, SettlesCore DEF Settles
      <3> QED BY <3>1, SettleGraph DEF CoreInv
    <2>3. \A x \in Workers, u \in Tasks : Posted(x, u)' => Posted(x, u)
      BY <2>1, MailLess DEF Settles
    <2>4. \A u \in Tasks : Placed(u)' \subseteq Placed(u)
      BY <1>0, <2>3 DEF Placed
    <2>5. cli'.pc = "book" /\ (At("calling") => t = Task)
      BY <2>1 DEF Settles, Task, At
    <2>6. \A u \in Tasks : graph'[u].state \notin {"dispatched", "done"} => Placed(u)' = {}
      BY <1>2, <2>2, <2>4, <2>5
    <2> QED BY <1>1, <1>2, <2>4, <2>5, <2>6 DEF OnceInv, At
  <1>5. CASE \E t \in Tasks, w \in Workers : Offers(t, w)
    <2>1. PICK t \in Tasks, w \in Workers : Offers(t, w)
      BY <1>5
    <2>2. /\ graph' = graph /\ At("offer") /\ t \in cli.offers /\ cli'.pc = "calling"
          /\ mail' = [mail EXCEPT ![w] = Append(@, [task |-> t, open |-> TRUE])]
          /\ cli'.hand = <<t, w>>
      BY <2>1 DEF Offers
    <2>3. graph[t].state = "ready"
      BY <2>2 DEF CoreInv, HandInv, Offering, At
    <2>4. Placed(t) = {}
      BY <1>2, <2>2, <2>3 DEF At
    <2>5. \A v \in Workers : \A i \in DOMAIN mail[v] : mail[v][i].task # t
      BY <2>4 DEF Placed, Posted
    <2>6. /\ ranOn[t] = {}
          /\ \A v \in Workers : \A i \in DOMAIN mail'[v] :
                mail'[v][i].task = t => v = w /\ i = Len(mail'[v])
      <3>1. ranOn[t] = {}
        BY <2>4 DEF Placed
      <3> SUFFICES ASSUME NEW v \in Workers, NEW i \in DOMAIN mail'[v], mail'[v][i].task = t
                   PROVE  v = w /\ i = Len(mail'[v])
        BY <3>1
      <3>2. CASE v = w
        <4>1. i \in DOMAIN mail[w] \/ i = Len(mail[w]) + 1
          BY <2>2, <3>2, MailAppend
        <4>2. i \notin DOMAIN mail[w]
          BY <2>2, <2>5, <3>2, MailAppend
        <4> QED BY <2>2, <3>2, <4>1, <4>2, MailAppend
      <3>3. CASE v # w
        BY <2>2, <2>5, <3>3, MailAppend
      <3> QED BY <3>2, <3>3
    <2>7. \A v \in Workers, u \in Tasks \ {t} : Posted(v, u)' => Posted(v, u)
      <3> SUFFICES ASSUME NEW v \in Workers, NEW u \in Tasks \ {t}, NEW i \in DOMAIN mail'[v],
                          mail'[v][i].task = u
                   PROVE  \E j \in DOMAIN mail[v] : mail[v][j].task = u
        BY DEF Posted
      <3>1. CASE v = w
        <4>1. i \in DOMAIN mail[w] \/ i = Len(mail[w]) + 1
          BY <2>2, <3>1, MailAppend
        <4> QED BY <2>2, <3>1, <4>1, MailAppend
      <3>2. CASE v # w
        BY <2>2, <3>2, MailAppend
      <3> QED BY <3>1, <3>2
    <2>8. \A u \in Tasks \ {t} : Placed(u)' \subseteq Placed(u)
      BY <1>0, <2>7 DEF Placed
    <2>9. Placed(t)' \subseteq {w}
      BY <1>0, <2>6 DEF Placed, Posted
    <2>10. Task' = t /\ Worker' = w
      BY <2>2 DEF Task, Worker
    <2>11. \A u \in Tasks : \A x, y \in Placed(u)' : x = y
      BY <1>2, <2>8, <2>9
    <2>12. \A u \in Tasks : graph'[u].state \notin {"dispatched", "done"}
              /\ ~ (At("calling")' /\ u = Task') => Placed(u)' = {}
      BY <1>2, <2>2, <2>8, <2>10 DEF At
    <2>13. /\ ranOn'[Task'] = {}
           /\ \A v \in Workers : \A i \in DOMAIN mail'[v] :
                 mail'[v][i].task = Task' => v = Worker' /\ i = Len(mail'[v])
      BY <1>0, <2>6, <2>10
    <2> QED BY <1>1, <2>11, <2>12, <2>13 DEF OnceInv, At
  <1>6. CASE Accepts
    <2>1. /\ At("calling") /\ cli'.pc = "offer" /\ mail' = mail
          /\ graph' = MarkDispatched(graph, Task, Worker)
      BY <1>6 DEF Accepts, ThisRun
    <2>2. Task \in Tasks /\ Worker \in Workers
      BY <2>1 DEF TypeOK, At, Task, Worker
    <2>3. /\ graph'[Task].state = "dispatched"
          /\ \A u \in Tasks \ {Task} : graph'[u] = graph[u]
      BY <2>1, <2>2, MarkDispatchedIs
    <2>4. \A u \in Tasks : Placed(u)' = Placed(u)
      BY <1>0, <2>1 DEF Placed, Posted
    <2> QED BY <1>1, <1>2, <2>1, <2>3, <2>4 DEF OnceInv, At
  <1>7. CASE Misses
    <2>1. /\ At("calling") /\ cli'.pc = "offer" /\ graph' = graph /\ Last(mail[Worker]).open
          /\ mail[Worker] # <<>> /\ mail' = [mail EXCEPT ![Worker] = Front(@)]
      BY <1>7 DEF Misses
    <2>2. Task \in Tasks /\ Worker \in Workers
      BY <2>1 DEF TypeOK, At, Task, Worker
    <2>3. \A v \in Workers, u \in Tasks : Posted(v, u)' => Posted(v, u)
      BY <2>1, <2>2, MailLess
    <2>4. \A u \in Tasks : Placed(u)' \subseteq Placed(u)
      BY <1>0, <2>3 DEF Placed
    <2>5. /\ ranOn[Task] = {}
          /\ \A w \in Workers : \A i \in DOMAIN mail[w] :
                mail[w][i].task = Task => w = Worker /\ i = Len(mail[w])
      BY <1>0, <2>1 DEF OnceInv
    <2>6. \A v \in Workers : ~ Posted(v, Task)'
      <3> SUFFICES ASSUME NEW v \in Workers, NEW i \in DOMAIN mail'[v], mail'[v][i].task = Task
                   PROVE  FALSE
        <4>1. Task' = Task
          BY <1>7 DEF Misses, SameHand, Task
        <4> QED BY <4>1 DEF Posted
      <3>1. CASE v = Worker
        <4>1. i \in DOMAIN mail[v] /\ i # Len(mail[v]) /\ mail[v][i].task = Task
          BY <2>1, <2>2, <3>1, MailFront
        <4> QED BY <2>5, <4>1
      <3>2. CASE v # Worker
        <4>1. i \in DOMAIN mail[v] /\ mail[v][i].task = Task
          BY <2>1, <2>2, <3>2, MailFront
        <4> QED BY <2>5, <3>2, <4>1
      <3> QED BY <3>1, <3>2
    <2>7. Placed(Task)' = {} /\ Task' = Task
      BY <1>0, <1>7, <2>5, <2>6 DEF Placed, Misses, SameHand, Task
    <2>8. \A u \in Tasks : graph'[u].state \notin {"dispatched", "done"} => Placed(u)' = {}
      <3> SUFFICES ASSUME NEW u \in Tasks, graph[u].state \notin {"dispatched", "done"}
                   PROVE  Placed(u)' = {}
        BY <2>1
      <3>1. CASE u = Task
        BY <2>7, <3>1 DEF Placed, Posted
      <3>2. CASE u # Task
        BY <1>2, <2>4, <3>2
      <3> QED BY <3>1, <3>2
    <2> QED BY <1>1, <1>2, <2>1, <2>4, <2>8 DEF OnceInv, At
  <1>8. CASE Breaks
    <2>1. At("calling") /\ cli'.pc = "escaped" /\ Abandon(Worker) /\ Worker \in Workers
      BY <1>8 DEF Breaks, At, Worker, TypeOK
    <2>2. \A v \in Workers, u \in Tasks : Posted(v, u)' => Posted(v, u)
      BY <2>1, MailLess
    <2>3. \A u \in Tasks : Placed(u)' \subseteq Placed(u)
      BY <1>0, <2>2 DEF Placed
    <2> QED BY <1>1, <1>2, <2>1, <2>3 DEF OnceInv, At
  <1> QED BY <1>3, <1>4, <1>5, <1>6, <1>7, <1>8 DEF CliStep

\* A list that is run, a crash and a re-run leave the tasks where they were; the
\* first run of a list finds none anywhere.
LEMMA OnceAfresh ==
  ASSUME TypeOK, OnceInv, Start \/ Crash \/ Rerun
  PROVE  OnceInv'
  <1> SUFFICES ASSUME cli'.life = 1 PROVE OnceInv'
    BY DEF OnceInv
  <1>1. CASE Start
    <2>1. /\ cli.life = 1 /\ At("start") /\ UNCHANGED <<mail, ranOn>>
          /\ cli'.pc = "settle"
      BY <1>1, StartIs DEF Start, ThisRun, TypeOK, CliState
    <2>2. \A t \in Tasks : Placed(t)' = {}
      BY <2>1 DEF OnceInv, Placed, Posted
    <2> QED BY <2>1, <2>2 DEF OnceInv, At
  <1>2. CASE Crash
    <2>1. /\ cli.life = 1 /\ cli'.pc = "down" /\ ranOn' = ranOn
      BY <1>2, CrashIs
    <2>2. \A v \in Workers, t \in Tasks : Posted(v, t)' => Posted(v, t)
      BY <1>2, MailLess
    <2>3. \A t \in Tasks : Placed(t)' \subseteq Placed(t)
      BY <2>1, <2>2 DEF Placed
    <2>4. \A t \in Tasks : \A v, w \in Placed(t)' : v = w
      BY <2>1, <2>3 DEF OnceInv
    <2> QED BY <2>1, <2>4 DEF OnceInv, At
  <1>3. CASE Rerun
    <2>1. cli'.life = cli.life + 1
      BY <1>3, RerunIs
    <2>2. cli.life \in Nat \ {0}
      BY DEF TypeOK, CliState
    <2> QED BY <2>1, <2>2
  <1> QED BY <1>1, <1>2, <1>3

\* A worker starts a task where it was sent.
LEMMA WorkerOnce ==
  ASSUME TypeOK, OnceInv, \E w \in Workers : WorkerStep(w)
  PROVE  OnceInv'
  <1> SUFFICES ASSUME cli.life = 1 PROVE OnceInv'
    BY WorkerType DEF OnceInv
  <1>0. UNCHANGED <<list, cli, graph>>
    BY WorkerType
  <1>1. CASE \E w \in Workers : Ends(w) \/ Dies(w) \/ ChildExits(w) \/ Rotates(w)
    <2>1. UNCHANGED <<mail, ranOn>>
      BY <1>1 DEF Ends, Dies, ChildExits, Rotates
    <2> QED BY <1>0, <2>1 DEF OnceInv, Placed, Posted, At, Task, Worker
  <1>2. ASSUME NEW w \in Workers, Handle(w)
        PROVE  OnceInv'
    <2> DEFINE u == Head(mail[w]).task
    <2>1. /\ u \in Tasks /\ (ranOn' = ranOn \/ ranOn' = [ranOn EXCEPT ![u] = @ \cup {w}])
      BY <1>2, HandleIs
    <2>2. mail[w] # <<>> /\ mail' = [mail EXCEPT ![w] = Tail(@)]
      BY <1>2 DEF Handle
    <2>3. Posted(w, u) /\ mail[w][1].task = u /\ 1 \in DOMAIN mail[w]
      BY <2>2, MailTail DEF Posted
    <2> HIDE DEF u
    <2>4. \A v \in Workers, t \in Tasks : Posted(v, t)' => Posted(v, t)
      BY <2>2, MailLess
    <2>5. ranOn \in [Tasks -> SUBSET Workers]
      BY DEF TypeOK
    <2>6. \A t \in Tasks : ranOn'[t] \subseteq Placed(t)
      BY <2>1, <2>3, <2>5 DEF Placed
    <2>7. \A t \in Tasks : Placed(t)' \subseteq Placed(t)
      BY <2>4, <2>6 DEF Placed
    <2>8. /\ \A t \in Tasks : \A x, y \in Placed(t)' : x = y
          /\ cli'.pc \notin {"down", "escaped"} =>
                \A t \in Tasks : graph'[t].state \notin {"dispatched", "done"}
                      /\ ~ (At("calling")' /\ t = Task') => Placed(t)' = {}
          /\ At("start")' => \A t \in Tasks : Placed(t)' = {}
      BY <1>0, <2>7 DEF OnceInv, At, Task
    <2>9. ASSUME At("calling"), mail'[Worker] # <<>>, Last(mail'[Worker]).open
          PROVE  /\ ranOn'[Task] = {}
                 /\ \A v \in Workers : \A i \in DOMAIN mail'[v] :
                       mail'[v][i].task = Task => v = Worker /\ i = Len(mail'[v])
      <3>1. Task \in Tasks /\ Worker \in Workers
        BY <2>9 DEF At, Task, Worker, TypeOK
      <3>2. mail[Worker] # <<>> /\ Last(mail[Worker]).open
        <4>1. CASE Worker = w
          <5>1. /\ mail' \in [Workers -> Seq([task: Tasks, open: BOOLEAN])]
                /\ Len(mail'[w]) = Len(mail[w]) - 1
                /\ \A i \in DOMAIN mail'[w] : i + 1 \in DOMAIN mail[w] /\ mail'[w][i] = mail[w][i + 1]
            BY <2>2, MailTail
          <5>2. mail'[w] \in Seq([task: Tasks, open: BOOLEAN])
                /\ mail[w] \in Seq([task: Tasks, open: BOOLEAN])
            BY <5>1 DEF TypeOK
          <5>3. Len(mail'[w]) \in DOMAIN mail'[w]
            BY <2>9, <4>1, <5>2, EmptySeq
          <5>4. /\ Last(mail'[w]) = mail'[w][Len(mail'[w])]
                /\ Last(mail[w]) = mail[w][Len(mail[w])]
            BY DEF Last
          <5>5. Len(mail'[w]) + 1 = Len(mail[w])
            BY <5>1, <5>2
          <5>6. mail'[w][Len(mail'[w])] = mail[w][Len(mail[w])]
            BY <5>1, <5>3, <5>5
          <5> QED BY <2>2, <2>9, <4>1, <5>4, <5>6
        <4>2. CASE Worker # w
          BY <2>2, <2>9, <3>1, <4>2, MailTail
        <4> QED BY <4>1, <4>2
      <3>3. /\ ranOn[Task] = {}
            /\ \A v \in Workers : \A i \in DOMAIN mail[v] :
                  mail[v][i].task = Task => v = Worker /\ i = Len(mail[v])
        BY <2>9, <3>2 DEF OnceInv
      <3>4. u # Task
        <4> SUFFICES ASSUME u = Task PROVE FALSE
          OBVIOUS
        <4>1. w = Worker /\ Len(mail[w]) = 1
          BY <2>3, <3>3
        <4>2. /\ mail' \in [Workers -> Seq([task: Tasks, open: BOOLEAN])]
              /\ Len(mail'[w]) = Len(mail[w]) - 1
          BY <2>2, MailTail
        <4>3. Len(mail'[w]) = 0
          BY <4>1, <4>2
        <4>4. mail'[w] \in Seq([task: Tasks, open: BOOLEAN])
          BY <4>2
        <4> QED BY <2>9, <4>1, <4>3, <4>4, EmptySeq
      <3>5. ranOn'[Task] = {}
        BY <2>1, <2>5, <3>1, <3>3, <3>4
      <3>6. ASSUME NEW v \in Workers, NEW i \in DOMAIN mail'[v], mail'[v][i].task = Task
            PROVE  v = Worker /\ i = Len(mail'[v])
        <4>1. CASE v = w
          <5>1. i + 1 \in DOMAIN mail[v] /\ mail[v][i + 1].task = Task
            BY <2>2, <3>6, <4>1, MailTail
          <5>2. v = Worker /\ i + 1 = Len(mail[v])
            BY <3>3, <5>1
          <5>3. Len(mail'[v]) = Len(mail[v]) - 1 /\ mail'[v] \in Seq([task: Tasks, open: BOOLEAN])
            BY <2>2, <4>1, MailTail
          <5>4. i \in Nat /\ Len(mail[v]) \in Nat
            BY <5>3 DEF TypeOK
          <5> QED BY <5>2, <5>3, <5>4
        <4>2. CASE v # w
          BY <2>2, <3>3, <3>6, <4>2, MailTail
        <4> QED BY <4>1, <4>2
      <3> QED BY <3>5, <3>6
    <2> QED BY <1>0, <2>8, <2>9 DEF OnceInv, At, Task, Worker
  <1> QED BY <1>1, <1>2 DEF WorkerStep

-----------------------------------------------------------------------------
(* The other steps.                                                        *)

\* A start writes the graph it makes; a crash and a re-run promise nothing.
LEMMA WritesAfresh ==
  ASSUME TypeOK, Start \/ Crash \/ Rerun
  PROVE  WriteInv'
  <1>1. CASE Start
    BY <1>1, StartIs DEF WriteInv, Settling, Offering, At, TypeOK, CliState
  <1>2. CASE Crash \/ Rerun
    BY <1>2, CrashIs, RerunIs DEF WriteInv, Settling, Offering, At
  <1> QED BY <1>1, <1>2

\* What the CLI holds and what it wrote is not the workers' to change.
LEMMA WorkersLeave ==
  ASSUME UNCHANGED <<list, cli, graph, budget, schedule, published>>
  PROVE  /\ CoreInv => CoreInv'
         /\ SlotsInv => SlotsInv'
         /\ WriteInv => WriteInv'
  <1>1. CoreInv => CoreInv'
    BY DEF CoreInv, StartInv, FlightInv, HandInv, GraphInv, DepsDone, Offering, At, Task
  <1>2. SlotsInv => SlotsInv'
    BY DEF SlotsInv, SlotsTrue, SlotsOwned, SlotsHeld, InFlight, Task
  <1>3. WriteInv => WriteInv'
    BY DEF WriteInv, Settling, Offering, At
  <1> QED BY <1>1, <1>2, <1>3

\* A step is one of the CLI's, a start, a crash, a re-run or a worker's.
LEMMA StepIs ==
  ASSUME TypeOK, CoreInv, [Next]_vars
  PROVE  \/ CliStep
         \/ Start \/ Crash \/ Rerun
         \/ \E w \in Workers : WorkerStep(w)
         \/ UNCHANGED vars
  BY SettlePassIs, DispatchPassIs DEF CoreInv, Next

\* What is published is what is in memory: both are written in one step.
LEMMA BooksKept ==
  ASSUME TypeOK, CoreInv, BooksInv, [Next]_vars
  PROVE  BooksInv'
  <1>1. CASE CliStep
    BY <1>1 DEF BooksInv, CliStep, Takes, Asks, Settles, Books, Turns, Probes, Skips, Throws,
                Offers, Accepts, Misses, Breaks, Passes
  <1>2. CASE Start \/ Crash \/ Rerun
    BY <1>2, StartIs, CrashIs, RerunIs DEF BooksInv
  <1>3. CASE \E w \in Workers : WorkerStep(w)
    BY <1>3, WorkerType DEF BooksInv
  <1>4. CASE UNCHANGED vars
    BY <1>4 DEF BooksInv, vars
  <1> QED BY <1>1, <1>2, <1>3, <1>4, StepIs

-----------------------------------------------------------------------------
(* The ceiling.                                                            *)

\* Fewer holds fit where more did, and a task fits in its own hold.
LEMMA Fits ==
  ASSUME NEW m \in Nat, NEW n \in Nat, NEW s \in Nat, NEW c \in Nat,
         s + n * Reserve <= Ceiling
  PROVE  /\ m <= n => s + m * Reserve <= Ceiling
         /\ m + 1 <= n /\ c <= Reserve => (s + c) + m * Reserve <= Ceiling
         /\ s <= Ceiling
  <1>1. Reserve \in Nat /\ Ceiling \in Nat
    BY BudgetAssumption
  <1>2. ASSUME NEW k \in Nat, k <= n PROVE k * Reserve <= n * Reserve
    BY <1>1, <1>2
  <1>3. (m + 1) * Reserve = m * Reserve + Reserve /\ m * Reserve \in Nat /\ n * Reserve \in Nat
    BY <1>1
  <1>4. m + 1 <= n => m * Reserve + Reserve <= n * Reserve
    BY <1>2, <1>3
  <1> QED BY <1>1, <1>2, <1>3, <1>4

\* As long as nothing went wrong, no step of the CLI can have gone wrong: what it
\* settles has a verdict, and what it books it could read.
LEMMA CliTrusts ==
  ASSUME TypeOK, CoreInv, CliStep, Trusted'
  PROVE  /\ Trusted
         /\ At("book") /\ Books =>
               /\ budget' = SettleTask(budget, Task, TaskTokens(Worker))
               /\ cli'.observed = [cli.observed EXCEPT ![Worker] = Seen(Worker)]
         /\ \A t \in Tasks, w \in Workers, v \in Verdict : Settles(t, w, v) => v # "unknown"
         /\ UNCHANGED worker
  <1>1. UNCHANGED worker /\ cli'.life = cli.life /\ (~ cli'.blind => ~ cli.blind)
    BY DEF CliStep, Takes, Asks, Settles, Books, Turns, Probes, Skips, Throws, Offers, Accepts,
           Misses, Breaks, Passes, ThisRun, SameSight
  <1>2. ASSUME NEW t \in Tasks, NEW w \in Workers, NEW v \in Verdict, Settles(t, w, v)
        PROVE  /\ v # "unknown"
               /\ \A u \in Tasks : graph[u].state = "done" => graph'[u] = graph[u]
    <2>1. list' = list /\ graph' = MarkSettled(list, graph, t, v, w)
          /\ graph[t].state \in {"ready", "dispatched"}
      BY <1>2, SettlesCore DEF Settles
    <2>2. /\ graph'[t].state = "done" /\ graph'[t].verdict = v
          /\ \A u \in Tasks \ {t} : graph[u].state = "done" => graph'[u] = graph[u]
      BY <2>1, SettleGraph DEF CoreInv
    <2> QED BY <2>1, <2>2 DEF Trusted
  <1>3. \A u \in Tasks : graph[u].state = "done" => graph'[u] = graph[u]
    <2>1. CASE graph' = graph
      BY <2>1
    <2>2. CASE Accepts
      <3>1. /\ graph' = MarkDispatched(graph, Task, Worker) /\ Task \in Tasks /\ Worker \in Workers
            /\ graph[Task].state = "ready"
        BY <2>2 DEF Accepts, CoreInv, HandInv, TypeOK, At, Task, Worker
      <3> QED BY <3>1, MarkDispatchedIs
    <2>3. CASE \E t \in Tasks, w \in Workers, v \in Verdict : Settles(t, w, v)
      BY <1>2, <2>3
    <2> QED BY <2>1, <2>2, <2>3 DEF CliStep, Takes, Asks, Books, Turns, Probes, Skips, Throws,
                                    Offers, Misses, Breaks, Passes
  <1>4. Trusted
    BY <1>1, <1>3 DEF Trusted
  <1>5. ~ cli'.blind
    BY DEF Trusted
  <1> QED BY <1>1, <1>2, <1>4, <1>5 DEF Books

\* What was spent and what is held stays below the ceiling: a task is admitted
\* with a hold that fits, and books no more than it.
LEMMA CliFits ==
  ASSUME TypeOK, CoreInv, SlotsInv, CliStep, Trusted', BooksFit,
         cli.pc \notin {"down", "escaped"} => WorkInv
  PROVE  BooksFit'
  <1> DEFINE n == Cardinality(budget.reserved)
             s == budget.spent
  <1>0. budget \in BudgetState /\ s \in Nat /\ budget.reserved \in SUBSET Tasks
        /\ list.cap \in Nat /\ n <= list.cap /\ Reserve \in Nat
    BY ListFacts, BudgetAssumption DEF TypeOK, BudgetState, SlotsInv, SlotsTrue, SlotsHeld
  <1>1. \A t \in Tasks :
           /\ n \in Nat /\ Cardinality(budget.reserved \ {t}) \in Nat
           /\ Cardinality(budget.reserved \cup {t}) \in Nat
           /\ Cardinality(budget.reserved \ {t}) <= n
           /\ Cardinality(budget.reserved \cup {t}) <= n + 1
           /\ t \in budget.reserved => Cardinality(budget.reserved \ {t}) = n - 1
    <2> SUFFICES ASSUME NEW t \in Tasks
                 PROVE  /\ n \in Nat /\ Cardinality(budget.reserved \ {t}) \in Nat
                        /\ Cardinality(budget.reserved \cup {t}) \in Nat
                        /\ Cardinality(budget.reserved \ {t}) <= n
                        /\ Cardinality(budget.reserved \cup {t}) <= n + 1
                        /\ t \in budget.reserved => Cardinality(budget.reserved \ {t}) = n - 1
      OBVIOUS
    <2>1. n \in Nat
      BY <1>0, SlotsCount
    <2>2. n <= n
      BY <2>1
    <2> QED BY <1>0, <2>1, <2>2, SlotsCount
  <1>2. s + n * Reserve <= Ceiling
    BY DEF BooksFit
  <1>3. CASE budget' = budget
    BY <1>3 DEF BooksFit
  <1>4. CASE Misses \/ Breaks
    <2>1. budget' = Release(budget, Task) /\ Task \in Tasks
      BY <1>4 DEF Misses, Breaks, At, Task, TypeOK
    <2>2. budget'.spent = s /\ budget'.reserved = budget.reserved \ {Task}
      BY <1>0, <2>1, BudgetIs
    <2>3. s + Cardinality(budget.reserved \ {Task}) * Reserve <= Ceiling
      <3> HIDE DEF n, s
      <3> QED BY <1>0, <1>1, <1>2, <2>1, Fits
    <2> QED BY <2>2, <2>3 DEF BooksFit
  <1>5. CASE Books
    <2>1. /\ budget' = SettleTask(budget, Task, TaskTokens(Worker))
          /\ Task \in Tasks /\ Worker \in Workers /\ Task \in budget.reserved
          /\ OneThing(Worker)
      BY <1>5, CliTrusts DEF Books, At, Task, Worker, TypeOK, SlotsInv, WorkInv
    <2>2. TaskTokens(Worker) \in Nat /\ TaskTokens(Worker) <= Reserve
      <3>1. worker[Worker].transcript \in Nat /\ cli.observed[Worker] \in Nat
        BY <2>1 DEF TypeOK, WorkerState, CliState
      <3>2. worker[Worker].transcript <= cli.observed[Worker] + Reserve
        BY <2>1 DEF OneThing
      <3> QED BY <1>0, <3>1, <3>2 DEF TaskTokens
    <2> DEFINE c == TaskTokens(Worker)
    <2> HIDE DEF c
    <2>3. budget'.spent = s + c /\ budget'.reserved = budget.reserved \ {Task}
      <3>1. \A k \in Nat : /\ SettleTask(budget, Task, k).reserved = budget.reserved \ {Task}
                           /\ SettleTask(budget, Task, k).spent = budget.spent + k
        BY <1>0, <2>1, BudgetIs
      <3> QED BY <2>1, <2>2, <3>1 DEF c
    <2>4. (s + c) + Cardinality(budget.reserved \ {Task}) * Reserve <= Ceiling
      <3> DEFINE m == Cardinality(budget.reserved \ {Task})
      <3>1. m \in Nat /\ n \in Nat /\ m = n - 1 /\ c \in Nat /\ c <= Reserve
        BY <1>1, <2>1, <2>2 DEF c
      <3> HIDE DEF n, s, m
      <3>2. m + 1 <= n
        BY <3>1
      <3>3. (s + c) + m * Reserve <= Ceiling
        BY <1>0, <1>2, <3>1, <3>2, Fits
      <3> QED BY <3>3 DEF m
    <2> QED BY <2>3, <2>4 DEF BooksFit
  <1>6. CASE \E t \in Tasks, w \in Workers : Offers(t, w)
    <2>1. PICK t \in Tasks, w \in Workers : Offers(t, w)
      BY <1>6
    <2>2. budget' = Hold(budget, t) /\ AdmitsTask(budget, t, list.cap)
      BY <2>1 DEF Offers
    <2>3. budget'.spent = s /\ budget'.reserved = budget.reserved \cup {t}
      BY <1>0, <2>2, BudgetIs
    <2>4. CASE t \in budget.reserved
      <3>1. budget'.reserved = budget.reserved
        BY <2>3, <2>4
      <3> QED BY <1>2, <2>3, <3>1 DEF BooksFit
    <2>5. CASE s + (n + 1) * Reserve <= Ceiling
      <3>1. s + Cardinality(budget.reserved \cup {t}) * Reserve <= Ceiling
        <4> DEFINE k == n + 1
        <4>0. n \in Nat /\ Cardinality(budget.reserved \cup {t}) <= n + 1
          BY <1>1
        <4>1. k \in Nat /\ Cardinality(budget.reserved \cup {t}) <= k
          <5> HIDE DEF n
          <5> QED BY <4>0
        <4>2. s + k * Reserve <= Ceiling
          BY <2>5, Zenon
        <4> HIDE DEF n, s, k
        <4> QED BY <1>0, <1>1, <4>1, <4>2, Fits
      <3> QED BY <2>3, <3>1 DEF BooksFit
    <2> QED BY <2>2, <2>4, <2>5 DEF AdmitsTask
  <1> QED BY <1>3, <1>4, <1>5, <1>6
          DEF CliStep, Takes, Asks, Settles, Turns, Probes, Skips, Throws, Accepts, Passes

\* The workers are followed as before by a step that changes neither them nor
\* what is in flight.
LEMMA StillFollowed ==
  ASSUME WorkInv, UNCHANGED <<worker, mail>>,
         cli'.inflight = cli.inflight, cli'.observed = cli.observed,
         cli.pc \notin {"calling", "book"}, cli'.pc \notin {"calling", "book"}
  PROVE  /\ \A w \in Workers : OneThing(w)'
         /\ Followed' /\ HandQuiet' /\ Busy' = Busy
  <1>1. Busy' = Busy
    BY DEF Busy
  <1>2. \A w \in Workers : OneThing(w)'
    BY <1>1 DEF WorkInv, OneThing, Quiet, Looked, InHand
  <1>3. Followed'
    BY DEF WorkInv, Followed
  <1>4. HandQuiet'
    BY DEF HandQuiet, At
  <1> QED BY <1>1, <1>2, <1>3, <1>4

\* A worker that settles is the hand's, and it has nothing left to do.
LEMMA SettlesWork ==
  ASSUME TypeOK, CoreInv, RecordInv, WorkInv, Trusted',
         NEW t \in Tasks, NEW w \in Workers, NEW v \in Verdict, Settles(t, w, v)
  PROVE  WorkInv'
  <1>1. /\ v # "unknown" /\ UNCHANGED worker
        /\ ToSet(cli'.inflight) = {p \in ToSet(cli.inflight) : p[1] # t}
        /\ Task' = t /\ Worker' = w /\ graph[t].state \in {"ready", "dispatched"}
    BY CliTrusts, SettlesCore DEF CliStep
  <1>2. /\ cli'.pc = "book" /\ cli'.observed = cli.observed /\ UNCHANGED <<mail, answer>>
    BY <1>1 DEF Settles, SameSight
  <1>3. ToSet(cli.inflight) \subseteq Tasks \X Workers
    BY DEF TypeOK, CliState, ToSet
  <1>4. Followed'
    BY <1>1, <1>2 DEF WorkInv, Followed
  <1>5. /\ w \notin Busy' /\ \A u \in Busy : u = w \/ u \in Busy'
        /\ mail[w] = <<>> /\ worker[w].live = None
        /\ \A u \in Workers : InHand(u) => u = w
    <2>1. CASE cli.pc \in {"settle", "health", "silence"} /\ <<t, w>> \in ToSet(cli.inflight)
      <3>1. \A p \in ToSet(cli.inflight) : p[1] = t => p = <<t, w>>
        <4>1. OnceIn(cli.inflight)
          BY DEF CoreInv, FlightInv
        <4> QED BY <2>1, <4>1, OnceInSet
      <3>2. \A p \in ToSet(cli.inflight) : p[2] = w => p = <<t, w>>
        BY <2>1 DEF WorkInv, Followed
      <3>3. w \notin Busy'
        <4> SUFFICES ASSUME NEW p \in ToSet(cli'.inflight), p[2] = w PROVE FALSE
          BY DEF Busy
        <4> QED BY <1>1, <3>2
      <3>4. ASSUME NEW u \in Busy, u # w PROVE u \in Busy'
        <4>1. PICK p \in ToSet(cli.inflight) : p[2] = u
          BY <3>4 DEF Busy
        <4>2. p[1] # t
          BY <3>1, <3>4, <4>1
        <4> QED BY <1>1, <4>1, <4>2 DEF Busy
      <3>5. mail[w] = <<>> /\ worker[w].live \in {None, t}
        BY <2>1 DEF WorkInv, Followed
      <3>6. v = worker[w].record[t]
        BY <1>1, <2>1 DEF Settles, At
      <3>7. worker[w].live = None
        BY <3>5, <3>6, NoneFacts DEF RecordInv
      <3> QED BY <2>1, <3>3, <3>4, <3>5, <3>7 DEF InHand
    <2>2. CASE At("calling") /\ <<t, w>> = cli.hand
      <3>1. t = Task /\ w = Worker /\ v = answer
        BY <1>1, <2>2 DEF Settles, Task, Worker, At
      <3>2. Quiet(w) /\ w \notin Busy
        BY <2>2, <3>1 DEF WorkInv, HandQuiet, At
      <3>3. \A p \in ToSet(cli.inflight) : p[1] # t
        <4>1. graph[t].state = "ready"
          BY <2>2, <3>1 DEF CoreInv, HandInv
        <4> QED BY <4>1 DEF CoreInv, FlightInv
      <3>4. Busy' = Busy
        BY <1>1, <3>3 DEF Busy
      <3> QED BY <3>1, <3>2, <3>4 DEF Quiet, InHand
    <2> QED BY <2>1, <2>2 DEF Settles
  <1>6. \A u \in Workers : OneThing(u)'
    <2> SUFFICES ASSUME NEW u \in Workers PROVE OneThing(u)'
      OBVIOUS
    <2>1. InHand(u)' <=> u = w
      BY <1>1, <1>2 DEF InHand
    <2>2. OneThing(u)
      BY DEF WorkInv
    <2>3. Quiet(u)' <=> Quiet(u)
      BY <1>1, <1>2 DEF Quiet, Looked
    <2>4. u \notin Busy' /\ ~ InHand(u)' => Quiet(u)'
      BY <1>5, <2>1, <2>2, <2>3 DEF OneThing
    <2>5. /\ worker'[u].transcript <= cli'.observed[u] + Reserve
          /\ mail'[u] # <<>> => Len(mail'[u]) = 1 /\ worker'[u].live = None /\ Looked(u)'
          /\ worker'[u].live # None => Looked(u)'
      BY <1>1, <1>2, <2>2 DEF OneThing, Looked
    <2> QED BY <2>4, <2>5 DEF OneThing
  <1>7. HandQuiet'
    BY <1>1, <1>2, <1>5 DEF HandQuiet, At
  <1>8. FreeOnly'
    <2>1. Offering' => Offering /\ cli'.avail \subseteq cli.avail
      BY <1>2 DEF Settles, Offering, At
    <2>2. Busy' \subseteq Busy
      BY <1>1 DEF Busy
    <2> QED BY <1>2, <2>1, <2>2 DEF FreeOnly, WorkInv, At
  <1> QED BY <1>4, <1>6, <1>7, <1>8 DEF WorkInv

\* What is booked is what was not looked at: the worker of the hand is quiet.
LEMMA BooksWork ==
  ASSUME TypeOK, CoreInv, WorkInv, Trusted', Books
  PROVE  WorkInv'
  <1>1. /\ At("book") /\ cli'.pc = cli.back /\ cli'.inflight = cli.inflight
        /\ cli'.hand = cli.hand /\ cli'.avail = cli.avail /\ cli'.back = cli.back
        /\ UNCHANGED <<mail, worker>>
        /\ cli'.observed = [cli.observed EXCEPT ![Worker] = Seen(Worker)]
        /\ cli.back \in {"settle", "offer"} /\ Worker \in Workers
    BY CliTrusts DEF CliStep, Books, SameWork, SameHand, SameOffers, ThisRun, TypeOK, CliState,
                     At, Worker
  <1>2. Busy' = Busy /\ \A w \in Workers : ~ InHand(w)'
    BY <1>1 DEF Busy, InHand
  <1>3. /\ worker \in [Workers -> WorkerState] /\ cli.observed \in [Workers -> Nat]
        /\ \A w \in Workers : worker[w].transcript \in Nat
        /\ Reserve \in Nat
    BY BudgetAssumption DEF TypeOK, WorkerState, CliState
  <1>4. /\ \A w \in Workers : OneThing(w)
        /\ mail[Worker] = <<>> /\ worker[Worker].live = None
    BY <1>1 DEF WorkInv, HandQuiet
  <1>5. ASSUME NEW w \in Workers
        PROVE  OneThing(w)'
    <2>1. CASE w = Worker
      <3>1. cli'.observed[w] = Seen(w)
        BY <1>1, <1>3, <2>1
      <3>2. /\ worker[w].transcript <= Seen(w) /\ worker[w].transcript <= Seen(w) + Reserve
        BY <1>3 DEF Seen
      <3> QED BY <1>1, <1>4, <2>1, <3>1, <3>2 DEF OneThing, Quiet, Looked
    <2>2. CASE w # Worker
      <3>1. cli'.observed[w] = cli.observed[w]
        BY <1>1, <1>3, <2>2
      <3>2. ~ InHand(w)
        BY <2>2 DEF InHand
      <3> QED BY <1>1, <1>2, <1>4, <3>1, <3>2 DEF OneThing, Quiet, Looked
    <2> QED BY <2>1, <2>2
  <1>6. Followed'
    BY <1>1 DEF Followed, WorkInv
  <1>7. HandQuiet'
    BY <1>1 DEF HandQuiet, At
  <1>8. FreeOnly'
    BY <1>1, <1>2 DEF FreeOnly, WorkInv, Offering, At
  <1> QED BY <1>5, <1>6, <1>7, <1>8 DEF WorkInv

\* A task is offered to a worker nobody follows, and that one is quiet.
LEMMA OffersWork ==
  ASSUME TypeOK, CoreInv, WorkInv, NEW t \in Tasks, NEW w \in Workers, Offers(t, w)
  PROVE  WorkInv'
  <1>1. /\ At("offer") /\ cli'.pc = "calling" /\ cli'.inflight = cli.inflight
        /\ cli'.avail = cli.avail /\ cli'.observed = cli.observed /\ worker' = worker
        /\ mail' = [mail EXCEPT ![w] = Append(@, [task |-> t, open |-> TRUE])]
        /\ answer' = None /\ w \in cli.avail /\ Task' = t /\ Worker' = w
    BY DEF Offers, SameWork, SameSight, Task, Worker
  <1>2. Busy' = Busy /\ w \notin Busy
    BY <1>1 DEF Busy, WorkInv, FreeOnly, Offering, At
  <1>3. \A u \in Workers : ~ InHand(u) /\ (InHand(u)' <=> u = w)
    BY <1>1 DEF InHand, At
  <1>4. Quiet(w)
    BY <1>2, <1>3 DEF WorkInv, OneThing
  <1>5. Len(mail'[w]) = 1 /\ \A u \in Workers \ {w} : mail'[u] = mail[u]
    <2>1. mail[w] = <<>>
      BY <1>4 DEF Quiet
    <2>2. Len(mail[w]) = 0
      BY <2>1
    <2>3. Len(mail'[w]) = Len(mail[w]) + 1 /\ \A u \in Workers \ {w} : mail'[u] = mail[u]
      BY <1>1, MailAppend
    <2> QED BY <2>2, <2>3
  <1>6. ASSUME NEW u \in Workers
        PROVE  OneThing(u)'
    <2>1. CASE u = w
      BY <1>1, <1>3, <1>4, <1>5, <2>1 DEF OneThing, Quiet, Looked, WorkInv
    <2>2. CASE u # w
      <3>1. mail'[u] = mail[u] /\ OneThing(u)
        BY <1>5, <2>2 DEF WorkInv
      <3> QED BY <1>1, <1>2, <1>3, <2>2, <3>1 DEF OneThing, Quiet, Looked
    <2> QED BY <2>1, <2>2
  <1>7. Followed'
    <2>1. \A p \in ToSet(cli.inflight) : p[2] \in Workers \ {w}
      BY <1>2 DEF Busy, TypeOK, CliState, ToSet
    <2> QED BY <1>1, <1>5, <2>1 DEF Followed, WorkInv
  <1>8. HandQuiet'
    BY <1>1, <1>2, NoneFacts DEF HandQuiet, At
  <1>9. FreeOnly'
    BY <1>1, <1>2 DEF FreeOnly, WorkInv, Offering, At
  <1> QED BY <1>6, <1>7, <1>8, <1>9 DEF WorkInv

\* An accepted task is followed from there on, on a worker that does nothing else.
LEMMA AcceptsWork ==
  ASSUME TypeOK, CoreInv, WorkInv, Accepts
  PROVE  WorkInv'
  <1>1. /\ At("calling") /\ answer = "accepted" /\ cli'.pc = "offer"
        /\ cli'.inflight = Append(cli.inflight, cli.hand)
        /\ cli'.avail = cli.avail \ {Worker} /\ cli'.observed = cli.observed
        /\ cli'.hand = cli.hand /\ UNCHANGED <<mail, worker>>
        /\ Task \in Tasks /\ Worker \in Workers /\ cli.hand \in Tasks \X Workers
    BY DEF Accepts, SameSight, SameHand, ThisRun, TypeOK, At, Task, Worker
  <1>2. ToSet(cli'.inflight) = ToSet(cli.inflight) \cup {cli.hand}
    <2>1. graph[Task].state = "ready"
      BY <1>1 DEF CoreInv, HandInv
    <2>2. \A p \in ToSet(cli.inflight) : p[1] # cli.hand[1]
      BY <2>1 DEF CoreInv, FlightInv, Task
    <2>3. cli.inflight \in Seq(Tasks \X Workers) /\ OnceIn(cli.inflight)
      BY DEF CoreInv, FlightInv, TypeOK, CliState
    <2> QED BY <1>1, <2>2, <2>3, AppendOnce
  <1>3. Busy' = Busy \cup {Worker}
    BY <1>2 DEF Busy, Worker
  <1>4. Worker \notin Busy /\ mail[Worker] = <<>> /\ worker[Worker].live \in {None, Task}
    BY <1>1 DEF WorkInv, HandQuiet, At
  <1>5. \A u \in Workers : ~ InHand(u)' /\ (InHand(u) => u = Worker)
    BY <1>1 DEF InHand
  <1>6. ASSUME NEW u \in Workers
        PROVE  OneThing(u)'
    <2>1. OneThing(u)
      BY DEF WorkInv
    <2>2. u \notin Busy' => u \notin Busy /\ ~ InHand(u)
      BY <1>3, <1>5
    <2> QED BY <1>1, <2>1, <2>2 DEF OneThing, Quiet, Looked
  <1>7. Followed'
    <2>1. \A p \in ToSet(cli'.inflight) :
             mail'[p[2]] = <<>> /\ worker'[p[2]].live \in {None, p[1]}
      BY <1>1, <1>2, <1>4 DEF Followed, WorkInv, Task, Worker
    <2>2. \A p \in ToSet(cli.inflight) : p[2] # Worker
      BY <1>4 DEF Busy
    <2>3. \A p, q \in ToSet(cli'.inflight) : p[2] = q[2] => p = q
      BY <1>2, <2>2 DEF Followed, WorkInv, Worker
    <2> QED BY <2>1, <2>3 DEF Followed
  <1>8. HandQuiet'
    BY <1>1 DEF HandQuiet, At
  <1>9. FreeOnly'
    <2>1. cli.avail \cap Busy = {}
      BY <1>1 DEF WorkInv, FreeOnly, Offering, At
    <2> QED BY <1>1, <1>3, <2>1 DEF FreeOnly, At
  <1> QED BY <1>6, <1>7, <1>8, <1>9 DEF WorkInv

\* Nothing listened: the request that was taken back was the worker's only one.
LEMMA MissesWork ==
  ASSUME TypeOK, CoreInv, WorkInv, Misses
  PROVE  WorkInv'
  <1>1. /\ At("calling") /\ cli'.pc = "offer" /\ mail[Worker] # <<>>
        /\ mail' = [mail EXCEPT ![Worker] = Front(@)]
        /\ cli'.inflight = cli.inflight /\ cli'.observed = cli.observed
        /\ cli'.avail = cli.avail \ {Worker} /\ worker' = worker /\ Worker \in Workers
    BY DEF Misses, SameWork, SameSight, At, Worker, TypeOK
  <1>2. Busy' = Busy /\ Worker \notin Busy
    <2>1. Busy' = Busy
      BY <1>1 DEF Busy
    <2>2. Worker \notin Busy
      BY <1>1 DEF WorkInv, HandQuiet, At
    <2> QED BY <2>1, <2>2
  <1>3. Len(mail[Worker]) = 1 /\ worker[Worker].live = None /\ Looked(Worker)
    BY <1>1 DEF WorkInv, OneThing
  <1>4. mail'[Worker] = <<>> /\ \A u \in Workers \ {Worker} : mail'[u] = mail[u]
    <2>1. /\ Len(mail'[Worker]) = Len(mail[Worker]) - 1
          /\ \A u \in Workers \ {Worker} : mail'[u] = mail[u]
      BY <1>1, MailFront
    <2>2. Len(mail'[Worker]) = 0
      BY <1>3, <2>1
    <2>3. mail[Worker] \in Seq([task: Tasks, open: BOOLEAN]) /\ mail'[Worker] = Front(mail[Worker])
      BY <1>1 DEF TypeOK
    <2>4. mail'[Worker] \in Seq([task: Tasks, open: BOOLEAN])
      BY <1>1, <2>3, FrontIs
    <2> QED BY <2>1, <2>2, <2>4, EmptySeq
  <1>5. \A u \in Workers : ~ InHand(u)' /\ (InHand(u) => u = Worker)
    BY <1>1 DEF InHand
  <1>6. ASSUME NEW u \in Workers
        PROVE  OneThing(u)'
    <2>1. OneThing(u)
      BY DEF WorkInv
    <2>2. CASE u = Worker
      BY <1>1, <1>3, <1>4, <2>1, <2>2 DEF OneThing, Quiet, Looked
    <2>3. CASE u # Worker
      <3>1. mail'[u] = mail[u]
        BY <1>4, <2>3
      <3> QED BY <1>1, <1>2, <1>5, <2>1, <2>3, <3>1 DEF OneThing, Quiet, Looked
    <2> QED BY <2>2, <2>3
  <1>7. Followed'
    <2>1. \A p \in ToSet(cli.inflight) : p[2] \in Workers \ {Worker}
      BY <1>2 DEF Busy, TypeOK, CliState, ToSet
    <2> QED BY <1>1, <1>4, <2>1 DEF Followed, WorkInv
  <1>8. HandQuiet'
    BY <1>1 DEF HandQuiet, At
  <1>9. FreeOnly'
    BY <1>1, <1>2 DEF FreeOnly, WorkInv, Offering, At
  <1> QED BY <1>6, <1>7, <1>8, <1>9 DEF WorkInv

\* The ceiling is kept by every step of the CLI.
LEMMA CliCeiling ==
  ASSUME TypeOK, CoreInv, SlotsInv, RecordInv, CeilingInv, CliStep
  PROVE  CeilingInv'
  <1> SUFFICES ASSUME Trusted'
               PROVE  BooksFit' /\ (cli'.pc \notin {"down", "escaped"} => WorkInv')
    BY DEF CeilingInv
  <1>1. /\ BooksFit /\ WorkInv
    <2>1. Trusted
      BY CliTrusts
    <2>2. cli.pc \notin {"down", "escaped"}
      BY DEF CliStep, Takes, Asks, Settles, Books, Turns, Probes, Skips, Throws, Offers, Accepts,
             Misses, Breaks, Passes, At
    <2> QED BY <2>1, <2>2 DEF CeilingInv
  <1>2. BooksFit'
    BY <1>1, CliFits
  <1>3. CASE Takes \/ Asks \/ Turns \/ Probes \/ Skips \/ Throws \/ Passes
    <2>1. /\ UNCHANGED <<worker, mail>> /\ cli'.inflight = cli.inflight
          /\ cli'.observed = cli.observed
          /\ cli.pc \notin {"calling", "book"} /\ cli'.pc \notin {"calling", "book"}
      BY <1>3, CliPlaces
         DEF Takes, Asks, Turns, Probes, Skips, Throws, Passes, ThisRun, SameWork, SameSight, At
    <2>2. /\ \A w \in Workers : OneThing(w)'
          /\ Followed' /\ HandQuiet' /\ Busy' = Busy
      BY <1>1, <2>1, StillFollowed
    <2>3. FreeOnly
      BY <1>1 DEF WorkInv
    <2>4. FreeOnly'
      <3>1. CASE Takes \/ Asks \/ Throws \/ Passes
        BY <3>1, CliPlaces DEF Throws, Passes, FreeOnly, Offering, At
      <3>2. CASE Turns
        <4>1. CASE cli'.pc = "probe"
          BY <2>2, <3>2, <4>1 DEF Turns, FreeOnly
        <4>2. CASE cli'.pc = "done"
          BY <4>2 DEF FreeOnly, Offering, At
        <4> QED BY <3>2, <4>1, <4>2 DEF Turns
      <3>3. CASE Probes \/ Skips
        BY <2>2, <2>3, <3>3 DEF Probes, Skips, FreeOnly, Offering, At
      <3> QED BY <1>3, <3>1, <3>2, <3>3
    <2> QED BY <1>2, <2>2, <2>4 DEF WorkInv
  <1>4. CASE Books
    BY <1>1, <1>2, <1>4, BooksWork
  <1>5. CASE \E t \in Tasks, w \in Workers, v \in Verdict : Settles(t, w, v)
    BY <1>1, <1>2, <1>5, SettlesWork
  <1>6. CASE \E t \in Tasks, w \in Workers : Offers(t, w)
    BY <1>1, <1>2, <1>6, OffersWork
  <1>7. CASE Accepts
    BY <1>1, <1>2, <1>7, AcceptsWork
  <1>8. CASE Misses
    BY <1>1, <1>2, <1>8, MissesWork
  <1>9. CASE Breaks
    BY <1>2, <1>9 DEF Breaks
  <1> QED BY <1>3, <1>4, <1>5, <1>6, <1>7, <1>8, <1>9 DEF CliStep

\* A worker that ends what it does has burned no more than the reserve since it
\* was looked at, and the others do as they did.
LEMMA QuietDown ==
  ASSUME TypeOK, WorkInv, NEW w \in Workers, worker' \in [Workers -> WorkerState],
         UNCHANGED <<cli, mail, answer>>,
         \A v \in Workers \ {w} : worker'[v] = worker[v],
         worker'[w].live \in {worker[w].live, None},
         \/ worker'[w].transcript <= worker[w].transcript
         \/ /\ worker[w].live # None /\ worker'[w].live = None
            /\ worker'[w].transcript <= worker[w].transcript + Reserve
  PROVE  WorkInv'
  <1>1. /\ Busy' = Busy /\ \A u \in Workers : InHand(u)' <=> InHand(u)
    BY DEF Busy, InHand, Worker
  <1>2. /\ \A u \in Workers : /\ worker[u].transcript \in Nat /\ worker'[u].transcript \in Nat
                              /\ cli.observed[u] \in Nat
        /\ Reserve \in Nat
    BY BudgetAssumption DEF TypeOK, WorkerState, CliState
  <1>3. ASSUME NEW u \in Workers
        PROVE  OneThing(u)' /\ (Quiet(u) => Quiet(u)')
    <2>1. OneThing(u)
      BY DEF WorkInv
    <2>2. CASE u # w
      BY <1>1, <2>1, <2>2 DEF OneThing, Quiet, Looked
    <2>3. CASE u = w /\ worker'[w].transcript <= worker[w].transcript
      <3>1. Looked(u) => Looked(u)'
        BY <1>2, <2>3 DEF Looked
      <3>2. worker'[u].transcript <= cli.observed[u] + Reserve
        BY <1>2, <2>1, <2>3 DEF OneThing
      <3> QED BY <1>1, <2>1, <2>3, <3>1, <3>2 DEF OneThing, Quiet
    <2>4. CASE /\ u = w /\ worker[w].live # None /\ worker'[w].live = None
               /\ worker'[w].transcript <= worker[w].transcript + Reserve
      <3>1. ~ Quiet(u) /\ mail[u] = <<>> /\ worker[u].transcript <= cli.observed[u]
        BY <2>1, <2>4 DEF OneThing, Quiet, Looked
      <3>2. worker'[u].transcript <= cli.observed[u] + Reserve
        BY <1>2, <2>4, <3>1
      <3> QED BY <1>1, <2>1, <2>4, <3>1, <3>2 DEF OneThing
    <2> QED BY <2>2, <2>3, <2>4
  <1>4. \A u \in Workers : worker'[u].live \in {worker[u].live, None}
    OBVIOUS
  <1>5. ToSet(cli.inflight) \subseteq Tasks \X Workers
    BY DEF TypeOK, CliState, ToSet
  <1>6. Followed'
    BY <1>4, <1>5 DEF Followed, WorkInv
  <1>7. HandQuiet'
    <2>1. At("calling") \/ At("book") => Worker \in Workers
      BY DEF At, Worker, TypeOK
    <2>2. Worker' = Worker /\ Task' = Task /\ At("calling")' = At("calling") /\ At("book")' = At("book")
      BY DEF Worker, Task, At
    <2>3. HandQuiet
      BY DEF WorkInv
    <2>4. cli'.pc \in {"calling", "book"} => Worker' \notin Busy'
      BY <1>1, <2>2, <2>3 DEF HandQuiet
    <2>5. At("calling") /\ answer \in Verdict => Quiet(Worker)'
      <3> SUFFICES ASSUME At("calling"), answer \in Verdict PROVE Quiet(Worker)'
        OBVIOUS
      <3>1. Quiet(Worker) /\ Worker \in Workers
        BY <2>1, <2>3 DEF HandQuiet
      <3>2. \A u \in Workers : Quiet(u) => mail'[u] = <<>> /\ worker'[u].live = None
                                           /\ worker'[u].transcript <= cli'.observed[u]
        BY <1>3 DEF Quiet, Looked
      <3> QED BY <2>2, <3>1, <3>2 DEF Quiet, Looked
    <2>6. At("calling") /\ answer = "accepted" =>
            mail'[Worker] = <<>> /\ worker'[Worker].live \in {None, Task}
      BY <1>4, <2>1, <2>3 DEF HandQuiet
    <2>7. At("book") => mail'[Worker] = <<>> /\ worker'[Worker].live = None
      BY <1>4, <2>1, <2>3 DEF HandQuiet
    <2> QED BY <2>2, <2>4, <2>5, <2>6, <2>7 DEF HandQuiet
  <1>8. FreeOnly'
    BY <1>1 DEF FreeOnly, WorkInv, Offering, At
  <1> QED BY <1>3, <1>6, <1>7, <1>8 DEF WorkInv

\* The only worker with a request is the one of the hand, and it answers that.
LEMMA HandleWork ==
  ASSUME TypeOK, MailInv, WorkInv, NEW w \in Workers, Handle(w)
  PROVE  WorkInv'
  <1> DEFINE t == Head(mail[w]).task
             open == Head(mail[w]).open
  <1>1. /\ cli' = cli /\ mail[w] # <<>> /\ mail' = [mail EXCEPT ![w] = Tail(@)]
    BY DEF Handle
  <1>2. /\ worker' \in [Workers -> WorkerState]
        /\ \A v \in Workers \ {w} : worker'[v] = worker[v]
        /\ worker'[w].transcript = worker[w].transcript
    BY HandleIs
  <1>3. PICK a \in Verdict \cup {"accepted"} :
          /\ answer' = IF open THEN a ELSE answer
          /\ \/ /\ UNCHANGED <<worker, ranOn>> /\ Knows(w, t, a)
             \/ /\ worker[w].live = None /\ a = "accepted" /\ worker'[w].live = t
             \/ /\ worker[w].live = None /\ a = "failed" /\ worker'[w].live = None
    BY HandleIs
  <1>4. /\ Len(mail[w]) = 1 /\ worker[w].live = None /\ Looked(w)
        /\ w \notin Busy /\ InHand(w) /\ At("calling") /\ w = Worker
    <2>1. OneThing(w)
      BY DEF WorkInv
    <2>2. ~ Quiet(w)
      BY <1>1 DEF Quiet
    <2>3. w \notin Busy
      <3> SUFFICES ASSUME w \in Busy PROVE FALSE
        OBVIOUS
      <3>1. PICK p \in ToSet(cli.inflight) : p[2] = w
        BY DEF Busy
      <3> QED BY <1>1, <3>1 DEF WorkInv, Followed
    <2>4. InHand(w)
      BY <2>1, <2>2, <2>3 DEF OneThing
    <2>5. ~ At("book")
      BY <1>1, <2>4 DEF WorkInv, HandQuiet, InHand
    <2> QED BY <1>1, <2>1, <2>3, <2>4, <2>5 DEF OneThing, InHand, At
  <1>5. /\ mail'[w] = <<>> /\ \A v \in Workers \ {w} : mail'[v] = mail[v]
    <2>1. /\ mail' \in [Workers -> Seq([task: Tasks, open: BOOLEAN])]
          /\ Len(mail'[w]) = Len(mail[w]) - 1
          /\ \A v \in Workers \ {w} : mail'[v] = mail[v]
      BY <1>1, MailTail
    <2>2. Len(mail'[w]) = 0 /\ mail'[w] \in Seq([task: Tasks, open: BOOLEAN])
      BY <1>4, <2>1
    <2> QED BY <2>1, <2>2, EmptySeq
  <1>6. open => t = Task
    <2>1. Head(mail[w]) = mail[w][1] /\ 1 \in DOMAIN mail[w]
      BY <1>1, MailTail
    <2> QED BY <2>1 DEF MailInv
  <1>7. ~ open => answer \notin Verdict /\ answer # "accepted" /\ answer' = answer
    BY <1>1, <1>3, <1>4 DEF WorkInv, HandQuiet, Quiet
  <1>8. /\ answer' \in Verdict => worker'[w].live = None
        /\ answer' = "accepted" => worker'[w].live \in {None, Task}
    <2>1. CASE open
      <3>1. answer' = a /\ t = Task
        BY <1>3, <1>6, <2>1
      <3> HIDE DEF t, open
      <3> QED BY <1>3, <1>4, <3>1, NoneFacts
    <2>2. CASE ~ open
      BY <1>7, <2>2
    <2> QED BY <2>1, <2>2
  <1> HIDE DEF t, open
  <1>9. /\ Busy' = Busy /\ \A u \in Workers : InHand(u)' <=> InHand(u)
        /\ Worker' = Worker /\ Task' = Task /\ cli'.observed = cli.observed
    BY <1>1 DEF Busy, InHand, Worker, Task
  <1>10. Looked(w)'
    BY <1>1, <1>2, <1>4 DEF Looked
  <1>11. ASSUME NEW u \in Workers
         PROVE  OneThing(u)'
    <2>1. OneThing(u)
      BY DEF WorkInv
    <2>2. CASE u = w
      BY <1>2, <1>4, <1>5, <1>9, <1>10, <2>1, <2>2 DEF OneThing
    <2>3. CASE u # w
      <3>1. mail'[u] = mail[u] /\ worker'[u] = worker[u]
        BY <1>2, <1>5, <2>3
      <3> QED BY <1>9, <2>1, <3>1 DEF OneThing, Quiet, Looked
    <2> QED BY <2>2, <2>3
  <1>12. Followed'
    <2>1. \A p \in ToSet(cli.inflight) : p[2] \in Workers \ {w}
      BY <1>4 DEF Busy, TypeOK, CliState, ToSet
    <2> QED BY <1>1, <1>2, <1>5, <2>1 DEF Followed, WorkInv
  <1>13. HandQuiet'
    BY <1>1, <1>4, <1>5, <1>8, <1>9, <1>10 DEF HandQuiet, Quiet, Looked, At
  <1>14. FreeOnly'
    BY <1>1, <1>9 DEF FreeOnly, WorkInv, Offering, At
  <1> QED BY <1>11, <1>12, <1>13, <1>14 DEF WorkInv

\* The ceiling is kept by every step of a worker.
LEMMA WorkerCeiling ==
  ASSUME TypeOK, MailInv, CeilingInv, \E w \in Workers : WorkerStep(w)
  PROVE  CeilingInv'
  <1> SUFFICES ASSUME Trusted'
               PROVE  BooksFit' /\ (cli'.pc \notin {"down", "escaped"} => WorkInv')
    BY DEF CeilingInv
  <1>0. UNCHANGED <<cli, graph, budget>>
    BY WorkerType
  <1>1. PICK w \in Workers : WorkerStep(w)
    OBVIOUS
  <1>2. worker \in [Workers -> WorkerState] /\ Reserve \in Nat
        /\ worker[w].transcript \in Nat
    BY BudgetAssumption DEF TypeOK, WorkerState
  <1>3. CASE Handle(w)
    <2>1. \A v \in Workers : worker'[v].overran = worker[v].overran
      BY <1>3, HandleIs
    <2>2. Trusted
      BY <1>0, <2>1 DEF Trusted
    <2> QED BY <1>0, <1>3, <2>2, HandleWork DEF CeilingInv, BooksFit
  <1>4. CASE Ends(w) \/ Dies(w) \/ ChildExits(w) \/ Rotates(w)
    <2>1. /\ UNCHANGED <<mail, answer>> /\ worker' \in [Workers -> WorkerState]
          /\ \A v \in Workers \ {w} : worker'[v] = worker[v]
          /\ worker'[w].live \in {worker[w].live, None}
      <3>1. CASE Ends(w)
        BY <3>1, EndsIs DEF Ends
      <3>2. CASE Dies(w)
        BY <3>2, DiesIs DEF Dies
      <3>3. CASE ChildExits(w) \/ Rotates(w)
        BY <3>3, FadesIs
      <3> QED BY <1>4, <3>1, <3>2, <3>3
    <2>2. ~ worker'[w].overran
      BY DEF Trusted
    <2>3. /\ ~ worker[w].overran
          /\ \/ worker'[w].transcript <= worker[w].transcript
             \/ /\ worker[w].live # None /\ worker'[w].live = None
                /\ worker'[w].transcript <= worker[w].transcript + Reserve
      <3>1. CASE Ends(w) \/ Dies(w)
        <4>1. worker'[w].live = None
          BY <3>1, EndsIs, DiesIs
        <4>2. PICK c \in Nat : /\ c # 0 => worker[w].live # None
                               /\ worker'[w].transcript = worker[w].transcript + c
                               /\ worker'[w].overran = (worker[w].overran \/ c > Reserve)
          <5>1. CASE Ends(w)
            <6>1. worker[w].live # None
              BY <5>1, EndsIs, NoneFacts
            <6> QED BY <5>1, <6>1, EndsIs
          <5>2. CASE Dies(w)
            BY <5>2, DiesIs
          <5> QED BY <3>1, <5>1, <5>2
        <4>3. ~ worker[w].overran /\ ~ (c > Reserve)
          <5> DEFINE more == c > Reserve
          <5> HIDE DEF more
          <5>1. worker'[w].overran = (worker[w].overran \/ more)
            BY <4>2, Zenon DEF more
          <5>2. ~ worker[w].overran /\ ~ more
            BY <2>2, <5>1, Zenon
          <5> QED BY <5>2 DEF more
        <4> QED BY <1>2, <4>1, <4>2, <4>3
      <3>2. CASE ChildExits(w) \/ Rotates(w)
        <4>1. worker'[w].overran = worker[w].overran
              /\ worker'[w].transcript \in {worker[w].transcript, 0}
          BY <3>2, FadesIs
        <4> QED BY <1>2, <2>2, <4>1
      <3> QED BY <1>4, <3>1, <3>2
    <2>4. Trusted
      BY <1>0, <2>1, <2>3 DEF Trusted
    <2> QED BY <1>0, <2>1, <2>3, <2>4, QuietDown DEF CeilingInv, BooksFit
  <1> QED BY <1>1, <1>3, <1>4 DEF WorkerStep

\* A first run starts with nothing spent and every worker quiet; a crash leaves
\* the books as they are, and of a re-run nothing is promised.
LEMMA CeilingAfresh ==
  ASSUME TypeOK, CoreInv, CeilingInv, Start \/ Crash \/ Rerun
  PROVE  CeilingInv'
  <1> SUFFICES ASSUME Trusted'
               PROVE  BooksFit' /\ (cli'.pc \notin {"down", "escaped"} => WorkInv')
    BY DEF CeilingInv
  <1>1. CASE Start
    <2>1. /\ cli' \in CliState /\ cli'.pc = "settle" /\ At("start") /\ UNCHANGED <<worker, mail>>
          /\ cli'.inflight = cli.inflight /\ cli'.life = cli.life /\ cli'.blind = cli.blind
          /\ budget' \in BudgetState /\ budget'.reserved = {}
          /\ (\A w \in Workers : worker[w].transcript = 0) /\ published.spent = 0
               => budget'.spent = 0
      <3>1. /\ cli' \in CliState /\ cli' = [cli EXCEPT !.pc = "settle", !.observed = cli'.observed]
        BY <1>1, StartIs
      <3> DEFINE o == cli'.observed
      <3>2. cli' = [cli EXCEPT !.pc = "settle", !.observed = o] /\ cli \in CliState
        BY <3>1 DEF TypeOK
      <3> HIDE DEF o
      <3>3. /\ cli'.pc = "settle" /\ cli'.inflight = cli.inflight /\ cli'.life = cli.life
            /\ cli'.blind = cli.blind
        BY <3>2 DEF CliState
      <3>4. At("start")
        BY <1>1 DEF Start
      <3> QED BY <1>1, <3>1, <3>3, <3>4, StartIs DEF ThisRun
    <2>2. /\ cli.inflight = <<>> /\ \A w \in Workers : cli.observed[w] = 0
          /\ published.spent = 0 /\ \A t \in Tasks : graph[t].verdict # "unknown"
      BY <2>1 DEF CoreInv, StartInv, Trusted
    <2>3. Trusted
      BY <2>1, <2>2 DEF Trusted
    <2>4. WorkInv /\ Busy = {} /\ \A w \in Workers : ~ InHand(w)
      BY <2>1, <2>2, <2>3 DEF CeilingInv, At, Busy, InHand, ToSet
    <2>5. \A w \in Workers : /\ mail[w] = <<>> /\ worker[w].live = None
                             /\ worker[w].transcript = 0
      <3> SUFFICES ASSUME NEW w \in Workers
                   PROVE  mail[w] = <<>> /\ worker[w].live = None /\ worker[w].transcript = 0
        OBVIOUS
      <3>1. Quiet(w) /\ worker[w].transcript \in Nat
        BY <2>4 DEF WorkInv, OneThing, TypeOK, WorkerState
      <3> QED BY <2>2, <3>1 DEF Quiet, Looked
    <2>6. BooksFit'
      <3>1. budget'.spent = 0 /\ Cardinality(budget'.reserved) = 0
        BY <2>1, <2>2, <2>5, FS_EmptySet
      <3> QED BY <3>1, BudgetAssumption DEF BooksFit
    <2>7. ASSUME NEW w \in Workers PROVE OneThing(w)'
      <3>1. /\ mail'[w] = <<>> /\ worker'[w].live = None /\ worker'[w].transcript = 0
            /\ cli'.observed[w] \in Nat /\ Reserve \in Nat
        BY <2>1, <2>5, BudgetAssumption DEF CliState
      <3>2. 0 <= cli'.observed[w] + Reserve /\ 0 <= cli'.observed[w]
        BY <3>1
      <3> QED BY <3>1, <3>2 DEF OneThing, Quiet, Looked
    <2>8. Followed' /\ HandQuiet' /\ FreeOnly'
      <3>1. ToSet(cli'.inflight) = {}
        BY <2>1, <2>2 DEF ToSet
      <3> QED BY <2>1, <3>1 DEF Followed, HandQuiet, FreeOnly, Offering, At
    <2> QED BY <2>6, <2>7, <2>8 DEF WorkInv
  <1>2. CASE Crash
    <2>1. /\ cli'.pc = "down" /\ cli'.life = cli.life /\ cli'.blind = cli.blind
          /\ UNCHANGED <<graph, budget, worker>>
      BY <1>2, CrashIs
    <2>2. Trusted
      BY <2>1 DEF Trusted
    <2> QED BY <2>1, <2>2 DEF CeilingInv, BooksFit
  <1>3. CASE Rerun
    <2>1. cli'.life = cli.life + 1 /\ cli.life \in Nat \ {0}
      BY <1>3, RerunIs DEF TypeOK, CliState
    <2> QED BY <2>1 DEF Trusted
  <1> QED BY <1>1, <1>2, <1>3

-----------------------------------------------------------------------------
(* The invariant, and what follows from it.                                *)

\* A new list, a new run and workers that only have a past.
LEMMA InitInv == Init => IInv
  <1> SUFFICES ASSUME Init PROVE IInv
    OBVIOUS
  <1>0. TypeOK
    BY InitType
  <1>1. /\ cli.pc = "start" /\ cli.inflight = <<>> /\ cli.todo = <<>> /\ cli.life = 1
        /\ ~ cli.blind /\ \A w \in Workers : cli.observed[w] = 0
    BY DEF Init, Stopped
  <1>2. /\ budget = NoBudget /\ published = NoBudget
        /\ budget.spent = 0 /\ budget.reserved = {}
    BY DEF Init, NoBudget
  <1>3. \A t \in Tasks : /\ graph[t].state \in {"ready", "waiting"} /\ graph[t].verdict # "unknown"
                         /\ graph[t].state = "ready" => list.deps[t] = <<>>
    BY NoneFacts DEF Init, NewGraph, Verdict
  <1>4. /\ \A w \in Workers : mail[w] = <<>> /\ DOMAIN mail[w] = {}
        /\ \A t \in Tasks : Placed(t) = {}
    BY DEF Init, Placed, Posted
  <1>5. /\ worker \in Befores
        /\ \A w \in Workers :
              /\ worker[w].live # None => worker[w].record[worker[w].live] = None
              /\ worker[w].live # None \/ worker[w].transcript > 0 => worker[w].overran
              /\ worker[w].transcript \in Nat
    BY <1>0, BeforesAssumption DEF Init, TypeOK, WorkerState
  <1>6. ToSet(cli.inflight) = {} /\ ToSet(cli.todo) = {}
    BY <1>1 DEF ToSet
  <1>7. Cardinality({}) = 0 /\ Reserve \in Nat /\ Ceiling \in Nat /\ list.cap \in Nat
    BY <1>0, FS_EmptySet, BudgetAssumption, ListFacts
  <1>8. StartInv
    BY <1>1, <1>2, <1>3 DEF StartInv
  <1>9. FlightInv
    BY <1>1, <1>6 DEF FlightInv, OnceIn
  <1>10. HandInv
    BY <1>1 DEF HandInv, Offering, At
  <1>11. GraphInv
    BY <1>3 DEF GraphInv, DepsDone, ToSet
  <1>12. SlotsInv
    BY <1>1, <1>2, <1>7 DEF SlotsInv, SlotsTrue, SlotsOwned, SlotsHeld
  <1>13. MailInv
    BY <1>4 DEF MailInv
  <1>14. RecordInv
    BY <1>1, <1>3, <1>4, <1>5 DEF RecordInv, At
  <1>15. OnceInv
    BY <1>1, <1>3, <1>4 DEF OnceInv, At
  <1>16. WriteInv
    BY <1>1 DEF WriteInv, Settling, Offering, At
  <1>17. BooksInv
    BY <1>2 DEF BooksInv
  <1>18. CeilingInv
    <2> SUFFICES ASSUME Trusted PROVE BooksFit /\ WorkInv
      BY DEF CeilingInv
    <2>1. BooksFit
      BY <1>2, <1>7 DEF BooksFit
    <2>2. \A w \in Workers : OneThing(w)
      BY <1>1, <1>4, <1>5, <1>7 DEF OneThing, Quiet, Looked, Trusted
    <2>3. Followed /\ HandQuiet /\ FreeOnly
      BY <1>1, <1>6 DEF Followed, HandQuiet, FreeOnly, Offering, At
    <2> QED BY <2>1, <2>2, <2>3 DEF WorkInv
  <1> QED BY <1>0, <1>8, <1>9, <1>10, <1>11, <1>12, <1>13, <1>14, <1>15, <1>16, <1>17, <1>18
          DEF IInv

\* Every step keeps the invariant: those of the CLI, of a start, a crash and a
\* re-run, and of the workers between them.
LEMMA NextInv == IInv /\ [Next]_vars => IInv'
  <1> SUFFICES ASSUME IInv, [Next]_vars PROVE IInv'
    OBVIOUS
  <1>0. /\ TypeOK /\ CoreInv /\ SlotsInv /\ MailInv /\ RecordInv /\ OnceInv /\ WriteInv
        /\ BooksInv /\ CeilingInv
    BY DEF IInv, CoreInv
  <1>1. TypeOK' /\ BooksInv'
    BY <1>0, NextType, BooksKept
  <1>2. CASE CliStep
    <2>1. CoreInv' /\ SlotsInv' /\ MailInv' /\ RecordInv'
      BY <1>0, <1>2, CliCore, CliSlots, CliMail, CliRecords
    <2>2. OnceInv' /\ WriteInv' /\ CeilingInv'
      BY <1>0, <1>2, CliOnce, CliWrites, CliCeiling
    <2> QED BY <1>1, <2>1, <2>2 DEF IInv, CoreInv
  <1>3. CASE Start \/ Crash \/ Rerun
    <2>1. CoreInv' /\ SlotsInv' /\ MailInv' /\ RecordInv'
      BY <1>0, <1>3, CoreAfresh, SlotsAfresh, RestMail, RecordsAfresh
    <2>2. OnceInv' /\ WriteInv' /\ CeilingInv'
      BY <1>0, <1>3, OnceAfresh, WritesAfresh, CeilingAfresh
    <2> QED BY <1>1, <2>1, <2>2 DEF IInv, CoreInv
  <1>4. CASE \E w \in Workers : WorkerStep(w)
    <2>1. CoreInv' /\ SlotsInv' /\ WriteInv'
      BY <1>0, <1>4, WorkerType, WorkersLeave
    <2>2. MailInv' /\ RecordInv' /\ OnceInv' /\ CeilingInv'
      BY <1>0, <1>4, RestMail, WorkerRecords, WorkerOnce, WorkerCeiling
    <2> QED BY <1>1, <2>1, <2>2 DEF IInv, CoreInv
  <1>5. CASE UNCHANGED vars
    <2> USE <1>5 DEF vars
    <2>1. CoreInv' /\ SlotsInv' /\ WriteInv'
      BY <1>0, WorkersLeave
    <2>2. MailInv'
      BY <1>0 DEF MailInv, At, Worker, Task
    <2>3. RecordInv'
      BY <1>0 DEF RecordInv, Recorded, Placed, Posted, At, Task
    <2>4. OnceInv'
      BY <1>0 DEF OnceInv, Placed, Posted, At, Task, Worker
    <2>5. CeilingInv'
      BY <1>0 DEF CeilingInv, Trusted, BooksFit, WorkInv, OneThing, Followed, HandQuiet, FreeOnly,
                  Quiet, Looked, InHand, Busy, Offering, At, Worker, Task
    <2> QED BY <1>1, <2>1, <2>2, <2>3, <2>4, <2>5 DEF IInv, CoreInv
  <1> QED BY <1>0, <1>2, <1>3, <1>4, <1>5, StepIs

\* The invariant holds in every state of the scheduler.
THEOREM Invariant == Spec => []IInv
  BY InitInv, NextInv, PTL DEF Spec

\* No admission slot is lost, none is given out beyond max_concurrent, and each
\* belongs to a task in flight or in hand (budget.ts: admitsTask, releaseTask;
\* scheduler.ts: the settle and the dispatch pass).
THEOREM SlotsAreTrue == Spec => []SlotsTrue
  <1>1. IInv => SlotsTrue
    BY DEF IInv, SlotsInv
  <1> QED BY <1>1, Invariant, PTL

\* Within one life of the CLI no task is started on two workers, whatever requests
\* are lost, answered late or delivered to a worker that is dying (scheduler.ts:
\* dispatch outcomes; an answer in doubt is final).
THEOREM NeverTwice == Spec => []RunsOnce
  <1>1. IInv => RunsOnce
    <2> SUFFICES ASSUME IInv, cli.life = 1, NEW t \in Tasks PROVE Cardinality(ranOn[t]) <= 1
      BY DEF RunsOnce
    <2>1. \A v, w \in ranOn[t] : v = w
      BY DEF IInv, OnceInv, Placed
    <2>2. CASE ranOn[t] = {}
      BY <2>2, FS_EmptySet
    <2>3. CASE ranOn[t] # {}
      <3>1. PICK w : ranOn[t] = {w}
        BY <2>1, <2>3
      <3>2. Cardinality({w}) = 1
        BY FS_Singleton
      <3> QED BY <3>1, <3>2
    <2> QED BY <2>2, <2>3
  <1> QED BY <1>1, Invariant, PTL

\* A task is only started behind recorded verdicts of its dependencies, also in a
\* later life of the CLI, and a run that ends has written its graph (graph.ts:
\* the sweep; scheduler.ts: persist).
THEOREM GraphIsTrue == Spec => []GraphTrue
  <1>1. IInv => DependenciesFirst
    BY DEF IInv, RecordInv, Recorded, DependenciesFirst, Placed
  <1>2. IInv => ScheduleTrue
    BY DEF IInv, WriteInv, ScheduleTrue
  <1> QED BY <1>1, <1>2, Invariant, PTL DEF GraphTrue

\* The books are true to the ceiling, and only grow (budget.ts: admitsTask,
\* reserveTask, recordSpend; dispatch.ts: taskTokens, spentSoFar).
THEOREM BooksAreTrue == Spec => BooksOnlyGrow
  <1>1. IInv => CeilingHolds
    <2> SUFFICES ASSUME IInv, Trusted PROVE budget.spent <= Ceiling
      BY DEF CeilingHolds, Trusted
    <2> DEFINE n == Cardinality(budget.reserved)
               s == budget.spent
    <2>1. s + n * Reserve <= Ceiling /\ s \in Nat
      BY DEF IInv, CeilingInv, BooksFit, TypeOK, BudgetState
    <2>2. n \in Nat
      BY TasksAssumption, FS_Subset, FS_CardinalityType DEF IInv, TypeOK, BudgetState
    <2> HIDE DEF n, s
    <2>3. s <= Ceiling
      BY <2>1, <2>2, Fits
    <2> QED BY <2>3 DEF s
  <1>2. IInv /\ [Next]_vars =>
           [/\ published.halted => published'.halted
            /\ ~ At("start") => budget'.spent >= budget.spent]_vars
    <2> SUFFICES ASSUME IInv, [Next]_vars
                 PROVE  /\ published.halted => published'.halted
                        /\ ~ At("start") => budget'.spent >= budget.spent
      OBVIOUS
    <2>0. /\ TypeOK /\ CoreInv /\ published = budget /\ published' = budget'
          /\ budget \in BudgetState /\ budget.spent \in Nat
      <3>1. BooksInv'
        BY NextInv DEF IInv
      <3> QED BY <3>1 DEF IInv, CoreInv, BooksInv, TypeOK, BudgetState
    <2>1. CASE budget' = budget
      BY <2>0, <2>1
    <2>2. CASE Books
      <3>1. Task \in Tasks /\ Worker \in Workers
        BY <2>0, <2>2 DEF Books, At, Task, Worker, TypeOK
      <3>2. TaskTokens(Worker) \in Nat
        BY <2>0, <3>1 DEF TaskTokens, TypeOK, WorkerState, CliState
      <3>3. \A k \in Nat : /\ SettleTask(budget, Task, k).spent = budget.spent + k
                           /\ budget.halted => SettleTask(budget, Task, k).halted
        BY <2>0, <3>1, BudgetIs
      <3>4. PICK k \in Nat : budget' = SettleTask(budget, Task, k)
        BY <2>2, <3>2 DEF Books
      <3> QED BY <2>0, <3>3, <3>4
    <2>3. CASE \E t \in Tasks, w \in Workers : Offers(t, w)
      <3>1. PICK t \in Tasks : budget' = Hold(budget, t)
        BY <2>3 DEF Offers
      <3> QED BY <2>0, <3>1, BudgetIs
    <2>4. CASE Misses \/ Breaks
      <3>1. budget' = Release(budget, Task) /\ Task \in Tasks
        BY <2>0, <2>4 DEF Misses, Breaks, At, Task, TypeOK
      <3> QED BY <2>0, <3>1, BudgetIs
    <2>5. CASE Start
      <3>1. At("start") /\ (published.halted => budget'.halted)
        BY <2>0, <2>5, StartIs DEF Start
      <3> QED BY <2>0, <3>1
    <2>6. CliStep => budget' = budget \/ Books \/ Misses \/ Breaks
                     \/ \E t \in Tasks, w \in Workers : Offers(t, w)
      BY DEF CliStep, Takes, Asks, Settles, Turns, Probes, Skips, Throws, Accepts, Passes
    <2>7. Crash \/ Rerun \/ UNCHANGED vars \/ (\E w \in Workers : WorkerStep(w))
            => budget' = budget
      BY <2>0, CrashIs, RerunIs, WorkerType DEF vars
    <2> QED BY <2>0, <2>1, <2>2, <2>3, <2>4, <2>5, <2>6, <2>7, StepIs
  <1>3. Spec => []CeilingHolds
    BY <1>1, Invariant, PTL
  <1>4. Spec => SpendOnlyGrows
    BY <1>2, Invariant, PTL DEF Spec, SpendOnlyGrows
  <1> QED BY <1>3, <1>4 DEF BooksOnlyGrow

=============================================================================
