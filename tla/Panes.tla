-------------------------------- MODULE Panes --------------------------------
(***************************************************************************)
(* The consoles (src/backends/cmux/operations-plan.ts, operations.ts): the *)
(* panes each plans, the workspace that is split for them, the three       *)
(* passes that correct the halves a split gives, and what becomes of the   *)
(* workspace that was there before.                                        *)
(*                                                                         *)
(* cmux is external.  A layout is a tree of splits, each at a ratio (in    *)
(* Parts), kept here as the path of every pane: which side of which split  *)
(* it is on, from the outermost.  A resize names a pane and a direction    *)
(* and moves the nearest border on that side; all beyond it keeps its      *)
(* ratios.  Sizes are whole pixels, fractions a numerator and denominator. *)
(***************************************************************************)
EXTENDS Integers, Sequences, SequencesExt, FiniteSets, FiniteSetsExt

CONSTANTS Width, Height, MinPane, Parts, PlainWords

Of(num, den) == [num |-> num, den |-> den]
Left == [num |-> 0, den |-> 1]      \* a null fraction: left as split

-----------------------------------------------------------------------------
(* What a console plans.  A pane says how it is split off which earlier    *)
(* one; the first has the surface the workspace opens with.                *)

\* What a pane runs.  A worker attaches where its pane is only in tui mode, and
\* is then told which workspace it is in.
AgentPaneCommand(worker, opts) ==
    LET attach == worker \in opts.tuiWorkers IN
    [run |-> "ladder", worker |-> worker, attach |-> attach,
     into |-> IF attach THEN opts.workspaceName ELSE "none"]
MonitorPaneCommand(poll) ==
    [run |-> "monitor", worker |-> "none", attach |-> FALSE, into |-> "none", poll |-> poll]

Pane(title, command, split, from) ==
    [title |-> title, command |-> command, split |-> split, from |-> from]
First(title, command) == Pane(title, command, "none", 0)

\* A worker's pane is called what the worker is, and the places are
\* those of the panes after the first.
Seated(workers, opts, places) ==
    [i \in DOMAIN workers |->
        LET command == AgentPaneCommand(workers[i], opts) IN
        IF i = 1 THEN First(workers[1], command)
        ELSE Pane(workers[i], command, places[i - 1][1], places[i - 1][2])]

\* The workers of --workers, or the console's own; every word that reaches a
\* shell is plain.
Chosen(opts, default) == IF opts.workers = <<>> THEN default ELSE opts.workers[1]
AssertPlainValue(workers, opts) == ToSet(workers) \cup {opts.backend} \subseteq PlainWords

DefaultWorkers ==
    [operations |-> <<"obs-1", "tick-1">>,
     development |-> <<"eng-1", "eng-2", "tst-1", "tst-2">>,
     review |-> <<"col-1", "rev-arch-1", "rev-ctx-1", "rev-lang-1">>,
     triage |-> <<"tri-1", "obs-t1", "obs-td1", "obs-t2", "obs-t3", "obs-td2", "obs-tv1">>]

\* <<>> when the workers are refused.  Operations has two agents around its
\* monitor, and no pane for a third.
OperationsPanes(opts) ==
    LET workers == Chosen(opts, DefaultWorkers.operations)
        ladder(i) == AgentPaneCommand(workers[i], opts)
    IN IF workers = <<>> \/ ~ AssertPlainValue(workers, opts) \/ opts.poll < 1 THEN <<>>
       ELSE <<First("observer", ladder(1)),
              Pane("monitor", MonitorPaneCommand(opts.poll), "down", 1)>>
              \o (IF Len(workers) = 1 THEN <<>> ELSE <<Pane("ticketing", ladder(2), "left", 1)>>)

\* A square of at most four.
SquareMaxPanes == 4
Refused(workers, opts) ==
    workers = <<>> \/ Len(workers) > SquareMaxPanes \/ ~ AssertPlainValue(workers, opts)
AgentSquarePanes(opts, default) ==
    LET workers == Chosen(opts, default)
        places == <<<<"right", 1>>, <<"down", 1>>, <<"down", 2>>>>
    IN IF Refused(workers, opts) THEN <<>> ELSE Seated(workers, opts, places)

\* The first over a row of the others.
CollatorOverRowPanes(opts, default) ==
    LET workers == Chosen(opts, default)
        places == [i \in 1..Len(workers) |-> IF i = 1 THEN <<"down", 1>> ELSE <<"right", i>>]
    IN IF Refused(workers, opts) THEN <<>> ELSE Seated(workers, opts, places)

\* One over two rows of three: the rows first, then each into columns.
TriagePanes(opts) ==
    LET workers == Chosen(opts, DefaultWorkers.triage)
        places == <<<<"down", 1>>, <<"down", 2>>, <<"right", 2>>, <<"right", 4>>,
                    <<"right", 3>>, <<"right", 6>>>>
    IN IF Len(workers) # 7 \/ ~ AssertPlainValue(workers, opts) THEN <<>>
       ELSE Seated(workers, opts, places)

\* What the top row has of the height, the row beneath it of what the two
\* lower rows have, and each column of the width.
TopFraction == [operations |-> Of(65, 100), development |-> Left, review |-> Of(1, 3), triage |-> Of(1, 3)]
RowFraction == [operations |-> Left, development |-> Left, review |-> Left, triage |-> Of(1, 2)]
WidthFraction == [operations |-> Left, development |-> Left, review |-> Of(1, 3), triage |-> Of(1, 3)]
Spec(console) == [top |-> TopFraction[console], middle |-> RowFraction[console],
                  columns |-> WidthFraction[console]]

\* A console's agents attach into its own workspace.
Plan(console, asked) ==
    LET opts == [asked EXCEPT !.workspaceName = console] IN
    CASE console = "operations" -> OperationsPanes(opts)
      [] console = "development" -> AgentSquarePanes(opts, DefaultWorkers.development)
      [] console = "review" -> CollatorOverRowPanes(opts, DefaultWorkers.review)
      [] console = "triage" -> TriagePanes(opts)

\* The pane a word of the operator's names: its title, or its worker.
PlannedPane(plan, word) ==
    LET titled == SelectSeq(plan, LAMBDA p : p.title = word) IN
    IF titled # <<>> THEN titled
    ELSE SelectSeq(plan, LAMBDA p : p.command.worker = word /\ word # "none")

\* The open pane a restart respawns, found by the title it was given.
SurfaceForTitle(panes, title) == {i \in DOMAIN panes : panes[i].title = title}

\* A workspace's panes are this console's, in any order.
Adoptable(panes, plan) ==
    /\ Len(panes) = Len(plan)
    /\ \A title \in {p.title : p \in ToSet(panes) \cup ToSet(plan)} :
          Len(SelectSeq(panes, LAMBDA p : p.title = title))
             = Len(SelectSeq(plan, LAMBDA p : p.title = title))

-----------------------------------------------------------------------------
(* cmux's layout.                                                          *)

One == [paths |-> <<<<>>>>, axis |-> <<>>, ratio |-> <<>>]
NewSplit(l, from, dir) ==
    LET s == Len(l.axis) + 1
        old == IF dir \in {"down", "right"} THEN "a" ELSE "b"
        new == IF old = "a" THEN "b" ELSE "a"
    IN [paths |-> Append([l.paths EXCEPT ![from] = Append(@, <<s, old>>)],
                         Append(l.paths[from], <<s, new>>)),
        axis |-> Append(l.axis, IF dir \in {"down", "up"} THEN "y" ELSE "x"),
        ratio |-> Append(l.ratio, Parts \div 2)]

\* Where along an axis the box at the end of a path lies, and how long it is.
Extent(l, path, axis) ==
    FoldLeft(LAMBDA box, side :
                LET cut == (box[2] * l.ratio[side[1]]) \div Parts IN
                IF l.axis[side[1]] # axis THEN box
                ELSE IF side[2] = "a" THEN <<box[1], cut>>
                ELSE <<box[1] + cut, box[2] - cut>>,
             <<0, IF axis = "x" THEN Width ELSE Height>>, path)
X(l, p) == Extent(l, l.paths[p], "x")[1]
Y(l, p) == Extent(l, l.paths[p], "y")[1]
Wide(l, p) == Extent(l, l.paths[p], "x")[2]
Tall(l, p) == Extent(l, l.paths[p], "y")[2]

\* The border a resize of p in a direction moves: its place in p's path.
Borders(l, p, dir) ==
    {i \in DOMAIN l.paths[p] :
        /\ l.axis[l.paths[p][i][1]] = IF dir \in {"U", "D"} THEN "y" ELSE "x"
        /\ l.paths[p][i][2] = IF dir \in {"D", "R"} THEN "a" ELSE "b"}

\* The ratio that gives the first side this many of so many pixels.
RatioOf(pixels, whole) == (pixels * Parts + whole - 1) \div whole
Resized(l, p, dir, amount) ==
    LET i == Max(Borders(l, p, dir))
        s == l.paths[p][i][1]
        whole == Extent(l, SubSeq(l.paths[p], 1, i - 1), l.axis[s])[2]
        cut == (whole * l.ratio[s]) \div Parts
        wanted == cut + (IF dir \in {"D", "R"} THEN amount ELSE -amount)
        kept == Max({MinPane, Min({wanted, whole - MinPane})})
    IN [l EXCEPT !.ratio[s] = RatioOf(kept, whole)]

-----------------------------------------------------------------------------
(* The passes.  A state has the layout as it is and the resizes issued; a  *)
(* refused one ends its pass.  A person may drag a border once, after a    *)
(* read was answered and before the resize computed from it.               *)

Untouched == [after |-> 0, border |-> 0, ratio |-> 0]
Begun(l) == [lay |-> l, reads |-> 0, sent |-> <<>>, refused |-> FALSE, ever |-> FALSE]

\* The layout is read; what happens to it next is not in the answer.
Looked(st, drag) ==
    [st EXCEPT !.reads = @ + 1,
               !.lay = IF drag.after = st.reads + 1
                       THEN [@ EXCEPT !.ratio[drag.border] = drag.ratio] ELSE @]

Rounded(part, den) == (2 * part + den) \div (2 * den)

\* A resize by part/den pixels, unless that is less than one.
Sent(st, p, dir, part, den) ==
    IF part < den THEN st
    ELSE IF Borders(st.lay, p, dir) = {}
    THEN [st EXCEPT !.refused = TRUE, !.sent = Append(@, <<p, dir>>)]
    ELSE [st EXCEPT !.lay = Resized(@, p, dir, Rounded(part, den)),
                    !.sent = Append(@, <<p, dir>>)]

Panes(l) == DOMAIN l.paths
RowYs(l) == SetToSortSeq({Y(l, p) : p \in Panes(l)}, <)
Row(l, y) == SetToSortSeq({p \in Panes(l) : Y(l, p) = y}, LAMBDA p, q : X(l, p) < X(l, q))
Tallest(l, row) == Max({Tall(l, p) : p \in ToSet(row)})
Listed(row) == SetToSortSeq(ToSet(row), <)

\* Every pane of the top row moved by what the first read said.
ApplyTopFractionAtOnce(st0, f, drag) ==
    LET l == st0.lay
        top == Row(l, RowYs(l)[1])
        short == f.num * Height - f.den * Tallest(l, top)
    IN IF f = Left THEN st0
       ELSE FoldLeft(LAMBDA st, p : Sent(st, p, "D", short, f.den), Looked(st0, drag), Listed(top))

\* Each pane of the row that owns the border, against the layout as it then
\* is: the top row to grow,
GrowTop(st, p, f, drag) ==
    Sent(Looked(st, drag), p, "D", f.num * Height - f.den * Tall(st.lay, p), f.den)
\* the row right beneath it to shrink the top one.
ShrinkTop(st, p, top, f, drag) ==
    Sent(Looked(st, drag), p, "U", f.den * Tallest(st.lay, top) - f.num * Height, f.den)
ApplyTopFraction(st0, f, drag) ==
    LET l == st0.lay
        ys == RowYs(l)
        top == Row(l, ys[1])
        short == f.num * Height - f.den * Tallest(l, top)
        Pass(st, p) == IF st.refused THEN st
                       ELSE IF short > 0 THEN GrowTop(st, p, f, drag)
                       ELSE ShrinkTop(st, p, top, f, drag)
    IN IF f = Left THEN st0
       ELSE IF Len(l.paths) < 2 \/ short \in (1 - f.den)..(f.den - 1) THEN Looked(st0, drag)
       ELSE FoldLeft(Pass, Looked(st0, drag), Listed(Row(l, ys[IF short > 0 THEN 1 ELSE 2])))

\* Of two rows beneath the top one, the share of the upper in what both hold.
ApplyMiddleRowFraction(st0, f, drag) ==
    LET l == st0.lay
        ys == RowYs(l)
        middle == Row(l, ys[2])
        bottom == Row(l, ys[3])
        Short(m) == f.num * (Tallest(m, middle) + Tallest(m, bottom)) - f.den * Tallest(m, middle)
        grow == Short(l) > 0
        Pass(st, p) ==
            IF st.refused THEN st
            ELSE Sent(Looked(st, drag), p, IF grow THEN "D" ELSE "U",
                      IF grow THEN Short(st.lay) ELSE -Short(st.lay), f.den)
    IN IF f = Left THEN st0
       ELSE IF Len(ys) # 3 \/ Short(l) \in (1 - f.den)..(f.den - 1) THEN Looked(st0, drag)
       ELSE FoldLeft(Pass, Looked(st0, drag), Listed(IF grow THEN middle ELSE bottom))

\* In each row, from the left, every pane but the last: widened at its own
\* border, narrowed at that of the pane after it.
ApplyBottomWidths(st0, f, drag) ==
    LET l == st0.lay
        Pairs(y) == LET row == Row(l, y) IN [i \in 1..(Len(row) - 1) |-> <<row[i], row[i + 1]>>]
        pairs == FoldLeft(LAMBDA sofar, y : sofar \o Pairs(y), <<>>, RowYs(l))
        Pass(st, pair) ==
            LET short == f.num * Width - f.den * Wide(st.lay, pair[1]) IN
            IF st.refused THEN st
            ELSE IF short > 0 THEN Sent(Looked(st, drag), pair[1], "R", short, f.den)
            ELSE Sent(Looked(st, drag), pair[2], "L", -short, f.den)
    IN IF f = Left THEN st0 ELSE FoldLeft(Pass, Looked(st0, drag), pairs)

\* The passes in their order; what one refuses does not stop the next.
Afresh(st) == [st EXCEPT !.refused = FALSE, !.ever = @ \/ st.refused]
Corrected(l, spec, drag) ==
    Afresh(ApplyBottomWidths(
        Afresh(ApplyMiddleRowFraction(
            Afresh(ApplyTopFraction(Begun(l), spec.top, drag)), spec.middle, drag)),
        spec.columns, drag))

-----------------------------------------------------------------------------
(* Opening a console.  The workspaces are in cmux's order, each a title,   *)
(* and its panes.  One command may fail: the one that creates, the split   *)
(* of a pane or what names it and starts it, the selecting, the closing.   *)

SplitFor(plan) ==
    FoldLeft(LAMBDA l, i : NewSplit(l, plan[i].from, plan[i].split), One,
             [i \in 1..(Len(plan) - 1) |-> i + 1])

Untitled == First("none", [run |-> "shell", worker |-> "none", attach |-> FALSE, into |-> "none"])

\* A workspace is created and its panes are split, named and given their
\* commands one by one; a failure leaves it as it then is.
CreateWorkspace(open, console, plan, failure) ==
    LET done == SubSeq(plan, 1, failure.pane - 1)
        panes == IF failure.at = "split" THEN done
                 ELSE IF failure.at = "start" THEN Append(done, Untitled) ELSE plan
    IN [open |-> IF failure.at = "create" THEN open
                 ELSE Append(open, [title |-> console, id |-> "new", panes |-> panes]),
        failed |-> failure.at \in {"create", "split", "start", "select"}]

\* Which console looks at what it would adopt.
Guarded(console) == console = "review"

Without(open, id) == SelectSeq(open, LAMBDA w : w.id # id)
Answer(open, outcome, id) == [open |-> open, outcome |-> outcome, id |-> id]

\* The first workspace of that title is adopted, unless it is to be made
\* anew: then the new one is built before that one is closed.
EnsureWorkspace(open, console, plan, recreate, failure) ==
    LET titled == SelectSeq(open, LAMBDA w : w.title = console) IN
    IF titled # <<>> /\ ~recreate
    THEN IF Guarded(console) /\ ~Adoptable(titled[1].panes, plan)
         THEN Answer(open, "refused", "none")
         ELSE Answer(open, "adopted", titled[1].id)
    ELSE LET built == CreateWorkspace(open, console, plan, failure) IN
         IF built.failed THEN Answer(built.open, "failed", "none")
         ELSE IF titled = <<>> THEN Answer(built.open, "created", "new")
         ELSE IF failure.at = "close" THEN Answer(built.open, "failed", "new")
         ELSE Answer(Without(built.open, titled[1].id), "created", "new")
=============================================================================
