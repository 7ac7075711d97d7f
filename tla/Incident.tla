------------------------------ MODULE Incident ------------------------------
(***************************************************************************)
(* The incident record of one subject of the triage console, and what one  *)
(* sweep's observation does to it (run/triage-incident.ts).                *)
(*                                                                         *)
(* A record holds instants; only their distance to now is ever compared,   *)
(* with the two windows of the policy, so it holds ages here, in ticks of  *)
(* the console's cadence, capped where no comparison tells more.  A        *)
(* notification is its kind.                                               *)
(***************************************************************************)
EXTENDS Naturals, Sequences, SequencesExt, FiniteSets

CONSTANTS FlapThreshold,    \* flap_threshold
          FlapWindow,       \* flap_window_s, in ticks
          RenotifyAfter,    \* renotify_after_s, in ticks; 0 for never
          MaxUndelivered    \* MAX_UNDELIVERED

ASSUME IncidentConstants ==
    /\ FlapThreshold \in Nat /\ FlapWindow \in Nat \ {0}
    /\ RenotifyAfter \in Nat /\ MaxUndelivered \in Nat \ {0}

\* COVERAGE_THRESHOLD
CoverageThreshold == 3

Signals == {"issue", "clear", "unobserved", "suppressed"}
Kinds == {"opened", "reminder", "flapping", "recovered"}

FreshIncident ==
    [state |-> "clear", blind |-> 0, flaps |-> {}, seen |-> FlapWindow,
     told |-> RenotifyAfter, undelivered |-> <<>>]

\* A tick later.
Aged(r) ==
    [r EXCEPT !.flaps = {a + 1 : a \in {b \in @ : b + 1 < FlapWindow}},
              !.seen = IF @ < FlapWindow THEN @ + 1 ELSE @,
              !.told = IF @ < RenotifyAfter THEN @ + 1 ELSE @]

Quiet(r) == [record |-> r, note |-> "none"]
Told(r, kind) == [record |-> [r EXCEPT !.told = 0], note |-> kind]

\* withReminder: only what fires is repeated, and only so often.
WithReminder(r) ==
    IF r.state = "firing" /\ RenotifyAfter # 0 /\ r.told >= RenotifyAfter
    THEN Told(r, "reminder") ELSE Quiet(r)

\* settleFlappingIntoFiring: bad throughout a whole window is no flapping.
SettleFlapping(r) == Told([r EXCEPT !.state = "firing", !.flaps = {}], "opened")

\* One bad sweep opens nothing: it takes a second.
OnIssue(r) ==
    LET base == [r EXCEPT !.blind = 0, !.seen = 0] IN
    [clear |-> Quiet([base EXCEPT !.state = "provisional"]),
     provisional |-> Told([base EXCEPT !.state = "firing"], "opened"),
     firing |-> WithReminder(base),
     flapping |-> IF r.flaps = {} THEN SettleFlapping(base) ELSE Quiet(base)][r.state]

OnObservedClear(r) ==
    LET base == [r EXCEPT !.blind = 0]
        flaps == r.flaps \cup {0}
        flapped == [base EXCEPT !.flaps = flaps]
        ends(quietly) ==
            IF Cardinality(flaps) > FlapThreshold
            THEN Told([flapped EXCEPT !.state = "flapping"], "flapping")
            ELSE IF quietly THEN Quiet([flapped EXCEPT !.state = "clear"])
            ELSE Told([flapped EXCEPT !.state = "clear"], "recovered")
    IN [clear |-> Quiet(base),
        provisional |-> ends(TRUE),
        firing |-> ends(FALSE),
        flapping |-> IF r.seen < FlapWindow THEN Quiet(flapped)
                     ELSE Told([base EXCEPT !.state = "clear", !.flaps = {}], "recovered")][r.state]

\* Not seen often enough is an incident of its own.
OnUnobserved(r) ==
    LET base == [r EXCEPT !.blind = IF @ < CoverageThreshold THEN @ + 1 ELSE @] IN
    IF base.blind >= CoverageThreshold /\ r.state # "firing"
    THEN Told([base EXCEPT !.state = "firing",
                           !.flaps = IF r.state = "flapping" THEN {} ELSE @], "opened")
    ELSE WithReminder(base)

AdvanceIncident(r, signal) ==
    [issue |-> OnIssue(r), clear |-> OnObservedClear(r),
     unobserved |-> OnUnobserved(r), suppressed |-> Quiet(r)][signal]

\* withUndelivered: the notes nobody got, the oldest of them forgotten first.
WithUndelivered(r, kind) ==
    [r EXCEPT !.undelivered =
        LET all == Append(@, kind) IN
        SubSeq(all, IF Len(all) > MaxUndelivered THEN 2 ELSE 1, Len(all))]
=============================================================================
