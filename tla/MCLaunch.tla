------------------------------- MODULE MCLaunch -------------------------------
(***************************************************************************)
(* Two `up`s of one repository and one egress network, with two targets,   *)
(* on hosts that start clean, with a stopped relay, with one that forwards *)
(* elsewhere, or with an open network; without a config, with one checkout *)
(* for two workers, with no defined worker; and one host for each refusal. *)
(***************************************************************************)
EXTENDS Launch, TLC

Forwards == [r1 |-> "a", r2 |-> "b"]
Old(target, running) == [target |-> target, running |-> running, attached |-> TRUE]

Image ==
    [present |-> TRUE, labels |-> [pi |-> "as tagged"],
     checks |-> {"version", "uid", "read-only root", "tini", "write-through"}]
Mount == [kind |-> "dir", witness |-> FALSE, writable |-> TRUE, seen |-> "same"]
Good ==
    [processes |-> {[own |-> TRUE, programs |-> {"training"}]}, iKnow |-> FALSE,
     config |-> TRUE, double |-> FALSE, modelsAllowed |-> TRUE, secretsFound |-> TRUE,
     sensitive |-> TRUE, defined |-> {1, 2}, carriers |-> {1}, isolated |-> {1, 2}, consented |-> TRUE, images |-> {Image},
     flag |-> None, configured |-> "cmux", tui |-> {1}, attachHere |-> FALSE, tty |-> TRUE,
     bridged |-> TRUE, gated |-> TRUE, models |-> {"tool calls"}, cloneable |-> TRUE,
     mounts |-> {Mount, [Mount EXCEPT !.kind = "missing"], [Mount EXCEPT !.kind = "file"]},
     primary |-> FALSE, fallback |-> TRUE]
Refused ==
    {[Good EXCEPT !.processes = {[own |-> FALSE, programs |-> {"training"}]}],
     [Good EXCEPT !.consented = FALSE],
     [Good EXCEPT !.images = {[Image EXCEPT !.labels = << >>]}],
     [Good EXCEPT !.images = {Image, [Image EXCEPT !.checks = {"version"}]}],
     [Good EXCEPT !.mounts = {[Mount EXCEPT !.seen = "empty"]}],
     [Good EXCEPT !.mounts = {[Mount EXCEPT !.writable = FALSE]}],
     [Good EXCEPT !.flag = "headless"],
     [Good EXCEPT !.models = {"tool calls", "prose"}],
     [Good EXCEPT !.cloneable = FALSE], [Good EXCEPT !.fallback = FALSE]}
\* One worker mounts the repository, the other a checkout of its own; no named
\* worker is in the config; no config, and the double.
Mixed == [Good EXCEPT !.isolated = {2}]
Stranger == [Good EXCEPT !.defined = {}, !.carriers = {}, !.isolated = {}, !.tui = {},
                         !.images = {}, !.mounts = {}]
Bare == [Stranger EXCEPT !.config = FALSE, !.double = TRUE, !.configured = None,
                         !.bridged = FALSE]
Here == [Good EXCEPT !.flag = "headless", !.attachHere = TRUE]

Start(at, network, found, fail, kill, stuck) ==
    [site |-> at, net |-> network, relay |-> found, fail |-> fail, kill |-> kill, stuck |-> stuck]
Hosts ==
    {Start(Good, "absent", NoRelay, 1, 0, 1), Start(Good, "internal", Old("a", FALSE), 1, 0, 1),
     Start(Here, "internal", Old("b", TRUE), 0, 1, 1), Start(Good, "open", NoRelay, 0, 0, 0),
     Start(Mixed, "fenced", Old("a", TRUE), 1, 0, 0), Start(Stranger, "absent", NoRelay, 1, 0, 0),
     Start(Bare, "open", NoRelay, 1, 1, 0)}
    \cup {Start(at, "absent", NoRelay, 0, 0, 0) : at \in Refused \cup {[Bare EXCEPT !.double = FALSE]}}
=============================================================================
