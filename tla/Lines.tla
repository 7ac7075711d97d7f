-------------------------------- MODULE Lines ---------------------------------
(***************************************************************************)
(* The line files that every reader of a run follows: how one is replaced   *)
(* (util/jsonl.ts), how a poll of one that may be truncated, rewritten or  *)
(* replaced gives its lines, and how a session transcript is put together  *)
(* from them (harvest/transcript.ts) and the end of an event log is cut    *)
(* (monitor/read/events.ts).                                               *)
(*                                                                         *)
(* A file is [id, data]: its identity (device, inode, birth) and its bytes *)
(* as a sequence of symbols, of which Newline ends a line.  A fingerprint  *)
(* is the bytes it digests.                                                *)
(***************************************************************************)
EXTENDS Naturals, Sequences, SequencesExt, FiniteSetsExt

CONSTANTS MaxLine,      \* MAX_LINE_UNITS
          HeadBytes,    \* HEAD_FINGERPRINT_BYTES
          TailBytes     \* TAIL_FINGERPRINT_BYTES

Newline == 0

-----------------------------------------------------------------------------
(* Writing.                                                                *)

\* writeTextAtomic: the body goes to a file of its own and takes the path by a
\* rename, so the path names the whole of one body or the other; a failure
\* before the rename leaves the path alone.
WriteTextAtomic(file, body, failsAt) ==
    IF failsAt \in {"open", "write", "sync", "rename"} THEN file
    ELSE [id |-> file.id + 1, data |-> body]

-----------------------------------------------------------------------------
(* LineSplitter.                                                           *)

Splitter == [buffer |-> <<>>, resync |-> FALSE]

\* The ended lines of a text, and what follows the last of them.
Cut(text) ==
    FoldLeft(LAMBDA cut, c :
                IF c = Newline THEN [lines |-> Append(cut.lines, cut.rest), rest |-> <<>>]
                ELSE [cut EXCEPT !.rest = Append(@, c)],
             [lines |-> <<>>, rest |-> <<>>], text)

\* A line over the cap stops the drain: what was complete before it is given
\* with the error, and what follows it waits for the next push.
Drain(text) ==
    LET cut == Cut(text)
        long == SelectInSeq(cut.lines, LAMBDA line : Len(line) > MaxLine)
        past == FoldLeft(LAMBDA n, line : n + Len(line) + 1, 0, SubSeq(cut.lines, 1, long))
    IN IF long > 0
       THEN [out |-> SubSeq(cut.lines, 1, long - 1), threw |-> TRUE,
             splitter |-> [buffer |-> SubSeq(text, past + 1, Len(text)), resync |-> FALSE]]
       ELSE IF Len(cut.rest) > MaxLine
       THEN [out |-> cut.lines, threw |-> TRUE, splitter |-> [buffer |-> <<>>, resync |-> TRUE]]
       ELSE [out |-> cut.lines, threw |-> FALSE,
             splitter |-> [buffer |-> cut.rest, resync |-> FALSE]]

Push(splitter, chunk) ==
    LET text == splitter.buffer \o chunk
        end == SelectInSeq(text, LAMBDA c : c = Newline)
    IN IF ~splitter.resync THEN Drain(text)
       ELSE IF end = 0
       THEN [out |-> <<>>, threw |-> FALSE, splitter |-> [buffer |-> <<>>, resync |-> TRUE]]
       ELSE Drain(SubSeq(text, end + 1, Len(text)))

-----------------------------------------------------------------------------
(* TailReader: a poll looks at the file (stat, then the fingerprints) and  *)
(* takes what lies between its offset and the size it saw.                 *)

Reader == [offset |-> 0, identity |-> 0, size |-> 0, head |-> <<>>, tail |-> <<>>,
           splitter |-> Splitter, restarts |-> 0, given |-> <<>>]

\* The bytes of a file from start, n of them; a short read proves nothing.
Bytes(file, start, n) == SubSeq(file.data, start + 1, start + n)
Differs(file, start, print) ==
    /\ print # <<>>
    /\ Len(file.data) >= start + Len(print)
    /\ Bytes(file, start, Len(print)) # print

HeadChanged(reader, file) == Differs(file, 0, reader.head)
TailUnchecked(reader, file) == FALSE
TailChanged(reader, file) == Differs(file, reader.offset - Len(reader.tail), reader.tail)

RestartReasons(reader, file) ==
    IF reader.identity = 0 THEN {}
    ELSE {r \in {"shrank", "replaced", "head_rewritten", "tail_rewritten"} :
            CASE r = "shrank" -> Len(file.data) < reader.offset
              [] r = "replaced" -> file.id # reader.identity
              [] r = "head_rewritten" -> HeadChanged(reader, file)
              [] r = "tail_rewritten" -> TailChanged(reader, file)}

\* The first half of a poll.  A restart forgets the file that was followed and
\* every line cut from it.
Look(reader, file) ==
    LET kept == IF RestartReasons(reader, file) = {} THEN reader
                ELSE [Reader EXCEPT !.restarts = reader.restarts + 1]
    IN [kept EXCEPT !.identity = file.id, !.size = Len(file.data)]

\* The second half.  The head is fingerprinted once, the tail after every read.
Take(reader, file) ==
    LET bytes == SubSeq(file.data, reader.offset + 1, Min({reader.size, Len(file.data)}))
        offset == reader.offset + Len(bytes)
        head == Min({offset, HeadBytes})
        tail == Min({offset, TailBytes})
        whole(n) == n > 0 /\ Len(file.data) >= n
        pushed == Push(reader.splitter, bytes)
    IN IF reader.size <= reader.offset THEN reader
       ELSE [reader EXCEPT
               !.offset = offset,
               !.head = IF @ = <<>> /\ whole(head) THEN Bytes(file, 0, head) ELSE @,
               !.tail = IF whole(offset) THEN Bytes(file, offset - tail, tail) ELSE @,
               !.splitter = pushed.splitter,
               !.given = @ \o pushed.out]

-----------------------------------------------------------------------------
(* The end of an event log, for one worker's view.                         *)

\* readEventTail: the first line of a clipped window is not trusted, a line
\* over the cap fails the region, and the line being written is not shown.
ReadEventTail(present, data, window) ==
    LET start == IF Len(data) > window THEN Len(data) - window ELSE 0
        pushed == Push(Splitter, SubSeq(data, start + 1, Len(data)))
    IN IF ~present THEN [status |-> "ok", lines |-> <<>>, clipped |-> FALSE]
       ELSE IF pushed.threw THEN [status |-> "failed", lines |-> <<>>, clipped |-> start > 0]
       ELSE [status |-> "ok", clipped |-> start > 0,
             lines |-> IF start > 0 /\ pushed.out # <<>> THEN Tail(pushed.out) ELSE pushed.out]

-----------------------------------------------------------------------------
(* A session transcript: a header, then entries that name their parent.    *)

\* classifySession.
ClassifySession(recorded, exists, wasPresent) ==
    CASE ~recorded -> "unrecorded"
      [] recorded /\ exists -> "present"
      [] OTHER -> IF wasPresent THEN "missing_after_present" ELSE "never_created"

\* TranscriptReader.poll: a second header begins the session again, an entry
\* seen before is replaced where it stands, and what is neither is counted.
Learn(entries, records) ==
    FoldLeft(LAMBDA read, r :
        LET at == SelectInSeq(read, LAMBDA e : e.id = r.id)
        IN CASE r.is = "header" -> <<>>
             [] r.is = "malformed" -> read
             [] OTHER -> IF at > 0 THEN [read EXCEPT ![at] = r] ELSE Append(read, r),
        entries, records)

\* activePath: from the last entry up to a root, and no further up than what a
\* compaction kept.  A link that is missing or comes round again leaves the
\* path incomplete.
Above(entries, ids) ==
    LET entry(id) == entries[SelectInSeq(entries, LAMBDA e : e.id = id)]
        Climb[k \in 0..Len(entries)] ==
            IF k = 0 THEN [up |-> <<Last(entries)>>, ends |-> "open"]
            ELSE LET path == Climb[k - 1]
                     parent == Last(path.up).parent
                 IN CASE path.ends # "open" -> path
                      [] parent = "none" -> [path EXCEPT !.ends = "root"]
                      [] parent \notin ids -> [path EXCEPT !.ends = "missing"]
                      [] \E e \in ToSet(path.up) : e.id = parent -> [path EXCEPT !.ends = "cycle"]
                      [] OTHER -> [path EXCEPT !.up = Append(@, entry(parent))]
    IN Climb[Len(entries)]
ActivePath(entries) ==
    LET path == Above(entries, {e.id : e \in ToSet(entries)})
        compaction == SelectInSeq(path.up, LAMBDA e : e.is = "compaction")
        kept == SelectInSeq(path.up, LAMBDA e : e.id = path.up[compaction].kept)
    IN IF entries = <<>> THEN [entries |-> <<>>, complete |-> TRUE]
       ELSE IF compaction = 0
       THEN [entries |-> Reverse(path.up), complete |-> path.ends = "root"]
       ELSE [entries |-> Reverse(IF kept > compaction THEN SubSeq(path.up, 1, kept) ELSE path.up),
             complete |-> path.ends = "root" /\ kept > 0]

\* reconstruct: what a transcript alone can say of a task.  Nothing in it is a
\* success.
Reconstruct(entries) ==
    LET path == ActivePath(entries)
        spoken == SelectSeq(path.entries, LAMBDA e : e.is = "assistant")
    IN [complete |-> path.complete, turns |-> Len(spoken),
        verdict |-> IF spoken = <<>> THEN "unknown"
                    ELSE CASE Last(spoken).stop = "aborted" -> "aborted"
                           [] Last(spoken).stop = "error" -> "failed"
                           [] OTHER -> "unknown",
        usage |-> FoldLeft(LAMBDA n, e : IF e.is = "assistant" THEN n + e.tokens ELSE n, 0, entries)]
=============================================================================
