---------------------------- MODULE TraceConsole ----------------------------
(***************************************************************************)
(* The gateway's trace buffer (runtime/traces.ts) and the view of the      *)
(* workbench that follows it (views/inspect.ts): a poll every second, and  *)
(* filters the reader changes while answers are on their way.              *)
(*                                                                         *)
(* A trace is its run, its number in the run and a tag, which stands for   *)
(* what the filters tell apart; its size is Size[tag].                     *)
(***************************************************************************)
EXTENDS Integers, Sequences, FiniteSets, SequencesExt, FiniteSetsExt

CONSTANTS Tag, Size, All,        \* All: the filter that every trace matches
          MaxEntries, MaxBytes,  \* limits.maxTraceEntries, limits.maxTraceBytes
          CompactAt,             \* dropped entries kept before the array is rebuilt (1024)
          FirstLimit, NextLimit, \* page sizes without and with a cursor (200, 500)
          MaxRows,               \* rows the view keeps (1000)
          MaxTraces, MaxRuns, MaxResets, MaxFailures  \* bounds

ASSUME TraceAssumption ==
    /\ Size \in [Tag -> Nat] /\ All \notin Tag
    /\ {MaxEntries, MaxBytes, FirstLimit, NextLimit, MaxRows} \subseteq Nat \ {0}
    /\ {CompactAt, MaxTraces, MaxRuns, MaxResets, MaxFailures} \subseteq Nat

VARIABLES recorded,       \* every trace of each run, evicted ones too: recorded[run][seq]
          entries,   \* #entries: of this run, with the dropped ones not yet cut off
          head,      \* #head
          view,      \* renderInspect: [filter, generation, loading, cursor, rows]
          loads,     \* requests of the view: [generation, cursor, filter, answer]
          lost
traceVars == <<recorded, entries, head, view, loads, lost>>
viewVars == <<view, loads, lost>>

Run == Len(recorded)
NextSeq == Len(recorded[Run]) + 1
NoCursor == [run |-> 0, seq |-> 0]
Recent == [run |-> Run, seq |-> NextSeq - 1]

(***************************************************************************)
(* TraceBuffer                                                             *)
(***************************************************************************)
Bytes(held) ==
    LET sum[i \in 0 .. Len(held)] == IF i = 0 THEN 0 ELSE sum[i - 1] + Size[held[i].tag] IN sum[Len(held)]

Fits(held) == Len(held) <= MaxEntries /\ Bytes(held) <= MaxBytes

(* record: evicts the oldest until both limits hold, then cuts the dropped *)
(* ones off once they are most of the array.                               *)
Record(tag) ==
    LET trace == [run |-> Run, seq |-> NextSeq, tag |-> tag]
        pushed == Append(entries, trace)
        dropped == Min({h \in head .. Len(pushed) : Fits(SubSeq(pushed, h + 1, Len(pushed)))})
        compacts == dropped > CompactAt /\ dropped * 2 > Len(pushed)
    IN /\ recorded' = [recorded EXCEPT ![Run] = Append(@, trace)]
       /\ entries' = IF compacts THEN SubSeq(pushed, dropped + 1, Len(pushed)) ELSE pushed
       /\ head' = IF compacts THEN 0 ELSE dropped

Matches(filter, trace) == filter = All \/ trace.tag = filter

\* The traces of a log that match, in its order.
Matching(filter, log) ==
    LET upTo[i \in 0 .. Len(log)] ==
            IF i = 0 THEN <<>>
            ELSE IF Matches(filter, log[i]) THEN Append(upTo[i - 1], log[i]) ELSE upTo[i - 1]
    IN upTo[Len(log)]

OldestSeq == IF head < Len(entries) THEN entries[head + 1].seq ELSE NextSeq

Expired == [kind |-> "expired", items |-> <<>>, next |-> NoCursor]

Newest(filter) ==
    LET found == Matching(filter, SubSeq(entries, head + 1, Len(entries)))
    IN [kind |-> "page", next |-> Recent,
        items |-> SubSeq(found, Max({1, Len(found) - FirstLimit + 1}), Len(found))]

\* Mistake: the index is counted from the start of the array.
FirstAfterStart(after) == Max({0, after + 1 - OldestSeq}) + 1

FirstAfter(after) == head + Max({0, after + 1 - OldestSeq}) + 1

After(filter, cursor) ==
    LET first == FirstAfter(cursor.seq)
        found(i) == Cardinality({j \in first .. i : Matches(filter, entries[j])})
        examined == {i \in first .. Len(entries) : found(i - 1) < NextLimit}
        last == IF examined = {} THEN first - 1 ELSE Max(examined)
    IN IF cursor.run # Run \/ cursor.seq + 1 < OldestSeq THEN Expired
       ELSE [kind |-> "page",
             items |-> Matching(filter, SubSeq(entries, first, last)),
             next |-> IF examined = {} THEN cursor ELSE [run |-> Run, seq |-> entries[last].seq]]

Page(filter, cursor) == IF cursor = NoCursor THEN Newest(filter) ELSE After(filter, cursor)

(***************************************************************************)
(* What is traced                                                          *)
(***************************************************************************)
Traced == FoldLeft(LAMBDA sum, log : sum + Len(log), 0, recorded)

Traces(tag) ==
    /\ Traced < MaxTraces
    /\ Record(tag)
    /\ UNCHANGED viewVars

(* Another gateway takes its place: a new buffer under a new run ID.       *)
Restarts ==
    /\ Run < MaxRuns
    /\ recorded' = Append(recorded, <<>>) /\ entries' = <<>> /\ head' = 0
    /\ UNCHANGED viewVars

(***************************************************************************)
(* renderInspect                                                           *)
(***************************************************************************)
NoAnswer == [kind |-> "none"]

Load(v) == [generation |-> v.generation, cursor |-> v.cursor, filter |-> v.filter, answer |-> NoAnswer]

Reset(v, filter) ==
    [v EXCEPT !.filter = filter, !.generation = @ + 1, !.rows = <<>>, !.cursor = NoCursor, !.loading = TRUE]

(* load(true): a filter changed, or the reader reloads.                    *)
Reloads ==
    /\ view.generation < MaxResets
    /\ \E filter \in Tag \cup {All} : view' = Reset(view, filter)
    /\ loads' = loads \cup {Load(view')}
    /\ UNCHANGED <<recorded, entries, head, lost>>

(* load(false), by the timer.                                              *)
Tick ==
    /\ ~view.loading
    /\ view' = [view EXCEPT !.loading = TRUE]
    /\ loads' = loads \cup {Load(view)}
    /\ UNCHANGED <<recorded, entries, head, lost>>

(* GET /traces reaches the gateway, or fails on the way.                   *)
GatewayAnswers(c) ==
    /\ c.answer = NoAnswer
    /\ loads' = (loads \ {c}) \cup {[c EXCEPT !.answer = Page(c.filter, c.cursor)]}
    /\ UNCHANGED <<recorded, entries, head, view, lost>>

IsLost(c) ==
    /\ c.answer = NoAnswer /\ lost < MaxFailures
    /\ loads' = (loads \ {c}) \cup {[c EXCEPT !.answer = [kind |-> "error"]]}
    /\ lost' = lost + 1
    /\ UNCHANGED <<recorded, entries, head, view>>

Kept(rows) == SubSeq(rows, Max({1, Len(rows) - MaxRows + 1}), Len(rows))

IsCurrent(c) == c.generation = view.generation

Loaded(v) == [v EXCEPT !.loading = FALSE]

Shown(c) ==
    /\ c.answer.kind = "page"
    /\ view' = Loaded([view EXCEPT !.rows = Kept(@ \o c.answer.items), !.cursor = c.answer.next])
    /\ loads' = loads \ {c}

StartsOver(c) ==
    /\ c.answer.kind = "expired"
    /\ view' = Reset(view, view.filter)
    /\ loads' = (loads \ {c}) \cup {Load(view')}

Failed(c) ==
    /\ c.answer.kind = "error"
    /\ view' = Loaded(view)
    /\ loads' = loads \ {c}

Receives(c) ==
    /\ c.answer # NoAnswer
    /\ \/ IsCurrent(c) /\ (Shown(c) \/ StartsOver(c) \/ Failed(c))
       \/ ~IsCurrent(c) /\ loads' = loads \ {c} /\ UNCHANGED view
    /\ UNCHANGED <<recorded, entries, head, lost>>

TraceInit ==
    /\ recorded = << <<>> >> /\ entries = <<>> /\ head = 0
    /\ view = Reset([filter |-> All, generation |-> 0, loading |-> FALSE, cursor |-> NoCursor, rows |-> <<>>], All)
    /\ loads = {Load(view)}
    /\ lost = 0

TraceNext ==
    \/ \E tag \in Tag : Traces(tag)
    \/ Restarts
    \/ Reloads \/ Tick
    \/ \E c \in loads : GatewayAnswers(c) \/ IsLost(c) \/ Receives(c)

TraceSpec == TraceInit /\ [][TraceNext]_traceVars
=============================================================================
