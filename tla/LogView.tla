------------------------------ MODULE LogView ------------------------------
(***************************************************************************)
(* One container's log on its way to the screen: the splitter              *)
(* (internal/kube/logs.go), the pump that batches its tokens into events   *)
(* (service.go, pumpLogStream) and the viewer that joins the pieces of a   *)
(* long line, buffers, filters and evicts (LogViewer.vue).                 *)
(*                                                                         *)
(* A token is what the splitter yields: a line, the last piece of a line,  *)
(* or (partial) a piece that is not the last.  A token is named by its     *)
(* position in log, a text is the sequence of its tokens, and a blank      *)
(* token adds nothing to a text.  What a query finds is the kind of a      *)
(* token.  The viewer follows one stream; LogStream.tla is about           *)
(* restarting it.                                                          *)
(***************************************************************************)
EXTENDS Naturals, Sequences, FiniteSets, SequencesExt, FiniteSetsExt

CONSTANTS
    Kinds,       \* what queries look for
    Blank,       \* no query; the kind of a blank token
    BatchSize,   \* logBatchSize
    BufferSize,  \* MAX_LINES
    MaxPartial,  \* MAX_PARTIAL, in pieces
    CommitChunk, \* rows a rebuild commits per frame
    MaxTokens,   \* bound: tokens of the log
    MaxChanges   \* bound: things the user does

ASSUME LogViewAssumption ==
    /\ Blank \notin Kinds
    /\ {BatchSize, BufferSize, CommitChunk} \subseteq Nat \ {0}
    /\ {MaxPartial, MaxTokens, MaxChanges} \subseteq Nat

VARIABLES
    log,       \* the tokens read so far
    ended,     \* whether the scan is over
    pending,   \* pumpLogStream: texts of the batch being filled
    emitted,   \* events emitted and not yet heard
    partial,   \* pieces of the line that has not ended
    buf,       \* the buffer: raw lines, rows shown, rows that match, next number
    late,      \* lines that wait for a rebuild (pendingLines)
    rebuild,   \* the rebuild in flight
    query,     \* what the user searches for
    only,      \* whether only matches are shown
    changes,   \* how often the user did something
    due        \* history: tokens that came after the last Clear, or were on their way

pump     == <<log, ended, pending>>
screen   == <<partial, buf, late, rebuild, due>>
user     == <<query, only, changes>>
textVars == <<pump, emitted, screen, user>>

Texts == Seq(1..MaxTokens)
Rows  == [seq : Nat, text : Texts, hit : BOOLEAN]
Idle  == [on |-> FALSE, pos |-> 0, rows |-> <<>>, committed |-> 0]
Empty == [raw |-> <<>>, view |-> <<>>, matches |-> <<>>, next |-> 0]

\* What waits on the way to the screen: a batch that is not full, a line that
\* may still be joined, the lines the buffer has room for.
MemoryBounded ==
    /\ Len(pending) < BatchSize
    /\ Len(partial) <= MaxPartial
    /\ Len(buf.raw) <= BufferSize

TextTypeOK ==
    /\ MemoryBounded
    /\ log \in Seq([kind : Kinds \union {Blank}, partial : BOOLEAN])
    /\ ended \in BOOLEAN
    /\ pending \in Seq(Texts)
    /\ emitted \in Seq([name : {"batch", "part", "end"}, lines : Seq(Texts)])
    /\ partial \in Texts
    /\ buf.raw \in Seq([seq : Nat, text : Texts])
    /\ buf.view \in Seq(Rows)
    /\ buf.matches \in Seq(Nat)
    /\ buf.next \in Nat
    /\ late \in Seq(Texts)
    /\ rebuild \in [on : BOOLEAN, pos : 0..BufferSize, rows : Seq(Rows), committed : Nat]
    /\ query \in Kinds \union {Blank}
    /\ only \in BOOLEAN
    /\ changes \in 0..MaxChanges
    /\ due \subseteq 1..MaxTokens

TextInit ==
    /\ log = <<>>
    /\ ended = FALSE
    /\ pending = <<>>
    /\ emitted = <<>>
    /\ partial = <<>>
    /\ buf = Empty
    /\ late = <<>>
    /\ rebuild = Idle
    /\ query = Blank
    /\ only = FALSE
    /\ changes = 0
    /\ due = {}

-----------------------------------------------------------------------------
\* The pump.  The scan hands over one token at a time on an unbuffered
\* channel, so reading a token and handling it is one step.

Batch(lines) == IF lines = <<>> THEN <<>> ELSE <<[name |-> "batch", lines |-> lines]>>
Part(text)   == <<[name |-> "part", lines |-> <<text>>]>>
End          == <<[name |-> "end", lines |-> <<>>]>>

Text(kind) == IF kind = Blank THEN <<>> ELSE <<Len(log) + 1>>

Read(kind, isPartial) ==
    /\ ~ended
    /\ Len(log) < MaxTokens
    /\ log' = Append(log, [kind |-> kind, partial |-> isPartial])
    /\ due' = due \union Range(Text(kind))
    /\ UNCHANGED <<ended, partial, buf, late, rebuild, user>>

TakeLine(kind) ==
    /\ Read(kind, FALSE)
    /\ LET lines == Append(pending, Text(kind)) IN
       IF Len(lines) >= BatchSize
         THEN /\ emitted' = emitted \o Batch(lines)
              /\ pending' = <<>>
         ELSE /\ pending' = lines
              /\ UNCHANGED emitted

\* Mutant of TakePiece: the pending lines are not flushed first.
TakePieceAtOnce(kind) ==
    /\ Read(kind, TRUE)
    /\ emitted' = emitted \o Part(Text(kind))
    /\ UNCHANGED pending

TakePiece(kind) ==
    /\ Read(kind, TRUE)
    /\ emitted' = emitted \o Batch(pending) \o Part(Text(kind))
    /\ pending' = <<>>

\* Mutant of Tick: only a full batch is flushed, and a full one never waits.
TickWhenFull ==
    /\ ~ended
    /\ Len(pending) >= BatchSize
    /\ emitted' = emitted \o Batch(pending)
    /\ pending' = <<>>
    /\ UNCHANGED <<log, ended, screen, user>>

Tick ==
    /\ ~ended
    /\ pending # <<>>
    /\ emitted' = emitted \o Batch(pending)
    /\ pending' = <<>>
    /\ UNCHANGED <<log, ended, screen, user>>

\* The log ends, or reading it fails: the rest is flushed, then the goroutine
\* of FollowLogStream emits the end.
ScanEnds ==
    /\ ~ended
    /\ ended' = TRUE
    /\ emitted' = emitted \o Batch(pending) \o End
    /\ pending' = <<>>
    /\ UNCHANGED <<log, screen, user>>

-----------------------------------------------------------------------------
\* The buffer.

Matches(text) == query # Blank /\ \E i \in 1..Len(text) : log[text[i]].kind = query

\* The n-th position of K, and the entries of s at the positions K, in order.
Nth(K, n)       == CHOOSE i \in K : Cardinality({k \in K : k <= i}) = n
Selection(s, K) == [n \in 1..Cardinality(K) |-> s[Nth(K, n)]]

\* The rows to show of the lines given, under the present query.
Row(line)    == [seq |-> line.seq, text |-> line.text, hit |-> Matches(line.text)]
Wanted(line) == only /\ query # Blank => Matches(line.text)
Shown(lines) ==
    Selection([i \in DOMAIN lines |-> Row(lines[i])], {i \in DOMAIN lines : Wanted(lines[i])})

\* The numbers of the rows that match.
Hits(rows) == Selection([i \in DOMAIN rows |-> rows[i].seq], {i \in DOMAIN rows : rows[i].hit})

\* The entries kept of s, whose entry i is of line numbers[i].  When no line is
\* left to keep Array.findIndex gives -1, and nothing is cut.
KeptFrom(first, s, numbers) ==
    LET kept == {i \in DOMAIN s : numbers[i] >= first}
    IN IF kept = {} THEN s ELSE SubSeq(s, Min(kept), Len(s))

\* Mutant of Full: it allows one line more.
OverFull(raw) == Len(raw) > BufferSize + 1

Full(raw) == Len(raw) > BufferSize

Evict(raw, view, matches, next) ==
    LET oldest == Len(raw) - BufferSize + 1
        first  == raw[oldest].seq
    IN IF Full(raw)
         THEN [raw     |-> SubSeq(raw, oldest, Len(raw)),
               view    |-> KeptFrom(first, view, [i \in DOMAIN view |-> view[i].seq]),
               matches |-> KeptFrom(first, matches, matches),
               next    |-> next]
         ELSE [raw |-> raw, view |-> view, matches |-> matches, next |-> next]

\* applyLines: append, then evict.
Apply(b, texts) ==
    LET lines == [i \in DOMAIN texts |-> [seq |-> b.next + i - 1, text |-> texts[i]]]
    IN Evict(b.raw \o lines, b.view \o Shown(lines), b.matches \o Hits(Shown(lines)),
             b.next + Len(texts))

\* Mutant of Push: lines are applied while a rebuild is in flight.
PushAlways(texts) ==
    /\ buf' = Apply(buf, texts)
    /\ UNCHANGED late

Push(texts) ==
    IF rebuild.on
      THEN /\ late' = late \o texts
           /\ UNCHANGED buf
      ELSE /\ buf' = Apply(buf, texts)
           /\ UNCHANGED late

-----------------------------------------------------------------------------
\* The viewer's event handlers.

Hear(name) ==
    /\ emitted # <<>>
    /\ Head(emitted).name = name
    /\ emitted' = Tail(emitted)
    /\ UNCHANGED <<pump, rebuild, due, user>>

\* Lines travel joined by line feeds: a batch of one blank line is the empty
\* string, which the handler ignores.
OnBatch ==
    /\ Hear("batch")
    /\ LET lines == Head(emitted).lines IN
       IF lines = <<<<>>>>
         THEN UNCHANGED <<partial, buf, late>>
         ELSE /\ Push(<<partial \o lines[1]>> \o Tail(lines))
              /\ partial' = <<>>

OnPart ==
    /\ Hear("part")
    /\ LET line == partial \o Head(emitted).lines[1] IN
       IF Len(line) > MaxPartial
         THEN /\ Push(<<line>>)
              /\ partial' = <<>>
         ELSE /\ partial' = line
              /\ UNCHANGED <<buf, late>>

OnEnd ==
    /\ Hear("end")
    /\ IF partial # <<>>
         THEN Push(<<partial>>)
         ELSE UNCHANGED <<buf, late>>
    /\ partial' = <<>>

-----------------------------------------------------------------------------
\* The user.

\* A change of the query or of the filter starts a rebuild, which supersedes
\* the one in flight.
Change ==
    /\ changes < MaxChanges
    /\ changes' = changes + 1
    /\ rebuild' = [Idle EXCEPT !.on = TRUE]
    /\ UNCHANGED <<pump, emitted, partial, buf, late, due>>

Search(q) == query' = q /\ query # q /\ only' = only /\ Change
Filter    == only' = ~only /\ query' = query /\ Change

\* The tokens of texts, and those on their way to the viewer.
Tokens(texts) == UNION {Range(texts[i]) : i \in DOMAIN texts}
InTransit == (UNION {Tokens(emitted[e].lines) : e \in DOMAIN emitted}) \union Tokens(pending)

\* resetBuffer: Clear, and a restart.
Clear ==
    /\ changes < MaxChanges
    /\ changes' = changes + 1
    /\ partial' = <<>>
    /\ buf' = Empty
    /\ late' = <<>>
    /\ rebuild' = Idle
    /\ due' = InTransit
    /\ UNCHANGED <<pump, emitted, query, only>>

-----------------------------------------------------------------------------
\* The frames of a rebuild.

ShowLate(b) ==
    /\ buf' = Apply(b, late)
    /\ late' = <<>>

\* A frame cuts the old view by a chunk when it is much longer than the new
\* one, shows a chunk more of the new one, or finishes.
Commit(rows, from) ==
    LET to == Min({from + CommitChunk, Len(rows)})
        finished == [buf EXCEPT !.view = rows, !.matches = Hits(rows)]
    IN IF Len(buf.view) > to + CommitChunk
         THEN /\ buf' = [buf EXCEPT !.view = SubSeq(@, 1, Len(@) - CommitChunk)]
              /\ rebuild' = [rebuild EXCEPT !.pos = Len(buf.raw), !.rows = rows]
              /\ UNCHANGED late
       ELSE IF to < Len(rows)
         THEN /\ buf' = [buf EXCEPT !.view = SubSeq(rows, 1, to)]
              /\ rebuild' = [rebuild EXCEPT !.pos = Len(buf.raw), !.rows = rows,
                                            !.committed = to]
              /\ UNCHANGED late
         ELSE /\ ShowLate(finished)
              /\ rebuild' = Idle

\* A scan frame reads up to some row it keeps, for as long as it has time, or
\* to the end and goes on to commit.
Scan(to) ==
    LET rows == rebuild.rows \o Shown(SubSeq(buf.raw, rebuild.pos + 1, to))
    IN \/ /\ Wanted(buf.raw[to])
          /\ rebuild' = [rebuild EXCEPT !.pos = to, !.rows = rows]
          /\ UNCHANGED <<buf, late>>
       \/ /\ to = Len(buf.raw)
          /\ Commit(rows, 0)

Frame ==
    /\ rebuild.on
    /\ IF rebuild.pos < Len(buf.raw)
         THEN \E to \in rebuild.pos + 1 .. Len(buf.raw) : Scan(to)
         ELSE Commit(rebuild.rows, rebuild.committed)
    /\ UNCHANGED <<pump, emitted, partial, due, user>>

-----------------------------------------------------------------------------
Listen == OnBatch \/ OnPart \/ OnEnd

TextNext ==
    \/ \E kind \in Kinds \union {Blank} : TakeLine(kind)
    \/ \E kind \in Kinds : TakePiece(kind)
    \/ Tick
    \/ ScanEnds
    \/ Listen
    \/ \E q \in Kinds \union {Blank} : Search(q)
    \/ Filter
    \/ Clear
    \/ Frame

TextSpec == TextInit /\ [][TextNext]_textVars

(***************************************************************************)
(* Fairness.  The ticker of the pump fires, the webview runs the handlers  *)
(* of the events it is sent, and it draws frames (while the window shows). *)
(***************************************************************************)
FairTextSpec == TextSpec /\ WF_textVars(Tick) /\ WF_textVars(Listen) /\ WF_textVars(Frame)

-----------------------------------------------------------------------------
\* Properties.

\* A text, and texts, in the order of the log.
Before(S, T) == \A x \in S, y \in T : x < y
Rising(text) == \A i, j \in DOMAIN text : i < j => text[i] < text[j]
InOrder(texts) ==
    /\ \A i \in DOMAIN texts : Rising(texts[i])
    /\ \A i, j \in DOMAIN texts : i < j => Before(Range(texts[i]), Range(texts[j]))

\* Where texts are between the container and the buffer, the oldest first, and
\* their tokens.
Buffered == [i \in DOMAIN buf.raw |-> buf.raw[i].text]
Stages ==
    <<Buffered, late, <<partial>>>> \o [e \in DOMAIN emitted |-> emitted[e].lines] \o <<pending>>
OnTheWay == UNION {Tokens(Stages[i]) : i \in DOMAIN Stages}

\* pumpLogStream: "pieces never overtake the lines that precede them".  From
\* the scan to the buffer no text is lost, duplicated or reordered, rebuilds
\* or not; only a full buffer drops text, and it drops the oldest.
TextKeptInOrder ==
    /\ \A i \in DOMAIN Stages : InOrder(Stages[i])
    /\ \A i, j \in DOMAIN Stages : i < j => Before(Tokens(Stages[i]), Tokens(Stages[j]))
    /\ OnTheWay \subseteq due
    /\ \A x \in OnTheWay, y \in due : x < y => y \in OnTheWay
    /\ buf.next <= BufferSize => due \subseteq OnTheWay

\* Outside a rebuild the view ends with exactly the rows the query and the
\* filter select from the buffer, with the matches they have now.  (Rows that
\* were evicted may stay before them: KeptFrom.)
ViewShowsBuffer ==
    ~rebuild.on =>
        /\ IsSuffix(Shown(buf.raw), buf.view)
        /\ IsSuffix(Hits(Shown(buf.raw)), buf.matches)

\* A user who lets a rebuild finish sees every line that was sent: rebuilds
\* end, and nothing is left on the wire, in the pump or waiting.
EverythingArrives ==
    <>[](emitted = <<>> /\ pending = <<>> /\ late = <<>> /\ ~rebuild.on)
=============================================================================
