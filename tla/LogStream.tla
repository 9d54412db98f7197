----------------------------- MODULE LogStream -----------------------------
(***************************************************************************)
(* The life of log streams: the registry of service.go (StartLogStream,    *)
(* FollowLogStream, StopLogStream and the goroutine of a stream) with the  *)
(* log viewer that opens, restarts and leaves them (LogViewer.vue, start   *)
(* and stop).  What the lines say is the matter of LogView.tla.            *)
(*                                                                         *)
(* The viewer runs start() when it is mounted and whenever the container   *)
(* or an option changes, and stop() for the Stop button and when it is     *)
(* unmounted.  Both wait for the backend, which runs each call on its own  *)
(* goroutine, and nothing keeps two of them apart.  An entry of the        *)
(* registry is named by the start() call it was reserved for.              *)
(***************************************************************************)
EXTENDS Naturals, Sequences

CONSTANTS
    Starts,   \* start() calls
    Halts,    \* stop() calls of the Stop button
    Unmount,  \* the stop() call of onBeforeUnmount
    None,     \* no key, no entry
    MaxLines  \* bound: lines of a stream

ASSUME LogStreamAssumption ==
    /\ Unmount \notin Starts \union Halts
    /\ Starts \intersect Halts = {}
    /\ None \notin Starts
    /\ MaxLines \in Nat

Stops == Starts \union Halts \union {Unmount}

VARIABLES
    vpc,       \* vpc[u]: where start() or stop() call u stands
    streamKey, \* the viewer's streamKey
    offKey,    \* the key offBatch, offPart, offEnd and offErr unsubscribe
    stopKey,   \* stopKey[u]: the key call u asks the backend to stop
    subs,      \* pairs <<key, call>>: the handlers call registered for key
    streaming, \* the viewer's streaming flag
    reg,       \* reg[k]: the entry under key k (Service.streams), or None
    started,   \* entries that were followed
    cancelled, \* entries whose context is cancelled
    followed,  \* followed[c]: the entry call c follows, or None
    gpc,       \* gpc[e]: where the goroutine of entry e stands
    sent,      \* sent[e]: lines emitted for entry e
    wire,      \* wire[e]: events of e not yet dispatched
    heard,     \* history: pairs <<call, entry>>: a handler of call got a line of entry
    missed,    \* history: entries with a line no handler was there for
    dropped    \* history: calls whose handlers were taken off

viewer   == <<vpc, streamKey, offKey, stopKey, subs, streaming>>
registry == <<reg, started, cancelled, followed>>
streams  == <<gpc, sent, wire>>
history  == <<heard, missed, dropped>>
vars     == <<viewer, registry, streams, history>>

TypeOK ==
    /\ vpc \in [Stops -> {"idle", "stop-called", "stop-returned", "stopped",
                          "start-called", "start-returned", "follow-called", "opening",
                          "follow-returned", "follow-failed", "done"}]
    /\ streamKey \in Starts \union {None}
    /\ offKey \in Starts \union {None}
    /\ stopKey \in [Stops -> Starts \union {None}]
    /\ subs \subseteq Starts \X Starts
    /\ streaming \in BOOLEAN
    /\ reg \in [Starts -> Starts \union {None}]
    /\ started \subseteq Starts
    /\ cancelled \subseteq Starts
    /\ followed \in [Starts -> Starts \union {None}]
    /\ gpc \in [Starts -> {"none", "pumping", "ended", "done"}]
    /\ sent \in [Starts -> 0..MaxLines]
    /\ wire \in [Starts -> Seq({"line", "error", "end"})]
    /\ heard \subseteq Starts \X Starts
    /\ missed \subseteq Starts
    /\ dropped \subseteq Starts

Init ==
    /\ vpc = [u \in Stops |-> "idle"]
    /\ streamKey = None
    /\ offKey = None
    /\ stopKey = [u \in Stops |-> None]
    /\ subs = {}
    /\ streaming = FALSE
    /\ reg = [k \in Starts |-> None]
    /\ started = {}
    /\ cancelled = {}
    /\ followed = [c \in Starts |-> None]
    /\ gpc = [e \in Starts |-> "none"]
    /\ sent = [e \in Starts |-> 0]
    /\ wire = [e \in Starts |-> <<>>]
    /\ heard = {}
    /\ missed = {}
    /\ dropped = {}

\* Mutant of Key: the key names the container only, without a number.
ContainerKey(c) == CHOOSE k \in Starts : TRUE

\* The key StartLogStream returns to a call: it carries a fresh number.
Key(c) == c

GoTo(u, there) == vpc' = [vpc EXCEPT ![u] = there]

\* finishStream: an entry is removed only if it is still the current one.
Without(e) == [reg EXCEPT ![Key(e)] = IF @ = e THEN None ELSE @]

-----------------------------------------------------------------------------
\* The viewer's stop(), which start() begins with.

\* Up to the first await.  Unsubscribing drops every handler of a name.
Begin(u) ==
    /\ vpc[u] = "idle"
    /\ vpc[Unmount] = "idle"
    /\ subs' = {s \in subs : s[1] # offKey}
    /\ dropped' = dropped \union {c \in Starts : <<offKey, c>> \in subs}
    /\ offKey' = None
    /\ \/ /\ streamKey # None
          /\ stopKey' = [stopKey EXCEPT ![u] = streamKey]
          /\ GoTo(u, "stop-called")
          /\ UNCHANGED streaming
       \/ /\ streamKey = None
          /\ streaming' = FALSE
          /\ GoTo(u, "stopped")
          /\ UNCHANGED stopKey
    /\ UNCHANGED <<streamKey, registry, streams, heard, missed>>

\* StopLogStream: an entry nobody followed has no goroutine to remove it.
StopLogStream(u) ==
    /\ vpc[u] = "stop-called"
    /\ LET e == reg[stopKey[u]] IN
       /\ cancelled' = cancelled \union ({e} \intersect Starts)
       /\ reg' = IF e \in started THEN reg ELSE [reg EXCEPT ![stopKey[u]] = None]
    /\ GoTo(u, "stop-returned")
    /\ UNCHANGED <<streamKey, offKey, stopKey, subs, streaming, started, followed, streams, history>>

Stopped(u) ==
    /\ vpc[u] = "stop-returned"
    /\ streamKey' = None
    /\ streaming' = FALSE
    /\ GoTo(u, "stopped")
    /\ UNCHANGED <<offKey, stopKey, subs, registry, streams, history>>

-----------------------------------------------------------------------------
\* The rest of the viewer's start().

Reset(c) ==
    /\ vpc[c] = "stopped"
    /\ streaming' = TRUE
    /\ GoTo(c, "start-called")
    /\ UNCHANGED <<streamKey, offKey, stopKey, subs, registry, streams, history>>

\* Mutant of StartLogStream: the stream is opened at once.
StartAndOpen(c) ==
    /\ vpc[c] = "start-called"
    /\ reg' = [reg EXCEPT ![Key(c)] = c]
    /\ started' = started \union {c}
    /\ gpc' = [gpc EXCEPT ![c] = "pumping"]
    /\ GoTo(c, "start-returned")
    /\ UNCHANGED <<streamKey, offKey, stopKey, subs, streaming, cancelled, followed, sent, wire, history>>

StartLogStream(c) ==
    /\ vpc[c] = "start-called"
    /\ reg' = [reg EXCEPT ![Key(c)] = c]
    /\ GoTo(c, "start-returned")
    /\ UNCHANGED <<streamKey, offKey, stopKey, subs, streaming, started, cancelled, followed, streams, history>>

Subscribe(c) ==
    /\ vpc[c] = "start-returned"
    /\ streamKey' = Key(c)
    /\ subs' = subs \union {<<Key(c), c>>}
    /\ offKey' = Key(c)
    /\ GoTo(c, "follow-called")
    /\ UNCHANGED <<stopKey, streaming, registry, streams, history>>

FollowLogStream(c) ==
    /\ vpc[c] = "follow-called"
    /\ LET e == reg[Key(c)] IN
       \/ /\ e \in Starts \ started
          /\ started' = started \union {e}
          /\ followed' = [followed EXCEPT ![c] = e]
          /\ GoTo(c, "opening")
       \/ /\ e \notin Starts \ started
          /\ GoTo(c, "follow-failed")
          /\ UNCHANGED <<started, followed>>
    /\ UNCHANGED <<streamKey, offKey, stopKey, subs, streaming, reg, cancelled, streams, history>>

\* The API server opens the stream, unless its context was cancelled before.
Opens(c) ==
    /\ vpc[c] = "opening"
    /\ followed[c] \notin cancelled
    /\ gpc' = [gpc EXCEPT ![followed[c]] = "pumping"]
    /\ GoTo(c, "follow-returned")
    /\ UNCHANGED <<streamKey, offKey, stopKey, subs, streaming, registry, sent, wire, history>>

\* Mutant of OpenFails: the entry stays in the registry.
OpenFailsOnly(c) ==
    /\ vpc[c] = "opening"
    /\ cancelled' = cancelled \union {followed[c]}
    /\ GoTo(c, "follow-failed")
    /\ UNCHANGED <<streamKey, offKey, stopKey, subs, streaming, reg, started, followed, streams, history>>

\* There is no client, the server refuses, or the context is cancelled.
OpenFails(c) ==
    /\ vpc[c] = "opening"
    /\ cancelled' = cancelled \union {followed[c]}
    /\ reg' = Without(followed[c])
    /\ GoTo(c, "follow-failed")
    /\ UNCHANGED <<streamKey, offKey, stopKey, subs, streaming, started, followed, streams, history>>

Followed(c) ==
    /\ vpc[c] = "follow-returned"
    /\ GoTo(c, "done")
    /\ UNCHANGED <<streamKey, offKey, stopKey, subs, streaming, registry, streams, history>>

\* Mutant of Failed: the flag is left as it is.
FailedOnly(c) ==
    /\ vpc[c] = "follow-failed"
    /\ GoTo(c, "done")
    /\ UNCHANGED <<streamKey, offKey, stopKey, subs, streaming, registry, streams, history>>

Failed(c) ==
    /\ vpc[c] = "follow-failed"
    /\ streaming' = FALSE
    /\ GoTo(c, "done")
    /\ UNCHANGED <<streamKey, offKey, stopKey, subs, registry, streams, history>>

-----------------------------------------------------------------------------
\* The goroutine of a followed stream.

\* A cancelled stream goes on emitting what it has read.
EmitLine(e) ==
    /\ gpc[e] = "pumping"
    /\ sent[e] < MaxLines
    /\ sent' = [sent EXCEPT ![e] = @ + 1]
    /\ wire' = [wire EXCEPT ![e] = Append(@, "line")]
    /\ UNCHANGED <<viewer, registry, gpc, history>>

PumpReturns(e, events) ==
    /\ gpc[e] = "pumping"
    /\ gpc' = [gpc EXCEPT ![e] = "ended"]
    /\ wire' = [wire EXCEPT ![e] = @ \o events]
    /\ cancelled' = cancelled \union {e}
    /\ UNCHANGED <<viewer, reg, started, followed, sent, history>>

\* The log ends, or a read fails because the context is cancelled.
LogEnds(e) == PumpReturns(e, <<"end">>)

\* A read fails although nobody cancelled it.
LogBreaks(e) == e \notin cancelled /\ PumpReturns(e, <<"error", "end">>)

Finish(e) ==
    /\ gpc[e] = "ended"
    /\ gpc' = [gpc EXCEPT ![e] = "done"]
    /\ reg' = Without(e)
    /\ UNCHANGED <<viewer, started, cancelled, followed, sent, wire, history>>

\* An event of e reaches the handlers registered for its name, if any.
Dispatch(e) ==
    /\ wire[e] # <<>>
    /\ wire' = [wire EXCEPT ![e] = Tail(@)]
    /\ LET hearers == {c \in Starts : <<Key(e), c>> \in subs} IN
       \/ /\ Head(wire[e]) = "line"
          /\ heard' = heard \union (hearers \X {e})
          /\ missed' = IF hearers = {} THEN missed \union {e} ELSE missed
          /\ UNCHANGED streaming
       \/ /\ Head(wire[e]) \in {"error", "end"}
          /\ streaming' = (streaming /\ hearers = {})
          /\ UNCHANGED <<heard, missed>>
    /\ UNCHANGED <<vpc, streamKey, offKey, stopKey, subs, registry, gpc, sent, dropped>>

-----------------------------------------------------------------------------
StopCall(u) == Begin(u) \/ StopLogStream(u) \/ Stopped(u)

StartCall(c) ==
    \/ Reset(c) \/ StartLogStream(c) \/ Subscribe(c) \/ FollowLogStream(c)
    \/ Opens(c) \/ OpenFails(c) \/ Followed(c) \/ Failed(c)

Stream(e) == EmitLine(e) \/ LogEnds(e) \/ LogBreaks(e) \/ Finish(e) \/ Dispatch(e)

Next ==
    \/ \E u \in Stops : StopCall(u)
    \/ \E c \in Starts : StartCall(c) \/ Stream(c)

Spec == Init /\ [][Next]_vars

(***************************************************************************)
(* Fairness.  What the backend runs goes on, a request or a read whose     *)
(* context is cancelled returns, and events are dispatched.  Neither the   *)
(* API server's answer nor the end of a log is taken for granted.          *)
(***************************************************************************)
Fairness ==
    /\ \A u \in Stops : WF_vars(StopLogStream(u) \/ Stopped(u))
    /\ \A c \in Starts :
          /\ WF_vars(Reset(c) \/ StartLogStream(c) \/ Subscribe(c) \/ FollowLogStream(c))
          /\ WF_vars(followed[c] \in cancelled /\ OpenFails(c))
          /\ WF_vars(Followed(c) \/ Failed(c))
          /\ WF_vars(c \in cancelled /\ LogEnds(c))
          /\ WF_vars(Finish(c))
          /\ WF_vars(Dispatch(c))

FairSpec == Spec /\ Fairness

-----------------------------------------------------------------------------
\* Properties.

\* StartLogStream: "a fast pod can produce it quicker than the frontend can
\* register handlers, silently losing the first lines".  However fast, no line
\* of a stream is dispatched without a handler before the viewer let go of it.
NoLineMissed == missed \subseteq dropped

\* "A unique key also isolates every restart": a handler hears the stream its
\* start() reserved and no other, however long a cancelled one still drains.
OwnLinesOnly == \A h \in heard : h[1] = h[2]

\* A stream that runs and was not cancelled is where StopLogStream looks for
\* it, under its own key, with restarts, failures and stale goroutines.
RunningCanBeStopped ==
    \A e \in Starts \ cancelled : gpc[e] = "pumping" => reg[Key(e)] = e

\* A stopped stream, and one that failed to open or ended, leaves the registry
\* and its goroutine ends, whether or not it was followed in the meantime.
CancelledLeave ==
    \A e \in Starts :
        e \in cancelled ~> gpc[e] \in {"none", "done"} /\ reg[Key(e)] # e

Busy(u) == vpc[u] \notin {"idle", "done"} /\ (u \in Starts \/ vpc[u] # "stopped")

\* Once its calls have returned, a viewer that says it is streaming has
\* handlers on a stream that runs, or whose end is still to be heard.
StreamingIsTrue ==
    streaming /\ (\A u \in Stops : ~Busy(u)) =>
        \E s \in subs : \E e \in Starts :
            /\ s[1] = Key(e)
            /\ gpc[e] = "pumping" \/ wire[e] # <<>>
=============================================================================
