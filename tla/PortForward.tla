---------------------------- MODULE PortForward ----------------------------
(***************************************************************************)
(* The port-forward part of the backend: the registry of service.go (one   *)
(* entry per running forward, guarded by pfMu) and the session of          *)
(* internal/kube/portforward.go under each entry.                          *)
(*                                                                         *)
(* Every goroutine is a process of its own: the StartPortForward calls,    *)
(* the lifecycle goroutine and the context watchdog of each forward, the   *)
(* StopPortForward calls, and the calls (Connect, Shutdown) that tear      *)
(* every forward down.  A critical section of pfMu is one action; what the *)
(* code does between two critical sections is an action of its own, so a   *)
(* status event is emitted after the lock that produced it is released.    *)
(*                                                                         *)
(* A forward is named by the StartPortForward call that makes it: the call *)
(* takes a fresh "pf-%d" id from an atomic counter, so the two never       *)
(* disagree.                                                               *)
(***************************************************************************)
EXTENDS Naturals, Sequences, FiniteSets

CONSTANTS Starts,      \* StartPortForward calls
          Targets,     \* (namespace, pod, remote port) triples
          Stops,       \* StopPortForward calls
          Connects,    \* Connect calls
          Shutdowns    \* Shutdown calls (the application closes at most once)

ASSUME CallsAreDisjoint ==
    /\ Connects \intersect Shutdowns = {}
    /\ Targets # {}

VARIABLES
    target,    \* target[c]: what StartPortForward call c is asked to reach
    spc,       \* spc[c]: where StartPortForward call c stands
    built,     \* built[c]: generations of the connection session c was built on
    stopped,   \* stopped[c]: stopCh of session c is closed
    ready,     \* ready[c]: readyCh of session c is closed
    result,    \* result[c]: what ForwardPorts returned, "none" while it runs
    registry,  \* the keys of Service.forwards
    state,     \* state[c]: entry.state
    teardown,  \* teardown[c]: entry.teardown
    lpc,       \* lpc[c]: where the lifecycle goroutine of c stands
    xpc,       \* xpc[s]: where StopPortForward call s stands
    aim,       \* aim[s]: the id StopPortForward call s is given
    kpc,       \* kpc[k]: where Connect or Shutdown call k stands
    todo,      \* todo[k]: entries stopAllPortForwards has still to stop
    conn,      \* generation of the connection the kube client holds
    quit,      \* the application context is cancelled
    pend,      \* pend[a]: the event goroutine a has still to emit
    emitted    \* emitted[c]: the "portforward:status" states emitted for c

tearers == Connects \union Shutdowns

\* The goroutines that emit: a start call, a lifecycle, a stop call.
Emitters ==
    {<<"start", c>> : c \in Starts} \union {<<"life", c>> : c \in Starts}
        \union {<<"stop", s>> : s \in Stops}

session == <<built, stopped, ready, result>>
entries == <<registry, state, teardown>>
events  == <<pend, emitted>>
starter == <<target, spc>>
stopper == <<xpc, aim>>
tearer  == <<kpc, todo, conn>>

vars == <<target, spc, built, stopped, ready, result, registry, state, teardown,
          lpc, xpc, aim, kpc, todo, conn, quit, pend, emitted>>

States    == {"starting", "active", "stopped", "failed"}
Terminal  == {"stopped", "failed"}

StartPC == {"idle", "checked", "client", "opened", "lost", "discarded",
            "registered", "announcing", "returned", "refused"}
LifePC  == {"none", "starting", "timedOut", "active", "finishing", "done"}
StopPC  == {"idle", "looked", "signalled", "done"}
TearPC  == {"idle", "installed", "stopping", "done"}

TypeOK ==
    /\ target \in [Starts -> Targets]
    /\ spc \in [Starts -> StartPC]
    /\ built \in [Starts -> SUBSET Nat]
    /\ stopped \in [Starts -> BOOLEAN]
    /\ ready \in [Starts -> BOOLEAN]
    /\ result \in [Starts -> {"none", "nil", "err"}]
    /\ registry \in SUBSET Starts
    /\ state \in [Starts -> States]
    /\ teardown \in [Starts -> BOOLEAN]
    /\ lpc \in [Starts -> LifePC]
    /\ xpc \in [Stops -> StopPC]
    /\ aim \in [Stops -> Starts]
    /\ kpc \in [tearers -> TearPC]
    /\ todo \in [tearers -> SUBSET Starts]
    /\ conn \in Nat
    /\ quit \in BOOLEAN
    /\ pend \in [Emitters -> States \union {"none"}]
    /\ emitted \in [Starts -> Seq(States)]

\* The arguments of the calls are their inputs; nothing has been called yet
\* and the kube client holds its first connection.
Init ==
    /\ target \in [Starts -> Targets]
    /\ spc = [c \in Starts |-> "idle"]
    /\ built = [c \in Starts |-> {}]
    /\ stopped = [c \in Starts |-> FALSE]
    /\ ready = [c \in Starts |-> FALSE]
    /\ result = [c \in Starts |-> "none"]
    /\ registry = {}
    /\ state = [c \in Starts |-> "starting"]
    /\ teardown = [c \in Starts |-> FALSE]
    /\ lpc = [c \in Starts |-> "none"]
    /\ xpc = [s \in Stops |-> "idle"]
    /\ aim \in [Stops -> Starts]
    /\ kpc = [k \in tearers |-> "idle"]
    /\ todo = [k \in tearers |-> {}]
    /\ conn = 0
    /\ quit = FALSE
    /\ pend = [a \in Emitters |-> "none"]
    /\ emitted = [c \in Starts |-> <<>>]

-----------------------------------------------------------------------------
\* The session: kube.PortForwardSession and the two goroutines behind it.

Opened(c) == spc[c] \notin {"idle", "checked", "client"} /\ built[c] # {}

\* The local port is bound, or about to be: nobody asked the session to stop
\* and ForwardPorts has not returned.
Live(c) == Opened(c) /\ ~stopped[c] /\ result[c] = "none"

\* portForwardTargetActiveLocked: a registered, non-terminal forward to t.
TargetActive(t) ==
    \E d \in registry : target[d] = t /\ state[d] \notin Terminal

\* The entry's context: cancelled with the application, or by the entry's owner.
ContextDone(c) == quit \/ spc[c] = "refused" \/ lpc[c] = "done"

\* ForwardPorts: the connection is up and the local port is bound.  Dialling
\* does not watch stopCh, so this may happen after a stop request.
BecomesReady(c) ==
    /\ Opened(c) /\ ~ready[c] /\ result[c] = "none"
    /\ ready' = [ready EXCEPT ![c] = TRUE]
    /\ UNCHANGED <<built, stopped, result, entries, starter, lpc, stopper, tearer, quit, events>>

\* ForwardPorts fails: it cannot dial or bind, or it loses the connection.
Breaks(c) ==
    /\ Opened(c) /\ result[c] = "none"
    /\ result' = [result EXCEPT ![c] = "err"]
    /\ UNCHANGED <<built, stopped, ready, entries, starter, lpc, stopper, tearer, quit, events>>

\* ForwardPorts returns nil once it serves the port and sees the stop request.
EndsCleanly(c) ==
    /\ Opened(c) /\ ready[c] /\ stopped[c] /\ result[c] = "none"
    /\ result' = [result EXCEPT ![c] = "nil"]
    /\ UNCHANGED <<built, stopped, ready, entries, starter, lpc, stopper, tearer, quit, events>>

\* The watchdog goroutine turns a cancelled context into a stop request.
Watchdog(c) ==
    /\ Opened(c) /\ ContextDone(c) /\ ~stopped[c]
    /\ stopped' = [stopped EXCEPT ![c] = TRUE]
    /\ UNCHANGED <<built, ready, result, entries, starter, lpc, stopper, tearer, quit, events>>

-----------------------------------------------------------------------------
\* StartPortForward.

\* The experimental gate (a setting, read from its file) and the fail-fast
\* duplicate check; past them the call takes its id and makes its entry.
PreCheck(c) ==
    /\ spc[c] = "idle"
    /\ \/ spc' = [spc EXCEPT ![c] = "refused"]
       \/ /\ ~TargetActive(target[c])
          /\ spc' = [spc EXCEPT ![c] = "checked"]
    /\ UNCHANGED <<target, session, entries, lpc, stopper, tearer, quit, events>>

\* kube.StartPortForward reads the clientset under the client's lock, and ...
ReadClientset(c) ==
    /\ spc[c] = "checked"
    /\ spc' = [spc EXCEPT ![c] = "client"]
    /\ built' = [built EXCEPT ![c] = {conn}]
    /\ UNCHANGED <<target, stopped, ready, result, entries, lpc, stopper, tearer, quit, events>>

\* ... under a second acquisition of it, the REST config; then it starts
\* ForwardPorts and its watchdog in the background.
OpenSession(c) ==
    /\ spc[c] = "client"
    /\ spc' = [spc EXCEPT ![c] = "opened"]
    /\ built' = [built EXCEPT ![c] = @ \union {conn}]
    /\ UNCHANGED <<target, stopped, ready, result, entries, lpc, stopper, tearer, quit, events>>

\* No client, an invalid spec, no free port: the call fails without a session.
OpenFails(c) ==
    /\ spc[c] \in {"checked", "client"}
    /\ spc' = [spc EXCEPT ![c] = "refused"]
    /\ built' = [built EXCEPT ![c] = {}]
    /\ UNCHANGED <<target, stopped, ready, result, entries, lpc, stopper, tearer, quit, events>>

\* Mutant of Insert: trusts the fail-fast check and does not repeat it.
InsertUnchecked(c) ==
    /\ spc[c] = "opened"
    /\ registry' = registry \union {c}
    /\ spc' = [spc EXCEPT ![c] = "registered"]
    /\ UNCHANGED <<target, session, state, teardown, lpc, stopper, tearer, quit, events>>

\* The authoritative duplicate check, under the lock of the insert.
Insert(c) ==
    /\ spc[c] = "opened"
    /\ ~TargetActive(target[c])
    /\ registry' = registry \union {c}
    /\ spc' = [spc EXCEPT ![c] = "registered"]
    /\ UNCHANGED <<target, session, state, teardown, lpc, stopper, tearer, quit, events>>

LoseRace(c) ==
    /\ spc[c] = "opened"
    /\ TargetActive(target[c])
    /\ spc' = [spc EXCEPT ![c] = "lost"]
    /\ UNCHANGED <<target, session, entries, lpc, stopper, tearer, quit, events>>

\* Mutant of StopLost: the loser of the race forgets to stop its session.
LeaveLostRunning(c) ==
    /\ spc[c] = "lost"
    /\ spc' = [spc EXCEPT ![c] = "discarded"]
    /\ UNCHANGED <<target, session, entries, lpc, stopper, tearer, quit, events>>

\* The loser stops its fresh session, so that the local port is released, ...
StopLost(c) ==
    /\ spc[c] = "lost"
    /\ stopped' = [stopped EXCEPT ![c] = TRUE]
    /\ spc' = [spc EXCEPT ![c] = "discarded"]
    /\ UNCHANGED <<target, built, ready, result, entries, lpc, stopper, tearer, quit, events>>

\* ... cancels its context and reports the duplicate.
RefuseLost(c) ==
    /\ spc[c] = "discarded"
    /\ spc' = [spc EXCEPT ![c] = "refused"]
    /\ UNCHANGED <<target, session, entries, lpc, stopper, tearer, quit, events>>

\* Registered: the status is read under the lock again, to be emitted outside.
SnapshotStatus(c) ==
    /\ spc[c] = "registered"
    /\ spc' = [spc EXCEPT ![c] = "announcing"]
    /\ pend' = [pend EXCEPT ![<<"start", c>>] = state[c]]
    /\ UNCHANGED <<target, session, entries, lpc, stopper, tearer, quit, emitted>>

\* Once the first event is out, the lifecycle goroutine starts.
SpawnLifecycle(c) ==
    /\ spc[c] = "announcing" /\ pend[<<"start", c>>] = "none"
    /\ spc' = [spc EXCEPT ![c] = "returned"]
    /\ lpc' = [lpc EXCEPT ![c] = "starting"]
    /\ UNCHANGED <<target, session, entries, stopper, tearer, quit, events>>

StartCall(c) ==
    \/ PreCheck(c) \/ ReadClientset(c) \/ OpenSession(c) \/ OpenFails(c)
    \/ Insert(c) \/ LoseRace(c) \/ StopLost(c) \/ RefuseLost(c)
    \/ SnapshotStatus(c) \/ SpawnLifecycle(c)

-----------------------------------------------------------------------------
\* setPortForwardState by goroutine a: a change of state is recorded under the
\* lock and left for a to emit, unless the entry is being torn down.
SetState(a, c, s) ==
    IF state[c] = s
      THEN UNCHANGED <<state, pend>>
      ELSE /\ state' = [state EXCEPT ![c] = s]
           /\ pend' = IF teardown[c] THEN pend ELSE [pend EXCEPT ![a] = s]

\* emitPortForwardStatus, outside the lock.
EmitFor(a, c) ==
    /\ pend[a] # "none"
    /\ emitted' = [emitted EXCEPT ![c] = Append(@, pend[a])]
    /\ pend' = [pend EXCEPT ![a] = "none"]
    /\ UNCHANGED <<session, entries, starter, lpc, stopper, tearer, quit>>

Emit ==
    \/ \E c \in Starts : EmitFor(<<"start", c>>, c) \/ EmitFor(<<"life", c>>, c)
    \/ \E s \in Stops : EmitFor(<<"stop", s>>, aim[s])

-----------------------------------------------------------------------------
\* runPortForwardLifecycle.  A select with several ready channels picks any.

LifeReady(c) ==
    /\ lpc[c] = "starting" /\ ready[c]
    /\ SetState(<<"life", c>>, c, "active")
    /\ lpc' = [lpc EXCEPT ![c] = "active"]
    /\ UNCHANGED <<registry, teardown, session, starter, stopper, tearer, quit, emitted>>

\* Mutant of LifeTimeout: a slow forward is declared failed but not stopped.
TimeoutWithoutStop(c) ==
    /\ lpc[c] = "starting"
    /\ lpc' = [lpc EXCEPT ![c] = "timedOut"]
    /\ UNCHANGED <<session, entries, starter, stopper, tearer, quit, events>>

\* Mutant of LifeTimeout: no timer, only a stop request ends the wait.
TimeoutOnlyWhenStopped(c) ==
    /\ lpc[c] = "starting" /\ stopped[c]
    /\ lpc' = [lpc EXCEPT ![c] = "timedOut"]
    /\ UNCHANGED <<session, entries, starter, stopper, tearer, quit, events>>

\* The first select gives up; the session is stopped before the state is set.
LifeTimeout(c) ==
    /\ lpc[c] = "starting"
    /\ stopped' = [stopped EXCEPT ![c] = TRUE]
    /\ lpc' = [lpc EXCEPT ![c] = "timedOut"]
    /\ UNCHANGED <<built, ready, result, entries, starter, stopper, tearer, quit, events>>

\* Mutant of LifeFailTimeout: returns without recording the failure.
FailTimeoutSilently(c) ==
    /\ lpc[c] = "timedOut"
    /\ lpc' = [lpc EXCEPT ![c] = "finishing"]
    /\ UNCHANGED <<entries, session, starter, stopper, tearer, quit, events>>

LifeFailTimeout(c) ==
    /\ lpc[c] = "timedOut"
    /\ SetState(<<"life", c>>, c, "failed")
    /\ lpc' = [lpc EXCEPT ![c] = "finishing"]
    /\ UNCHANGED <<registry, teardown, session, starter, stopper, tearer, quit, emitted>>

\* Mutant of LifeResult: a clean end is left to StopPortForward to record.
ResultOnlyErrors(c) ==
    /\ lpc[c] \in {"starting", "active"} /\ pend[<<"life", c>>] = "none"
    /\ result[c] # "none"
    /\ SetState(<<"life", c>>, c, IF result[c] = "err" THEN "failed" ELSE state[c])
    /\ lpc' = [lpc EXCEPT ![c] = "finishing"]
    /\ UNCHANGED <<registry, teardown, session, starter, stopper, tearer, quit, emitted>>

\* Either select receives the outcome of the session.
LifeResult(c) ==
    /\ lpc[c] \in {"starting", "active"} /\ pend[<<"life", c>>] = "none"
    /\ result[c] # "none"
    /\ SetState(<<"life", c>>, c, IF result[c] = "err" THEN "failed" ELSE "stopped")
    /\ lpc' = [lpc EXCEPT ![c] = "finishing"]
    /\ UNCHANGED <<registry, teardown, session, starter, stopper, tearer, quit, emitted>>

\* Only the second select watches the entry's context.
LifeContextDone(c) ==
    /\ lpc[c] = "active" /\ pend[<<"life", c>>] = "none"
    /\ quit
    /\ stopped' = [stopped EXCEPT ![c] = TRUE]
    /\ lpc' = [lpc EXCEPT ![c] = "finishing"]
    /\ UNCHANGED <<built, ready, result, entries, starter, stopper, tearer, quit, events>>

\* finishPortForward, deferred: the entry leaves the registry.
FinishPortForward(c) ==
    /\ lpc[c] = "finishing" /\ pend[<<"life", c>>] = "none"
    /\ registry' = registry \ {c}
    /\ lpc' = [lpc EXCEPT ![c] = "done"]
    /\ UNCHANGED <<state, teardown, session, starter, stopper, tearer, quit, events>>

Lifecycle(c) ==
    \/ LifeReady(c) \/ LifeTimeout(c) \/ LifeFailTimeout(c) \/ LifeResult(c)
    \/ LifeContextDone(c) \/ FinishPortForward(c)

-----------------------------------------------------------------------------
\* StopPortForward: look the entry up, stop its session, record and announce.

LookUp(s) ==
    /\ xpc[s] = "idle"
    /\ xpc' = [xpc EXCEPT ![s] =
                  IF aim[s] \in registry /\ state[aim[s]] \notin Terminal
                    THEN "looked" ELSE "done"]
    /\ UNCHANGED <<aim, session, entries, starter, lpc, tearer, quit, events>>

SignalStop(s) ==
    /\ xpc[s] = "looked"
    /\ stopped' = [stopped EXCEPT ![aim[s]] = TRUE]
    /\ xpc' = [xpc EXCEPT ![s] = "signalled"]
    /\ UNCHANGED <<aim, built, ready, result, entries, starter, lpc, tearer, quit, events>>

RecordStopped(s) ==
    /\ xpc[s] = "signalled"
    /\ SetState(<<"stop", s>>, aim[s], "stopped")
    /\ xpc' = [xpc EXCEPT ![s] = "done"]
    /\ UNCHANGED <<aim, registry, teardown, session, starter, lpc, tearer, quit, emitted>>

StopCall(s) == LookUp(s) \/ SignalStop(s) \/ RecordStopped(s)

-----------------------------------------------------------------------------
\* Connect and Shutdown.

\* kube.Connect installs the new client and REST config.
InstallClient(k) ==
    /\ k \in Connects
    /\ kpc[k] = "idle"
    /\ conn' = conn + 1
    /\ kpc' = [kpc EXCEPT ![k] = "installed"]
    /\ UNCHANGED <<todo, session, entries, starter, lpc, stopper, quit, events>>

\* Mutant of MarkAll: every entry is marked, only the active ones are stopped.
MarkAllStopActive(k) ==
    /\ kpc[k] = IF k \in Connects THEN "installed" ELSE "idle"
    /\ teardown' = [c \in Starts |-> teardown[c] \/ c \in registry]
    /\ todo' = [todo EXCEPT ![k] = {c \in registry : state[c] = "active"}]
    /\ kpc' = [kpc EXCEPT ![k] = "stopping"]
    /\ UNCHANGED <<conn, session, registry, state, starter, lpc, stopper, quit, events>>

\* stopAllPortForwards: every entry is marked under the lock ...
MarkAll(k) ==
    /\ kpc[k] = IF k \in Connects THEN "installed" ELSE "idle"
    /\ teardown' = [c \in Starts |-> teardown[c] \/ c \in registry]
    /\ todo' = [todo EXCEPT ![k] = registry]
    /\ kpc' = [kpc EXCEPT ![k] = "stopping"]
    /\ UNCHANGED <<conn, session, registry, state, starter, lpc, stopper, quit, events>>

\* ... and the sessions are stopped after it is released, one by one.
StopNext(k) ==
    /\ kpc[k] = "stopping"
    /\ \E c \in todo[k] :
          /\ stopped' = [stopped EXCEPT ![c] = TRUE]
          /\ todo' = [todo EXCEPT ![k] = @ \ {c}]
    /\ UNCHANGED <<kpc, conn, built, ready, result, entries, starter, lpc, stopper, quit, events>>

TeardownDone(k) ==
    /\ kpc[k] = "stopping" /\ todo[k] = {}
    /\ kpc' = [kpc EXCEPT ![k] = "done"]
    /\ UNCHANGED <<todo, conn, session, entries, starter, lpc, stopper, quit, events>>

TearCall(k) == InstallClient(k) \/ MarkAll(k) \/ StopNext(k) \/ TeardownDone(k)

\* The window closes: the application context, the parent of every entry's
\* context, is cancelled around the Shutdown callback.
Quit ==
    /\ \E k \in Shutdowns : kpc[k] # "idle"
    /\ ~quit
    /\ quit' = TRUE
    /\ UNCHANGED <<session, entries, starter, lpc, stopper, tearer, events>>

-----------------------------------------------------------------------------
Session(c) == BecomesReady(c) \/ Breaks(c) \/ EndsCleanly(c) \/ Watchdog(c)

Next ==
    \/ \E c \in Starts : StartCall(c) \/ Session(c) \/ Lifecycle(c)
    \/ \E s \in Stops : StopCall(s)
    \/ \E k \in tearers : TearCall(k)
    \/ Emit
    \/ Quit

Spec == Init /\ [][Next]_vars

(***************************************************************************)
(* Fairness.  Goroutines the Go scheduler runs make progress once started: *)
(* a call past its first step, the lifecycle (whose first select always    *)
(* has the timer to fall back on), the watchdog, the emission that follows *)
(* a state change.  ForwardPorts returns once it serves the port and was   *)
(* asked to stop.  Nothing obliges anybody to make a call, the connection  *)
(* to come up or to break, or the application to close.                    *)
(***************************************************************************)
Fairness ==
    /\ \A c \in Starts :
          /\ WF_vars(spc[c] # "idle" /\ StartCall(c))
          /\ WF_vars(Lifecycle(c))
          /\ WF_vars(EndsCleanly(c))
          /\ WF_vars(Watchdog(c))
          /\ WF_vars(EmitFor(<<"start", c>>, c))
          /\ WF_vars(EmitFor(<<"life", c>>, c))
    /\ \A s \in Stops :
          /\ WF_vars(xpc[s] # "idle" /\ StopCall(s))
          /\ WF_vars(EmitFor(<<"stop", s>>, aim[s]))
    /\ \A k \in tearers : WF_vars(kpc[k] # "idle" /\ TearCall(k))

FairSpec == Spec /\ Fairness
-----------------------------------------------------------------------------
\* Properties.

\* At most one registered tunnel leads to a target: the duplicate check under
\* the insert lock (service.go, StartPortForward) holds whatever the order of
\* concurrent starts, stops, timeouts and broken connections.
UniqueTunnel ==
    \A c, d \in registry :
        c # d /\ Live(c) /\ Live(d) => target[c] # target[d]

\* No local port stays bound behind the service's back: a session that runs
\* and was not asked to stop is still in the hands of its start call or is in
\* the registry, where the user sees it and can stop it.
NoLeakedTunnel ==
    \A c \in Starts :
        Live(c) => c \in registry \/ spc[c] \in {"opened", "lost"}

\* stopAllPortForwards misses nobody it marked: a marked forward still running
\* is one a teardown in progress has yet to stop.
TeardownReaches ==
    \A c \in Starts :
        teardown[c] /\ Live(c) => \E k \in tearers : c \in todo[k]

\* An entry leaves the registry in a terminal state, whatever the order of the
\* lifecycle's and the stop calls' transitions (the application closing is the
\* one exception: the lifecycle then leaves without a transition).
RemovedIsTerminal ==
    \A c \in Starts : lpc[c] = "done" => state[c] \in Terminal \/ quit

\* The end of a forward nobody tore down is never lost to the frontend: once
\* the entry is gone its final event is out, or a stop call is about to emit
\* it (setPortForwardState emits outside the lock).
FinalEventNotLost ==
    \A c \in Starts :
        lpc[c] = "done" /\ ~teardown[c] /\ ~quit =>
            \/ \E i \in 1..Len(emitted[c]) : emitted[c][i] \in Terminal
            \/ \E s \in Stops : aim[s] = c /\ pend[<<"stop", s>>] \in Terminal

\* A forward does not stay "starting": the timer of the first select
\* (portForwardReadyTimeout) ends the wait for a connection that never comes
\* up, and a stop request or a broken connection ends it earlier.
StartingResolves ==
    \A c \in Starts :
        c \in registry /\ state[c] = "starting" ~> state[c] # "starting"

\* The service implements Tunnels: a tunnel is private to its start call until
\* it is registered, closed once it is asked to stop or ends, and reaped when
\* its entry (or its refused start call) is gone.
TunnelPhase(c) ==
    IF ~Opened(c) THEN "none"
    ELSE IF spc[c] = "refused" \/ lpc[c] = "done" THEN "reaped"
    ELSE IF ~Live(c) THEN "closed"
    ELSE IF c \in registry THEN "shared"
    ELSE "private"

T == INSTANCE Tunnels WITH phase <- [c \in Starts |-> TunnelPhase(c)], leads <- target

ImplementsTunnels == T!TunnelsSpec

=============================================================================
