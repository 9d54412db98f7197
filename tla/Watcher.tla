------------------------------ MODULE Watcher ------------------------------
(***************************************************************************)
(* The background watch streams (internal/kube/watcher.go) with the calls  *)
(* that start and stop them (service.go: SetWatchNamespace and             *)
(* SetAutoRefresh) and the connection they are opened on.                  *)
(*                                                                         *)
(* A Start opens one group of streams for its namespace and, unless they   *)
(* run already, one for the cluster.  The streams of a group are alike,    *)
(* cancelled together and independent of each other, so one stands for     *)
(* all.  A stream is named by the call that opened it and its scope.       *)
(*                                                                         *)
(* Each Wails call runs on a goroutine of its own.  The watcher's mutex    *)
(* makes Start and Stop one step each.                                     *)
(***************************************************************************)
EXTENDS Naturals

CONSTANTS
    Switches,    \* SetWatchNamespace calls
    Toggles,     \* SetAutoRefresh calls
    Namespaces,  \* namespaces, without the empty one
    NoNamespace, \* the empty namespace: nothing is viewed
    None,        \* no call
    MaxConn      \* bound: connections made

ASSUME WatcherAssumption ==
    /\ NoNamespace \notin Namespaces
    /\ None \notin Switches
    /\ MaxConn \in Nat

VARIABLES
    conn,        \* number of the installed connection, 0 before the first
    autoRefresh, \* the persisted setting
    wpc,         \* wpc[w]: where SetWatchNamespace call w stands
    asks,        \* asks[w]: the namespace w was given
    tpc,         \* tpc[a]: where SetAutoRefresh call a stands
    cancelNS,    \* the call whose namespace streams can be cancelled, or None
    cancelAll,   \* the call whose cluster streams can be cancelled, or None
    on,          \* on[w]: the connection the streams of w use
    cancelled,   \* streams whose context is cancelled
    spc,         \* spc[s]: where the goroutine of stream s stands
    open         \* streams whose watch is open on the server's side

calls   == <<wpc, asks, tpc>>
handles == <<cancelNS, cancelAll, on, cancelled>>
streams == <<spc, open>>
vars    == <<conn, autoRefresh, calls, handles, streams>>

Scopes  == {"namespace", "cluster"}
Streams == Switches \X Scopes

\* A stream with a goroutine; one that runs and nobody has cancelled.
Started(s) == spc[s] # "none"
Live(s)    == spc[s] \notin {"none", "done"} /\ s \notin cancelled

TypeOK ==
    /\ conn \in 0..MaxConn
    /\ autoRefresh \in BOOLEAN
    /\ wpc \in [Switches -> {"idle", "called", "off", "on", "done"}]
    /\ asks \in [Switches -> Namespaces \union {NoNamespace}]
    /\ tpc \in [Toggles -> {"idle", "stopping", "done"}]
    /\ cancelNS \in Switches \union {None}
    /\ cancelAll \in Switches \union {None}
    /\ on \in [Switches -> 0..MaxConn]
    /\ cancelled \subseteq Streams
    /\ spc \in [Streams -> {"none", "top", "setup", "drain", "emit", "backoff", "done"}]
    /\ open \subseteq Streams
    /\ \A s \in Streams : Started(s) => on[s[1]] > 0

Init ==
    /\ conn = 0
    /\ autoRefresh \in BOOLEAN
    /\ wpc = [w \in Switches |-> "idle"]
    /\ asks = [w \in Switches |-> NoNamespace]
    /\ tpc = [a \in Toggles |-> "idle"]
    /\ cancelNS = None
    /\ cancelAll = None
    /\ on = [w \in Switches |-> 0]
    /\ cancelled = {}
    /\ spc = [s \in Streams |-> "none"]
    /\ open = {}

\* A successful Connect installs a new clientset; the watcher is not told.
Connect ==
    /\ conn < MaxConn
    /\ conn' = conn + 1
    /\ UNCHANGED <<autoRefresh, calls, handles, streams>>

-----------------------------------------------------------------------------
\* Watcher.Start and Watcher.Stop, under the watcher's mutex.

\* The contexts a cancel function reaches.
Reached(w, scope) == {w} \X {scope} \intersect Streams

\* Mutant of OpenStreams: the namespace streams that ran are not cancelled.
OpenOverOld(w) ==
    /\ cancelNS' = w
    /\ on' = [on EXCEPT ![w] = conn]
    /\ UNCHANGED <<cancelled, open>>
    /\ IF cancelAll = None
         THEN /\ cancelAll' = w
              /\ spc' = [s \in Streams |-> IF s[1] = w THEN "top" ELSE spc[s]]
         ELSE /\ cancelAll' = cancelAll
              /\ spc' = [spc EXCEPT ![<<w, "namespace">>] = "top"]

OpenStreams(w) ==
    /\ cancelled' = cancelled \union Reached(cancelNS, "namespace")
    /\ cancelNS' = w
    /\ on' = [on EXCEPT ![w] = conn]
    /\ UNCHANGED open
    /\ \/ /\ cancelAll = None
          /\ cancelAll' = w
          /\ spc' = [s \in Streams |-> IF s[1] = w THEN "top" ELSE spc[s]]
       \/ /\ cancelAll # None
          /\ cancelAll' = cancelAll
          /\ spc' = [spc EXCEPT ![<<w, "namespace">>] = "top"]

\* Without a connection Start does nothing.
Start(w) ==
    /\ \/ conn > 0 /\ OpenStreams(w)
       \/ conn = 0 /\ UNCHANGED <<handles, streams>>
    /\ UNCHANGED <<conn, autoRefresh>>

StopAll ==
    /\ cancelled' = cancelled \union Reached(cancelNS, "namespace")
                              \union Reached(cancelAll, "cluster")
    /\ cancelNS' = None
    /\ cancelAll' = None
    /\ UNCHANGED <<on, streams, conn>>

-----------------------------------------------------------------------------
\* SetWatchNamespace: the settings are read first, then acted upon.

Switch(w) ==
    /\ wpc[w] = "idle"
    /\ \E n \in Namespaces \union {NoNamespace} : asks' = [asks EXCEPT ![w] = n]
    /\ wpc' = [wpc EXCEPT ![w] = "called"]
    /\ UNCHANGED <<conn, autoRefresh, tpc, handles, streams>>

ReadSetting(w) ==
    /\ wpc[w] = "called"
    /\ wpc' = [wpc EXCEPT ![w] = IF autoRefresh THEN "on" ELSE "off"]
    /\ UNCHANGED <<conn, autoRefresh, asks, tpc, handles, streams>>

\* No namespace: stop, whatever the setting says.
Leave(w) ==
    /\ wpc[w] \in {"on", "off"}
    /\ asks[w] = NoNamespace
    /\ StopAll
    /\ wpc' = [wpc EXCEPT ![w] = "done"]
    /\ UNCHANGED <<autoRefresh, asks, tpc>>

Ignore(w) ==
    /\ wpc[w] = "off"
    /\ asks[w] # NoNamespace
    /\ wpc' = [wpc EXCEPT ![w] = "done"]
    /\ UNCHANGED <<conn, autoRefresh, asks, tpc, handles, streams>>

Enter(w) ==
    /\ wpc[w] = "on"
    /\ asks[w] # NoNamespace
    /\ Start(w)
    /\ wpc' = [wpc EXCEPT ![w] = "done"]
    /\ UNCHANGED <<asks, tpc>>

SwitchCall(w) == Switch(w) \/ ReadSetting(w) \/ Leave(w) \/ Ignore(w) \/ Enter(w)

-----------------------------------------------------------------------------
\* SetAutoRefresh: the setting is saved, then the streams are stopped if it
\* was turned off.  Turning it on starts nothing.

TurnOn(a) ==
    /\ tpc[a] = "idle"
    /\ autoRefresh' = TRUE
    /\ tpc' = [tpc EXCEPT ![a] = "done"]
    /\ UNCHANGED <<conn, wpc, asks, handles, streams>>

TurnOff(a) ==
    /\ tpc[a] = "idle"
    /\ autoRefresh' = FALSE
    /\ tpc' = [tpc EXCEPT ![a] = "stopping"]
    /\ UNCHANGED <<conn, wpc, asks, handles, streams>>

StopAfterOff(a) ==
    /\ tpc[a] = "stopping"
    /\ StopAll
    /\ tpc' = [tpc EXCEPT ![a] = "done"]
    /\ UNCHANGED <<autoRefresh, wpc, asks>>

ToggleCall(a) == TurnOn(a) \/ TurnOff(a) \/ StopAfterOff(a)

-----------------------------------------------------------------------------
\* runWatch, the goroutine of one stream.

GoTo(s, p) ==
    /\ spc' = [spc EXCEPT ![s] = p]
    /\ UNCHANGED <<conn, autoRefresh, calls, handles>>

\* The loop starts with a look at the context.
Top(s) ==
    /\ spc[s] = "top"
    /\ GoTo(s, IF s \in cancelled THEN "done" ELSE "setup")
    /\ UNCHANGED open

\* makeWatch lists and opens the watch, under the context ...
SetupOpens(s) ==
    /\ spc[s] = "setup"
    /\ s \notin cancelled
    /\ GoTo(s, "drain")
    /\ open' = open \union {s}

\* ... and may fail at any time.
SetupFails(s) ==
    /\ spc[s] = "setup"
    /\ GoTo(s, "backoff")
    /\ UNCHANGED open

\* Mutant of SeeCancel: only the backoff looks at the context.
SeeCancelInBackoff(s) ==
    /\ spc[s] = "backoff"
    /\ s \in cancelled
    /\ GoTo(s, "done")
    /\ open' = open \ {s}

\* The cancelled context ends the drain loop and the backoff.
SeeCancel(s) ==
    /\ spc[s] \in {"drain", "backoff"}
    /\ s \in cancelled
    /\ GoTo(s, "done")
    /\ open' = open \ {s}

\* An addition or a deletion is handed to onEvent, also when the context was
\* cancelled meanwhile (the select picks among the ready cases).  Other events
\* change nothing here.
TakeEvent(s) ==
    /\ spc[s] = "drain"
    /\ s \in open
    /\ GoTo(s, "emit")
    /\ UNCHANGED open

Emitted(s) ==
    /\ spc[s] = "emit"
    /\ GoTo(s, "drain")
    /\ UNCHANGED open

\* An error event ends the watch from this side.
TakeError(s) ==
    /\ spc[s] = "drain"
    /\ s \in open
    /\ GoTo(s, "backoff")
    /\ open' = open \ {s}

\* The server, or the cancelled context, closes the channel.
ServerCloses(s) ==
    /\ s \in open
    /\ open' = open \ {s}
    /\ UNCHANGED <<conn, autoRefresh, calls, handles, spc>>

\* Mutant of SeeClosed: the break leaves the select, not the loop.
SeeClosedAndDrainOn(s) ==
    /\ spc[s] = "drain"
    /\ s \notin open
    /\ GoTo(s, "drain")
    /\ UNCHANGED open

SeeClosed(s) ==
    /\ spc[s] = "drain"
    /\ s \notin open
    /\ GoTo(s, "backoff")
    /\ UNCHANGED open

BackoffOver(s) ==
    /\ spc[s] = "backoff"
    /\ GoTo(s, "top")
    /\ UNCHANGED open

\* What the goroutine does without waiting for anybody.
GoOn(s) ==
    \/ Top(s) \/ SetupOpens(s) \/ SetupFails(s) \/ Emitted(s)
    \/ SeeClosed(s) \/ BackoffOver(s)

Stream(s) == GoOn(s) \/ SeeCancel(s) \/ TakeEvent(s) \/ TakeError(s)

Next ==
    \/ Connect
    \/ \E w \in Switches : SwitchCall(w)
    \/ \E a \in Toggles : ToggleCall(a)
    \/ \E s \in Streams : Stream(s) \/ ServerCloses(s)

Spec == Init /\ [][Next]_vars

(***************************************************************************)
(* Fairness.  A goroutine that can move moves.  The select of runWatch     *)
(* picks among its ready cases at random, so a cancelled context is not    *)
(* passed over forever while events keep coming; and the API server        *)
(* answers a watch that is asked for again and again.                      *)
(***************************************************************************)
Fairness ==
    \A s \in Streams :
        /\ WF_vars(GoOn(s))
        /\ SF_vars(SetupOpens(s))
        /\ SF_vars(SeeCancel(s))

FairSpec == Spec /\ Fairness

-----------------------------------------------------------------------------
\* Properties.

\* Every stream that still runs can be stopped: the watcher holds its cancel
\* function, whatever Starts, Stops and reconnects came before.  Hence at most
\* one namespace is watched.
NoOrphanStream ==
    \A s \in Streams : Live(s) =>
        s[1] = IF s[2] = "namespace" THEN cancelNS ELSE cancelAll

\* "It exits only when ctx is cancelled" (runWatch): no error, closed channel
\* or failed list ends a stream's goroutine.
ExitsOnlyWhenCancelled == \A s \in Streams : spc[s] = "done" => s \in cancelled

\* Cancelled streams end, wherever they stood and however busy the cluster:
\* once the calls have returned, only streams nobody cancelled are left.
CancelledEnd ==
    <>[](\A s \in Streams : s \in cancelled /\ Started(s) => spc[s] = "done")

\* A stream that lost its watch gets a new one unless it is cancelled.
WatchResumes ==
    \A s \in Streams :
        Started(s) /\ s \notin open ~> s \in open \/ s \in cancelled
=============================================================================
