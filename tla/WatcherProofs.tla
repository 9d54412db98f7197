--------------------------- MODULE WatcherProofs ---------------------------
(***************************************************************************)
(* The watch streams, for any number of calls, namespaces and connections. *)
(***************************************************************************)
EXTENDS Watcher, TLAPS

\* Streams are opened by calls that have returned, and a cancel function that
\* is held reaches streams of such a call.
HandlesAreStarted ==
    /\ \A s \in Streams : Started(s) => wpc[s[1]] = "done"
    /\ cancelNS # None => wpc[cancelNS] = "done"
    /\ cancelAll # None => wpc[cancelAll] = "done"

IInv == TypeOK /\ HandlesAreStarted /\ NoOrphanStream /\ ExitsOnlyWhenCancelled

LEMMA InitInv == Init => IInv
<1> SUFFICES ASSUME Init PROVE IInv
  OBVIOUS
<1>1. TypeOK BY WatcherAssumption DEF Init, TypeOK, Started, Streams
<1> QED
  BY <1>1 DEF Init, IInv, HandlesAreStarted, NoOrphanStream, ExitsOnlyWhenCancelled,
              Started, Live

\* A step that leaves the streams and what is known of them alone keeps the
\* invariant, when no call goes back.
LEMMA CallsOnly ==
    ASSUME IInv, TypeOK', UNCHANGED <<handles, streams>>,
           \A w \in Switches : wpc[w] = "done" => wpc'[w] = "done"
    PROVE  IInv'
<1> USE DEF IInv, handles, streams
<1>1. HandlesAreStarted'
  <2>1. \A s \in Streams : s[1] \in Switches BY DEF Streams
  <2> QED BY <2>1 DEF HandlesAreStarted, Started, TypeOK
<1>2. NoOrphanStream' BY DEF NoOrphanStream, Live
<1>3. ExitsOnlyWhenCancelled' BY DEF ExitsOnlyWhenCancelled
<1> QED BY <1>1, <1>2, <1>3

\* StopAll cancels whatever ran.
LEMMA StopAllSafe ==
    ASSUME IInv, StopAll, UNCHANGED <<autoRefresh, asks>>,
           wpc' \in [Switches -> {"idle", "called", "off", "on", "done"}],
           tpc' \in [Toggles -> {"idle", "stopping", "done"}],
           \A w \in Switches : wpc[w] = "done" => wpc'[w] = "done"
    PROVE  IInv'
<1> USE DEF IInv, StopAll, streams
<1>1. TypeOK' BY DEF TypeOK, Reached, Started
<1>2. HandlesAreStarted'
  <2>1. \A s \in Streams : s[1] \in Switches BY DEF Streams
  <2> QED BY <2>1 DEF HandlesAreStarted, Started
<1>3. \A s \in Streams : ~Live(s)'
  <2> SUFFICES ASSUME NEW s \in Streams, Live(s)' PROVE FALSE
    OBVIOUS
  <2>1. Live(s) BY DEF Live
  <2>2. s = <<s[1], s[2]>> /\ s[2] \in Scopes BY DEF Streams
  <2>3. s[1] = IF s[2] = "namespace" THEN cancelNS ELSE cancelAll
    BY <2>1 DEF NoOrphanStream
  <2>4. s \in Reached(cancelNS, "namespace") \union Reached(cancelAll, "cluster")
    BY <2>2, <2>3 DEF Reached, Scopes
  <2> QED BY <2>4 DEF Live
<1>4. NoOrphanStream' BY <1>3 DEF NoOrphanStream
<1>5. ExitsOnlyWhenCancelled' BY DEF ExitsOnlyWhenCancelled
<1> QED BY <1>1, <1>2, <1>4, <1>5

\* Enter opens streams of a call that had none and cancels the ones replaced.
LEMMA EnterSafe ==
    ASSUME IInv, NEW w \in Switches, Enter(w)
    PROVE  IInv'
<1> USE DEF IInv
<1>1. /\ wpc[w] = "on" /\ wpc' = [wpc EXCEPT ![w] = "done"]
      /\ UNCHANGED <<conn, autoRefresh, asks, tpc>>
  BY DEF Enter, Start
<1>2. \A s \in Streams : Started(s) => s[1] # w
  BY <1>1 DEF HandlesAreStarted
<1>3. \A v \in Switches : wpc[v] = "done" => wpc'[v] = "done"
  BY <1>1 DEF TypeOK
<1>4. CASE conn = 0 /\ UNCHANGED <<handles, streams>>
  <2>1. TypeOK' BY <1>1, <1>4 DEF TypeOK, handles, streams, Started
  <2> QED BY <1>3, <1>4, <2>1, CallsOnly
<1>5. CASE conn > 0 /\ OpenStreams(w)
  <2>1. /\ cancelled' = cancelled \union Reached(cancelNS, "namespace")
        /\ cancelNS' = w /\ on' = [on EXCEPT ![w] = conn] /\ open' = open
        /\ cancelAll' \in {w, cancelAll}
        /\ cancelAll # None => cancelAll' = cancelAll
    BY <1>5 DEF OpenStreams
  <2>2. /\ spc' \in [Streams -> {"none", "top", "setup", "drain", "emit", "backoff", "done"}]
        /\ \A s \in Streams : s[1] # w => spc'[s] = spc[s]
        /\ \A s \in Streams : s[1] = w => spc'[s] \in {"none", "top"}
    <3>1. \A s \in Streams : s[1] = w => spc[s] = "none"
      BY <1>2 DEF Started
    <3>2. CASE spc' = [s \in Streams |-> IF s[1] = w THEN "top" ELSE spc[s]]
      BY <3>2 DEF TypeOK
    <3>3. CASE spc' = [spc EXCEPT ![<<w, "namespace">>] = "top"]
      BY <3>1, <3>3 DEF TypeOK, Streams, Scopes
    <3> QED BY <1>5, <3>2, <3>3 DEF OpenStreams
  <2>3. TypeOK'
    <3>1. cancelled' \subseteq Streams BY <2>1 DEF Reached, TypeOK
    <3>2. \A s \in Streams : Started(s)' => on'[s[1]] > 0
      BY <1>5, <2>1, <2>2 DEF Started, TypeOK, Streams
    <3>3. cancelNS' \in Switches \union {None} /\ cancelAll' \in Switches \union {None}
      BY <2>1 DEF TypeOK
    <3> QED BY <1>1, <2>1, <2>2, <3>1, <3>2, <3>3 DEF TypeOK
  <2>4. HandlesAreStarted'
    <3>1. wpc'[w] = "done" BY <1>1 DEF TypeOK
    <3>2. \A s \in Streams : Started(s)' => wpc'[s[1]] = "done"
      BY <1>3, <2>2, <3>1 DEF HandlesAreStarted, Started, Streams
    <3> QED BY <1>3, <2>1, <3>1, <3>2 DEF HandlesAreStarted, TypeOK
  <2>5. NoOrphanStream'
    <3> SUFFICES ASSUME NEW s \in Streams, Live(s)'
                 PROVE  s[1] = IF s[2] = "namespace" THEN cancelNS' ELSE cancelAll'
      BY DEF NoOrphanStream
    <3>1. s = <<s[1], s[2]>> /\ s[1] \in Switches /\ s[2] \in Scopes BY DEF Streams
    <3>2. CASE s[1] # w
      <4>1. Live(s) BY <2>1, <2>2, <3>2 DEF Live
      <4>2. s[1] = IF s[2] = "namespace" THEN cancelNS ELSE cancelAll
        BY <4>1 DEF NoOrphanStream
      <4>3. s[2] # "namespace"
        <5> SUFFICES ASSUME s[2] = "namespace" PROVE FALSE
          OBVIOUS
        <5>1. s \in Reached(cancelNS, "namespace") BY <3>1, <4>2 DEF Reached
        <5> QED BY <2>1, <5>1 DEF Live
      <4>4. cancelAll # None BY <3>1, <4>2, <4>3, WatcherAssumption
      <4> QED BY <2>1, <4>2, <4>3, <4>4
    <3>3. CASE s[1] = w
      <4>1. CASE s[2] = "namespace" BY <2>1, <3>3, <4>1
      <4>2. CASE s[2] # "namespace"
        <5>1. s # <<w, "namespace">> BY <4>2
        <5>2. spc[s] = "none" BY <1>2, <3>3 DEF Started
        <5>3. spc'[s] # "none" BY DEF Live
        <5>4. cancelAll' = w BY <1>5, <5>1, <5>2, <5>3 DEF OpenStreams, TypeOK
        <5> QED BY <3>3, <4>2, <5>4
      <4> QED BY <4>1, <4>2
    <3> QED BY <3>2, <3>3
  <2>6. ExitsOnlyWhenCancelled'
    BY <2>1, <2>2 DEF ExitsOnlyWhenCancelled
  <2> QED BY <2>3, <2>4, <2>5, <2>6
<1> QED BY <1>4, <1>5 DEF Enter, Start

\* A goroutine moves: it was started, it stays so, and it is done only if its
\* context was cancelled.
LEMMA StreamMoves ==
    ASSUME IInv, NEW s \in Streams, Stream(s) \/ ServerCloses(s)
    PROVE  /\ UNCHANGED <<conn, autoRefresh, calls, handles>>
           /\ open' \subseteq Streams
           /\ \E p \in {"top", "setup", "drain", "emit", "backoff", "done"} :
                /\ spc[s] \notin {"none", "done"}
                /\ spc' = [spc EXCEPT ![s] = p]
                /\ p = "done" => s \in cancelled
              \/ UNCHANGED spc
<1> USE DEF IInv, TypeOK, GoTo
<1>1. CASE ServerCloses(s) BY <1>1 DEF ServerCloses
<1>2. CASE SeeCancel(s) BY <1>2 DEF SeeCancel
<1>3. CASE TakeEvent(s) \/ TakeError(s) BY <1>3 DEF TakeEvent, TakeError
<1>4. CASE Top(s) BY <1>4 DEF Top
<1>5. CASE SetupOpens(s) \/ SetupFails(s) BY <1>5 DEF SetupOpens, SetupFails
<1>6. CASE Emitted(s) \/ SeeClosed(s) \/ BackoffOver(s)
  BY <1>6 DEF Emitted, SeeClosed, BackoffOver
<1> QED BY <1>1, <1>2, <1>3, <1>4, <1>5, <1>6 DEF Stream, GoOn

LEMMA StreamSafe ==
    ASSUME IInv, NEW s \in Streams, Stream(s) \/ ServerCloses(s)
    PROVE  IInv'
<1> USE DEF IInv
<1>1. UNCHANGED <<conn, autoRefresh, calls, handles>> /\ open' \subseteq Streams
  BY StreamMoves
<1>2. CASE UNCHANGED spc
  BY <1>1, <1>2 DEF TypeOK, HandlesAreStarted, NoOrphanStream, ExitsOnlyWhenCancelled,
                    Started, Live, calls, handles
<1>3. ASSUME NEW p \in {"top", "setup", "drain", "emit", "backoff", "done"},
             spc[s] \notin {"none", "done"}, spc' = [spc EXCEPT ![s] = p],
             p = "done" => s \in cancelled
      PROVE  IInv'
  <2>1. /\ spc' \in [Streams -> {"none", "top", "setup", "drain", "emit", "backoff", "done"}]
        /\ \A r \in Streams : Started(r)' <=> Started(r)
        /\ \A r \in Streams : Live(r)' => Live(r)
    BY <1>1, <1>3 DEF TypeOK, Started, Live, handles
  <2>2. TypeOK' BY <1>1, <2>1 DEF TypeOK, calls, handles
  <2>3. HandlesAreStarted' BY <1>1, <2>1 DEF HandlesAreStarted, calls, handles
  <2>4. NoOrphanStream' BY <1>1, <2>1 DEF NoOrphanStream, handles
  <2>5. ExitsOnlyWhenCancelled'
    BY <1>1, <1>3 DEF ExitsOnlyWhenCancelled, TypeOK, handles
  <2> QED BY <2>2, <2>3, <2>4, <2>5
<1> QED BY <1>2, <1>3, StreamMoves

LEMMA NextInv == IInv /\ [Next]_vars => IInv'
<1> SUFFICES ASSUME IInv, [Next]_vars PROVE IInv'
  OBVIOUS
<1> USE DEF IInv
<1>1. CASE Connect
  <2>1. conn' = conn + 1 /\ conn < MaxConn
        /\ UNCHANGED <<autoRefresh, calls, handles, streams>>
    BY <1>1 DEF Connect
  <2>2. TypeOK'
    BY <2>1, WatcherAssumption DEF TypeOK, Started, calls, handles, streams
  <2> QED BY <2>1, <2>2, CallsOnly DEF calls
<1>2. ASSUME NEW w \in Switches, Switch(w) \/ ReadSetting(w) \/ Ignore(w) PROVE IInv'
  <2>1. UNCHANGED <<conn, autoRefresh, tpc, handles, streams>>
    BY <1>2 DEF Switch, ReadSetting, Ignore
  <2>2. /\ wpc' \in [Switches -> {"idle", "called", "off", "on", "done"}]
        /\ asks' \in [Switches -> Namespaces \union {NoNamespace}]
        /\ \A v \in Switches : wpc[v] = "done" => wpc'[v] = "done"
    BY <1>2 DEF Switch, ReadSetting, Ignore, TypeOK
  <2>3. TypeOK' BY <2>1, <2>2 DEF TypeOK, Started, handles, streams
  <2> QED BY <2>1, <2>2, <2>3, CallsOnly
<1>3. ASSUME NEW w \in Switches, Leave(w) PROVE IInv'
  <2>1. StopAll /\ UNCHANGED <<autoRefresh, asks, tpc>>
        /\ wpc' = [wpc EXCEPT ![w] = "done"]
    BY <1>3 DEF Leave
  <2> QED BY <2>1, StopAllSafe DEF TypeOK
<1>4. ASSUME NEW a \in Toggles, TurnOn(a) \/ TurnOff(a) PROVE IInv'
  <2>1. UNCHANGED <<conn, wpc, asks, handles, streams>> BY <1>4 DEF TurnOn, TurnOff
  <2>2. autoRefresh' \in BOOLEAN /\ tpc' \in [Toggles -> {"idle", "stopping", "done"}]
    BY <1>4 DEF TurnOn, TurnOff, TypeOK
  <2>3. TypeOK' BY <2>1, <2>2 DEF TypeOK, Started, handles, streams
  <2> QED BY <2>1, <2>3, CallsOnly
<1>5. ASSUME NEW a \in Toggles, StopAfterOff(a) PROVE IInv'
  <2>1. StopAll /\ UNCHANGED <<autoRefresh, wpc, asks>>
        /\ tpc' = [tpc EXCEPT ![a] = "done"]
    BY <1>5 DEF StopAfterOff
  <2> QED BY <2>1, StopAllSafe DEF TypeOK
<1>6. CASE UNCHANGED vars
  <2>1. TypeOK' BY <1>6 DEF vars, TypeOK, Started, calls, handles, streams
  <2> QED BY <1>6, <2>1, CallsOnly DEF vars, calls
<1> QED
  BY <1>1, <1>2, <1>3, <1>4, <1>5, <1>6, EnterSafe, StreamSafe
  DEF Next, SwitchCall, ToggleCall

\* The inductive invariant holds in every reachable state.
THEOREM InvHolds == Spec => []IInv
<1> QED BY InitInv, NextInv, PTL DEF Spec

\* Every reachable state of the watcher is well-typed; no stream runs without
\* a connection.
THEOREM TypeCorrect == Spec => []TypeOK
<1>1. IInv => TypeOK BY DEF IInv
<1> QED BY <1>1, InvHolds, PTL

\* The watcher can stop every stream that runs, for any number of namespace
\* switches, toggles and reconnects.
THEOREM NoOrphanStreamHolds == Spec => []NoOrphanStream
<1>1. IInv => NoOrphanStream BY DEF IInv
<1> QED BY <1>1, InvHolds, PTL

\* A stream's goroutine returns only when its context was cancelled.
THEOREM ExitsOnlyWhenCancelledHolds == Spec => []ExitsOnlyWhenCancelled
<1>1. IInv => ExitsOnlyWhenCancelled BY DEF IInv
<1> QED BY <1>1, InvHolds, PTL
=============================================================================
