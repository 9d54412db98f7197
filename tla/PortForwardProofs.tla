------------------------- MODULE PortForwardProofs -------------------------
(***************************************************************************)
(* Theorems about PortForward and, at the end, about the list of forwards  *)
(* in ForwardsPanel, for any number of calls and targets.                  *)
(***************************************************************************)
EXTENDS ForwardsPanel, TLAPS

\* The goroutines that emit are told apart by their kind and by their call.
LEMMA EmittersAre ==
    /\ \A c \in Starts : <<"start", c>> \in Emitters /\ <<"life", c>> \in Emitters
    /\ \A s \in Stops : <<"stop", s>> \in Emitters
BY DEF Emitters

\* Type correctness is inductive by itself.
LEMMA TypeInit == Init => TypeOK
<1> SUFFICES ASSUME Init PROVE TypeOK
  OBVIOUS
<1>1. emitted \in [Starts -> Seq(States)]
  <2>1. <<>> \in Seq(States) OBVIOUS
  <2> QED BY <2>1 DEF Init
<1>2. /\ kpc \in [tearers -> TearPC]
      /\ todo \in [tearers -> SUBSET Starts]
      /\ pend \in [Emitters -> States \union {"none"}]
  BY DEF Init, TearPC
<1>3. /\ built \in [Starts -> SUBSET Nat]
      /\ state \in [Starts -> States]
      /\ registry \in SUBSET Starts
  BY DEF Init, States
<1> QED BY <1>1, <1>2, <1>3 DEF Init, TypeOK, StartPC, LifePC, StopPC

LEMMA TypeStart ==
    ASSUME TypeOK, NEW c \in Starts, StartCall(c)
    PROVE  TypeOK'
<1> USE EmittersAre DEF TypeOK, session, entries, events, starter, stopper, tearer, StartPC
<1>1. CASE PreCheck(c) BY <1>1 DEF PreCheck
<1>2. CASE ReadClientset(c) BY <1>2 DEF ReadClientset
<1>3. CASE OpenSession(c) BY <1>3 DEF OpenSession
<1>4. CASE OpenFails(c) BY <1>4 DEF OpenFails
<1>5. CASE Insert(c) BY <1>5 DEF Insert
<1>6. CASE LoseRace(c) BY <1>6 DEF LoseRace
<1>7. CASE StopLost(c) BY <1>7 DEF StopLost
<1>8. CASE RefuseLost(c) BY <1>8 DEF RefuseLost
<1>9. CASE SnapshotStatus(c) BY <1>9 DEF SnapshotStatus
<1>10. CASE SpawnLifecycle(c) BY <1>10 DEF SpawnLifecycle, LifePC
<1> QED BY <1>1, <1>2, <1>3, <1>4, <1>5, <1>6, <1>7, <1>8, <1>9, <1>10 DEF StartCall

LEMMA TypeSession ==
    ASSUME TypeOK, NEW c \in Starts, Session(c)
    PROVE  TypeOK'
<1> USE DEF TypeOK, session, entries, events, starter, stopper, tearer
<1>1. CASE BecomesReady(c) BY <1>1 DEF BecomesReady
<1>2. CASE Breaks(c) BY <1>2 DEF Breaks
<1>3. CASE EndsCleanly(c) BY <1>3 DEF EndsCleanly
<1>4. CASE Watchdog(c) BY <1>4 DEF Watchdog
<1> QED BY <1>1, <1>2, <1>3, <1>4 DEF Session

\* setPortForwardState keeps the entry and the outgoing event well-typed.
LEMMA TypeSetState ==
    ASSUME TypeOK, NEW a \in Emitters, NEW c \in Starts, NEW s \in States,
           SetState(a, c, s)
    PROVE  /\ state' \in [Starts -> States]
           /\ pend' \in [Emitters -> States \union {"none"}]
BY DEF TypeOK, SetState

LEMMA TypeLifecycle ==
    ASSUME TypeOK, NEW c \in Starts, Lifecycle(c)
    PROVE  TypeOK'
<1> USE EmittersAre DEF session, entries, events, starter, stopper, tearer, LifePC
<1>0. "active" \in States /\ "failed" \in States /\ "stopped" \in States BY DEF States
<1>1. CASE LifeReady(c) BY <1>0, <1>1, TypeSetState DEF LifeReady, TypeOK
<1>2. CASE LifeTimeout(c) BY <1>2 DEF LifeTimeout, TypeOK
<1>3. CASE LifeFailTimeout(c) BY <1>0, <1>3, TypeSetState DEF LifeFailTimeout, TypeOK
<1>4. CASE LifeResult(c) BY <1>0, <1>4, TypeSetState DEF LifeResult, TypeOK
<1>5. CASE LifeContextDone(c) BY <1>5 DEF LifeContextDone, TypeOK
<1>6. CASE FinishPortForward(c) BY <1>6 DEF FinishPortForward, TypeOK
<1> QED BY <1>1, <1>2, <1>3, <1>4, <1>5, <1>6 DEF Lifecycle

LEMMA TypeStop ==
    ASSUME TypeOK, NEW s \in Stops, StopCall(s)
    PROVE  TypeOK'
<1> USE EmittersAre DEF session, entries, events, starter, stopper, tearer, StopPC
<1>0. "stopped" \in States BY DEF States
<1>1. CASE LookUp(s) BY <1>1 DEF LookUp, TypeOK
<1>2. CASE SignalStop(s) BY <1>2 DEF SignalStop, TypeOK
<1>3. CASE RecordStopped(s)
  <2>1. aim[s] \in Starts BY DEF TypeOK
  <2> QED BY <1>0, <1>3, <2>1, TypeSetState DEF RecordStopped, TypeOK
<1> QED BY <1>1, <1>2, <1>3 DEF StopCall

LEMMA TypeTear ==
    ASSUME TypeOK, NEW k \in tearers, TearCall(k)
    PROVE  TypeOK'
<1> USE DEF TypeOK, session, entries, events, starter, stopper, tearer, TearPC
<1>1. CASE InstallClient(k) BY <1>1 DEF InstallClient
<1>2. CASE MarkAll(k) BY <1>2 DEF MarkAll
<1>3. CASE StopNext(k) BY <1>3 DEF StopNext
<1>4. CASE TeardownDone(k) BY <1>4 DEF TeardownDone
<1> QED BY <1>1, <1>2, <1>3, <1>4 DEF TearCall

LEMMA TypeEmit ==
    ASSUME TypeOK, NEW a \in Emitters, NEW c \in Starts, EmitFor(a, c)
    PROVE  TypeOK'
<1>1. pend[a] \in States BY DEF EmitFor, TypeOK
<1>2. emitted' \in [Starts -> Seq(States)] BY <1>1 DEF EmitFor, TypeOK
<1> QED BY <1>2 DEF EmitFor, TypeOK, session, entries, starter, stopper, tearer

LEMMA TypeStep == TypeOK /\ [Next]_vars => TypeOK'
<1> SUFFICES ASSUME TypeOK, [Next]_vars PROVE TypeOK'
  OBVIOUS
<1>1. CASE \E c \in Starts : StartCall(c) \/ Session(c) \/ Lifecycle(c)
  BY <1>1, TypeStart, TypeSession, TypeLifecycle
<1>2. CASE \E s \in Stops : StopCall(s) BY <1>2, TypeStop
<1>3. CASE \E k \in tearers : TearCall(k) BY <1>3, TypeTear
<1>4. CASE Emit
  <2>1. \A s \in Stops : aim[s] \in Starts BY DEF TypeOK
  <2> QED BY <1>4, <2>1, EmittersAre, TypeEmit DEF Emit
<1>5. CASE Quit
  BY <1>5 DEF Quit, TypeOK, session, entries, events, starter, stopper, tearer
<1>6. CASE UNCHANGED vars BY <1>6 DEF vars, TypeOK
<1> QED BY <1>1, <1>2, <1>3, <1>4, <1>5, <1>6 DEF Next

\* Every reachable state of the service is well-typed: no transition of the
\* registry, of a lifecycle or of an emission leaves the documented states.
THEOREM TypeCorrect == Spec => []TypeOK
BY TypeInit, TypeStep, PTL DEF Spec
-----------------------------------------------------------------------------
(***************************************************************************)
(* The inductive invariant.  UniqueTunnel is not inductive by itself: the  *)
(* insert refuses a target by the STATE of the entries, the property       *)
(* speaks of their SESSIONS.  What links the two is LiveIsNotTerminal (a   *)
(* running session is never under a terminal entry), and that holds        *)
(* because whoever records a terminal state has stopped the session, or    *)
(* has seen it end, before (StopsFirst).                                   *)
(***************************************************************************)

\* Where a start call stands says whether its entry is registered and whether
\* it has a session.
CallPhases ==
    \A c \in Starts :
        /\ c \in registry <=>
              spc[c] \in {"registered", "announcing", "returned"} /\ lpc[c] # "done"
        /\ spc[c] = "returned" <=> lpc[c] # "none"
        /\ spc[c] \in {"idle", "checked"} => built[c] = {}
        /\ spc[c] \in {"client", "opened", "lost", "discarded", "registered",
                       "announcing", "returned"} => built[c] # {}
        /\ ~Opened(c) => /\ ~stopped[c] /\ result[c] = "none"
                         /\ state[c] = "starting" /\ ~teardown[c]

LiveIsNotTerminal ==
    \A c \in Starts : Live(c) => state[c] \notin Terminal

\* Whoever is about to record an end, or has discarded the session, has
\* stopped it or has seen it end.
StopsFirst ==
    /\ \A c \in Starts :
          /\ spc[c] = "discarded" => stopped[c]
          /\ spc[c] = "refused" /\ Opened(c) => stopped[c]
          /\ lpc[c] = "timedOut" => stopped[c]
          /\ lpc[c] \in {"finishing", "done"} => stopped[c] \/ result[c] # "none"
          /\ lpc[c] \in {"finishing", "done"} => state[c] \in Terminal \/ quit
    /\ \A s \in Stops :
          /\ xpc[s] = "signalled" => stopped[aim[s]]
          /\ xpc[s] \in {"looked", "signalled"} => Opened(aim[s])

\* A teardown only stops sessions, and starts its list from nothing.
TeardownLists ==
    \A k \in tearers :
        /\ \A c \in todo[k] : Opened(c)
        /\ kpc[k] # "stopping" => todo[k] = {}

IInv ==
    /\ TypeOK
    /\ CallPhases
    /\ LiveIsNotTerminal
    /\ StopsFirst
    /\ TeardownLists
    /\ TeardownReaches
    /\ UniqueTunnel
LEMMA InvInit == Init => IInv
<1> SUFFICES ASSUME Init PROVE IInv
  OBVIOUS
<1>1. TypeOK BY TypeInit
<1>2. CallPhases /\ LiveIsNotTerminal BY DEF Init, CallPhases, LiveIsNotTerminal, Opened, Live, Terminal
<1>3. StopsFirst BY DEF Init, StopsFirst, Opened
<1>4. TeardownLists /\ TeardownReaches /\ UniqueTunnel
  BY DEF Init, TeardownLists, TeardownReaches, UniqueTunnel
<1> QED BY <1>1, <1>2, <1>3, <1>4 DEF IInv

\* A step that makes no tunnel live, of the registered or marked ones, keeps
\* what is said of live tunnels.
LEMMA KeepUnique ==
    ASSUME UniqueTunnel, target' = target, registry' \subseteq registry,
           \A c \in registry : Live(c)' => Live(c)
    PROVE  UniqueTunnel'
BY DEF UniqueTunnel

LEMMA KeepReaches ==
    ASSUME TeardownReaches, UNCHANGED <<teardown, todo>>,
           \A c \in Starts : Live(c)' => Live(c) \/ ~teardown[c]
    PROVE  TeardownReaches'
BY DEF TeardownReaches

LEMMA KeepLists ==
    ASSUME TeardownLists, UNCHANGED <<kpc, todo>>, TypeOK,
           \A c \in Starts : Opened(c) => Opened(c)'
    PROVE  TeardownLists'
BY DEF TeardownLists, TypeOK

\* Every step of a start call keeps the invariant; the insert is where the
\* uniqueness of tunnels is earned.
LEMMA InvStart ==
    ASSUME IInv, TypeOK', NEW c \in Starts, StartCall(c)
    PROVE  IInv'
<1> USE DEF IInv, session, entries, events, starter, stopper, tearer
<1>1. CASE PreCheck(c)
  <2>1. CallPhases'
    BY <1>1 DEF PreCheck, TypeOK, CallPhases, StopsFirst, Opened, SetState, Terminal
  <2>2. LiveIsNotTerminal'
    BY <1>1 DEF PreCheck, TypeOK, LiveIsNotTerminal, CallPhases, StopsFirst, TeardownLists, Opened, Live, SetState, Terminal
  <2>3. StopsFirst'
    BY <1>1 DEF PreCheck, TypeOK, StopsFirst, CallPhases, TeardownLists, Opened, SetState, Terminal
  <2>4. \A d \in Starts : (Live(d)' => Live(d)) /\ (Opened(d) => Opened(d)')
    BY <1>1 DEF PreCheck, TypeOK, Opened, Live, CallPhases
  <2>5. UNCHANGED <<teardown, kpc, todo, target>> /\ registry' \subseteq registry
    BY <1>1 DEF PreCheck
  <2>6. registry \subseteq Starts BY DEF TypeOK
  <2>7. TeardownReaches' /\ TeardownLists' BY <2>4, <2>5, KeepReaches, KeepLists
  <2>8. UniqueTunnel' BY <2>4, <2>5, <2>6, KeepUnique
  <2> QED BY <2>1, <2>2, <2>3, <2>7, <2>8
<1>2. CASE ReadClientset(c)
  <2>1. CallPhases'
    BY <1>2 DEF ReadClientset, TypeOK, CallPhases, StopsFirst, Opened, SetState, Terminal
  <2>2. LiveIsNotTerminal'
    BY <1>2 DEF ReadClientset, TypeOK, LiveIsNotTerminal, CallPhases, StopsFirst, TeardownLists, Opened, Live, SetState, Terminal
  <2>3. StopsFirst'
    BY <1>2 DEF ReadClientset, TypeOK, StopsFirst, CallPhases, TeardownLists, Opened, SetState, Terminal
  <2>4. \A d \in Starts : (Live(d)' => Live(d)) /\ (Opened(d) => Opened(d)')
    BY <1>2 DEF ReadClientset, TypeOK, Opened, Live, CallPhases
  <2>5. UNCHANGED <<teardown, kpc, todo, target>> /\ registry' \subseteq registry
    BY <1>2 DEF ReadClientset
  <2>6. registry \subseteq Starts BY DEF TypeOK
  <2>7. TeardownReaches' /\ TeardownLists' BY <2>4, <2>5, KeepReaches, KeepLists
  <2>8. UniqueTunnel' BY <2>4, <2>5, <2>6, KeepUnique
  <2> QED BY <2>1, <2>2, <2>3, <2>7, <2>8
<1>3. CASE OpenSession(c)
  <2>1. CallPhases'
    BY <1>3 DEF OpenSession, TypeOK, CallPhases, StopsFirst, Opened, SetState, Terminal
  <2>2. LiveIsNotTerminal'
    BY <1>3 DEF OpenSession, TypeOK, LiveIsNotTerminal, CallPhases, StopsFirst, TeardownLists, Opened, Live, SetState, Terminal
  <2>3. StopsFirst'
    BY <1>3 DEF OpenSession, TypeOK, StopsFirst, CallPhases, TeardownLists, Opened, SetState, Terminal
  <2>4. \A d \in Starts : Live(d)' => Live(d) \/ d = c
    BY <1>3 DEF OpenSession, TypeOK, Opened, Live
  <2>5. ~teardown[c] /\ c \notin registry
    BY <1>3 DEF OpenSession, CallPhases, Opened
  <2>6. \A d \in Starts : Opened(d) => Opened(d)' BY <1>3 DEF OpenSession, TypeOK, Opened
  <2>7. UNCHANGED <<teardown, kpc, todo, target, registry>> BY <1>3 DEF OpenSession
  <2>8. TeardownReaches' BY <2>4, <2>5, <2>7, KeepReaches
  <2>9. TeardownLists' BY <2>6, <2>7, KeepLists
  <2>10. registry \subseteq Starts BY DEF TypeOK
  <2>11. UniqueTunnel' BY <2>4, <2>5, <2>7, <2>10, KeepUnique
  <2> QED BY <2>1, <2>2, <2>3, <2>8, <2>9, <2>11
<1>4. CASE OpenFails(c)
  <2>1. CallPhases'
    BY <1>4 DEF OpenFails, TypeOK, CallPhases, StopsFirst, Opened, SetState, Terminal
  <2>2. LiveIsNotTerminal'
    BY <1>4 DEF OpenFails, TypeOK, LiveIsNotTerminal, CallPhases, StopsFirst, TeardownLists, Opened, Live, SetState, Terminal
  <2>3. StopsFirst'
    BY <1>4 DEF OpenFails, TypeOK, StopsFirst, CallPhases, TeardownLists, Opened, SetState, Terminal
  <2>4. \A d \in Starts : (Live(d)' => Live(d)) /\ (Opened(d) => Opened(d)')
    BY <1>4 DEF OpenFails, TypeOK, Opened, Live, CallPhases
  <2>5. UNCHANGED <<teardown, kpc, todo, target>> /\ registry' \subseteq registry
    BY <1>4 DEF OpenFails
  <2>6. registry \subseteq Starts BY DEF TypeOK
  <2>7. TeardownReaches' /\ TeardownLists' BY <2>4, <2>5, KeepReaches, KeepLists
  <2>8. UniqueTunnel' BY <2>4, <2>5, <2>6, KeepUnique
  <2> QED BY <2>1, <2>2, <2>3, <2>7, <2>8
<1>5. CASE Insert(c)
  <2>1. CallPhases'
    BY <1>5 DEF Insert, TypeOK, CallPhases, StopsFirst, Opened, SetState, Terminal
  <2>2. LiveIsNotTerminal'
    BY <1>5 DEF Insert, TypeOK, LiveIsNotTerminal, CallPhases, StopsFirst, TeardownLists, Opened, Live, SetState, Terminal
  <2>3. StopsFirst'
    BY <1>5 DEF Insert, TypeOK, StopsFirst, CallPhases, TeardownLists, Opened, SetState, Terminal
  <2>4. \A d \in Starts : Live(d)' <=> Live(d) BY <1>5 DEF Insert, TypeOK, Opened, Live
  <2>5. UNCHANGED <<teardown, kpc, todo, target>> BY <1>5 DEF Insert
  <2>6. \A d \in Starts : Opened(d) => Opened(d)' BY <1>5 DEF Insert, TypeOK, Opened
  <2>7. TeardownReaches' /\ TeardownLists' BY <2>4, <2>5, <2>6, KeepReaches, KeepLists
  <2>8. UniqueTunnel'
    <3>1. registry' = registry \union {c} /\ registry \subseteq Starts
      BY <1>5 DEF Insert, TypeOK
    <3>2. \A d \in registry : Live(d) => target[d] # target[c]
      BY <1>5, <3>1 DEF Insert, TargetActive, LiveIsNotTerminal
    <3> QED BY <2>4, <2>5, <3>1, <3>2 DEF UniqueTunnel
  <2> QED BY <2>1, <2>2, <2>3, <2>7, <2>8
<1>6. CASE LoseRace(c)
  <2>1. CallPhases'
    BY <1>6 DEF LoseRace, TypeOK, CallPhases, StopsFirst, Opened, SetState, Terminal
  <2>2. LiveIsNotTerminal'
    BY <1>6 DEF LoseRace, TypeOK, LiveIsNotTerminal, CallPhases, StopsFirst, TeardownLists, Opened, Live, SetState, Terminal
  <2>3. StopsFirst'
    BY <1>6 DEF LoseRace, TypeOK, StopsFirst, CallPhases, TeardownLists, Opened, SetState, Terminal
  <2>4. \A d \in Starts : (Live(d)' => Live(d)) /\ (Opened(d) => Opened(d)')
    BY <1>6 DEF LoseRace, TypeOK, Opened, Live, CallPhases
  <2>5. UNCHANGED <<teardown, kpc, todo, target>> /\ registry' \subseteq registry
    BY <1>6 DEF LoseRace
  <2>6. registry \subseteq Starts BY DEF TypeOK
  <2>7. TeardownReaches' /\ TeardownLists' BY <2>4, <2>5, KeepReaches, KeepLists
  <2>8. UniqueTunnel' BY <2>4, <2>5, <2>6, KeepUnique
  <2> QED BY <2>1, <2>2, <2>3, <2>7, <2>8
<1>7. CASE StopLost(c)
  <2>1. CallPhases'
    BY <1>7 DEF StopLost, TypeOK, CallPhases, StopsFirst, Opened, SetState, Terminal
  <2>2. LiveIsNotTerminal'
    BY <1>7 DEF StopLost, TypeOK, LiveIsNotTerminal, CallPhases, StopsFirst, TeardownLists, Opened, Live, SetState, Terminal
  <2>3. StopsFirst'
    BY <1>7 DEF StopLost, TypeOK, StopsFirst, CallPhases, TeardownLists, Opened, SetState, Terminal
  <2>4. \A d \in Starts : (Live(d)' => Live(d)) /\ (Opened(d) => Opened(d)')
    BY <1>7 DEF StopLost, TypeOK, Opened, Live, CallPhases
  <2>5. UNCHANGED <<teardown, kpc, todo, target>> /\ registry' \subseteq registry
    BY <1>7 DEF StopLost
  <2>6. registry \subseteq Starts BY DEF TypeOK
  <2>7. TeardownReaches' /\ TeardownLists' BY <2>4, <2>5, KeepReaches, KeepLists
  <2>8. UniqueTunnel' BY <2>4, <2>5, <2>6, KeepUnique
  <2> QED BY <2>1, <2>2, <2>3, <2>7, <2>8
<1>8. CASE RefuseLost(c)
  <2>1. CallPhases'
    BY <1>8 DEF RefuseLost, TypeOK, CallPhases, StopsFirst, Opened, SetState, Terminal
  <2>2. LiveIsNotTerminal'
    BY <1>8 DEF RefuseLost, TypeOK, LiveIsNotTerminal, CallPhases, StopsFirst, TeardownLists, Opened, Live, SetState, Terminal
  <2>3. StopsFirst'
    BY <1>8 DEF RefuseLost, TypeOK, StopsFirst, CallPhases, TeardownLists, Opened, SetState, Terminal
  <2>4. \A d \in Starts : (Live(d)' => Live(d)) /\ (Opened(d) => Opened(d)')
    BY <1>8 DEF RefuseLost, TypeOK, Opened, Live, CallPhases
  <2>5. UNCHANGED <<teardown, kpc, todo, target>> /\ registry' \subseteq registry
    BY <1>8 DEF RefuseLost
  <2>6. registry \subseteq Starts BY DEF TypeOK
  <2>7. TeardownReaches' /\ TeardownLists' BY <2>4, <2>5, KeepReaches, KeepLists
  <2>8. UniqueTunnel' BY <2>4, <2>5, <2>6, KeepUnique
  <2> QED BY <2>1, <2>2, <2>3, <2>7, <2>8
<1>9. CASE SnapshotStatus(c)
  <2>1. CallPhases'
    BY <1>9 DEF SnapshotStatus, TypeOK, CallPhases, StopsFirst, Opened, SetState, Terminal
  <2>2. LiveIsNotTerminal'
    BY <1>9 DEF SnapshotStatus, TypeOK, LiveIsNotTerminal, CallPhases, StopsFirst, TeardownLists, Opened, Live, SetState, Terminal
  <2>3. StopsFirst'
    BY <1>9 DEF SnapshotStatus, TypeOK, StopsFirst, CallPhases, TeardownLists, Opened, SetState, Terminal
  <2>4. \A d \in Starts : (Live(d)' => Live(d)) /\ (Opened(d) => Opened(d)')
    BY <1>9 DEF SnapshotStatus, TypeOK, Opened, Live, CallPhases
  <2>5. UNCHANGED <<teardown, kpc, todo, target>> /\ registry' \subseteq registry
    BY <1>9 DEF SnapshotStatus
  <2>6. registry \subseteq Starts BY DEF TypeOK
  <2>7. TeardownReaches' /\ TeardownLists' BY <2>4, <2>5, KeepReaches, KeepLists
  <2>8. UniqueTunnel' BY <2>4, <2>5, <2>6, KeepUnique
  <2> QED BY <2>1, <2>2, <2>3, <2>7, <2>8
<1>10. CASE SpawnLifecycle(c)
  <2>1. CallPhases'
    BY <1>10 DEF SpawnLifecycle, TypeOK, CallPhases, StopsFirst, Opened, SetState, Terminal
  <2>2. LiveIsNotTerminal'
    BY <1>10 DEF SpawnLifecycle, TypeOK, LiveIsNotTerminal, CallPhases, StopsFirst, TeardownLists, Opened, Live, SetState, Terminal
  <2>3. StopsFirst'
    BY <1>10 DEF SpawnLifecycle, TypeOK, StopsFirst, CallPhases, TeardownLists, Opened, SetState, Terminal
  <2>4. \A d \in Starts : (Live(d)' => Live(d)) /\ (Opened(d) => Opened(d)')
    BY <1>10 DEF SpawnLifecycle, TypeOK, Opened, Live, CallPhases
  <2>5. UNCHANGED <<teardown, kpc, todo, target>> /\ registry' \subseteq registry
    BY <1>10 DEF SpawnLifecycle
  <2>6. registry \subseteq Starts BY DEF TypeOK
  <2>7. TeardownReaches' /\ TeardownLists' BY <2>4, <2>5, KeepReaches, KeepLists
  <2>8. UniqueTunnel' BY <2>4, <2>5, <2>6, KeepUnique
  <2> QED BY <2>1, <2>2, <2>3, <2>7, <2>8
<1> QED BY <1>1, <1>2, <1>3, <1>4, <1>5, <1>6, <1>7, <1>8, <1>9, <1>10 DEF StartCall

\* The session only ever ends: nothing here makes a tunnel live again.
LEMMA InvSession ==
    ASSUME IInv, TypeOK', NEW c \in Starts, Session(c)
    PROVE  IInv'
<1> USE DEF IInv, session, entries, events, starter, stopper, tearer
<1>1. CASE BecomesReady(c)
  <2>1. CallPhases'
    BY <1>1 DEF BecomesReady, TypeOK, CallPhases, StopsFirst, Opened, SetState, Terminal
  <2>2. LiveIsNotTerminal'
    BY <1>1 DEF BecomesReady, TypeOK, LiveIsNotTerminal, CallPhases, StopsFirst, TeardownLists, Opened, Live, SetState, Terminal
  <2>3. StopsFirst'
    BY <1>1 DEF BecomesReady, TypeOK, StopsFirst, CallPhases, TeardownLists, Opened, SetState, Terminal
  <2>4. \A d \in Starts : (Live(d)' => Live(d)) /\ (Opened(d) => Opened(d)')
    BY <1>1 DEF BecomesReady, TypeOK, Opened, Live, CallPhases
  <2>5. UNCHANGED <<teardown, kpc, todo, target>> /\ registry' \subseteq registry
    BY <1>1 DEF BecomesReady
  <2>6. registry \subseteq Starts BY DEF TypeOK
  <2>7. TeardownReaches' /\ TeardownLists' BY <2>4, <2>5, KeepReaches, KeepLists
  <2>8. UniqueTunnel' BY <2>4, <2>5, <2>6, KeepUnique
  <2> QED BY <2>1, <2>2, <2>3, <2>7, <2>8
<1>2. CASE Breaks(c)
  <2>1. CallPhases'
    BY <1>2 DEF Breaks, TypeOK, CallPhases, StopsFirst, Opened, SetState, Terminal
  <2>2. LiveIsNotTerminal'
    BY <1>2 DEF Breaks, TypeOK, LiveIsNotTerminal, CallPhases, StopsFirst, TeardownLists, Opened, Live, SetState, Terminal
  <2>3. StopsFirst'
    BY <1>2 DEF Breaks, TypeOK, StopsFirst, CallPhases, TeardownLists, Opened, SetState, Terminal
  <2>4. \A d \in Starts : (Live(d)' => Live(d)) /\ (Opened(d) => Opened(d)')
    BY <1>2 DEF Breaks, TypeOK, Opened, Live, CallPhases
  <2>5. UNCHANGED <<teardown, kpc, todo, target>> /\ registry' \subseteq registry
    BY <1>2 DEF Breaks
  <2>6. registry \subseteq Starts BY DEF TypeOK
  <2>7. TeardownReaches' /\ TeardownLists' BY <2>4, <2>5, KeepReaches, KeepLists
  <2>8. UniqueTunnel' BY <2>4, <2>5, <2>6, KeepUnique
  <2> QED BY <2>1, <2>2, <2>3, <2>7, <2>8
<1>3. CASE EndsCleanly(c)
  <2>1. CallPhases'
    BY <1>3 DEF EndsCleanly, TypeOK, CallPhases, StopsFirst, Opened, SetState, Terminal
  <2>2. LiveIsNotTerminal'
    BY <1>3 DEF EndsCleanly, TypeOK, LiveIsNotTerminal, CallPhases, StopsFirst, TeardownLists, Opened, Live, SetState, Terminal
  <2>3. StopsFirst'
    BY <1>3 DEF EndsCleanly, TypeOK, StopsFirst, CallPhases, TeardownLists, Opened, SetState, Terminal
  <2>4. \A d \in Starts : (Live(d)' => Live(d)) /\ (Opened(d) => Opened(d)')
    BY <1>3 DEF EndsCleanly, TypeOK, Opened, Live, CallPhases
  <2>5. UNCHANGED <<teardown, kpc, todo, target>> /\ registry' \subseteq registry
    BY <1>3 DEF EndsCleanly
  <2>6. registry \subseteq Starts BY DEF TypeOK
  <2>7. TeardownReaches' /\ TeardownLists' BY <2>4, <2>5, KeepReaches, KeepLists
  <2>8. UniqueTunnel' BY <2>4, <2>5, <2>6, KeepUnique
  <2> QED BY <2>1, <2>2, <2>3, <2>7, <2>8
<1>4. CASE Watchdog(c)
  <2>1. CallPhases'
    BY <1>4 DEF Watchdog, TypeOK, CallPhases, StopsFirst, Opened, SetState, Terminal
  <2>2. LiveIsNotTerminal'
    BY <1>4 DEF Watchdog, TypeOK, LiveIsNotTerminal, CallPhases, StopsFirst, TeardownLists, Opened, Live, SetState, Terminal
  <2>3. StopsFirst'
    BY <1>4 DEF Watchdog, TypeOK, StopsFirst, CallPhases, TeardownLists, Opened, SetState, Terminal
  <2>4. \A d \in Starts : (Live(d)' => Live(d)) /\ (Opened(d) => Opened(d)')
    BY <1>4 DEF Watchdog, TypeOK, Opened, Live, CallPhases
  <2>5. UNCHANGED <<teardown, kpc, todo, target>> /\ registry' \subseteq registry
    BY <1>4 DEF Watchdog
  <2>6. registry \subseteq Starts BY DEF TypeOK
  <2>7. TeardownReaches' /\ TeardownLists' BY <2>4, <2>5, KeepReaches, KeepLists
  <2>8. UniqueTunnel' BY <2>4, <2>5, <2>6, KeepUnique
  <2> QED BY <2>1, <2>2, <2>3, <2>7, <2>8
<1> QED BY <1>1, <1>2, <1>3, <1>4 DEF Session

\* The lifecycle records an end only after the session has been stopped or
\* has ended.
LEMMA InvLifecycle ==
    ASSUME IInv, TypeOK', NEW c \in Starts, Lifecycle(c)
    PROVE  IInv'
<1> USE DEF IInv, session, entries, events, starter, stopper, tearer
<1>1. CASE LifeReady(c)
  <2>1. CallPhases'
    BY <1>1 DEF LifeReady, TypeOK, CallPhases, StopsFirst, Opened, SetState, Terminal
  <2>2. LiveIsNotTerminal'
    BY <1>1 DEF LifeReady, TypeOK, LiveIsNotTerminal, CallPhases, StopsFirst, TeardownLists, Opened, Live, SetState, Terminal
  <2>3. StopsFirst'
    BY <1>1 DEF LifeReady, TypeOK, StopsFirst, CallPhases, TeardownLists, Opened, SetState, Terminal
  <2>4. \A d \in Starts : (Live(d)' => Live(d)) /\ (Opened(d) => Opened(d)')
    BY <1>1 DEF LifeReady, TypeOK, Opened, Live, CallPhases
  <2>5. UNCHANGED <<teardown, kpc, todo, target>> /\ registry' \subseteq registry
    BY <1>1 DEF LifeReady
  <2>6. registry \subseteq Starts BY DEF TypeOK
  <2>7. TeardownReaches' /\ TeardownLists' BY <2>4, <2>5, KeepReaches, KeepLists
  <2>8. UniqueTunnel' BY <2>4, <2>5, <2>6, KeepUnique
  <2> QED BY <2>1, <2>2, <2>3, <2>7, <2>8
<1>2. CASE LifeTimeout(c)
  <2>1. CallPhases'
    BY <1>2 DEF LifeTimeout, TypeOK, CallPhases, StopsFirst, Opened, SetState, Terminal
  <2>2. LiveIsNotTerminal'
    BY <1>2 DEF LifeTimeout, TypeOK, LiveIsNotTerminal, CallPhases, StopsFirst, TeardownLists, Opened, Live, SetState, Terminal
  <2>3. StopsFirst'
    BY <1>2 DEF LifeTimeout, TypeOK, StopsFirst, CallPhases, TeardownLists, Opened, SetState, Terminal
  <2>4. \A d \in Starts : (Live(d)' => Live(d)) /\ (Opened(d) => Opened(d)')
    BY <1>2 DEF LifeTimeout, TypeOK, Opened, Live, CallPhases
  <2>5. UNCHANGED <<teardown, kpc, todo, target>> /\ registry' \subseteq registry
    BY <1>2 DEF LifeTimeout
  <2>6. registry \subseteq Starts BY DEF TypeOK
  <2>7. TeardownReaches' /\ TeardownLists' BY <2>4, <2>5, KeepReaches, KeepLists
  <2>8. UniqueTunnel' BY <2>4, <2>5, <2>6, KeepUnique
  <2> QED BY <2>1, <2>2, <2>3, <2>7, <2>8
<1>3. CASE LifeFailTimeout(c)
  <2>1. CallPhases'
    BY <1>3 DEF LifeFailTimeout, TypeOK, CallPhases, StopsFirst, Opened, SetState, Terminal
  <2>2. LiveIsNotTerminal'
    BY <1>3 DEF LifeFailTimeout, TypeOK, LiveIsNotTerminal, CallPhases, StopsFirst, TeardownLists, Opened, Live, SetState, Terminal
  <2>3. StopsFirst'
    BY <1>3 DEF LifeFailTimeout, TypeOK, StopsFirst, CallPhases, TeardownLists, Opened, SetState, Terminal
  <2>4. \A d \in Starts : (Live(d)' => Live(d)) /\ (Opened(d) => Opened(d)')
    BY <1>3 DEF LifeFailTimeout, TypeOK, Opened, Live, CallPhases
  <2>5. UNCHANGED <<teardown, kpc, todo, target>> /\ registry' \subseteq registry
    BY <1>3 DEF LifeFailTimeout
  <2>6. registry \subseteq Starts BY DEF TypeOK
  <2>7. TeardownReaches' /\ TeardownLists' BY <2>4, <2>5, KeepReaches, KeepLists
  <2>8. UniqueTunnel' BY <2>4, <2>5, <2>6, KeepUnique
  <2> QED BY <2>1, <2>2, <2>3, <2>7, <2>8
<1>4. CASE LifeResult(c)
  <2>1. CallPhases'
    BY <1>4 DEF LifeResult, TypeOK, CallPhases, StopsFirst, Opened, SetState, Terminal
  <2>2. LiveIsNotTerminal'
    BY <1>4 DEF LifeResult, TypeOK, LiveIsNotTerminal, CallPhases, StopsFirst, TeardownLists, Opened, Live, SetState, Terminal
  <2>3. StopsFirst'
    BY <1>4 DEF LifeResult, TypeOK, StopsFirst, CallPhases, TeardownLists, Opened, SetState, Terminal
  <2>4. \A d \in Starts : (Live(d)' => Live(d)) /\ (Opened(d) => Opened(d)')
    BY <1>4 DEF LifeResult, TypeOK, Opened, Live, CallPhases
  <2>5. UNCHANGED <<teardown, kpc, todo, target>> /\ registry' \subseteq registry
    BY <1>4 DEF LifeResult
  <2>6. registry \subseteq Starts BY DEF TypeOK
  <2>7. TeardownReaches' /\ TeardownLists' BY <2>4, <2>5, KeepReaches, KeepLists
  <2>8. UniqueTunnel' BY <2>4, <2>5, <2>6, KeepUnique
  <2> QED BY <2>1, <2>2, <2>3, <2>7, <2>8
<1>5. CASE LifeContextDone(c)
  <2>1. CallPhases'
    BY <1>5 DEF LifeContextDone, TypeOK, CallPhases, StopsFirst, Opened, SetState, Terminal
  <2>2. LiveIsNotTerminal'
    BY <1>5 DEF LifeContextDone, TypeOK, LiveIsNotTerminal, CallPhases, StopsFirst, TeardownLists, Opened, Live, SetState, Terminal
  <2>3. StopsFirst'
    BY <1>5 DEF LifeContextDone, TypeOK, StopsFirst, CallPhases, TeardownLists, Opened, SetState, Terminal
  <2>4. \A d \in Starts : (Live(d)' => Live(d)) /\ (Opened(d) => Opened(d)')
    BY <1>5 DEF LifeContextDone, TypeOK, Opened, Live, CallPhases
  <2>5. UNCHANGED <<teardown, kpc, todo, target>> /\ registry' \subseteq registry
    BY <1>5 DEF LifeContextDone
  <2>6. registry \subseteq Starts BY DEF TypeOK
  <2>7. TeardownReaches' /\ TeardownLists' BY <2>4, <2>5, KeepReaches, KeepLists
  <2>8. UniqueTunnel' BY <2>4, <2>5, <2>6, KeepUnique
  <2> QED BY <2>1, <2>2, <2>3, <2>7, <2>8
<1>6. CASE FinishPortForward(c)
  <2>1. CallPhases'
    BY <1>6 DEF FinishPortForward, TypeOK, CallPhases, StopsFirst, Opened, SetState, Terminal
  <2>2. LiveIsNotTerminal'
    BY <1>6 DEF FinishPortForward, TypeOK, LiveIsNotTerminal, CallPhases, StopsFirst, TeardownLists, Opened, Live, SetState, Terminal
  <2>3. StopsFirst'
    BY <1>6 DEF FinishPortForward, TypeOK, StopsFirst, CallPhases, TeardownLists, Opened, SetState, Terminal
  <2>4. \A d \in Starts : (Live(d)' => Live(d)) /\ (Opened(d) => Opened(d)')
    BY <1>6 DEF FinishPortForward, TypeOK, Opened, Live, CallPhases
  <2>5. UNCHANGED <<teardown, kpc, todo, target>> /\ registry' \subseteq registry
    BY <1>6 DEF FinishPortForward
  <2>6. registry \subseteq Starts BY DEF TypeOK
  <2>7. TeardownReaches' /\ TeardownLists' BY <2>4, <2>5, KeepReaches, KeepLists
  <2>8. UniqueTunnel' BY <2>4, <2>5, <2>6, KeepUnique
  <2> QED BY <2>1, <2>2, <2>3, <2>7, <2>8
<1> QED BY <1>1, <1>2, <1>3, <1>4, <1>5, <1>6 DEF Lifecycle

\* A stop call stops the session before it records the state.
LEMMA InvStop ==
    ASSUME IInv, TypeOK', NEW s \in Stops, StopCall(s)
    PROVE  IInv'
<1> USE DEF IInv, session, entries, events, starter, stopper, tearer
<1>1. CASE LookUp(s)
  <2>0. aim[s] \in Starts /\ registry \subseteq Starts BY DEF TypeOK
  <2>1. CallPhases'
    BY <2>0, <1>1 DEF LookUp, TypeOK, CallPhases, StopsFirst, Opened, SetState, Terminal
  <2>2. LiveIsNotTerminal'
    BY <2>0, <1>1 DEF LookUp, TypeOK, LiveIsNotTerminal, CallPhases, StopsFirst, TeardownLists, Opened, Live, SetState, Terminal
  <2>3. StopsFirst'
    <3>1. UNCHANGED <<spc, lpc, stopped, result, state, quit, aim, built>> BY <1>1 DEF LookUp
    <3>2. xpc' = [xpc EXCEPT ![s] = xpc'[s]] /\ xpc'[s] \in {"looked", "done"}
      BY <1>1 DEF LookUp, TypeOK
    <3>3. xpc'[s] = "looked" => Opened(aim[s])
      <4>1. aim[s] \in registry => Opened(aim[s]) BY <2>0 DEF CallPhases, Opened
      <4> QED BY <1>1, <4>1 DEF LookUp, TypeOK
    <3>4. \A d \in Starts : Opened(d)' <=> Opened(d) BY <3>1 DEF Opened
    <3>5. \A r \in Stops : aim[r] \in Starts BY DEF TypeOK
    <3> QED BY <3>1, <3>2, <3>3, <3>4, <3>5 DEF StopsFirst, TypeOK
  <2>4. \A d \in Starts : (Live(d)' => Live(d)) /\ (Opened(d) => Opened(d)')
    BY <2>0, <1>1 DEF LookUp, TypeOK, Opened, Live, CallPhases
  <2>5. UNCHANGED <<teardown, kpc, todo, target>> /\ registry' \subseteq registry
    BY <1>1 DEF LookUp
  <2>6. registry \subseteq Starts BY DEF TypeOK
  <2>7. TeardownReaches' /\ TeardownLists' BY <2>4, <2>5, KeepReaches, KeepLists
  <2>8. UniqueTunnel' BY <2>4, <2>5, <2>6, KeepUnique
  <2> QED BY <2>1, <2>2, <2>3, <2>7, <2>8
<1>2. CASE SignalStop(s)
  <2>1. CallPhases'
    BY <1>2 DEF SignalStop, TypeOK, CallPhases, StopsFirst, Opened, SetState, Terminal
  <2>2. LiveIsNotTerminal'
    BY <1>2 DEF SignalStop, TypeOK, LiveIsNotTerminal, CallPhases, StopsFirst, TeardownLists, Opened, Live, SetState, Terminal
  <2>3. StopsFirst'
    BY <1>2 DEF SignalStop, TypeOK, StopsFirst, CallPhases, TeardownLists, Opened, SetState, Terminal
  <2>4. \A d \in Starts : (Live(d)' => Live(d)) /\ (Opened(d) => Opened(d)')
    BY <1>2 DEF SignalStop, TypeOK, Opened, Live, CallPhases
  <2>5. UNCHANGED <<teardown, kpc, todo, target>> /\ registry' \subseteq registry
    BY <1>2 DEF SignalStop
  <2>6. registry \subseteq Starts BY DEF TypeOK
  <2>7. TeardownReaches' /\ TeardownLists' BY <2>4, <2>5, KeepReaches, KeepLists
  <2>8. UniqueTunnel' BY <2>4, <2>5, <2>6, KeepUnique
  <2> QED BY <2>1, <2>2, <2>3, <2>7, <2>8
<1>3. CASE RecordStopped(s)
  <2>0. aim[s] \in Starts /\ registry \subseteq Starts BY DEF TypeOK
  <2>1. CallPhases'
    BY <2>0, <1>3 DEF RecordStopped, TypeOK, CallPhases, StopsFirst, Opened, SetState, Terminal
  <2>2. LiveIsNotTerminal'
    BY <2>0, <1>3 DEF RecordStopped, TypeOK, LiveIsNotTerminal, CallPhases, StopsFirst, TeardownLists, Opened, Live, SetState, Terminal
  <2>3. StopsFirst'
    <3>1. UNCHANGED <<spc, lpc, stopped, result, quit, aim, built>> BY <1>3 DEF RecordStopped
    <3>2. \A d \in Starts : Opened(d)' <=> Opened(d) BY <3>1 DEF Opened
    <3>3. \A d \in Starts : state[d] \in Terminal => state'[d] \in Terminal
      BY <2>0, <1>3 DEF RecordStopped, SetState, Terminal, TypeOK
    <3>4. \A r \in Stops : xpc'[r] = xpc[r] \/ xpc'[r] = "done"
      BY <1>3 DEF RecordStopped, TypeOK
    <3>5. \A r \in Stops : aim[r] \in Starts BY DEF TypeOK
    <3> QED BY <3>1, <3>2, <3>3, <3>4, <3>5 DEF StopsFirst
  <2>4. \A d \in Starts : (Live(d)' => Live(d)) /\ (Opened(d) => Opened(d)')
    BY <2>0, <1>3 DEF RecordStopped, TypeOK, Opened, Live, CallPhases
  <2>5. UNCHANGED <<teardown, kpc, todo, target>> /\ registry' \subseteq registry
    BY <1>3 DEF RecordStopped
  <2>6. registry \subseteq Starts BY DEF TypeOK
  <2>7. TeardownReaches' /\ TeardownLists' BY <2>4, <2>5, KeepReaches, KeepLists
  <2>8. UniqueTunnel' BY <2>4, <2>5, <2>6, KeepUnique
  <2> QED BY <2>1, <2>2, <2>3, <2>7, <2>8
<1> QED BY <1>1, <1>2, <1>3 DEF StopCall

\* A teardown stops what it marked.
LEMMA InvTear ==
    ASSUME IInv, TypeOK', NEW k \in tearers, TearCall(k)
    PROVE  IInv'
<1> USE DEF IInv, session, entries, events, starter, stopper, tearer
<1>1. CASE InstallClient(k)
  <2>1. CallPhases'
    BY <1>1 DEF InstallClient, TypeOK, CallPhases, StopsFirst, Opened, SetState, Terminal
  <2>2. LiveIsNotTerminal'
    BY <1>1 DEF InstallClient, TypeOK, LiveIsNotTerminal, CallPhases, StopsFirst, TeardownLists, Opened, Live, SetState, Terminal
  <2>3. StopsFirst'
    BY <1>1 DEF InstallClient, TypeOK, StopsFirst, CallPhases, TeardownLists, Opened, SetState, Terminal
  <2>4. \A d \in Starts : (Live(d)' => Live(d)) /\ (Opened(d) => Opened(d)')
    BY <1>1 DEF InstallClient, TypeOK, Opened, Live
  <2>5. UNCHANGED <<target, registry>> BY <1>1 DEF InstallClient
  <2>6. registry \subseteq Starts BY DEF TypeOK
  <2>7. UniqueTunnel' BY <2>4, <2>5, <2>6, KeepUnique
  <2>8. UNCHANGED <<teardown, todo>> BY <1>1 DEF InstallClient
  <2>9. TeardownReaches' BY <2>4, <2>8, KeepReaches
  <2>10. TeardownLists' BY <1>1, <2>4 DEF InstallClient, TeardownLists, TypeOK
  <2> QED BY <2>1, <2>2, <2>3, <2>7, <2>9, <2>10
<1>2. CASE MarkAll(k)
  <2>1. CallPhases'
    BY <1>2 DEF MarkAll, TypeOK, CallPhases, StopsFirst, Opened, SetState, Terminal
  <2>2. LiveIsNotTerminal'
    BY <1>2 DEF MarkAll, TypeOK, LiveIsNotTerminal, CallPhases, StopsFirst, TeardownLists, Opened, Live, SetState, Terminal
  <2>3. StopsFirst'
    BY <1>2 DEF MarkAll, TypeOK, StopsFirst, CallPhases, TeardownLists, Opened, SetState, Terminal
  <2>4. \A d \in Starts : (Live(d)' => Live(d)) /\ (Opened(d) => Opened(d)')
    BY <1>2 DEF MarkAll, TypeOK, Opened, Live
  <2>5. UNCHANGED <<target, registry>> BY <1>2 DEF MarkAll
  <2>6. registry \subseteq Starts BY DEF TypeOK
  <2>7. UniqueTunnel' BY <2>4, <2>5, <2>6, KeepUnique
  <2>8. kpc[k] # "stopping" /\ todo[k] = {}
    BY <1>2 DEF MarkAll, TeardownLists
  <2>9. todo' = [todo EXCEPT ![k] = registry] /\ kpc' = [kpc EXCEPT ![k] = "stopping"]
    BY <1>2 DEF MarkAll
  <2>10. TeardownReaches'
    <3> SUFFICES ASSUME NEW d \in Starts, teardown'[d], Live(d)'
                 PROVE  \E j \in tearers : d \in todo'[j]
      BY DEF TeardownReaches
    <3>1. CASE d \in registry BY <3>1, <2>9 DEF TypeOK
    <3>2. CASE d \notin registry
      <4>1. teardown[d] /\ Live(d) BY <1>2, <2>4, <3>2 DEF MarkAll, TypeOK
      <4>2. PICK j \in tearers : d \in todo[j] BY <4>1 DEF TeardownReaches
      <4> QED BY <4>2, <2>8, <2>9 DEF TypeOK
    <3> QED BY <3>1, <3>2
  <2>11. \A d \in registry : Opened(d)' BY <2>4, <2>6 DEF CallPhases, Opened
  <2>12. TeardownLists' BY <2>4, <2>9, <2>11 DEF TeardownLists, TypeOK
  <2> QED BY <2>1, <2>2, <2>3, <2>7, <2>10, <2>12
<1>3. CASE StopNext(k)
  <2>0. \A d \in todo[k] : d \in Starts /\ Opened(d) BY DEF TypeOK, TeardownLists
  <2>1. CallPhases'
    BY <2>0, <1>3 DEF StopNext, TypeOK, CallPhases, StopsFirst, Opened, SetState, Terminal
  <2>2. LiveIsNotTerminal'
    BY <2>0, <1>3 DEF StopNext, TypeOK, LiveIsNotTerminal, CallPhases, StopsFirst, TeardownLists, Opened, Live, SetState, Terminal
  <2>3. StopsFirst'
    BY <2>0, <1>3 DEF StopNext, TypeOK, StopsFirst, CallPhases, TeardownLists, Opened, SetState, Terminal
  <2>4. \A d \in Starts : (Live(d)' => Live(d)) /\ (Opened(d) => Opened(d)')
    BY <1>3 DEF StopNext, TypeOK, Opened, Live
  <2>5. UNCHANGED <<target, registry>> BY <1>3 DEF StopNext
  <2>6. registry \subseteq Starts BY DEF TypeOK
  <2>7. UniqueTunnel' BY <2>4, <2>5, <2>6, KeepUnique
  <2>8. PICK d \in todo[k] : /\ stopped' = [stopped EXCEPT ![d] = TRUE]
                             /\ todo' = [todo EXCEPT ![k] = @ \ {d}]
    BY <1>3 DEF StopNext
  <2>9. d \in Starts /\ ~Live(d)' BY <2>8 DEF TypeOK, Live
  <2>10. teardown' = teardown /\ kpc' = kpc BY <1>3 DEF StopNext
  <2>11. TeardownReaches' BY <2>4, <2>8, <2>9, <2>10 DEF TeardownReaches, TypeOK
  <2>12. TeardownLists' BY <1>3, <2>4, <2>8, <2>10 DEF StopNext, TeardownLists, TypeOK
  <2> QED BY <2>1, <2>2, <2>3, <2>7, <2>11, <2>12
<1>4. CASE TeardownDone(k)
  <2>1. CallPhases'
    BY <1>4 DEF TeardownDone, TypeOK, CallPhases, StopsFirst, Opened, SetState, Terminal
  <2>2. LiveIsNotTerminal'
    BY <1>4 DEF TeardownDone, TypeOK, LiveIsNotTerminal, CallPhases, StopsFirst, TeardownLists, Opened, Live, SetState, Terminal
  <2>3. StopsFirst'
    BY <1>4 DEF TeardownDone, TypeOK, StopsFirst, CallPhases, TeardownLists, Opened, SetState, Terminal
  <2>4. \A d \in Starts : (Live(d)' => Live(d)) /\ (Opened(d) => Opened(d)')
    BY <1>4 DEF TeardownDone, TypeOK, Opened, Live
  <2>5. UNCHANGED <<target, registry>> BY <1>4 DEF TeardownDone
  <2>6. registry \subseteq Starts BY DEF TypeOK
  <2>7. UniqueTunnel' BY <2>4, <2>5, <2>6, KeepUnique
  <2>8. UNCHANGED <<teardown, todo>> BY <1>4 DEF TeardownDone
  <2>9. TeardownReaches' BY <2>4, <2>8, KeepReaches
  <2>10. TeardownLists' BY <1>4, <2>4 DEF TeardownDone, TeardownLists, TypeOK
  <2> QED BY <2>1, <2>2, <2>3, <2>7, <2>9, <2>10
<1> QED BY <1>1, <1>2, <1>3, <1>4 DEF TearCall

\* An emission, the end of the application and a stutter touch no session.
LEMMA InvEmit ==
    ASSUME IInv, TypeOK', NEW a \in Emitters, NEW c \in Starts, EmitFor(a, c)
    PROVE  IInv'
<1> USE DEF EmitFor, session, entries, starter, stopper, tearer
<1>1. UNCHANGED <<target, spc, built, stopped, ready, result, registry, state, teardown,
                  lpc, xpc, aim, kpc, todo, conn, quit>>
  OBVIOUS
<1> QED BY <1>1 DEF IInv, CallPhases, LiveIsNotTerminal, StopsFirst, TeardownLists,
               TeardownReaches, UniqueTunnel, Opened, Live

LEMMA InvQuit ==
    ASSUME IInv, TypeOK', Quit
    PROVE  IInv'
<1>1. UNCHANGED <<target, spc, built, stopped, ready, result, registry, state, teardown,
                  lpc, xpc, aim, kpc, todo, conn>> /\ quit' = TRUE
  BY DEF Quit, session, entries, starter, stopper, tearer
<1> QED BY <1>1 DEF IInv, CallPhases, LiveIsNotTerminal, StopsFirst, TeardownLists,
               TeardownReaches, UniqueTunnel, Opened, Live

LEMMA InvStep == IInv /\ [Next]_vars => IInv'
<1> SUFFICES ASSUME IInv, [Next]_vars PROVE IInv'
  OBVIOUS
<1>0. TypeOK' BY TypeStep DEF IInv
<1>1. CASE \E c \in Starts : StartCall(c) \/ Session(c) \/ Lifecycle(c)
  BY <1>0, <1>1, InvStart, InvSession, InvLifecycle
<1>2. CASE \E s \in Stops : StopCall(s) BY <1>0, <1>2, InvStop
<1>3. CASE \E k \in tearers : TearCall(k) BY <1>0, <1>3, InvTear
<1>4. CASE Emit
  <2>1. \A s \in Stops : aim[s] \in Starts BY DEF IInv, TypeOK
  <2> QED BY <1>0, <1>4, <2>1, EmittersAre, InvEmit DEF Emit
<1>5. CASE Quit BY <1>0, <1>5, InvQuit
<1>6. CASE UNCHANGED vars
  BY <1>0, <1>6 DEF vars, IInv, CallPhases, LiveIsNotTerminal, StopsFirst, TeardownLists,
               TeardownReaches, UniqueTunnel, Opened, Live
<1> QED BY <1>1, <1>2, <1>3, <1>4, <1>5, <1>6 DEF Next

LEMMA Invariance == Spec => []IInv
BY InvInit, InvStep, PTL DEF Spec

\* At most one registered tunnel leads to a target, for any number of
\* concurrent starts, stops and reconnects.
THEOREM UniqueTunnelHolds == Spec => []UniqueTunnel
<1>1. IInv => UniqueTunnel BY DEF IInv
<1> QED BY <1>1, Invariance, PTL

\* No session runs unattended: it is its start call's or the registry's.
THEOREM NoLeakedTunnelHolds == Spec => []NoLeakedTunnel
<1>1. IInv => NoLeakedTunnel
  <2> SUFFICES ASSUME IInv, NEW c \in Starts, Live(c), c \notin registry
               PROVE  spc[c] \in {"opened", "lost"}
    BY DEF NoLeakedTunnel
  <2>1. Opened(c) /\ ~stopped[c] /\ result[c] = "none" BY DEF Live
  <2>2. spc[c] \in StartPC BY DEF IInv, TypeOK
  <2>3. spc[c] \notin {"discarded", "refused"} BY <2>1 DEF IInv, StopsFirst
  <2>4. lpc[c] # "done" BY <2>1 DEF IInv, StopsFirst
  <2>5. spc[c] \notin {"registered", "announcing", "returned"}
    BY <2>4 DEF IInv, CallPhases
  <2> QED BY <2>1, <2>2, <2>3, <2>5 DEF Opened, StartPC
<1> QED BY <1>1, Invariance, PTL

\* A teardown misses no forward it marked.
THEOREM TeardownReachesHolds == Spec => []TeardownReaches
<1>1. IInv => TeardownReaches BY DEF IInv
<1> QED BY <1>1, Invariance, PTL

\* An entry that has left the registry is in a terminal state, unless the
\* application is closing.
THEOREM RemovedIsTerminalHolds == Spec => []RemovedIsTerminal
<1>1. IInv => RemovedIsTerminal BY DEF IInv, StopsFirst, RemovedIsTerminal
<1> QED BY <1>1, Invariance, PTL
-----------------------------------------------------------------------------
\* The final event.  A terminal state of an entry that is not torn down was
\* told: its event is out, or waits in the goroutine that recorded the state.

\* The outgoing events are where the code puts them: a lifecycle has none to
\* emit before its first transition and when it is over, a stop call none
\* before it recorded its state.
PendPhases ==
    /\ \A c \in Starts :
          lpc[c] \in {"none", "starting", "timedOut", "done"} => pend[<<"life", c>>] = "none"
    /\ \A s \in Stops : xpc[s] # "done" => pend[<<"stop", s>>] = "none"

Emitted(c) == \E i \in 1..Len(emitted[c]) : emitted[c][i] \in Terminal

Told(c) ==
    \/ Emitted(c)
    \/ pend[<<"life", c>>] \in Terminal
    \/ \E s \in Stops : aim[s] = c /\ pend[<<"stop", s>>] \in Terminal

EndIsTold == \A c \in Starts : state[c] \in Terminal /\ ~teardown[c] => Told(c)

FinalInv == TypeOK /\ PendPhases /\ EndIsTold

\* A teardown may begin; nothing else a told end depends on moves.
LEMMA TellsNothing ==
    ASSUME FinalInv, UNCHANGED <<emitted, aim, pend, state>>,
           \A c \in Starts : teardown[c] => teardown'[c]
    PROVE  EndIsTold'
BY DEF FinalInv, EndIsTold, Told, Emitted

\* A goroutine that may record a state for c, with nothing left to emit,
\* leaves the event of a terminal state behind, unless c is torn down; what
\* it does not overwrite was told before.
LEMMA SetStateTells ==
    ASSUME FinalInv, NEW c \in Starts, NEW a \in Emitters, NEW s \in States,
           SetState(a, c, s), pend[a] = "none",
           a = <<"life", c>> \/ \E x \in Stops : a = <<"stop", x>> /\ aim[x] = c,
           UNCHANGED <<emitted, aim, teardown>>
    PROVE  EndIsTold'
<1> SUFFICES ASSUME NEW d \in Starts, state'[d] \in Terminal, ~teardown[d]
             PROVE  Told(d)'
  BY DEF EndIsTold
<1> USE DEF FinalInv, TypeOK
<1>0. "none" \notin Terminal BY DEF Terminal
<1>1. CASE state[c] = s
  <2>1. state' = state /\ pend' = pend BY <1>1 DEF SetState
  <2> QED BY <2>1 DEF EndIsTold, Told, Emitted
<1>2. CASE state[c] # s /\ teardown[c]
  <2>1. c # d /\ pend' = pend /\ state' = [state EXCEPT ![c] = s] BY <1>2 DEF SetState
  <2> QED BY <2>1 DEF EndIsTold, Told, Emitted
<1>3. CASE state[c] # s /\ ~teardown[c]
  <2>1. pend' = [pend EXCEPT ![a] = s] /\ state' = [state EXCEPT ![c] = s]
    BY <1>3 DEF SetState
  <2>2. pend'[a] = s /\ \A b \in Emitters \ {a} : pend'[b] = pend[b] BY <2>1
  <2>3. CASE c = d
    <3>1. s \in Terminal BY <2>1, <2>3
    <3> QED BY <2>2, <2>3, <3>1 DEF Told
  <2>4. CASE c # d
    <3>1. state[d] \in Terminal BY <2>1, <2>4
    <3>2. Told(d) BY <3>1 DEF EndIsTold
    <3>3. \A b \in Emitters : pend[b] \in Terminal => pend'[b] = pend[b] BY <1>0, <2>2
    <3> QED BY <3>2, <3>3, EmittersAre DEF Told, Emitted
  <2> QED BY <2>3, <2>4
<1> QED BY <1>1, <1>2, <1>3

LEMMA FinalStart ==
    ASSUME FinalInv, CallPhases, NEW c \in Starts, StartCall(c)
    PROVE  PendPhases' /\ EndIsTold'
<1> USE DEF session, entries, events, starter, stopper, tearer
<1>1. CASE SnapshotStatus(c)
  <2>1. /\ pend' = [pend EXCEPT ![<<"start", c>>] = state[c]]
        /\ UNCHANGED <<state, teardown, lpc, xpc, aim, emitted>>
    BY <1>1 DEF SnapshotStatus
  <2>2. /\ \A d \in Starts : pend'[<<"life", d>>] = pend[<<"life", d>>]
        /\ \A s \in Stops : pend'[<<"stop", s>>] = pend[<<"stop", s>>]
    BY <2>1, EmittersAre DEF FinalInv, TypeOK
  <2> QED BY <2>1, <2>2 DEF FinalInv, PendPhases, EndIsTold, Told, Emitted
<1>2. CASE SpawnLifecycle(c)
  <2>1. spc[c] = "announcing" /\ lpc' = [lpc EXCEPT ![c] = "starting"]
    BY <1>2 DEF SpawnLifecycle
  <2>2. pend[<<"life", c>>] = "none" BY <2>1 DEF CallPhases, FinalInv, PendPhases
  <2>3. PendPhases'
    BY <1>2, <2>1, <2>2 DEF SpawnLifecycle, FinalInv, PendPhases, TypeOK
  <2> QED BY <1>2, <2>3, TellsNothing DEF SpawnLifecycle
<1>3. ASSUME UNCHANGED <<state, teardown, lpc, xpc, aim, pend, emitted>>
      PROVE  PendPhases' /\ EndIsTold'
  BY <1>3, TellsNothing DEF FinalInv, PendPhases
<1> QED BY <1>1, <1>2, <1>3 DEF StartCall, PreCheck, ReadClientset, OpenSession, OpenFails,
        Insert, LoseRace, StopLost, RefuseLost

LEMMA FinalLifecycle ==
    ASSUME FinalInv, NEW c \in Starts, Lifecycle(c)
    PROVE  PendPhases' /\ EndIsTold'
<1> USE DEF session, entries, events, starter, stopper, tearer
<1>0. /\ {"active", "failed", "stopped"} \subseteq States
      /\ <<"life", c>> \in Emitters
  BY EmittersAre DEF States
<1>1. ASSUME NEW s \in States, SetState(<<"life", c>>, c, s), pend[<<"life", c>>] = "none",
             UNCHANGED <<emitted, aim, teardown, xpc>>,
             NEW pc \in {"active", "finishing"}, lpc' = [lpc EXCEPT ![c] = pc]
      PROVE  PendPhases' /\ EndIsTold'
  <2>1. EndIsTold' BY <1>0, <1>1, SetStateTells
  <2>2. /\ \A d \in Starts \ {c} : pend'[<<"life", d>>] = pend[<<"life", d>>]
        /\ \A s2 \in Stops : pend'[<<"stop", s2>>] = pend[<<"stop", s2>>]
    BY <1>1, EmittersAre DEF SetState, FinalInv, TypeOK
  <2> QED BY <1>1, <2>1, <2>2 DEF FinalInv, PendPhases, TypeOK
<1>2. ASSUME UNCHANGED <<state, teardown, xpc, aim, pend, emitted>>, pend[<<"life", c>>] = "none",
             NEW pc, lpc' = [lpc EXCEPT ![c] = pc]
      PROVE  PendPhases' /\ EndIsTold'
  BY <1>2, TellsNothing DEF FinalInv, PendPhases, TypeOK
<1>3. CASE LifeReady(c) BY <1>0, <1>1, <1>3 DEF LifeReady, FinalInv, PendPhases
<1>4. CASE LifeTimeout(c) BY <1>2, <1>4 DEF LifeTimeout, FinalInv, PendPhases
<1>5. CASE LifeFailTimeout(c) BY <1>0, <1>1, <1>5 DEF LifeFailTimeout, FinalInv, PendPhases
<1>6. CASE LifeResult(c) BY <1>0, <1>1, <1>6 DEF LifeResult
<1>7. CASE LifeContextDone(c) BY <1>2, <1>7 DEF LifeContextDone
<1>8. CASE FinishPortForward(c) BY <1>2, <1>8 DEF FinishPortForward
<1> QED BY <1>3, <1>4, <1>5, <1>6, <1>7, <1>8 DEF Lifecycle

LEMMA FinalStop ==
    ASSUME FinalInv, NEW s \in Stops, StopCall(s)
    PROVE  PendPhases' /\ EndIsTold'
<1> USE DEF session, entries, events, starter, stopper, tearer
<1>1. CASE LookUp(s) \/ SignalStop(s)
  <2>1. /\ UNCHANGED <<state, teardown, lpc, aim, pend, emitted>>
        /\ \A x \in Stops \ {s} : xpc'[x] = xpc[x]
        /\ xpc[s] \in {"idle", "looked"}
    BY <1>1 DEF LookUp, SignalStop, FinalInv, TypeOK
  <2> QED BY <2>1, TellsNothing DEF FinalInv, PendPhases
<1>2. CASE RecordStopped(s)
  <2>1. /\ SetState(<<"stop", s>>, aim[s], "stopped") /\ xpc' = [xpc EXCEPT ![s] = "done"]
        /\ UNCHANGED <<teardown, lpc, aim, emitted>>
        /\ pend[<<"stop", s>>] = "none"
    BY <1>2 DEF RecordStopped, FinalInv, PendPhases
  <2>2. aim[s] \in Starts /\ "stopped" \in States /\ <<"stop", s>> \in Emitters
    BY EmittersAre DEF FinalInv, TypeOK, States
  <2>3. EndIsTold' BY <2>1, <2>2, SetStateTells
  <2>4. /\ \A d \in Starts : pend'[<<"life", d>>] = pend[<<"life", d>>]
        /\ \A x \in Stops \ {s} : pend'[<<"stop", x>>] = pend[<<"stop", x>>]
    BY <2>1, EmittersAre DEF SetState, FinalInv, TypeOK
  <2> QED BY <2>1, <2>3, <2>4 DEF FinalInv, PendPhases, TypeOK
<1> QED BY <1>1, <1>2 DEF StopCall

\* An event that is emitted leaves its goroutine for the list of those that are
\* out.
LEMMA FinalEmit ==
    ASSUME FinalInv, NEW a \in Emitters, NEW c \in Starts, EmitFor(a, c),
           \A d \in Starts : a = <<"life", d>> => d = c,
           \A s \in Stops : a = <<"stop", s>> => aim[s] = c
    PROVE  PendPhases' /\ EndIsTold'
<1> USE DEF session, entries, starter, stopper, tearer
<1>1. /\ emitted' = [emitted EXCEPT ![c] = Append(@, pend[a])]
      /\ pend' = [pend EXCEPT ![a] = "none"]
      /\ UNCHANGED <<state, teardown, lpc, xpc, aim>>
  BY DEF EmitFor
<1>2. /\ \A b \in Emitters \ {a} : pend'[b] = pend[b]
      /\ pend'[a] = "none"
  BY <1>1 DEF FinalInv, TypeOK
<1>3. PendPhases' BY <1>1, <1>2, EmittersAre DEF FinalInv, PendPhases
<1>4. ASSUME NEW d \in Starts, Emitted(d) PROVE Emitted(d)'
  <2>1. emitted[d] \in Seq(States) BY DEF FinalInv, TypeOK
  <2>2. PICK i \in 1..Len(emitted[d]) : emitted[d][i] \in Terminal BY <1>4 DEF Emitted
  <2>3. i \in 1..Len(emitted'[d]) /\ emitted'[d][i] = emitted[d][i]
    <3>1. CASE d = c BY <1>1, <2>1, <2>2, <3>1 DEF FinalInv, TypeOK
    <3>2. CASE d # c BY <1>1, <2>2, <3>2 DEF FinalInv, TypeOK
    <3> QED BY <3>1, <3>2
  <2> QED BY <2>2, <2>3 DEF Emitted
<1>5. pend[a] \in Terminal => Emitted(c)'
  <2>1. emitted[c] \in Seq(States) BY DEF FinalInv, TypeOK
  <2>2. emitted'[c] = Append(emitted[c], pend[a]) BY <1>1 DEF FinalInv, TypeOK
  <2>3. /\ Len(emitted[c]) + 1 \in 1..Len(emitted'[c])
        /\ emitted'[c][Len(emitted[c]) + 1] = pend[a]
    BY <2>1, <2>2
  <2> QED BY <2>3 DEF Emitted
<1>6. ASSUME NEW d \in Starts, Told(d) PROVE Told(d)'
  <2>1. CASE Emitted(d) BY <1>4, <2>1 DEF Told
  <2>2. CASE pend[<<"life", d>>] \in Terminal
    <3>1. CASE a = <<"life", d>> BY <1>5, <2>2, <3>1 DEF Told
    <3>2. CASE a # <<"life", d>> BY <1>2, <2>2, <3>2, EmittersAre DEF Told
    <3> QED BY <3>1, <3>2
  <2>3. ASSUME NEW s \in Stops, aim[s] = d, pend[<<"stop", s>>] \in Terminal
        PROVE  Told(d)'
    <3>1. CASE a = <<"stop", s>> BY <1>5, <2>3, <3>1 DEF Told
    <3>2. CASE a # <<"stop", s>> BY <1>1, <1>2, <2>3, <3>2, EmittersAre DEF Told
    <3> QED BY <3>1, <3>2
  <2> QED BY <1>6, <2>1, <2>2, <2>3 DEF Told
<1> QED BY <1>1, <1>3, <1>6 DEF FinalInv, EndIsTold

LEMMA FinalStep == IInv /\ FinalInv /\ [Next]_vars => FinalInv'
<1> SUFFICES ASSUME FinalInv, CallPhases, [Next]_vars PROVE PendPhases' /\ EndIsTold'
  BY TypeStep DEF FinalInv, IInv
<1> USE DEF session, entries, events, starter, stopper, tearer
<1>1. ASSUME NEW c \in Starts, StartCall(c) PROVE PendPhases' /\ EndIsTold'
  BY <1>1, FinalStart
<1>2. ASSUME NEW c \in Starts, Session(c) PROVE PendPhases' /\ EndIsTold'
  BY <1>2, TellsNothing
     DEF Session, BecomesReady, Breaks, EndsCleanly, Watchdog, FinalInv, PendPhases
<1>3. ASSUME NEW c \in Starts, Lifecycle(c) PROVE PendPhases' /\ EndIsTold'
  BY <1>3, FinalLifecycle
<1>4. ASSUME NEW s \in Stops, StopCall(s) PROVE PendPhases' /\ EndIsTold'
  BY <1>4, FinalStop
<1>5. ASSUME NEW k \in tearers, TearCall(k) PROVE PendPhases' /\ EndIsTold'
  <2>1. UNCHANGED <<emitted, aim, pend, state, lpc, xpc>>
    BY <1>5 DEF TearCall, InstallClient, MarkAll, StopNext, TeardownDone
  <2>2. \A c \in Starts : teardown[c] => teardown'[c]
    BY <1>5 DEF TearCall, InstallClient, MarkAll, StopNext, TeardownDone
  <2> QED BY <2>1, <2>2, TellsNothing DEF FinalInv, PendPhases
<1>6. CASE Emit
  <2>1. \A s \in Stops : aim[s] \in Starts BY DEF FinalInv, TypeOK
  <2> QED BY <1>6, <2>1, EmittersAre, FinalEmit DEF Emit
<1>7. CASE Quit BY <1>7, TellsNothing DEF Quit, FinalInv, PendPhases
<1>8. CASE UNCHANGED vars BY <1>8, TellsNothing DEF vars, FinalInv, PendPhases
<1> QED BY <1>1, <1>2, <1>3, <1>4, <1>5, <1>6, <1>7, <1>8 DEF Next

\* The end of a forward that nobody tore down reaches the frontend, in whatever
\* order the lifecycle and the stop calls set the state and emit it
\* (setPortForwardState emits outside the lock).
THEOREM FinalEventNotLostHolds == Spec => []FinalEventNotLost
<1>1. Init => FinalInv
  BY TypeInit, EmittersAre DEF Init, FinalInv, PendPhases, EndIsTold, Terminal
<1>2. TypeOK /\ RemovedIsTerminal /\ FinalInv => FinalEventNotLost
  <2> SUFFICES ASSUME FinalInv, RemovedIsTerminal, NEW c \in Starts,
                      lpc[c] = "done", ~teardown[c], ~quit
               PROVE  \/ \E i \in 1..Len(emitted[c]) : emitted[c][i] \in Terminal
                      \/ \E s \in Stops : aim[s] = c /\ pend[<<"stop", s>>] \in Terminal
    BY DEF FinalEventNotLost
  <2>1. Told(c) BY DEF RemovedIsTerminal, FinalInv, EndIsTold
  <2>2. pend[<<"life", c>>] = "none" /\ "none" \notin Terminal
    BY DEF FinalInv, PendPhases, Terminal
  <2> QED BY <2>1, <2>2 DEF Told, Emitted
<1> QED BY <1>1, <1>2, FinalStep, Invariance, TypeCorrect, RemovedIsTerminalHolds, PTL DEF Spec

-----------------------------------------------------------------------------
(***************************************************************************)
(* PortForward implements Tunnels, step by step: every step of the service *)
(* opens, shares, closes or reaps one tunnel, or changes none.  (That a    *)
(* closed tunnel is eventually reaped is liveness, and left to TLC.)       *)
(***************************************************************************)

\* A step that moves the tunnel of one call along an allowed edge, and no
\* other, is a step of Tunnels.
LEMMA OneTunnelMoves ==
    ASSUME target' = target, NEW c \in Starts,
           \A d \in Starts \ {c} : TunnelPhase(d)' = TunnelPhase(d),
           \/ TunnelPhase(c)' = TunnelPhase(c)
           \/ TunnelPhase(c) = "none" /\ TunnelPhase(c)' = "private"
           \/ /\ TunnelPhase(c) = "private" /\ TunnelPhase(c)' = "shared"
              /\ \A d \in Starts : TunnelPhase(d) = "shared" => target[d] # target[c]
           \/ TunnelPhase(c) \in {"private", "shared"} /\ TunnelPhase(c)' = "closed"
           \/ TunnelPhase(c) = "closed" /\ TunnelPhase(c)' = "reaped"
    PROVE  [T!TunnelsNext]_(T!tunnelVars)
<1> DEFINE phase == [d \in Starts |-> TunnelPhase(d)]
           phaseNext == [d \in Starts |-> TunnelPhase(d)']
<1>1. \A d \in Starts \ {c} : phaseNext[d] = phase[d] OBVIOUS
<1>2. phase[c] = TunnelPhase(c) /\ phaseNext[c] = TunnelPhase(c)' OBVIOUS
<1>3. phaseNext = [phase EXCEPT ![c] = phaseNext[c]] BY <1>1
<1>4. CASE TunnelPhase(c)' = TunnelPhase(c)
  <2>1. phaseNext = phase BY <1>1, <1>4
  <2> QED BY <2>1 DEF T!tunnelVars
<1>5. CASE TunnelPhase(c) = "none" /\ TunnelPhase(c)' = "private"
  <2>1. T!OpenTunnel(c) BY <1>2, <1>3, <1>5 DEF T!OpenTunnel
  <2> QED BY <2>1 DEF T!TunnelsNext
<1>6. CASE /\ TunnelPhase(c) = "private" /\ TunnelPhase(c)' = "shared"
           /\ \A d \in Starts : TunnelPhase(d) = "shared" => target[d] # target[c]
  <2>1. T!ShareTunnel(c) BY <1>2, <1>3, <1>6 DEF T!ShareTunnel
  <2> QED BY <2>1 DEF T!TunnelsNext
<1>7. CASE TunnelPhase(c) \in {"private", "shared"} /\ TunnelPhase(c)' = "closed"
  <2>1. T!CloseTunnel(c) BY <1>2, <1>3, <1>7 DEF T!CloseTunnel
  <2> QED BY <2>1 DEF T!TunnelsNext
<1>8. CASE TunnelPhase(c) = "closed" /\ TunnelPhase(c)' = "reaped"
  <2>1. T!ReapTunnel(c) BY <1>2, <1>3, <1>8 DEF T!ReapTunnel
  <2> QED BY <2>1 DEF T!TunnelsNext
<1> QED BY <1>4, <1>5, <1>6, <1>7, <1>8

\* A step that changes nothing a tunnel is made of moves no tunnel.
LEMMA NoTunnelMoves ==
    ASSUME UNCHANGED <<target, spc, built, stopped, result, registry, lpc>>
    PROVE  [T!TunnelsNext]_(T!tunnelVars)
<1>1. \A d \in Starts : TunnelPhase(d)' = TunnelPhase(d) BY DEF TunnelPhase, Opened, Live
<1> QED BY <1>1 DEF T!tunnelVars

\* A start call opens, shares or discards its own tunnel.
LEMMA StartRefines ==
    ASSUME IInv, NEW c \in Starts, StartCall(c)
    PROVE  [T!TunnelsNext]_(T!tunnelVars)
<1> USE DEF session, entries, events, starter, stopper, tearer
<1>0. TypeOK /\ CallPhases /\ StopsFirst /\ LiveIsNotTerminal /\ TeardownLists BY DEF IInv
<1>1. CASE PreCheck(c)
  <2>1. target' = target BY <1>1 DEF PreCheck
  <2>2. \A d \in Starts \ {c} : TunnelPhase(d)' = TunnelPhase(d)
    BY <1>0, <1>1 DEF PreCheck, TypeOK, TunnelPhase, Opened, Live
  <2>3. TunnelPhase(c)' = TunnelPhase(c)
    BY <1>0, <1>1 DEF PreCheck, TypeOK, CallPhases, StopsFirst, TunnelPhase, Opened, Live
  <2> QED BY <2>1, <2>2, <2>3, OneTunnelMoves
<1>2. CASE ReadClientset(c)
  <2>1. target' = target BY <1>2 DEF ReadClientset
  <2>2. \A d \in Starts \ {c} : TunnelPhase(d)' = TunnelPhase(d)
    BY <1>0, <1>2 DEF ReadClientset, TypeOK, TunnelPhase, Opened, Live
  <2>3. TunnelPhase(c)' = TunnelPhase(c)
    BY <1>0, <1>2 DEF ReadClientset, TypeOK, CallPhases, StopsFirst, TunnelPhase, Opened, Live
  <2> QED BY <2>1, <2>2, <2>3, OneTunnelMoves
<1>3. CASE OpenSession(c)
  <2>1. target' = target BY <1>3 DEF OpenSession
  <2>2. \A d \in Starts \ {c} : TunnelPhase(d)' = TunnelPhase(d)
    BY <1>0, <1>3 DEF OpenSession, TypeOK, TunnelPhase, Opened, Live
  <2>3. TunnelPhase(c) = "none" /\ TunnelPhase(c)' = "private"
    <3>1. spc[c] = "client" /\ ~Opened(c) /\ c \notin registry
      BY <1>0, <1>3 DEF OpenSession, CallPhases, Opened
    <3>2. ~stopped[c] /\ result[c] = "none" /\ lpc[c] # "done"
      BY <1>0, <3>1 DEF CallPhases
    <3>3. /\ spc'[c] = "opened" /\ built'[c] # {}
          /\ UNCHANGED <<stopped, result, registry, lpc>>
      BY <1>0, <1>3 DEF OpenSession, TypeOK
    <3> QED BY <3>1, <3>2, <3>3 DEF TunnelPhase, Opened, Live
  <2> QED BY <2>1, <2>2, <2>3, OneTunnelMoves
<1>4. CASE OpenFails(c)
  <2>1. target' = target BY <1>4 DEF OpenFails
  <2>2. \A d \in Starts \ {c} : TunnelPhase(d)' = TunnelPhase(d)
    BY <1>0, <1>4 DEF OpenFails, TypeOK, TunnelPhase, Opened, Live
  <2>3. TunnelPhase(c)' = TunnelPhase(c)
    BY <1>0, <1>4 DEF OpenFails, TypeOK, CallPhases, StopsFirst, TunnelPhase, Opened, Live
  <2> QED BY <2>1, <2>2, <2>3, OneTunnelMoves
<1>5. CASE Insert(c)
  <2>1. target' = target /\ Opened(c) /\ c \notin registry
    BY <1>0, <1>5 DEF Insert, Opened, CallPhases
  <2>2. \A d \in Starts \ {c} : TunnelPhase(d)' = TunnelPhase(d)
    BY <1>0, <1>5 DEF Insert, TypeOK, TunnelPhase, Opened, Live
  <2>3. \A d \in Starts : TunnelPhase(d) = "shared" => target[d] # target[c]
    BY <1>0, <1>5 DEF Insert, TargetActive, LiveIsNotTerminal, TunnelPhase
  <2>4. \/ TunnelPhase(c)' = TunnelPhase(c)
        \/ TunnelPhase(c) = "private" /\ TunnelPhase(c)' = "shared"
    BY <1>0, <1>5, <2>1 DEF Insert, TypeOK, CallPhases, TunnelPhase, Opened, Live
  <2> QED BY <2>1, <2>2, <2>3, <2>4, OneTunnelMoves
<1>6. CASE LoseRace(c)
  <2>1. target' = target BY <1>6 DEF LoseRace
  <2>2. \A d \in Starts \ {c} : TunnelPhase(d)' = TunnelPhase(d)
    BY <1>0, <1>6 DEF LoseRace, TypeOK, TunnelPhase, Opened, Live
  <2>3. TunnelPhase(c)' = TunnelPhase(c)
    BY <1>0, <1>6 DEF LoseRace, TypeOK, CallPhases, StopsFirst, TunnelPhase, Opened, Live
  <2> QED BY <2>1, <2>2, <2>3, OneTunnelMoves
<1>7. CASE StopLost(c)
  <2>1. target' = target BY <1>7 DEF StopLost
  <2>2. \A d \in Starts \ {c} : TunnelPhase(d)' = TunnelPhase(d)
    BY <1>0, <1>7 DEF StopLost, TypeOK, TunnelPhase, Opened, Live
  <2>3. TunnelPhase(c)' = TunnelPhase(c) \/ (TunnelPhase(c) \in {"private", "shared"} /\ TunnelPhase(c)' = "closed")
    BY <1>0, <1>7 DEF StopLost, TypeOK, CallPhases, StopsFirst, TunnelPhase, Opened, Live
  <2> QED BY <2>1, <2>2, <2>3, OneTunnelMoves
<1>8. CASE RefuseLost(c)
  <2>1. target' = target BY <1>8 DEF RefuseLost
  <2>2. \A d \in Starts \ {c} : TunnelPhase(d)' = TunnelPhase(d)
    BY <1>0, <1>8 DEF RefuseLost, TypeOK, TunnelPhase, Opened, Live
  <2>3. TunnelPhase(c) = "closed" /\ TunnelPhase(c)' = "reaped"
    <3>1. /\ spc[c] = "discarded" /\ spc'[c] = "refused"
          /\ UNCHANGED <<built, stopped, result, registry, lpc>>
      BY <1>0, <1>8 DEF RefuseLost, TypeOK
    <3>2. Opened(c) /\ stopped[c] /\ lpc[c] # "done"
      BY <1>0, <3>1 DEF CallPhases, StopsFirst, Opened
    <3> QED BY <3>1, <3>2 DEF TunnelPhase, Opened, Live
  <2> QED BY <2>1, <2>2, <2>3, OneTunnelMoves
<1>9. CASE SnapshotStatus(c)
  <2>1. target' = target BY <1>9 DEF SnapshotStatus
  <2>2. \A d \in Starts \ {c} : TunnelPhase(d)' = TunnelPhase(d)
    BY <1>0, <1>9 DEF SnapshotStatus, TypeOK, TunnelPhase, Opened, Live
  <2>3. TunnelPhase(c)' = TunnelPhase(c)
    BY <1>0, <1>9 DEF SnapshotStatus, TypeOK, CallPhases, StopsFirst, TunnelPhase, Opened, Live
  <2> QED BY <2>1, <2>2, <2>3, OneTunnelMoves
<1>10. CASE SpawnLifecycle(c)
  <2>1. target' = target BY <1>10 DEF SpawnLifecycle
  <2>2. \A d \in Starts \ {c} : TunnelPhase(d)' = TunnelPhase(d)
    BY <1>0, <1>10 DEF SpawnLifecycle, TypeOK, TunnelPhase, Opened, Live
  <2>3. TunnelPhase(c)' = TunnelPhase(c)
    <3>1. /\ spc[c] = "announcing" /\ spc'[c] = "returned" /\ lpc'[c] = "starting"
          /\ UNCHANGED <<built, stopped, result, registry>>
      BY <1>0, <1>10 DEF SpawnLifecycle, TypeOK
    <3>2. lpc[c] # "done" BY <1>0, <3>1 DEF CallPhases
    <3> QED BY <3>1, <3>2 DEF TunnelPhase, Opened, Live
  <2> QED BY <2>1, <2>2, <2>3, OneTunnelMoves
<1> QED BY <1>1, <1>2, <1>3, <1>4, <1>5, <1>6, <1>7, <1>8, <1>9, <1>10 DEF StartCall

\* A session that ends, or whose context is cancelled, closes its tunnel.
LEMMA SessionRefines ==
    ASSUME IInv, NEW c \in Starts, Session(c)
    PROVE  [T!TunnelsNext]_(T!tunnelVars)
<1> USE DEF session, entries, events, starter, stopper, tearer
<1>0. TypeOK /\ CallPhases /\ StopsFirst /\ LiveIsNotTerminal /\ TeardownLists BY DEF IInv
<1>1. CASE BecomesReady(c) BY <1>1, NoTunnelMoves DEF BecomesReady
<1>2. CASE Breaks(c)
  <2>1. target' = target BY <1>2 DEF Breaks
  <2>2. \A d \in Starts \ {c} : TunnelPhase(d)' = TunnelPhase(d)
    BY <1>0, <1>2 DEF Breaks, TypeOK, TunnelPhase, Opened, Live
  <2>3. TunnelPhase(c)' = TunnelPhase(c) \/ (TunnelPhase(c) \in {"private", "shared"} /\ TunnelPhase(c)' = "closed")
    BY <1>0, <1>2 DEF Breaks, TypeOK, CallPhases, StopsFirst, TunnelPhase, Opened, Live
  <2> QED BY <2>1, <2>2, <2>3, OneTunnelMoves
<1>3. CASE EndsCleanly(c)
  <2>1. target' = target BY <1>3 DEF EndsCleanly
  <2>2. \A d \in Starts \ {c} : TunnelPhase(d)' = TunnelPhase(d)
    BY <1>0, <1>3 DEF EndsCleanly, TypeOK, TunnelPhase, Opened, Live
  <2>3. TunnelPhase(c)' = TunnelPhase(c) \/ (TunnelPhase(c) \in {"private", "shared"} /\ TunnelPhase(c)' = "closed")
    BY <1>0, <1>3 DEF EndsCleanly, TypeOK, CallPhases, StopsFirst, TunnelPhase, Opened, Live
  <2> QED BY <2>1, <2>2, <2>3, OneTunnelMoves
<1>4. CASE Watchdog(c)
  <2>1. target' = target BY <1>4 DEF Watchdog
  <2>2. \A d \in Starts \ {c} : TunnelPhase(d)' = TunnelPhase(d)
    BY <1>0, <1>4 DEF Watchdog, TypeOK, TunnelPhase, Opened, Live
  <2>3. TunnelPhase(c)' = TunnelPhase(c) \/ (TunnelPhase(c) \in {"private", "shared"} /\ TunnelPhase(c)' = "closed")
    BY <1>0, <1>4 DEF Watchdog, TypeOK, CallPhases, StopsFirst, TunnelPhase, Opened, Live
  <2> QED BY <2>1, <2>2, <2>3, OneTunnelMoves
<1> QED BY <1>1, <1>2, <1>3, <1>4 DEF Session

\* A lifecycle closes its tunnel, and reaps it only once it is closed.
LEMMA LifecycleRefines ==
    ASSUME IInv, NEW c \in Starts, Lifecycle(c)
    PROVE  [T!TunnelsNext]_(T!tunnelVars)
<1> USE DEF session, entries, events, starter, stopper, tearer
<1>0. TypeOK /\ CallPhases /\ StopsFirst /\ LiveIsNotTerminal /\ TeardownLists BY DEF IInv
<1>1. CASE LifeReady(c)
  <2>1. target' = target BY <1>1 DEF LifeReady
  <2>2. \A d \in Starts \ {c} : TunnelPhase(d)' = TunnelPhase(d)
    BY <1>0, <1>1 DEF LifeReady, TypeOK, TunnelPhase, Opened, Live
  <2>3. TunnelPhase(c)' = TunnelPhase(c)
    BY <1>0, <1>1 DEF LifeReady, TypeOK, CallPhases, StopsFirst, TunnelPhase, Opened, Live
  <2> QED BY <2>1, <2>2, <2>3, OneTunnelMoves
<1>2. CASE LifeTimeout(c)
  <2>1. target' = target BY <1>2 DEF LifeTimeout
  <2>2. \A d \in Starts \ {c} : TunnelPhase(d)' = TunnelPhase(d)
    BY <1>0, <1>2 DEF LifeTimeout, TypeOK, TunnelPhase, Opened, Live
  <2>3. TunnelPhase(c)' = TunnelPhase(c) \/ (TunnelPhase(c) \in {"private", "shared"} /\ TunnelPhase(c)' = "closed")
    BY <1>0, <1>2 DEF LifeTimeout, TypeOK, CallPhases, StopsFirst, TunnelPhase, Opened, Live
  <2> QED BY <2>1, <2>2, <2>3, OneTunnelMoves
<1>3. CASE LifeFailTimeout(c)
  <2>1. target' = target BY <1>3 DEF LifeFailTimeout
  <2>2. \A d \in Starts \ {c} : TunnelPhase(d)' = TunnelPhase(d)
    BY <1>0, <1>3 DEF LifeFailTimeout, TypeOK, TunnelPhase, Opened, Live
  <2>3. TunnelPhase(c)' = TunnelPhase(c)
    BY <1>0, <1>3 DEF LifeFailTimeout, TypeOK, CallPhases, StopsFirst, TunnelPhase, Opened, Live
  <2> QED BY <2>1, <2>2, <2>3, OneTunnelMoves
<1>4. CASE LifeResult(c)
  <2>1. target' = target BY <1>4 DEF LifeResult
  <2>2. \A d \in Starts \ {c} : TunnelPhase(d)' = TunnelPhase(d)
    BY <1>0, <1>4 DEF LifeResult, TypeOK, TunnelPhase, Opened, Live
  <2>3. TunnelPhase(c)' = TunnelPhase(c)
    BY <1>0, <1>4 DEF LifeResult, TypeOK, CallPhases, StopsFirst, TunnelPhase, Opened, Live
  <2> QED BY <2>1, <2>2, <2>3, OneTunnelMoves
<1>5. CASE LifeContextDone(c)
  <2>1. target' = target BY <1>5 DEF LifeContextDone
  <2>2. \A d \in Starts \ {c} : TunnelPhase(d)' = TunnelPhase(d)
    BY <1>0, <1>5 DEF LifeContextDone, TypeOK, TunnelPhase, Opened, Live
  <2>3. TunnelPhase(c)' = TunnelPhase(c) \/ (TunnelPhase(c) \in {"private", "shared"} /\ TunnelPhase(c)' = "closed")
    BY <1>0, <1>5 DEF LifeContextDone, TypeOK, CallPhases, StopsFirst, TunnelPhase, Opened, Live
  <2> QED BY <2>1, <2>2, <2>3, OneTunnelMoves
<1>6. CASE FinishPortForward(c)
  <2>1. target' = target BY <1>6 DEF FinishPortForward
  <2>2. \A d \in Starts \ {c} : TunnelPhase(d)' = TunnelPhase(d)
    BY <1>0, <1>6 DEF FinishPortForward, TypeOK, TunnelPhase, Opened, Live
  <2>3. TunnelPhase(c) = "closed" /\ TunnelPhase(c)' = "reaped"
    <3>1. /\ lpc[c] = "finishing" /\ lpc'[c] = "done"
          /\ UNCHANGED <<spc, built, stopped, result>>
      BY <1>0, <1>6 DEF FinishPortForward, TypeOK
    <3>2. spc[c] = "returned" /\ Opened(c) BY <1>0, <3>1 DEF CallPhases, Opened
    <3>3. stopped[c] \/ result[c] # "none" BY <1>0, <3>1 DEF StopsFirst
    <3> QED BY <3>1, <3>2, <3>3 DEF TunnelPhase, Opened, Live
  <2> QED BY <2>1, <2>2, <2>3, OneTunnelMoves
<1> QED BY <1>1, <1>2, <1>3, <1>4, <1>5, <1>6 DEF Lifecycle

\* A stop call closes the tunnel it aims at.
LEMMA StopRefines ==
    ASSUME IInv, NEW s \in Stops, StopCall(s)
    PROVE  [T!TunnelsNext]_(T!tunnelVars)
<1> USE DEF session, entries, events, starter, stopper, tearer
<1>0. TypeOK /\ CallPhases /\ StopsFirst /\ LiveIsNotTerminal /\ TeardownLists BY DEF IInv
<1>1. CASE LookUp(s) BY <1>1, NoTunnelMoves DEF LookUp
<1>2. CASE SignalStop(s)
  <2>0. PICK c \in Starts : Opened(c) /\ stopped' = [stopped EXCEPT ![c] = TRUE]
    BY <1>0, <1>2 DEF SignalStop, TypeOK, StopsFirst
  <2>1. UNCHANGED <<target, spc, built, result, registry, lpc>> BY <1>2 DEF SignalStop
  <2>2. \A d \in Starts \ {c} : TunnelPhase(d)' = TunnelPhase(d)
    BY <1>0, <2>0, <2>1 DEF TypeOK, TunnelPhase, Opened, Live
  <2>3. TunnelPhase(c)' = TunnelPhase(c) \/ (TunnelPhase(c) \in {"private", "shared"} /\ TunnelPhase(c)' = "closed")
    BY <1>0, <2>0, <2>1 DEF TypeOK, TunnelPhase, Opened, Live
  <2> QED BY <2>1, <2>2, <2>3, OneTunnelMoves
<1>3. CASE RecordStopped(s) BY <1>3, NoTunnelMoves DEF RecordStopped
<1> QED BY <1>1, <1>2, <1>3 DEF StopCall

\* A teardown closes one tunnel at a time.
LEMMA TearRefines ==
    ASSUME IInv, NEW k \in tearers, TearCall(k)
    PROVE  [T!TunnelsNext]_(T!tunnelVars)
<1> USE DEF session, entries, events, starter, stopper, tearer
<1>0. TypeOK /\ CallPhases /\ StopsFirst /\ LiveIsNotTerminal /\ TeardownLists BY DEF IInv
<1>1. CASE InstallClient(k) BY <1>1, NoTunnelMoves DEF InstallClient
<1>2. CASE MarkAll(k) BY <1>2, NoTunnelMoves DEF MarkAll
<1>3. CASE StopNext(k)
  <2>0. PICK c \in Starts : Opened(c) /\ stopped' = [stopped EXCEPT ![c] = TRUE]
    BY <1>0, <1>3 DEF StopNext, TypeOK, TeardownLists
  <2>1. UNCHANGED <<target, spc, built, result, registry, lpc>> BY <1>3 DEF StopNext
  <2>2. \A d \in Starts \ {c} : TunnelPhase(d)' = TunnelPhase(d)
    BY <1>0, <2>0, <2>1 DEF TypeOK, TunnelPhase, Opened, Live
  <2>3. TunnelPhase(c)' = TunnelPhase(c) \/ (TunnelPhase(c) \in {"private", "shared"} /\ TunnelPhase(c)' = "closed")
    BY <1>0, <2>0, <2>1 DEF TypeOK, TunnelPhase, Opened, Live
  <2> QED BY <2>1, <2>2, <2>3, OneTunnelMoves
<1>4. CASE TeardownDone(k) BY <1>4, NoTunnelMoves DEF TeardownDone
<1> QED BY <1>1, <1>2, <1>3, <1>4 DEF TearCall

LEMMA StepRefines == IInv /\ [Next]_vars => [T!TunnelsNext]_(T!tunnelVars)
<1> SUFFICES ASSUME IInv, [Next]_vars PROVE [T!TunnelsNext]_(T!tunnelVars)
  OBVIOUS
<1>1. CASE \E c \in Starts : StartCall(c) \/ Session(c) \/ Lifecycle(c)
  BY <1>1, StartRefines, SessionRefines, LifecycleRefines
<1>2. CASE \E s \in Stops : StopCall(s) BY <1>2, StopRefines
<1>3. CASE \E k \in tearers : TearCall(k) BY <1>3, TearRefines
<1>4. CASE Emit \/ Quit
  BY <1>4, NoTunnelMoves DEF Emit, EmitFor, Quit, session, entries, starter
<1>5. CASE UNCHANGED vars BY <1>5, NoTunnelMoves DEF vars
<1> QED BY <1>1, <1>2, <1>3, <1>4, <1>5 DEF Next

\* The goroutines of the service, however they interleave, only ever open,
\* share, close and reap tunnels as Tunnels allows: no tunnel is shared to a
\* target that has one, none is forgotten before it is closed, and none
\* closed comes back.
THEOREM ImplementsTunnelsSafely ==
    Spec => T!TunnelsInit /\ [][T!TunnelsNext]_(T!tunnelVars)
<1>1. Init => T!TunnelsInit
  BY DEF Init, T!TunnelsInit, TunnelPhase, Opened
<1> QED BY <1>1, StepRefines, Invariance, PTL DEF Spec

-----------------------------------------------------------------------------
\* The list of forwards.

PanelInv == TypeOK /\ PanelTypeOK /\ NoResurrection /\ IndexMatchesList

LEMMA PanelInvInit == PanelInit => PanelInv
<1> SUFFICES ASSUME PanelInit PROVE PanelInv
  OBVIOUS
<1>1. TypeOK BY TypeInit DEF PanelInit
<1>2. PanelTypeOK BY DEF PanelInit, PanelTypeOK, NoRows, Hydrates
<1>3. NoResurrection /\ IndexMatchesList
  BY DEF PanelInit, NoRows, NoResurrection, IndexMatchesList
<1> QED BY <1>1, <1>2, <1>3 DEF PanelInv

\* The service's part of a step is a step of the service.
LEMMA ServiceIsNext ==
    ASSUME clicked \in SUBSET Stops, [PanelNext]_panelVars
    PROVE  [Next]_vars
<1>1. CASE ServiceStep
  BY <1>1 DEF ServiceStep, Next
<1>2. CASE \E c \in Starts : OnStatus(c) BY <1>2 DEF OnStatus
<1>3. CASE \E h \in Hydrates : HydrateStep(h)
  BY <1>3 DEF HydrateStep, Ask, ListPortForwards, ApplyHydrate
<1>4. CASE \E s \in Stops : StopForward(s) BY <1>4 DEF StopForward
<1>5. CASE UNCHANGED panelVars BY <1>5 DEF panelVars
<1> QED BY <1>1, <1>2, <1>3, <1>4, <1>5 DEF PanelNext

\* An event moves one row, and never one that bears a tombstone.
LEMMA OnStatusKeeps ==
    ASSUME PanelInv, TypeOK', NEW c \in Starts, OnStatus(c)
    PROVE  PanelInv'
<1> DEFINE s == emitted[c][heard[c] + 1]
<1> USE DEF PanelInv, PanelTypeOK
<1>1. s \in States
  <2>1. emitted[c] \in Seq(States) /\ heard[c] \in Nat BY DEF TypeOK
  <2>2. heard[c] + 1 \in 1..Len(emitted[c]) BY <2>1 DEF OnStatus
  <2> QED BY <2>1, <2>2
<1>2. /\ heard' \in [Starts -> Nat] /\ UNCHANGED <<hpc, snap, clicked>>
      /\ stopping' \in SUBSET Starts
      /\ spoken' \in [Starts -> Seq({"started", "stopped", "failed"})]
  <2>1. heard' \in [Starts -> Nat] /\ UNCHANGED <<hpc, snap, clicked>> BY DEF OnStatus
  <2>2. CASE HearEnd(c, s)
    <3>1. s \in {"stopped", "failed"} BY <2>2 DEF HearEnd, Terminal
    <3>2. Append(spoken[c], s) \in Seq({"started", "stopped", "failed"}) BY <3>1
    <3>3. stopping' \in SUBSET Starts BY <2>2 DEF HearEnd, Drop
    <3> QED BY <2>1, <2>2, <3>2, <3>3 DEF HearEnd
  <2>3. CASE HearProgress(c, s)
    <3>1. Append(spoken[c], "started") \in Seq({"started", "stopped", "failed"}) OBVIOUS
    <3> QED BY <2>1, <2>3, <3>1 DEF HearProgress
  <2> QED BY <2>2, <2>3 DEF OnStatus
<1>3. CASE HearEnd(c, s)
  <2>1. finished' = finished \union {c} /\ Drop(c) BY <1>3 DEF HearEnd
  <2>2. CASE byId[c] = "none"
    <3>1. row' = row /\ byId' = byId BY <2>1, <2>2 DEF Drop
    <3>2. row[c] = "none" BY <2>2 DEF IndexMatchesList
    <3> QED BY <1>2, <2>1, <3>1, <3>2 DEF NoResurrection, IndexMatchesList
  <2>3. CASE byId[c] # "none"
    <3>1. row' = [row EXCEPT ![c] = "none"] /\ byId' = [byId EXCEPT ![c] = "none"]
      BY <2>1, <2>3 DEF Drop
    <3> QED BY <1>2, <2>1, <3>1 DEF NoResurrection, IndexMatchesList
  <2> QED BY <2>2, <2>3
<1>4. CASE HearProgress(c, s)
  <2>1. finished' = finished BY <1>4 DEF HearProgress
  <2>2. CASE c \in finished
    <3>1. row' = row /\ byId' = byId
      BY <1>4, <2>2 DEF HearProgress, Upserted, UpsertedIndex, Barred
    <3> QED BY <1>2, <2>1, <3>1 DEF NoResurrection, IndexMatchesList
  <2>3. CASE c \notin finished
    <3>1. /\ row' = [row EXCEPT ![c] = s]
          /\ byId' = IF byId[c] # "none" THEN byId ELSE [byId EXCEPT ![c] = s]
      BY <1>4, <2>3 DEF HearProgress, Upserted, UpsertedIndex, Barred
    <3>2. s # "none" BY <1>1 DEF States
    <3> QED BY <1>1, <1>2, <2>1, <2>3, <3>1, <3>2 DEF NoResurrection, IndexMatchesList
  <2> QED BY <2>2, <2>3
<1> QED BY <1>3, <1>4 DEF OnStatus

\* A refill leaves out what bears a tombstone.
LEMMA HydrateKeeps ==
    ASSUME PanelInv, TypeOK', NEW h \in Hydrates, HydrateStep(h)
    PROVE  PanelInv'
<1> USE DEF PanelInv, PanelTypeOK
<1>1. CASE Ask(h) BY <1>1 DEF Ask, NoResurrection, IndexMatchesList
<1>2. CASE ListPortForwards(h)
  <2>1. snap' \in [Hydrates -> [Starts -> States \union {"none"}]]
    BY <1>2 DEF ListPortForwards, TypeOK
  <2> QED BY <1>2, <2>1 DEF ListPortForwards, NoResurrection, IndexMatchesList
<1>3. CASE ApplyHydrate(h)
  <2>1. Hydrated(h) \in [Starts -> States \union {"none"}] BY DEF Hydrated
  <2>2. \A c \in finished : Hydrated(h)[c] = "none" BY DEF Hydrated, Barred
  <2>3. snap' \in [Hydrates -> [Starts -> States \union {"none"}]]
    BY <1>3 DEF ApplyHydrate, NoRows
  <2>4. /\ row' = Hydrated(h) /\ byId' = Hydrated(h)
        /\ hpc' = [hpc EXCEPT ![h] = "done"]
        /\ UNCHANGED <<finished, stopping, heard, spoken, clicked>>
    BY <1>3 DEF ApplyHydrate
  <2> QED BY <2>1, <2>2, <2>3, <2>4 DEF NoResurrection, IndexMatchesList
<1> QED BY <1>1, <1>2, <1>3 DEF HydrateStep

LEMMA PanelInvStep == PanelInv /\ [PanelNext]_panelVars => PanelInv'
<1> SUFFICES ASSUME PanelInv, [PanelNext]_panelVars PROVE PanelInv'
  OBVIOUS
<1>0. TypeOK'
  BY ServiceIsNext, TypeStep DEF PanelInv, PanelTypeOK
<1>1. CASE ServiceStep
  BY <1>0, <1>1 DEF ServiceStep, panel, PanelInv, PanelTypeOK, NoResurrection, IndexMatchesList
<1>2. CASE \E c \in Starts : OnStatus(c) BY <1>0, <1>2, OnStatusKeeps
<1>3. CASE \E h \in Hydrates : HydrateStep(h) BY <1>0, <1>3, HydrateKeeps
<1>4. CASE \E s \in Stops : StopForward(s)
  <2>1. \A s \in Stops : aim[s] \in Starts BY DEF PanelInv, TypeOK
  <2> QED BY <1>0, <1>4, <2>1 DEF StopForward, PanelInv, PanelTypeOK, NoResurrection, IndexMatchesList
<1>5. CASE UNCHANGED panelVars
  BY <1>0, <1>5 DEF panelVars, panel, PanelInv, PanelTypeOK, NoResurrection, IndexMatchesList
<1> QED BY <1>1, <1>2, <1>3, <1>4, <1>5 DEF PanelNext

LEMMA PanelInvariance == PanelSpec => []PanelInv
BY PanelInvInit, PanelInvStep, PTL DEF PanelSpec

\* The list, its calls and its announcements are well-typed.
THEOREM PanelTypeCorrect == PanelSpec => []PanelTypeOK
<1>1. PanelInv => PanelTypeOK BY DEF PanelInv
<1> QED BY <1>1, PanelInvariance, PTL

\* A forward that ended never shows in the list again, however late an event
\* or the reply to a list call arrives.
THEOREM NoResurrectionHolds == PanelSpec => []NoResurrection
<1>1. PanelInv => NoResurrection BY DEF PanelInv
<1> QED BY <1>1, PanelInvariance, PTL

\* The list and its index always hold the same forwards.
THEOREM IndexMatchesListHolds == PanelSpec => []IndexMatchesList
<1>1. PanelInv => IndexMatchesList BY DEF PanelInv
<1> QED BY <1>1, PanelInvariance, PTL
=============================================================================
