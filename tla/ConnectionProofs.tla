-------------------------- MODULE ConnectionProofs --------------------------
(***************************************************************************)
(* The connection and the calls made over it, for any files, contexts,     *)
(* namespaces and operations, and any number of connects and calls.        *)
(***************************************************************************)
EXTENDS ConfirmedCalls, TLAPS, FiniteSetTheorems

\* What a connect has read stays with it, and a page that shows a connection
\* was told of one.
ConnectsAreWired ==
    /\ IsFiniteSet(loads)
    /\ page.connected => client # None
    /\ \A i \in Connects :
          /\ conn[i].pc \in {"load", "config", "install", "info", "ok"} => conn[i].name \in Names
          /\ conn[i].pc \in {"config", "install"} => conn[i].file \in Files
          /\ conn[i].pc = "install" => conn[i].name \in Has[conn[i].file]
          /\ conn[i].pc \in {"info", "ok"} => client # None
          /\ conn[i].pc = "ok" => conn[i].raw \in Files

\* What the newest request asked for, and the newest list shows, is what the
\* page shows now.
NewestIsCurrent ==
    /\ \A l \in loads : l.id = latest =>
          /\ l.space = page.space
          /\ Settled /\ l.from # None => l.from = client
    /\ Mounted(page) /\ view.list # None =>
          (view.list.newest => /\ view.list.space = page.space
                               /\ Settled => view.list.from = client)

IInv == TypeOK /\ ConnectsAreWired /\ NewestIsCurrent

\* A new request gets a number that none of those still out bears.
LEMMA FreeIdIsFree ==
    ASSUME IsFiniteSet(loads)
    PROVE  FreeId \in Nat /\ \A l \in loads : l.id # FreeId
<1> DEFINE f == [l \in loads |-> l.id]
           S == {l.id : l \in loads}
           n == Cardinality(loads)
<1>1. n \in Nat BY FS_CardinalityType
<1>2. f \in Surjection(loads, S) BY DEF Surjection
<1>3. IsFiniteSet(S) /\ Cardinality(S) <= n BY <1>2, FS_Surjection
<1>4. Cardinality(1..n + 1) = n + 1 BY <1>1, FS_Interval
<1>5. Cardinality(S) \in Nat BY <1>3, FS_CardinalityType
<1>6. ~(1..n + 1 \subseteq S)
  <2> SUFFICES ASSUME 1..n + 1 \subseteq S PROVE FALSE
    OBVIOUS
  <2>1. Cardinality(1..n + 1) <= Cardinality(S) BY <1>3, FS_Subset
  <2> QED BY <2>1, <1>1, <1>3, <1>4, <1>5
<1>7. \E m \in 1..n + 1 : \A l \in loads : l.id # m BY <1>6
<1>8. FreeId \in 1..n + 1 /\ \A l \in loads : l.id # FreeId BY <1>7 DEF FreeId
<1> QED BY <1>1, <1>8

\* Records keep their type when a field is replaced.
LEMMA RecordsKept ==
    /\ \A r \in PickState, pc \in PickPcs : [r EXCEPT !.pc = pc] \in PickState
    /\ \A r \in BarState, b \in BOOLEAN : [r EXCEPT !.loading = b] \in BarState
    /\ \A r \in BarState, n \in Names \union {None} : [r EXCEPT !.selected = n] \in BarState
    /\ \A r \in ConnState, pc \in ConnPcs : [r EXCEPT !.pc = pc] \in ConnState
    /\ \A r \in ConnState, pc \in ConnPcs, n \in Names : [r EXCEPT !.pc = pc, !.name = n] \in ConnState
    /\ \A r \in ConnState, pc \in ConnPcs, f \in Files : [r EXCEPT !.pc = pc, !.file = f] \in ConnState
    /\ \A r \in ConnState, pc \in ConnPcs, f \in Files : [r EXCEPT !.pc = pc, !.raw = f] \in ConnState
    /\ \A pc \in ConnPcs : [pc |-> pc, name |-> None, file |-> None, raw |-> None] \in ConnState
    /\ \A r \in Load, t \in Targets : [r EXCEPT !.from = t] \in Load
    /\ \A r \in Load : [r EXCEPT !.failed = TRUE] \in Load
    /\ \A r \in PageState, s \in Spaces : [r EXCEPT !.space = s] \in PageState
    /\ \A r \in ViewState : [r EXCEPT !.loading = FALSE, !.error = TRUE] \in ViewState
    /\ \A r \in ViewState : [r EXCEPT !.error = TRUE] \in ViewState
    /\ \A r \in ViewState, l \in Listed : [r EXCEPT !.loading = FALSE, !.list = l] \in ViewState
BY DEF PickState, BarState, ConnState, Load, PageState, ViewState

LEMMA InitInv == Init => IInv
<1> SUFFICES ASSUME Init PROVE IInv
  OBVIOUS
<1> USE ConnectionAssumption DEF Init
<1>1. TypeOK
  <2>1. bar \in BarState
    <3> USE DEF BarState
    <3>1. Has[pinned] \subseteq Names OBVIOUS
    <3>2. CASE bar = [list |-> {}, selected |-> None, loading |-> FALSE] BY <3>2
    <3>3. ASSUME NEW n \in Has[pinned], bar = [list |-> Has[pinned], selected |-> n, loading |-> FALSE]
          PROVE  bar \in BarState
      BY <3>1, <3>3
    <3> QED BY <3>2, <3>3 DEF Init
  <2> QED BY <2>1 DEF TypeOK, PickPcs, ConnPcs, NewView, PickState, ConnState, PageState, ViewState
<1>2. ConnectsAreWired BY FS_EmptySet DEF ConnectsAreWired
<1>3. NewestIsCurrent BY DEF NewestIsCurrent, Mounted
<1> QED BY <1>1, <1>2, <1>3 DEF IInv

\* A reload asks for the namespace of the page, and turns what is listed into
\* an earlier list.
LEMMA ReloadSafe ==
    ASSUME IInv, NEW s \in Spaces, Reload(s), page' \in PageState,
           page'.space = s
    PROVE  /\ view' \in ViewState
           /\ loads' \in SUBSET Load /\ latest' \in Nat
           /\ IsFiniteSet(loads')
           /\ NewestIsCurrent'
<1> DEFINE new == [id |-> FreeId, space |-> s, from |-> None, failed |-> FALSE]
           old == IF Mounted(page) THEN view ELSE NewView(page'.epoch)
<1> USE DEF IInv
<1>1. FreeId \in Nat /\ \A l \in loads : l.id # FreeId
  BY FreeIdIsFree DEF ConnectsAreWired
<1>2. latest' = FreeId /\ loads' = loads \union {new} BY DEF Reload
<1>3. old \in ViewState
  BY DEF TypeOK, NewView, ViewState, PageState
<1>4. view' = [old EXCEPT !.list = IF @ = None THEN None ELSE [@ EXCEPT !.newest = FALSE],
                          !.loading = TRUE, !.error = FALSE]
  BY DEF Reload
<1>5. old.list # None => [old.list EXCEPT !.newest = FALSE] \in Listed
  BY <1>3 DEF Listed, ViewState
<1>6. view' \in ViewState
  BY <1>3, <1>4, <1>5 DEF ViewState
<1>7. new \in Load BY <1>1 DEF Load
<1>8. IsFiniteSet(loads') BY <1>2, FS_AddElement DEF ConnectsAreWired
<1>9. \A l \in loads' : l.id = latest' => l = new BY <1>1, <1>2
<1>10. view'.list # None => view'.list.newest = FALSE
  BY <1>3, <1>4 DEF Listed, ViewState
<1>11. NewestIsCurrent' BY <1>9, <1>10 DEF NewestIsCurrent
<1> QED BY <1>1, <1>2, <1>6, <1>7, <1>8, <1>11 DEF TypeOK

LEMMA UnmountSafe ==
    ASSUME IInv, Unmount
    PROVE  /\ view' \in ViewState
           /\ loads' \in SUBSET Load /\ latest' \in Nat
           /\ IsFiniteSet(loads')
           /\ NewestIsCurrent'
BY FS_EmptySet DEF Unmount, NewView, NewestIsCurrent, ViewState

\* Steps that leave the page, the list and the client alone.
LEMMA NewestKept ==
    ASSUME NewestIsCurrent, UNCHANGED <<client, page, viewVars>>, Settled' => Settled
    PROVE  NewestIsCurrent'
BY DEF NewestIsCurrent, viewVars, Mounted

LEMMA PickSafe ==
    ASSUME IInv, NEW p \in Picks, PickStep(p)
    PROVE  IInv'
<1> USE ConnectionAssumption DEF IInv
<1>1. UNCHANGED <<client, conn, page, remembered, viewVars>>
  BY DEF PickStep, PickFile, ShowStatus, RefreshContexts, ReadContexts, ShowContexts
<1>2. TypeOK'
  <2>1. PickPcs = {"idle", "chosen", "listing", "listed", "failed", "done"} BY DEF PickPcs
  <2>2. pick[p] \in PickState BY DEF TypeOK
  <2>3. pinned' \in Files /\ bar' \in BarState
    <3>1. CASE PickFile(p) BY <3>1 DEF PickFile, TypeOK
    <3>2. CASE ShowStatus(p) BY <3>2 DEF ShowStatus, TypeOK, BarState
    <3>3. CASE RefreshContexts(p) BY <3>3, RecordsKept DEF RefreshContexts, TypeOK
    <3>4. CASE ReadContexts(p) BY <3>4 DEF ReadContexts, TypeOK
    <3>5. CASE ShowContexts(p)
      <4>1. pick[p].names \in SUBSET Names BY <2>2 DEF PickState
      <4>2. \A n \in Names \union {None} :
               [list |-> pick[p].names, selected |-> n, loading |-> FALSE] \in BarState
        BY <4>1 DEF BarState
      <4>3. pinned' = pinned BY <3>5 DEF ShowContexts
      <4>4. CASE \E n \in Names \union {None} :
                   bar' = [list |-> pick[p].names, selected |-> n, loading |-> FALSE]
        BY <4>2, <4>3, <4>4 DEF TypeOK
      <4>5. CASE bar' = [bar EXCEPT !.loading = FALSE]
        BY <4>3, <4>5 DEF TypeOK, BarState
      <4> QED BY <3>5, <4>4, <4>5 DEF ShowContexts
    <3> QED BY <3>1, <3>2, <3>3, <3>4, <3>5 DEF PickStep
  <2>4. PICK r \in PickState : pick' = [pick EXCEPT ![p] = r]
    <3>1. CASE PickFile(p) BY <2>1, <2>2, <3>1, RecordsKept DEF PickFile
    <3>2. CASE ShowStatus(p) BY <2>1, <2>2, <3>2, RecordsKept DEF ShowStatus
    <3>3. CASE RefreshContexts(p) BY <2>1, <2>2, <3>3, RecordsKept DEF RefreshContexts
    <3>4. CASE ReadContexts(p)
      <4>1. Has[pinned] \in SUBSET Names BY DEF TypeOK
      <4>2. \A n \in Names \union {None} :
               [pc |-> "listed", names |-> Has[pinned], current |-> n] \in PickState
        BY <2>1, <4>1 DEF PickState
      <4> QED BY <2>1, <2>2, <3>4, <4>2, RecordsKept DEF ReadContexts
    <3>5. CASE ShowContexts(p)
      <4>1. [pc |-> "done", names |-> {}, current |-> None] \in PickState
        BY <2>1 DEF PickState
      <4> QED BY <3>5, <4>1 DEF ShowContexts
    <3> QED BY <3>1, <3>2, <3>3, <3>4, <3>5 DEF PickStep
  <2> QED BY <1>1, <2>3, <2>4 DEF TypeOK, viewVars
<1>3. ConnectsAreWired' BY <1>1 DEF ConnectsAreWired, viewVars
<1>4. NewestIsCurrent' BY <1>1, NewestKept DEF Settled
<1> QED BY <1>2, <1>3, <1>4

LEMMA SelectSafe ==
    ASSUME IInv, NEW n \in Names, Select(n)
    PROVE  IInv'
<1> USE DEF IInv, Select
<1>1. TypeOK'
  <2>1. bar' \in BarState BY RecordsKept DEF TypeOK, BarState
  <2> QED BY <2>1 DEF TypeOK, viewVars
<1>2. ConnectsAreWired' BY DEF ConnectsAreWired, viewVars
<1>3. NewestIsCurrent' BY NewestKept DEF Settled
<1> QED BY <1>1, <1>2, <1>3

\* A call to Connect, up to its answer.
LEMMA CallOfConnectSafe ==
    ASSUME IInv, NEW i \in Connects,
           Press(i) \/ LoadFile(i) \/ Reachable(i) \/ GiveUp(i) \/ Install(i) \/ ContextInfo(i)
    PROVE  IInv'
<1> USE ConnectionAssumption DEF IInv
<1>1. UNCHANGED <<pinned, pick, page, remembered, viewVars>>
  BY DEF Press, LoadFile, Reachable, GiveUp, Install, ContextInfo, barVars
<1>2. TypeOK'
  <2>1. ConnPcs = {"idle", "load", "config", "install", "info", "ok", "failed", "done"}
    BY DEF ConnPcs
  <2>2. conn[i] \in ConnState BY DEF TypeOK
  <2>3. bar' \in BarState /\ client' \in Targets \union {None}
    <3>1. CASE Press(i) BY <3>1, RecordsKept DEF Press, TypeOK
    <3>2. CASE Install(i) BY <3>2 DEF Install, ConnectsAreWired, Targets, TypeOK, barVars
    <3>3. CASE LoadFile(i) \/ Reachable(i) \/ GiveUp(i) \/ ContextInfo(i)
      BY <3>3 DEF LoadFile, Reachable, GiveUp, ContextInfo, TypeOK, barVars
    <3> QED BY <3>1, <3>2, <3>3
  <2>4. PICK r \in ConnState : conn' = [conn EXCEPT ![i] = r]
    <3>1. CASE Press(i)
      <4>1. bar.selected \in Names BY <3>1 DEF Press, TypeOK, BarState
      <4>2. conn' = [conn EXCEPT ![i] = [conn[i] EXCEPT !.pc = "load", !.name = bar.selected]]
        BY <3>1 DEF Press, TypeOK
      <4> QED BY <2>1, <2>2, <4>1, <4>2, RecordsKept
    <3>2. CASE LoadFile(i)
      <4>1. conn' = [conn EXCEPT ![i] = [conn[i] EXCEPT !.pc = "config", !.file = pinned]]
        BY <3>2 DEF LoadFile, TypeOK
      <4> QED BY <2>1, <2>2, <4>1, RecordsKept DEF TypeOK
    <3>3. CASE Reachable(i) BY <2>1, <2>2, <3>3, RecordsKept DEF Reachable
    <3>4. CASE GiveUp(i) BY <2>1, <3>4, RecordsKept DEF GiveUp
    <3>5. CASE Install(i) BY <2>1, <2>2, <3>5, RecordsKept DEF Install
    <3>6. CASE ContextInfo(i)
      <4>1. client[1] \in Files BY <3>6 DEF ContextInfo, ConnectsAreWired, Targets, TypeOK
      <4>2. conn' = [conn EXCEPT ![i] = [conn[i] EXCEPT !.pc = "ok", !.raw = client[1]]]
        BY <3>6 DEF ContextInfo, TypeOK
      <4> QED BY <2>1, <2>2, <4>1, <4>2, RecordsKept
    <3> QED BY <3>1, <3>2, <3>3, <3>4, <3>5, <3>6
  <2> QED BY <1>1, <2>3, <2>4 DEF TypeOK, viewVars
<1>3. client # None => client' # None
  BY DEF Press, LoadFile, Reachable, GiveUp, Install, ContextInfo, ConnectsAreWired
<1>4. ConnectsAreWired'
  <2> USE DEF ConnectsAreWired, viewVars, TypeOK, ConnState, BarState
  <2>1. CASE Press(i) BY <1>1, <1>3, <2>1 DEF Press
  <2>2. CASE LoadFile(i) BY <1>1, <1>3, <2>2 DEF LoadFile
  <2>3. CASE Reachable(i) BY <1>1, <1>3, <2>3 DEF Reachable
  <2>4. CASE GiveUp(i) BY <1>1, <1>3, <2>4 DEF GiveUp
  <2>5. CASE Install(i)
    <3>1. client' # None BY <2>5 DEF Install
    <3> QED BY <1>1, <2>5, <3>1 DEF Install
  <2>6. CASE ContextInfo(i)
    <3>1. client[1] \in Files BY <2>6 DEF ContextInfo, Targets
    <3> QED BY <1>1, <1>3, <2>6, <3>1 DEF ContextInfo
  <2> QED BY <2>1, <2>2, <2>3, <2>4, <2>5, <2>6
<1>5. NewestIsCurrent'
  <2>1. CASE Install(i)
    <3>1. ~Settled' BY <2>1 DEF Install, Settled, TypeOK
    <3> QED BY <1>1, <3>1 DEF NewestIsCurrent, viewVars, Mounted
  <2>2. CASE ~Install(i)
    <3>1. UNCHANGED client BY <2>2 DEF Press, LoadFile, Reachable, GiveUp, ContextInfo
    <3>2. \A k \in Connects \ {i} : conn'[k] = conn[k]
      BY <2>2 DEF Press, LoadFile, Reachable, GiveUp, ContextInfo, TypeOK
    <3>3. conn[i].pc \in {"idle", "load", "config"} \/ conn'[i].pc = "ok"
      <4>1. CASE ContextInfo(i) BY <4>1 DEF ContextInfo, TypeOK, ConnState
      <4>2. CASE Press(i) \/ LoadFile(i) \/ Reachable(i) \/ GiveUp(i)
        BY <4>2 DEF Press, LoadFile, Reachable, GiveUp
      <4> QED BY <2>2, <4>1, <4>2
    <3>4. Settled' => Settled BY <3>2, <3>3 DEF Settled
    <3> QED BY <1>1, <3>1, <3>4, NewestKept
  <2> QED BY <2>1, <2>2
<1> QED BY <1>2, <1>4, <1>5

\* Its answer: whatever the list showed or asked for is no longer the newest.
LEMMA ConnectedSafe ==
    ASSUME IInv, NEW i \in Connects, Connected(i)
    PROVE  IInv'
<1> USE ConnectionAssumption DEF IInv
<1>1. /\ page' \in PageState
      /\ page'.connected => client # None
      /\ \/ page'.space \in Spaces /\ Reload(page'.space)
         \/ Unmount
  <2>1. CASE conn[i].pc = "ok" /\ SetConnection(i)
    <3>1. conn[i].raw \in Files /\ conn[i].name \in Names /\ client # None
      BY <2>1 DEF ConnectsAreWired
    <3>2. StartSpace(i) \in Spaces \union {None} BY <3>1 DEF StartSpace, TypeOK
    <3>3. page' = [connected |-> TRUE, name |-> conn[i].name, space |-> StartSpace(i), epoch |-> page.epoch + 1]
      BY <2>1 DEF SetConnection
    <3>4. page.epoch + 1 \in Nat BY DEF TypeOK, PageState
    <3> HIDE DEF StartSpace
    <3> QED BY <2>1, <3>1, <3>2, <3>3, <3>4 DEF SetConnection, PageState
  <2>2. CASE conn[i].pc = "failed" /\ ClearConnection
    BY <2>2 DEF ClearConnection, TypeOK, PageState
  <2> QED BY <2>1, <2>2 DEF Connected
<1>2. /\ view' \in ViewState
      /\ loads' \in SUBSET Load /\ latest' \in Nat
      /\ IsFiniteSet(loads')
      /\ NewestIsCurrent'
  BY <1>1, ReloadSafe, UnmountSafe
<1>3. TypeOK'
  <2>1. bar' \in BarState BY RecordsKept DEF Connected, TypeOK
  <2>2. conn' \in [Connects -> ConnState] BY RecordsKept DEF Connected, TypeOK, ConnPcs
  <2> QED BY <1>1, <1>2, <2>1, <2>2 DEF Connected, TypeOK
<1>4. ConnectsAreWired' BY <1>1, <1>2 DEF Connected, ConnectsAreWired, TypeOK, ConnState
<1> QED BY <1>2, <1>3, <1>4

\* The steps of the list.
LEMMA ListSafe ==
    ASSUME IInv, ListStep
    PROVE  IInv'
<1> USE ConnectionAssumption DEF IInv
<1>1. UNCHANGED <<pinned, client, barVars, conn>>
  BY DEF ListStep, Refresh, SelectSpace, ReadPods, ShowPods
<1>2. CASE Refresh \/ \E s \in Spaces : SelectSpace(s)
  <2>1. /\ page' \in PageState
        /\ remembered' \in [Names -> Spaces \union {None}]
        /\ page'.connected = page.connected
        /\ page'.space \in Spaces /\ Reload(page'.space)
    <3>1. CASE Refresh BY <3>1 DEF Refresh, Mounted, TypeOK, PageState
    <3>2. ASSUME NEW s \in Spaces, SelectSpace(s)
          PROVE  /\ page' = [page EXCEPT !.space = s]
                 /\ remembered' = [remembered EXCEPT ![page.name] = s]
                 /\ Reload(s)
      BY <3>2 DEF SelectSpace
    <3>3. CASE \E s \in Spaces : SelectSpace(s) BY <3>2, <3>3 DEF TypeOK, PageState
    <3> QED BY <1>2, <3>1, <3>3
  <2>2. /\ view' \in ViewState
        /\ loads' \in SUBSET Load /\ latest' \in Nat
        /\ IsFiniteSet(loads')
        /\ NewestIsCurrent'
    BY <2>1, ReloadSafe
  <2>3. TypeOK' BY <1>1, <2>1, <2>2 DEF TypeOK, barVars
  <2>4. ConnectsAreWired' BY <1>1, <2>1, <2>2 DEF ConnectsAreWired, barVars
  <2> QED BY <2>2, <2>3, <2>4
<1>3. ASSUME NEW l \in loads, ReadPods(l)
      PROVE  IInv'
  <2>1. UNCHANGED <<page, remembered, view, latest>> BY <1>3 DEF ReadPods
  <2>2. PICK a \in Load : /\ loads' = (loads \ {l}) \union {a}
                         /\ a.id = l.id /\ a.space = l.space
                         /\ a.from \in {None, client}
    <3>1. CASE client # None /\ loads' = (loads \ {l}) \union {[l EXCEPT !.from = client]}
      <4>1. [l EXCEPT !.from = client] \in Load BY <3>1, RecordsKept DEF TypeOK
      <4> QED BY <3>1, <4>1 DEF TypeOK, Load
    <3>2. CASE loads' = (loads \ {l}) \union {[l EXCEPT !.failed = TRUE]}
      <4>1. [l EXCEPT !.failed = TRUE] \in Load BY RecordsKept DEF TypeOK
      <4>2. l.from = None BY <1>3 DEF ReadPods
      <4> QED BY <3>2, <4>1, <4>2 DEF TypeOK, Load
    <3> QED BY <1>3, <3>1, <3>2 DEF ReadPods
  <2>3. IsFiniteSet(loads') BY <2>2, FS_AddElement, FS_RemoveElement DEF ConnectsAreWired
  <2>4. TypeOK' BY <1>1, <2>1, <2>2 DEF TypeOK, barVars
  <2>5. ConnectsAreWired' BY <1>1, <2>1, <2>3 DEF ConnectsAreWired, barVars
  <2>6. NewestIsCurrent'
    BY <1>1, <2>1, <2>2 DEF NewestIsCurrent, Settled, Mounted
  <2> QED BY <2>4, <2>5, <2>6
<1>4. ASSUME NEW l \in loads, ShowPods(l)
      PROVE  IInv'
  <2>1. UNCHANGED <<page, remembered, latest>> /\ loads' = loads \ {l}
    BY <1>4 DEF ShowPods
  <2>2. IsFiniteSet(loads') BY <2>1, FS_RemoveElement DEF ConnectsAreWired
  <2>3. l \in Load BY DEF TypeOK
  <2>4. CASE l.failed
    <3>1. view' = [view EXCEPT !.loading = FALSE, !.error = TRUE] BY <1>4, <2>4 DEF ShowPods
    <3>2. TypeOK' BY <1>1, <2>1, <3>1, RecordsKept DEF TypeOK, barVars
    <3>3. NewestIsCurrent'
      BY <1>1, <2>1, <3>1 DEF NewestIsCurrent, Settled, Mounted, TypeOK, ViewState
    <3> QED BY <1>1, <2>1, <2>2, <3>2, <3>3 DEF ConnectsAreWired, barVars
  <2>5. CASE ~l.failed
    <3> DEFINE shown == [space |-> l.space, from |-> l.from, newest |-> l.id = latest]
    <3>1. view' = [view EXCEPT !.loading = FALSE, !.list = shown] BY <1>4, <2>5 DEF ShowPods
    <3>2. l.from # None BY <1>4, <2>5 DEF ShowPods
    <3>3. shown \in Listed BY <2>3, <3>2 DEF Load, Listed
    <3>4. TypeOK' BY <1>1, <2>1, <3>1, <3>3, RecordsKept DEF TypeOK, barVars
    <3>5. view'.list = shown BY <3>1 DEF TypeOK, ViewState
    <3>6. shown.space = l.space /\ shown.from = l.from /\ shown.newest = (l.id = latest) OBVIOUS
    <3> HIDE DEF shown
    <3>7. NewestIsCurrent'
      BY <1>1, <2>1, <3>2, <3>5, <3>6 DEF NewestIsCurrent, Settled, Mounted
    <3> QED BY <1>1, <2>1, <2>2, <3>4, <3>7 DEF ConnectsAreWired, barVars
  <2> QED BY <2>4, <2>5
<1> QED BY <1>2, <1>3, <1>4 DEF ListStep

LEMMA NextInv == IInv /\ [Next]_vars => IInv'
<1> SUFFICES ASSUME IInv, [Next]_vars PROVE IInv'
  OBVIOUS
<1>1. CASE UNCHANGED vars
  BY <1>1 DEF vars, IInv, TypeOK, ConnectsAreWired, NewestIsCurrent, Mounted, Settled
<1>2. CASE Next
  BY <1>2, PickSafe, SelectSafe, CallOfConnectSafe, ConnectedSafe, ListSafe DEF Next, ConnectStep
<1> QED BY <1>1, <1>2

-----------------------------------------------------------------------------
\* The calls.  What one has read and written is of the cluster of its client.
CallsAreWired ==
    \A j \in Calls :
        /\ call[j].pc \notin {"idle", "done"} => client # None
        /\ call[j].pc \in {"read", "send"} => call[j].via \in Targets
        /\ call[j].pc \in {"read", "send"} => call[j].got \in {None, call[j].via}
        /\ call[j].pc \in {"ask", "begin"} => call[j].got = None
        /\ call[j].pc = "path" => call[j].name \in Names
        /\ call[j].pc \in {"context", "path"} => call[j].op \in Kubectl
        /\ call[j].pc \in {"begin", "read", "send"} => call[j].yes \/ call[j].op \in Unconfirmed
        /\ call[j].pc # "back" => call[j].wrote = <<>> /\ call[j].answer = "none"

CallsInv == CallsTypeOK /\ CallsAreWired /\ OneClusterPerCall /\ ResultIsTruthful

\* A step of one call, given what its record becomes.
LEMMA OneCallKept ==
    ASSUME TypeOK, CallsInv, NEW j \in Calls, NEW r,
           call' = [call EXCEPT ![j] = r], UNCHANGED client,
           r \in CallState,
           r.pc \notin {"idle", "done"} => client # None,
           r.pc \in {"read", "send"} => r.via \in Targets /\ r.got \in {None, r.via},
           r.pc \in {"ask", "begin"} => r.got = None,
           r.pc = "path" => r.name \in Names,
           r.pc \in {"context", "path"} => r.op \in Kubectl,
           r.pc \in {"begin", "read", "send"} => r.yes \/ r.op \in Unconfirmed,
           r.pc # "back" => r.wrote = <<>> /\ r.answer = "none",
           r.wrote # <<>> => /\ Len(r.wrote) = 1
                             /\ r.wrote[1].from \in {None, r.wrote[1].at}
                             /\ r.answer # "no"
                             /\ r.yes \/ r.op \in Unconfirmed,
           r.wrote = <<>> => (r.answer = "yes" => r.op \in Kubectl)
    PROVE  CallsInv'
<1> USE DEF CallsInv
<1>1. call'[j] = r /\ \A k \in Calls \ {j} : call'[k] = call[k] BY DEF CallsTypeOK
<1>2. CallsTypeOK' BY DEF CallsTypeOK
<1>3. CallsAreWired' BY <1>1 DEF CallsAreWired
<1>4. OneClusterPerCall'
  <2>1. \A n \in DOMAIN r.wrote : r.wrote[n].from \in {None, r.wrote[n].at} OBVIOUS
  <2> QED BY <1>1, <2>1 DEF OneClusterPerCall
<1>5. ResultIsTruthful'
  <2>1. Len(<<>>) = 0 OBVIOUS
  <2>2. Len(r.wrote) = 0 \/ Len(r.wrote) = 1 BY <2>1, Zenon
  <2>3. 0 <= 1 /\ 1 <= 1 OBVIOUS
  <2>4. Len(r.wrote) <= 1 BY <2>2, <2>3, Zenon
  <2>5. ASSUME NEW k \in Calls, k # j
        PROVE  /\ call'[k].answer = "yes" /\ call'[k].op \notin Kubectl => call'[k].wrote # <<>>
               /\ call'[k].answer = "no" => call'[k].wrote = <<>>
               /\ Len(call'[k].wrote) <= 1
               /\ call'[k].wrote # <<>> => call'[k].yes \/ call'[k].op \in Unconfirmed
    BY <1>1, <2>5 DEF ResultIsTruthful
  <2> QED BY <1>1, <2>4, <2>5 DEF ResultIsTruthful
<1> QED BY <1>2, <1>3, <1>4, <1>5

LEMMA CallsInitInv == CallsInit => CallsInv
BY DEF CallsInit, CallsInv, CallsTypeOK, CallsAreWired, OneClusterPerCall, ResultIsTruthful,
       NoCall, CallPcs, CallState

\* The list and the connection move: a client that is there stays.
LEMMA OtherStepsSafe ==
    ASSUME IInv, CallsInv, Next, UNCHANGED call
    PROVE  CallsInv'
<1> USE ConnectionAssumption
<1>1. (\E i \in Connects : Install(i)) => client' # None
  BY DEF Install, IInv, ConnectsAreWired, Targets
<1>2. (\E i \in Connects : Install(i)) \/ UNCHANGED client
  BY DEF Next, PickStep, PickFile, ShowStatus, RefreshContexts, ReadContexts, ShowContexts,
         Select, ConnectStep, Press, LoadFile, Reachable, GiveUp, ContextInfo, Connected,
         ListStep, Refresh, SelectSpace, ReadPods, ShowPods
<1>3. client # None => client' # None BY <1>1, <1>2
<1> QED
  BY <1>3 DEF CallsInv, CallsTypeOK, CallsAreWired, OneClusterPerCall, ResultIsTruthful

\* The steps of a call that leave the page alone.
LEMMA QuietStepSafe ==
    ASSUME IInv, CallsInv, NEW j \in Calls,
           \/ \E op \in Ops : Click(j, op)
           \/ TurnedAway(j) \/ Decline(j) \/ Agree(j) \/ TakeClient(j)
           \/ ReadObject(j) \/ Write(j) \/ Refuse(j) \/ Conflict(j)
           \/ ReadContext(j) \/ RunKubectl(j)
    PROVE  CallsInv' /\ UNCHANGED vars
<1> DEFINE c == call[j]
<1> USE DEF IInv, CallsInv
<1>1. c \in CallState /\ TypeOK BY DEF CallsTypeOK
<1>2. UNCHANGED vars
  BY DEF Click, TurnedAway, Decline, Agree, TakeClient, ReadObject, Write, Refuse, Conflict,
         ReadContext, RunKubectl
<1>3. CASE \E op \in Ops : Click(j, op)
  <2>1. PICK op \in Ops : Click(j, op) BY <1>3
  <2> DEFINE r == [NoCall EXCEPT !.op = op, !.pc = Entry(op), !.born = view.born]
  <2>2. Entry(op) \in {"begin", "context", "ask"}
        /\ (Entry(op) = "begin" => op \in Unconfirmed) /\ (Entry(op) = "context" => op \in Kubectl)
    BY DEF Entry
  <2>3. client # None BY <2>1 DEF Click, Visible, Mounted, ConnectsAreWired
  <2>4. view.born \in Nat BY DEF TypeOK, ViewState
  <2>5. r \in CallState
    <3>1. NoCall \in CallState BY DEF NoCall, CallState, CallPcs
    <3>2. Entry(op) \in CallPcs /\ <<>> \in Seq(Written) BY <2>2 DEF CallPcs
    <3> QED BY <2>4, <3>1, <3>2 DEF CallState
  <2>6. /\ r.pc = Entry(op) /\ r.op = op /\ r.got = None /\ r.wrote = <<>> /\ r.answer = "none"
    BY DEF NoCall
  <2>7. call' = [call EXCEPT ![j] = r] BY <2>1 DEF Click
  <2> HIDE DEF r
  <2> QED BY <1>1, <1>2, <2>2, <2>3, <2>5, <2>6, <2>7, OneCallKept DEF vars
\* A call that is answered without another write.
<1>4. ASSUME NEW a \in {"yes", "no", "error"}, Back(j, a), client # None,
             c.wrote = <<>>, a = "yes" => c.op \in Kubectl
      PROVE  CallsInv'
  <2> DEFINE r == [c EXCEPT !.pc = "back", !.answer = a]
  <2>1. r \in CallState /\ r.pc = "back" /\ r.wrote = <<>> /\ r.answer = a /\ r.op = c.op
    BY <1>1, <1>4 DEF CallState, CallPcs
  <2>2. call' = [call EXCEPT ![j] = r] BY <1>4 DEF Back, CallsTypeOK
  <2> HIDE DEF r
  <2> QED BY <1>1, <1>2, <1>4, <2>1, <2>2, OneCallKept DEF vars
<1>5. CASE TurnedAway(j)
  <2>1. c.pc \in {"ask", "context"} /\ (Back(j, "error") \/ Back(j, "no")) BY <1>5 DEF TurnedAway
  <2>2. client # None /\ c.wrote = <<>> BY <2>1 DEF CallsAreWired
  <2> QED BY <1>2, <1>4, <2>1, <2>2
<1>6. CASE Decline(j)
  <2>1. c.pc = "ask" /\ (Back(j, "error") \/ Back(j, "no")) BY <1>6 DEF Decline
  <2>2. client # None /\ c.wrote = <<>> BY <2>1 DEF CallsAreWired
  <2> QED BY <1>2, <1>4, <2>1, <2>2
<1>7. CASE Refuse(j) \/ (ReadObject(j) /\ Back(j, "error"))
  <2>1. c.pc \in {"send", "read"} /\ Back(j, "error") BY <1>7 DEF Refuse, ReadObject
  <2>2. client # None /\ c.wrote = <<>> BY <2>1 DEF CallsAreWired
  <2> QED BY <1>2, <1>4, <2>1, <2>2
\* A call that goes on.
<1>8. ASSUME NEW r \in CallState, call' = [call EXCEPT ![j] = r],
             client # None, c.wrote = <<>>, c.answer = "none",
             r.wrote = c.wrote, r.answer = c.answer,
             r.pc \in {"read", "send"} => r.via \in Targets /\ r.got \in {None, r.via},
             r.pc \in {"ask", "begin"} => r.got = None,
           r.pc = "path" => r.name \in Names,
             r.pc \in {"context", "path"} => r.op \in Kubectl,
             r.pc \in {"begin", "read", "send"} => r.yes \/ r.op \in Unconfirmed
      PROVE  CallsInv'
  <2>1. r.wrote = <<>> /\ r.answer = "none" BY <1>8
  <2> QED BY <1>1, <1>2, <1>8, <2>1, OneCallKept DEF vars
<1>9. CASE Agree(j)
  <2> DEFINE r == [c EXCEPT !.pc = "begin", !.yes = TRUE]
  <2>1. /\ c.pc = "ask" /\ call' = [call EXCEPT ![j] = r]
    BY <1>9 DEF Agree, CallsTypeOK
  <2>2. r \in CallState /\ r.pc = "begin" /\ r.yes /\ r.wrote = c.wrote /\ r.answer = c.answer
        /\ r.got = c.got
    BY <1>1 DEF CallState, CallPcs
  <2>3. client # None /\ c.wrote = <<>> /\ c.answer = "none" /\ c.got = None BY <2>1 DEF CallsAreWired
  <2> HIDE DEF r
  <2> QED BY <1>2, <1>8, <2>1, <2>2, <2>3
<1>10. CASE TakeClient(j)
  <2> DEFINE r == [c EXCEPT !.pc = Attempt(c.op), !.via = client]
  <2>1. /\ c.pc = "begin" /\ call' = [call EXCEPT ![j] = r]
    BY <1>10 DEF TakeClient, CallsTypeOK
  <2>2. Attempt(c.op) \in {"read", "send"} BY DEF Attempt
  <2>3. /\ client # None /\ c.wrote = <<>> /\ c.answer = "none"
        /\ c.got = None /\ (c.yes \/ c.op \in Unconfirmed)
    BY <2>1 DEF CallsAreWired
  <2>4. client \in Targets BY <2>3 DEF TypeOK
  <2>5. /\ r \in CallState /\ r.pc = Attempt(c.op) /\ r.via = client /\ r.got = c.got /\ r.op = c.op
        /\ r.yes = c.yes /\ r.wrote = c.wrote /\ r.answer = c.answer
    BY <1>1, <2>2, <2>4 DEF CallState, CallPcs
  <2> HIDE DEF r
  <2> QED BY <1>2, <1>8, <2>1, <2>2, <2>3, <2>4, <2>5
<1>11. CASE ReadObject(j) /\ ~Back(j, "error")
  <2> DEFINE r == [c EXCEPT !.pc = "send", !.got = c.via]
  <2>1. /\ c.pc = "read" /\ call' = [call EXCEPT ![j] = r]
    BY <1>11 DEF ReadObject, CallsTypeOK
  <2>2. /\ client # None /\ c.wrote = <<>> /\ c.answer = "none"
        /\ c.via \in Targets /\ (c.yes \/ c.op \in Unconfirmed)
    BY <2>1 DEF CallsAreWired
  <2>3. /\ r \in CallState /\ r.pc = "send" /\ r.via = c.via /\ r.got = c.via /\ r.op = c.op
        /\ r.yes = c.yes /\ r.wrote = c.wrote /\ r.answer = c.answer
    BY <1>1, <2>2 DEF CallState, CallPcs
  <2> HIDE DEF r
  <2> QED BY <1>2, <1>8, <2>1, <2>2, <2>3
<1>12. CASE Conflict(j)
  <2> DEFINE r == [c EXCEPT !.pc = Attempt(c.op), !.got = None]
  <2>1. /\ c.pc = "send" /\ call' = [call EXCEPT ![j] = r]
    BY <1>12 DEF Conflict, CallsTypeOK
  <2>2. /\ client # None /\ c.wrote = <<>> /\ c.answer = "none"
        /\ c.via \in Targets /\ (c.yes \/ c.op \in Unconfirmed)
    BY <2>1 DEF CallsAreWired
  <2>3. Attempt(c.op) \in {"read", "send"} BY DEF Attempt
  <2>4. /\ r \in CallState /\ r.pc = Attempt(c.op) /\ r.via = c.via /\ r.got = None /\ r.op = c.op
        /\ r.yes = c.yes /\ r.wrote = c.wrote /\ r.answer = c.answer
    BY <1>1, <2>3 DEF CallState, CallPcs
  <2> HIDE DEF r
  <2> QED BY <1>2, <1>8, <2>1, <2>2, <2>3, <2>4
<1>13. CASE ReadContext(j)
  <2> DEFINE r == [c EXCEPT !.pc = "path", !.name = client[2]]
  <2>1. /\ c.pc = "context" /\ call' = [call EXCEPT ![j] = r]
    BY <1>13 DEF ReadContext, CallsTypeOK
  <2>2. client # None /\ c.wrote = <<>> /\ c.answer = "none" /\ c.op \in Kubectl
    BY <2>1 DEF CallsAreWired
  <2>3. client[2] \in Names BY <2>2 DEF TypeOK, Targets
  <2>4. /\ r \in CallState /\ r.pc = "path" /\ r.name = client[2] /\ r.op = c.op
        /\ r.wrote = c.wrote /\ r.answer = c.answer
    BY <1>1, <2>3 DEF CallState, CallPcs
  <2> HIDE DEF r
  <2> QED BY <1>2, <1>8, <2>1, <2>2, <2>3, <2>4
<1>14. CASE RunKubectl(j)
  <2>1. c.pc = "path" BY <1>14 DEF RunKubectl
  <2>2. PICK a \in {"yes", "error"} :
           call' = [call EXCEPT ![j] = [c EXCEPT !.pc = "back", !.answer = a, !.via = client,
                                                 !.aim = <<pinned, c.name>>]]
    BY <1>14 DEF RunKubectl, CallsTypeOK
  <2> DEFINE r == [c EXCEPT !.pc = "back", !.answer = a, !.via = client, !.aim = <<pinned, c.name>>]
  <2>3. client # None /\ c.wrote = <<>> /\ c.op \in Kubectl /\ c.name \in Names
    BY <2>1 DEF CallsAreWired
  <2>4. <<pinned, c.name>> \in Aims /\ client \in Targets BY <2>3 DEF TypeOK, Aims
  <2>5. r \in CallState /\ r.pc = "back" /\ r.op = c.op /\ r.wrote = c.wrote
    BY <1>1, <2>4 DEF CallState, CallPcs
  <2> HIDE DEF r
  <2> QED BY <1>1, <1>2, <2>2, <2>3, <2>5, OneCallKept DEF r, vars
<1>15. CASE Write(j)
  <2>1. c.pc = "send" BY <1>15 DEF Write
  <2> DEFINE w == [at |-> c.via, from |-> c.got]
  <2>2. PICK a \in {"yes", "error"} :
           call' = [call EXCEPT ![j] = [c EXCEPT !.pc = "back", !.answer = a, !.wrote = Append(@, w)]]
    BY <1>15 DEF Write, CallsTypeOK
  <2> DEFINE r == [c EXCEPT !.pc = "back", !.answer = a, !.wrote = Append(c.wrote, w)]
  <2>3. /\ client # None /\ c.wrote = <<>> /\ c.via \in Targets /\ c.got \in {None, c.via}
        /\ (c.yes \/ c.op \in Unconfirmed)
    BY <2>1 DEF CallsAreWired
  <2>4. w \in Written /\ w.from \in {None, w.at} BY <2>3 DEF Written
  <2> HIDE DEF w
  <2>5. /\ Append(c.wrote, w) = <<w>> /\ <<w>> \in Seq(Written) /\ <<w>> # <<>>
        /\ Len(<<w>>) = 1 /\ <<w>>[1] = w
    BY <2>3, <2>4
  <2>6. /\ r \in CallState /\ r.pc = "back" /\ r.op = c.op /\ r.yes = c.yes /\ r.answer = a
        /\ r.wrote = <<w>>
    BY <1>1, <2>5 DEF CallState, CallPcs
  <2>7. call' = [call EXCEPT ![j] = r] BY <2>2, <1>1 DEF CallsTypeOK
  <2> HIDE DEF r
  <2> QED BY <1>1, <1>2, <2>3, <2>4, <2>5, <2>6, <2>7, OneCallKept DEF vars
<1> QED
  BY <1>2, <1>3, <1>5, <1>6, <1>7, <1>9, <1>10, <1>11, <1>12, <1>13, <1>14, <1>15 DEF ReadObject

LEMMA ReturnsSafe ==
    ASSUME IInv, CallsInv, NEW j \in Calls, Returns(j)
    PROVE  IInv' /\ CallsInv'
<1> USE DEF IInv, CallsInv
<1>1. UNCHANGED <<pinned, client, barVars, conn, page, remembered>> BY DEF Returns
<1>2. CallsInv'
  <2> DEFINE r == [NoCall EXCEPT !.pc = "done"]
  <2>1. call' = [call EXCEPT ![j] = r] BY DEF Returns
  <2>2. NoCall \in CallState BY DEF NoCall, CallState, CallPcs
  <2>3. r \in CallState /\ r.pc = "done" /\ r.wrote = <<>> /\ r.answer = "none"
    BY <2>2 DEF NoCall, CallState, CallPcs
  <2> HIDE DEF r
  <2> QED BY <1>1, <2>1, <2>3, OneCallKept
<1>3. CASE Mounted(page) /\ Reload(page.space)
  <2>1. page.space \in Spaces /\ page' \in PageState /\ page'.space = page.space
    BY <1>1, <1>3 DEF Mounted, TypeOK, PageState
  <2>2. /\ view' \in ViewState /\ loads' \in SUBSET Load /\ latest' \in Nat
        /\ IsFiniteSet(loads') /\ NewestIsCurrent'
    BY <1>3, <2>1, ReloadSafe
  <2>3. TypeOK' BY <1>1, <2>2 DEF TypeOK, barVars
  <2>4. ConnectsAreWired' BY <1>1, <2>2 DEF ConnectsAreWired, barVars
  <2> QED BY <1>2, <2>2, <2>3, <2>4
<1>4. CASE UNCHANGED viewVars
  BY <1>1, <1>2, <1>4
  DEF TypeOK, barVars, viewVars, ConnectsAreWired, NewestIsCurrent, Mounted, Settled
<1>5. CASE view' = [view EXCEPT !.error = TRUE] /\ UNCHANGED <<loads, latest>>
  <2>1. TypeOK' BY <1>1, <1>5, RecordsKept DEF TypeOK, barVars
  <2>2. view'.list = view.list BY <1>5 DEF TypeOK, ViewState
  <2>3. NewestIsCurrent' BY <1>1, <1>5, <2>2 DEF NewestIsCurrent, Mounted, Settled
  <2> QED BY <1>1, <1>2, <1>5, <2>1, <2>3 DEF ConnectsAreWired, barVars
<1> QED BY <1>3, <1>4, <1>5 DEF Returns

LEMMA CallsNextInv == IInv /\ CallsInv /\ [CallsNext]_allVars => IInv' /\ CallsInv'
<1> SUFFICES ASSUME IInv, CallsInv, [CallsNext]_allVars PROVE IInv' /\ CallsInv'
  OBVIOUS
<1>1. CASE UNCHANGED allVars
  <2>1. UNCHANGED vars /\ UNCHANGED call BY <1>1 DEF allVars
  <2>2. IInv' BY <2>1, NextInv
  <2>3. CallsInv'
    BY <2>1 DEF vars, CallsInv, CallsTypeOK, CallsAreWired, OneClusterPerCall, ResultIsTruthful
  <2> QED BY <2>2, <2>3
<1>2. CASE Next /\ UNCHANGED call BY <1>2, NextInv, OtherStepsSafe
<1>3. ASSUME NEW j \in Calls, CallStep(j) PROVE IInv' /\ CallsInv'
  <2>1. CASE Returns(j) BY <2>1, ReturnsSafe
  <2>2. CASE ~Returns(j)
    <3>1. CallsInv' /\ UNCHANGED vars BY <1>3, <2>2, QuietStepSafe DEF CallStep
    <3> QED BY <3>1, NextInv
  <2> QED BY <2>1, <2>2
<1> QED BY <1>1, <1>2, <1>3 DEF CallsNext

LEMMA Invariance == CallsSpec => [](IInv /\ CallsInv)
<1>1. CallsInit => IInv /\ CallsInv BY InitInv, CallsInitInv DEF CallsInit
<1> QED BY <1>1, CallsNextInv, PTL DEF CallsSpec

\* The variables keep their types for any files, contexts and namespaces and
\* any bound on the requests (client.go, ContextBar.vue, store.js).
THEOREM TypeCorrect == CallsSpec => [](TypeOK /\ CallsTypeOK)
BY Invariance, PTL DEF IInv, CallsInv

\* The rows on the screen are those of the installed cluster and the chosen
\* namespace, for any number of overlapping connects and requests (store.js,
\* PodList.vue).
THEOREM ViewFollows == CallsSpec => []ViewFollowsConnection
<1>1. IInv => ViewFollowsConnection
  BY DEF IInv, NewestIsCurrent, ViewFollowsConnection, Visible
<1> QED BY <1>1, Invariance, PTL

\* What a call read from one cluster it writes to no other, however many
\* connects finish meanwhile (clientOrErr is called once).
THEOREM OneCluster == CallsSpec => []OneClusterPerCall
BY Invariance, PTL DEF CallsInv

\* A call that reports a change made it once and after a yes, one that reports
\* none made none (the methods of service.go).
THEOREM Truthful == CallsSpec => []ResultIsTruthful
BY Invariance, PTL DEF CallsInv
=============================================================================
