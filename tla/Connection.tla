----------------------------- MODULE Connection -----------------------------
(***************************************************************************)
(* The connection to a cluster: the client of the backend                  *)
(* (internal/kube/client.go), the bar that picks a kubeconfig and connects *)
(* (ContextBar.vue), the store (store.js) and the list of pods, standing   *)
(* for every view that loads cluster data (PodList.vue).                   *)
(*                                                                         *)
(* The page runs one handler at a time; each call it makes is a goroutine  *)
(* of the backend, and the answers come back in any order.  A cluster is   *)
(* reached through a context of a file, so a target is a pair of the two,  *)
(* and the same name may stand in both files for different clusters.       *)
(***************************************************************************)
EXTENDS Naturals, FiniteSets

CONSTANTS
    Files,        \* kubeconfig files the user may pick
    Names,        \* context names
    Has,          \* Has[f]: the contexts of file f
    Spaces,       \* namespaces
    DefaultSpace, \* DefaultSpace[f][n]: the namespace of context n in f, or None
    Connects,     \* Connect calls
    Picks,        \* uses of the file picker and of the refresh button
    MaxLoads,     \* bound: requests for the list out at once, but for those of a connect
    None

ASSUME ConnectionAssumption ==
    /\ Has \in [Files -> SUBSET Names]
    /\ DefaultSpace \in [Files -> [Names -> Spaces \union {None}]]
    /\ None \notin Names \union Spaces \union (Files \X Names)
    /\ MaxLoads \in Nat

VARIABLES
    pinned,     \* kubeconfigPath
    client,     \* the target of the installed clientset, or None
    bar,        \* ContextBar: contexts, selected, loading
    pick,       \* pick[p]: picker or refresh p
    conn,       \* conn[i]: Connect call i
    page,       \* the store: connected, context name, namespace, epoch
    remembered, \* the namespaces kept in localStorage
    view,       \* PodList: which mount it is, what it lists, loading, error
    loads,      \* the list requests of the mounted PodList that are not answered
    latest      \* the last list request that was made

barVars  == <<bar, pick>>
viewVars == <<view, loads, latest>>
vars     == <<pinned, client, bar, pick, conn, page, remembered, view, loads, latest>>

Targets == {t \in Files \X Names : t[2] \in Has[t[1]]}

PickPcs  == {"idle", "chosen", "listing", "listed", "failed", "done"}
ConnPcs  == {"idle", "load", "config", "install", "info", "ok", "failed", "done"}

\* What is listed, and whether no newer request was made since.
Listed == [space : Spaces, from : Targets, newest : BOOLEAN]
Load   == [id : Nat, space : Spaces, from : Targets \union {None}, failed : BOOLEAN]

BarState  == [list : SUBSET Names, selected : Names \union {None}, loading : BOOLEAN]
PickState == [pc : PickPcs, names : SUBSET Names, current : Names \union {None}]
ConnState == [pc : ConnPcs, name : Names \union {None}, file : Files \union {None},
              raw : Files \union {None}]
PageState == [connected : BOOLEAN, name : Names \union {None}, space : Spaces \union {None}, epoch : Nat]
ViewState == [born : Nat, list : Listed \union {None}, loading : BOOLEAN, error : BOOLEAN]

\* A PodList that was mounted in this epoch.
NewView(epoch) == [born |-> epoch, list |-> None, loading |-> FALSE, error |-> FALSE]

TypeOK ==
    /\ pinned \in Files
    /\ client \in Targets \union {None}
    /\ bar \in BarState
    /\ pick \in [Picks -> PickState]
    /\ conn \in [Connects -> ConnState]
    /\ page \in PageState
    /\ remembered \in [Names -> Spaces \union {None}]
    /\ view \in ViewState
    /\ loads \in SUBSET Load
    /\ latest \in Nat

\* The bar is mounted: the contexts of some kubeconfig are listed, unless that
\* failed, and there is no connection.
Init ==
    /\ pinned \in Files
    /\ client = None
    /\ \/ \E n \in Has[pinned] : bar = [list |-> Has[pinned], selected |-> n, loading |-> FALSE]
       \/ bar = [list |-> {}, selected |-> None, loading |-> FALSE]
    /\ pick = [p \in Picks |-> [pc |-> "idle", names |-> {}, current |-> None]]
    /\ conn = [i \in Connects |-> [pc |-> "idle", name |-> None, file |-> None, raw |-> None]]
    /\ page = [connected |-> FALSE, name |-> None, space |-> None, epoch |-> 0]
    /\ remembered = [n \in Names |-> None]
    /\ view = NewView(0)
    /\ loads = {}
    /\ latest = 0

-----------------------------------------------------------------------------
\* The file picker, whose button is never disabled.  SelectKubeconfig: the
\* choice applies at once; cancelling keeps the file.
PickFile(p) ==
    /\ pick[p].pc = "idle"
    /\ pinned' \in Files
    /\ pick' = [pick EXCEPT ![p].pc = "chosen"]
    /\ UNCHANGED <<client, bar, conn, page, remembered, viewVars>>

\* The rest of pickFile: the old choice of contexts is dropped and the new
\* one loaded.  A file that cannot be read is one whose list fails.
ShowStatus(p) ==
    /\ pick[p].pc = "chosen"
    /\ pick' = [pick EXCEPT ![p].pc = "listing"]
    /\ bar' = [list |-> {}, selected |-> None, loading |-> TRUE]
    /\ UNCHANGED <<pinned, client, conn, page, remembered, viewVars>>

\* loadContexts, from the refresh button.
RefreshContexts(p) ==
    /\ pick[p].pc = "idle"
    /\ ~bar.loading
    /\ pick' = [pick EXCEPT ![p].pc = "listing"]
    /\ bar' = [bar EXCEPT !.loading = TRUE]
    /\ UNCHANGED <<pinned, client, conn, page, remembered, viewVars>>

\* Contexts: the file that is pinned when the call gets to it.  Without a
\* connection the current-context of the file counts, whichever that is.
ReadContexts(p) ==
    /\ pick[p].pc = "listing"
    /\ \/ \E n \in Names \union {None} :
             /\ IF client # None THEN n = client[2] ELSE n \in Has[pinned] \union {None}
             /\ pick' = [pick EXCEPT ![p] = [pc |-> "listed", names |-> Has[pinned], current |-> n]]
       \/ pick' = [pick EXCEPT ![p].pc = "failed"]
    /\ UNCHANGED <<pinned, client, bar, conn, page, remembered, viewVars>>

\* What loadContexts preselects: what is selected, else the current context
\* if it is listed, else the first one.
Preselected(p, n) ==
    LET choices == IF pick[p].current \in pick[p].names THEN {pick[p].current} ELSE pick[p].names
    IN  IF bar.selected # None THEN n = bar.selected
        ELSE IF choices = {} THEN n = None ELSE n \in choices

ShowContexts(p) ==
    /\ \/ /\ pick[p].pc = "listed"
          /\ \E n \in Names \union {None} :
                /\ Preselected(p, n)
                /\ bar' = [list |-> pick[p].names, selected |-> n, loading |-> FALSE]
       \/ /\ pick[p].pc = "failed"
          /\ bar' = [bar EXCEPT !.loading = FALSE]
    /\ pick' = [pick EXCEPT ![p] = [pc |-> "done", names |-> {}, current |-> None]]
    /\ UNCHANGED <<pinned, client, conn, page, remembered, viewVars>>

\* The combobox, disabled while the bar is loading.
Select(n) ==
    /\ ~bar.loading
    /\ n \in bar.list \ {bar.selected}
    /\ bar' = [bar EXCEPT !.selected = n]
    /\ UNCHANGED <<pinned, client, pick, conn, page, remembered, viewVars>>

PickStep(p) ==
    \/ PickFile(p) \/ ShowStatus(p)
    \/ RefreshContexts(p) \/ ReadContexts(p) \/ ShowContexts(p)

-----------------------------------------------------------------------------
\* Client.Connect.  Nothing is locked but the single reads and writes.

\* The Connect button of the bar.
Press(i) ==
    /\ conn[i].pc = "idle"
    /\ ~bar.loading /\ bar.selected # None
    /\ bar' = [bar EXCEPT !.loading = TRUE]
    /\ conn' = [conn EXCEPT ![i].pc = "load", ![i].name = bar.selected]
    /\ UNCHANGED <<pinned, client, pick, page, remembered, viewVars>>

\* loader: which file is decided here.
LoadFile(i) ==
    /\ conn[i].pc = "load"
    /\ conn' = [conn EXCEPT ![i].pc = "config", ![i].file = pinned]
    /\ UNCHANGED <<pinned, client, barVars, page, remembered, viewVars>>

\* The auth plugin of the context answered, and then the probe of /version;
\* neither may ever do so.
Reachable(i) ==
    /\ conn[i].pc = "config"
    /\ conn[i].name \in Has[conn[i].file]
    /\ conn' = [conn EXCEPT ![i].pc = "install"]
    /\ UNCHANGED <<pinned, client, barVars, page, remembered, viewVars>>

\* An error, or one of the two deadlines.
GiveUp(i) ==
    /\ conn[i].pc = "config"
    /\ conn' = [conn EXCEPT ![i] = [pc |-> "failed", name |-> None, file |-> None, raw |-> None]]
    /\ UNCHANGED <<pinned, client, barVars, page, remembered, viewVars>>

\* All fields are replaced together, under the lock.
Install(i) ==
    /\ conn[i].pc = "install"
    /\ client' = <<conn[i].file, conn[i].name>>
    /\ conn' = [conn EXCEPT ![i].pc = "info"]
    /\ UNCHANGED <<pinned, barVars, page, remembered, viewVars>>

\* contextInfo looks its name up in the raw config of whichever connection is
\* installed by now.  The forwards are then torn down (PortForward).
ContextInfo(i) ==
    /\ conn[i].pc = "info"
    /\ conn' = [conn EXCEPT ![i].pc = "ok", ![i].raw = client[1]]
    /\ UNCHANGED <<pinned, client, barVars, page, remembered, viewVars>>

-----------------------------------------------------------------------------
\* The store, and the list that follows it.

Mounted(pg) == pg.connected /\ pg.space # None

\* A number that no request still out bears.
FreeId == CHOOSE n \in 1..Cardinality(loads) + 1 : \A l \in loads : l.id # n

\* load(): a new request, without regard to those still out.
Reload(space) ==
    /\ latest' = FreeId
    /\ loads' = loads \union {[id |-> FreeId, space |-> space, from |-> None, failed |-> FALSE]}
    /\ view' = [(IF Mounted(page) THEN view ELSE NewView(page'.epoch)) EXCEPT
                    !.list = IF @ = None THEN None ELSE [@ EXCEPT !.newest = FALSE],
                    !.loading = TRUE, !.error = FALSE]

\* Without a connection or a namespace there is no list, and what is still
\* out for it comes to nothing.
Unmount == latest' = 0 /\ loads' = {} /\ view' = NewView(0)

\* The namespace a connection starts in: the one last used with a context of
\* this name, or that of the context.
StartSpace(i) ==
    IF remembered[conn[i].name] # None THEN remembered[conn[i].name]
    ELSE IF conn[i].name \in Has[conn[i].raw] THEN DefaultSpace[conn[i].raw][conn[i].name] ELSE None

\* Mutant of SetConnection: the watched values alone decide, no epoch.
SetConnectionNoEpoch(i) ==
    /\ page' = [connected |-> TRUE, name |-> conn[i].name, space |-> StartSpace(i), epoch |-> page.epoch]
    /\ IF StartSpace(i) = None THEN Unmount
       ELSE IF Mounted(page) /\ page.space = StartSpace(i) THEN UNCHANGED viewVars
       ELSE Reload(StartSpace(i))

\* Every view watches the epoch.
SetConnection(i) ==
    /\ page' = [connected |-> TRUE, name |-> conn[i].name, space |-> StartSpace(i), epoch |-> page.epoch + 1]
    /\ IF StartSpace(i) = None THEN Unmount ELSE Reload(StartSpace(i))

ClearConnection ==
    /\ page' = [page EXCEPT !.connected = FALSE, !.name = None, !.space = None]
    /\ Unmount

\* The rest of connect() in the bar.
Connected(i) ==
    /\ \/ conn[i].pc = "ok" /\ SetConnection(i)
       \/ conn[i].pc = "failed" /\ ClearConnection
    /\ bar' = [bar EXCEPT !.loading = FALSE]
    /\ conn' = [conn EXCEPT ![i] = [pc |-> "done", name |-> None, file |-> None, raw |-> None]]
    /\ UNCHANGED <<pinned, client, pick, remembered>>

ConnectStep(i) ==
    \/ Press(i) \/ LoadFile(i) \/ Reachable(i) \/ GiveUp(i)
    \/ Install(i) \/ ContextInfo(i) \/ Connected(i)

SelectSpace(s) ==
    /\ page.connected /\ page.space # s
    /\ Cardinality(loads) < MaxLoads
    /\ page' = [page EXCEPT !.space = s]
    /\ remembered' = [remembered EXCEPT ![page.name] = s]
    /\ Reload(s)
    /\ UNCHANGED <<pinned, client, barVars, conn>>

\* The refresh button, and the reload after a batch of watch events.
Refresh ==
    /\ Mounted(page)
    /\ Cardinality(loads) < MaxLoads
    /\ page' = page
    /\ Reload(page.space)
    /\ UNCHANGED <<pinned, client, barVars, conn, remembered>>

\* ListPods: on the clientset that is installed when the call gets to it.
ReadPods(l) ==
    /\ l.from = None /\ ~l.failed
    /\ \/ /\ client # None
          /\ loads' = (loads \ {l}) \union {[l EXCEPT !.from = client]}
       \/ loads' = (loads \ {l}) \union {[l EXCEPT !.failed = TRUE]}
    /\ UNCHANGED <<pinned, client, barVars, conn, page, remembered, view, latest>>

\* The answer reaches load(): whatever it is, the list is no longer loading.
ShowPods(l) ==
    /\ l.from # None \/ l.failed
    /\ loads' = loads \ {l}
    /\ view' = IF l.failed THEN [view EXCEPT !.loading = FALSE, !.error = TRUE]
               ELSE [view EXCEPT !.loading = FALSE,
                                 !.list = [space |-> l.space, from |-> l.from, newest |-> l.id = latest]]
    /\ UNCHANGED <<pinned, client, barVars, conn, page, remembered, latest>>

ListStep == Refresh \/ (\E s \in Spaces : SelectSpace(s)) \/ (\E l \in loads : ReadPods(l) \/ ShowPods(l))

Next ==
    \/ \E p \in Picks : PickStep(p)
    \/ \E n \in Names : Select(n)
    \/ \E i \in Connects : ConnectStep(i)
    \/ ListStep

Spec == Init /\ [][Next]_vars

-----------------------------------------------------------------------------
\* Rows are on the screen.
Visible == Mounted(page) /\ view.list # None /\ ~view.loading /\ ~view.error

\* The connection that is installed is the one the page was told about: no
\* call stands between its Install and the answer.
Settled == \A i \in Connects : conn[i].pc \notin {"info", "ok"}

\* The rows on the screen are those of the installed cluster and the chosen
\* namespace, whatever was picked, connected, failed and reloaded before, once
\* the last connect has answered, unless an earlier request was answered after
\* the last one (PodList.vue keeps no token; that case is left to the README).
ViewFollowsConnection ==
    (Visible /\ Settled /\ loads = {} /\ view.list.newest) =>
        view.list.from = client /\ view.list.space = page.space
=============================================================================
