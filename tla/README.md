# QBI in TLA+

QBI is a desktop inspector for Kubernetes: a Go backend (Wails) that talks to
one cluster, and a Vue frontend in a webview that calls the backend's methods
and listens to its events. This directory holds a TLA+ model of the parts of
QBI whose correctness depends on the order of things: goroutines, locks,
callbacks, requests in flight, crashes. TLC checks each model on a small
instance; TLAPS proves the main invariants for every instance.

Paths below are relative to the repository. `PROJECT.json` maps every
definition of the models to the lines it stands for.

## 1. The system

```
 webview (one thread)                     Go process (a goroutine per call)
 ------------------------------           -----------------------------------------
 ContextBar, store   -- Connect ------->  Service.Connect --> kube.Client (clientset)
 App.vue watch       -- SetWatchNs --->   Service --> kube.Watcher --> watch streams
 usePortForwards     -- Start/Stop/List ->Service.forwards --> PortForwardSession
 LogViewer           -- Start/Follow/Stop>Service.streams  --> splitter, pump
 SettingsView, ...   -- settings calls ->  settingsMu --> settings.json
 SecretDetail, ...   -- write calls ---->  confirm dialog --> API server
        ^                                         |
        +----- events: portforward:status, log:*, watch:*
```

Every call from the webview runs on a goroutine of its own, so two calls of one
user overlap; the webview runs one handler at a time but waits for calls in
between. Events of one emitter arrive in order; the reply of a call and an event
do not.

| Component | State it keeps | Operations | Hard behaviour | Correct when | Status |
|---|---|---|---|---|---|
| Port forwarding (backend): `service.go`, `internal/kube/portforward.go` | `forwards` registry (state, teardown) under `pfMu`; a session with `stopCh`, `readyCh`, result | Start, Stop, List, teardown on Connect and Shutdown; lifecycle and watchdog goroutines | races for the insert, ready timer against stop, events emitted outside the lock, teardown against late registration | one tunnel per target, no session forgotten, the end is reported | modelled |
| Forwards list: `usePortForwards.js` | rows, index, tombstones, pending stops | status events, hydrate at start and after reconnect, stop | list reply overtaken by events | an ended forward has no row, index = list | modelled |
| Settings and templates: `settings.go`, `logtemplates.go` | `settings.json`, `settingsMu` | load, save, template upsert / delete / select | racing cycles, failed reads and writes, crash inside a save | no update lost, templates unique, the file whole | modelled |
| Watch streams: `internal/kube/watcher.go` | two cancel functions, a goroutine per stream | Start, Stop, runWatch | cancellation at each select, closed channels, back-off, reconnect | every stream can be cancelled, ends only then, comes back otherwise | modelled |
| Log streams and viewer: `service.go`, `logs.go`, `LogViewer.vue` | `streams` registry; batch; buffer, view, rebuild in flight | reserve, follow, stop; batch, piece, tick; filter, search, clear | restart while the old stream drains, first lines before handlers, long lines, buffer at its limit | nothing lost or reordered, running streams can be stopped | modelled (formatting and files left out) |
| Secrets: `SecretDetail.vue`, `useSecretDraft.js`, `secrets_write.go`, `secrets_yaml.go` | draft rows, review, manifest; the secret itself | edit, review, save, replace, delete; value mode | other writers, conflicts and retries, mode switches, the panel unmounted under a call | a save does what the rows show and touches nothing else | partly (creation left out) |
| Cluster connection: `client.go`, `ContextBar.vue`, `store.js` | clientset, current context, pinned kubeconfig; the page's connection, namespace and epoch | Connect, SelectKubeconfig, Contexts, namespace choice | two connects, a failed connect, replies of earlier connections | the rows belong to the connection the page shows | modelled |
| Confirmed writes: `service.go` and the writes of `internal/kube` | none | `confirm`, look up the client, write, perhaps again | the connection changes while the dialog is open; conflicts; lost answers | one cluster per call, the answer is true | modelled |
| List views: `useWatch.js`, the `*List.vue` views | list, timer | load, debounced reload | late replies, a timer restarted for ever | the list shown belongs to the namespace shown | partly: `PodList` stands for them, without the timer |
| Rollback: `rollback.go`, `history.go`, `WorkloadRollback.vue` | the open picker | read history, choose, confirm, patch | rollouts, renumbering and collection in between | the revision shown is the one restored | modelled |
| Ingress: `ingress_create.go`, `networking.go`, `IngressCreate.vue`, `IngressDetail.vue` | form; health report | open, load, edit, save, create; inspect | round trip of an edit, fields the form cannot express, failing or cut lists | nothing dropped silently, the report is true | modelled |
| Services: `networking.go`, `service.go` | none | list, create, delete | | | not modelled: single requests |
| Application log: `internal/logging` | file, size | write, rotate | failures inside a rotation, two instances | the newest lines are kept, the files bounded | partly: the file; not the configuration and the redaction |
| Workloads, nodes, cron jobs; read-only views; log formatting; user interface helpers | none, or a single request | | | | not modelled: reads and their rendering |
| Application shell: `main.go`, `app.go` | wiring | start-up, shutdown | | | partly: the start-up read of the settings is in Settings, shutdown in PortForward |

## 2. The modules

| Module | What it is |
|---|---|
| `Tunnels` | abstract specification: what the port-forward service promises, without goroutines |
| `PortForward` | the service: calls, lifecycles, watchdogs, sessions |
| `ForwardsPanel` | extends `PortForward` with the frontend's list of forwards |
| `PortForwardProofs` | the theorems of both, among them that the service implements `Tunnels` |
| `Settings` | the settings file, its lock and the calls on it |
| `AppLog` | the file of the application log and its rotation |
| `StorageProofs` | the theorems of these two: what the application keeps on the disk |
| `Watcher`, `WatcherProofs` | the watch streams and the calls that switch them |
| `LogStream` | the life of log streams: registry and viewer |
| `LogView` | the text of one log stream, from the splitter to the rows shown |
| `LogStreamProofs` | the theorems of both |
| `SecretEdit`, `SecretEditProofs` | the editing of a secret, with other writers |
| `Connection` | the connection: backend, context bar, store, and a list of pods |
| `ConfirmedCalls` | extends `Connection` with the calls that write or run kubectl |
| `ConnectionProofs` | the theorems of both |
| `Rollback`, `RollbackProofs` | the picker of revisions and the way back to one |
| `IngressForm` | the form that creates or edits an ingress |
| `IngressHealth` | extends `IngressForm` with the panel that checks an ingress |
| `IngressProofs` | the theorems of both |
| `MC...` | definitions and symmetry for the runs |

### PortForward

A critical section of `pfMu` is one action, and whatever happens between two of
them is an action of its own. A forward is named by the call that makes it.

| Variable | Code |
|---|---|
| `spc`, `xpc`, `kpc`, `lpc` | where a StartPortForward, StopPortForward, Connect or Shutdown call, and a lifecycle goroutine, stand |
| `registry`, `state`, `teardown` | `Service.forwards`, `entry.state`, `entry.teardown` |
| `stopped`, `ready`, `result` | `stopCh`, `readyCh` and what `ForwardPorts` returned |
| `built`, `conn` | the connection a session was built on (clientset and REST config are read one after the other, so there may be two), and the one installed |
| `todo` | the entries `stopAllPortForwards` copied out of the lock and has still to stop |
| `pend`, `emitted` | status events still to be emitted, and emitted |

Actions follow the code: `PreCheck`, `ReadClientset`, `OpenSession`, `Insert`,
`LoseRace`, `SnapshotStatus`, `SpawnLifecycle`; `LookUp`, `SignalStop`,
`RecordStopped`; `LifeReady`, `LifeTimeout`, `LifeFailTimeout`, `LifeResult`,
`LifeContextDone`, `FinishPortForward`; `InstallClient`, `MarkAll`, `StopNext`.
`BecomesReady`, `Breaks` and `EndsCleanly` are the cluster's part. A refused call
with forwarding disabled does nothing and is left out.

`Tunnels` knows five phases of a tunnel: none, private to its call, shared,
closed, reaped. `PortForward!TunnelPhase` is the refinement mapping.

### ForwardsPanel

`row` and `byId` are the list and its index, `finished` the tombstones,
`stopping` the ids a stop was requested for. Events of one forward are heard in
order (`heard`), the reply of `ListPortForwards` (`snap`) travels apart.
`spoken` records announcements.

### Settings

`disk` and `stored` are `settings.json`; `holder` is `settingsMu`; a call goes
through `Load`, `Mutate` or `RefuseMutation`, `WriteTemp`, `Rename` or
`SaveFails`, and `Return`. `Gate` is the experimental switch, read in a cycle of
its own. `Crash` stops every call; `PowerLoss` may also leave the file
unreadable, since nothing is synced. A template is an id and a name; its field
list is left out, and a random id is an unused id. Names fold their case.

### Watcher

`cancelNS` and `cancelAll` are the two cancel functions, `on` the connection a
group of streams uses, `spc` where the goroutine of a stream stands in
`runWatch`. Streams of one group are alike, independent and cancelled together,
so one stands for all. A failed persist in SetAutoRefresh is no call; a
Shutdown's Stop is the one `Leave` makes.

### LogStream and LogView

`LogStream` is about who follows what: `reg` is `Service.streams`, `gpc` the
goroutine of an entry, `vpc` the viewer's `start()` and `stop()`, `subs` its
handlers. A key is named by the `start()` that reserved it. Cancelling and
emitting the end are one step, because nothing can tell them apart.

`LogView` is about what a stream says: the splitter's tokens (`log`), the batch
(`pending`), the events (`emitted`), the pieces of an unfinished line (`partial`),
the buffer with the rows shown and matched (`buf`), lines held back by a rebuild
(`late`), and the `rebuild`. The history `due` is what the viewer has been sent
since it was last cleared, or was to be sent then. A token is its position, a text is a sequence of
tokens, a query finds kinds of tokens. A scan may pause at any row instead of
every 1024 rows or 8 ms; a commit of 1000 rows is `CommitChunk` rows.

### SecretEdit

`store` is the secret with its resource version; `old` and `extra` are the draft
rows of existing and of added keys, `reviewed` the open review, `yaml` the
manifest, `job` the calls on the backend. A call's reading, writing and answer
are separate steps, and an answer may get lost after the write. A string is a
value in one of three forms (text, base64, the note that stands for bytes that
are no text); a string stored in the wrong form is the value `Garbled`. `Refresh`
is any load of the list, because the spinner that replaces the columns unmounts
the open panel.

### Connection and ConfirmedCalls

A cluster is reached through a context of a kubeconfig file, so a *target* is a
pair of the two, and the same context name may stand in two files.

| Variable | Code |
|---|---|
| `pinned`, `client` | `kubeconfigPath`; the installed clientset with its context |
| `bar`, `pick` | `ContextBar.vue`: its contexts, selection and spinner; a use of the picker or of refresh |
| `conn` | where a Connect call stands: loading the file, probing, installed, answered |
| `page`, `remembered` | `store.js`: connected, context, namespace, epoch; the namespaces in localStorage |
| `view`, `loads`, `latest` | `PodList.vue`: what it lists, its requests in flight, which one is the newest |
| `call` | a call of `service.go`: dialog, client looked up, object read, request, answer |

`PickStep` and `ConnectStep` are split where the code gives up the lock or
awaits: `Press`, `LoadFile`, `Reachable` or `GiveUp`, `Install`, `ContextInfo`,
then `Connected` in the page. The page remounts the views when the epoch changes
(`Unmount`), which forgets their requests. The methods of the service are
grouped by their kind (`Deletes`, `Creates`, `Patches`, `Edits`, `Replaces`,
`Kubectl`), because the kind decides what a call reads, whether it retries, and
where it may be turned away.

### Rollback

`live` is the workload, `hist` the ReplicaSets or ControllerRevisions it owns,
`panel` the picker, which reads twice (history, then the workload), `call` a
`RollbackWorkload`: it looks the number up again, compares templates, patches.
A template with all it contains is one value; `Same` is its comparison without
the hash label. `OthersApply`, `Numbering`, `Stamping` and `Collecting` are the
cluster: it gives a template that returns a new number and collects old
entries. A `ControllerRevision` may be `Broken`.

### IngressForm and IngressHealth

`form` is the panel with what it loaded, shows and had edited; `save` a call of
it; `ing` the ingress with its resource version, and `rest` what the form does
not own. `RuleRows` is how a rule becomes a row and `Unsupported` what the banner
names; `Valid` and `Payload` are what a submit sends. `IngressHealth` adds the
inspection: three lists, each of which may fail or be cut at `maxListItems`
(`Cap`), and the report made of them; `always` and `sometime` remember what was
there during the check and are not in the code. The two are one model because
`NetworkingView.vue` puts one panel in the place of the other.

### AppLog

`writer` is a `fileWriter`: where it stands in `Write` or `rotate`, which of the
two files its handle leads to, and the size it believes. `file` and `backup` are
the files on the disk: their lines, by number, and their size. Two counters of a
file are not in the code: what came in after a rotation that failed (`extra`),
and how much of the rest each writer put there (`by`). Each call to the file
system is a step that may fail; an `open` that fails may have created the file;
handles follow a renamed file (`Moved`). Two writers are two instances of QBI,
or two outputs of one configuration with the same path.

## 3. The runs

With two workers a run takes between a few seconds and two and a half minutes.

| Run | Instance | Checks |
|---|---|---|
| `PortForward_races` | 2 starts, 2 targets, 1 stop, 1 shutdown; or 1 start with a reconnect too | `UniqueTunnel`, `NoLeakedTunnel`, `RemovedIsTerminal`, `FinalEventNotLost` |
| `ForwardsPanel_rows` | 1 forward, 1 stop, 1 reconnect, both lists | `TeardownReaches`, `NoResurrection`, `IndexMatchesList`; `EndReachesPanel`, `StartingResolves`, `ImplementsTunnels` with its liveness |
| `Settings_calls` | 2 calls, 2 ids, room for 2 templates, 3 names of which 2 fold to one, 1 fault | `TemplatesSound`, `NoUpdateLost`, `CrashKeepsFileWhole`, deadlock |
| `Watcher_streams` | 2 switches, 1 toggle, 1 connection to come | `NoOrphanStream`, `CancelledEnd`, `WatchResumes` |
| `LogStream_viewer` | 2 starts and the unmounting, 1 line each | `NoLineMissed`, `OwnLinesOnly`, `RunningCanBeStopped`, `StreamingIsTrue`, `CancelledLeave` |
| `LogView_text` | 4 tokens, batch of 2, buffer of 2 lines, 2 acts of the user | `TextTypeOK`, `TextKeptInOrder`, `ViewShowsBuffer`, `EverythingArrives` |
| `SecretEdit_form` | 2 keys, 1 text and 1 binary value, 1 call of 2 attempts, 2 acts of the user or of others | `NothingGarbled`, `FormKeepsTheRest`, `FormLeavesAKey`, `DraftIsSaved` |
| `Connection_calls` | 2 files, 2 names, 2 namespaces, 2 connects, 1 pick, 1 load, 1 call of 5 kinds | `ViewFollowsConnection`, `OneClusterPerCall`, `ResultIsTruthful` |
| `Rollback_picker` | 3 templates, 3 revision numbers, 1 call, a deployment or a stateful set | `ShownIsRestored`, `OutcomeIsTruthful` |
| `Ingress_panels` | 1 rule, 2 services, 1 secret, 1 save, 1 check, 2 changes of the ingress, 2 edits, lists cut at 1 | `TypeOK`, `NothingLostSilently`, `RestSurvives`, `ReportIsTrue` |
| `AppLog_file` | 2 writers, lines of 1 and 2, files of 3, 5 lines, 2 faults | `NewestKept`, `DiskBounded` |
| `Connection_shell` | as `Connection_calls`, with the kubectl calls | `ShellFollowsConnection`, which fails: see section 5 |

Type invariants that are proved are left to the theorems; the runs check them
also for `LogView` and for the ingress panels, where the type says how rows, rules
and reports are put together.

Why the bounds are enough. Every race of the port-forward service is between two
parties over one entry, or two entries over one target; the constraint
`ReconnectMeetsOne` keeps the reconnect to one start, since a teardown treats
entries one by one. The liveness of the service is checked with a reconnect; a
shutdown is only in the safety run, and `TeardownReaches` is proved for any
number of both. A lost update needs two cycles; a limit on templates is met by
one more than there is room for. A watcher orphan needs a Start over a Start,
with a toggle and a connection in between. A stale stream needs one restart. A
batch, a buffer and a rebuild are at their limits with two lines, and four
tokens overfill them while a line of two pieces is under way. A conflict of a
save needs one edit and one other writer, a key removed and added again two
edits; a retry that is exhausted needs a third act, ends the call as any failure
does, and is left to the theorem. Two connects are a pair that overlaps, and with
the picker there are two files they may read; a call meets either. Three
revisions are the one shown, the one live and one rolled out meanwhile. Two
changes of the ingress are one by another client and one by the form; a check
reads three lists, between any two of which one thing may come or go. A rotation
has four calls that may fail: one fault breaks it, a second breaks the recovery;
five lines fill a file, its backup and one more; two writers are one that rotates
under another. A line longer than a file is left to the theorem.

Deadlock is checked only for Settings, whose calls start over after a restart
and wait for each other's lock; elsewhere the calls are finitely many and the
system comes to rest.

### Fairness

* *PortForward, ForwardsPanel*: a goroutine that has begun goes on (the Go
  scheduler), the watchdog included; an emission is made; `ForwardPorts`
  returns when it was asked to stop. Nobody has to make a call, and nothing is
  assumed of connections. The webview dispatches events and hydrate goes on.
* *Watcher*: weak fairness of a goroutine's steps; strong fairness of seeing the
  cancellation, because Go's `select` picks among ready cases at random; strong
  fairness of a watch that opens, which only `WatchResumes` needs and which says
  that the API server answers now and then.
* *LogStream*: what the backend runs goes on, requests and reads of a cancelled
  context return, events are dispatched. Nothing is assumed of the server, and no
  log has to end.
* *LogView*: the ticker fires, events are dispatched, animation frames come while
  the window shows. `EverythingArrives` is for a user who lets a rebuild finish.
* The other modules state safety only, and no fairness.

## 4. What is proved

For every value of the constants, by the proof system:

* **PortForward**: `TypeOK`, `UniqueTunnel`, `NoLeakedTunnel`,
  `TeardownReaches`, `RemovedIsTerminal`, and `ImplementsTunnelsSafely`: every
  step is a step of `Tunnels` or a stutter. The code checks the *states* of
  entries at the insert; the promise is about *sessions*. The invariant `IInv`
  relates the two: a running registered session has a state that is not terminal
  (`LiveIsNotTerminal`), a stop signals the session before it records the state
  (`StopsFirst`), what each call holds at each point (`CallPhases`), and what a
  teardown has listed and has still to stop (`TeardownLists`).
* `FinalEventNotLost` has an invariant of its own (`FinalInv`), with `IInv` for
  what a call holds: an emission that is pending belongs to a goroutine that
  stands right before it (`PendPhases`), and a forward that was announced and has
  ended was told to have ended, or has a goroutine that will tell it, unless a
  teardown took it away (`EndIsTold`).
* **ForwardsPanel**: `PanelTypeOK`, `NoResurrection` and `IndexMatchesList`, on top of the
  service's type invariant, since a step of the panel is a step of the service
  or leaves it alone.
* **Settings**: `TypeOK`, `TemplatesSound`, `CrashKeepsFileWhole`,
  `NoUpdateLost`. The invariant says that a call between its load and its save
  holds the lock and that its work was computed from what is stored.
* **Watcher**: `TypeOK`, `NoOrphanStream`, `ExitsOnlyWhenCancelled`. The
  invariant adds that a cancel function is that of a started group.
* **LogStream**: `TypeOK`, `RunningCanBeStopped`, `OwnLinesOnly` with
  `NoLineMissed`, `StreamingIsTrue`. The invariant describes the registry
  (`RegistrySound`), the handlers per call (`HandlersSound`), the flag
  (`FlagSound`) and that an end is the last event on the wire (`EndIsLast`).
* **LogView**: `TextTypeOK`, `TextKeptInOrder`, `ViewShowsBuffer`. The type bounds
  what is kept (`MemoryBounded`). `TextKeptInOrder` is stated point by point, over pairs of
  texts, because a sequence that is flattened needs an induction over data. The
  invariant `TextInv` has the five places a text can be in: each is in order
  (`Places`), all of one is older than all of the next (`InPlaceOrder`), together
  they hold the newest of what is due, and all of it until the buffer was full
  (`NewestHeld`). Two facts make it inductive: lines wait for a rebuild only while
  one is in flight, so a line is never applied before one that waits; and an event
  of a piece holds exactly one text (`Formed`). Every step of the viewer is then
  one lemma (`ViewerSteps`: some of the partial line and of the wire goes to the
  buffer, the rest stays), and so is every step of the pump (`PumpSteps`).
* `ViewShowsBuffer` has an invariant of its own (`ViewInv`), with `TextInv` for
  what is held. A rebuild in flight has exactly the rows of the lines it scanned
  (`Scanned`); outside one, the rows and the matches on the screen end with
  exactly those that the query and the filter select from the buffer (`Shows`).
  Three facts make it inductive. The lines of the buffer are numbered without a
  gap, so cutting rows below the first number kept cuts no row of a line that
  stayed (`Evicted`). Nothing is applied while a rebuild scans, so what it scanned
  does not move under it. And the log, which only grows, changes no row that is
  shown, because every text held is made of tokens already read (`ShownStays`). A
  selection is stated by counting (`Nth`) and not recursively, which is what makes
  the selection of a join the join of the selections (`SelectionJoins`) without an
  induction over data.
* **AppLog**: `DiskBounded`, `NewestKept`, for lines of any length, any number of
  writers and any number of failures. `LogInv` rests on one relation per writer
  (`WriterSound`): the size a writer reckons with is at least its own share of
  the file its handle leads to, because `open` asks for the size, and the one
  file it uses without comparing, right after its own rotation, holds nothing of
  its own. So a writer fills a file once, whatever others do to it. A writer
  alone (`OneRuns`) reckons with the true size (`KnowsItsFile`), and what it
  rotates away is a file that was full for its line; that is why the lines lost
  are always the oldest.
* **SecretEdit**: `TypeOK`, `NothingGarbled`, `FormKeepsTheRest`,
  `FormLeavesAKey`, `DraftIsSaved`. The invariant says that every row of an open
  draft holds a string that fits the present mode, or is a locked note, and that
  a call carries changes built from such rows.
* **Connection, ConfirmedCalls**: `TypeOK`, `ViewFollowsConnection`,
  `OneClusterPerCall`, `ResultIsTruthful`. The view's property is about the
  newest reply once no connect stands between its installation and its answer
  (`Settled`). The invariant extends it to the newest request in flight: it asks
  for the namespace of the page, and what it has read is of the installed client
  (`NewestIsCurrent`); that needs to know what each connect holds at each step
  (`ConnectsAreWired`). For the calls it relates what was read, written and
  answered at each point (`CallsAreWired`).
* **Rollback**: `TypeOK`, `ShownIsRestored`, `OutcomeIsTruthful`. A number names
  at most one entry (`NumbersAreUnique`). What the picker shows, or a call was
  clicked with, is `Known`: its number is not above the newest, and whatever
  bears it now has the template that was shown (`ShownIsKnown`), so a number that
  was collected is never given again. `CallsKnow` carries this through a call.

* **IngressForm, IngressHealth**: `TypeOK`, `NothingLostSilently`, `RestSurvives`,
  `ReportIsTrue`. The invariant says that a row the user left alone shows what
  was loaded or is empty, which a submit refuses (`ShowsLoaded`), that a call
  under way carries such a form (`SavesSound`), that an update which still finds
  the version it read finds the content it read (`VersionsTell`), and that every
  list a check has read lies between what was there all the time and what was
  there at some time (`ListsSound`).

The assumptions are those the modules name: the sets of calls are disjoint, the
special values are in none of the sets, the bounds are numbers, lines of the log
are not empty.

Only model-checked: liveness (`StartingResolves`, `EndReachesPanel`,
`CancelledEnd`, `WatchResumes`, `CancelledLeave`, `EverythingArrives`, the
liveness of `Tunnels`), which the proof system does not reach.

## 5. Where the code departs from what it says

One of these has a run whose property fails.

* `internal/kube/shell.go:12-14`, `service.go:473-476`: a shell "always connects
  to the same cluster that qbi is currently inspecting". `kubectlBaseArgs` takes
  the context from the connection and the file from the path pinned last, which
  the picker changes without a connect (`Connection_shell`).

The others were seen while modelling and are described here only.

Port forwarding and its list:

* `service.go:312-314`: forwards "built on the old [connection] cannot survive
  it". A start that opened its session before a Connect may register it after
  the teardown.
* `usePortForwards.js:112-113`: "rehydrate against the drained registry". The
  list is taken before the lifecycles drained it, and the final events of
  torn-down forwards are suppressed, so a row may stay.
* `service.go:1411-1414` "One forward per (pod, remote port)": a stopped entry can
  become active again when the select picks `readyCh` over the stop, and a new
  forward to the target may be registered by then. What holds is `UniqueTunnel`:
  of the registered sessions that run, one leads to a target.
* The final event of a forward may follow its removal from the registry; "active"
  may be announced after the end; a stop recorded as such can be overwritten by
  "failed" (`service.go:1489`).
* A hydrate reply taken before a forward was registered removes the row that the
  event in between had added.

Watch streams, lists and connection:

* `watcher.go:44-46`: a running session "is cancelled first". The cluster-scoped
  streams are kept across a reconnect.
* `SetAutoRefresh` "starts or stops" the watch (`service.go:112-113`), but
  enabling it starts nothing until the next switch of the namespace; and
  SetWatchNamespace acts on a setting it read before (`service.go:213`).
  Changes that happen during a stream's back-off are never reported.
* `PodList.vue:97`: a reply that is late overwrites a newer one; there is no
  token. `ViewFollowsConnection` is about the newest reply for that reason.
* `useWatch.js:29`: every event restarts the timer of 300 ms, so a cluster that
  changes steadily is not reloaded.

Logs and secrets:

* `logs_test.go:91`: the completer token "must close the line without swallowing
  the next one". A batch of one blank line is the empty string, which the
  viewer ignores.
* `LogViewer.vue:749, 835`: two overlapping starts share `streamKey` and the
  handlers; what holds of them is in the run `LogStream_viewer`.
* `README.md:68-69` "a review dialog lists exactly what will change": the rows
  stay editable behind the dialog and the save computes the changes again
  (`SecretDetail.vue:157`).
* `SecretList.vue:64-65` a refresh "keeps the open detail panel": the spinner
  unmounts it (`SecretList.vue:222`) and an unsaved draft is gone.
* `README.md:95-97, 217`: every write is confirmed in a native dialog.
  `UpdateSecret` has none; the review in the webview stands for it.

Rollback and ingress:

* The picker is keyed by kind and name (`WorkloadsView.vue:1169`): another
  revision clicked while it is open is not preselected. What it announces is the
  revision selected when the call returns, which may have changed meanwhile; a
  reload of the view closes it and its result is not shown.
* Owners are compared by kind and name, not by UID (`rollback.go:71-73`), and the
  patch carries no resource version (`rollback.go:249`): it replaces the template
  whatever it is by then.
* `networking.go:86-89`: statuses degrade to unknown "instead of falsely reporting
  a resource as missing". They do when a list fails; beyond the 1000 objects of
  one list (`client.go:33`) a service or secret counts as missing.
* `service.go:788` and `ingress_create.go:44-45`: the values are replaced "exactly
  as shown in the preview". The preview is optional and is not refreshed by later
  edits (`IngressCreate.vue:385-406`).
* A host rule without paths is loaded as an empty row but is not named in the
  banner (the form then refuses to save it as it is); a class chosen in the blank
  form survives the loading of an ingress; ingresses whose names have dots cannot
  be saved.
* `CreateDeployment`: the labels of a form may override the label `app` the
  selector uses.

Application log:

* `logging.go:85` "$QBI_LOG_LEVEL overrides the level in every case": some early
  returns come before it. `logging.go:88` "logging never degrades below it": when
  Setup fails because the file cannot be opened (`main.go:24-28`), the records go
  to Go's default logger, unredacted.
* `README.md:127-128` "rotating at 5 MB with one backup" holds for one writer. Two
  that share the file each count their own bytes and rotate under each other, and
  lines are lost; `NewestKept` and `DiskBounded` say what is left.
* `redact.go:135-149`: loggers derived from one logger may share the array behind
  its attributes and overwrite each other's.

## 6. Not modelled, and what would come next

* The timer of `useWatch.js` and the other list views: `PodList` stands for them.
  A property of the timer would restate it, since the model has no clock.
* The creation of secrets, services, deployments and cron jobs beyond their
  confirmation and request: checks of fields and the building of an object. The
  previous revision (number 0) of a rollback, which no caller asks for.
* Reads and their rendering (nodes, events, YAML, pod files, resolved owners), and
  the formatting of log lines: they keep no state.
* The choice of the log's configuration and the redaction of its records: string
  rewriting.
* Next: an abstract specification of the settings (an atomic register) with its
  refinement; ingress rules of several paths.
