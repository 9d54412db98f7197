------------------------------ MODULE Settings ------------------------------
(***************************************************************************)
(* The persisted settings (settings.go), the log templates kept in them    *)
(* (logtemplates.go) and the service calls that change them (service.go).  *)
(*                                                                         *)
(* Every Wails call runs on a goroutine of its own; settingsMu serialises  *)
(* one load, or one load-modify-save cycle.  A cycle writes a temporary    *)
(* file and renames it over settings.json.  Process crashes, power losses  *)
(* (nothing is synced, so the file may come back unreadable), failed reads *)
(* and failed writes happen.                                               *)
(*                                                                         *)
(* A template is an id and a name: its field list is normalised on its own *)
(* (LogTemplateFields).  Random ids are unused ids.                        *)
(***************************************************************************)
EXTENDS Naturals, FiniteSets

CONSTANTS
    Calls,          \* goroutines that run service calls
    Paths,          \* kubeconfig paths, with NoPath
    NoPath,         \* the empty path
    Ids,            \* template ids
    NoId,           \* the empty id: a new template, raw output
    Names,          \* template names after trimming
    Fold,           \* Fold[n]: the name n with its case folded
    Blank,          \* a name that is empty once trimmed
    MaxTemplates,   \* maxLogTemplates
    NoCall,         \* settingsMu is free
    Asked,          \* bound: the requests the calls make
    MaxFaults       \* bound: power losses and reads of a good file that fail

ASSUME SettingsAssumption ==
    /\ NoPath \in Paths
    /\ NoId \notin Ids
    /\ Blank \notin Names
    /\ NoCall \notin Calls
    /\ MaxTemplates \in Nat
    /\ MaxFaults \in Nat

VARIABLES
    disk,       \* settings.json: "absent", "whole" or "corrupt"
    stored,     \* what a reader of settings.json gets, Zero unless whole
    holder,     \* who holds settingsMu
    pc,         \* pc[k]: where call k stands
    req,        \* req[k]: what call k was asked
    work,       \* work[k]: the settings call k is about to save
    blind,      \* calls whose read failed although the file was good
    faults      \* power losses and failed reads so far

vars == <<disk, stored, holder, pc, req, work, blind, faults>>

Templates == [id : Ids, name : Names]
Drafts    == [id : Ids \union {NoId}, name : Names \union {Blank}]

SettingsType ==
    [kubeconfigPath : Paths, autoRefresh : BOOLEAN, welcomeSeen : BOOLEAN,
     experimental : BOOLEAN, logTemplates : SUBSET Templates,
     activeLogTemplate : Ids \union {NoId}]

\* The zero value of the settings struct.
Zero ==
    [kubeconfigPath |-> NoPath, autoRefresh |-> FALSE, welcomeSeen |-> FALSE,
     experimental |-> FALSE, logTemplates |-> {}, activeLogTemplate |-> NoId]

PlainRequests ==
    [op : {"SetKubeconfig"}, path : Paths]
      \union [op : {"SetAutoRefresh", "SetExperimental"}, on : BOOLEAN]
      \union [op : {"AcknowledgeWelcome"}]
GatedRequests ==
    [op : {"SaveLogTemplate"}, draft : Drafts]
      \union [op : {"DeleteLogTemplate"}, id : Ids]
      \union [op : {"SetActiveLogTemplate"}, id : Ids \union {NoId}]
Requests == PlainRequests \union GatedRequests

\* What req[k] holds while call k does not run.
NoRequest == [op |-> "AcknowledgeWelcome"]

TypeOK ==
    /\ disk \in {"absent", "whole", "corrupt"}
    /\ stored \in SettingsType
    /\ holder \in Calls \union {NoCall}
    /\ pc \in [Calls -> {"idle", "gate", "waiting", "loaded", "written"}]
    /\ req \in [Calls -> Requests]
    /\ work \in [Calls -> SettingsType]
    /\ blind \subseteq Calls
    /\ faults \in 0..MaxFaults

Init ==
    /\ disk = "absent"
    /\ stored = Zero
    /\ holder = NoCall
    /\ pc = [k \in Calls |-> "idle"]
    /\ req = [k \in Calls |-> NoRequest]
    /\ work = [k \in Calls |-> Zero]
    /\ blind = {}
    /\ faults = 0

-----------------------------------------------------------------------------
\* What the mutations make of the settings: the set of possible outcomes,
\* empty when the request is refused.

StoredIds(st) == {t.id : t \in st.logTemplates}

\* Mutant of NameTaken: compares the names as they are.
NameTakenExactly(st, t) == \E o \in st.logTemplates : o.id # t.id /\ o.name = t.name

\* upsertLogTemplate: names are unique but for case, an id must be stored, a
\* new template takes an unused id and must find room.
NameTaken(st, t) == \E o \in st.logTemplates : o.id # t.id /\ Fold[o.name] = Fold[t.name]

Upserted(st, t) ==
    [st EXCEPT !.logTemplates = {o \in @ : o.id # t.id} \union {t}]

Upserts(st, d) ==
    {Upserted(st, t) : t \in
        {t \in Templates :
            /\ t.name = d.name
            /\ \/ t.id = d.id /\ d.id \in StoredIds(st)
               \/ /\ d.id = NoId
                  /\ t.id \notin StoredIds(st)
                  /\ Cardinality(st.logTemplates) < MaxTemplates
            /\ ~NameTaken(st, t)}}

\* Mutant of Deletes: the selection is left alone.
DeletesOnly(st, id) ==
    {[s EXCEPT !.logTemplates = {o \in @ : o.id # id}] :
        s \in {s \in {st} : id \in StoredIds(s)}}

\* deleteLogTemplate
Deletes(st, id) ==
    {[s EXCEPT !.logTemplates = {o \in @ : o.id # id},
               !.activeLogTemplate = IF @ = id THEN NoId ELSE @] :
        s \in {s \in {st} : id \in StoredIds(s)}}

\* setActiveLogTemplate
Activates(st, id) ==
    {[s EXCEPT !.activeLogTemplate = id] :
        s \in {s \in {st} : id \in StoredIds(s) \union {NoId}}}

Mutations(r, st) ==
    CASE r.op = "SetKubeconfig"        -> {[st EXCEPT !.kubeconfigPath = r.path]}
      [] r.op = "SetAutoRefresh"       -> {[st EXCEPT !.autoRefresh = r.on]}
      [] r.op = "SetExperimental"      -> {[st EXCEPT !.experimental = r.on]}
      [] r.op = "AcknowledgeWelcome"   -> {[st EXCEPT !.welcomeSeen = TRUE]}
      [] r.op = "SaveLogTemplate"      -> Upserts(st, r.draft)
      [] r.op = "DeleteLogTemplate"    -> Deletes(st, r.id)
      [] r.op = "SetActiveLogTemplate" -> Activates(st, r.id)

-----------------------------------------------------------------------------
\* loadSettingsLocked: a file that cannot be parsed is moved aside, if that
\* works; without a file, or when it cannot be read, the zero value is used.
\* blind' says whether the reader missed a good file.

LoadGood(k, st) ==
    /\ disk # "corrupt"
    /\ st = stored
    /\ blind' = blind \ {k}
    /\ UNCHANGED <<disk, faults>>

LoadCorrupt(k, st) ==
    /\ disk = "corrupt"
    /\ st = Zero
    /\ disk' \in {"absent", "corrupt"}
    /\ blind' = blind \ {k}
    /\ UNCHANGED faults

LoadFails(k, st) ==
    /\ disk = "whole"
    /\ faults < MaxFaults
    /\ faults' = faults + 1
    /\ st = Zero
    /\ blind' = blind \union {k}
    /\ UNCHANGED disk

Load(k, st) == LoadGood(k, st) \/ LoadCorrupt(k, st) \/ LoadFails(k, st)

Call(k) ==
    /\ pc[k] = "idle"
    /\ \E r \in Asked \intersect Requests :
          /\ req' = [req EXCEPT ![k] = r]
          /\ pc' = [pc EXCEPT ![k] = IF r \in GatedRequests THEN "gate" ELSE "waiting"]
    /\ UNCHANGED <<disk, stored, holder, work, blind, faults>>

\* What a call knows is gone once it has returned.
Return(k) ==
    /\ pc' = [pc EXCEPT ![k] = "idle"]
    /\ req' = [req EXCEPT ![k] = NoRequest]
    /\ work' = [work EXCEPT ![k] = Zero]

\* experimentalEnabled: a load of its own, under the lock, which is released
\* before the update takes it again.
Gate(k) ==
    /\ pc[k] = "gate"
    /\ holder = NoCall
    /\ \E st \in {stored, Zero} :
          /\ Load(k, st)
          /\ \/ /\ st.experimental
                /\ pc' = [pc EXCEPT ![k] = "waiting"]
                /\ UNCHANGED <<req, work>>
             \/ /\ ~st.experimental
                /\ Return(k)
    /\ UNCHANGED <<stored, holder>>

\* Mutant of Mutate: nobody waits for the lock.
MutateUnlocked(k) ==
    /\ pc[k] = "waiting"
    /\ \E st \in {stored, Zero} :
          /\ Load(k, st)
          /\ \E new \in Mutations(req[k], st) : work' = [work EXCEPT ![k] = new]
    /\ holder' = k
    /\ pc' = [pc EXCEPT ![k] = "loaded"]
    /\ UNCHANGED <<stored, req>>

\* updateSettings up to the mutation, under the lock from here on.
Mutate(k) ==
    /\ pc[k] = "waiting"
    /\ holder = NoCall
    /\ \E st \in {stored, Zero} :
          /\ Load(k, st)
          /\ \E new \in Mutations(req[k], st) : work' = [work EXCEPT ![k] = new]
    /\ holder' = k
    /\ pc' = [pc EXCEPT ![k] = "loaded"]
    /\ UNCHANGED <<stored, req>>

\* The mutation refuses: nothing is saved, the deferred unlock runs.
RefuseMutation(k) ==
    /\ pc[k] = "waiting"
    /\ holder = NoCall
    /\ \E st \in {stored, Zero} : Load(k, st) /\ Mutations(req[k], st) = {}
    /\ Return(k)
    /\ UNCHANGED <<stored, holder>>

\* Mutant of WriteTemp: writes settings.json itself, which is then neither the
\* old nor the new one.
WriteInPlace(k) ==
    /\ pc[k] = "loaded"
    /\ pc' = [pc EXCEPT ![k] = "written"]
    /\ disk' = "corrupt"
    /\ stored' = Zero
    /\ UNCHANGED <<holder, req, work, blind, faults>>

\* saveSettingsLocked: the temporary file, which nobody reads, ...
WriteTemp(k) ==
    /\ pc[k] = "loaded"
    /\ pc' = [pc EXCEPT ![k] = "written"]
    /\ UNCHANGED <<disk, stored, holder, req, work, blind, faults>>

\* ... and the rename.
Rename(k) ==
    /\ pc[k] = "written"
    /\ disk' = "whole"
    /\ stored' = work[k]
    /\ holder' = NoCall
    /\ Return(k)
    /\ blind' = blind \ {k}
    /\ UNCHANGED faults

\* Either can fail: the file stays as it was.
SaveFails(k) ==
    /\ pc[k] \in {"loaded", "written"}
    /\ holder' = NoCall
    /\ Return(k)
    /\ blind' = blind \ {k}
    /\ UNCHANGED <<disk, stored, faults>>

\* The process ends, wherever its calls stand, and is started again.
Restart ==
    /\ pc' = [k \in Calls |-> "idle"]
    /\ req' = [k \in Calls |-> NoRequest]
    /\ work' = [k \in Calls |-> Zero]
    /\ blind' = {}
    /\ holder' = NoCall

Crash ==
    /\ \E k \in Calls : pc[k] # "idle"
    /\ Restart
    /\ UNCHANGED <<disk, stored, faults>>

\* The machine goes down, and the renamed file had not reached the disk.
PowerLoss ==
    /\ faults < MaxFaults
    /\ faults' = faults + 1
    /\ disk = "whole"
    /\ disk' = "corrupt"
    /\ stored' = Zero
    /\ Restart

Step(k) ==
    \/ Gate(k) \/ Mutate(k) \/ RefuseMutation(k)
    \/ WriteTemp(k) \/ Rename(k) \/ SaveFails(k)

Next == (\E k \in Calls : Call(k) \/ Step(k)) \/ Crash \/ PowerLoss

Spec == Init /\ [][Next]_vars

-----------------------------------------------------------------------------
\* Properties.

\* The templates on disk stay usable, whatever calls race: ids are unique,
\* names are unique but for case (the Format list stays unambiguous), there
\* are at most maxLogTemplates, and the selected one exists.
SoundTemplates(st) ==
    /\ \A s, t \in st.logTemplates :
          s.id = t.id \/ Fold[s.name] = Fold[t.name] => s = t
    /\ IsFiniteSet(st.logTemplates)
    /\ Cardinality(st.logTemplates) <= MaxTemplates
    /\ st.activeLogTemplate \in StoredIds(st) \union {NoId}

TemplatesSound == SoundTemplates(stored)

\* "concurrent calls can never lose each other's changes" (updateSettings):
\* what replaces the settings is a request applied to the settings replaced,
\* not to an older copy, unless that call's read had failed.
NoUpdateLost ==
    [][stored' # stored /\ disk' = "whole" =>
         \E k \in Calls :
            pc[k] = "written" /\ (k \in blind \/ stored' \in Mutations(req[k], stored))]_vars

\* "a crash mid-write can never leave a truncated settings.json behind"
\* (saveSettings): only a power loss makes the file unreadable.
CrashKeepsFileWhole == disk = "corrupt" => faults > 0
=============================================================================
