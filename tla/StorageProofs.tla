--------------------------- MODULE StorageProofs ---------------------------
(***************************************************************************)
(* What the application keeps on the disk of the user: its settings and    *)
(* its log, for any number of calls, writers, requests and faults.         *)
(***************************************************************************)
EXTENDS Settings, AppLog, FiniteSetTheorems, TLAPS

\* A call past its mutation holds the lock, and what it is about to save is
\* sound and, unless its read failed, the outcome of its request on the
\* settings as they are on disk.
CycleIsLocked ==
    \A k \in Calls : pc[k] \in {"loaded", "written"} =>
        /\ holder = k
        /\ SoundTemplates(work[k])
        /\ k \in blind \/ work[k] \in Mutations(req[k], stored)

\* A file that cannot be used reads as the zero value.
UnusableReadsZero == disk # "whole" => stored = Zero

IInv ==
    /\ TypeOK
    /\ TemplatesSound
    /\ CrashKeepsFileWhole
    /\ CycleIsLocked
    /\ UnusableReadsZero

-----------------------------------------------------------------------------
\* The mutations.

LEMMA ZeroSound == Zero \in SettingsType /\ SoundTemplates(Zero)
<1>1. Zero \in SettingsType BY SettingsAssumption DEF Zero, SettingsType
<1>2. IsFiniteSet({}) /\ Cardinality({}) = 0 BY FS_EmptySet
<1>3. SoundTemplates(Zero)
  BY <1>2, SettingsAssumption DEF SoundTemplates, Zero, StoredIds
<1> QED BY <1>1, <1>3

\* Whatever the request, the templates stay as they are or go through one of
\* the three template operations.
LEMMA MutationCases ==
    ASSUME NEW r \in Requests, NEW st \in SettingsType, NEW new \in Mutations(r, st)
    PROVE  \/ /\ new \in SettingsType
              /\ new.logTemplates = st.logTemplates
              /\ new.activeLogTemplate = st.activeLogTemplate
           \/ \E d \in Drafts : new \in Upserts(st, d)
           \/ \E id \in Ids : new \in Deletes(st, id)
           \/ \E id \in Ids \union {NoId} : new \in Activates(st, id)
<1>1. CASE r \in [op : {"SetKubeconfig"}, path : Paths]
  <2>1. r.op = "SetKubeconfig" /\ r.path \in Paths BY <1>1
  <2>2. new = [st EXCEPT !.kubeconfigPath = r.path] BY <2>1 DEF Mutations
  <2> QED BY <2>1, <2>2 DEF SettingsType
<1>2. CASE r \in [op : {"SetAutoRefresh", "SetExperimental"}, on : BOOLEAN]
  <2>1. r.op \in {"SetAutoRefresh", "SetExperimental"} /\ r.on \in BOOLEAN BY <1>2
  <2>2. \/ new = [st EXCEPT !.autoRefresh = r.on]
        \/ new = [st EXCEPT !.experimental = r.on]
    BY <2>1 DEF Mutations
  <2> QED BY <2>1, <2>2 DEF SettingsType
<1>3. CASE r \in [op : {"AcknowledgeWelcome"}]
  <2>1. r.op = "AcknowledgeWelcome" BY <1>3
  <2>2. new = [st EXCEPT !.welcomeSeen = TRUE] BY <2>1 DEF Mutations
  <2> QED BY <2>2 DEF SettingsType
<1>4. CASE r \in [op : {"SaveLogTemplate"}, draft : Drafts]
  <2>1. r.op = "SaveLogTemplate" /\ r.draft \in Drafts BY <1>4
  <2>2. new \in Upserts(st, r.draft) BY <2>1 DEF Mutations
  <2> QED BY <2>1, <2>2
<1>5. CASE r \in [op : {"DeleteLogTemplate"}, id : Ids]
  <2>1. r.op = "DeleteLogTemplate" /\ r.id \in Ids BY <1>5
  <2>2. new \in Deletes(st, r.id) BY <2>1 DEF Mutations
  <2> QED BY <2>1, <2>2
<1>6. CASE r \in [op : {"SetActiveLogTemplate"}, id : Ids \union {NoId}]
  <2>1. r.op = "SetActiveLogTemplate" /\ r.id \in Ids \union {NoId} BY <1>6
  <2>2. new \in Activates(st, r.id) BY <2>1 DEF Mutations
  <2> QED BY <2>1, <2>2
<1> QED
  BY <1>1, <1>2, <1>3, <1>4, <1>5, <1>6 DEF Requests, PlainRequests, GatedRequests

\* Storing a template keeps the others and makes room under the bound.
LEMMA UpsertSound ==
    ASSUME NEW st \in SettingsType, SoundTemplates(st), NEW d \in Drafts,
           NEW new \in Upserts(st, d)
    PROVE  new \in SettingsType /\ SoundTemplates(new)
<1>1. PICK t \in Templates :
        /\ new = Upserted(st, t)
        /\ \/ t.id \in StoredIds(st)
           \/ Cardinality(st.logTemplates) < MaxTemplates
        /\ ~NameTaken(st, t)
  BY DEF Upserts
<1> DEFINE L == st.logTemplates
           K == {o \in L : o.id # t.id}
<1>2. L \subseteq Templates /\ IsFiniteSet(L) /\ Cardinality(L) <= MaxTemplates
  BY DEF SoundTemplates, SettingsType
<1>3. /\ new \in SettingsType
      /\ new.logTemplates = K \union {t}
      /\ new.activeLogTemplate = st.activeLogTemplate
  BY <1>1, <1>2 DEF Upserted, SettingsType
<1>4. ASSUME NEW a \in K \union {t}, NEW b \in K \union {t},
             a.id = b.id \/ Fold[a.name] = Fold[b.name]
      PROVE  a = b
  <2>1. CASE a \in K /\ b \in K BY <1>4, <2>1 DEF SoundTemplates
  <2>2. \A o \in K : o.id # t.id /\ Fold[o.name] # Fold[t.name]
    BY <1>1 DEF NameTaken
  <2> QED BY <1>4, <2>1, <2>2
<1>5. IsFiniteSet(K) /\ Cardinality(K) \in Nat /\ Cardinality(L) \in Nat
      /\ Cardinality(K) <= Cardinality(L)
  BY <1>2, FS_Subset, FS_CardinalityType
<1>6. IsFiniteSet(K \union {t}) /\ Cardinality(K \union {t}) = Cardinality(K) + 1
  <2>1. t \notin K OBVIOUS
  <2> QED BY <1>5, <2>1, FS_AddElement
<1>7. Cardinality(K \union {t}) <= MaxTemplates
  <2>1. CASE t.id \in StoredIds(st)
    <3>1. PICK o \in L : o.id = t.id BY <2>1 DEF StoredIds
    <3>2. K \in SUBSET (L \ {o}) BY <3>1
    <3>3. IsFiniteSet(L \ {o}) /\ Cardinality(L \ {o}) = Cardinality(L) - 1
      BY <1>2, FS_RemoveElement
    <3>4. Cardinality(K) <= Cardinality(L) - 1 BY <3>2, <3>3, FS_Subset
    <3> QED BY <1>2, <1>5, <1>6, <3>4, SettingsAssumption
  <2>2. CASE Cardinality(L) < MaxTemplates
    BY <1>5, <1>6, <2>2, SettingsAssumption
  <2> QED BY <1>1, <2>1, <2>2
<1>8. new.activeLogTemplate \in StoredIds(new) \union {NoId}
  <2>1. \A o \in L : \E n \in K \union {t} : n.id = o.id OBVIOUS
  <2>2. st.activeLogTemplate \in StoredIds(st) \union {NoId} BY DEF SoundTemplates
  <2> QED BY <1>3, <2>1, <2>2 DEF StoredIds
<1> HIDE DEF K, L
<1> QED BY <1>3, <1>4, <1>6, <1>7, <1>8 DEF SoundTemplates

\* Deleting a template takes the selection with it.
LEMMA DeleteSound ==
    ASSUME NEW st \in SettingsType, SoundTemplates(st), NEW id \in Ids,
           NEW new \in Deletes(st, id)
    PROVE  new \in SettingsType /\ SoundTemplates(new)
<1> DEFINE L == st.logTemplates
           K == {o \in L : o.id # id}
<1>1. new = [st EXCEPT !.logTemplates = {o \in @ : o.id # id},
                       !.activeLogTemplate = IF @ = id THEN NoId ELSE @]
  BY DEF Deletes
<1>2. /\ new \in SettingsType
      /\ new.logTemplates = K
      /\ new.activeLogTemplate =
            IF st.activeLogTemplate = id THEN NoId ELSE st.activeLogTemplate
  BY <1>1 DEF SettingsType
<1>3. IsFiniteSet(K) /\ Cardinality(K) <= MaxTemplates
  <2>1. K \in SUBSET L /\ IsFiniteSet(L) /\ Cardinality(L) <= MaxTemplates
    BY DEF SoundTemplates
  <2>2. IsFiniteSet(K) /\ Cardinality(K) <= Cardinality(L) BY <2>1, FS_Subset
  <2>3. Cardinality(K) \in Nat /\ Cardinality(L) \in Nat
    BY <2>1, <2>2, FS_CardinalityType
  <2> QED BY <2>1, <2>2, <2>3, SettingsAssumption
<1>4. new.activeLogTemplate \in StoredIds(new) \union {NoId}
  BY <1>2 DEF SoundTemplates, StoredIds
<1>5. \A s, t \in K : s.id = t.id \/ Fold[s.name] = Fold[t.name] => s = t
  BY DEF SoundTemplates
<1> HIDE DEF K, L
<1> QED BY <1>2, <1>3, <1>4, <1>5 DEF SoundTemplates

LEMMA MutationSound ==
    ASSUME NEW r \in Requests, NEW st \in SettingsType, SoundTemplates(st),
           NEW new \in Mutations(r, st)
    PROVE  new \in SettingsType /\ SoundTemplates(new)
<1>1. CASE /\ new \in SettingsType
           /\ new.logTemplates = st.logTemplates
           /\ new.activeLogTemplate = st.activeLogTemplate
  BY <1>1 DEF SoundTemplates, StoredIds
<1>2. CASE \E d \in Drafts : new \in Upserts(st, d) BY <1>2, UpsertSound
<1>3. CASE \E id \in Ids : new \in Deletes(st, id) BY <1>3, DeleteSound
<1>4. CASE \E id \in Ids \union {NoId} : new \in Activates(st, id)
  <2>1. PICK id \in Ids \union {NoId} : new \in Activates(st, id) BY <1>4
  <2>2. /\ new = [st EXCEPT !.activeLogTemplate = id]
        /\ id \in StoredIds(st) \union {NoId}
    BY <2>1 DEF Activates
  <2>3. /\ new \in SettingsType
        /\ new.logTemplates = st.logTemplates
        /\ new.activeLogTemplate = id
    BY <2>2 DEF SettingsType
  <2> QED BY <2>2, <2>3 DEF SoundTemplates, StoredIds
<1> QED BY <1>1, <1>2, <1>3, <1>4, MutationCases

-----------------------------------------------------------------------------
\* The inductive invariant.

LEMMA InitInv == Init => IInv
<1> SUFFICES ASSUME Init PROVE IInv
  OBVIOUS
<1>1. NoRequest \in Requests BY DEF NoRequest, Requests, PlainRequests
<1>2. TypeOK BY <1>1, ZeroSound, SettingsAssumption DEF Init, TypeOK
<1>3. TemplatesSound BY ZeroSound DEF Init, TemplatesSound
<1> QED
  BY <1>2, <1>3 DEF Init, IInv, CrashKeepsFileWhole, CycleIsLocked, UnusableReadsZero

\* What a load yields is sound, and it is the current settings unless the
\* reader is blind.
LEMMA LoadSound ==
    ASSUME IInv, NEW k \in Calls, NEW st \in {stored, Zero}, Load(k, st)
    PROVE  /\ st \in SettingsType /\ SoundTemplates(st)
           /\ k \in blind' \/ st = stored
           /\ \A l \in Calls \ {k} : l \in blind' <=> l \in blind
           /\ disk' \in {"absent", "whole", "corrupt"}
           /\ disk' = "corrupt" => disk = "corrupt"
           /\ disk' # "whole" => disk # "whole"
           /\ blind' \subseteq Calls
           /\ faults' \in 0..MaxFaults /\ faults' >= faults
<1> USE DEF IInv, TypeOK, UnusableReadsZero, TemplatesSound
<1>1. st \in SettingsType /\ SoundTemplates(st) BY ZeroSound
<1>2. CASE LoadGood(k, st) BY <1>1, <1>2 DEF LoadGood
<1>3. CASE LoadCorrupt(k, st) BY <1>1, <1>3 DEF LoadCorrupt
<1>4. CASE LoadFails(k, st) BY <1>1, <1>4, SettingsAssumption DEF LoadFails
<1> QED BY <1>2, <1>3, <1>4 DEF Load

\* A call that returns, with the lock released, disturbs no other cycle.
LEMMA RestIdle ==
    ASSUME IInv, NEW k \in Calls, Return(k), UNCHANGED stored,
           \A l \in Calls \ {k} : l \in blind' <=> l \in blind,
           holder' = holder \/ holder = k
    PROVE  CycleIsLocked'
<1> USE DEF IInv, TypeOK
<1>1. pc'[k] = "idle" BY DEF Return
<1>2. ASSUME NEW l \in Calls, l # k, pc'[l] \in {"loaded", "written"}
      PROVE  /\ holder' = l
             /\ SoundTemplates(work'[l])
             /\ l \in blind' \/ work'[l] \in Mutations(req'[l], stored')
  <2>1. pc[l] = pc'[l] /\ work'[l] = work[l] /\ req'[l] = req[l] BY <1>2 DEF Return
  <2>2. holder = l /\ SoundTemplates(work[l])
        /\ (l \in blind \/ work[l] \in Mutations(req[l], stored))
    BY <1>2, <2>1 DEF CycleIsLocked
  <2> QED BY <1>2, <2>1, <2>2
<1> QED BY <1>1, <1>2 DEF CycleIsLocked

LEMMA ReturnTypes ==
    ASSUME IInv, NEW k \in Calls, Return(k)
    PROVE  /\ pc' \in [Calls -> {"idle", "gate", "waiting", "loaded", "written"}]
           /\ req' \in [Calls -> Requests]
           /\ work' \in [Calls -> SettingsType]
<1>1. NoRequest \in Requests BY DEF NoRequest, Requests, PlainRequests
<1> QED BY <1>1, ZeroSound DEF Return, IInv, TypeOK

LEMMA NextInv == IInv /\ [Next]_vars => IInv'
<1> SUFFICES ASSUME IInv, [Next]_vars PROVE IInv'
  OBVIOUS
<1> USE DEF IInv
<1>1. ASSUME NEW k \in Calls, Call(k) PROVE IInv'
  <2>1. PICK r \in Requests :
          /\ req' = [req EXCEPT ![k] = r]
          /\ pc' = [pc EXCEPT ![k] = IF r \in GatedRequests THEN "gate" ELSE "waiting"]
    BY <1>1 DEF Call
  <2>2. UNCHANGED <<disk, stored, holder, work, blind, faults>> BY <1>1 DEF Call
  <2>3. TypeOK' BY <2>1, <2>2 DEF TypeOK
  <2>4. CycleIsLocked'
    <3> SUFFICES ASSUME NEW l \in Calls, pc'[l] \in {"loaded", "written"}
                 PROVE  /\ holder' = l
                        /\ SoundTemplates(work'[l])
                        /\ l \in blind' \/ work'[l] \in Mutations(req'[l], stored')
      BY DEF CycleIsLocked
    <3>1. l # k /\ pc[l] = pc'[l] /\ req'[l] = req[l] BY <2>1 DEF TypeOK
    <3>2. holder = l /\ SoundTemplates(work[l])
          /\ (l \in blind \/ work[l] \in Mutations(req[l], stored))
      BY <3>1 DEF CycleIsLocked
    <3> QED BY <2>2, <3>1, <3>2
  <2> QED BY <2>2, <2>3, <2>4 DEF TemplatesSound, CrashKeepsFileWhole, UnusableReadsZero
<1>2. ASSUME NEW k \in Calls, Gate(k) PROVE IInv'
  <2>1. PICK st \in {stored, Zero} :
          /\ Load(k, st)
          /\ \/ pc' = [pc EXCEPT ![k] = "waiting"] /\ UNCHANGED <<req, work>>
             \/ Return(k)
    BY <1>2 DEF Gate
  <2>2. UNCHANGED <<stored, holder>> /\ pc[k] = "gate" BY <1>2 DEF Gate
  <2>3. TypeOK' BY <2>1, <2>2, LoadSound, ReturnTypes DEF TypeOK
  <2>4. CycleIsLocked'
    <3>1. CASE Return(k) BY <2>1, <2>2, <3>1, LoadSound, RestIdle
    <3>2. CASE pc' = [pc EXCEPT ![k] = "waiting"] /\ UNCHANGED <<req, work>>
      BY <2>1, <2>2, <3>2, LoadSound DEF CycleIsLocked, TypeOK
    <3> QED BY <2>1, <3>1, <3>2
  <2>5. CrashKeepsFileWhole' /\ UnusableReadsZero'
    BY <2>1, <2>2, LoadSound DEF CrashKeepsFileWhole, UnusableReadsZero, TypeOK
  <2> QED BY <2>2, <2>3, <2>4, <2>5 DEF TemplatesSound
<1>3. ASSUME NEW k \in Calls, Mutate(k) PROVE IInv'
  <2>1. PICK st \in {stored, Zero} :
          /\ Load(k, st)
          /\ \E new \in Mutations(req[k], st) : work' = [work EXCEPT ![k] = new]
    BY <1>3 DEF Mutate
  <2>2. PICK new \in Mutations(req[k], st) : work' = [work EXCEPT ![k] = new] BY <2>1
  <2>3. /\ UNCHANGED <<stored, req>> /\ holder = NoCall /\ holder' = k
        /\ pc' = [pc EXCEPT ![k] = "loaded"]
    BY <1>3 DEF Mutate
  <2>4. st \in SettingsType /\ SoundTemplates(st) /\ (k \in blind' \/ st = stored)
    BY <2>1, LoadSound
  <2>5. new \in SettingsType /\ SoundTemplates(new)
    BY <2>2, <2>4, MutationSound DEF TypeOK
  <2>6. TypeOK' BY <2>1, <2>2, <2>3, <2>5, LoadSound DEF TypeOK
  <2>7. CycleIsLocked'
    <3> SUFFICES ASSUME NEW l \in Calls, pc'[l] \in {"loaded", "written"}
                 PROVE  /\ holder' = l
                        /\ SoundTemplates(work'[l])
                        /\ l \in blind' \/ work'[l] \in Mutations(req'[l], stored')
      BY DEF CycleIsLocked
    <3>1. CASE l = k BY <2>2, <2>3, <2>4, <2>5, <3>1 DEF TypeOK
    <3>2. CASE l # k
      BY <2>3, <3>2, SettingsAssumption DEF CycleIsLocked, TypeOK
    <3> QED BY <3>1, <3>2
  <2>8. CrashKeepsFileWhole' /\ UnusableReadsZero'
    BY <2>1, <2>3, LoadSound DEF CrashKeepsFileWhole, UnusableReadsZero, TypeOK
  <2> QED BY <2>3, <2>6, <2>7, <2>8 DEF TemplatesSound
<1>4. ASSUME NEW k \in Calls, RefuseMutation(k) PROVE IInv'
  <2>1. PICK st \in {stored, Zero} : Load(k, st) BY <1>4 DEF RefuseMutation
  <2>2. UNCHANGED <<stored, holder>> /\ Return(k) BY <1>4 DEF RefuseMutation
  <2>3. TypeOK' BY <2>1, <2>2, LoadSound, ReturnTypes DEF TypeOK
  <2>4. CycleIsLocked' BY <2>1, <2>2, LoadSound, RestIdle
  <2>5. CrashKeepsFileWhole' /\ UnusableReadsZero'
    BY <2>1, <2>2, LoadSound DEF CrashKeepsFileWhole, UnusableReadsZero, TypeOK
  <2> QED BY <2>2, <2>3, <2>4, <2>5 DEF TemplatesSound
<1>5. ASSUME NEW k \in Calls, WriteTemp(k) PROVE IInv'
  <2>1. /\ pc[k] = "loaded" /\ pc' = [pc EXCEPT ![k] = "written"]
        /\ UNCHANGED <<disk, stored, holder, req, work, blind, faults>>
    BY <1>5 DEF WriteTemp
  <2>2. TypeOK' BY <2>1 DEF TypeOK
  <2>3. \A l \in Calls : pc'[l] \in {"loaded", "written"} => pc[l] \in {"loaded", "written"}
    BY <2>1 DEF TypeOK
  <2>4. CycleIsLocked' BY <2>1, <2>3 DEF CycleIsLocked
  <2> QED BY <2>1, <2>2, <2>4 DEF TemplatesSound, CrashKeepsFileWhole, UnusableReadsZero
<1>6. ASSUME NEW k \in Calls, Rename(k) PROVE IInv'
  <2>1. /\ pc[k] = "written" /\ disk' = "whole" /\ stored' = work[k] /\ Return(k)
        /\ blind' = blind \ {k} /\ UNCHANGED faults /\ holder' = NoCall
    BY <1>6 DEF Rename
  <2>2. holder = k /\ SoundTemplates(work[k]) BY <2>1 DEF CycleIsLocked
  <2>3. TypeOK' BY <2>1, ReturnTypes DEF TypeOK
  <2>4. \A l \in Calls : pc'[l] \notin {"loaded", "written"}
    <3> SUFFICES ASSUME NEW l \in Calls, pc'[l] \in {"loaded", "written"} PROVE FALSE
      OBVIOUS
    <3>1. l # k /\ pc[l] = pc'[l] BY <2>1 DEF Return, TypeOK
    <3>2. holder = l BY <3>1 DEF CycleIsLocked
    <3> QED BY <2>2, <3>1, <3>2
  <2>5. CycleIsLocked' BY <2>4 DEF CycleIsLocked
  <2> QED BY <2>1, <2>2, <2>3, <2>5 DEF TemplatesSound, CrashKeepsFileWhole, UnusableReadsZero
<1>7. ASSUME NEW k \in Calls, SaveFails(k) PROVE IInv'
  <2>1. /\ pc[k] \in {"loaded", "written"} /\ Return(k) /\ blind' = blind \ {k}
        /\ holder' = NoCall /\ UNCHANGED <<disk, stored, faults>>
    BY <1>7 DEF SaveFails
  <2>2. holder = k BY <2>1 DEF CycleIsLocked
  <2>3. TypeOK' BY <2>1, ReturnTypes DEF TypeOK
  <2>4. CycleIsLocked' BY <2>1, <2>2, RestIdle
  <2> QED BY <2>1, <2>3, <2>4 DEF TemplatesSound, CrashKeepsFileWhole, UnusableReadsZero
<1>8. ASSUME Crash \/ PowerLoss PROVE IInv'
  <2>1. NoRequest \in Requests BY DEF NoRequest, Requests, PlainRequests
  <2>2. Restart BY <1>8 DEF Crash, PowerLoss
  <2>3. CASE Crash
    <3>1. UNCHANGED <<disk, stored, faults>> BY <2>3 DEF Crash
    <3>2. TypeOK' BY <2>1, <2>2, <3>1, ZeroSound DEF TypeOK, Restart
    <3>3. CycleIsLocked' BY <2>2 DEF CycleIsLocked, Restart
    <3> QED BY <3>1, <3>2, <3>3 DEF TemplatesSound, CrashKeepsFileWhole, UnusableReadsZero
  <2>4. CASE PowerLoss
    <3>1. faults' = faults + 1 /\ faults < MaxFaults /\ disk' = "corrupt" /\ stored' = Zero
      BY <2>4 DEF PowerLoss
    <3>2. TypeOK'
      BY <2>1, <2>2, <3>1, ZeroSound, SettingsAssumption DEF TypeOK, Restart
    <3>3. CycleIsLocked' BY <2>2 DEF CycleIsLocked, Restart
    <3>4. CrashKeepsFileWhole' BY <3>1, SettingsAssumption DEF CrashKeepsFileWhole, TypeOK
    <3> QED BY <3>1, <3>2, <3>3, <3>4, ZeroSound DEF TemplatesSound, UnusableReadsZero
  <2> QED BY <1>8, <2>3, <2>4
<1>9. CASE UNCHANGED vars
  BY <1>9 DEF vars, TypeOK, TemplatesSound, CrashKeepsFileWhole, CycleIsLocked,
              UnusableReadsZero
<1> QED BY <1>1, <1>2, <1>3, <1>4, <1>5, <1>6, <1>7, <1>8, <1>9 DEF Next, Step

THEOREM InvHolds == Spec => []IInv
<1> QED BY InitInv, NextInv, PTL DEF Spec

\* Every reachable state of the settings is well-typed.
THEOREM TypeCorrect == Spec => []TypeOK
<1>1. IInv => TypeOK BY DEF IInv
<1> QED BY <1>1, InvHolds, PTL

\* Template ids and folded names stay unique, their number bounded and the
\* selection valid, for any number of racing calls, crashes and power losses.
THEOREM TemplatesSoundHolds == Spec => []TemplatesSound
<1>1. IInv => TemplatesSound BY DEF IInv
<1> QED BY <1>1, InvHolds, PTL

\* Only a power loss makes settings.json unreadable.
THEOREM CrashKeepsFileWholeHolds == Spec => []CrashKeepsFileWhole
<1>1. IInv => CrashKeepsFileWhole BY DEF IInv
<1> QED BY <1>1, InvHolds, PTL

\* No update is lost: what replaces the settings is a request applied to the
\* settings it replaces, unless that call failed to read them.
THEOREM NoUpdateLostHolds == Spec => NoUpdateLost
<1> DEFINE Kept ==
      stored' # stored /\ disk' = "whole" =>
        \E k \in Calls :
           pc[k] = "written" /\ (k \in blind \/ stored' \in Mutations(req[k], stored))
<1>1. ASSUME IInv, Next PROVE Kept
  <2> SUFFICES ASSUME stored' # stored, disk' = "whole"
               PROVE  \E k \in Calls : pc[k] = "written"
                        /\ (k \in blind \/ stored' \in Mutations(req[k], stored))
    OBVIOUS
  <2>1. PICK k \in Calls : Rename(k)
    <3>1. ~PowerLoss BY DEF PowerLoss
    <3> QED
      BY <1>1, <3>1 DEF Next, Step, Call, Gate, Mutate, RefuseMutation, WriteTemp,
                        SaveFails, Crash
  <2>2. pc[k] = "written" /\ stored' = work[k] BY <2>1 DEF Rename
  <2> QED BY <1>1, <2>2 DEF IInv, CycleIsLocked
<1>2. IInv /\ [Next]_vars => [Kept]_vars BY <1>1 DEF vars
<1> QED BY <1>2, InvHolds, PTL DEF Spec, NoUpdateLost
-----------------------------------------------------------------------------
(***************************************************************************)
(* The log.  What bounds a file when writers share it is that the size a   *)
(* writer reckons with is at least what it has put there itself, by this   *)
(* handle or by an earlier one: open asks for the size of the file, and    *)
(* only the file it opens right after its own rotation, in which it has    *)
(* nothing, does it use without comparing.  A writer alone reckons with    *)
(* the true size.                                                          *)
(***************************************************************************)
Places == {"nowhere", "file", "backup", "unlinked"}
WriterRecords ==
    [pc : {"off", "idle", "open", "close", "remove", "rename", "fresh", "again", "append"},
     at : Places, size : Nat, line : Lengths \union {0}, failed : BOOLEAN]

LogTypes ==
    /\ file \in Files \union {None} /\ backup \in Files \union {None}
    /\ writer \in [Writers -> WriterRecords]
    /\ logged \in Nat /\ shared \in BOOLEAN

\* What a writer has put into the file its handle leads to.
Share(w) ==
    IF writer[w].at = "file" THEN file.by[w]
    ELSE IF writer[w].at = "backup" THEN backup.by[w] ELSE 0

\* A writer that runs alone: its handle leads to the log, of which it knows the
\* size; it rotates a file that is full, and uses an empty one after it.
KnowsItsFile(w) ==
    LET x == writer[w] IN
    /\ x.at \in {"nowhere", "file"}
    /\ x.at = "file" => x.size = file.bytes
    /\ x.pc \in {"close", "append"} => x.at = "file"
    /\ x.pc \in {"close", "remove", "rename"} => file # None /\ file.bytes + x.line > MaxSize
    /\ x.pc = "fresh" => file = None
    /\ x.pc = "append" /\ ~x.failed =>
          x.size + x.line <= MaxSize \/ (file.bytes = 0 /\ file.extra = 0)

WriterSound(w) ==
    LET x == writer[w] IN
    /\ x.pc \notin {"off", "idle"} => x.line \in Lengths
    /\ x.at = "file" => file # None
    /\ x.at = "backup" => backup # None
    /\ x.pc \in {"off", "open", "remove", "rename", "fresh", "again"} => x.at = "nowhere"
    /\ x.failed => x.pc = "append"
    /\ Share(w) <= x.size
    /\ x.pc = "append" /\ ~x.failed => x.size + x.line <= MaxSize \/ Share(w) = 0
    /\ x.pc = "fresh" /\ file # None => file.by[w] = 0
    /\ ~shared => KnowsItsFile(w)

\* While the log is not shared one writer runs.
OneRuns ==
    ~shared => \A v, w \in Writers : v # w => writer[v].pc = "off" \/ writer[w].pc = "off"

SharesCount == \A f \in {file, backup} \ {None} : \A w \in Writers : f.by[w] <= f.bytes

LogInv ==
    /\ LogTypes
    /\ \A w \in Writers : WriterSound(w)
    /\ OneRuns
    /\ SharesCount
    /\ DiskBounded
    /\ NewestKept
-----------------------------------------------------------------------------
\* A file that is opened is the one that was there, or an empty one.
LEMMA OpenedIsFile ==
    ASSUME LogTypes
    PROVE  /\ OpenedFile \in Files /\ OpenedFile # None
           /\ OpenedFile.bytes = Bytes(file) /\ Lines(OpenedFile) = Lines(file)
           /\ file # None => OpenedFile = file
           /\ file = None => /\ OpenedFile.bytes = 0 /\ OpenedFile.extra = 0
                             /\ \A w \in Writers : OpenedFile.by[w] = 0
<1>1. NoLines \in Files BY DEF NoLines, Files
<1>2. NoLines # None BY <1>1, LogAssumption
<1> QED BY <1>1, <1>2 DEF OpenedFile, Bytes, Lines, LogTypes, NoLines

LEMMA LogInitially == LogInit => LogInv
<1> SUFFICES ASSUME LogInit PROVE LogInv
  OBVIOUS
<1>1. /\ Off \in WriterRecords /\ Off.pc = "off" /\ Off.at = "nowhere" /\ Off.size = 0
      /\ ~Off.failed
  BY DEF Off, WriterRecords, Places
<1>2. writer \in [Writers -> WriterRecords] /\ \A w \in Writers : writer[w] = Off
  BY <1>1 DEF LogInit
<1>3. LogTypes BY <1>2 DEF LogInit, LogTypes
<1>4. \A w \in Writers : WriterSound(w)
  BY <1>1, <1>2 DEF LogInit, WriterSound, KnowsItsFile, Share
<1>5. OneRuns BY <1>1, <1>2 DEF OneRuns
<1>6. SharesCount /\ DiskBounded BY DEF LogInit, SharesCount, DiskBounded
<1>7. NewestKept
  <2>1. OnDisk = <<>> \o <<>> BY DEF LogInit, OnDisk, Lines
  <2>2. Len(OnDisk) = 0 BY <2>1
  <2> QED BY <2>2 DEF LogInit, NewestKept
<1> QED BY <1>3, <1>4, <1>5, <1>6, <1>7 DEF LogInv

\* One writer moves and the files stay as they are.
LEMMA WriterMoves ==
    ASSUME LogInv, NEW w \in Writers, NEW x \in WriterRecords,
           writer' = [writer EXCEPT ![w] = x], UNCHANGED <<file, backup, logged, shared>>,
           x.pc # "off" => writer[w].pc # "off",
           WriterSound(w)'
    PROVE  LogInv'
<1>1. /\ writer' \in [Writers -> WriterRecords] /\ writer'[w] = x
      /\ \A v \in Writers \ {w} : writer'[v] = writer[v]
  BY DEF LogInv, LogTypes
<1>2. LogTypes' BY <1>1 DEF LogInv, LogTypes
<1>3. \A v \in Writers \ {w} : WriterSound(v)'
  BY <1>1 DEF LogInv, WriterSound, KnowsItsFile, Share
<1>4. OneRuns' BY <1>1 DEF LogInv, OneRuns
<1>5. SharesCount' /\ DiskBounded' BY DEF LogInv, SharesCount, DiskBounded
<1>6. NewestKept' BY DEF LogInv, NewestKept, OnDisk, Lines, Bytes
<1> QED BY <1>2, <1>3, <1>4, <1>5, <1>6 DEF LogInv

\* A writer opens the file: to start, for a line, or to go on after a rotation.
LEMMA WriterOpens ==
    ASSUME LogInv, NEW w \in Writers, NEW x \in WriterRecords,
           writer' = [writer EXCEPT ![w] = x], file' = OpenedFile, UNCHANGED <<backup, logged>>,
           \/ shared' = shared /\ writer[w].pc # "off"
           \/ shared' = (shared \/ \E v \in Writers \ {w} : writer[v].pc # "off"),
           x.at = "file", x.size = Bytes(file), x.pc \in {"idle", "append", "close"},
           x.pc # "idle" => x.line \in Lengths,
           x.failed => x.pc = "append",
           x.pc = "close" => x.size + x.line > MaxSize,
           x.pc = "append" /\ ~x.failed => x.size + x.line <= MaxSize \/ writer[w].pc = "fresh"
    PROVE  LogInv'
<1>0. LogTypes BY DEF LogInv
<1>1. /\ writer' \in [Writers -> WriterRecords] /\ writer'[w] = x
      /\ \A v \in Writers \ {w} : writer'[v] = writer[v]
  BY <1>0 DEF LogTypes
<1>2. /\ file' \in Files /\ file' # None
      /\ file'.bytes = Bytes(file) /\ Lines(file') = Lines(file)
      /\ file # None => file' = file
      /\ file = None => /\ file'.bytes = 0 /\ file'.extra = 0
                        /\ \A v \in Writers : file'.by[v] = 0
  BY <1>0, OpenedIsFile
<1>3. shared' \in BOOLEAN /\ (shared => shared') BY <1>0 DEF LogTypes
<1>4. LogTypes' BY <1>0, <1>1, <1>2, <1>3 DEF LogTypes
<1>5. OneRuns' BY <1>1, <1>3 DEF LogInv, OneRuns
<1>6. SharesCount'
  <2>1. \A v \in Writers : file'.by[v] <= file'.bytes BY <1>2 DEF LogInv, SharesCount
  <2> QED BY <2>1 DEF LogInv, SharesCount
<1>7. DiskBounded'
  <2>1. CASE file = None
    <3>1. Fits(0) BY LogAssumption DEF Fits
    <3>2. /\ \A v \in Writers : Fits(file'.by[v])
          /\ \E bytes \in 0..file'.bytes : Fits(bytes) /\ file'.bytes = bytes + file'.extra
      BY <1>2, <2>1, <3>1
    <3> QED BY <1>3, <3>2 DEF LogInv, DiskBounded, Fits
  <2>2. CASE file # None BY <1>2, <1>3, <2>2 DEF LogInv, DiskBounded
  <2> QED BY <2>1, <2>2
<1>8. NewestKept'
  <2>1. OnDisk' = OnDisk BY <1>2 DEF OnDisk, Lines
  <2>2. Bytes(file)' = Bytes(file) /\ Bytes(backup)' = Bytes(backup) BY <1>2 DEF Bytes
  <2> QED BY <1>3, <2>1, <2>2 DEF LogInv, NewestKept
<1>9. WriterSound(w)'
  <2>0. WriterSound(w) /\ MaxSize \in Nat BY LogAssumption DEF LogInv
  <2>1. Share(w)' = file'.by[w] BY <1>1 DEF Share
  <2>2. file'.by[w] <= x.size BY <1>2, <1>6 DEF SharesCount
  <2>3. writer[w].pc = "fresh" => file'.by[w] = 0 BY <1>2, <2>0 DEF WriterSound
  <2>4. ASSUME ~shared' PROVE KnowsItsFile(w)'
    <3>1. writer[w].pc = "fresh" => file = None
      BY <1>3, <2>0, <2>4 DEF WriterSound, KnowsItsFile
    <3>2. /\ x.size = file'.bytes /\ x.size \in Nat
          /\ x.pc \in {"close", "append"} => x.line \in Nat
      BY <1>2, LogAssumption DEF WriterRecords, Files
    <3> QED BY <1>1, <1>2, <3>1, <3>2 DEF KnowsItsFile
  <2> QED BY <1>1, <1>2, <2>1, <2>2, <2>3, <2>4 DEF WriterSound
<1>10. ASSUME NEW v \in Writers \ {w} PROVE WriterSound(v)'
  <2>1. WriterSound(v) BY DEF LogInv
  <2>2. CASE shared'
    <3>1. Share(v)' = Share(v) BY <1>1, <1>2, <2>1 DEF Share, WriterSound
    <3> QED BY <1>1, <1>2, <2>1, <2>2, <3>1 DEF WriterSound
  <2>3. CASE ~shared'
    <3>1. writer[v].pc = "off"
      <4>1. CASE shared' = shared /\ writer[w].pc # "off"
        BY <2>3, <4>1 DEF LogInv, OneRuns
      <4>2. CASE shared' = (shared \/ \E u \in Writers \ {w} : writer[u].pc # "off")
        BY <2>3, <4>2
      <4> QED BY <4>1, <4>2
    <3>2. writer'[v] = writer[v] /\ writer[v].at = "nowhere" BY <1>1, <2>1, <3>1 DEF WriterSound
    <3>3. Share(v)' = 0 /\ Share(v) = 0 BY <3>2 DEF Share
    <3> QED BY <2>1, <3>1, <3>2, <3>3 DEF WriterSound, KnowsItsFile
  <2> QED BY <2>2, <2>3
<1> QED BY <1>4, <1>5, <1>6, <1>7, <1>8, <1>9, <1>10 DEF LogInv

\* The end of a list of lines that are numbered up to n is numbered up to n.
LEMMA Newest ==
    ASSUME NEW old \in Seq(Nat), NEW new \in Seq(Nat), NEW n \in Nat,
           \A i \in 1..Len(old \o new) : (old \o new)[i] = n - Len(old \o new) + i
    PROVE  \A i \in 1..Len(new) : new[i] = n - Len(new) + i
<1> SUFFICES ASSUME NEW i \in 1..Len(new) PROVE new[i] = n - Len(new) + i
  OBVIOUS
<1>1. Len(old \o new) = Len(old) + Len(new) OBVIOUS
<1>2. Len(old) + i \in 1..Len(old \o new) /\ (old \o new)[Len(old) + i] = new[i]
  BY <1>1
<1>3. new[i] = n - Len(old \o new) + (Len(old) + i) BY <1>2
<1>4. Len(old) \in Nat /\ Len(new) \in Nat OBVIOUS
<1> QED BY <1>1, <1>3, <1>4

\* The line that is appended carries on the numbers.
LEMMA OneMore ==
    ASSUME NEW old \in Seq(Nat), NEW new \in Seq(Nat), NEW n \in Nat,
           \A i \in 1..Len(old \o new) : (old \o new)[i] = n - Len(old \o new) + i
    PROVE  /\ Len(old \o (new \o <<n + 1>>)) = Len(old \o new) + 1
           /\ \A i \in 1..Len(old \o (new \o <<n + 1>>)) :
                 (old \o (new \o <<n + 1>>))[i] = n - Len(old \o new) + i
<1>1. Len(old \o (new \o <<n + 1>>)) = Len(old \o new) + 1
  OBVIOUS
<1>2. \A i \in 1..Len(old \o new) : (old \o (new \o <<n + 1>>))[i] = (old \o new)[i]
  OBVIOUS
<1>3. (old \o (new \o <<n + 1>>))[Len(old \o new) + 1] = n + 1
  OBVIOUS
<1>4. Len(old \o new) \in Nat OBVIOUS
<1> SUFFICES ASSUME NEW i \in 1..Len(old \o new) + 1
             PROVE  (old \o (new \o <<n + 1>>))[i] = n - Len(old \o new) + i
  BY <1>1
<1>5. CASE i \in 1..Len(old \o new) BY <1>2, <1>5
<1>6. CASE i = Len(old \o new) + 1 BY <1>3, <1>4, <1>6
<1> QED BY <1>4, <1>5, <1>6

\* The backup is removed, or what was the log takes its place; the handles
\* follow.  NewestKept loses the lines of the backup only when the file is full.
LEMMA KeepRemoved == \A w \in Writers : LogInv /\ RemoveBackup(w) => LogInv'
<1> SUFFICES ASSUME NEW w \in Writers, LogInv, RemoveBackup(w) PROVE LogInv'
  OBVIOUS
<1>0. /\ LogTypes /\ WriterSound(w) /\ writer[w].pc = "remove" /\ writer[w] \in WriterRecords
      /\ UNCHANGED <<file, logged, shared>>
  BY DEF RemoveBackup, LogInv, LogTypes
<1>1. CASE backup' = backup /\ Goto(w, "rename")
  <2> DEFINE x == [writer[w] EXCEPT !.pc = "rename"]
  <2>1. writer' = [writer EXCEPT ![w] = x] BY <1>0, <1>1 DEF Goto, LogTypes
  <2>2. /\ x \in WriterRecords /\ x.pc = "rename" /\ x.at = writer[w].at
        /\ x.size = writer[w].size /\ x.line = writer[w].line /\ x.failed = writer[w].failed
    BY <1>0 DEF WriterRecords
  <2> HIDE DEF x
  <2>3. writer'[w] = x BY <1>0, <2>1 DEF LogTypes
  <2>4. WriterSound(w)'
    BY <1>0, <1>1, <2>2, <2>3 DEF WriterSound, KnowsItsFile, Share
  <2> QED BY <1>0, <1>1, <2>1, <2>2, <2>4, WriterMoves
<1>2. CASE /\ backup' = None
           /\ writer' = [v \in Writers |->
                 [writer[v] EXCEPT !.at = Moved(@, "backup", "unlinked"),
                                   !.pc = IF v = w THEN "rename" ELSE @]]
  <2> DEFINE y(v) == [writer[v] EXCEPT !.at = Moved(@, "backup", "unlinked"),
                                       !.pc = IF v = w THEN "rename" ELSE @]
             at(v) == IF writer[v].at = "backup" THEN "unlinked" ELSE writer[v].at
  <2>1. ASSUME NEW v \in Writers
        PROVE  /\ y(v) \in WriterRecords /\ y(v).at = at(v)
               /\ y(v).pc = (IF v = w THEN "rename" ELSE writer[v].pc)
               /\ y(v).size = writer[v].size /\ y(v).line = writer[v].line
               /\ y(v).failed = writer[v].failed
    BY <1>0 DEF LogTypes, WriterRecords, Moved, Places
  <2>2. /\ writer' \in [Writers -> WriterRecords]
        /\ \A v \in Writers :
              /\ writer'[v].at = at(v)
              /\ writer'[v].pc = (IF v = w THEN "rename" ELSE writer[v].pc)
              /\ writer'[v].size = writer[v].size /\ writer'[v].line = writer[v].line
              /\ writer'[v].failed = writer[v].failed
    <3>1. writer' = [v \in Writers |-> y(v)] BY <1>2
    <3> HIDE DEF y, at
    <3> QED BY <2>1, <3>1
  <2> HIDE DEF y
  <2>3. LogTypes' BY <1>0, <1>2, <2>2 DEF LogTypes
  <2>4. ASSUME NEW v \in Writers PROVE WriterSound(v)'
    <3>1. WriterSound(v) /\ writer[v].size \in Nat BY <1>0 DEF LogInv, LogTypes, WriterRecords
    <3>2. Share(v)' = Share(v) \/ Share(v)' = 0 BY <1>0, <2>2 DEF Share
    <3>3. ~shared => KnowsItsFile(v)'
      BY <1>0, <2>2, <3>1 DEF WriterSound, KnowsItsFile
    <3> QED BY <1>0, <2>2, <3>1, <3>2, <3>3 DEF WriterSound
  <2>5. OneRuns' BY <1>0, <2>2 DEF LogInv, OneRuns
  <2>6. SharesCount' /\ DiskBounded' BY <1>0, <1>2 DEF LogInv, SharesCount, DiskBounded
  <2>7. NewestKept'
    <3> SUFFICES ASSUME ~shared
                 PROVE  /\ \A i \in 1..Len(OnDisk') : OnDisk'[i] = logged - Len(OnDisk') + i
                        /\ \E len \in Lengths : Bytes(backup)' + Bytes(file)' + len > MaxSize
      BY <1>0 DEF NewestKept
    <3>1. Lines(backup) \in Seq(Nat) /\ Lines(file) \in Seq(Nat) /\ logged \in Nat
      BY <1>0 DEF LogTypes, Lines, Files
    <3>2. OnDisk' = <<>> \o Lines(file) BY <1>0, <1>2 DEF OnDisk, Lines
    <3>3. OnDisk' = Lines(file) BY <3>1, <3>2
    <3>4. \A i \in 1..Len(OnDisk) : OnDisk[i] = logged - Len(OnDisk) + i BY DEF LogInv, NewestKept
    <3>5. /\ file \in Files /\ file.bytes + writer[w].line > MaxSize
          /\ writer[w].line \in Lengths /\ file' # None
      BY <1>0 DEF WriterSound, KnowsItsFile, LogTypes
    <3>6. Bytes(backup)' = 0 /\ Bytes(file)' = file.bytes BY <1>0, <1>2, <3>5 DEF Bytes
    <3>7. file.bytes \in Nat /\ writer[w].line \in Nat BY <3>5, LogAssumption DEF Files
    <3>8. \A i \in 1..Len(Lines(file)) : Lines(file)[i] = logged - Len(Lines(file)) + i
      BY <3>1, <3>4, Newest DEF OnDisk
    <3> QED BY <3>3, <3>5, <3>6, <3>7, <3>8
  <2> QED BY <2>3, <2>4, <2>5, <2>6, <2>7 DEF LogInv
<1> QED BY <1>1, <1>2 DEF RemoveBackup

LEMMA KeepRenamed == \A w \in Writers : LogInv /\ RenameFile(w) => LogInv'
<1> SUFFICES ASSUME NEW w \in Writers, LogInv, RenameFile(w) PROVE LogInv'
  OBVIOUS
<1>0. /\ LogTypes /\ WriterSound(w) /\ writer[w].pc = "rename" /\ writer[w] \in WriterRecords
      /\ UNCHANGED <<logged, shared>>
  BY DEF RenameFile, LogInv, LogTypes
<1>1. ASSUME NEW next \in {"fresh", "again"}, Goto(w, next), UNCHANGED <<file, backup>>,
             next = "fresh" => file = None
      PROVE  LogInv'
  <2> DEFINE x == [writer[w] EXCEPT !.pc = next]
  <2>1. writer' = [writer EXCEPT ![w] = x] BY <1>0, <1>1 DEF Goto, LogTypes
  <2>2. /\ x \in WriterRecords /\ x.pc = next /\ x.at = writer[w].at
        /\ x.size = writer[w].size /\ x.line = writer[w].line /\ x.failed = writer[w].failed
    BY <1>0 DEF WriterRecords
  <2> HIDE DEF x
  <2>3. writer'[w] = x BY <1>0, <2>1 DEF LogTypes
  <2>4. WriterSound(w)'
    BY <1>0, <1>1, <2>2, <2>3 DEF WriterSound, KnowsItsFile, Share
  <2> QED BY <1>0, <1>1, <2>1, <2>2, <2>4, WriterMoves
<1>2. CASE /\ file # None /\ file' = None /\ backup' = file
           /\ writer' = [v \in Writers |->
                 [writer[v] EXCEPT !.at = Moved(Moved(@, "backup", "unlinked"), "file", "backup"),
                                   !.pc = IF v = w THEN "fresh" ELSE @]]
  <2>0. file # None /\ file' = None /\ backup' = file BY <1>2
  <2> DEFINE y(v) == [writer[v] EXCEPT !.at = Moved(Moved(@, "backup", "unlinked"), "file", "backup"),
                                       !.pc = IF v = w THEN "fresh" ELSE @]
             at(v) == IF writer[v].at = "backup" THEN "unlinked"
                      ELSE IF writer[v].at = "file" THEN "backup" ELSE writer[v].at
  <2>1. ASSUME NEW v \in Writers
        PROVE  /\ y(v) \in WriterRecords /\ y(v).at = at(v)
               /\ y(v).pc = (IF v = w THEN "fresh" ELSE writer[v].pc)
               /\ y(v).size = writer[v].size /\ y(v).line = writer[v].line
               /\ y(v).failed = writer[v].failed
    BY <1>0 DEF LogTypes, WriterRecords, Moved, Places
  <2>2. /\ writer' \in [Writers -> WriterRecords]
        /\ \A v \in Writers :
              /\ writer'[v].at = at(v)
              /\ writer'[v].pc = (IF v = w THEN "fresh" ELSE writer[v].pc)
              /\ writer'[v].size = writer[v].size /\ writer'[v].line = writer[v].line
              /\ writer'[v].failed = writer[v].failed
    <3>1. writer' = [v \in Writers |-> y(v)] BY <1>2
    <3> HIDE DEF y, at
    <3> QED BY <2>1, <3>1
  <2> HIDE DEF y
  <2>3. LogTypes' BY <1>0, <2>0, <2>2 DEF LogTypes
  <2>4. OneRuns' BY <1>0, <2>2 DEF LogInv, OneRuns
  <2>5. ASSUME NEW v \in Writers PROVE WriterSound(v)'
    <3>1. WriterSound(v) /\ writer[v].size \in Nat BY <1>0 DEF LogInv, LogTypes, WriterRecords
    <3>2. Share(v)' = Share(v) \/ Share(v)' = 0 BY <2>0, <2>2 DEF Share
    <3>3. ASSUME ~shared PROVE KnowsItsFile(v)'
      <4>1. v # w => writer[v].pc = "off" BY <1>0, <3>3 DEF LogInv, OneRuns
      <4>2. writer[v].at = "nowhere" BY <1>0, <3>1, <4>1 DEF WriterSound
      <4> QED BY <2>0, <2>2, <4>1, <4>2 DEF KnowsItsFile
    <3> QED BY <1>0, <2>0, <2>2, <3>1, <3>2, <3>3 DEF WriterSound
  <2>6. SharesCount' /\ DiskBounded' BY <1>0, <2>0 DEF LogInv, SharesCount, DiskBounded
  <2>7. NewestKept'
    <3> SUFFICES ASSUME ~shared
                 PROVE  /\ \A i \in 1..Len(OnDisk') : OnDisk'[i] = logged - Len(OnDisk') + i
                        /\ \E len \in Lengths : Bytes(backup)' + Bytes(file)' + len > MaxSize
      BY <1>0 DEF NewestKept
    <3>1. Lines(backup) \in Seq(Nat) /\ Lines(file) \in Seq(Nat) /\ logged \in Nat
      BY <1>0 DEF LogTypes, Lines, Files
    <3>2. OnDisk' = Lines(file) \o <<>> BY <2>0 DEF OnDisk, Lines
    <3>3. OnDisk' = Lines(file) BY <3>1, <3>2
    <3>4. \A i \in 1..Len(OnDisk) : OnDisk[i] = logged - Len(OnDisk) + i BY DEF LogInv, NewestKept
    <3>5. /\ file \in Files /\ file.bytes + writer[w].line > MaxSize
          /\ writer[w].line \in Lengths
      BY <1>0, <2>0 DEF WriterSound, KnowsItsFile, LogTypes
    <3>6. Bytes(file)' = 0 /\ Bytes(backup)' = file.bytes BY <2>0 DEF Bytes
    <3>7. file.bytes \in Nat /\ writer[w].line \in Nat BY <3>5, LogAssumption DEF Files
    <3>8. \A i \in 1..Len(Lines(file)) : Lines(file)[i] = logged - Len(Lines(file)) + i
      BY <3>1, <3>4, Newest DEF OnDisk
    <3> QED BY <3>3, <3>5, <3>6, <3>7, <3>8
  <2> QED BY <2>3, <2>4, <2>5, <2>6, <2>7 DEF LogInv
<1> QED BY <1>1, <1>2 DEF RenameFile

\* What a file holds after a writer has added to it, wherever the bytes came
\* from.
LEMMA AddedIsFile ==
    ASSUME NEW f \in Files, NEW w \in Writers, writer[w].failed \in BOOLEAN,
           NEW lines \in Seq(Nat), NEW len \in Nat
    PROVE  LET g == Added(w, f, lines, len) IN
           /\ g \in Files /\ g # None
           /\ g.lines = f.lines \o lines /\ g.bytes = f.bytes + len
           /\ g.extra = IF writer[w].failed THEN f.extra + len ELSE f.extra
           /\ g.by[w] = IF writer[w].failed THEN f.by[w] ELSE f.by[w] + len
           /\ \A v \in Writers \ {w} : g.by[v] = f.by[v]
<1> DEFINE g == Added(w, f, lines, len)
<1>1. f.lines \o lines \in Seq(Nat) BY DEF Files
<1>2. /\ g \in Files
      /\ g.lines = f.lines \o lines /\ g.bytes = f.bytes + len
      /\ g.extra = IF writer[w].failed THEN f.extra + len ELSE f.extra
      /\ g.by[w] = IF writer[w].failed THEN f.by[w] ELSE f.by[w] + len
      /\ \A v \in Writers \ {w} : g.by[v] = f.by[v]
  <2> DEFINE extra == IF writer[w].failed THEN f.extra + len ELSE f.extra
             share == IF writer[w].failed THEN f.by[w] ELSE f.by[w] + len
  <2>1. f.bytes \in Nat /\ f.extra \in Nat /\ f.by \in [Writers -> Nat] BY DEF Files
  <2>2. f.bytes + len \in Nat /\ extra \in Nat /\ share \in Nat BY <2>1
  <2>3. g = [lines |-> f.lines \o lines, bytes |-> f.bytes + len, extra |-> extra,
             by |-> [f.by EXCEPT ![w] = share]]
    BY DEF Added
  <2>4. [f.by EXCEPT ![w] = share] \in [Writers -> Nat] BY <2>1, <2>2
  <2> HIDE DEF g, extra, share
  <2>5. /\ g.by = [f.by EXCEPT ![w] = share] /\ g.lines = f.lines \o lines
        /\ g.bytes = f.bytes + len /\ g.extra = extra
    BY <2>3
  <2>6. g \in Files BY <1>1, <2>2, <2>3, <2>4 DEF Files
  <2>7. g.by[w] = share /\ \A v \in Writers \ {w} : g.by[v] = f.by[v] BY <2>1, <2>5
  <2> QED BY <2>5, <2>6, <2>7 DEF extra, share
<1> HIDE DEF g
<1> QED BY <1>2, LogAssumption DEF g

\* A writer puts a line, or a part of one, where its handle leads.
LEMMA WriterPuts ==
    ASSUME LogInv, NEW w \in Writers, writer[w].pc = "append",
           NEW lines \in Seq(Nat), NEW len \in 1..writer[w].line,
           Put(w, lines, len), shared' = shared,
           \/ lines = <<>> /\ logged' = logged
           \/ lines = <<logged + 1>> /\ logged' = logged + 1
    PROVE  LogInv'
<1> DEFINE x == [Done(writer[w]) EXCEPT !.size = @ + len]
<1>0. /\ LogTypes /\ WriterSound(w) /\ writer[w] \in WriterRecords
      /\ writer[w].line \in Lengths /\ MaxSize \in Nat
  BY LogAssumption DEF LogInv, LogTypes, WriterSound
<1>1. len \in Nat /\ len # 0 /\ writer[w].line \in Nat /\ len <= writer[w].line
  <2>1. writer[w].line \in Nat BY <1>0, LogAssumption
  <2> QED BY <2>1
<1>2. /\ x \in WriterRecords /\ x.pc = "idle" /\ x.at = writer[w].at
      /\ x.size = writer[w].size + len /\ ~x.failed
  <2> DEFINE y == Done(writer[w])
  <2>1. /\ y \in WriterRecords /\ y.pc = "idle" /\ y.at = writer[w].at
        /\ y.size = writer[w].size /\ ~y.failed
    BY <1>0 DEF Done, WriterRecords
  <2>2. x = [y EXCEPT !.size = y.size + len] OBVIOUS
  <2> HIDE DEF x, y
  <2>3. y.size + len \in Nat BY <1>1, <2>1 DEF WriterRecords
  <2> QED BY <2>1, <2>2, <2>3 DEF WriterRecords
<1>3. writer' = [writer EXCEPT ![w] = x] BY <1>0 DEF Put, LogTypes
<1> HIDE DEF x
<1>4. /\ writer' \in [Writers -> WriterRecords] /\ writer'[w] = x
      /\ \A v \in Writers \ {w} : writer'[v] = writer[v]
  BY <1>0, <1>2, <1>3 DEF LogTypes
<1>5. ASSUME NEW f \in Files
      PROVE  LET g == Added(w, f, lines, len) IN
             /\ g \in Files /\ g # None
             /\ g.lines = f.lines \o lines /\ g.bytes = f.bytes + len
             /\ g.extra = IF writer[w].failed THEN f.extra + len ELSE f.extra
             /\ g.by[w] = IF writer[w].failed THEN f.by[w] ELSE f.by[w] + len
             /\ \A v \in Writers \ {w} : g.by[v] = f.by[v]
  <2>1. writer[w].failed \in BOOLEAN BY <1>0 DEF WriterRecords
  <2> QED BY <1>1, <2>1, AddedIsFile
<1>6. /\ writer[w].at = "file" => file \in Files /\ file' = Added(w, file, lines, len)
      /\ writer[w].at # "file" => file' = file
      /\ writer[w].at = "backup" => backup \in Files /\ backup' = Added(w, backup, lines, len)
      /\ writer[w].at # "backup" => backup' = backup
  BY <1>0 DEF Put, WriterSound, LogTypes
<1>7. LogTypes'
  <2>1. logged' \in Nat /\ shared' \in BOOLEAN BY <1>0 DEF LogTypes
  <2> QED BY <1>0, <1>4, <1>5, <1>6, <2>1 DEF LogTypes
<1>8. OneRuns' BY <1>2, <1>4 DEF LogInv, OneRuns
\* What a writer may put into the file it has a handle of.
<1>9. ASSUME NEW f \in Files, Share(w) = f.by[w], Fits(f.by[w])
      PROVE  /\ Fits(Added(w, f, lines, len).by[w])
             /\ Added(w, f, lines, len).by[w] <= writer[w].size + len
  <2>1. f.by[w] \in Nat /\ writer[w].size \in Nat BY <1>0, <1>9 DEF Files, WriterRecords
  <2>2. f.by[w] <= writer[w].size BY <1>0, <1>9 DEF WriterSound
  <2>3. CASE writer[w].failed BY <1>1, <1>5, <1>9, <2>1, <2>2, <2>3
  <2>4. CASE ~writer[w].failed
    <3>1. Added(w, f, lines, len).by[w] = f.by[w] + len BY <1>5, <2>4
    <3>2. writer[w].size + writer[w].line <= MaxSize \/ f.by[w] = 0
      BY <1>0, <1>9, <2>4 DEF WriterSound
    <3>3. CASE writer[w].size + writer[w].line <= MaxSize
      <4>1. f.by[w] + len <= MaxSize BY <1>0, <1>1, <2>1, <2>2, <3>3
      <4> QED BY <1>1, <2>1, <2>2, <3>1, <4>1 DEF Fits
    <3>4. CASE f.by[w] = 0
      <4>1. f.by[w] + len <= writer[w].line BY <1>1, <3>4
      <4> QED BY <1>0, <1>1, <2>1, <2>2, <3>1, <4>1 DEF Fits
    <3> QED BY <3>2, <3>3, <3>4
  <2> QED BY <2>3, <2>4
<1>10. SharesCount'
  <2>1. ASSUME NEW f \in Files, \A v \in Writers : f.by[v] <= f.bytes
        PROVE  \A v \in Writers : Added(w, f, lines, len).by[v] <= Added(w, f, lines, len).bytes
    <3> SUFFICES ASSUME NEW v \in Writers
                 PROVE  Added(w, f, lines, len).by[v] <= Added(w, f, lines, len).bytes
      OBVIOUS
    <3>1. f.bytes \in Nat /\ f.by[v] \in Nat /\ f.by[w] \in Nat BY DEF Files
    <3>2. /\ Added(w, f, lines, len).bytes = f.bytes + len
          /\ Added(w, f, lines, len).by[v] \in {f.by[v], f.by[v] + len}
      <4>1. CASE v = w BY <1>5, <4>1
      <4>2. CASE v # w BY <1>5, <4>2
      <4> QED BY <4>1, <4>2
    <3> QED BY <1>1, <2>1, <3>1, <3>2
  <2>2. ASSUME NEW f \in {file, backup} \ {None} PROVE f \in Files /\ \A v \in Writers : f.by[v] <= f.bytes
    BY <1>0 DEF LogInv, SharesCount, LogTypes
  <2> SUFFICES ASSUME NEW f \in {file', backup'} \ {None}
               PROVE  \A v \in Writers : f.by[v] <= f.bytes
    BY DEF SharesCount
  <2>3. CASE f = file'
    <3>1. CASE writer[w].at = "file"
      <4>1. file \in {file, backup} \ {None} BY <1>0, <3>1 DEF WriterSound
      <4> QED BY <1>6, <2>1, <2>2, <2>3, <3>1, <4>1
    <3>2. CASE writer[w].at # "file" BY <1>6, <2>2, <2>3, <3>2
    <3> QED BY <3>1, <3>2
  <2>4. CASE f = backup'
    <3>1. CASE writer[w].at = "backup"
      <4>1. backup \in {file, backup} \ {None} BY <1>0, <3>1 DEF WriterSound
      <4> QED BY <1>6, <2>1, <2>2, <2>4, <3>1, <4>1
    <3>2. CASE writer[w].at # "backup" BY <1>6, <2>2, <2>4, <3>2
    <3> QED BY <3>1, <3>2
  <2> QED BY <2>3, <2>4
\* A writer alone has the log open, and knows how much is in it.
<1>11. ASSUME ~shared
       PROVE  /\ writer[w].at = "file" /\ file \in Files /\ writer[w].size = file.bytes
              /\ ~writer[w].failed =>
                    \/ file.bytes + writer[w].line <= MaxSize
                    \/ file.bytes = 0 /\ file.extra = 0
              /\ UNCHANGED backup
  BY <1>0, <1>6, <1>11 DEF WriterSound, KnowsItsFile
<1>12. DiskBounded'
  <2>1. ASSUME NEW f \in Files,
               \/ f = file /\ writer[w].at = "file"
               \/ f = backup /\ writer[w].at = "backup"
        PROVE  \A v \in Writers : Fits(Added(w, f, lines, len).by[v])
    <3>1. \A v \in Writers : Fits(f.by[v])
      BY <1>0, <2>1 DEF LogInv, DiskBounded, WriterSound
    <3>2. Share(w) = f.by[w] BY <2>1 DEF Share
    <3> QED BY <1>5, <1>9, <3>1, <3>2
  <2>2. ASSUME ~shared
        PROVE  \E bytes \in 0..file'.bytes : Fits(bytes) /\ file'.bytes = bytes + file'.extra
    <3>1. PICK bytes \in 0..file.bytes : Fits(bytes) /\ file.bytes = bytes + file.extra
      BY <1>0, <1>11, <2>2 DEF LogInv, DiskBounded, WriterSound
    <3>2. file.bytes \in Nat /\ file.extra \in Nat BY <1>11, <2>2 DEF Files
    <3>3. file'.bytes = file.bytes + len
          /\ file'.extra = IF writer[w].failed THEN file.extra + len ELSE file.extra
      BY <1>5, <1>6, <1>11, <2>2
    <3>4. CASE writer[w].failed
      <4>1. bytes \in 0..file'.bytes /\ file'.bytes = bytes + file'.extra
        BY <1>1, <3>1, <3>2, <3>3, <3>4
      <4> QED BY <3>1, <4>1
    <3>5. CASE ~writer[w].failed
      <4>0. file'.extra = file.extra /\ bytes \in Nat BY <3>2, <3>3, <3>5
      <4>1. bytes + len \in 0..file'.bytes /\ file'.bytes = bytes + len + file'.extra
        BY <1>1, <3>1, <3>2, <3>3, <4>0
      <4>2. Fits(bytes + len)
        <5>1. CASE file.bytes + writer[w].line <= MaxSize BY <1>0, <1>1, <3>1, <3>2, <5>1 DEF Fits
        <5>2. CASE file.bytes = 0 /\ file.extra = 0 BY <1>0, <1>1, <3>1, <5>2 DEF Fits
        <5> QED BY <1>11, <2>2, <3>5, <5>1, <5>2
      <4> QED BY <4>1, <4>2
    <3> QED BY <3>4, <3>5
  <2>3. \A f \in {file, backup} \ {None} : \A v \in Writers : Fits(f.by[v])
    BY DEF LogInv, DiskBounded
  <2>4. ASSUME NEW f \in {file', backup'} \ {None} PROVE \A v \in Writers : Fits(f.by[v])
    <3>1. CASE f = file'
      <4>1. CASE writer[w].at = "file"
        <5>1. \A v \in Writers : Fits(Added(w, file, lines, len).by[v]) BY <1>6, <2>1, <4>1
        <5> QED BY <1>6, <3>1, <4>1, <5>1
      <4>2. CASE writer[w].at # "file" BY <1>6, <2>3, <2>4, <3>1, <4>2
      <4> QED BY <4>1, <4>2
    <3>2. CASE f = backup'
      <4>1. CASE writer[w].at = "backup" BY <1>6, <2>1, <3>2, <4>1
      <4>2. CASE writer[w].at # "backup" BY <1>6, <2>3, <2>4, <3>2, <4>2
      <4> QED BY <4>1, <4>2
    <3> QED BY <3>1, <3>2
  <2>5. ASSUME ~shared, NEW f \in {file', backup'} \ {None}
        PROVE  \E bytes \in 0..f.bytes : Fits(bytes) /\ f.bytes = bytes + f.extra
    <3>1. CASE f = file' BY <2>2, <2>5, <3>1
    <3>2. CASE f = backup' BY <1>11, <2>5, <3>2 DEF LogInv, DiskBounded
    <3> QED BY <3>1, <3>2
  <2>6. \A bytes : Fits(bytes)' <=> Fits(bytes) BY DEF Fits
  <2> QED BY <2>4, <2>5, <2>6 DEF DiskBounded
<1>13. NewestKept'
  <2> SUFFICES ASSUME ~shared
               PROVE  LET lost == logged' - Len(OnDisk') IN
                      /\ \A i \in 1..Len(OnDisk') : OnDisk'[i] = lost + i
                      /\ lost # 0 =>
                           \E l \in Lengths : Bytes(backup)' + Bytes(file)' + l > MaxSize
    BY DEF NewestKept
  <2>1. /\ file' # None /\ file # None /\ file'.lines = file.lines \o lines
        /\ file'.bytes = file.bytes + len /\ file.bytes \in Nat
    BY <1>5, <1>6, <1>11, LogAssumption DEF Files
  <2>2. Lines(backup) \in Seq(Nat) /\ file.lines \in Seq(Nat) /\ logged \in Nat
    BY <1>0, <1>11 DEF LogTypes, Lines, Files
  <2>3. /\ OnDisk = Lines(backup) \o file.lines
        /\ OnDisk' = Lines(backup) \o (file.lines \o lines)
    BY <1>11, <2>1 DEF OnDisk, Lines
  <2>4. \A i \in 1..Len(OnDisk) : OnDisk[i] = logged - Len(OnDisk) + i BY DEF LogInv, NewestKept
  <2>5. /\ \A i \in 1..Len(OnDisk') : OnDisk'[i] = (logged - Len(OnDisk)) + i
        /\ logged' - Len(OnDisk') = logged - Len(OnDisk)
    <3>1. CASE lines = <<>> /\ logged' = logged
      <4>1. file.lines \o lines = file.lines BY <2>2, <3>1
      <4> QED BY <2>3, <2>4, <3>1, <4>1
    <3>2. CASE lines = <<logged + 1>> /\ logged' = logged + 1
      <4>1. /\ Len(OnDisk') = Len(OnDisk) + 1
            /\ \A i \in 1..Len(OnDisk') : OnDisk'[i] = logged - Len(OnDisk) + i
        BY <2>2, <2>3, <2>4, <3>2, OneMore
      <4>2. Len(OnDisk) \in Nat BY <2>2, <2>3
      <4> QED BY <2>2, <3>2, <4>1, <4>2
    <3> QED BY <3>1, <3>2
  <2>6. /\ Bytes(backup)' = Bytes(backup) /\ Bytes(backup) \in Nat
        /\ Bytes(file) = file.bytes /\ Bytes(file)' = file.bytes + len
    BY <1>0, <1>11, <2>1 DEF Bytes, LogTypes, Files
  <2>7. ASSUME logged - Len(OnDisk) # 0
        PROVE  \E l \in Lengths : Bytes(backup)' + Bytes(file)' + l > MaxSize
    <3>1. PICK l \in Lengths : Bytes(backup) + Bytes(file) + l > MaxSize
      BY <2>7 DEF LogInv, NewestKept
    <3>2. l \in Nat BY LogAssumption
    <3> QED BY <1>0, <1>1, <2>1, <2>6, <3>1, <3>2
  <2> QED BY <2>5, <2>7
<1>14. WriterSound(w)'
  <2>1. /\ writer'[w].at = writer[w].at /\ writer'[w].pc = "idle" /\ ~writer'[w].failed
        /\ writer'[w].size = writer[w].size + len
    BY <1>2, <1>4
  <2>2. Share(w)' <= writer'[w].size
    <3>1. CASE writer[w].at = "file"
      <4>1. Share(w) = file.by[w] /\ Fits(file.by[w]) /\ Share(w)' = file'.by[w]
        BY <1>0, <2>1, <3>1 DEF Share, LogInv, DiskBounded, WriterSound
      <4> QED BY <1>6, <1>9, <2>1, <3>1, <4>1
    <3>2. CASE writer[w].at = "backup"
      <4>1. Share(w) = backup.by[w] /\ Fits(backup.by[w]) /\ Share(w)' = backup'.by[w]
        BY <1>0, <2>1, <3>2 DEF Share, LogInv, DiskBounded, WriterSound
      <4> QED BY <1>6, <1>9, <2>1, <3>2, <4>1
    <3>3. CASE writer[w].at \notin {"file", "backup"}
      <4>1. Share(w)' = 0 /\ writer[w].size \in Nat BY <1>0, <2>1, <3>3 DEF Share, WriterRecords
      <4> QED BY <1>1, <2>1, <4>1
    <3> QED BY <3>1, <3>2, <3>3
  <2>3. (writer[w].at = "file" => file' # None) /\ (writer[w].at = "backup" => backup' # None)
    BY <1>5, <1>6
  <2>4. ~shared' => KnowsItsFile(w)'
    <3>1. ASSUME ~shared PROVE file'.bytes = file.bytes + len BY <1>5, <1>6, <1>11, <3>1
    <3> QED BY <1>11, <2>1, <3>1 DEF KnowsItsFile
  <2> QED BY <2>1, <2>2, <2>3, <2>4 DEF WriterSound
<1>15. ASSUME NEW v \in Writers \ {w} PROVE WriterSound(v)'
  <2>1. WriterSound(v) /\ writer'[v] = writer[v] BY <1>4 DEF LogInv
  <2>2. /\ file # None => file' # None /\ file'.by[v] = file.by[v]
        /\ file = None => file' = None
        /\ backup # None => backup' # None /\ backup'.by[v] = backup.by[v]
    BY <1>5, <1>6, LogAssumption
  <2>3. Share(v)' = Share(v) BY <2>1, <2>2 DEF Share, WriterSound
  <2>4. ASSUME ~shared PROVE KnowsItsFile(v)'
    <3>1. writer[v].pc = "off" BY <2>4 DEF LogInv, OneRuns
    <3>2. writer[v].at = "nowhere" BY <2>1, <3>1 DEF WriterSound
    <3> QED BY <2>1, <3>1, <3>2 DEF KnowsItsFile
  <2> QED BY <2>1, <2>2, <2>3, <2>4 DEF WriterSound
<1> QED BY <1>7, <1>8, <1>10, <1>12, <1>13, <1>14, <1>15 DEF LogInv
-----------------------------------------------------------------------------
\* The steps that open the file.
LEMMA KeepOpens ==
    ASSUME LogInv, NEW w \in Writers, Start(w) \/ OpenForLine(w) \/ OpenFresh(w) \/ OpenAgain(w),
           file' = OpenedFile, writer'[w].at = "file"
    PROVE  LogInv'
<1>0. /\ LogTypes /\ WriterSound(w) /\ writer[w] \in WriterRecords
      /\ Bytes(file) \in Nat /\ SizeAtOpen = Bytes(file)
  BY DEF LogInv, LogTypes, Bytes, Files, SizeAtOpen
<1>1. ASSUME NEW next \in {"idle", "append", "close"}, NEW failed \in BOOLEAN, NEW x,
             x = [writer[w] EXCEPT !.pc = next, !.at = "file", !.size = SizeAtOpen, !.failed = failed]
      PROVE  /\ x \in WriterRecords /\ x.pc = next /\ x.at = "file" /\ x.size = Bytes(file)
             /\ x.line = writer[w].line /\ x.failed = failed
  BY <1>0, <1>1 DEF WriterRecords, Places
<1>2. ASSUME NEW next \in {"idle", "append", "close"}, Opened(w, next)
      PROVE  \E x : /\ writer' = [writer EXCEPT ![w] = x]
                    /\ x = [writer[w] EXCEPT !.pc = next, !.at = "file", !.size = SizeAtOpen,
                                             !.failed = writer[w].failed]
  BY <1>0, <1>2 DEF Opened, WriterRecords
<1>3. CASE Start(w)
  <2>1. PICK x : /\ writer' = [writer EXCEPT ![w] = x]
                 /\ x = [writer[w] EXCEPT !.pc = "idle", !.at = "file", !.size = SizeAtOpen,
                                          !.failed = writer[w].failed]
    BY <1>2, <1>3 DEF Start
  <2>2. writer[w].failed = FALSE BY <1>0, <1>3 DEF Start, WriterSound, WriterRecords
  <2>3. /\ x \in WriterRecords /\ x.pc = "idle" /\ x.at = "file" /\ x.size = Bytes(file)
        /\ ~x.failed
    BY <1>1, <2>1, <2>2
  <2>4. /\ UNCHANGED <<backup, logged>>
        /\ shared' = (shared \/ \E v \in Writers \ {w} : writer[v].pc # "off")
    BY <1>3 DEF Start
  <2> QED BY <2>1, <2>3, <2>4, WriterOpens
<1>4. CASE OpenForLine(w)
  <2> DEFINE after == IF SizeAtOpen + writer[w].line > MaxSize THEN "close" ELSE "append"
  <2>1. /\ writer[w].pc = "open" /\ writer[w].failed = FALSE /\ writer[w].at = "nowhere"
        /\ writer[w].line \in Lengths
    BY <1>0, <1>4 DEF OpenForLine, WriterSound, WriterRecords
  <2>2. ~Refuse(w)
    <3>1. Done(writer[w]).at = writer[w].at BY <1>0 DEF Done, WriterRecords
    <3> QED BY <1>0, <2>1, <3>1 DEF Refuse, LogTypes
  <2>3. Opened(w, after) /\ after \in {"idle", "append", "close"}
    BY <1>4, <2>2 DEF OpenForLine, OpenFails
  <2> HIDE DEF after
  <2>4. PICK x : /\ writer' = [writer EXCEPT ![w] = x]
                 /\ x = [writer[w] EXCEPT !.pc = after, !.at = "file", !.size = SizeAtOpen,
                                          !.failed = writer[w].failed]
    BY <1>2, <2>3
  <2>5. /\ x \in WriterRecords /\ x.pc = after /\ x.at = "file" /\ x.size = Bytes(file)
        /\ x.line = writer[w].line /\ ~x.failed
    BY <1>0, <2>1, <2>3, <2>4 DEF WriterRecords, Places
  <2>6. /\ x.pc \in {"append", "close"}
        /\ x.pc = "close" => x.size + x.line > MaxSize
        /\ x.pc = "append" => x.size + x.line <= MaxSize
    <3>1. MaxSize \in Nat /\ x.line \in Nat BY <2>1, <2>5, LogAssumption
    <3> QED BY <1>0, <2>5, <3>1 DEF after
  <2>7. UNCHANGED <<backup, logged>> /\ shared' = shared BY <1>4 DEF OpenForLine
  <2> QED BY <2>1, <2>4, <2>5, <2>6, <2>7, WriterOpens
<1>5. CASE OpenFresh(w)
  <2>1. /\ writer[w].pc = "fresh" /\ writer[w].failed = FALSE /\ writer[w].at = "nowhere"
        /\ writer[w].line \in Lengths
    BY <1>0, <1>5 DEF OpenFresh, WriterSound, WriterRecords
  <2>2. ~Goto(w, "again")
    BY <1>0, <2>1 DEF Goto, LogTypes, WriterRecords
  <2>3. Opened(w, "append") BY <1>5, <2>2 DEF OpenFresh, OpenFails
  <2>4. PICK x : /\ writer' = [writer EXCEPT ![w] = x]
                 /\ x = [writer[w] EXCEPT !.pc = "append", !.at = "file", !.size = SizeAtOpen,
                                          !.failed = writer[w].failed]
    BY <1>2, <2>3
  <2>5. /\ x \in WriterRecords /\ x.pc = "append" /\ x.at = "file" /\ x.size = Bytes(file)
        /\ x.line = writer[w].line /\ ~x.failed
    BY <1>1, <2>1, <2>4
  <2>6. UNCHANGED <<backup, logged>> /\ shared' = shared BY <1>5 DEF OpenFresh
  <2> QED BY <2>1, <2>4, <2>5, <2>6, WriterOpens
<1>6. CASE OpenAgain(w)
  <2> DEFINE x == [writer[w] EXCEPT !.pc = "append", !.at = "file", !.size = SizeAtOpen,
                                    !.failed = TRUE]
  <2>1. /\ writer[w].pc = "again" /\ writer[w].at = "nowhere" /\ writer[w].line \in Lengths
    BY <1>0, <1>6 DEF OpenAgain, WriterSound
  <2>2. ~Refuse(w)
    <3>1. Done(writer[w]).at = writer[w].at BY <1>0 DEF Done, WriterRecords
    <3> QED BY <1>0, <2>1, <3>1 DEF Refuse, LogTypes
  <2>3. writer' = [writer EXCEPT ![w] = x]
    BY <1>0, <1>6, <2>2 DEF OpenAgain, OpenFails, LogTypes
  <2>4. /\ x \in WriterRecords /\ x.pc = "append" /\ x.at = "file" /\ x.size = Bytes(file)
        /\ x.line = writer[w].line /\ x.failed = TRUE
    BY <1>1
  <2> HIDE DEF x
  <2>5. UNCHANGED <<backup, logged>> /\ shared' = shared BY <1>6 DEF OpenAgain
  <2> QED BY <2>1, <2>3, <2>4, <2>5, WriterOpens
<1> QED BY <1>3, <1>4, <1>5, <1>6

\* A writer fails to open the file, which is then as it was or empty.
LEMMA WriterFailsToOpen ==
    ASSUME LogInv, NEW w \in Writers, file' \in {file, OpenedFile},
           UNCHANGED <<backup, logged, shared>>,
           \/ writer[w].pc = "fresh" /\ Goto(w, "again")
           \/ writer[w].pc \in {"open", "again"} /\ Refuse(w)
    PROVE  LogInv'
<1>0. /\ LogTypes /\ WriterSound(w) /\ writer[w] \in WriterRecords /\ writer[w].size \in Nat
      /\ writer[w].at = "nowhere" /\ writer[w].line \in Lengths /\ ~writer[w].failed
  BY DEF LogInv, LogTypes, WriterRecords, WriterSound
<1>1. PICK x \in WriterRecords :
         /\ writer' = [writer EXCEPT ![w] = x]
         /\ x.at = "nowhere" /\ x.pc \in {"idle", "again"} /\ ~x.failed
         /\ x.pc = "again" => x.line \in Lengths
  <2>1. CASE writer[w].pc = "fresh" /\ Goto(w, "again")
    <3> DEFINE y == [writer[w] EXCEPT !.pc = "again"]
    <3>1. writer' = [writer EXCEPT ![w] = y] BY <1>0, <2>1 DEF Goto, LogTypes
    <3>2. /\ y \in WriterRecords /\ y.pc = "again" /\ y.at = "nowhere" /\ ~y.failed
          /\ y.line \in Lengths
      BY <1>0 DEF WriterRecords
    <3> QED BY <3>1, <3>2
  <2>2. CASE writer[w].pc \in {"open", "again"} /\ Refuse(w)
    <3> DEFINE y == Done(writer[w])
    <3>1. writer' = [writer EXCEPT ![w] = y] BY <2>2 DEF Refuse
    <3>2. y \in WriterRecords /\ y.pc = "idle" /\ y.at = "nowhere" /\ ~y.failed
      BY <1>0 DEF Done, WriterRecords
    <3> QED BY <3>1, <3>2
  <2> QED BY <2>1, <2>2
<1>2. /\ writer' \in [Writers -> WriterRecords] /\ writer'[w] = x
      /\ \A v \in Writers \ {w} : writer'[v] = writer[v]
  BY <1>0, <1>1 DEF LogTypes
<1>3. CASE file' = file
  <2>1. WriterSound(w)'
    <3>1. Share(w)' = 0 /\ x.size \in Nat BY <1>1, <1>2 DEF Share, WriterRecords
    <3> QED BY <1>1, <1>2, <3>1 DEF WriterSound, KnowsItsFile
  <2>2. writer[w].pc # "off" OBVIOUS
  <2> QED BY <1>1, <1>3, <2>1, <2>2, WriterMoves
<1>4. CASE file = None
  <2>1. CASE file' = None BY <1>3, <1>4, <2>1
  <2>2. CASE file' # None
    <3>1. /\ file' \in Files /\ file'.bytes = 0 /\ file'.extra = 0 /\ Lines(file') = Lines(file)
          /\ \A v \in Writers : file'.by[v] = 0
      <4>1. Bytes(file) = 0 BY <1>4 DEF Bytes
      <4>2. file' = OpenedFile BY <1>4, <2>2
      <4> QED BY <1>0, <1>4, <4>1, <4>2, OpenedIsFile
    <3>2. LogTypes' BY <1>0, <1>2, <3>1 DEF LogTypes
    <3>3. OneRuns' BY <1>1, <1>2 DEF LogInv, OneRuns
    <3>4. SharesCount' BY <3>1 DEF LogInv, SharesCount
    <3>5. DiskBounded'
      <4>1. Fits(0) BY LogAssumption DEF Fits
      <4>2. /\ \A v \in Writers : Fits(file'.by[v])
            /\ \E bytes \in 0..file'.bytes : Fits(bytes) /\ file'.bytes = bytes + file'.extra
        BY <3>1, <4>1
      <4> QED BY <4>2 DEF LogInv, DiskBounded, Fits
    <3>6. NewestKept'
      <4>1. OnDisk' = OnDisk BY <3>1 DEF OnDisk, Lines
      <4>2. Bytes(file)' = Bytes(file) /\ Bytes(backup)' = Bytes(backup)
        BY <1>4, <2>2, <3>1 DEF Bytes
      <4> QED BY <4>1, <4>2 DEF LogInv, NewestKept
    <3>7. WriterSound(w)'
      <4>1. Share(w)' = 0 /\ x.size \in Nat BY <1>1, <1>2 DEF Share, WriterRecords
      <4> QED BY <1>1, <1>2, <4>1 DEF WriterSound, KnowsItsFile
    <3>8. ASSUME NEW v \in Writers \ {w} PROVE WriterSound(v)'
      <4>1. WriterSound(v) /\ writer'[v] = writer[v] BY <1>2 DEF LogInv
      <4>2. Share(v)' = Share(v) BY <1>4, <4>1 DEF Share, WriterSound
      <4>3. ~shared => writer[v].pc = "off" /\ writer[v].at = "nowhere"
        BY <4>1 DEF LogInv, OneRuns, WriterSound
      <4>4. ~shared => KnowsItsFile(v)' BY <4>1, <4>3 DEF WriterSound, KnowsItsFile
      <4> QED BY <2>2, <3>1, <4>1, <4>2, <4>4 DEF WriterSound
    <3> QED BY <3>2, <3>3, <3>4, <3>5, <3>6, <3>7, <3>8 DEF LogInv
  <2> QED BY <2>1, <2>2
<1>5. file # None => file' = file BY DEF OpenedFile
<1> QED BY <1>3, <1>4, <1>5

\* The steps of one writer that leave the files alone.
LEMMA KeepMoves ==
    ASSUME LogInv, NEW w \in Writers, UNCHANGED <<file, backup, logged, shared>>,
           \/ Close(w) \/ Exit(w) \/ CloseFull(w)
           \/ \E len \in Lengths : Write(w, len)
           \/ writer[w].pc = "append" /\ Refuse(w)
    PROVE  LogInv'
<1>0. /\ LogTypes /\ WriterSound(w) /\ writer[w] \in WriterRecords /\ writer[w].size \in Nat
  BY DEF LogInv, LogTypes, WriterRecords
<1>1. ASSUME NEW x \in WriterRecords, writer' = [writer EXCEPT ![w] = x]
      PROVE  /\ writer'[w] = x
             /\ Share(w)' = IF x.at = "file" THEN file.by[w]
                            ELSE IF x.at = "backup" THEN backup.by[w] ELSE 0
  <2>1. writer'[w] = x BY <1>0, <1>1 DEF LogTypes
  <2> QED BY <2>1 DEF Share
<1>2. ASSUME NEW x \in WriterRecords, writer' = [writer EXCEPT ![w] = x],
             x.pc # "off" => writer[w].pc # "off",
             ~x.failed, x.at \in {"nowhere", writer[w].at}, x.pc # "append", x.pc # "fresh",
             x.size = IF x.at = "nowhere" THEN 0 ELSE writer[w].size,
             x.pc \notin {"off", "idle"} => x.line \in Lengths,
             x.pc \in {"off", "open", "remove", "rename", "fresh", "again"} => x.at = "nowhere",
             ~shared /\ x.pc \in {"close", "remove", "rename"} =>
                file # None /\ file.bytes + x.line > MaxSize,
             x.pc = "close" => x.at # "nowhere"
      PROVE  LogInv'
  <2>1. writer'[w] = x BY <1>1, <1>2
  <2>2. Share(w)' <= x.size
    <3>1. CASE x.at = "nowhere"
      <4>1. Share(w)' = 0 /\ x.size = 0 BY <1>1, <1>2, <3>1
      <4> QED BY <4>1
    <3>2. CASE x.at # "nowhere"
      <4>1. Share(w)' = Share(w) /\ x.size = writer[w].size BY <1>1, <1>2, <3>2 DEF Share
      <4> QED BY <1>0, <4>1 DEF WriterSound
    <3> QED BY <3>1, <3>2
  <2>3. ~shared => KnowsItsFile(w)' BY <1>0, <1>2, <2>1 DEF WriterSound, KnowsItsFile
  <2>4. WriterSound(w)' BY <1>0, <1>2, <2>1, <2>2, <2>3 DEF WriterSound
  <2> QED BY <1>2, <2>4, WriterMoves
<1>3. CASE Close(w)
  <2> DEFINE x == [writer[w] EXCEPT !.at = "nowhere", !.size = 0]
  <2>1. writer' = [writer EXCEPT ![w] = x] BY <1>0, <1>3 DEF Close, LogTypes
  <2>2. writer[w].pc = "idle" BY <1>3 DEF Close
  <2>3. x \in WriterRecords /\ x.pc = "idle" /\ x.at = "nowhere" /\ x.size = 0 /\ ~x.failed
    BY <1>0, <2>2 DEF WriterRecords, Places, WriterSound
  <2> HIDE DEF x
  <2> QED BY <1>2, <2>1, <2>2, <2>3
<1>4. CASE Exit(w)
  <2>1. /\ Off \in WriterRecords /\ Off.pc = "off" /\ Off.at = "nowhere" /\ Off.size = 0
        /\ ~Off.failed
    BY DEF Off, WriterRecords, Places
  <2>2. writer' = [writer EXCEPT ![w] = Off] BY <1>4 DEF Exit
  <2> QED BY <1>2, <2>1, <2>2
<1>5. ASSUME NEW len \in Lengths, Write(w, len) PROVE LogInv'
  <2> DEFINE after == IF writer[w].at = "nowhere" THEN "open"
                      ELSE IF Full(w, len) THEN "close" ELSE "append"
             x == [writer[w] EXCEPT !.line = len, !.pc = after]
  <2>1. writer' = [writer EXCEPT ![w] = x] BY <1>0, <1>5 DEF Write, LogTypes
  <2>2. writer[w].pc = "idle" BY <1>5 DEF Write
  <2>3. after \in {"open", "close", "append"} OBVIOUS
  <2> HIDE DEF after
  <2>4. /\ x \in WriterRecords /\ x.pc = after /\ x.at = writer[w].at
        /\ x.size = writer[w].size /\ x.line = len /\ ~x.failed
    BY <1>0, <2>2, <2>3 DEF WriterRecords, WriterSound
  <2> HIDE DEF x
  <2>5. writer'[w] = x /\ Share(w)' = Share(w) BY <1>1, <2>1, <2>4 DEF Share
  <2>6. len \in Nat /\ MaxSize \in Nat BY LogAssumption
  <2>7. /\ after = "open" <=> writer[w].at = "nowhere"
        /\ after = "close" => writer[w].size + len > MaxSize
        /\ after = "append" => writer[w].size + len <= MaxSize
    BY <1>0, <2>6 DEF after, Full
  <2>8. ~shared => KnowsItsFile(w)'
    BY <1>0, <2>3, <2>4, <2>5, <2>6, <2>7 DEF WriterSound, KnowsItsFile
  <2>9. WriterSound(w)'
    BY <1>0, <2>2, <2>3, <2>4, <2>5, <2>7, <2>8 DEF WriterSound
  <2> QED BY <2>1, <2>2, <2>4, <2>9, WriterMoves
<1>6. CASE CloseFull(w)
  <2>1. PICK after \in {"remove", "again"} :
           writer' = [writer EXCEPT ![w].at = "nowhere", ![w].size = 0, ![w].pc = after]
    BY <1>6 DEF CloseFull
  <2> DEFINE x == [writer[w] EXCEPT !.at = "nowhere", !.size = 0, !.pc = after]
  <2>2. writer' = [writer EXCEPT ![w] = x] BY <1>0, <2>1 DEF LogTypes
  <2>3. writer[w].pc = "close" BY <1>6 DEF CloseFull
  <2>4. /\ x \in WriterRecords /\ x.pc = after /\ x.at = "nowhere" /\ x.size = 0
        /\ x.line = writer[w].line /\ ~x.failed
    BY <1>0, <2>1, <2>3 DEF WriterRecords, Places, WriterSound
  <2> HIDE DEF x
  <2>5. /\ x.line \in Lengths
        /\ ~shared => file # None /\ file.bytes + x.line > MaxSize
    BY <1>0, <2>3, <2>4 DEF WriterSound, KnowsItsFile
  <2> QED BY <1>2, <2>1, <2>2, <2>3, <2>4, <2>5
<1>7. CASE writer[w].pc = "append" /\ Refuse(w)
  <2> DEFINE x == Done(writer[w])
  <2>1. writer' = [writer EXCEPT ![w] = x] BY <1>7 DEF Refuse
  <2>2. /\ x \in WriterRecords /\ x.pc = "idle" /\ x.at = writer[w].at
        /\ x.size = writer[w].size /\ ~x.failed
    BY <1>0 DEF Done, WriterRecords
  <2> HIDE DEF x
  <2>3. writer'[w] = x /\ Share(w)' = Share(w) BY <1>1, <2>1, <2>2 DEF Share
  <2>4. WriterSound(w)'
    BY <1>0, <2>2, <2>3 DEF WriterSound, KnowsItsFile
  <2> QED BY <1>7, <2>1, <2>2, <2>4, WriterMoves
<1> QED BY <1>3, <1>4, <1>5, <1>6, <1>7

LEMMA LogStep == LogInv /\ [LogNext]_logVars => LogInv'
<1> SUFFICES ASSUME LogInv, [LogNext]_logVars PROVE LogInv'
  OBVIOUS
<1>1. CASE UNCHANGED logVars
  <2>1. LogTypes' /\ OneRuns' /\ SharesCount' /\ DiskBounded'
    BY <1>1 DEF LogInv, logVars, LogTypes, OneRuns, SharesCount, DiskBounded
  <2>2. NewestKept' BY <1>1 DEF LogInv, logVars, NewestKept, OnDisk, Lines, Bytes
  <2>3. \A w \in Writers : WriterSound(w)'
    BY <1>1 DEF LogInv, logVars, WriterSound, KnowsItsFile, Share
  <2> QED BY <2>1, <2>2, <2>3 DEF LogInv
<1>2. ASSUME NEW w \in Writers, WriterStep(w) PROVE LogInv'
  <2>0. /\ LogTypes /\ WriterSound(w) /\ writer[w] \in WriterRecords /\ w \in DOMAIN writer
    BY DEF LogInv, LogTypes
  <2>1. ASSUME NEW next, Opened(w, next) PROVE file' = OpenedFile /\ writer'[w].at = "file"
    <3>1. writer' = [writer EXCEPT ![w].pc = next, ![w].at = "file", ![w].size = SizeAtOpen]
      BY <2>1 DEF Opened
    <3>2. writer'[w] = [writer[w] EXCEPT !.pc = next, !.at = "file", !.size = SizeAtOpen]
      BY <2>0, <3>1 DEF LogTypes
    <3>3. writer'[w].at = "file" BY <2>0, <3>2 DEF WriterRecords
    <3> QED BY <2>1, <3>3 DEF Opened
  <2>2. CASE Start(w) BY <2>1, <2>2, KeepOpens DEF Start
  <2>3. CASE Close(w) BY <2>3, KeepMoves DEF Close
  <2>4. CASE Exit(w) BY <2>4, KeepMoves DEF Exit
  <2>5. CASE \E len \in Lengths : Write(w, len) BY <2>5, KeepMoves DEF Write
  <2>6. CASE OpenForLine(w)
    <3>1. CASE Refuse(w) /\ file' \in {file, OpenedFile}
      BY <2>6, <3>1, WriterFailsToOpen DEF OpenForLine
    <3>2. CASE ~(Refuse(w) /\ file' \in {file, OpenedFile}) BY <2>1, <2>6, <3>2, KeepOpens DEF OpenForLine, OpenFails
    <3> QED BY <3>1, <3>2
  <2>7. CASE CloseFull(w)
    <3>1. UNCHANGED <<file, backup, logged, shared>> BY <2>7 DEF CloseFull
    <3> QED BY <2>7, <3>1, KeepMoves
  <2>8. CASE RemoveBackup(w) BY <2>8, KeepRemoved
  <2>9. CASE RenameFile(w) BY <2>9, KeepRenamed
  <2>10. CASE OpenFresh(w)
    <3>1. CASE Goto(w, "again") /\ file' \in {file, OpenedFile}
      BY <2>10, <3>1, WriterFailsToOpen DEF OpenFresh
    <3>2. CASE ~(Goto(w, "again") /\ file' \in {file, OpenedFile})
      BY <2>1, <2>10, <3>2, KeepOpens DEF OpenFresh, OpenFails
    <3> QED BY <3>1, <3>2
  <2>11. CASE OpenAgain(w)
    <3>1. CASE Refuse(w) /\ file' \in {file, OpenedFile}
      BY <2>11, <3>1, WriterFailsToOpen DEF OpenAgain
    <3>2. CASE ~(Refuse(w) /\ file' \in {file, OpenedFile})
      <4>1. /\ file' = OpenedFile
            /\ writer' = [writer EXCEPT ![w].pc = "append", ![w].at = "file",
                                        ![w].size = SizeAtOpen, ![w].failed = TRUE]
        BY <2>11, <3>2 DEF OpenAgain, OpenFails
      <4>2. writer'[w].at = "file" BY <2>0, <4>1 DEF LogTypes, WriterRecords
      <4> QED BY <2>11, <4>1, <4>2, KeepOpens
    <3> QED BY <3>1, <3>2
  <2>12. CASE AppendLine(w)
    <3>1. /\ writer[w].pc = "append" /\ logged' = logged + 1 /\ shared' = shared
          /\ Put(w, <<logged + 1>>, writer[w].line)
      BY <2>12 DEF AppendLine
    <3>2. <<logged + 1>> \in Seq(Nat) BY <2>0 DEF LogTypes
    <3>3. writer[w].line \in 1..writer[w].line
      <4>1. writer[w].line \in Lengths BY <2>0, <3>1 DEF WriterSound
      <4>2. writer[w].line \in Nat \ {0} BY <4>1, LogAssumption
      <4> QED BY <4>2
    <3> QED BY <3>1, <3>2, <3>3, WriterPuts
  <2>13. CASE AppendFails(w)
    <3>1. CASE Refuse(w) /\ UNCHANGED <<file, backup>> BY <2>13, <3>1, KeepMoves DEF AppendFails
    <3>2. CASE \E len \in 1..(writer[w].line - 1) : Put(w, <<>>, len)
      <4>1. PICK len \in 1..(writer[w].line - 1) : Put(w, <<>>, len) BY <3>2
      <4>2. writer[w].pc = "append" /\ logged' = logged /\ shared' = shared
        BY <2>13 DEF AppendFails
      <4>3. len \in 1..writer[w].line
        <5>1. writer[w].line \in Lengths BY <2>0, <4>2 DEF WriterSound
        <5>2. writer[w].line \in Nat BY <5>1, LogAssumption
        <5> QED BY <5>2
      <4>4. <<>> \in Seq(Nat) OBVIOUS
      <4> QED BY <4>1, <4>2, <4>3, <4>4, WriterPuts
    <3> QED BY <2>13, <3>1, <3>2 DEF AppendFails
  <2> QED
    BY <1>2, <2>2, <2>3, <2>4, <2>5, <2>6, <2>7, <2>8, <2>9, <2>10, <2>11, <2>12, <2>13
       DEF WriterStep
<1> QED BY <1>1, <1>2 DEF LogNext

THEOREM LogInvHolds == LogSpec => []LogInv
BY LogInitially, LogStep, PTL DEF LogSpec

\* However many instances write to the log, and whichever calls to the file
\* system fail, each has put at most one file's worth into the log or its backup
\* (or one longer line), and one that runs alone never lets them grow past
\* the limit but by the lines of rotations that failed (Write, rotate).
THEOREM DiskBoundedHolds == LogSpec => []DiskBounded
<1>1. LogInv => DiskBounded BY DEF LogInv
<1> QED BY <1>1, LogInvHolds, PTL

\* With one instance at a time, however long it runs, wherever it ends and
\* whichever calls fail, the log and its backup hold the newest lines without
\* a gap, and lines are lost only when a file's worth less one line is kept.
THEOREM NewestKeptHolds == LogSpec => []NewestKept
<1>1. LogInv => NewestKept BY DEF LogInv
<1> QED BY <1>1, LogInvHolds, PTL
=============================================================================
